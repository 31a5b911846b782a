------------------------ MODULE MCCredentialRotation ------------------------
(* Symmetric instances of CredentialRotation for TLC's safety runs.  Only the   *)
(* fairness conditions tell the background reconciler from the others.         *)
EXTENDS CredentialRotation, TLC

RowSymmetry == Permutations(Devices) \cup Permutations(Keys)
               \cup Permutations(Rotations) \cup Permutations(Requests)
               \cup Permutations(Reconcilers)
=============================================================================
