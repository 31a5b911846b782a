------------------------- MODULE CredentialKeys_proofs -------------------------
(***************************************************************************)
(* Which keys a device may use, for any devices, keys and bounds: proofs   *)
(* about CredentialRotation that rest on the tables agreeing (UseInv).     *)
(*                                                                         *)
(* KeysOf(d) lists the keys of one device by the part they play: with an   *)
(* open rotation those its status calls for, without one a single active   *)
(* key.  An operation touches the keys of one device (Touches), so it is   *)
(* enough to look at that device (OthersKept).                             *)
(***************************************************************************)
EXTENDS CredentialRotation_proofs

Trusts(r, k) ==
    \/ rots[r].status \in {"requested", "staged", "validating"} /\ k = rots[r].prev
    \/ rots[r].status \in {"validating", "grace"} /\ k = rots[r].new

Roles(r) ==
    LET d == rots[r].device
    IN  \A k \in Keys :
           /\ Matches(k, d, "active") <=> Trusts(r, k)
           /\ Matches(k, d, "pending") => rots[r].status = "staged" /\ rots[r].new = k
           /\ Matches(k, d, "grace") => rots[r].status = "grace" /\ rots[r].prev = k

Stable(d) ==
    /\ \E k \in Keys : \A j \in Keys : Matches(j, d, "active") <=> j = k
    /\ \A k \in Keys : ~ Matches(k, d, "pending") /\ ~ Matches(k, d, "grace")

KeysOf(d) ==
    /\ \A r \in Rotations : IsOpen(r) /\ rots[r].device = d => Roles(r)
    /\ (\A r \in Rotations : IsOpen(r) => rots[r].device # d) => Stable(d)

InUse == {"active", "pending", "grace"}

\* Whoever is named by a row in use was created.
Owned ==
    /\ \A k \in Keys : creds[k].status \in InUse => creds[k].device \in devices
    /\ \A r \in Rotations : IsOpen(r) => rots[r].device \in devices

KeysInv == UseInv /\ Owned /\ \A d \in devices : KeysOf(d)

-----------------------------------------------------------------------------
(* An operation on rotation r of device d. *)

Touches(r, d) ==
    /\ devices' = devices /\ d \in devices
    /\ \A s \in Rotations : s # r => rots'[s] = rots[s] /\ (IsOpen(s) => rots[s].device # d)
    /\ rots'[r].device = d /\ (IsOpen(r) => rots[r].device = d)
    /\ \A k \in Keys, x \in devices, u \in InUse :
          x # d => (Matches(k, x, u)' <=> Matches(k, x, u))
    /\ \A k \in Keys : creds'[k].status \in InUse => creds'[k].device \in devices

LEMMA OthersKept ==
    ASSUME KeysInv, NEW r \in Rotations, NEW d, Touches(r, d),
           IsOpen(r)' => Roles(r)', ~ IsOpen(r)' => Stable(d)'
    PROVE  Owned' /\ \A x \in devices' : KeysOf(x)'
<1>1. Owned'
  BY DEF Touches, KeysInv, Owned, IsOpen
<1>2. ASSUME NEW s \in Rotations, IsOpen(s)', s # r
      PROVE  rots'[s] = rots[s] /\ IsOpen(s) /\ rots[s].device # d
  BY <1>2 DEF Touches, IsOpen
<1>3. KeysOf(d)'
  BY <1>2 DEF Touches, KeysOf
<1>4. ASSUME NEW x \in devices, x # d PROVE KeysOf(x)'
  <2>1. \A k \in Keys, u \in InUse : Matches(k, x, u)' <=> Matches(k, x, u)
    BY <1>4 DEF Touches
  <2>2. KeysOf(x)
    BY DEF KeysInv
  <2>3. ASSUME NEW s \in Rotations, IsOpen(s)', rots'[s].device = x PROVE Roles(s)'
    <3>1. s # r /\ rots'[s] = rots[s] /\ IsOpen(s) /\ rots[s].device = x
      BY <1>2, <1>4, <2>3 DEF Touches
    <3>2. Roles(s)
      BY <2>2, <3>1 DEF KeysOf
    <3> QED
      BY <2>1, <3>1, <3>2 DEF Roles, Trusts, InUse
  <2>4. ASSUME \A s \in Rotations : IsOpen(s)' => rots'[s].device # x PROVE Stable(x)'
    <3>1. ASSUME NEW s \in Rotations, IsOpen(s) PROVE rots[s].device # x
      <4>1. CASE s = r
        BY <1>4, <3>1, <4>1 DEF Touches
      <4>2. CASE s # r
        BY <2>4, <3>1, <4>2 DEF Touches, IsOpen
      <4> QED
        BY <4>1, <4>2
    <3>2. Stable(x)
      BY <2>2, <3>1 DEF KeysOf
    <3> QED
      BY <2>1, <3>2 DEF Stable, InUse
  <2> QED
    BY <2>3, <2>4 DEF KeysOf
<1> QED
  BY <1>1, <1>3, <1>4 DEF Touches

\* Keys of device d change their status; a new one may be added.
LEMMA TouchesKeys ==
    ASSUME KeysInv, NEW r \in Rotations, NEW d \in devices, devices' = devices,
           \A s \in Rotations : s # r => rots'[s] = rots[s] /\ (IsOpen(s) => rots[s].device # d),
           rots'[r].device = d, IsOpen(r) => rots[r].device = d,
           \A k \in Keys : \/ creds'[k] = creds[k]
                           \/ /\ creds[k].status = "none" \/ creds[k].device = d
                              /\ creds'[k].device = d
    PROVE  Touches(r, d)
  BY DEF Touches, Matches, KeysInv, Owned, InUse

-----------------------------------------------------------------------------
(* The operations. *)

LEMMA KeysUntouched ==
    ASSUME KeysInv, UNCHANGED <<rots, devices>>,
           \A k \in Keys : creds'[k].device = creds[k].device /\ creds'[k].status = creds[k].status
    PROVE  Owned' /\ \A x \in devices' : KeysOf(x)'
<1>1. \A k, x, u : Matches(k, x, u)' <=> Matches(k, x, u)
  BY DEF Matches
<1>2. \A r \in Rotations : (IsOpen(r)' <=> IsOpen(r)) /\ (Roles(r)' <=> Roles(r))
  BY <1>1 DEF IsOpen, Roles, Trusts
<1> QED
  BY <1>1, <1>2 DEF KeysInv, Owned, KeysOf, Stable

LEMMA CreateKeys ==
    ASSUME KeysInv, NEW d \in Devices, NEW k \in Keys, createDevice(d, k)
    PROVE  Owned' /\ \A x \in devices' : KeysOf(x)'
<1>1. /\ creds'[k].device = d /\ creds'[k].status = "active" /\ creds[k].status = "none"
      /\ \A j \in Keys : j # k => creds'[j] = creds[j]
      /\ devices' = devices \cup {d} /\ d \notin devices /\ rots' = rots
  BY DEF createDevice, KeysInv, UseInv, TablesInv, TypeOK, CredTable, NoCred
<1>2. Owned'
  BY <1>1 DEF KeysInv, Owned, IsOpen
<1>3. \A r \in Rotations : (IsOpen(r)' <=> IsOpen(r)) /\ (IsOpen(r) => rots[r].device \in devices)
  BY <1>1 DEF KeysInv, Owned, IsOpen
<1>4. KeysOf(d)'
  <2>1. \A j \in Keys, u \in InUse : Matches(j, d, u)' <=> j = k /\ u = "active"
    BY <1>1 DEF KeysInv, Owned, Matches, InUse
  <2>2. Stable(d)'
    BY <2>1 DEF Stable, InUse
  <2> QED
    BY <1>1, <1>3, <2>2 DEF KeysOf
<1>5. ASSUME NEW x \in devices PROVE KeysOf(x)'
  <2>1. \A j \in Keys, u \in InUse : Matches(j, x, u)' <=> Matches(j, x, u)
    BY <1>1 DEF Matches, InUse
  <2>2. KeysOf(x)
    BY DEF KeysInv
  <2>3. \A r \in Rotations : rots[r].device = x => (Roles(r)' <=> Roles(r))
    BY <1>1, <2>1 DEF Roles, Trusts, InUse
  <2>4. Stable(x)' <=> Stable(x)
    BY <2>1 DEF Stable, InUse
  <2> QED
    BY <1>1, <1>3, <2>2, <2>3, <2>4 DEF KeysOf
<1> QED
  BY <1>1, <1>2, <1>4, <1>5

LEMMA RequestKeys ==
    ASSUME KeysInv, NEW d \in Devices, NEW g \in GraceMinutes, NEW r \in Rotations,
           RequestRotation(d, g, r)
    PROVE  Touches(r, d) /\ Owned' /\ \A x \in devices' : KeysOf(x)'
<1>1. PICK k \in Keys :
        /\ ActiveKeys(d) = {k}
        /\ rots' = [rots EXCEPT ![r] = [NoRot EXCEPT !.device = d, !.prev = k,
                                          !.status = "requested", !.minutes = g]]
  BY DEF RequestRotation
<1>2. /\ rots'[r].device = d /\ rots'[r].prev = k /\ rots'[r].status = "requested"
      /\ \A s \in Rotations : s # r => rots'[s] = rots[s]
      /\ creds' = creds /\ devices' = devices /\ d \in devices /\ rots[r].status = "none"
      /\ \A s \in Rotations : IsOpen(s) => rots[s].device # d
  BY <1>1 DEF RequestRotation, NoRot, RotTable, KeysInv, UseInv, TablesInv, TypeOK, OpenRotations,
              IsOpen
<1>3. Stable(d)
  BY <1>2 DEF KeysInv, KeysOf
<1>4. Touches(r, d)
  <2>1. ~ IsOpen(r)
    BY <1>2 DEF IsOpen, openRotationStatuses
  <2> QED
    BY <1>2, <2>1, TouchesKeys
<1>5. Roles(r)'
  <2>1. \A j \in Keys : Matches(j, d, "active") <=> j = k
    BY <1>1 DEF ActiveKeys, Matches
  <2> QED
    BY <1>2, <1>3, <2>1 DEF Roles, Trusts, Stable, Matches
<1> QED
  BY <1>2, <1>4, <1>5, OthersKept DEF IsOpen, openRotationStatuses

\* What is known of an open rotation when one of its operations begins.
LEMMA OpenFacts ==
    ASSUME KeysInv, NEW r \in Rotations, IsOpen(r)
    PROVE  /\ Roles(r) /\ Agrees(r) /\ rots[r].device \in devices
           /\ \A s \in Rotations : s # r /\ IsOpen(s) => rots[s].device # rots[r].device
  BY OpenAlone DEF KeysInv, UseInv, TablesInv, RotationsAgree, KeysOf, Owned

LEMMA StageKeys ==
    ASSUME KeysInv, NEW r \in Rotations, NEW k \in Keys, StageCandidate(r, k)
    PROVE  Touches(r, rots[r].device) /\ Owned' /\ \A x \in devices' : KeysOf(x)'
<1> DEFINE d == rots[r].device
<1>1. rots[r].status = "requested" /\ IsOpen(r)
  BY DEF StageCandidate, IsOpen, openRotationStatuses
<1>2. /\ rots'[r].device = d /\ rots'[r].prev = rots[r].prev /\ rots'[r].new = k
      /\ rots'[r].status = "staged"
      /\ \A s \in Rotations : s # r => rots'[s] = rots[s]
      /\ creds'[k].device = d /\ creds'[k].status = "pending" /\ creds[k].status = "none"
      /\ \A j \in Keys : j # k => creds'[j] = creds[j]
      /\ devices' = devices
  BY DEF StageCandidate, KeysInv, UseInv, TablesInv, TypeOK, RotTable, RotRow, CredTable, NoCred
<1>3. Touches(r, d)
  BY <1>1, <1>2, OpenFacts, TouchesKeys
<1>4. Roles(r)'
  <2>1. Roles(r) /\ Matches(rots[r].prev, d, "active")
    BY <1>1, OpenFacts DEF Agrees
  <2> QED
    BY <1>1, <1>2, <2>1 DEF Roles, Trusts, Matches
<1> QED
  BY <1>2, <1>3, <1>4, OthersKept DEF IsOpen, openRotationStatuses

LEMMA ValidateKeys ==
    ASSUME KeysInv, NEW r \in Rotations, StartValidation(r)
    PROVE  Touches(r, rots[r].device) /\ Owned' /\ \A x \in devices' : KeysOf(x)'
<1> DEFINE d == rots[r].device
           n == rots[r].new
<1>1. rots[r].status = "staged" /\ IsOpen(r) /\ Matches(n, d, "pending")
  BY DEF StartValidation, IsOpen, openRotationStatuses
<1>2. /\ rots'[r].device = d /\ rots'[r].prev = rots[r].prev /\ rots'[r].new = n
      /\ rots'[r].status = "validating"
      /\ \A s \in Rotations : s # r => rots'[s] = rots[s]
      /\ creds'[n].device = d /\ creds'[n].status = "active" /\ creds[n].device = d
      /\ \A j \in Keys : j # n => creds'[j] = creds[j]
      /\ devices' = devices
  BY <1>1 DEF StartValidation, KeysInv, UseInv, TablesInv, TypeOK, RotTable, RotRow, CredTable,
              CredRow, Matches
<1>3. Touches(r, d)
  BY <1>1, <1>2, OpenFacts, TouchesKeys
<1>4. Roles(r)'
  <2>1. Roles(r) /\ n \in Keys
    BY <1>1, OpenFacts DEF Matches
  <2> QED
    BY <1>1, <1>2, <2>1 DEF Roles, Trusts, Matches
<1> QED
  BY <1>2, <1>3, <1>4, OthersKept DEF IsOpen, openRotationStatuses

\* Rolling back before the confirmation: the replacement, if any, is revoked.
LEMMA RollbackEarlyKeys ==
    ASSUME KeysInv, NEW r \in Rotations, RollbackRequested(r) \/ RollbackUnconfirmed(r)
    PROVE  Touches(r, rots[r].device) /\ Owned' /\ \A x \in devices' : KeysOf(x)'
<1> DEFINE d == rots[r].device
           n == rots[r].new
<1>1. rots[r].status \in {"requested", "staged", "validating"} /\ IsOpen(r)
  BY DEF RollbackRequested, RollbackUnconfirmed, IsOpen, openRotationStatuses
<1>2. /\ rots'[r].device = d /\ rots'[r].status = "rolled_back"
      /\ \A s \in Rotations : s # r => rots'[s] = rots[s]
      /\ devices' = devices
  BY DEF RollbackRequested, RollbackUnconfirmed, KeysInv, UseInv, TablesInv, TypeOK, RotTable,
         RotRow
<1>3. /\ Roles(r) /\ Matches(rots[r].prev, d, "active")
      /\ rots[r].status = "validating" => rots[r].prev # n
  BY <1>1, OpenFacts DEF Agrees
<1>4. \/ rots[r].status = "requested" /\ creds' = creds
      \/ /\ rots[r].status \in {"staged", "validating"} /\ n \in Keys /\ creds[n].device = d
         /\ Matches(n, d, IF rots[r].status = "staged" THEN "pending" ELSE "active")
         /\ creds'[n].device = d /\ creds'[n].status = "revoked"
         /\ \A j \in Keys : j # n => creds'[j] = creds[j]
  BY DEF RollbackRequested, RollbackUnconfirmed, KeysInv, UseInv, TablesInv, TypeOK, CredTable,
         CredRow, Matches
<1>5. Touches(r, d)
  BY <1>1, <1>2, <1>4, OpenFacts, TouchesKeys
<1>6. ASSUME NEW j \in Keys
      PROVE  /\ Matches(j, d, "active")' <=> j = rots[r].prev
             /\ ~ Matches(j, d, "pending")' /\ ~ Matches(j, d, "grace")'
  <2>1. /\ Matches(j, d, "active") <=> Trusts(r, j)
        /\ Matches(j, d, "pending") => rots[r].status = "staged" /\ n = j
        /\ ~ Matches(j, d, "grace")
    BY <1>1, <1>3 DEF Roles
  <2>2. CASE rots[r].status = "requested" /\ creds' = creds
    BY <1>1, <1>2, <2>1, <2>2 DEF Trusts, Matches
  <2>3. CASE rots[r].status # "requested" /\ j # n
    BY <1>1, <1>2, <1>4, <2>1, <2>3 DEF Trusts, Matches
  <2>4. CASE rots[r].status # "requested" /\ j = n
    BY <1>1, <1>2, <1>3, <1>4, <2>1, <2>4 DEF Trusts, Matches
  <2> QED
    BY <1>4, <2>2, <2>3, <2>4
<1>8. Stable(d)'
  BY <1>2, <1>3, <1>6 DEF Stable, Matches
<1> QED
  BY <1>2, <1>5, <1>8, OthersKept DEF IsOpen, openRotationStatuses

LEMMA RollbackGraceKeys ==
    ASSUME KeysInv, NEW r \in Rotations, RollbackGrace(r)
    PROVE  Touches(r, rots[r].device) /\ Owned' /\ \A x \in devices' : KeysOf(x)'
<1> DEFINE d == rots[r].device
           p == rots[r].prev
           n == rots[r].new
<1>1. /\ rots[r].status = "grace" /\ IsOpen(r)
      /\ Matches(p, d, "grace") /\ Matches(n, d, "active")
  BY DEF RollbackGrace, IsOpen, openRotationStatuses
<1>2. /\ rots'[r].device = d /\ rots'[r].status = "rolled_back"
      /\ \A s \in Rotations : s # r => rots'[s] = rots[s]
      /\ devices' = devices
  BY DEF RollbackGrace, KeysInv, UseInv, TablesInv, TypeOK, RotTable, RotRow
<1>3. /\ creds[p].device = d /\ creds'[p].device = d /\ creds'[p].status = "active"
      /\ creds[n].device = d /\ creds'[n].device = d /\ creds'[n].status = "revoked"
      /\ p # n /\ {p, n} \subseteq Keys
      /\ \A j \in Keys : j # p /\ j # n => creds'[j] = creds[j]
  BY <1>1 DEF RollbackGrace, KeysInv, UseInv, TablesInv, TypeOK, CredTable, CredRow, Matches
<1>4. Touches(r, d)
  BY <1>1, <1>2, <1>3, OpenFacts, TouchesKeys
<1>5. ASSUME NEW j \in Keys
      PROVE  /\ Matches(j, d, "active")' <=> j = p
             /\ ~ Matches(j, d, "pending")' /\ ~ Matches(j, d, "grace")'
  <2>1. /\ Matches(j, d, "active") <=> j = n
        /\ ~ Matches(j, d, "pending") /\ (Matches(j, d, "grace") => j = p)
    BY <1>1, OpenFacts DEF Roles, Trusts
  <2> QED
    BY <1>2, <1>3, <2>1 DEF Matches
<1>6. Stable(d)'
  BY <1>3, <1>5, <1>2 DEF Stable
<1> QED
  BY <1>2, <1>4, <1>6, OthersKept DEF IsOpen, openRotationStatuses

LEMMA ConfirmKeys ==
    ASSUME KeysInv, NEW q \in Requests, NEW r \in Rotations, ConfirmCredentialUse(q, r)
    PROVE  Touches(r, rots[r].device) /\ Owned' /\ \A x \in devices' : KeysOf(x)'
<1> DEFINE d == rots[r].device
           p == rots[r].prev
           n == rots[r].new
<1>1. /\ rots[r].status = "validating" /\ IsOpen(r)
      /\ Matches(n, d, "active") /\ Matches(p, d, "active")
  BY DEF ConfirmCredentialUse, Confirms, ConfirmApplies, IsOpen, openRotationStatuses
<1>2. /\ rots'[r].device = d /\ rots'[r].status = "grace"
      /\ rots'[r].prev = p /\ rots'[r].new = n
      /\ \A s \in Rotations : s # r => rots'[s] = rots[s]
      /\ devices' = devices
  BY DEF ConfirmCredentialUse, KeysInv, UseInv, TablesInv, TypeOK, RotTable, RotRow
<1>3. /\ creds[p].device = d /\ creds'[p].device = d /\ creds'[p].status = "grace" /\ p \in Keys
      /\ \A j \in Keys : j # p => creds'[j] = creds[j]
  BY <1>1 DEF ConfirmCredentialUse, KeysInv, UseInv, TablesInv, TypeOK, CredTable, CredRow, Matches
<1>4. Touches(r, d)
  BY <1>1, <1>2, <1>3, OpenFacts, TouchesKeys
<1>5. p # n
  BY <1>1, OpenFacts DEF Agrees
<1>6. ASSUME NEW j \in Keys
      PROVE  /\ Matches(j, d, "active")' <=> j = n
             /\ ~ Matches(j, d, "pending")' /\ (Matches(j, d, "grace")' => j = p)
  <2>1. /\ Matches(j, d, "active") <=> j \in {p, n}
        /\ ~ Matches(j, d, "pending") /\ ~ Matches(j, d, "grace")
    BY <1>1, OpenFacts DEF Roles, Trusts
  <2> QED
    BY <1>2, <1>3, <1>5, <2>1 DEF Matches
<1>7. Roles(r)'
  BY <1>2, <1>6 DEF Roles, Trusts
<1> QED
  BY <1>2, <1>4, <1>7, OthersKept DEF IsOpen, openRotationStatuses

LEMMA ReconcileKeys ==
    ASSUME KeysInv, NEW i \in Reconcilers, NEW r \in Rotations, ReconcileItem(i, r)
    PROVE  /\ UNCHANGED <<creds, rots>> \/ Touches(r, rots[r].device)
           /\ Owned' /\ \A x \in devices' : KeysOf(x)'
<1> DEFINE d == rots[r].device
           p == rots[r].prev
           n == rots[r].new
<1>0. UNCHANGED <<creds, rots>> => Owned' /\ \A x \in devices' : KeysOf(x)'
  BY KeysUntouched DEF ReconcileItem
<1> SUFFICES ASSUME Expired(r, pass[i].at), Matches(p, d, "grace")
             PROVE  Touches(r, d) /\ Owned' /\ \A x \in devices' : KeysOf(x)'
  BY <1>0 DEF ReconcileItem
<1>1. rots[r].status = "grace" /\ IsOpen(r) /\ Matches(n, d, "active")
  BY OpenFacts DEF Expired, IsOpen, openRotationStatuses, Agrees
<1>2. /\ rots'[r].device = d /\ rots'[r].status = "completed"
      /\ \A s \in Rotations : s # r => rots'[s] = rots[s]
      /\ devices' = devices
  BY DEF ReconcileItem, KeysInv, UseInv, TablesInv, TypeOK, RotTable, RotRow
<1>3. /\ creds[p].device = d /\ creds'[p].device = d /\ creds'[p].status = "revoked" /\ p \in Keys
      /\ \A j \in Keys : j # p => creds'[j] = creds[j]
  BY DEF ReconcileItem, KeysInv, UseInv, TablesInv, TypeOK, CredTable, CredRow, Matches
<1>4. Touches(r, d)
  BY <1>1, <1>2, <1>3, OpenFacts, TouchesKeys
<1>5. ASSUME NEW j \in Keys
      PROVE  /\ Matches(j, d, "active")' <=> j = n
             /\ ~ Matches(j, d, "pending")' /\ ~ Matches(j, d, "grace")'
  <2>1. /\ Matches(j, d, "active") <=> j = n
        /\ ~ Matches(j, d, "pending") /\ (Matches(j, d, "grace") => j = p)
    BY <1>1, OpenFacts DEF Roles, Trusts
  <2> QED
    BY <1>1, <1>2, <1>3, <2>1 DEF Matches
<1>6. Stable(d)'
  BY <1>1, <1>2, <1>5 DEF Stable, Matches
<1> QED
  BY <1>2, <1>4, <1>6, OthersKept DEF IsOpen, openRotationStatuses

LEMMA KeysStep == KeysInv /\ [Next]_vars => Owned' /\ \A d \in devices' : KeysOf(d)'
<1> SUFFICES ASSUME KeysInv, [Next]_vars PROVE Owned' /\ \A d \in devices' : KeysOf(d)'
  OBVIOUS
<1>1. CASE UNCHANGED <<devices, creds, rots>>
  BY <1>1, KeysUntouched
<1>2. ASSUME NEW q \in Requests, AuthTouch(q) PROVE Owned' /\ \A d \in devices' : KeysOf(d)'
  BY <1>2, KeysUntouched DEF AuthTouch, KeysInv, UseInv, TablesInv, TypeOK, CredTable, CredRow
<1>3. ASSUME NEW r \in Rotations, Rollback(r) PROVE Owned' /\ \A d \in devices' : KeysOf(d)'
  BY <1>3, RollbackEarlyKeys, RollbackGraceKeys DEF Rollback
<1> QED
  BY <1>1, <1>2, <1>3, CreateKeys, RequestKeys, StageKeys, ValidateKeys, ConfirmKeys, ReconcileKeys
  DEF Next, Admin, Agent, Serve, Reconcile, Environment, DDNSArrive, AuthSelect,
      UpdateSucceeds, ConfirmNothing, ReconcileBegin, ReconcileSelect, ReconcileEnd, Tick,
      SetClockBack, Crash, RequestFails, PassFails, tables, vars

LEMMA KeysInvariant == Spec => []KeysInv
<1>1. Init => Owned /\ \A d \in devices : KeysOf(d)
  BY DEF Init, Owned, NoCred, NoRot, InUse, IsOpen, openRotationStatuses
<1>2. UseInv /\ Owned /\ (\A d \in devices : KeysOf(d)) <=> KeysInv
  BY DEF KeysInv
<1>3. KeysInv /\ [Next]_vars => (Owned /\ \A d \in devices : KeysOf(d))'
  BY KeysStep
<1> QED
  BY <1>1, <1>2, <1>3, UseInvariant, PTL DEF Spec

-----------------------------------------------------------------------------
(* Theorems. *)

\* RequestRotation, Confirm, Rollback and Reconcile leave every device exactly the
\* active keys its rotation calls for, hence one that works, in any interleaving.
THEOREM NobodyLockedOut == Spec => []NeverLockedOut
<1>1. ASSUME KeysInv, NEW d \in devices PROVE ActiveKeysOf(d)
  <2>1. CASE OpenRotations(d) = {}
    <3>1. Stable(d)
      BY <1>1, <2>1 DEF KeysInv, KeysOf, OpenRotations, IsOpen
    <3>2. PICK k \in Keys : \A j \in Keys : Matches(j, d, "active") <=> j = k
      BY <3>1 DEF Stable
    <3>3. ActiveKeys(d) = {k}
      BY <3>2 DEF ActiveKeys, Matches
    <3> QED
      BY <2>1, <3>3 DEF ActiveKeysOf
  <2>2. ASSUME NEW r \in OpenRotations(d) PROVE ActiveKeysOf(d)
    <3>1. r \in Rotations /\ IsOpen(r) /\ rots[r].device = d
      BY DEF OpenRotations, IsOpen
    <3>2. Roles(r) /\ Agrees(r)
      BY <1>1, <3>1, OpenFacts
    <3>3. \A j \in Keys : j \in ActiveKeys(d) <=> Trusts(r, j)
      BY <3>1, <3>2 DEF Roles, ActiveKeys, Matches
    <3>4. CASE rots[r].status \in {"requested", "staged"}
      <4>1. rots[r].prev \in Keys
        BY <3>2, <3>4 DEF Agrees, Matches
      <4>2. ActiveKeys(d) = {rots[r].prev}
        BY <3>3, <3>4, <4>1 DEF Trusts, ActiveKeys
      <4> QED
        BY <2>2, <3>4, <4>2 DEF ActiveKeysOf
    <3>5. CASE rots[r].status = "validating"
      <4>1. rots[r].prev \in Keys /\ rots[r].new \in Keys
        BY <3>2, <3>5 DEF Agrees, Matches
      <4>2. ActiveKeys(d) = {rots[r].prev, rots[r].new}
        BY <3>3, <3>5, <4>1 DEF Trusts, ActiveKeys
      <4> QED
        BY <2>2, <3>5, <4>2 DEF ActiveKeysOf
    <3>6. CASE rots[r].status = "grace"
      <4>1. rots[r].new \in Keys
        BY <3>2, <3>6 DEF Agrees, Matches
      <4>2. ActiveKeys(d) = {rots[r].new}
        BY <3>3, <3>6, <4>1 DEF Trusts, ActiveKeys
      <4> QED
        BY <2>2, <3>6, <4>2 DEF ActiveKeysOf
    <3> QED
      BY <3>1, <3>4, <3>5, <3>6 DEF IsOpen, openRotationStatuses
  <2> QED
    BY <2>1, <2>2
<1>2. KeysInv => NeverLockedOut
  BY <1>1 DEF NeverLockedOut
<1> QED
  BY <1>2, KeysInvariant, PTL

\* However its rotation ends - Rollback from any state, or Reconcile - no key is
\* left pending or in grace.
THEOREM NoKeyForgotten == Spec => []NoOrphanedKeys
<1>1. ASSUME KeysInv, NEW k \in Keys, creds[k].status \in {"pending", "grace"}
      PROVE  \E r \in Rotations :
                /\ creds[k].status = "pending" => rots[r].status = "staged" /\ rots[r].new = k
                /\ creds[k].status = "grace" => rots[r].status = "grace" /\ rots[r].prev = k
  <2>1. PICK d \in devices : creds[k].device = d /\ KeysOf(d)
    BY <1>1 DEF KeysInv, Owned, InUse
  <2>2. Matches(k, d, creds[k].status)
    BY <2>1 DEF Matches
  <2>3. PICK r \in Rotations : IsOpen(r) /\ rots[r].device = d
    BY <1>1, <2>1, <2>2 DEF KeysOf, Stable
  <2>4. Roles(r)
    BY <2>1, <2>3 DEF KeysOf
  <2> QED
    BY <2>2, <2>3, <2>4 DEF Roles
<1>2. KeysInv => NoOrphanedKeys
  BY <1>1 DEF NoOrphanedKeys
<1> QED
  BY <1>2, KeysInvariant, PTL

\* Authenticate, Rollback and ReconcileExpiredGrace split every grace period at
\* the same instant, for any clock.
THEOREM GraceEndsOnce == Spec => []GraceBoundary
<1>1. ASSUME KeysInv, NEW r \in Rotations, rots[r].status = "grace"
      PROVE  /\ Accepts(creds[rots[r].prev], now) <=> InTime(r, now)
             /\ Accepts(creds[rots[r].prev], now) <=> ~ Expired(r, now)
  <2>1. Agrees(r) /\ now \in Nat
    BY <1>1 DEF KeysInv, UseInv, TablesInv, RotationsAgree, TypeOK, CountersTyped, Times
  <2>2. /\ creds[rots[r].prev].status = "grace" /\ rots[r].graceUntil \in Nat
        /\ creds[rots[r].prev].graceUntil = rots[r].graceUntil
    BY <1>1, <2>1 DEF Agrees, Matches, Times
  <2>3. rots[r].graceUntil # NULL
    BY <2>2, RotationAssumption
  <2> QED
    BY <1>1, <2>1, <2>2, <2>3 DEF Accepts, InTime, Expired
<1>2. KeysInv => GraceBoundary
  BY <1>1 DEF GraceBoundary
<1> QED
  BY <1>2, KeysInvariant, PTL

-----------------------------------------------------------------------------
(* What a step may not do. *)

KeysFinal == \A k \in Keys : creds[k].status = "revoked" => creds'[k].status = "revoked"

RotationsFinal ==
    \A r \in Rotations : rots[r].status \in {"completed", "rolled_back"} =>
                            rots'[r].status = rots[r].status

\* The operations that change a credential, each of which finds its row first.
LEMMA KeysFinalStep == UseInv /\ [Next]_vars => KeysFinal
<1> SUFFICES ASSUME UseInv, [Next]_vars, NEW k \in Keys, creds[k].status = "revoked"
             PROVE  creds'[k].status = "revoked"
  BY DEF KeysFinal
<1> USE DEF UseInv, TablesInv, TypeOK, CredTable, CredRow
<1>1. CASE UNCHANGED creds
  BY <1>1
<1>2. ASSUME NEW d \in Devices, NEW j \in Keys, createDevice(d, j)
      PROVE  creds'[k].status = "revoked"
  BY <1>2 DEF createDevice
<1>3. ASSUME NEW r \in Rotations, NEW j \in Keys, StageCandidate(r, j)
      PROVE  creds'[k].status = "revoked"
  BY <1>3 DEF StageCandidate
<1>4. ASSUME NEW r \in Rotations,
             StartValidation(r) \/ RollbackUnconfirmed(r) \/ RollbackGrace(r)
      PROVE  creds'[k].status = "revoked"
  BY <1>4 DEF StartValidation, RollbackUnconfirmed, RollbackGrace, Matches
<1>5. ASSUME NEW q \in Requests, AuthTouch(q) PROVE creds'[k].status = "revoked"
  BY <1>5 DEF AuthTouch
<1>6. ASSUME NEW q \in Requests, NEW r \in Rotations, ConfirmCredentialUse(q, r)
      PROVE  creds'[k].status = "revoked"
  BY <1>6 DEF ConfirmCredentialUse, ConfirmApplies, Matches
<1>7. ASSUME NEW p \in Reconcilers, NEW r \in Rotations, ReconcileItem(p, r)
      PROVE  creds'[k].status = "revoked"
  BY <1>7 DEF ReconcileItem, Matches
<1> QED
  BY <1>1, <1>2, <1>3, <1>4, <1>5, <1>6, <1>7
  DEF Next, Admin, Agent, Serve, Reconcile, Environment, RequestRotation, Rollback,
      RollbackRequested, DDNSArrive, AuthSelect, UpdateSucceeds, ConfirmNothing,
      ReconcileBegin, ReconcileSelect, ReconcileEnd, Tick, SetClockBack, Crash,
      RequestFails, PassFails, tables, vars

LEMMA RotationsFinalStep == UseInv /\ [Next]_vars => RotationsFinal
<1> SUFFICES ASSUME UseInv, [Next]_vars, NEW r \in Rotations,
                    rots[r].status \in {"completed", "rolled_back"}
             PROVE  rots'[r].status = rots[r].status
  BY DEF RotationsFinal
<1> USE DEF UseInv, TablesInv, TypeOK, RotTable, RotRow
<1>1. CASE UNCHANGED rots
  BY <1>1
<1>2. ASSUME NEW d \in Devices, NEW g \in GraceMinutes, NEW s \in Rotations,
             RequestRotation(d, g, s)
      PROVE  rots'[r].status = rots[r].status
  BY <1>2 DEF RequestRotation
<1>3. ASSUME NEW s \in Rotations, NEW k \in Keys, StageCandidate(s, k)
      PROVE  rots'[r].status = rots[r].status
  BY <1>3 DEF StageCandidate
<1>4. ASSUME NEW s \in Rotations, StartValidation(s) \/ Rollback(s)
      PROVE  rots'[r].status = rots[r].status
  BY <1>4 DEF StartValidation, Rollback, RollbackRequested, RollbackUnconfirmed, RollbackGrace
<1>5. ASSUME NEW q \in Requests, NEW s \in Rotations, ConfirmCredentialUse(q, s)
      PROVE  rots'[r].status = rots[r].status
  BY <1>5 DEF ConfirmCredentialUse, Confirms
<1>6. ASSUME NEW p \in Reconcilers, NEW s \in Rotations, ReconcileItem(p, s)
      PROVE  rots'[r].status = rots[r].status
  BY <1>6 DEF ReconcileItem, Expired
<1> QED
  BY <1>1, <1>2, <1>3, <1>4, <1>5, <1>6, RotationMovers DEF Agent

\* Whichever of a rollback, a late confirmation and two reconcilers commits first
\* decides a rotation, and none of them brings a revoked key back.
THEOREM FirstOutcome == Spec => FirstOutcomeStands
<1>1. UseInv /\ [Next]_vars =>
        [/\ \A k \in Keys : creds[k].status = "revoked" => creds'[k].status = "revoked"
         /\ \A r \in Rotations : rots[r].status \in {"completed", "rolled_back"} =>
                                    rots'[r].status = rots[r].status]_vars
  BY KeysFinalStep, RotationsFinalStep DEF KeysFinal, RotationsFinal
<1> QED
  BY <1>1, UseInvariant, PTL DEF Spec, FirstOutcomeStands

\* A reconciler's time lies in the past unless the clock is set back.
PassesInv ==
    /\ backSteps = 0
    /\ \A p \in Reconcilers : pass[p].pc # "idle" => pass[p].at <= now

LEMMA PassesStep ==
    ASSUME MaxBackSteps = 0, UseInv, PassesInv, [Next]_vars PROVE PassesInv'
<1> USE DEF UseInv, TablesInv, TypeOK, CountersTyped, PassTyped, Times
<1>1. backSteps' = 0 /\ now' >= now
  <2>1. CASE Environment
    BY <2>1 DEF Environment, Tick, SetClockBack, Crash, RequestFails, PassFails, PassesInv
  <2>2. Admin => UNCHANGED counters
    BY DEF Admin, createDevice, RequestRotation, Rollback, RollbackRequested, RollbackUnconfirmed,
           RollbackGrace, counters
  <2>3. Agent => UNCHANGED counters
    BY DEF Agent, StageCandidate, StartValidation, counters
  <2>4. \A q \in Requests, k \in Keys : DDNSArrive(q, k) => UNCHANGED counters
    BY DEF DDNSArrive, counters
  <2>5. \A q \in Requests : Serve(q) => UNCHANGED counters
    BY DEF Serve, AuthSelect, AuthTouch, UpdateSucceeds, ConfirmCredentialUse, ConfirmNothing,
           counters
  <2>6. \A p \in Reconcilers : Reconcile(p) => UNCHANGED counters
    BY DEF Reconcile, ReconcileBegin, ReconcileSelect, ReconcileItem, ReconcileEnd, counters
  <2>7. CASE UNCHANGED vars
    BY <2>7 DEF vars, PassesInv
  <2> QED
    BY <2>1, <2>2, <2>3, <2>4, <2>5, <2>6, <2>7 DEF Next, counters, PassesInv
<1>2. ASSUME NEW p \in Reconcilers, pass'[p].pc # "idle" PROVE pass'[p].at <= now'
  <2>1. \/ pass'[p] = pass[p]
        \/ pass[p].pc # "idle" /\ pass'[p].at = pass[p].at
        \/ pass'[p].at = now
    <3>1. CASE UNCHANGED pass
      BY <3>1
    <3>2. ASSUME NEW o \in Reconcilers, ReconcileBegin(o) \/ ReconcileSelect(o) \/ ReconcileEnd(o)
          PROVE  \/ pass'[p] = pass[p]
                 \/ pass[p].pc # "idle" /\ pass'[p].at = pass[p].at
                 \/ pass'[p].at = now
      BY <1>2, <3>2 DEF ReconcileBegin, ReconcileSelect, ReconcileEnd, IdlePass
    <3>3. ASSUME NEW o \in Reconcilers, NEW r \in Rotations, ReconcileItem(o, r)
          PROVE  \/ pass'[p] = pass[p]
                 \/ pass[p].pc # "idle" /\ pass'[p].at = pass[p].at
      BY <1>2, <3>3 DEF ReconcileItem, IdlePass
    <3>4. CASE Environment
      BY <1>2, <3>4 DEF Environment, Tick, SetClockBack, Crash, RequestFails, PassFails, IdlePass
    <3>5. \/ UNCHANGED pass \/ Environment
          \/ \E o \in Reconcilers : Reconcile(o)
      BY DEF Next, Admin, Agent, Serve, createDevice, RequestRotation,
         StageCandidate, StartValidation, Rollback, RollbackRequested, RollbackUnconfirmed,
         RollbackGrace, DDNSArrive, AuthSelect, AuthTouch, UpdateSucceeds, ConfirmCredentialUse,
         ConfirmNothing, vars
    <3> QED
      BY <3>1, <3>2, <3>3, <3>4, <3>5 DEF Reconcile
  <2>2. pass[p].at \in Nat /\ pass'[p].at \in Nat /\ now \in Nat /\ now' \in Nat
    BY LocalsTyped DEF TypeOK
  <2> QED
    BY <1>1, <2>1, <2>2, <1>2 DEF PassesInv
<1> QED
  BY <1>1, <1>2 DEF PassesInv

\* As long as nobody sets the clock back, ReconcileExpiredGrace revokes no key
\* before its deadline, though its time and its list of rotations were read earlier.
THEOREM GraceIsHonoured == ASSUME MaxBackSteps = 0 PROVE Spec => GraceHonoured
<1>1. Init => PassesInv
  BY DEF Init, PassesInv, IdlePass
<1>2. UseInv /\ PassesInv /\ [Next]_vars => PassesInv'
  BY PassesStep
<1>3. ASSUME UseInv, PassesInv, [Next]_vars, NEW k \in Keys,
             creds[k].status = "grace", creds'[k].status = "revoked"
      PROVE  creds[k].graceUntil <= now
  <2> USE DEF UseInv, TablesInv, TypeOK, CredTable, CredRow
  <2>1. \E p \in Reconcilers, r \in Rotations :
           ReconcileItem(p, r) /\ Expired(r, pass[p].at) /\ rots[r].prev = k
    <3>1. CASE UNCHANGED creds
      BY <1>3, <3>1
    <3>2. ASSUME NEW d \in Devices, NEW j \in Keys, createDevice(d, j) PROVE FALSE
      BY <1>3, <3>2 DEF createDevice, NoCred
    <3>3. ASSUME NEW r \in Rotations, NEW j \in Keys, StageCandidate(r, j) PROVE FALSE
      BY <1>3, <3>3 DEF StageCandidate, NoCred
    <3>4. ASSUME NEW r \in Rotations, StartValidation(r) \/ RollbackUnconfirmed(r) PROVE FALSE
      BY <1>3, <3>4 DEF StartValidation, RollbackUnconfirmed, Matches
    <3>5. ASSUME NEW r \in Rotations, RollbackGrace(r) PROVE FALSE
      BY <1>3, <3>5 DEF RollbackGrace, Matches
    <3>6. ASSUME NEW q \in Requests, AuthTouch(q) PROVE FALSE
      BY <1>3, <3>6 DEF AuthTouch
    <3>7. ASSUME NEW q \in Requests, NEW r \in Rotations, ConfirmCredentialUse(q, r) PROVE FALSE
      BY <1>3, <3>7 DEF ConfirmCredentialUse, ConfirmApplies, Matches
    <3>8. ASSUME NEW p \in Reconcilers, NEW r \in Rotations, ReconcileItem(p, r)
          PROVE  Expired(r, pass[p].at) /\ rots[r].prev = k
      BY <1>3, <3>8 DEF ReconcileItem, Matches
    <3> QED
      BY <1>3, <3>1, <3>2, <3>3, <3>4, <3>5, <3>6, <3>7, <3>8
      DEF Next, Admin, Agent, Serve, Reconcile, Environment, RequestRotation, Rollback,
          RollbackRequested, DDNSArrive, AuthSelect, UpdateSucceeds, ConfirmNothing,
          ReconcileBegin, ReconcileSelect, ReconcileEnd, Tick, SetClockBack, Crash,
          RequestFails, PassFails, tables, vars
  <2>2. PICK p \in Reconcilers, r \in Rotations :
           ReconcileItem(p, r) /\ Expired(r, pass[p].at) /\ rots[r].prev = k
    BY <2>1
  <2>3. rots[r].status = "grace" /\ Agrees(r) /\ rots[r].graceUntil <= pass[p].at
    BY <1>3, <2>2 DEF Expired, RotationsAgree
  <2>4. creds[k].graceUntil = rots[r].graceUntil /\ rots[r].graceUntil \in Nat
    BY <2>2, <2>3 DEF Agrees, Times
  <2>5. pass[p].at <= now /\ pass[p].at \in Nat /\ now \in Nat
    BY <1>3, <2>2 DEF PassesInv, ReconcileItem, PassTyped, CountersTyped, Times
  <2> QED
    BY <2>3, <2>4, <2>5
<1>4. UseInv /\ PassesInv /\ [Next]_vars =>
        [\A k \in Keys : (creds[k].status = "grace" /\ creds'[k].status = "revoked")
                           => creds[k].graceUntil <= now]_vars
  BY <1>3
<1> QED
  BY <1>1, <1>2, <1>4, UseInvariant, PTL DEF Spec, GraceHonoured
=============================================================================
