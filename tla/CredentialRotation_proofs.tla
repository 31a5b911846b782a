---------------------- MODULE CredentialRotation_proofs ----------------------
(* Proofs about CredentialRotation, for any devices, keys and bounds. *)
EXTENDS CredentialRotation, TLAPS

-----------------------------------------------------------------------------
(* Updating one column of one row keeps a table well typed. *)

LEMMA CredStatusTyped ==
  ASSUME NEW c \in CredTable, NEW k, NEW s \in CredStatuses
  PROVE  [c EXCEPT ![k].status = s] \in CredTable
  BY DEF CredTable, CredRow

LEMMA CredGraceTyped ==
  ASSUME NEW c \in CredTable, NEW k, NEW t \in Times \cup {NULL}
  PROVE  [c EXCEPT ![k].graceUntil = t] \in CredTable
  BY DEF CredTable, CredRow

LEMMA CredFlagsTyped ==
  ASSUME NEW c \in CredTable, NEW k
  PROVE  /\ [c EXCEPT ![k].used = TRUE] \in CredTable
         /\ [c EXCEPT ![k].activated = TRUE] \in CredTable
<1>1. [c EXCEPT ![k].used = TRUE] \in CredTable
  BY DEF CredTable, CredRow
<1>2. [c EXCEPT ![k].activated = TRUE] \in CredTable
  BY DEF CredTable, CredRow
<1> QED
  BY <1>1, <1>2

LEMMA NewCredTyped ==
  ASSUME NEW c \in CredTable, NEW k, NEW d \in Devices \cup {NULL}
  PROVE  /\ [c EXCEPT ![k] = [NoCred EXCEPT !.device = d, !.status = "active",
                                            !.activated = TRUE]] \in CredTable
         /\ [c EXCEPT ![k] = [NoCred EXCEPT !.device = d, !.status = "pending"]]
              \in CredTable
<1>1. [NoCred EXCEPT !.device = d, !.status = "active", !.activated = TRUE] \in CredRow
  BY DEF CredRow, NoCred, CredStatuses
<1>2. [NoCred EXCEPT !.device = d, !.status = "pending"] \in CredRow
  BY DEF CredRow, NoCred, CredStatuses
<1> QED
  BY <1>1, <1>2 DEF CredTable

LEMMA RotStatusTyped ==
  ASSUME NEW t \in RotTable, NEW r, NEW s \in RotStatuses
  PROVE  [t EXCEPT ![r].status = s] \in RotTable
  BY DEF RotTable, RotRow

LEMMA RotGraceTyped ==
  ASSUME NEW t \in RotTable, NEW r, NEW u \in Times \cup {NULL}
  PROVE  [t EXCEPT ![r].graceUntil = u] \in RotTable
  BY DEF RotTable, RotRow

LEMMA NewRotTyped ==
  ASSUME NEW t \in RotTable, NEW r, NEW d \in Devices, NEW k \in Keys,
         NEW g \in GraceMinutes
  PROVE  [t EXCEPT ![r] = [NoRot EXCEPT !.device = d, !.prev = k,
                                        !.status = "requested", !.minutes = g]] \in RotTable
<1>1. g \in Nat
  BY RotationAssumption
<1>2. [NoRot EXCEPT !.device = d, !.prev = k, !.status = "requested", !.minutes = g]
        \in RotRow
  BY <1>1 DEF NoRot, RotRow, RotStatuses
<1> QED
  BY <1>2 DEF RotTable

-----------------------------------------------------------------------------
(* Type correctness, one lemma for each table and handler. *)

LEMMA CredsTyped ==
  ASSUME TypeOK, [Next]_vars
  PROVE  creds' \in CredTable
<1> USE DEF TypeOK
<1>1. CASE UNCHANGED creds
  BY <1>1
<1>2. ASSUME NEW d \in Devices, NEW k \in Keys, createDevice(d, k)
      PROVE  creds' \in CredTable
  BY <1>2, NewCredTyped DEF createDevice
<1>3. ASSUME NEW r \in Rotations, NEW k \in Keys, StageCandidate(r, k)
      PROVE  creds' \in CredTable
  BY <1>3, NewCredTyped DEF StageCandidate, RotTable, RotRow
<1>4. ASSUME NEW r \in Rotations, StartValidation(r)
      PROVE  creds' \in CredTable
  <2> DEFINE k == rots[r].new
             c1 == [creds EXCEPT ![k].status = "active"]
  <2>1. c1 \in CredTable
    BY CredStatusTyped DEF CredStatuses
  <2> QED
    BY <1>4, <2>1, CredFlagsTyped DEF StartValidation
<1>5. ASSUME NEW r \in Rotations, RollbackUnconfirmed(r)
      PROVE  creds' \in CredTable
  BY <1>5, CredStatusTyped DEF RollbackUnconfirmed, CredStatuses
<1>6. ASSUME NEW r \in Rotations, RollbackGrace(r)
      PROVE  creds' \in CredTable
  <2> DEFINE c1 == [creds EXCEPT ![rots[r].prev].status = "active"]
             c2 == [c1 EXCEPT ![rots[r].prev].graceUntil = NULL]
  <2>1. c1 \in CredTable
    BY CredStatusTyped DEF CredStatuses
  <2>2. c2 \in CredTable
    BY <2>1, CredGraceTyped
  <2>3. [c2 EXCEPT ![rots[r].new].status = "revoked"] \in CredTable
    BY <2>2, CredStatusTyped DEF CredStatuses
  <2> QED
    BY <1>6, <2>3 DEF RollbackGrace
<1>7. ASSUME NEW q \in Requests, AuthTouch(q)
      PROVE  creds' \in CredTable
  BY <1>7, CredFlagsTyped DEF AuthTouch
<1>8. ASSUME NEW q \in Requests, NEW r \in Rotations, ConfirmCredentialUse(q, r)
      PROVE  creds' \in CredTable
  <2> DEFINE c1 == [creds EXCEPT ![rots[r].prev].status = "grace"]
  <2>1. c1 \in CredTable
    BY CredStatusTyped DEF CredStatuses
  <2>2. now + rots[r].minutes \in Times
    BY DEF RotTable, RotRow, Times, CountersTyped
  <2> QED
    BY <1>8, <2>1, <2>2, CredGraceTyped DEF ConfirmCredentialUse
<1>9. ASSUME NEW p \in Reconcilers, NEW r \in Rotations, ReconcileItem(p, r)
      PROVE  creds' \in CredTable
  BY <1>9, CredStatusTyped DEF ReconcileItem, CredStatuses
<1> QED
  BY <1>1, <1>2, <1>3, <1>4, <1>5, <1>6, <1>7, <1>8, <1>9
  DEF Next, Admin, Agent, Serve, Reconcile, Environment, RequestRotation, Rollback,
      RollbackRequested, DDNSArrive, AuthSelect, UpdateSucceeds, ConfirmNothing,
      ReconcileBegin, ReconcileSelect, ReconcileEnd, Tick, SetClockBack, Crash,
      RequestFails, PassFails, tables, vars

LEMMA RotsTyped ==
  ASSUME TypeOK, [Next]_vars
  PROVE  rots' \in RotTable
<1> USE DEF TypeOK
<1>1. CASE UNCHANGED rots
  BY <1>1
<1>2. ASSUME NEW d \in Devices, NEW g \in GraceMinutes, NEW r \in Rotations,
             RequestRotation(d, g, r)
      PROVE  rots' \in RotTable
  <2>1. PICK k \in Keys :
          rots' = [rots EXCEPT ![r] = [NoRot EXCEPT !.device = d, !.prev = k,
                                         !.status = "requested", !.minutes = g]]
    BY <1>2 DEF RequestRotation
  <2> QED
    BY <2>1, NewRotTyped
<1>3. ASSUME NEW r \in Rotations, NEW k \in Keys, StageCandidate(r, k)
      PROVE  rots' \in RotTable
  <2>1. [rots EXCEPT ![r].new = k] \in RotTable
    BY DEF RotTable, RotRow
  <2> QED
    BY <1>3, <2>1, RotStatusTyped DEF StageCandidate, RotStatuses
<1>4. ASSUME NEW r \in Rotations, StartValidation(r) \/ Rollback(r)
      PROVE  rots' \in RotTable
  <2>1. PICK s \in {"validating", "rolled_back"} : rots' = [rots EXCEPT ![r].status = s]
    BY <1>4 DEF StartValidation, Rollback, RollbackRequested, RollbackUnconfirmed,
                RollbackGrace
  <2> QED
    BY <2>1, RotStatusTyped DEF RotStatuses
<1>5. ASSUME NEW q \in Requests, NEW r \in Rotations, ConfirmCredentialUse(q, r)
      PROVE  rots' \in RotTable
  <2> DEFINE until == now + rots[r].minutes
             t1 == [rots EXCEPT ![r].status = "grace"]
  <2>1. t1 \in RotTable
    BY RotStatusTyped DEF RotStatuses
  <2>2. until \in Times
    BY DEF RotTable, RotRow, Times, CountersTyped
  <2>3. [t1 EXCEPT ![r].graceUntil = until] \in RotTable
    BY <2>1, <2>2, RotGraceTyped
  <2> QED
    BY <1>5, <2>3 DEF ConfirmCredentialUse
<1>6. ASSUME NEW p \in Reconcilers, NEW r \in Rotations, ReconcileItem(p, r)
      PROVE  rots' \in RotTable
  BY <1>6, RotStatusTyped DEF ReconcileItem, RotStatuses
<1> QED
  BY <1>1, <1>2, <1>3, <1>4, <1>5, <1>6
  DEF Next, Admin, Agent, Serve, Reconcile, Environment, createDevice, DDNSArrive,
      AuthSelect, AuthTouch, UpdateSucceeds, ConfirmNothing, ReconcileBegin,
      ReconcileSelect, ReconcileEnd, Tick, SetClockBack, Crash, RequestFails, PassFails,
      tables, vars

LEMMA LocalsTyped ==
  ASSUME TypeOK, [Next]_vars
  PROVE  devices' \subseteq Devices /\ CountersTyped' /\ UpdTyped' /\ PassTyped'
<1> USE DEF TypeOK, UpdTyped, PassTyped, CountersTyped, tables, counters, Times
<1>1. CASE Admin \/ Agent
  BY <1>1 DEF Admin, Agent, createDevice, RequestRotation, StageCandidate, StartValidation,
              Rollback, RollbackRequested, RollbackUnconfirmed, RollbackGrace
<1>2. CASE \E q \in Requests, k \in Keys : DDNSArrive(q, k)
  BY <1>2 DEF DDNSArrive
<1>3. ASSUME NEW q \in Requests, Serve(q)
      PROVE  devices' \subseteq Devices /\ CountersTyped' /\ UpdTyped' /\ PassTyped'
  <2>1. UNCHANGED <<devices, now, faults, backSteps, pass>>
    BY <1>3 DEF Serve, AuthSelect, AuthTouch, UpdateSucceeds, ConfirmCredentialUse,
                ConfirmNothing
  <2>2. \/ upd' = [upd EXCEPT ![q] = IdleRequest]
        \/ \E l \in {"touch", "update", "confirm"} : upd' = [upd EXCEPT ![q].pc = l]
    BY <1>3 DEF Serve, AuthSelect, AuthTouch, UpdateSucceeds, ConfirmCredentialUse,
                ConfirmNothing, Goto, Finish
  <2>3. UpdTyped'
    BY <2>2 DEF IdleRequest
  <2> QED
    BY <2>1, <2>3
<1>4. ASSUME NEW p \in Reconcilers, Reconcile(p)
      PROVE  devices' \subseteq Devices /\ CountersTyped' /\ UpdTyped' /\ PassTyped'
  <2>1. UNCHANGED <<devices, now, faults, backSteps, upd>>
    BY <1>4 DEF Reconcile, ReconcileBegin, ReconcileSelect, ReconcileItem, ReconcileEnd
  <2>2. CASE ReconcileBegin(p) \/ ReconcileEnd(p)
    BY <2>1, <2>2 DEF ReconcileBegin, ReconcileEnd, IdlePass
  <2>3. CASE ReconcileSelect(p)
    <3> DEFINE PassTable == [Reconcilers -> [pc : {"idle", "select", "items"}, at : Times,
                                             todo : SUBSET Rotations]]
               due == {r \in Rotations : Expired(r, pass[p].at)}
               moved == [pass EXCEPT ![p].pc = "items"]
    <3>1. due \in SUBSET Rotations
      OBVIOUS
    <3>2. moved \in PassTable
      OBVIOUS
    <3>3. pass' = [moved EXCEPT ![p].todo = due]
      BY <2>3 DEF ReconcileSelect
    <3> HIDE DEF due, moved
    <3>4. pass' \in PassTable
      BY <3>1, <3>2, <3>3
    <3> QED
      BY <2>1, <3>4
  <2>4. CASE \E r \in Rotations : ReconcileItem(p, r)
    <3> PICK r \in Rotations : ReconcileItem(p, r)
      BY <2>4
    <3>1. \/ pass' = [pass EXCEPT ![p] = IdlePass]
          \/ pass' = [pass EXCEPT ![p].todo = @ \ {r}]
      BY DEF ReconcileItem
    <3> QED
      BY <2>1, <3>1 DEF IdlePass
  <2> QED
    BY <1>4, <2>2, <2>3, <2>4 DEF Reconcile
<1>5. CASE Environment
  BY <1>5 DEF Environment, Tick, SetClockBack, Crash, RequestFails, PassFails, Fault,
              Finish, IdleRequest, IdlePass
<1>6. CASE UNCHANGED vars
  BY <1>6 DEF vars
<1> QED
  BY <1>1, <1>2, <1>3, <1>4, <1>5, <1>6 DEF Next

\* The tables and the handlers' local variables keep their types.
THEOREM TypeCorrect == Spec => []TypeOK
<1>1. Init => TypeOK
  BY RotationAssumption
  DEF Init, TypeOK, CredTable, RotTable, CredRow, RotRow, NoCred, NoRot, CredStatuses,
      RotStatuses, UpdTyped, PassTyped, CountersTyped, IdleRequest, IdlePass, Times
<1>2. TypeOK /\ [Next]_vars => TypeOK'
  BY CredsTyped, RotsTyped, LocalsTyped DEF TypeOK
<1> QED
  BY <1>1, <1>2, PTL DEF Spec

-----------------------------------------------------------------------------
(* One open rotation per device, and tables that agree.  Together with the  *)
(* types the two invariants are inductive: a transaction changes one        *)
(* rotation row, the only open one of its device, and credentials of that   *)
(* device, so what the other rows say of other devices still holds.         *)

TablesInv == TypeOK /\ OneOpenRotation /\ RotationsAgree

\* A transaction on rotation r of device d.
Confined(r, d) ==
    /\ \A s \in Rotations : s # r => rots'[s] = rots[s]
    /\ \A s \in Rotations : s # r /\ IsOpen(s) => rots[s].device # d
    /\ rots'[r].device = d
    /\ \A k \in Keys : creds[k].device # d /\ creds[k].status # "none" =>
          /\ creds'[k].device = creds[k].device
          /\ creds'[k].status = creds[k].status
          /\ creds'[k].graceUntil = creds[k].graceUntil

LEMMA ConfinedStep ==
  ASSUME TablesInv, NEW r \in Rotations, NEW d, Confined(r, d), Agrees(r)'
  PROVE  OneOpenRotation' /\ RotationsAgree'
<1>1. OneOpenRotation'
  BY DEF TablesInv, OneOpenRotation, OpenRotations, Confined, IsOpen
<1>2. ASSUME NEW s \in Rotations, s # r PROVE Agrees(s)'
  <2>1. rots'[s] = rots[s] /\ Agrees(s)
    BY <1>2 DEF Confined, TablesInv, RotationsAgree
  <2>2. CASE IsOpen(s)
    <3>1. rots[s].device # d
      BY <1>2, <2>2 DEF Confined
    <3>2. ASSUME NEW k, NEW t, Matches(k, rots[s].device, t), t # "none"
          PROVE  Matches(k, rots[s].device, t)' /\ creds'[k].graceUntil = creds[k].graceUntil
      BY <2>1, <3>1, <3>2 DEF Matches, Confined
    <3> QED
      BY <2>1, <3>2 DEF Agrees
  <2>3. CASE ~ IsOpen(s)
    BY <2>1, <2>3 DEF Agrees, IsOpen, openRotationStatuses
  <2> QED
    BY <2>2, <2>3
<1> QED
  BY <1>1, <1>2 DEF RotationsAgree

LEMMA OpenAlone ==
  ASSUME TablesInv, NEW r \in Rotations, IsOpen(r)
  PROVE  \A s \in Rotations : s # r /\ IsOpen(s) => rots[s].device # rots[r].device
  BY DEF TablesInv, OneOpenRotation

LEMMA RequestRotationAgrees ==
  ASSUME TablesInv, NEW d \in Devices, NEW g \in GraceMinutes, NEW r \in Rotations,
         RequestRotation(d, g, r)
  PROVE  OneOpenRotation' /\ RotationsAgree'
<1> USE DEF TablesInv, TypeOK
<1>1. PICK k \in Keys :
        /\ ActiveKeys(d) = {k}
        /\ rots' = [rots EXCEPT ![r] = [NoRot EXCEPT !.device = d, !.prev = k,
                                          !.status = "requested", !.minutes = g]]
  BY DEF RequestRotation
<1>2. creds' = creds
  BY DEF RequestRotation
<1>3. rots'[r].device = d /\ rots'[r].prev = k /\ rots'[r].new = NULL
      /\ rots'[r].status = "requested"
  BY <1>1 DEF NoRot, RotTable
<1>4. Confined(r, d)
  <2>1. \A s \in Rotations : IsOpen(s) => rots[s].device # d
    BY DEF RequestRotation, OpenRotations, IsOpen
  <2> QED
    BY <1>1, <1>2, <1>3, <2>1 DEF Confined, RotTable
<1>5. Agrees(r)'
  <2>1. creds[k].device = d /\ creds[k].status = "active"
    BY <1>1 DEF ActiveKeys
  <2> QED
    BY <1>2, <1>3, <2>1 DEF Agrees, Matches
<1> QED
  BY <1>4, <1>5, ConfinedStep

LEMMA StageCandidateAgrees ==
  ASSUME TablesInv, NEW r \in Rotations, NEW k \in Keys, StageCandidate(r, k)
  PROVE  OneOpenRotation' /\ RotationsAgree'
<1> USE DEF TablesInv, TypeOK
<1> DEFINE d == rots[r].device
<1>0. Agrees(r) /\ IsOpen(r)
  BY DEF RotationsAgree, StageCandidate, IsOpen, openRotationStatuses
<1>1. /\ rots'[r].device = d /\ rots'[r].prev = rots[r].prev /\ rots'[r].new = k
      /\ rots'[r].status = "staged"
      /\ \A s \in Rotations : s # r => rots'[s] = rots[s]
  BY DEF StageCandidate, RotTable, RotRow
<1>2. /\ creds'[k].device = d /\ creds'[k].status = "pending"
      /\ \A j \in Keys : j # k => creds'[j] = creds[j]
  BY DEF StageCandidate, CredTable, NoCred
<1>3. Confined(r, d)
  <2>1. creds[k].status = "none"
    BY DEF StageCandidate
  <2>2. \A s \in Rotations : s # r /\ IsOpen(s) => rots[s].device # d
    BY <1>0, OpenAlone
  <2> QED
    BY <1>1, <1>2, <2>1, <2>2 DEF Confined
<1>5. Agrees(r)'
  BY <1>0, <1>1, <1>2 DEF Agrees, Matches, StageCandidate
<1> QED
  BY <1>3, <1>5, ConfinedStep

LEMMA StartValidationAgrees ==
  ASSUME TablesInv, NEW r \in Rotations, StartValidation(r)
  PROVE  OneOpenRotation' /\ RotationsAgree'
<1> USE DEF TablesInv, TypeOK
<1> DEFINE d == rots[r].device
<1>1. Agrees(r) /\ IsOpen(r)
  BY DEF RotationsAgree, StartValidation, IsOpen, openRotationStatuses
<1>2. /\ rots'[r].device = d /\ rots'[r].prev = rots[r].prev /\ rots'[r].new = rots[r].new
      /\ rots'[r].status = "validating"
      /\ \A s \in Rotations : s # r => rots'[s] = rots[s]
  BY DEF StartValidation, RotTable, RotRow
<1>3. /\ creds[rots[r].new].device = d
      /\ creds'[rots[r].new].device = d /\ creds'[rots[r].new].status = "active"
      /\ \A k \in Keys : k # rots[r].new => creds'[k] = creds[k]
  BY <1>1 DEF StartValidation, Agrees, Matches, CredTable, CredRow
<1>4. \A s \in Rotations : s # r /\ IsOpen(s) => rots[s].device # d
  BY <1>1, OpenAlone
<1>5. Confined(r, d)
  BY <1>1, <1>2, <1>3, <1>4 DEF Confined, Agrees, Matches
<1>6. Agrees(r)'
  BY <1>1, <1>2, <1>3 DEF Agrees, Matches, StartValidation
<1> QED
  BY <1>5, <1>6, ConfinedStep

LEMMA RollbackRequestedAgrees ==
  ASSUME TablesInv, NEW r \in Rotations, RollbackRequested(r)
  PROVE  OneOpenRotation' /\ RotationsAgree'
<1> USE DEF TablesInv, TypeOK
<1> DEFINE d == rots[r].device
<1>1. Agrees(r) /\ IsOpen(r)
  BY DEF RotationsAgree, RollbackRequested, IsOpen, openRotationStatuses
<1>2. /\ rots'[r].device = d /\ rots'[r].prev = rots[r].prev /\ rots'[r].new = rots[r].new
      /\ rots'[r].status = "rolled_back"
      /\ \A s \in Rotations : s # r => rots'[s] = rots[s]
  BY DEF RollbackRequested, RotTable, RotRow
<1>3. creds' = creds
  BY DEF RollbackRequested
<1>4. \A s \in Rotations : s # r /\ IsOpen(s) => rots[s].device # d
  BY <1>1, OpenAlone
<1>5. Confined(r, d)
  BY <1>1, <1>2, <1>3, <1>4 DEF Confined, Agrees, Matches
<1>6. Agrees(r)'
  BY <1>1, <1>2, <1>3 DEF Agrees, Matches, RollbackRequested
<1> QED
  BY <1>5, <1>6, ConfinedStep

LEMMA RollbackUnconfirmedAgrees ==
  ASSUME TablesInv, NEW r \in Rotations, RollbackUnconfirmed(r)
  PROVE  OneOpenRotation' /\ RotationsAgree'
<1> USE DEF TablesInv, TypeOK
<1> DEFINE d == rots[r].device
<1>1. Agrees(r) /\ IsOpen(r)
  BY DEF RotationsAgree, RollbackUnconfirmed, IsOpen, openRotationStatuses
<1>2. /\ rots'[r].device = d /\ rots'[r].prev = rots[r].prev /\ rots'[r].new = rots[r].new
      /\ rots'[r].status = "rolled_back"
      /\ \A s \in Rotations : s # r => rots'[s] = rots[s]
  BY DEF RollbackUnconfirmed, RotTable, RotRow
<1>3. /\ creds[rots[r].new].device = d /\ creds'[rots[r].new].device = d
      /\ \A k \in Keys : k # rots[r].new => creds'[k] = creds[k]
  BY <1>1 DEF RollbackUnconfirmed, Agrees, Matches, CredTable, CredRow
<1>4. \A s \in Rotations : s # r /\ IsOpen(s) => rots[s].device # d
  BY <1>1, OpenAlone
<1>5. Confined(r, d)
  BY <1>1, <1>2, <1>3, <1>4 DEF Confined, Agrees, Matches
<1>6. Agrees(r)'
  BY <1>1, <1>2, <1>3 DEF Agrees, Matches, RollbackUnconfirmed
<1> QED
  BY <1>5, <1>6, ConfinedStep

LEMMA RollbackGraceAgrees ==
  ASSUME TablesInv, NEW r \in Rotations, RollbackGrace(r)
  PROVE  OneOpenRotation' /\ RotationsAgree'
<1> USE DEF TablesInv, TypeOK
<1> DEFINE d == rots[r].device
<1>1. Agrees(r) /\ IsOpen(r)
  BY DEF RotationsAgree, RollbackGrace, IsOpen, openRotationStatuses
<1>2. /\ rots'[r].device = d /\ rots'[r].prev = rots[r].prev /\ rots'[r].new = rots[r].new
      /\ rots'[r].status = "rolled_back"
      /\ \A s \in Rotations : s # r => rots'[s] = rots[s]
  BY DEF RollbackGrace, RotTable, RotRow
<1>3. /\ creds[rots[r].prev].device = d /\ creds[rots[r].new].device = d
      /\ creds'[rots[r].prev].device = d /\ creds'[rots[r].new].device = d
      /\ \A k \in Keys : k # rots[r].new /\ k # rots[r].prev => creds'[k] = creds[k]
  BY <1>1 DEF RollbackGrace, Agrees, Matches, CredTable, CredRow
<1>4. \A s \in Rotations : s # r /\ IsOpen(s) => rots[s].device # d
  BY <1>1, OpenAlone
<1>5. Confined(r, d)
  BY <1>1, <1>2, <1>3, <1>4 DEF Confined, Agrees, Matches
<1>6. Agrees(r)'
  BY <1>1, <1>2, <1>3 DEF Agrees, Matches, RollbackGrace
<1> QED
  BY <1>5, <1>6, ConfinedStep

LEMMA ConfirmAgrees ==
  ASSUME TablesInv, NEW q \in Requests, NEW r \in Rotations, ConfirmCredentialUse(q, r)
  PROVE  OneOpenRotation' /\ RotationsAgree'
<1> USE DEF TablesInv, TypeOK
<1> DEFINE d == rots[r].device
<1>1. Agrees(r) /\ IsOpen(r)
  BY DEF RotationsAgree, ConfirmCredentialUse, IsOpen, openRotationStatuses, Confirms
<1>2. /\ rots'[r].device = d /\ rots'[r].prev = rots[r].prev /\ rots'[r].new = rots[r].new
      /\ rots'[r].status = "grace" /\ rots'[r].graceUntil = now + rots[r].minutes
      /\ \A s \in Rotations : s # r => rots'[s] = rots[s]
  BY DEF ConfirmCredentialUse, RotTable, RotRow, Confirms
<1>3. /\ creds[rots[r].prev].device = d
      /\ creds'[rots[r].prev].device = d /\ creds'[rots[r].prev].status = "grace"
      /\ creds'[rots[r].prev].graceUntil = now + rots[r].minutes
      /\ \A k \in Keys : k # rots[r].prev => creds'[k] = creds[k]
  BY <1>1 DEF ConfirmCredentialUse, Agrees, Matches, CredTable, CredRow, ConfirmApplies, Confirms
<1>4. \A s \in Rotations : s # r /\ IsOpen(s) => rots[s].device # d
  BY <1>1, OpenAlone
<1>5. Confined(r, d)
  BY <1>1, <1>2, <1>3, <1>4 DEF Confined, Agrees, Matches
<1>6. Agrees(r)'
  <2>1. now + rots[r].minutes \in Times
    BY DEF CountersTyped, RotTable, RotRow, Times
  <2>2. /\ rots[r].prev # rots[r].new
        /\ Matches(rots[r].prev, d, "active") /\ Matches(rots[r].new, d, "active")
    BY <1>1 DEF ConfirmCredentialUse, Confirms, Agrees
  <2> QED
    BY <1>2, <1>3, <2>1, <2>2 DEF Agrees, Matches
<1> QED
  BY <1>5, <1>6, ConfinedStep

LEMMA ReconcileItemAgrees ==
  ASSUME TablesInv, NEW p \in Reconcilers, NEW r \in Rotations, ReconcileItem(p, r)
  PROVE  OneOpenRotation' /\ RotationsAgree'
<1> USE DEF TablesInv, TypeOK
<1> DEFINE d == rots[r].device
<1>1. CASE UNCHANGED <<creds, rots>>
  BY <1>1 DEF OneOpenRotation, RotationsAgree, IsOpen, Agrees, Matches
<1>2. CASE Expired(r, pass[p].at) /\ Matches(rots[r].prev, d, "grace")
  <2>1. IsOpen(r)
    BY <1>2 DEF Expired, IsOpen, openRotationStatuses
  <2>2. /\ rots'[r].device = d /\ rots'[r].status = "completed"
        /\ \A s \in Rotations : s # r => rots'[s] = rots[s]
    BY <1>2 DEF ReconcileItem, RotTable, RotRow
  <2>3. /\ creds[rots[r].prev].device = d
        /\ \A k \in Keys : k # rots[r].prev => creds'[k] = creds[k]
    BY <1>2 DEF ReconcileItem, CredTable, CredRow, Matches
  <2>4. \A s \in Rotations : s # r /\ IsOpen(s) => rots[s].device # d
    BY <2>1, OpenAlone
  <2>5. Confined(r, d)
    BY <2>2, <2>3, <2>4 DEF Confined
  <2>6. Agrees(r)'
    BY <2>2 DEF Agrees
  <2> QED
    BY <2>5, <2>6, ConfinedStep
<1> QED
  BY <1>1, <1>2 DEF ReconcileItem

\* A statement that leaves rotations alone and changes no key a rotation names.
LEMMA RotationsUntouched ==
  ASSUME TablesInv, UNCHANGED rots,
         \A k \in Keys : creds[k].status # "none" =>
            /\ creds'[k].device = creds[k].device
            /\ creds'[k].status = creds[k].status
            /\ creds'[k].graceUntil = creds[k].graceUntil
  PROVE  OneOpenRotation' /\ RotationsAgree'
<1>1. OneOpenRotation'
  BY DEF TablesInv, OneOpenRotation, IsOpen
<1>2. ASSUME NEW s \in Rotations PROVE Agrees(s)'
  <2>1. Agrees(s)
    BY DEF TablesInv, RotationsAgree
  <2>2. ASSUME NEW k, NEW t, Matches(k, rots[s].device, t), t # "none"
        PROVE  Matches(k, rots[s].device, t)' /\ creds'[k].graceUntil = creds[k].graceUntil
    BY <2>2 DEF Matches
  <2> QED
    BY <2>1, <2>2 DEF Agrees
<1> QED
  BY <1>1, <1>2 DEF RotationsAgree

LEMMA TablesInvStep == TablesInv /\ [Next]_vars => TablesInv'
<1> SUFFICES ASSUME TablesInv, [Next]_vars
             PROVE  OneOpenRotation' /\ RotationsAgree'
  BY CredsTyped, RotsTyped, LocalsTyped DEF TablesInv, TypeOK
<1>1. CASE UNCHANGED <<creds, rots>>
  BY <1>1, RotationsUntouched
<1>2. ASSUME NEW d \in Devices, NEW k \in Keys, createDevice(d, k)
      PROVE  OneOpenRotation' /\ RotationsAgree'
  BY <1>2, RotationsUntouched DEF createDevice, TablesInv, TypeOK, CredTable
<1>3. ASSUME NEW q \in Requests, AuthTouch(q)
      PROVE  OneOpenRotation' /\ RotationsAgree'
  BY <1>3, RotationsUntouched DEF AuthTouch, TablesInv, TypeOK, CredTable, CredRow
<1>4. ASSUME NEW r \in Rotations, Rollback(r)
      PROVE  OneOpenRotation' /\ RotationsAgree'
  BY <1>4, RollbackRequestedAgrees, RollbackUnconfirmedAgrees, RollbackGraceAgrees
  DEF Rollback
<1> QED
  BY <1>1, <1>2, <1>3, <1>4, RequestRotationAgrees, StageCandidateAgrees,
     StartValidationAgrees, ConfirmAgrees, ReconcileItemAgrees
  DEF Next, Admin, Agent, Serve, Reconcile, Environment, DDNSArrive, AuthSelect,
      UpdateSucceeds, ConfirmNothing, ReconcileBegin, ReconcileSelect, ReconcileEnd, Tick,
      SetClockBack, Crash, RequestFails, PassFails, tables, vars

\* A device never has two open rotations, and every RowsAffected check of the
\* service finds the row its rotation names, whatever the interleaving of
\* administrators, agents, requests and reconcilers.
THEOREM RotationsConsistent == Spec => [](OneOpenRotation /\ RotationsAgree)
<1>1. Init => TablesInv
  <2>1. Init => TypeOK
    BY RotationAssumption
    DEF Init, TypeOK, CredTable, RotTable, CredRow, RotRow, NoCred, NoRot, CredStatuses,
        RotStatuses, UpdTyped, PassTyped, CountersTyped, IdleRequest, IdlePass, Times
  <2> QED
    BY <2>1 DEF Init, TablesInv, OneOpenRotation, RotationsAgree, Agrees, IsOpen, NoRot,
                openRotationStatuses
<1>2. TablesInv => OneOpenRotation /\ RotationsAgree
  BY DEF TablesInv
<1> QED
  BY <1>1, <1>2, TablesInvStep, PTL DEF Spec

\* RequestRotation counts open rows and inserts one in two statements, and no index
\* enforces the promise: the transaction does, for any administrators and devices.
THEOREM OneRotationAtATime == Spec => []OneOpenRotation
<1>1. OneOpenRotation /\ RotationsAgree => OneOpenRotation
  OBVIOUS
<1> QED
  BY <1>1, RotationsConsistent, PTL

-----------------------------------------------------------------------------
(* A key is retired only after its successor was seen to work.  A request    *)
(* carries that proof from the lookup that accepted its key to the           *)
(* confirmation, so the invariant speaks of requests in flight too; it holds *)
(* because rows never lose what was recorded in them.                        *)

RowOK(k) ==
    /\ creds[k].status = "none" => ~ creds[k].activated /\ ~ creds[k].used
    /\ creds[k].status \in {"active", "grace"} => creds[k].activated
    /\ creds[k].used => creds[k].activated

RequestOK(q) ==
    LET k == upd[q].key
    IN  /\ upd[q].pc # "idle" => k \in Keys /\ creds[k].status # "none"
        /\ upd[q].pc = "touch" => creds[k].activated
        /\ upd[q].pc \in {"update", "confirm"} => creds[k].used

UseInv ==
    /\ TablesInv
    /\ \A k \in Keys : RowOK(k)
    /\ \A q \in Requests : RequestOK(q)
    /\ ProofBeforeRetirement

\* What was recorded in row k stays recorded.
Remembers(k) ==
    creds[k].status # "none" =>
        /\ creds'[k].status # "none"
        /\ creds[k].activated => creds'[k].activated
        /\ creds[k].used => creds'[k].used

LEMMA RowsStep ==
  ASSUME UseInv, [Next]_vars, NEW k \in Keys
  PROVE  Remembers(k) /\ RowOK(k)'
<1> USE DEF UseInv, TablesInv, TypeOK, CredTable, CredRow
<1>0. RowOK(k)
  OBVIOUS
<1>1. CASE UNCHANGED creds
  BY <1>0, <1>1 DEF Remembers, RowOK
<1>2. ASSUME NEW d \in Devices, NEW j \in Keys, createDevice(d, j)
      PROVE  Remembers(k) /\ RowOK(k)'
  BY <1>0, <1>2 DEF createDevice, Remembers, RowOK, NoCred
<1>3. ASSUME NEW r \in Rotations, NEW j \in Keys, StageCandidate(r, j)
      PROVE  Remembers(k) /\ RowOK(k)'
  BY <1>0, <1>3 DEF StageCandidate, Remembers, RowOK, NoCred
<1>4. ASSUME NEW r \in Rotations, StartValidation(r)
      PROVE  Remembers(k) /\ RowOK(k)'
  BY <1>0, <1>4 DEF StartValidation, Remembers, RowOK
<1>5. ASSUME NEW r \in Rotations, RollbackUnconfirmed(r)
      PROVE  Remembers(k) /\ RowOK(k)'
  BY <1>0, <1>5 DEF RollbackUnconfirmed, Matches, Remembers, RowOK
<1>6. ASSUME NEW r \in Rotations, RollbackGrace(r)
      PROVE  Remembers(k) /\ RowOK(k)'
  <2>1. /\ rots[r].prev \in Keys /\ creds[rots[r].prev].status = "grace"
        /\ rots[r].new \in Keys /\ creds[rots[r].new].status = "active"
        /\ creds' = [creds EXCEPT ![rots[r].prev].status = "active",
                                  ![rots[r].prev].graceUntil = NULL,
                                  ![rots[r].new].status = "revoked"]
    BY <1>6 DEF RollbackGrace, Matches
  <2>2. /\ creds'[k].used = creds[k].used /\ creds'[k].activated = creds[k].activated
        /\ creds'[k].status \in {creds[k].status, "active", "revoked"}
        /\ creds'[k].status = "active" => creds[k].status \in {"active", "grace"}
        /\ creds'[k].status = "revoked" => creds[k].status # "none"
    <3>1. CASE k = rots[r].prev
      BY <2>1, <3>1
    <3>2. CASE k = rots[r].new
      BY <2>1, <3>2
    <3>3. CASE k # rots[r].prev /\ k # rots[r].new
      BY <2>1, <3>3
    <3> QED
      BY <3>1, <3>2, <3>3
  <2> QED
    BY <1>0, <2>2 DEF Remembers, RowOK
<1>7. ASSUME NEW q \in Requests, AuthTouch(q)
      PROVE  Remembers(k) /\ RowOK(k)'
  <2>1. RequestOK(q) /\ upd[q].pc = "touch"
    BY <1>7 DEF AuthTouch
  <2>2. creds[upd[q].key].status # "none" /\ creds[upd[q].key].activated
    BY <2>1 DEF RequestOK
  <2>3. /\ creds'[k].status = creds[k].status /\ creds'[k].activated = creds[k].activated
        /\ creds'[k].used = IF k = upd[q].key THEN TRUE ELSE creds[k].used
    BY <1>7 DEF AuthTouch
  <2> QED
    BY <1>0, <2>2, <2>3 DEF Remembers, RowOK
<1>8. ASSUME NEW q \in Requests, NEW r \in Rotations, ConfirmCredentialUse(q, r)
      PROVE  Remembers(k) /\ RowOK(k)'
  BY <1>0, <1>8 DEF ConfirmCredentialUse, ConfirmApplies, Matches, Remembers, RowOK
<1>9. ASSUME NEW p \in Reconcilers, NEW r \in Rotations, ReconcileItem(p, r)
      PROVE  Remembers(k) /\ RowOK(k)'
  BY <1>0, <1>9 DEF ReconcileItem, Matches, Remembers, RowOK
<1> QED
  BY <1>1, <1>2, <1>3, <1>4, <1>5, <1>6, <1>7, <1>8, <1>9
  DEF Next, Admin, Agent, Serve, Reconcile, Environment, RequestRotation, Rollback,
      RollbackRequested, DDNSArrive, AuthSelect, UpdateSucceeds, ConfirmNothing,
      ReconcileBegin, ReconcileSelect, ReconcileEnd, Tick, SetClockBack, Crash,
      RequestFails, PassFails, tables, vars

LEMMA RequestsStep ==
  ASSUME UseInv, [Next]_vars, NEW q \in Requests
  PROVE  RequestOK(q)'
<1> USE DEF UseInv, TablesInv, TypeOK
<1>0. RequestOK(q) /\ (\A k \in Keys : Remembers(k))
  BY RowsStep
<1>1. CASE upd'[q] = upd[q]
  BY <1>0, <1>1 DEF RequestOK, Remembers
<1>2. CASE upd'[q].pc = "idle"
  BY <1>2 DEF RequestOK
<1>3. ASSUME NEW k \in Keys, DDNSArrive(q, k)
      PROVE  RequestOK(q)'
  BY <1>3 DEF DDNSArrive, UpdTyped, tables, RequestOK
<1>4. CASE AuthSelect(q)
  <2>1. creds' = creds /\ upd[q].pc = "select"
    BY <1>4 DEF AuthSelect, tables
  <2>2. upd'[q].pc = "idle" \/ (/\ upd'[q].pc = "touch" /\ upd'[q].key = upd[q].key
                               /\ Accepts(creds[upd[q].key], upd[q].at))
    BY <1>4 DEF AuthSelect, Goto, Finish, IdleRequest, UpdTyped
  <2> QED
    BY <1>0, <1>2, <2>1, <2>2 DEF RequestOK, RowOK, Accepts
<1>5. CASE AuthTouch(q)
  <2>1. upd[q].pc = "touch" /\ upd'[q].pc = "update" /\ upd'[q].key = upd[q].key
    BY <1>5 DEF AuthTouch, Goto, UpdTyped
  <2>2. upd[q].key \in Keys => creds'[upd[q].key].used
    BY <1>5 DEF AuthTouch, CredTable, CredRow
  <2> QED
    BY <1>0, <2>1, <2>2 DEF RequestOK, Remembers
<1>6. CASE UpdateSucceeds(q)
  BY <1>0, <1>6 DEF UpdateSucceeds, Goto, UpdTyped, tables, RequestOK
<1>7. CASE (\E r \in Rotations : ConfirmCredentialUse(q, r)) \/ ConfirmNothing(q)
  <2>1. upd' = [upd EXCEPT ![q] = IdleRequest]
    BY <1>7 DEF ConfirmCredentialUse, ConfirmNothing, Finish
  <2> QED
    BY <1>2, <2>1 DEF IdleRequest, UpdTyped
<1>8. ASSUME NEW p \in Requests, p # q, NEW k \in Keys, DDNSArrive(p, k)
      PROVE  RequestOK(q)'
  BY <1>1, <1>8 DEF DDNSArrive, UpdTyped
<1>9. ASSUME NEW p \in Requests, p # q, Serve(p)
      PROVE  RequestOK(q)'
  BY <1>1, <1>9 DEF Serve, AuthSelect, AuthTouch, UpdateSucceeds, ConfirmCredentialUse,
                    ConfirmNothing, Goto, Finish, UpdTyped
<1>10. CASE Environment
  <2>1. CASE Crash
    BY <1>2, <2>1 DEF Crash, IdleRequest
  <2>2. CASE \E p \in Requests : RequestFails(p)
    BY <1>1, <1>2, <2>2 DEF RequestFails, Finish, IdleRequest, UpdTyped
  <2>3. CASE Tick \/ SetClockBack \/ \E p \in Reconcilers : PassFails(p)
    BY <1>1, <2>3 DEF Tick, SetClockBack, PassFails
  <2> QED
    BY <1>10, <2>1, <2>2, <2>3 DEF Environment
<1>11. CASE Admin \/ Agent
  BY <1>1, <1>11 DEF Admin, Agent, createDevice, RequestRotation, StageCandidate,
     StartValidation, Rollback, RollbackRequested, RollbackUnconfirmed, RollbackGrace
<1>12. CASE \E p \in Reconcilers : Reconcile(p)
  BY <1>1, <1>12 DEF Reconcile, ReconcileBegin, ReconcileSelect, ReconcileItem, ReconcileEnd
<1>13. CASE UNCHANGED vars
  BY <1>1, <1>13 DEF vars
<1> QED
  BY <1>3, <1>4, <1>5, <1>6, <1>7, <1>8, <1>9, <1>10, <1>11, <1>12, <1>13 DEF Next, Serve

LEMMA RotationMovers ==
  ASSUME [Next]_vars
  PROVE  \/ UNCHANGED rots
         \/ \E d \in Devices, g \in GraceMinutes, r \in Rotations : RequestRotation(d, g, r)
         \/ Agent \/ \E r \in Rotations : Rollback(r)
         \/ \E q \in Requests, r \in Rotations : ConfirmCredentialUse(q, r)
         \/ \E p \in Reconcilers, r \in Rotations : ReconcileItem(p, r)
<1> USE DEF tables, vars
<1>1. CASE Admin
  BY <1>1 DEF Admin, createDevice
<1>2. CASE \E q \in Requests, k \in Keys : DDNSArrive(q, k)
  BY <1>2 DEF DDNSArrive
<1>3. ASSUME NEW q \in Requests, Serve(q)
      PROVE  UNCHANGED rots \/ \E r \in Rotations : ConfirmCredentialUse(q, r)
  BY <1>3 DEF Serve, AuthSelect, AuthTouch, UpdateSucceeds, ConfirmNothing
<1>4. ASSUME NEW p \in Reconcilers, Reconcile(p)
      PROVE  UNCHANGED rots \/ \E r \in Rotations : ReconcileItem(p, r)
  BY <1>4 DEF Reconcile, ReconcileBegin, ReconcileSelect, ReconcileEnd
<1>5. CASE Environment
  BY <1>5 DEF Environment, Tick, SetClockBack, Crash, RequestFails, PassFails
<1>6. CASE UNCHANGED vars
  BY <1>6
<1> QED
  BY <1>1, <1>2, <1>3, <1>4, <1>5, <1>6 DEF Next

LEMMA ProofStep ==
  ASSUME UseInv, [Next]_vars
  PROVE  ProofBeforeRetirement'
<1> USE DEF UseInv, TablesInv, TypeOK
<1>0. \A k \in Keys : Remembers(k) /\ RowOK(k)
  BY RowsStep
<1>1. ASSUME NEW r \in Rotations, rots[r].status \in {"grace", "completed"},
             rots'[r].new = rots[r].new
      PROVE  rots'[r].new \in Keys /\ creds'[rots'[r].new].used
  BY <1>0, <1>1 DEF ProofBeforeRetirement, Remembers, RowOK
<1>2. ASSUME NEW r \in Rotations, rots'[r].status \in {"grace", "completed"},
             rots[r].status \notin {"grace", "completed"}
      PROVE  \E q \in Requests : ConfirmCredentialUse(q, r)
  <2>1. CASE UNCHANGED rots
    BY <1>2, <2>1
  <2>2. CASE \E d \in Devices, g \in GraceMinutes, s \in Rotations : RequestRotation(d, g, s)
    BY <1>2, <2>2 DEF RequestRotation, RotTable, NoRot
  <2>3. CASE Agent \/ \E s \in Rotations : Rollback(s)
    <3>1. ASSUME NEW s \in Rotations, NEW k \in Keys, StageCandidate(s, k)
          PROVE  FALSE
      <4>1. rots' = [rots EXCEPT ![s].new = k, ![s].status = "staged"]
        BY <3>1 DEF StageCandidate
      <4> QED
        BY <1>2, <4>1 DEF RotTable
    <3>2. ASSUME NEW s \in Rotations, StartValidation(s) \/ Rollback(s)
          PROVE  FALSE
      <4>1. \E status \in {"validating", "rolled_back"} :
               rots' = [rots EXCEPT ![s].status = status]
        BY <3>2 DEF StartValidation, Rollback, RollbackRequested, RollbackUnconfirmed,
                    RollbackGrace
      <4> QED
        BY <1>2, <4>1 DEF RotTable
    <3> QED
      BY <2>3, <3>1, <3>2 DEF Agent
  <2>4. ASSUME NEW q \in Requests, NEW s \in Rotations, ConfirmCredentialUse(q, s), s # r
        PROVE  FALSE
    BY <1>2, <2>4 DEF ConfirmCredentialUse, RotTable
  <2>5. CASE \E p \in Reconcilers, s \in Rotations : ReconcileItem(p, s)
    BY <1>2, <2>5 DEF ReconcileItem, Expired, RotTable, RotRow
  <2>6. CASE \E q \in Requests, s \in Rotations : ConfirmCredentialUse(q, s)
    BY <2>4, <2>6
  <2> QED
    BY RotationMovers, <2>1, <2>2, <2>3, <2>5, <2>6
<1>3. ASSUME NEW r \in Rotations, NEW q \in Requests, ConfirmCredentialUse(q, r)
      PROVE  rots'[r].new \in Keys /\ creds'[rots'[r].new].used
  <2>1. RequestOK(q) /\ upd[q].pc = "confirm" /\ rots[r].new = upd[q].key
    BY <1>3 DEF ConfirmCredentialUse, Confirms
  <2>2. rots'[r].new = rots[r].new
    BY <1>3 DEF ConfirmCredentialUse, RotTable, RotRow
  <2> QED
    BY <1>0, <2>1, <2>2 DEF RequestOK, Remembers
<1>4. ASSUME NEW r \in Rotations, rots[r].status \in {"grace", "completed"}
      PROVE  rots'[r].new = rots[r].new
  <2>1. CASE UNCHANGED rots
    BY <2>1
  <2>2. CASE \E d \in Devices, g \in GraceMinutes, s \in Rotations : RequestRotation(d, g, s)
    BY <1>4, <2>2 DEF RequestRotation, RotTable
  <2>3. CASE Agent \/ \E s \in Rotations : Rollback(s)
    <3>1. ASSUME NEW s \in Rotations, NEW k \in Keys, StageCandidate(s, k)
          PROVE  rots'[r].new = rots[r].new
      <4>1. s # r
        BY <1>4, <3>1 DEF StageCandidate
      <4> QED
        BY <3>1, <4>1 DEF StageCandidate, RotTable
    <3>2. ASSUME NEW s \in Rotations, StartValidation(s) \/ Rollback(s)
          PROVE  rots'[r].new = rots[r].new
      BY <3>2 DEF StartValidation, Rollback, RollbackRequested, RollbackUnconfirmed,
                  RollbackGrace, RotTable, RotRow
    <3> QED
      BY <2>3, <3>1, <3>2 DEF Agent
  <2>4. CASE \E q \in Requests, s \in Rotations : ConfirmCredentialUse(q, s)
    BY <1>4, <2>4 DEF ConfirmCredentialUse, RotTable, RotRow
  <2>5. CASE \E p \in Reconcilers, s \in Rotations : ReconcileItem(p, s)
    BY <1>4, <2>5 DEF ReconcileItem, RotTable, RotRow
  <2> QED
    BY RotationMovers, <2>1, <2>2, <2>3, <2>4, <2>5
<1>5. ASSUME NEW r \in Rotations, rots'[r].status \in {"grace", "completed"}
      PROVE  rots'[r].new \in Keys /\ creds'[rots'[r].new].used
  BY <1>1, <1>2, <1>3, <1>4, <1>5
<1> QED
  BY <1>5 DEF ProofBeforeRetirement

LEMMA UseInvariant == Spec => []UseInv
<1>1. Init => UseInv
  <2>1. Init => TypeOK
    BY RotationAssumption
    DEF Init, TypeOK, CredTable, RotTable, CredRow, RotRow, NoCred, NoRot, CredStatuses,
        RotStatuses, UpdTyped, PassTyped, CountersTyped, IdleRequest, IdlePass, Times
  <2>2. Init => OneOpenRotation /\ RotationsAgree /\ ProofBeforeRetirement
    BY DEF Init, OneOpenRotation, RotationsAgree, Agrees, IsOpen, NoRot,
           openRotationStatuses, ProofBeforeRetirement
  <2> QED
    BY <2>1, <2>2 DEF Init, UseInv, TablesInv, RowOK, RequestOK, NoCred, IdleRequest
<1>2. UseInv /\ [Next]_vars => UseInv'
  BY TablesInvStep, RowsStep, RequestsStep, ProofStep DEF UseInv
<1> QED
  BY <1>1, <1>2, PTL DEF Spec

\* docs/credential-rotation: "The previous credential remains fully active until
\* the replacement has successfully authenticated".
THEOREM NothingRetiredUnproven == Spec => []ProofBeforeRetirement
<1>1. UseInv => ProofBeforeRetirement
  BY DEF UseInv
<1> QED
  BY <1>1, UseInvariant, PTL

\* A key that StartValidation never made active is never used, so registering a
\* candidate gives it no access.
THEOREM CandidatesNotTrusted == Spec => []OnlyActivatedKeysUsed
<1>1. UseInv => OnlyActivatedKeysUsed
  BY DEF UseInv, RowOK, OnlyActivatedKeysUsed
<1> QED
  BY <1>1, UseInvariant, PTL
=============================================================================
