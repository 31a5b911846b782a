------------------------ MODULE RotationLifecycle_proofs ------------------------
(***************************************************************************)
(* CredentialRotation implements RotationLifecycle, for any constants.     *)
(*                                                                         *)
(* ViewOK says what the mapping makes of a device without CHOOSE: of its   *)
(* open rotation, or of its one active key.  An operation on a rotation    *)
(* changes the view of one device (OneDevice), and is the step of that     *)
(* device that has its name in the lifecycle.                              *)
(***************************************************************************)
EXTENDS CredentialKeys_proofs

Spent == {k \in Keys : creds[k].status = "revoked"}
Used == {k \in Keys : creds[k].used}

ViewOK ==
    /\ lifePhase = [d \in Devices |-> lifePhase[d]]
    /\ lifeOld = [d \in Devices |-> lifeOld[d]] /\ lifeNew = [d \in Devices |-> lifeNew[d]]
    /\ \A d \in Devices :
          /\ d \notin devices => lifePhase[d] = "absent" /\ lifeOld[d] = NULL /\ lifeNew[d] = NULL
          /\ \A r \in Rotations : d \in devices /\ IsOpen(r) /\ rots[r].device = d =>
                /\ lifePhase[d] = rots[r].status
                /\ lifeOld[d] = rots[r].prev /\ lifeNew[d] = rots[r].new
          /\ d \in devices /\ (\A r \in Rotations : IsOpen(r) => rots[r].device # d) =>
                /\ lifePhase[d] = "stable" /\ lifeNew[d] = NULL
                /\ \A k \in Keys : Matches(k, d, "active") => lifeOld[d] = k

LEMMA View == KeysInv => ViewOK
<1> SUFFICES ASSUME KeysInv PROVE ViewOK
  OBVIOUS
<1>1. ASSUME NEW d \in Devices, d \notin devices
      PROVE  lifePhase[d] = "absent" /\ lifeOld[d] = NULL /\ lifeNew[d] = NULL
  <2>1. OpenRotations(d) = {}
    BY <1>1 DEF OpenRotations, KeysInv, Owned, IsOpen
  <2> QED
    BY <1>1, <2>1 DEF lifePhase, lifeOld, lifeNew
<1>2. ASSUME NEW d \in Devices, d \in devices, NEW r \in Rotations, IsOpen(r), rots[r].device = d
      PROVE  lifePhase[d] = rots[r].status /\ lifeOld[d] = rots[r].prev /\ lifeNew[d] = rots[r].new
  <2>1. OpenRotations(d) = {r}
    BY <1>2 DEF OpenRotations, KeysInv, UseInv, TablesInv, OneOpenRotation, IsOpen
  <2>2. CurrentRotation(d) = r
    BY <2>1 DEF CurrentRotation
  <2> QED
    BY <1>2, <2>1, <2>2 DEF lifePhase, lifeOld, lifeNew
<1>3. ASSUME NEW d \in Devices, d \in devices,
             \A r \in Rotations : IsOpen(r) => rots[r].device # d
      PROVE  /\ lifePhase[d] = "stable" /\ lifeNew[d] = NULL
             /\ \A k \in Keys : Matches(k, d, "active") => lifeOld[d] = k
  <2>1. OpenRotations(d) = {}
    BY <1>3 DEF OpenRotations, IsOpen
  <2>2. Stable(d)
    BY <1>3 DEF KeysInv, KeysOf
  <2>3. ASSUME NEW k \in Keys, Matches(k, d, "active") PROVE lifeOld[d] = k
    <3>1. \A j \in Keys : j \in ActiveKeys(d) <=> j = k
      BY <2>2, <2>3 DEF Stable, ActiveKeys, Matches
    <3>2. (CHOOSE j \in Keys : j \in ActiveKeys(d)) = k
      BY <3>1
    <3> QED
      BY <1>3, <2>1, <3>2 DEF lifeOld
  <2> QED
    BY <1>3, <2>1, <2>3 DEF lifePhase, lifeNew
<1>4. /\ lifePhase = [d \in Devices |-> lifePhase[d]]
      /\ lifeOld = [d \in Devices |-> lifeOld[d]] /\ lifeNew = [d \in Devices |-> lifeNew[d]]
  BY DEF lifePhase, lifeOld, lifeNew
<1> QED
  BY <1>1, <1>2, <1>3, <1>4 DEF ViewOK

LEMMA ViewNext == (KeysInv => ViewOK)'
  BY View, PTL

\* The view of a device depends on its own rotation and its own active keys.
LEMMA SameView ==
    ASSUME KeysInv, ViewOK, ViewOK', NEW x \in Devices, x \in devices' <=> x \in devices,
           \A s \in Rotations :
              /\ IsOpen(s)' /\ rots'[s].device = x <=> IsOpen(s) /\ rots[s].device = x
              /\ IsOpen(s) /\ rots[s].device = x => rots'[s] = rots[s],
           \A k \in Keys : Matches(k, x, "active")' <=> Matches(k, x, "active")
    PROVE  lifePhase'[x] = lifePhase[x] /\ lifeOld'[x] = lifeOld[x] /\ lifeNew'[x] = lifeNew[x]
<1>1. CASE x \notin devices
  BY <1>1 DEF ViewOK
<1>2. ASSUME x \in devices, NEW s \in Rotations, IsOpen(s), rots[s].device = x
      PROVE  lifePhase'[x] = lifePhase[x] /\ lifeOld'[x] = lifeOld[x] /\ lifeNew'[x] = lifeNew[x]
  BY <1>2 DEF ViewOK
<1>3. CASE x \in devices /\ \A s \in Rotations : IsOpen(s) => rots[s].device # x
  <2>1. PICK k \in Keys : Matches(k, x, "active")
    BY <1>3 DEF KeysInv, KeysOf, Stable
  <2> QED
    BY <1>3, <2>1 DEF ViewOK
<1> QED
  BY <1>1, <1>2, <1>3

LEMMA OneDevice ==
    ASSUME KeysInv, ViewOK, ViewOK', NEW r \in Rotations, NEW d, Touches(r, d)
    PROVE  /\ lifePhase' = [lifePhase EXCEPT ![d] = lifePhase'[d]]
           /\ lifeOld' = [lifeOld EXCEPT ![d] = lifeOld'[d]]
           /\ lifeNew' = [lifeNew EXCEPT ![d] = lifeNew'[d]]
<1>1. ASSUME NEW x \in Devices, x # d
      PROVE  lifePhase'[x] = lifePhase[x] /\ lifeOld'[x] = lifeOld[x] /\ lifeNew'[x] = lifeNew[x]
  <2>1. \A s \in Rotations :
           /\ IsOpen(s)' /\ rots'[s].device = x <=> IsOpen(s) /\ rots[s].device = x
           /\ IsOpen(s) /\ rots[s].device = x => rots'[s] = rots[s]
    BY <1>1 DEF Touches, IsOpen
  <2>2. CASE x \in devices
    <3>1. \A k \in Keys : Matches(k, x, "active")' <=> Matches(k, x, "active")
      BY <1>1, <2>2 DEF Touches, InUse
    <3> QED
      BY <2>1, <3>1, SameView DEF Touches
  <2>3. CASE x \notin devices
    BY <2>3 DEF ViewOK, Touches
  <2> QED
    BY <2>2, <2>3
<1> QED
  BY <1>1 DEF ViewOK

LEMMA NoDevice ==
    ASSUME KeysInv, ViewOK, ViewOK', UNCHANGED <<devices, rots>>,
           \A k \in Keys : creds'[k].device = creds[k].device /\ creds'[k].status = creds[k].status
    PROVE  lifePhase' = lifePhase /\ lifeOld' = lifeOld /\ lifeNew' = lifeNew /\ Spent' = Spent
<1>1. ASSUME NEW x \in Devices
      PROVE  lifePhase'[x] = lifePhase[x] /\ lifeOld'[x] = lifeOld[x] /\ lifeNew'[x] = lifeNew[x]
  <2>1. \A k \in Keys : Matches(k, x, "active")' <=> Matches(k, x, "active")
    BY DEF Matches
  <2>2. \A s \in Rotations :
           /\ IsOpen(s)' /\ rots'[s].device = x <=> IsOpen(s) /\ rots[s].device = x
           /\ IsOpen(s) /\ rots[s].device = x => rots'[s] = rots[s]
    BY DEF IsOpen
  <2> QED
    BY <2>1, <2>2, SameView
<1> QED
  BY <1>1 DEF ViewOK, Spent

\* No key that is still to be generated appears in the view.
LEMMA FreshKey ==
    ASSUME KeysInv, ViewOK, NEW k \in Keys, creds[k].status = "none"
    PROVE  Lifecycle!Fresh(k)
<1>1. ASSUME NEW d \in Devices PROVE k # lifeOld[d] /\ k # lifeNew[d]
  <2>1. CASE d \notin devices
    BY <2>1, RotationAssumption DEF ViewOK
  <2>2. ASSUME d \in devices, NEW r \in Rotations, IsOpen(r), rots[r].device = d
        PROVE  k # lifeOld[d] /\ k # lifeNew[d]
    <3>1. Agrees(r)
      BY <2>2, OpenFacts
    <3>2. lifeOld[d] = rots[r].prev /\ lifeNew[d] = rots[r].new
      BY <2>2 DEF ViewOK
    <3> QED
      BY <2>2, <3>1, <3>2, RotationAssumption DEF Agrees, Matches, IsOpen, openRotationStatuses
  <2>3. CASE d \in devices /\ \A r \in Rotations : IsOpen(r) => rots[r].device # d
    <3>1. PICK j \in Keys : Matches(j, d, "active")
      BY <2>3 DEF KeysInv, KeysOf, Stable
    <3> QED
      BY <2>3, <3>1, RotationAssumption DEF ViewOK, Matches
  <2> QED
    BY <2>1, <2>2, <2>3
<1> QED
  BY <1>1 DEF Lifecycle!Fresh

\* What is common to the operations on an open rotation.
LEMMA OpenView ==
    ASSUME KeysInv, ViewOK, NEW r \in Rotations, IsOpen(r)
    PROVE  LET d == rots[r].device
           IN  /\ d \in Devices /\ d \in devices /\ Agrees(r)
               /\ lifePhase[d] = rots[r].status /\ lifeOld[d] = rots[r].prev
               /\ lifeNew[d] = rots[r].new
  BY OpenFacts DEF ViewOK, KeysInv, UseInv, TablesInv, TypeOK

LEMMA CreateIsRegister ==
    ASSUME KeysInv, KeysInv', ViewOK, ViewOK', NEW d \in Devices, NEW k \in Keys, createDevice(d, k)
    PROVE  Lifecycle!Register(d, k)
<1>1. /\ creds'[k].device = d /\ creds'[k].status = "active" /\ creds[k].status = "none"
      /\ creds'[k].used = FALSE /\ creds[k].used = FALSE
      /\ \A j \in Keys : j # k => creds'[j] = creds[j]
      /\ devices' = devices \cup {d} /\ d \notin devices /\ rots' = rots
  BY DEF createDevice, KeysInv, UseInv, TablesInv, TypeOK, CredTable, CredRow, NoCred, RowOK
<1>2. ASSUME NEW x \in Devices, x # d
      PROVE  lifePhase'[x] = lifePhase[x] /\ lifeOld'[x] = lifeOld[x] /\ lifeNew'[x] = lifeNew[x]
  <2>1. \A j \in Keys : Matches(j, x, "active")' <=> Matches(j, x, "active")
    BY <1>1, <1>2 DEF Matches
  <2>2. \A s \in Rotations :
           /\ IsOpen(s)' /\ rots'[s].device = x <=> IsOpen(s) /\ rots[s].device = x
           /\ IsOpen(s) /\ rots[s].device = x => rots'[s] = rots[s]
    BY <1>1 DEF IsOpen
  <2> QED
    BY <1>1, <1>2, <2>1, <2>2, SameView
<1>3. /\ lifePhase[d] = "absent" /\ lifeOld[d] = NULL /\ lifeNew[d] = NULL
  BY <1>1 DEF ViewOK
<1>4. lifePhase'[d] = "stable" /\ lifeOld'[d] = k /\ lifeNew'[d] = NULL
  <2>1. \A r \in Rotations : IsOpen(r)' => rots'[r].device # d
    BY <1>1 DEF KeysInv, Owned, IsOpen
  <2>2. Matches(k, d, "active")'
    BY <1>1 DEF Matches
  <2> QED
    BY <1>1, <2>1, <2>2 DEF ViewOK
<1>5. /\ lifePhase' = [lifePhase EXCEPT ![d] = "stable"]
      /\ lifeOld' = [lifeOld EXCEPT ![d] = k] /\ lifeNew' = lifeNew
  BY <1>2, <1>3, <1>4 DEF ViewOK
<1>6. Spent' = Spent /\ Used' = Used
  BY <1>1 DEF Spent, Used
<1>7. Lifecycle!Fresh(k)
  BY <1>1, FreshKey
<1> QED
  BY <1>3, <1>5, <1>6, <1>7 DEF Lifecycle!Register, Spent, Used

LEMMA RequestIsAsk ==
    ASSUME KeysInv, KeysInv', ViewOK, ViewOK', NEW d \in Devices, NEW g \in GraceMinutes,
           NEW r \in Rotations, RequestRotation(d, g, r)
    PROVE  Lifecycle!Ask(d)
<1>1. PICK k \in Keys :
        /\ ActiveKeys(d) = {k}
        /\ rots' = [rots EXCEPT ![r] = [NoRot EXCEPT !.device = d, !.prev = k,
                                          !.status = "requested", !.minutes = g]]
  BY DEF RequestRotation
<1>2. /\ rots'[r].device = d /\ rots'[r].prev = k /\ rots'[r].status = "requested"
      /\ rots'[r].new = NULL /\ creds' = creds /\ devices' = devices /\ d \in devices
      /\ \A s \in Rotations : IsOpen(s) => rots[s].device # d
  BY <1>1 DEF RequestRotation, NoRot, RotTable, KeysInv, UseInv, TablesInv, TypeOK, OpenRotations,
              IsOpen
<1>3. lifePhase[d] = "stable" /\ lifeOld[d] = k /\ lifeNew[d] = NULL
  <2>1. Matches(k, d, "active")
    BY <1>1 DEF ActiveKeys, Matches
  <2> QED
    BY <1>2, <2>1 DEF ViewOK
<1>4. lifePhase'[d] = "requested" /\ lifeOld'[d] = k /\ lifeNew'[d] = NULL
  <2>1. IsOpen(r)'
    BY <1>2 DEF IsOpen, openRotationStatuses
  <2> QED
    BY <1>2, <2>1 DEF ViewOK
<1>5. /\ lifePhase' = [lifePhase EXCEPT ![d] = "requested"] /\ lifeOld' = lifeOld
      /\ lifeNew' = lifeNew
  BY <1>3, <1>4, RequestKeys, OneDevice DEF ViewOK
<1> QED
  BY <1>2, <1>3, <1>5 DEF Lifecycle!Ask

LEMMA StageIsOffer ==
    ASSUME KeysInv, KeysInv', ViewOK, ViewOK', NEW r \in Rotations, NEW k \in Keys,
           StageCandidate(r, k)
    PROVE  \E d \in Devices : Lifecycle!Offer(d, k)
<1>1. PICK d \in Devices : d = rots[r].device /\ d \in devices /\ rots[r].status = "requested"
                           /\ lifePhase[d] = "requested" /\ lifeOld[d] = rots[r].prev
  BY OpenView DEF StageCandidate, IsOpen, openRotationStatuses
<1>2. /\ rots'[r].device = d /\ rots'[r].prev = rots[r].prev /\ rots'[r].new = k
      /\ rots'[r].status = "staged"
      /\ creds'[k].status = "pending" /\ creds[k].status = "none"
      /\ creds'[k].used = FALSE /\ creds[k].used = FALSE
      /\ \A j \in Keys : j # k => creds'[j] = creds[j]
      /\ devices' = devices
  BY <1>1 DEF StageCandidate, KeysInv, UseInv, TablesInv, TypeOK, RotTable, RotRow, CredTable,
              CredRow, NoCred, RowOK
<1>3. lifePhase'[d] = "staged" /\ lifeOld'[d] = rots[r].prev /\ lifeNew'[d] = k
  <2>1. IsOpen(r)'
    BY <1>2 DEF IsOpen, openRotationStatuses
  <2> QED
    BY <1>1, <1>2, <2>1 DEF ViewOK
<1>4. /\ lifePhase' = [lifePhase EXCEPT ![d] = "staged"] /\ lifeOld' = lifeOld
      /\ lifeNew' = [lifeNew EXCEPT ![d] = k]
  BY <1>1, <1>3, StageKeys, OneDevice DEF ViewOK
<1>5. Spent' = Spent /\ Used' = Used
  BY <1>2 DEF Spent, Used
<1> QED
  BY <1>1, <1>2, <1>4, <1>5, FreshKey DEF Lifecycle!Offer, Spent, Used

LEMMA StartIsAdmit ==
    ASSUME KeysInv, KeysInv', ViewOK, ViewOK', NEW r \in Rotations, StartValidation(r)
    PROVE  \E d \in Devices : Lifecycle!Admit(d)
<1>1. PICK d \in Devices : d = rots[r].device /\ d \in devices /\ rots[r].status = "staged"
                           /\ lifePhase[d] = "staged" /\ lifeOld[d] = rots[r].prev
                           /\ lifeNew[d] = rots[r].new
  BY OpenView DEF StartValidation, IsOpen, openRotationStatuses
<1>2. /\ rots'[r].device = d /\ rots'[r].prev = rots[r].prev /\ rots'[r].new = rots[r].new
      /\ rots'[r].status = "validating" /\ devices' = devices
      /\ \A k \in Keys : /\ creds'[k].status = "revoked" <=> creds[k].status = "revoked"
                         /\ creds'[k].used = creds[k].used
  BY <1>1 DEF StartValidation, Matches, KeysInv, UseInv, TablesInv, TypeOK, RotTable, RotRow,
              CredTable, CredRow
<1>3. lifePhase'[d] = "validating" /\ lifeOld'[d] = rots[r].prev /\ lifeNew'[d] = rots[r].new
  <2>1. IsOpen(r)'
    BY <1>2 DEF IsOpen, openRotationStatuses
  <2> QED
    BY <1>1, <1>2, <2>1 DEF ViewOK
<1>4. /\ lifePhase' = [lifePhase EXCEPT ![d] = "validating"] /\ lifeOld' = lifeOld
      /\ lifeNew' = lifeNew
  BY <1>1, <1>3, ValidateKeys, OneDevice DEF ViewOK
<1>5. Spent' = Spent /\ Used' = Used
  BY <1>2 DEF Spent, Used
<1> QED
  BY <1>1, <1>4, <1>5 DEF Lifecycle!Admit, Spent, Used

LEMMA ConfirmIsSwitch ==
    ASSUME KeysInv, KeysInv', ViewOK, ViewOK', NEW q \in Requests, NEW r \in Rotations,
           ConfirmCredentialUse(q, r)
    PROVE  \E d \in Devices : Lifecycle!Switch(d)
<1>1. PICK d \in Devices : d = rots[r].device /\ d \in devices /\ rots[r].status = "validating"
                           /\ lifePhase[d] = "validating" /\ lifeOld[d] = rots[r].prev
                           /\ lifeNew[d] = rots[r].new
  BY OpenView DEF ConfirmCredentialUse, Confirms, IsOpen, openRotationStatuses
<1>2. /\ rots'[r].device = d /\ rots'[r].prev = rots[r].prev /\ rots'[r].new = rots[r].new
      /\ rots'[r].status = "grace" /\ devices' = devices
      /\ \A k \in Keys : /\ creds'[k].status = "revoked" <=> creds[k].status = "revoked"
                         /\ creds'[k].used = creds[k].used
  BY <1>1 DEF ConfirmCredentialUse, ConfirmApplies, Matches, KeysInv, UseInv, TablesInv, TypeOK,
              RotTable, RotRow, CredTable, CredRow
<1>3. rots[r].new \in Used
  BY DEF ConfirmCredentialUse, Confirms, KeysInv, UseInv, RequestOK, Used
<1>4. lifePhase'[d] = "grace" /\ lifeOld'[d] = rots[r].prev /\ lifeNew'[d] = rots[r].new
  <2>1. IsOpen(r)'
    BY <1>2 DEF IsOpen, openRotationStatuses
  <2> QED
    BY <1>1, <1>2, <2>1 DEF ViewOK
<1>5. /\ lifePhase' = [lifePhase EXCEPT ![d] = "grace"] /\ lifeOld' = lifeOld
      /\ lifeNew' = lifeNew
  BY <1>1, <1>4, ConfirmKeys, OneDevice DEF ViewOK
<1>6. Spent' = Spent /\ Used' = Used
  BY <1>2 DEF Spent, Used
<1> QED
  BY <1>1, <1>3, <1>5, <1>6 DEF Lifecycle!Switch, Spent, Used

\* What a device looks like when its rotation has just ended with key k in force.
LEMMA ClosedView ==
    ASSUME KeysInv, ViewOK', NEW r \in Rotations, NEW d \in Devices, Touches(r, d), ~ IsOpen(r)',
           NEW k \in Keys, Matches(k, d, "active")'
    PROVE  lifePhase'[d] = "stable" /\ lifeOld'[d] = k /\ lifeNew'[d] = NULL
<1>1. \A s \in Rotations : IsOpen(s)' => rots'[s].device # d
  BY DEF Touches, IsOpen
<1> QED
  BY <1>1 DEF ViewOK, Touches

LEMMA ReconcileIsRetire ==
    ASSUME KeysInv, KeysInv', ViewOK, ViewOK', NEW i \in Reconcilers, NEW r \in Rotations,
           ReconcileItem(i, r), ~ UNCHANGED <<creds, rots>>
    PROVE  \E d \in Devices : Lifecycle!Retire(d)
<1>1. Expired(r, pass[i].at) /\ Matches(rots[r].prev, rots[r].device, "grace")
  BY DEF ReconcileItem
<1>2. PICK d \in Devices : d = rots[r].device /\ d \in devices /\ rots[r].status = "grace"
                           /\ lifePhase[d] = "grace" /\ lifeOld[d] = rots[r].prev
                           /\ lifeNew[d] = rots[r].new /\ Matches(rots[r].new, d, "active")
  BY <1>1, OpenView DEF Expired, IsOpen, openRotationStatuses, Agrees
<1>3. Touches(r, d)
  BY <1>2, ReconcileKeys
<1>4. /\ rots[r].prev \in Keys /\ rots[r].new \in Keys /\ rots[r].prev # rots[r].new
      /\ creds[rots[r].prev].status = "grace"
  BY <1>1, <1>2 DEF Matches
<1>5. /\ rots'[r].status = "completed" /\ devices' = devices
      /\ creds'[rots[r].prev].status = "revoked"
      /\ creds'[rots[r].prev].used = creds[rots[r].prev].used
      /\ \A k \in Keys : k # rots[r].prev => creds'[k] = creds[k]
  BY <1>1, <1>4 DEF ReconcileItem, KeysInv, UseInv, TablesInv, TypeOK, RotTable, RotRow, CredTable,
                    CredRow
<1>6. lifePhase'[d] = "stable" /\ lifeOld'[d] = rots[r].new /\ lifeNew'[d] = NULL
  <2>1. ~ IsOpen(r)'
    BY <1>5 DEF IsOpen, openRotationStatuses
  <2>2. PICK n \in Keys : n = rots[r].new /\ Matches(n, d, "active")'
    BY <1>2, <1>4, <1>5 DEF Matches
  <2> QED
    BY <1>2, <1>3, <2>1, <2>2, ClosedView
<1>7. /\ lifePhase' = [lifePhase EXCEPT ![d] = "stable"]
      /\ lifeOld' = [lifeOld EXCEPT ![d] = lifeNew[d]]
      /\ lifeNew' = [lifeNew EXCEPT ![d] = NULL]
  BY <1>2, <1>3, <1>6, OneDevice
<1>8. Spent' = Spent \cup {lifeOld[d]} /\ Used' = Used
  BY <1>2, <1>4, <1>5 DEF Spent, Used
<1> QED
  BY <1>2, <1>7, <1>8 DEF Lifecycle!Retire, Spent, Used

LEMMA RollbackIsAbandon ==
    ASSUME KeysInv, KeysInv', ViewOK, ViewOK', NEW r \in Rotations, Rollback(r)
    PROVE  \E d \in Devices : Lifecycle!Abandon(d)
<1>1. PICK d \in Devices : d = rots[r].device /\ d \in devices /\ Agrees(r)
                           /\ rots[r].status \in {"requested", "staged", "validating", "grace"}
                           /\ lifePhase[d] = rots[r].status /\ lifeOld[d] = rots[r].prev
                           /\ lifeNew[d] = rots[r].new
  BY OpenView DEF Rollback, RollbackRequested, RollbackUnconfirmed, RollbackGrace, IsOpen,
                  openRotationStatuses
<1>2. PICK p \in Keys : p = rots[r].prev /\ creds[p].device = d
  BY <1>1 DEF Agrees, Matches
<1>3. rots'[r].status = "rolled_back" /\ rots'[r].device = d /\ devices' = devices
  BY <1>1 DEF Rollback, RollbackRequested, RollbackUnconfirmed, RollbackGrace, KeysInv, UseInv,
              TablesInv, TypeOK, RotTable, RotRow
<1>4. /\ Matches(p, d, "active")'
      /\ Spent' = Spent \cup ({rots[r].new} \ {NULL}) /\ Used' = Used
  <2>0. creds \in CredTable
    BY DEF KeysInv, UseInv, TablesInv, TypeOK
  <2>1. CASE RollbackRequested(r)
    <3>1. rots[r].new = NULL /\ creds[p].status = "active" /\ creds' = creds
      BY <1>1, <1>2, <2>1 DEF RollbackRequested, Agrees, Matches
    <3> QED
      BY <1>2, <3>1 DEF Matches, Spent, Used
  <2>2. CASE RollbackUnconfirmed(r)
    <3>1. PICK n \in Keys : n = rots[r].new /\ n # NULL /\ n # p /\ creds[p].status = "active"
      BY <1>1, <1>2, <2>2, RotationAssumption DEF RollbackUnconfirmed, Agrees, Matches
    <3>2. creds' = [creds EXCEPT ![n].status = "revoked"]
      BY <2>2, <3>1 DEF RollbackUnconfirmed
    <3>3. /\ creds'[n].status = "revoked" /\ creds'[n].used = creds[n].used
          /\ \A k \in Keys : k # n => creds'[k] = creds[k]
      BY <2>0, <3>2 DEF CredTable, CredRow
    <3> QED
      BY <1>2, <3>1, <3>3 DEF Matches, Spent, Used
  <2>3. CASE RollbackGrace(r)
    <3>0. /\ rots[r].new \in Keys /\ creds[rots[r].new].status = "active"
          /\ creds[p].status = "grace"
      BY <1>2, <2>3 DEF RollbackGrace, Matches
    <3>1. PICK n \in Keys : n = rots[r].new /\ n # NULL /\ n # p
                            /\ creds[p].status = "grace" /\ creds[n].status = "active"
      BY <3>0, RotationAssumption
    <3>2. creds' = [creds EXCEPT ![p].status = "active", ![p].graceUntil = NULL,
                                 ![n].status = "revoked"]
      BY <1>2, <2>3, <3>1 DEF RollbackGrace
    <3>3. /\ \A k \in Keys : k # n /\ k # p => creds'[k] = creds[k]
          /\ creds'[n] = [creds[n] EXCEPT !.status = "revoked"]
          /\ creds'[p] = [creds[p] EXCEPT !.status = "active", !.graceUntil = NULL]
      BY <2>0, <3>1, <3>2 DEF CredTable
    <3>4. /\ creds'[n].status = "revoked" /\ creds'[n].used = creds[n].used
          /\ creds'[p].status = "active" /\ creds'[p].used = creds[p].used
          /\ creds'[p].device = creds[p].device
          /\ \A k \in Keys : k # n /\ k # p => creds'[k] = creds[k]
      BY <2>0, <3>3 DEF CredTable, CredRow
    <3> QED
      BY <1>2, <3>1, <3>4 DEF Matches, Spent, Used
  <2> QED
    BY <2>1, <2>2, <2>3 DEF Rollback
<1>5. Touches(r, d)
  BY <1>1, RollbackEarlyKeys, RollbackGraceKeys DEF Rollback
<1>6. lifePhase'[d] = "stable" /\ lifeOld'[d] = p /\ lifeNew'[d] = NULL
  <2>1. ~ IsOpen(r)'
    BY <1>3 DEF IsOpen, openRotationStatuses
  <2> QED
    BY <1>2, <1>4, <1>5, <2>1, ClosedView
<1>7. /\ lifePhase' = [lifePhase EXCEPT ![d] = "stable"] /\ lifeOld' = lifeOld
      /\ lifeNew' = [lifeNew EXCEPT ![d] = NULL]
  BY <1>1, <1>2, <1>5, <1>6, OneDevice DEF ViewOK
<1> QED
  BY <1>1, <1>4, <1>7 DEF Lifecycle!Abandon, Spent, Used

-----------------------------------------------------------------------------
(* The uses of a key, and the whole service. *)

\* A candidate has not been activated, so no request carries it to AuthTouch.
PendingNew == \A k \in Keys : creds[k].status = "pending" => ~ creds[k].activated

LifeInv == KeysInv /\ PendingNew

LEMMA PendingStep == LifeInv /\ [Next]_vars => PendingNew'
<1> SUFFICES ASSUME LifeInv, [Next]_vars, NEW k \in Keys, creds'[k].status = "pending"
             PROVE  ~ creds'[k].activated
  BY DEF PendingNew
<1> USE DEF LifeInv, KeysInv, UseInv, TablesInv, TypeOK, CredTable, CredRow, PendingNew
<1>1. CASE UNCHANGED creds
  BY <1>1
<1>2. ASSUME NEW d \in Devices, NEW j \in Keys, createDevice(d, j) PROVE ~ creds'[k].activated
  BY <1>2 DEF createDevice, NoCred
<1>3. ASSUME NEW r \in Rotations, NEW j \in Keys, StageCandidate(r, j)
      PROVE  ~ creds'[k].activated
  BY <1>3 DEF StageCandidate, NoCred
<1>4. ASSUME NEW r \in Rotations, StartValidation(r) \/ RollbackUnconfirmed(r)
      PROVE  ~ creds'[k].activated
  BY <1>4 DEF StartValidation, RollbackUnconfirmed, Matches
<1>5. ASSUME NEW r \in Rotations, RollbackGrace(r) PROVE ~ creds'[k].activated
  BY <1>5 DEF RollbackGrace, Matches
<1>6. ASSUME NEW q \in Requests, AuthTouch(q) PROVE ~ creds'[k].activated
  BY <1>6 DEF AuthTouch
<1>7. ASSUME NEW q \in Requests, NEW r \in Rotations, ConfirmCredentialUse(q, r)
      PROVE  ~ creds'[k].activated
  BY <1>7 DEF ConfirmCredentialUse, ConfirmApplies, Matches
<1>8. ASSUME NEW p \in Reconcilers, NEW r \in Rotations, ReconcileItem(p, r)
      PROVE  ~ creds'[k].activated
  BY <1>8 DEF ReconcileItem, Matches
<1> QED
  BY <1>1, <1>2, <1>3, <1>4, <1>5, <1>6, <1>7, <1>8
  DEF Next, Admin, Agent, Serve, Reconcile, Environment, RequestRotation, Rollback,
      RollbackRequested, DDNSArrive, AuthSelect, UpdateSucceeds, ConfirmNothing,
      ReconcileBegin, ReconcileSelect, ReconcileEnd, Tick, SetClockBack, Crash,
      RequestFails, PassFails, tables, vars

\* A key that is active or in grace is one its device trusts.
LEMMA KeyTrusted ==
    ASSUME KeysInv, ViewOK, NEW k \in Keys, creds[k].status \in {"active", "grace"}
    PROVE  \E d \in Devices : k \in Lifecycle!Trusted(d)
<1>1. PICK d \in devices : d = creds[k].device
  BY DEF KeysInv, Owned, InUse
<1>2. d \in Devices /\ KeysOf(d) /\ Matches(k, d, creds[k].status)
  BY <1>1 DEF KeysInv, UseInv, TablesInv, TypeOK, Matches
<1>3. ASSUME NEW r \in Rotations, IsOpen(r), rots[r].device = d
      PROVE  k \in Lifecycle!Trusted(d)
  <2>1. /\ lifePhase[d] = rots[r].status /\ lifeOld[d] = rots[r].prev
        /\ lifeNew[d] = rots[r].new
    BY <1>2, <1>3 DEF ViewOK
  <2>2. Trusts(r, k) \/ (rots[r].status = "grace" /\ rots[r].prev = k)
    BY <1>2, <1>3 DEF KeysOf, Roles
  <2> QED
    BY <2>1, <2>2 DEF Lifecycle!Trusted, Trusts
<1>4. CASE \A r \in Rotations : IsOpen(r) => rots[r].device # d
  <2>1. Matches(k, d, "active")
    BY <1>2, <1>4 DEF KeysOf, Stable
  <2> QED
    BY <1>2, <1>4, <2>1 DEF ViewOK, Lifecycle!Trusted
<1> QED
  BY <1>2, <1>3, <1>4

LEMMA TouchIsUse ==
    ASSUME LifeInv, ViewOK, ViewOK', NEW q \in Requests, AuthTouch(q)
    PROVE  \E k \in Keys : Lifecycle!Use(k)
<1>1. PICK k \in Keys : k = upd[q].key /\ creds[k].activated /\ creds[k].status # "none"
  BY DEF AuthTouch, LifeInv, KeysInv, UseInv, RequestOK
<1>2. creds[k].status \in {"active", "grace", "revoked"}
  BY <1>1 DEF LifeInv, PendingNew, KeysInv, UseInv, TablesInv, TypeOK, CredTable, CredRow,
              CredStatuses
<1>3. \/ \E d \in Devices : k \in Lifecycle!Trusted(d)
      \/ k \in Spent
  BY <1>2, KeyTrusted DEF LifeInv, Spent
<1>4. /\ \A j \in Keys : creds'[j].device = creds[j].device /\ creds'[j].status = creds[j].status
      /\ \A j \in Keys : creds'[j].used = IF j = k THEN TRUE ELSE creds[j].used
      /\ UNCHANGED <<devices, rots>>
  BY <1>1 DEF AuthTouch, LifeInv, KeysInv, UseInv, TablesInv, TypeOK, CredTable, CredRow
<1>5. lifePhase' = lifePhase /\ lifeOld' = lifeOld /\ lifeNew' = lifeNew /\ Spent' = Spent
  BY <1>4, NoDevice DEF LifeInv
<1>6. Used' = Used \cup {k}
  BY <1>4 DEF Used, LifeInv, KeysInv, UseInv, TablesInv, TypeOK, CredTable, CredRow
<1> QED
  BY <1>1, <1>3, <1>5, <1>6 DEF Lifecycle!Use, Spent, Used

LEMMA TablesIsStutter ==
    ASSUME KeysInv, ViewOK, ViewOK', UNCHANGED <<devices, creds, rots>>
    PROVE  UNCHANGED Lifecycle!lifeVars
<1>1. lifePhase' = lifePhase /\ lifeOld' = lifeOld /\ lifeNew' = lifeNew /\ Spent' = Spent
  BY NoDevice
<1> QED
  BY <1>1 DEF Lifecycle!lifeVars, Spent

LEMMA StepIsLifecycle ==
    LifeInv /\ KeysInv' /\ ViewOK /\ ViewOK' /\ [Next]_vars =>
        [Lifecycle!LifecycleNext]_(Lifecycle!lifeVars)
<1> SUFFICES ASSUME LifeInv, KeysInv', ViewOK, ViewOK', [Next]_vars
             PROVE  [Lifecycle!LifecycleNext]_(Lifecycle!lifeVars)
  OBVIOUS
<1>0. KeysInv
  BY DEF LifeInv
<1>1. CASE UNCHANGED <<devices, creds, rots>>
  BY <1>0, <1>1, TablesIsStutter
<1>2. ASSUME NEW d \in Devices, NEW k \in Keys, createDevice(d, k)
      PROVE  Lifecycle!LifecycleNext
  BY <1>0, <1>2, CreateIsRegister DEF Lifecycle!LifecycleNext
<1>3. ASSUME NEW d \in Devices, NEW g \in GraceMinutes, NEW r \in Rotations,
             RequestRotation(d, g, r)
      PROVE  Lifecycle!LifecycleNext
  BY <1>0, <1>3, RequestIsAsk DEF Lifecycle!LifecycleNext
<1>4. ASSUME NEW r \in Rotations, Rollback(r) PROVE Lifecycle!LifecycleNext
  BY <1>0, <1>4, RollbackIsAbandon DEF Lifecycle!LifecycleNext
<1>5. ASSUME NEW r \in Rotations, NEW k \in Keys, StageCandidate(r, k)
      PROVE  Lifecycle!LifecycleNext
  BY <1>0, <1>5, StageIsOffer DEF Lifecycle!LifecycleNext
<1>6. ASSUME NEW r \in Rotations, StartValidation(r) PROVE Lifecycle!LifecycleNext
  BY <1>0, <1>6, StartIsAdmit DEF Lifecycle!LifecycleNext
<1>7. ASSUME NEW q \in Requests, NEW r \in Rotations, ConfirmCredentialUse(q, r)
      PROVE  Lifecycle!LifecycleNext
  BY <1>0, <1>7, ConfirmIsSwitch DEF Lifecycle!LifecycleNext
<1>8. ASSUME NEW p \in Reconcilers, NEW r \in Rotations, ReconcileItem(p, r),
             ~ UNCHANGED <<devices, creds, rots>>
      PROVE  Lifecycle!LifecycleNext
  <2>1. ~ UNCHANGED <<creds, rots>>
    BY <1>8 DEF ReconcileItem
  <2> QED
    BY <1>0, <1>8, <2>1, ReconcileIsRetire DEF Lifecycle!LifecycleNext
<1>9. ASSUME NEW q \in Requests, AuthTouch(q) PROVE Lifecycle!LifecycleNext
  BY <1>9, TouchIsUse DEF Lifecycle!LifecycleNext
<1>10. \/ UNCHANGED <<devices, creds, rots>>
       \/ \E d \in Devices, k \in Keys : createDevice(d, k)
       \/ \E d \in Devices, g \in GraceMinutes, r \in Rotations : RequestRotation(d, g, r)
       \/ \E r \in Rotations : Rollback(r) \/ StartValidation(r)
       \/ \E r \in Rotations, k \in Keys : StageCandidate(r, k)
       \/ \E q \in Requests, r \in Rotations : ConfirmCredentialUse(q, r)
       \/ \E p \in Reconcilers, r \in Rotations : ReconcileItem(p, r)
       \/ \E q \in Requests : AuthTouch(q)
  <2>1. ASSUME NEW q \in Requests, Serve(q)
        PROVE  \/ UNCHANGED tables \/ AuthTouch(q)
               \/ \E r \in Rotations : ConfirmCredentialUse(q, r)
    BY <2>1 DEF Serve, AuthSelect, UpdateSucceeds, ConfirmNothing
  <2>2. ASSUME NEW p \in Reconcilers, Reconcile(p)
        PROVE  UNCHANGED tables \/ \E r \in Rotations : ReconcileItem(p, r)
    BY <2>2 DEF Reconcile, ReconcileBegin, ReconcileSelect, ReconcileEnd
  <2>3. Environment => UNCHANGED tables
    BY DEF Environment, Tick, SetClockBack, Crash, RequestFails, PassFails
  <2>4. \A q \in Requests, k \in Keys : DDNSArrive(q, k) => UNCHANGED tables
    BY DEF DDNSArrive
  <2> QED
    BY <2>1, <2>2, <2>3, <2>4 DEF Next, Admin, Agent, tables, vars
<1> QED
  BY <1>1, <1>2, <1>3, <1>4, <1>5, <1>6, <1>7, <1>8, <1>9, <1>10

\* What the tables, requests and reconcilers of the service do is what the
\* documentation promises of the life of a DDNS credential.
THEOREM ServiceImplementsLifecycle == Spec => ImplementsLifecycle
<1>1. Init => Lifecycle!LifecycleInit
  BY DEF Init, Lifecycle!LifecycleInit, lifePhase, lifeOld, lifeNew, OpenRotations, NoCred, NoRot,
         openRotationStatuses
<1>2. Init => PendingNew
  BY DEF Init, PendingNew, NoCred
<1>3. KeysInv /\ PendingNew <=> LifeInv
  BY DEF LifeInv
<1>4. LifeInv /\ [Next]_vars => PendingNew'
  BY PendingStep
<1>5. LifeInv /\ KeysInv' /\ [Next]_vars => [Lifecycle!LifecycleNext]_(Lifecycle!lifeVars)
  BY StepIsLifecycle, View, ViewNext DEF LifeInv
<1> QED
  BY <1>1, <1>2, <1>3, <1>4, <1>5, KeysInvariant, PTL
  DEF Spec, ImplementsLifecycle, Lifecycle!LifecycleSpec
=============================================================================
