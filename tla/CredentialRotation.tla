-------------------------- MODULE CredentialRotation --------------------------
(***************************************************************************)
(* DDNS credential rotation of HermesDDNS: the credential and rotation     *)
(* tables, the service transactions that move them (credential/service.go),*)
(* the DDNS endpoint whose authenticated updates confirm a replacement     *)
(* (ddns/service.go, api/server.go) and the reconcilers that end a grace   *)
(* period.                                                                 *)
(*                                                                         *)
(* A DB.Transaction is one atomic step.  A statement outside a transaction *)
(* is a step of its own, and the handler's local variables are kept in     *)
(* upd[q] (a DDNS request) or pass[p] (a reconciler).  Any transaction may *)
(* instead fail and leave the tables alone, and the process may crash,     *)
(* which loses every request in flight but no row.                         *)
(***************************************************************************)
EXTENDS Naturals, FiniteSets

CONSTANTS
    Devices,        \* devices an administrator may create
    Keys,           \* values of the unique column key_id; a row is named by it
    Rotations,      \* identifiers of rotation rows
    Requests,       \* DDNS update requests served concurrently
    Reconcilers,    \* goroutines that may run ReconcileExpiredGrace
    Background,     \* the one of them started by RunReconciler
    GraceMinutes,   \* grace periods an administrator may ask for
    MaxTime,        \* bound: the clock stops here unless a deadline is pending
    MaxFaults,      \* bound: failed statements, failed updates and crashes
    MaxBackSteps,   \* bound: times the wall clock is set back
    NULL            \* SQL NULL

ASSUME RotationAssumption ==
    /\ NULL \notin Devices /\ NULL \notin Keys /\ NULL \notin Nat
    /\ Background \in Reconcilers
    /\ GraceMinutes \subseteq 1..1440
    /\ {MaxTime, MaxFaults, MaxBackSteps} \subseteq Nat

VARIABLES
    devices,        \* table devices: those created, all with status active
    creds,          \* table ddns_credentials
    rots,           \* table ddns_credential_rotations
    now,            \* time.Now(), in minutes
    upd,            \* local state of the DDNS requests
    pass,           \* local state of the reconcilers
    faults,         \* faults so far
    backSteps       \* clock corrections so far

vars == <<devices, creds, rots, now, upd, pass, faults, backSteps>>
tables == <<devices, creds, rots>>
counters == <<now, faults, backSteps>>

CredStatuses == {"none", "pending", "active", "grace", "revoked"}
RotStatuses == {"none", "requested", "staged", "validating", "grace",
                "completed", "rolled_back"}
openRotationStatuses == {"requested", "staged", "validating", "grace"}

Times == Nat
CredRow == [device : Devices \cup {NULL}, status : CredStatuses,
            graceUntil : Times \cup {NULL}, activated : BOOLEAN, used : BOOLEAN]
RotRow == [device : Devices \cup {NULL}, prev : Keys \cup {NULL},
           new : Keys \cup {NULL}, status : RotStatuses,
           minutes : Nat, graceUntil : Times \cup {NULL}]

CredTable == [Keys -> CredRow]
RotTable == [Rotations -> RotRow]

NoCred == [device |-> NULL, status |-> "none", graceUntil |-> NULL,
           activated |-> FALSE, used |-> FALSE]
NoRot == [device |-> NULL, prev |-> NULL, new |-> NULL, status |-> "none",
          minutes |-> 0, graceUntil |-> NULL]

IdleRequest == [pc |-> "idle", key |-> NULL, at |-> 0]
IdlePass == [pc |-> "idle", at |-> 0, todo |-> {}]

-----------------------------------------------------------------------------
(* Queries the code makes of the two tables. *)

OpenRotations(d) ==
    {r \in Rotations : rots[r].device = d /\ rots[r].status \in openRotationStatuses}

ActiveKeys(d) ==
    {k \in Keys : creds[k].device = d /\ creds[k].status = "active"}

\* Mutant: every status but revoked is accepted, a pending one included.
AcceptsUnrevoked(c, t) ==
    \/ c.status \in {"pending", "active"}
    \/ c.status = "grace" /\ c.graceUntil # NULL /\ c.graceUntil > t
\* Authenticate accepts the row c at time t.
Accepts(c, t) ==
    \/ c.status = "active"
    \/ c.status = "grace" /\ c.graceUntil # NULL /\ c.graceUntil > t

\* The clock bound: deadlines already promised are always reached.
DeadlinePending ==
    \E r \in Rotations : rots[r].status = "grace" /\ rots[r].graceUntil > now

-----------------------------------------------------------------------------
Init ==
    /\ devices = {}
    /\ creds = [k \in Keys |-> NoCred]
    /\ rots = [r \in Rotations |-> NoRot]
    /\ now = 0
    /\ upd = [q \in Requests |-> IdleRequest]
    /\ pass = [p \in Reconcilers |-> IdlePass]
    /\ faults = 0
    /\ backSteps = 0

-----------------------------------------------------------------------------
(* The administrator's and the agent's operations. *)

createDevice(d, k) ==
    /\ d \notin devices
    /\ creds[k].status = "none"
    /\ devices' = devices \cup {d}
    /\ creds' = [creds EXCEPT ![k] = [NoCred EXCEPT !.device = d, !.status = "active",
                                                    !.activated = TRUE]]
    /\ UNCHANGED <<rots, upd, pass, counters>>

\* Mutant: a rotation in its grace period is not counted as open.
RequestDuringGrace(d, g, r) ==
    /\ d \in devices
    /\ \A s \in OpenRotations(d) : rots[s].status = "grace"
    /\ rots[r].status = "none"
    /\ \E k \in Keys :
         /\ ActiveKeys(d) = {k}
         /\ rots' = [rots EXCEPT ![r] = [NoRot EXCEPT !.device = d, !.prev = k,
                                            !.status = "requested", !.minutes = g]]
    /\ UNCHANGED <<devices, creds, upd, pass, counters>>

RequestRotation(d, g, r) ==
    /\ d \in devices
    /\ OpenRotations(d) = {}
    /\ rots[r].status = "none"
    /\ \E k \in Keys :
         /\ ActiveKeys(d) = {k}
         /\ rots' = [rots EXCEPT ![r] = [NoRot EXCEPT !.device = d, !.prev = k,
                                            !.status = "requested", !.minutes = g]]
    /\ UNCHANGED <<devices, creds, upd, pass, counters>>

StageCandidate(r, k) ==
    /\ rots[r].status = "requested" /\ rots[r].new = NULL
    /\ creds[rots[r].prev].status = "active"
    /\ creds[rots[r].prev].device = rots[r].device
    /\ creds[k].status = "none"
    /\ creds' = [creds EXCEPT ![k] = [NoCred EXCEPT !.device = rots[r].device,
                                                    !.status = "pending"]]
    /\ rots' = [rots EXCEPT ![r].new = k, ![r].status = "staged"]
    /\ UNCHANGED <<devices, upd, pass, counters>>

\* UPDATE ddns_credentials ... WHERE id = k AND device_id = d AND status = s
\* must affect exactly one row.
Matches(k, d, s) == k \in Keys /\ creds[k].device = d /\ creds[k].status = s

\* Mutant: the previous credential fades as soon as validation starts.
StartValidationEarlyGrace(r) ==
    LET k == rots[r].new
    IN  /\ rots[r].status = "staged"
        /\ Matches(k, rots[r].device, "pending")
        /\ creds' = [creds EXCEPT ![k].status = "active", ![k].activated = TRUE,
                                  ![rots[r].prev].status = "grace"]
        /\ rots' = [rots EXCEPT ![r].status = "validating"]
        /\ UNCHANGED <<devices, upd, pass, counters>>

StartValidation(r) ==
    LET k == rots[r].new
    IN  /\ rots[r].status = "staged"
        /\ Matches(k, rots[r].device, "pending")
        /\ creds' = [creds EXCEPT ![k].status = "active", ![k].activated = TRUE]
        /\ rots' = [rots EXCEPT ![r].status = "validating"]
        /\ UNCHANGED <<devices, upd, pass, counters>>

\* Mutant: the status of the credential is written to the rotation.
RollbackRequestedRevokes(r) ==
    /\ rots[r].status = "requested"
    /\ rots' = [rots EXCEPT ![r].status = "revoked"]
    /\ UNCHANGED <<devices, creds, upd, pass, counters>>

\* Mutant: the switch has no default that refuses the other statuses.
RollbackAnyOther(r) ==
    /\ rots[r].status \in {"requested", "completed"}
    /\ rots' = [rots EXCEPT ![r].status = "rolled_back"]
    /\ UNCHANGED <<devices, creds, upd, pass, counters>>

RollbackRequested(r) ==
    /\ rots[r].status = "requested"
    /\ rots' = [rots EXCEPT ![r].status = "rolled_back"]
    /\ UNCHANGED <<devices, creds, upd, pass, counters>>

\* Mutant: a replacement that is not active yet is left as it is.
RollbackKeepsPending(r) ==
    /\ rots[r].status \in {"staged", "validating"}
    /\ creds' = IF rots[r].status = "staged" THEN creds
                ELSE [creds EXCEPT ![rots[r].new].status = "revoked"]
    /\ rots' = [rots EXCEPT ![r].status = "rolled_back"]
    /\ UNCHANGED <<devices, upd, pass, counters>>

\* Mutant: an active replacement is left as it is.
RollbackKeepsActive(r) ==
    /\ rots[r].status \in {"staged", "validating"}
    /\ creds' = IF rots[r].status = "validating" THEN creds
                ELSE [creds EXCEPT ![rots[r].new].status = "revoked"]
    /\ rots' = [rots EXCEPT ![r].status = "rolled_back"]
    /\ UNCHANGED <<devices, upd, pass, counters>>

\* staged: the replacement is still pending; validating: it is active.
RollbackUnconfirmed(r) ==
    /\ rots[r].status \in {"staged", "validating"}
    /\ Matches(rots[r].new, rots[r].device,
               IF rots[r].status = "staged" THEN "pending" ELSE "active")
    /\ creds' = [creds EXCEPT ![rots[r].new].status = "revoked"]
    /\ rots' = [rots EXCEPT ![r].status = "rolled_back"]
    /\ UNCHANGED <<devices, upd, pass, counters>>

\* Mutant: not Before instead of After.
InTimeInclusive(r, t) == rots[r].graceUntil # NULL /\ rots[r].graceUntil >= t

\* Rollback is allowed until the grace deadline.
InTime(r, t) == rots[r].graceUntil # NULL /\ rots[r].graceUntil > t

RollbackGrace(r) ==
    /\ rots[r].status = "grace" /\ InTime(r, now)
    /\ Matches(rots[r].prev, rots[r].device, "grace")
    /\ Matches(rots[r].new, rots[r].device, "active")
    /\ creds' = [creds EXCEPT ![rots[r].prev].status = "active",
                              ![rots[r].prev].graceUntil = NULL,
                              ![rots[r].new].status = "revoked"]
    /\ rots' = [rots EXCEPT ![r].status = "rolled_back"]
    /\ UNCHANGED <<devices, upd, pass, counters>>

Rollback(r) == RollbackRequested(r) \/ RollbackUnconfirmed(r) \/ RollbackGrace(r)

-----------------------------------------------------------------------------
(* A DDNS update: Authenticate in three steps, Update, ConfirmCredentialUse. *)

Goto(q, label) == upd' = [upd EXCEPT ![q].pc = label]
Finish(q) == upd' = [upd EXCEPT ![q] = IdleRequest]

\* The device is found, active, and the time of the request is taken.
DDNSArrive(q, k) ==
    /\ upd[q].pc = "idle"
    /\ creds[k].status # "none"
    /\ upd' = [upd EXCEPT ![q] = [pc |-> "select", key |-> k, at |-> now]]
    /\ UNCHANGED <<tables, pass, counters>>

AuthSelect(q) ==
    /\ upd[q].pc = "select"
    /\ IF Accepts(creds[upd[q].key], upd[q].at) THEN Goto(q, "touch") ELSE Finish(q)
    /\ UNCHANGED <<tables, pass, counters>>

\* last_used_at is written by a statement that does not look at the status again.
AuthTouch(q) ==
    /\ upd[q].pc = "touch"
    /\ creds' = [creds EXCEPT ![upd[q].key].used = TRUE]
    /\ Goto(q, "update")
    /\ UNCHANGED <<devices, rots, pass, counters>>

\* Mutant: only an update that changed the address is a confirmation.
UpdateMayNotConfirm(q) ==
    /\ upd[q].pc = "update"
    /\ Goto(q, "confirm") \/ Finish(q)
    /\ UNCHANGED <<tables, pass, counters>>

\* The host is updated, or was already up to date.
UpdateSucceeds(q) ==
    /\ upd[q].pc = "update"
    /\ Goto(q, "confirm")
    /\ UNCHANGED <<tables, pass, counters>>

\* Mutant: any use of the device's credentials confirms its rotation.
ConfirmsByDevice(q, r) ==
    rots[r].status = "validating" /\ rots[r].device = creds[upd[q].key].device

\* A validating rotation whose replacement is the key of the request.
Confirms(q, r) == rots[r].status = "validating" /\ rots[r].new = upd[q].key

\* Both credential updates of the transaction find their row.
ConfirmApplies(r) ==
    /\ Matches(rots[r].new, rots[r].device, "active")
    /\ Matches(rots[r].prev, rots[r].device, "active")

ConfirmCredentialUse(q, r) ==
    LET until == now + rots[r].minutes
    IN  /\ upd[q].pc = "confirm"
        /\ Confirms(q, r) /\ ConfirmApplies(r)
        /\ creds' = [creds EXCEPT ![rots[r].prev].status = "grace",
                                  ![rots[r].prev].graceUntil = until]
        /\ rots' = [rots EXCEPT ![r].status = "grace", ![r].graceUntil = until]
        /\ Finish(q)
        /\ UNCHANGED <<devices, pass, counters>>

\* No rotation awaits this key, or the transaction returns an error, which the
\* handler only logs.
ConfirmNothing(q) ==
    /\ upd[q].pc = "confirm"
    /\ \A r \in Rotations : ~ (Confirms(q, r) /\ ConfirmApplies(r))
    /\ Finish(q)
    /\ UNCHANGED <<tables, pass, counters>>

-----------------------------------------------------------------------------
(* ReconcileExpiredGrace. *)

\* Mutant: the time is taken once, when the reconciler is started.
ReconcileBeginStaleTime(p) ==
    /\ pass[p].pc = "idle"
    /\ pass' = [pass EXCEPT ![p] = [pc |-> "select", at |-> 0, todo |-> {}]]
    /\ UNCHANGED <<tables, upd, counters>>

ReconcileBegin(p) ==
    /\ pass[p].pc = "idle"
    /\ pass' = [pass EXCEPT ![p] = [pc |-> "select", at |-> now, todo |-> {}]]
    /\ UNCHANGED <<tables, upd, counters>>

\* Mutant: the deadline is not part of the query.
ExpiredAnyGrace(r, t) == rots[r].status = "grace"

Expired(r, t) ==
    rots[r].status = "grace" /\ rots[r].graceUntil # NULL /\ rots[r].graceUntil <= t

ReconcileSelect(p) ==
    /\ pass[p].pc = "select"
    /\ pass' = [pass EXCEPT ![p].pc = "items",
                            ![p].todo = {r \in Rotations : Expired(r, pass[p].at)}]
    /\ UNCHANGED <<tables, upd, counters>>

\* Mutant: the transaction trusts the list and does not read the row again.
ReconcileItemUnchecked(p, r) ==
    /\ pass[p].pc = "items" /\ r \in pass[p].todo
    /\ creds' = [creds EXCEPT ![rots[r].prev].status = "revoked"]
    /\ rots' = [rots EXCEPT ![r].status = "completed"]
    /\ pass' = [pass EXCEPT ![p].todo = @ \ {r}]
    /\ UNCHANGED <<devices, upd, counters>>

\* One transaction of the loop.  The row is read again; an error ends the pass.
ReconcileItem(p, r) ==
    LET due     == Expired(r, pass[p].at)
        found   == Matches(rots[r].prev, rots[r].device, "grace")
    IN  /\ pass[p].pc = "items" /\ r \in pass[p].todo
        /\ creds' = IF due /\ found
                    THEN [creds EXCEPT ![rots[r].prev].status = "revoked"] ELSE creds
        /\ rots' = IF due /\ found
                   THEN [rots EXCEPT ![r].status = "completed"] ELSE rots
        /\ pass' = IF due /\ ~ found THEN [pass EXCEPT ![p] = IdlePass]
                   ELSE [pass EXCEPT ![p].todo = @ \ {r}]
        /\ UNCHANGED <<devices, upd, counters>>

ReconcileEnd(p) ==
    /\ pass[p].pc = "items" /\ pass[p].todo = {}
    /\ pass' = [pass EXCEPT ![p] = IdlePass]
    /\ UNCHANGED <<tables, upd, counters>>

-----------------------------------------------------------------------------
(* Faults and time. *)

Fault == faults < MaxFaults /\ faults' = faults + 1

\* A statement of the request fails, or its DNS update does: the client is told
\* to try again and the credential is not confirmed.
RequestFails(q) ==
    /\ Fault
    /\ upd[q].pc # "idle"
    /\ Finish(q)
    /\ UNCHANGED <<tables, pass, now, backSteps>>

\* A statement of the pass fails: the remaining rotations wait for the next one.
PassFails(p) ==
    /\ Fault
    /\ pass[p].pc # "idle"
    /\ pass' = [pass EXCEPT ![p] = IdlePass]
    /\ UNCHANGED <<tables, upd, now, backSteps>>

Crash ==
    /\ Fault
    /\ upd' = [q \in Requests |-> IdleRequest]
    /\ pass' = [p \in Reconcilers |-> IdlePass]
    /\ UNCHANGED <<tables, now, backSteps>>

Tick ==
    /\ now < MaxTime \/ DeadlinePending
    /\ now' = now + 1
    /\ UNCHANGED <<tables, upd, pass, faults, backSteps>>

\* Deadlines are compared with the wall clock, which an operator may correct.
SetClockBack ==
    /\ backSteps < MaxBackSteps
    /\ backSteps' = backSteps + 1
    /\ now > 0 /\ now' = now - 1
    /\ UNCHANGED <<tables, upd, pass, faults>>

-----------------------------------------------------------------------------
Admin == \/ \E d \in Devices, k \in Keys : createDevice(d, k)
         \/ \E d \in Devices, g \in GraceMinutes, r \in Rotations : RequestRotation(d, g, r)
         \/ \E r \in Rotations : Rollback(r)

Agent == \/ \E r \in Rotations, k \in Keys : StageCandidate(r, k)
         \/ \E r \in Rotations : StartValidation(r)

Serve(q) == \/ AuthSelect(q) \/ AuthTouch(q) \/ UpdateSucceeds(q)
            \/ \E r \in Rotations : ConfirmCredentialUse(q, r)
            \/ ConfirmNothing(q)

Reconcile(p) == \/ ReconcileBegin(p) \/ ReconcileSelect(p)
                \/ \E r \in Rotations : ReconcileItem(p, r)
                \/ ReconcileEnd(p)

Environment == \/ Tick \/ SetClockBack \/ Crash
               \/ \E q \in Requests : RequestFails(q)
               \/ \E p \in Reconcilers : PassFails(p)

Next == \/ Admin \/ Agent
        \/ \E q \in Requests, k \in Keys : DDNSArrive(q, k)
        \/ \E q \in Requests : Serve(q)
        \/ \E p \in Reconcilers : Reconcile(p)
        \/ Environment

Spec == Init /\ [][Next]_vars

\* The clock runs, the background ticker fires forever, a served request gets
\* its reply.  Nothing is assumed of administrators, agents or clients.
Scheduling == /\ WF_vars(Tick)
              /\ WF_vars(Reconcile(Background))
              /\ \A q \in Requests : WF_vars(Serve(q))
FairSpec == Spec /\ Scheduling

\* The DDNS client of the device repeats its update, as inadyn does, with every
\* key it holds.
ClientRepeats == \A k \in Keys : SF_vars(\E q \in Requests : DDNSArrive(q, k))

-----------------------------------------------------------------------------
(* Properties. *)

CountersTyped == now \in Times /\ faults \in Nat /\ backSteps \in Nat
UpdTyped == upd \in [Requests -> [pc : {"idle", "select", "touch", "update", "confirm"},
                                 key : Keys \cup {NULL}, at : Times]]
PassTyped == pass \in [Reconcilers -> [pc : {"idle", "select", "items"}, at : Times,
                                      todo : SUBSET Rotations]]

\* Every row and every local variable of a handler keeps its type.
TypeOK ==
    /\ devices \subseteq Devices /\ creds \in CredTable /\ rots \in RotTable
    /\ CountersTyped /\ UpdTyped /\ PassTyped

\* docs/credential-rotation: "Only one open rotation is allowed for a Device at
\* a time", although RequestRotation only counts rows and no index enforces it.
IsOpen(r) == rots[r].status \in openRotationStatuses
OneOpenRotation ==
    \A r, s \in Rotations :
        IsOpen(r) /\ IsOpen(s) /\ rots[r].device = rots[s].device => r = s

\* The two tables describe the same rotation: the credentials a rotation row
\* names are its device's, in the status the rotation's status calls for, and
\* share its deadline.  No RowsAffected check of StartValidation, Confirm,
\* Rollback or Reconcile can therefore fail, so ErrInvalidRotationState never
\* stops the reconciler at one rotation and starves the ones after it.
Agrees(r) ==
    LET rot == rots[r]
        Is(k, s) == Matches(k, rot.device, s)
    IN  /\ rot.status = "requested" => Is(rot.prev, "active") /\ rot.new = NULL
        /\ rot.status = "staged" => Is(rot.prev, "active") /\ Is(rot.new, "pending")
        /\ rot.status = "validating" => /\ Is(rot.prev, "active") /\ Is(rot.new, "active")
                                        /\ rot.prev # rot.new
        /\ rot.status = "grace" => /\ Is(rot.prev, "grace") /\ Is(rot.new, "active")
                                   /\ rot.graceUntil \in Times
                                   /\ creds[rot.prev].graceUntil = rot.graceUntil
RotationsAgree == \A r \in Rotations : Agrees(r)

\* No device ever loses its last active key, and it has two only while a
\* replacement is being validated: RequestRotation can then never meet
\* ErrNoActiveCredential or ErrMultipleActive, and no administrator's command
\* is needed to bring a device back.
ActiveKeysOf(d) ==
    LET open == OpenRotations(d)
    IN  IF open = {} THEN \E k \in Keys : ActiveKeys(d) = {k}
        ELSE \E r \in open :
               ActiveKeys(d) = CASE rots[r].status \in {"requested", "staged"} -> {rots[r].prev}
                                 [] rots[r].status = "validating" -> {rots[r].prev, rots[r].new}
                                 [] rots[r].status = "grace"      -> {rots[r].new}
NeverLockedOut == \A d \in devices : ActiveKeysOf(d)

\* docs/credential-rotation: "The previous credential remains fully active
\* until the replacement has successfully authenticated": a key is in grace or
\* superseded only if the key replacing it was used for a DDNS update.
ProofBeforeRetirement ==
    \A r \in Rotations : rots[r].status \in {"grace", "completed"} =>
        rots[r].new \in Keys /\ creds[rots[r].new].used

\* docs/credential-rotation: "Replacement credentials are not trusted merely
\* because they were registered by an Agent": a key that StartValidation never
\* activated is never used, however its request and the rotation interleave.
OnlyActivatedKeysUsed == \A k \in Keys : creds[k].used => creds[k].activated

\* A key is waiting or fading only on behalf of an open rotation, so none is
\* left pending or in grace once its rotation has ended.
NoOrphanedKeys ==
    \A k \in Keys :
        /\ creds[k].status = "pending" =>
              \E r \in Rotations : rots[r].status = "staged" /\ rots[r].new = k
        /\ creds[k].status = "grace" =>
              \E r \in Rotations : rots[r].status = "grace" /\ rots[r].prev = k

\* The same deadline is compared in three places, with After in two and <= in
\* one.  At every instant of a grace period either the endpoint accepts the old
\* key and a rollback can restore it, or a reconciler may complete the rotation.
GraceBoundary ==
    \A r \in Rotations : rots[r].status = "grace" =>
        /\ Accepts(creds[rots[r].prev], now) <=> InTime(r, now)
        /\ Accepts(creds[rots[r].prev], now) <=> ~ Expired(r, now)

\* Whatever two reconcilers, a late confirmation and a rollback do to one
\* rotation, the first outcome stands: a revoked key stays revoked and a closed
\* rotation keeps its result.
FirstOutcomeStands ==
    [][/\ \A k \in Keys : creds[k].status = "revoked" => creds'[k].status = "revoked"
       /\ \A r \in Rotations : rots[r].status \in {"completed", "rolled_back"} =>
                                  rots'[r].status = rots[r].status]_vars

\* While the clock is not set back, no key in grace is revoked before the
\* deadline the administrator was told, though a pass works from a list and a
\* time it read earlier.
GraceHonoured ==
    [][\A k \in Keys : (creds[k].status = "grace" /\ creds'[k].status = "revoked")
                         => creds[k].graceUntil <= now]_vars

\* A grace period ends, whatever fails on the way (a bounded number of times):
\* the old key does not linger.
GraceEnds ==
    \A r \in Rotations :
        rots[r].status = "grace" ~> rots[r].status \in {"completed", "rolled_back"}

\* A confirmation that was lost is made by a later update: as long as the
\* device repeats its updates, a validation does not stay open.
ValidationEnds ==
    ClientRepeats => \A r \in Rotations :
        rots[r].status = "validating" ~> rots[r].status # "validating"

-----------------------------------------------------------------------------
(* The tables implement the lifecycle the documentation promises. *)

CurrentRotation(d) == CHOOSE r \in OpenRotations(d) : TRUE

lifePhase == [d \in Devices |-> IF d \notin devices THEN "absent"
                               ELSE IF OpenRotations(d) = {} THEN "stable"
                               ELSE rots[CurrentRotation(d)].status]
lifeOld == [d \in Devices |-> IF d \notin devices THEN NULL
                             ELSE IF OpenRotations(d) = {}
                                  THEN CHOOSE k \in Keys : k \in ActiveKeys(d)
                             ELSE rots[CurrentRotation(d)].prev]
lifeNew == [d \in Devices |-> IF OpenRotations(d) = {} THEN NULL
                             ELSE rots[CurrentRotation(d)].new]

Lifecycle == INSTANCE RotationLifecycle
    WITH phase  <- lifePhase,
         old    <- lifeOld,
         new    <- lifeNew,
         spent  <- {k \in Keys : creds[k].status = "revoked"},
         proven <- {k \in Keys : creds[k].used}

\* Seen through that mapping every step of the service is a step of the
\* lifecycle or changes nothing the documentation speaks of.
ImplementsLifecycle == Lifecycle!LifecycleSpec
=============================================================================
