---------------------------- MODULE AgentEnrollment ----------------------------
(***************************************************************************)
(* Enrollment of UDM Agents (enrollment/service.go) and the permanent      *)
(* device identities it issues (agentauth/service.go).  An identity comes  *)
(* to exist by the exchange of a one-time token or by hand, and either may *)
(* be revoked while its agent is being authenticated.                      *)
(*                                                                         *)
(* A DB.Transaction is one atomic step; a failed one leaves the tables     *)
(* alone.  Revoke is two transactions, Authenticate two statements before  *)
(* the handler's own transaction, so the process keeps local state in      *)
(* adm[a] and req[q], which a crash loses.  Answers may be lost: held is   *)
(* what agents did receive.                                                *)
(***************************************************************************)
EXTENDS Naturals

CONSTANTS
    Devices,        \* devices, all created and active
    Enrollments,    \* rows of agent_enrollments, each named by its token_id
    Identities,     \* rows of device_identity_credentials
    Requests,       \* authenticated agent requests served concurrently
    Admins,         \* administrative requests served concurrently
    TTLs,           \* token lifetimes, in minutes
    MaxTime,        \* bound: the clock stops here
    MaxFaults,      \* bound: lost answers, failures, crashes, clock corrections
    NULL

ASSUME EnrollmentAssumption ==
    /\ NULL \notin Devices /\ NULL \notin Enrollments /\ NULL \notin Identities
    /\ TTLs \subseteq 1..1440
    /\ {MaxTime, MaxFaults} \subseteq Nat

VARIABLES
    enr,        \* table agent_enrollments
    ids,        \* table device_identity_credentials
    seen,       \* devices whose last_seen_at a confirmation has set
    held,       \* identities whose key an agent received
    req,        \* local state of the agents' requests
    adm,        \* the enrollment an administrative request is revoking, or NULL
    now,
    faults

vars == <<enr, ids, seen, held, req, adm, now, faults>>
clock == <<now, faults>>

EnrollmentStatuses == {"none", "pending", "issued", "completed", "revoked", "expired"}
IdentityStatuses == {"none", "active", "revoked"}
openStatuses == {"pending", "issued"}

EnrollmentRow == [device : Devices \cup {NULL}, status : EnrollmentStatuses,
                  expiresAt : Nat, identity : Identities \cup {NULL}]
IdentityRow == [device : Devices \cup {NULL}, status : IdentityStatuses, used : BOOLEAN]

NoEnrollment == [device |-> NULL, status |-> "none", expiresAt |-> 0, identity |-> NULL]
NoIdentity == [device |-> NULL, status |-> "none", used |-> FALSE]
Idle == [pc |-> "idle", identity |-> NULL, confirms |-> FALSE]

Init ==
    /\ enr = [e \in Enrollments |-> NoEnrollment]
    /\ ids = [i \in Identities |-> NoIdentity]
    /\ seen = {}
    /\ held = {}
    /\ req = [q \in Requests |-> Idle]
    /\ adm = [a \in Admins |-> NULL]
    /\ now = 0
    /\ faults = 0

-----------------------------------------------------------------------------
(* Queries and the updates several operations share. *)

Elapsed(e) == enr[e].expiresAt <= now

\* Mutant: the lifetime is left to the sweeps.
ExchangeableUntilSwept(e) == enr[e].status = "pending"

Exchangeable(e) == enr[e].status = "pending" /\ enr[e].expiresAt > now

\* expirePending: the pending enrollments of the devices D whose lifetime elapsed.
expirePending(D) ==
    [e \in Enrollments |->
        IF enr[e].status = "pending" /\ enr[e].device \in D /\ Elapsed(e)
        THEN [enr[e] EXCEPT !.status = "expired"] ELSE enr[e]]

OpenEnrollments(d, table) ==
    {e \in Enrollments : table[e].device = d /\ table[e].status \in openStatuses}
ActiveIdentities(d) ==
    {i \in Identities : ids[i].device = d /\ ids[i].status = "active"}

\* IssueCredentialTx: refused while the device has an active identity.
Issuable(d, i) == ActiveIdentities(d) = {} /\ ids[i].status = "none"

\* Mutant: the enrollment's status is written to the identity.
issuedStatus(d, i) == [ids EXCEPT ![i] = [device |-> d, status |-> "issued", used |-> FALSE]]
issued(d, i) == [ids EXCEPT ![i] = [device |-> d, status |-> "active", used |-> FALSE]]

Fault == faults < MaxFaults /\ faults' = faults + 1

-----------------------------------------------------------------------------
(* The administrator. *)

\* The transaction expires what is due, then requires that nothing is open.
Create(d, e, ttl) ==
    LET swept == expirePending({d})
    IN  /\ OpenEnrollments(d, swept) = {} /\ ActiveIdentities(d) = {}
        /\ enr[e].status = "none"
        /\ enr' = [swept EXCEPT ![e] = [device |-> d, status |-> "pending",
                                        expiresAt |-> now + ttl, identity |-> NULL]]
        /\ UNCHANGED <<ids, seen, held, req, adm, clock>>

\* List and Get sweep the device before they read; device 0 names no device and
\* makes Get sweep them all.
reconcileExpired(D) ==
    /\ enr' = expirePending(D)
    /\ UNCHANGED <<ids, seen, held, req, adm, clock>>

\* Revoke sweeps in a transaction of its own,
RevokeBegin(a, e) ==
    /\ adm[a] = NULL /\ enr[e].status # "none"
    /\ enr' = expirePending({enr[e].device})
    /\ adm' = [adm EXCEPT ![a] = e]
    /\ UNCHANGED <<ids, seen, held, req, clock>>

\* Mutant: the identity of an issued enrollment outlives it.
RevokeKeepsIdentity(a) ==
    LET e == adm[a]
    IN  /\ e # NULL
        /\ enr' = IF enr[e].status \in openStatuses
                  THEN [enr EXCEPT ![e].status = "revoked"] ELSE enr
        /\ adm' = [adm EXCEPT ![a] = NULL]
        /\ UNCHANGED <<ids, seen, held, req, clock>>

\* and decides on the row in a second one.  An identity that was already revoked
\* by hand does not stop it; a completed or expired enrollment does.
RevokeEnrollment(a) ==
    LET e == adm[a]
    IN  /\ e # NULL
        /\ \/ /\ enr[e].status = "pending"
              /\ enr' = [enr EXCEPT ![e].status = "revoked"]
              /\ UNCHANGED ids
           \/ /\ enr[e].status = "issued" /\ enr[e].identity # NULL
              /\ ids[enr[e].identity].device = enr[e].device
              /\ ids[enr[e].identity].status \in {"active", "revoked"}
              /\ enr' = [enr EXCEPT ![e].status = "revoked"]
              /\ ids' = [ids EXCEPT ![enr[e].identity].status = "revoked"]
           \/ /\ enr[e].status \notin openStatuses
              /\ UNCHANGED <<enr, ids>>
        /\ adm' = [adm EXCEPT ![a] = NULL]
        /\ UNCHANGED <<seen, held, req, clock>>

\* An identity issued by hand, whose key the administrator installs.
IssueCredential(d, i) ==
    /\ Issuable(d, i)
    /\ ids' = issued(d, i)
    /\ held' = held \cup {i}
    /\ UNCHANGED <<enr, seen, req, adm, clock>>

RevokeCredential(i) ==
    /\ ids[i].status = "active"
    /\ ids' = [ids EXCEPT ![i].status = "revoked"]
    /\ UNCHANGED <<enr, seen, held, req, adm, clock>>

-----------------------------------------------------------------------------
(* The agent. *)

\* Mutant: the exchange issues an identity without asking for others.
ExchangeUnchecked(e, i) ==
    /\ Exchangeable(e) /\ ids[i].status = "none"
    /\ enr' = [enr EXCEPT ![e].status = "issued", ![e].identity = i]
    /\ ids' = issued(enr[e].device, i)
    /\ held' = held \cup {i}
    /\ UNCHANGED <<seen, req, adm, clock>>

\* The token is claimed and the identity issued in one transaction, which is
\* rolled back when the device turns out to have an identity.
Claim(e, i) ==
    /\ Exchangeable(e)
    /\ Issuable(enr[e].device, i)
    /\ enr' = [enr EXCEPT ![e].status = "issued", ![e].identity = i]
    /\ ids' = issued(enr[e].device, i)

Exchange(e, i) ==
    /\ Claim(e, i)
    /\ held' = held \cup {i}
    /\ UNCHANGED <<seen, req, adm, clock>>

\* The same, but the answer that carries the key is lost.
ExchangeAnswerLost(e, i) ==
    /\ Claim(e, i) /\ Fault
    /\ UNCHANGED <<seen, held, req, adm, now>>

ExchangeTooLate(e) ==
    /\ enr[e].status = "pending" /\ ~ Exchangeable(e)
    /\ enr' = [enr EXCEPT ![e].status = "expired"]
    /\ UNCHANGED <<ids, seen, held, req, adm, clock>>

\* A request with an identity key: a confirmation, or one that leaves these
\* tables alone.
AgentArrive(q, i, confirms) ==
    /\ req[q].pc = "idle" /\ i \in held
    /\ req' = [req EXCEPT ![q] = [pc |-> "select", identity |-> i, confirms |-> confirms]]
    /\ UNCHANGED <<enr, ids, seen, held, adm, clock>>

Finish(q) == req' = [req EXCEPT ![q] = Idle]

\* Mutant: a key is accepted whatever became of its identity.
AuthSelectAnyStatus(q) ==
    /\ req[q].pc = "select"
    /\ req' = [req EXCEPT ![q].pc = "touch"]
    /\ UNCHANGED <<enr, ids, seen, held, adm, clock>>

AuthSelect(q) ==
    /\ req[q].pc = "select"
    /\ IF ids[req[q].identity].status = "active"
       THEN req' = [req EXCEPT ![q].pc = "touch"] ELSE Finish(q)
    /\ UNCHANGED <<enr, ids, seen, held, adm, clock>>

\* last_used_at is written without looking at the status again.
AuthTouch(q) ==
    /\ req[q].pc = "touch"
    /\ ids' = [ids EXCEPT ![req[q].identity].used = TRUE]
    /\ IF req[q].confirms THEN req' = [req EXCEPT ![q].pc = "confirm"] ELSE Finish(q)
    /\ UNCHANGED <<enr, seen, held, adm, clock>>

\* Mutant: the enrollment is looked up by its device only.
ConfirmsByDevice(i, e) ==
    /\ enr[e].status \in {"issued", "completed"}
    /\ enr[e].device = ids[i].device

\* Mutant: the enrollment is looked up whatever its status.
ConfirmsAnyStatus(i, e) == enr[e].identity = i /\ enr[e].device = ids[i].device

\* Mutant: an exchanged enrollment is expected to be pending still.
ConfirmsPending(i, e) ==
    /\ enr[e].status = "pending"
    /\ enr[e].identity = i /\ enr[e].device = ids[i].device

\* The enrollment that issued the authenticated identity, confirmed or not yet.
Confirms(i, e) ==
    /\ enr[e].status \in {"issued", "completed"}
    /\ enr[e].identity = i /\ enr[e].device = ids[i].device

Confirm(q, e) ==
    /\ req[q].pc = "confirm" /\ Confirms(req[q].identity, e)
    /\ enr' = [enr EXCEPT ![e].status = "completed"]
    /\ seen' = seen \cup {enr[e].device}
    /\ Finish(q)
    /\ UNCHANGED <<ids, held, adm, clock>>

\* ErrEnrollmentNotFound: revoked meanwhile, or an identity issued by hand.
ConfirmNothing(q) ==
    /\ req[q].pc = "confirm"
    /\ \A e \in Enrollments : ~ Confirms(req[q].identity, e)
    /\ Finish(q)
    /\ UNCHANGED <<enr, ids, seen, held, adm, clock>>

-----------------------------------------------------------------------------
(* The outside world. *)

RequestFails(q) ==
    /\ req[q].pc # "idle" /\ Fault
    /\ Finish(q)
    /\ UNCHANGED <<enr, ids, seen, held, adm, now>>

RevokeFails(a) ==
    /\ adm[a] # NULL /\ Fault
    /\ adm' = [adm EXCEPT ![a] = NULL]
    /\ UNCHANGED <<enr, ids, seen, held, req, now>>

Crash ==
    /\ Fault
    /\ req' = [q \in Requests |-> Idle]
    /\ adm' = [a \in Admins |-> NULL]
    /\ UNCHANGED <<enr, ids, seen, held, now>>

Tick ==
    /\ now < MaxTime /\ now' = now + 1
    /\ UNCHANGED <<enr, ids, seen, held, req, adm, faults>>

SetClockBack ==
    /\ now > 0 /\ now' = now - 1 /\ Fault
    /\ UNCHANGED <<enr, ids, seen, held, req, adm>>

-----------------------------------------------------------------------------
Administrate(a) ==
    \/ \E e \in Enrollments : RevokeBegin(a, e)
    \/ RevokeEnrollment(a)
    \/ RevokeFails(a)

Serve(q) == \/ AuthSelect(q) \/ AuthTouch(q)
            \/ \E e \in Enrollments : Confirm(q, e)
            \/ ConfirmNothing(q)

Issue == \/ \E d \in Devices, e \in Enrollments, ttl \in TTLs : Create(d, e, ttl)
         \/ \E D \in {Devices} \cup {{d} : d \in Devices} : reconcileExpired(D)
         \/ \E d \in Devices, i \in Identities : IssueCredential(d, i)
         \/ \E i \in Identities : RevokeCredential(i)
         \/ \E e \in Enrollments, i \in Identities : Exchange(e, i) \/ ExchangeAnswerLost(e, i)
         \/ \E e \in Enrollments : ExchangeTooLate(e)

Next == \/ Issue
        \/ \E a \in Admins : Administrate(a)
        \/ \E q \in Requests, i \in Identities, c \in BOOLEAN : AgentArrive(q, i, c)
        \/ \E q \in Requests : Serve(q) \/ RequestFails(q)
        \/ Crash \/ Tick \/ SetClockBack

Spec == Init /\ [][Next]_vars

\* A request gets its answer, and an agent repeats its confirmation, as the
\* documentation lets it.  Nothing is assumed of administrators.
AgentSpec ==
    /\ Spec
    /\ \A q \in Requests : WF_vars(Serve(q))
    /\ \A i \in Identities : SF_vars(\E q \in Requests : AgentArrive(q, i, TRUE))

-----------------------------------------------------------------------------
(* Properties. *)

TypeOK ==
    /\ enr \in [Enrollments -> EnrollmentRow]
    /\ ids \in [Identities -> IdentityRow]
    /\ seen \subseteq Devices
    /\ held \subseteq Identities
    /\ req \in [Requests -> [pc : {"idle", "select", "touch", "confirm"},
                             identity : Identities \cup {NULL}, confirms : BOOLEAN]]
    /\ adm \in [Admins -> Enrollments \cup {NULL}]
    /\ now \in Nat /\ faults \in Nat

\* docs/agent-enrollment: "A Device may have only one open enrollment and only
\* one active permanent Agent identity".  Both are counted before an insert, no
\* index enforces either, and identities come from two operations.
OneOfEach ==
    /\ \A e, f \in Enrollments :
          /\ {enr[e].status, enr[f].status} \subseteq openStatuses
          /\ enr[e].device = enr[f].device
          => e = f
    /\ \A i, j \in Identities :
          ids[i].status = "active" /\ ids[j].status = "active" /\ ids[i].device = ids[j].device
          => i = j

\* An enrollment and the identity it issued tell the same story: the identity is
\* its device's and of no other enrollment, and is gone when the enrollment is
\* revoked.  Revoke can therefore never answer ErrInvalidState for an issued
\* enrollment, which would block the device's enrollment for good.
LinksAgree ==
    \A e \in Enrollments :
        /\ enr[e].status \in {"issued", "completed"} => enr[e].identity # NULL
        /\ enr[e].status \in {"none", "pending", "expired"} => enr[e].identity = NULL
        /\ enr[e].identity # NULL =>
              /\ ids[enr[e].identity].device = enr[e].device
              /\ ids[enr[e].identity].status \in {"active", "revoked"}
              /\ enr[e].status = "revoked" => ids[enr[e].identity].status = "revoked"
              /\ \A f \in Enrollments : enr[f].identity = enr[e].identity => f = e

\* docs/agent-enrollment, "completed": the agent received the very identity the
\* token was exchanged for and authenticated with it, not with another of the
\* device's, and the device counts as seen.
CompletedIsProven ==
    \A e \in Enrollments : enr[e].status = "completed" =>
        /\ enr[e].identity \in held /\ ids[enr[e].identity].used
        /\ enr[e].device \in seen

\* docs/agent-enrollment: "Expired, revoked, issued, or completed tokens cannot
\* be exchanged again".  Whatever a late confirmation, a revocation in two
\* transactions and a repeated exchange do, an outcome stands and a revoked
\* identity stays revoked.
OutcomesStand ==
    [][/\ \A e \in Enrollments :
             /\ enr[e].status \in {"completed", "revoked", "expired"} =>
                   enr'[e].status = enr[e].status
             /\ enr[e].status = "issued" => enr'[e].status # "pending"
             /\ enr[e].identity # NULL => enr'[e].identity = enr[e].identity
       /\ \A i \in Identities : ids[i].status = "revoked" => ids'[i].status = "revoked"]_vars

\* docs/agent-enrollment, "expired" and "Issue an enrollment token": a token lives
\* as long as it was issued for.  Whichever of Create, List, Get, Revoke and the
\* exchange comes first after its deadline, with the clock corrected in between,
\* none of them ends a token that is still good, none accepts one that is due, none
\* moves the deadline, and an unexpired token is withdrawn by a Revoke only.
TokensEndOnTime ==
    [][\A e \in Enrollments : enr[e].status = "pending" =>
          /\ enr'[e].expiresAt = enr[e].expiresAt
          /\ enr'[e].status = "expired" => enr[e].expiresAt <= now
          /\ enr'[e].status = "issued" => now < enr[e].expiresAt
          /\ enr'[e].status = "revoked" => \E a \in Admins : adm[a] = e /\ adm'[a] = NULL
          /\ enr'[e].status # "completed"]_vars

\* An agent that received its identity and repeats its confirmation completes
\* its enrollment, unless an administrator revokes one or the other: the answers
\* and requests lost on the way (a bounded number) do not strand it.
ConfirmationSucceeds ==
    \A e \in Enrollments :
        (enr[e].status = "issued" /\ enr[e].identity \in held)
            ~> \/ enr[e].status # "issued"
               \/ ids[enr[e].identity].status = "revoked"

-----------------------------------------------------------------------------
(* The tables implement the lifecycle the documentation promises. *)

Linked(S) == {<<e, enr[e].identity>> : e \in S}
In(status) == {e \in Enrollments : enr[e].status = status}
Of(d) == {e \in Enrollments : enr[e].device = d}

lifeOffered == [d \in Devices |-> Of(d) \cap In("pending")]
lifeClaimed == [d \in Devices |-> Linked(Of(d) \cap In("issued"))]
lifeAccepted == [d \in Devices |-> ActiveIdentities(d)]

Lifecycle == INSTANCE EnrollmentLifecycle
    WITH Tokens    <- Enrollments,
         offered   <- lifeOffered,
         claimed   <- lifeClaimed,
         accepted  <- lifeAccepted,
         void      <- In("revoked") \cup In("expired"),
         dismissed <- {i \in Identities : ids[i].status = "revoked"},
         proven    <- {i \in Identities : ids[i].used},
         enrolled  <- Linked(In("completed"))

\* docs/agent-enrollment, "Enrollment states" and "Security properties": seen
\* through that mapping, every step of a handler, of a sweep or of one of the two
\* transactions of Revoke is a step of the lifecycle or changes nothing in it.
ImplementsLifecycle == Lifecycle!LifecycleSpec
=============================================================================
