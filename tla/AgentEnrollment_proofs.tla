----------------------- MODULE AgentEnrollment_proofs -----------------------
(***************************************************************************)
(* Proofs about AgentEnrollment, for any devices, rows, requests and bounds. *)
(*                                                                         *)
(* TablesInv is what the rows say about each other; an operation changes   *)
(* few of them, and a lemma per kind of change shows that it holds after.  *)
(* RequestsInv is what a request under way knows about its identity; it    *)
(* outlasts the others' steps since identities are never renamed, never    *)
(* forget that they were used, and stay held (IdentitiesKept).             *)
(*                                                                         *)
(* The refinement of EnrollmentLifecycle, at the end, has a lemma for each *)
(* change of the tables with the abstract action it is.                    *)
(***************************************************************************)
EXTENDS AgentEnrollment, TLAPS

TablesTyped ==
    /\ enr \in [Enrollments -> EnrollmentRow] /\ ids \in [Identities -> IdentityRow]
    /\ seen \subseteq Devices /\ held \subseteq Identities

RequestState == [pc : {"idle", "select", "touch", "confirm"},
                 identity : Identities \cup {NULL}, confirms : BOOLEAN]

ProcessesTyped ==
    /\ req \in [Requests -> RequestState]
    /\ adm \in [Admins -> Enrollments \cup {NULL}]
    /\ now \in Nat /\ faults \in Nat

\* A row that exists is a device's, and who has a key has one that was issued.
RowsOwned ==
    /\ \A e \in Enrollments : enr[e].status # "none" => enr[e].device \in Devices
    /\ \A i \in Identities : ids[i].status # "none" => ids[i].device \in Devices
    /\ \A i \in held : ids[i].status # "none"

OneOpen ==
    \A e, f \in Enrollments :
        /\ enr[e].status \in openStatuses /\ enr[f].status \in openStatuses
        /\ enr[e].device = enr[f].device
        => e = f

OneActive ==
    \A i, j \in Identities :
        ids[i].status = "active" /\ ids[j].status = "active" /\ ids[i].device = ids[j].device
        => i = j

TablesInv ==
    TablesTyped /\ RowsOwned /\ OneOpen /\ OneActive /\ LinksAgree /\ CompletedIsProven

RequestsInv ==
    \A q \in Requests : req[q].pc # "idle" =>
        /\ req[q].identity \in held
        /\ req[q].pc = "confirm" => ids[req[q].identity].used

EnrollmentInv == TablesInv /\ ProcessesTyped /\ RequestsInv

-----------------------------------------------------------------------------
(* Rows. *)

LEMMA Constants ==
    NULL \notin Devices /\ NULL \notin Enrollments /\ NULL \notin Identities
    /\ MaxTime \in Nat /\ MaxFaults \in Nat /\ \A ttl \in TTLs : ttl \in Nat
  BY EnrollmentAssumption

\* Some pending enrollments are closed; nothing else changes.
Closing(table) ==
    /\ table \in [Enrollments -> EnrollmentRow]
    /\ \A e \in Enrollments :
          \/ table[e] = enr[e]
          \/ /\ enr[e].status = "pending" /\ table[e].status \in {"expired", "revoked"}
             /\ table[e].device = enr[e].device /\ table[e].identity = enr[e].identity

LEMMA CloseOne ==
    ASSUME TablesInv, NEW e \in Enrollments, NEW s \in {"expired", "revoked"},
           enr[e].status = "pending"
    PROVE  Closing([enr EXCEPT ![e].status = s])
<1>1. enr \in [Enrollments -> EnrollmentRow]
  BY DEF TablesInv, TablesTyped
<1>2. [enr[e] EXCEPT !.status = s] \in EnrollmentRow
  BY <1>1 DEF EnrollmentRow, EnrollmentStatuses
<1>3. [enr EXCEPT ![e].status = s] = [enr EXCEPT ![e] = [enr[e] EXCEPT !.status = s]]
  BY <1>1
<1> QED
  BY <1>1, <1>2, <1>3 DEF Closing, EnrollmentRow

LEMMA SweepCloses == ASSUME TablesInv, NEW D PROVE Closing(expirePending(D))
<1>1. enr \in [Enrollments -> EnrollmentRow]
  BY DEF TablesInv, TablesTyped
<1>2. ASSUME NEW e \in Enrollments
      PROVE  [enr[e] EXCEPT !.status = "expired"] \in EnrollmentRow
  BY <1>1 DEF EnrollmentRow, EnrollmentStatuses
<1> QED
  BY <1>1, <1>2 DEF Closing, expirePending, EnrollmentRow

LEMMA ClosingKeepsTables ==
    ASSUME TablesInv, Closing(enr'), UNCHANGED <<ids, seen, held>>
    PROVE  TablesInv'
<1>1. /\ enr' \in [Enrollments -> EnrollmentRow]
      /\ \A e \in Enrollments :
            \/ enr'[e] = enr[e]
            \/ /\ enr[e].status = "pending" /\ enr'[e].status \in {"expired", "revoked"}
               /\ enr'[e].device = enr[e].device /\ enr'[e].identity = enr[e].identity
  BY DEF Closing
<1>2. TablesTyped'
  BY <1>1 DEF TablesInv, TablesTyped
<1>3. RowsOwned'
  BY <1>1 DEF TablesInv, RowsOwned
<1>4. OneOpen' /\ OneActive'
  BY <1>1 DEF TablesInv, OneOpen, OneActive, openStatuses
<1>5. LinksAgree'
  BY <1>1 DEF TablesInv, LinksAgree
<1>6. CompletedIsProven'
  BY <1>1 DEF TablesInv, CompletedIsProven
<1> QED
  BY <1>2, <1>3, <1>4, <1>5, <1>6 DEF TablesInv

\* A new pending enrollment of a device that has none open.
LEMMA CreateKeepsTables ==
    ASSUME TablesInv, now \in Nat, NEW d \in Devices, NEW e \in Enrollments, NEW ttl \in TTLs,
           Create(d, e, ttl)
    PROVE  TablesInv'
<1> DEFINE swept == expirePending({d})
           row == [device |-> d, status |-> "pending", expiresAt |-> now + ttl, identity |-> NULL]
<1>1. Closing(swept)
  BY SweepCloses
<1>2. /\ swept \in [Enrollments -> EnrollmentRow] /\ swept[e] = enr[e]
      /\ enr' = [swept EXCEPT ![e] = row] /\ enr[e].status = "none"
      /\ OpenEnrollments(d, swept) = {} /\ UNCHANGED <<ids, seen, held>>
  BY <1>1 DEF Create, Closing
<1>3. row \in EnrollmentRow
  BY Constants DEF EnrollmentRow, EnrollmentStatuses
<1>4. /\ row.status = "pending" /\ row.device = d /\ row.identity = NULL
  OBVIOUS
<1> HIDE DEF swept, row
<1>5. /\ enr' \in [Enrollments -> EnrollmentRow] /\ enr'[e] = row
      /\ \A f \in Enrollments \ {e} :
            /\ enr'[f] = swept[f]
            /\ \/ enr'[f] = enr[f]
               \/ /\ enr[f].status = "pending" /\ enr'[f].status \in {"expired", "revoked"}
                  /\ enr'[f].device = enr[f].device /\ enr'[f].identity = enr[f].identity
  BY <1>1, <1>2, <1>3 DEF Closing
<1>6. \A f \in Enrollments \ {e} : ~ (enr'[f].device = d /\ enr'[f].status \in openStatuses)
  BY <1>2, <1>5 DEF OpenEnrollments
<1>7. TablesTyped'
  BY <1>2, <1>5 DEF TablesInv, TablesTyped
<1>8. RowsOwned'
  BY <1>2, <1>4, <1>5 DEF TablesInv, RowsOwned
<1>9. OneOpen' /\ OneActive'
  BY <1>2, <1>4, <1>5, <1>6 DEF TablesInv, OneOpen, OneActive, openStatuses
<1>10. LinksAgree'
  BY <1>2, <1>4, <1>5, Constants DEF TablesInv, TablesTyped, LinksAgree, EnrollmentRow
<1>11. CompletedIsProven'
  BY <1>2, <1>4, <1>5 DEF TablesInv, CompletedIsProven
<1> QED
  BY <1>7, <1>8, <1>9, <1>10, <1>11 DEF TablesInv

-----------------------------------------------------------------------------
(* Identities. *)

LEMMA IssuedRows ==
    ASSUME TablesInv, NEW d \in Devices, NEW i \in Identities, Issuable(d, i),
           ids' = issued(d, i)
    PROVE  /\ ids' \in [Identities -> IdentityRow]
           /\ ids'[i].device = d /\ ids'[i].status = "active" /\ ~ ids'[i].used
           /\ \A j \in Identities \ {i} : ids'[j] = ids[j]
           /\ ids[i].status = "none" /\ i \notin held
           /\ \A e \in Enrollments : enr[e].identity # i
           /\ OneActive'
<1>1. /\ ids \in [Identities -> IdentityRow] /\ held \subseteq Identities
      /\ ids[i].status = "none" /\ ActiveIdentities(d) = {}
  BY DEF TablesInv, TablesTyped, Issuable
<1>2. ids' = [ids EXCEPT ![i] = [device |-> d, status |-> "active", used |-> FALSE]]
  BY DEF issued
<1>3. [device |-> d, status |-> "active", used |-> FALSE] \in IdentityRow
  BY DEF IdentityRow, IdentityStatuses
<1>4. ids' \in [Identities -> IdentityRow]
  BY <1>1, <1>2, <1>3
<1>5. /\ ids'[i].device = d /\ ids'[i].status = "active" /\ ~ ids'[i].used
      /\ \A j \in Identities \ {i} : ids'[j] = ids[j]
  BY <1>1, <1>2
<1>6. i \notin held
  BY <1>1 DEF TablesInv, RowsOwned
<1>7. \A e \in Enrollments : enr[e].identity # i
  BY <1>1, Constants DEF TablesInv, LinksAgree
<1>8. OneActive'
  BY <1>1, <1>5 DEF TablesInv, OneActive, ActiveIdentities
<1> QED
  BY <1>1, <1>4, <1>5, <1>6, <1>7, <1>8

LEMMA IssueKeepsTables ==
    ASSUME TablesInv, NEW d \in Devices, NEW i \in Identities, IssueCredential(d, i)
    PROVE  TablesInv'
<1>1. /\ Issuable(d, i) /\ ids' = issued(d, i) /\ held' = held \cup {i}
      /\ UNCHANGED <<enr, seen>>
  BY DEF IssueCredential
<1>2. /\ ids' \in [Identities -> IdentityRow]
      /\ ids'[i].device = d /\ ids'[i].status = "active"
      /\ \A j \in Identities \ {i} : ids'[j] = ids[j]
      /\ \A e \in Enrollments : enr[e].identity # i
      /\ OneActive'
  BY <1>1, IssuedRows
<1>3. \A e \in Enrollments : enr[e].identity \in Identities \cup {NULL}
  BY DEF TablesInv, TablesTyped, EnrollmentRow
<1>4. TablesTyped' /\ RowsOwned' /\ OneOpen'
  BY <1>1, <1>2 DEF TablesInv, TablesTyped, RowsOwned, OneOpen
<1>5. LinksAgree'
  BY <1>1, <1>2, <1>3 DEF TablesInv, LinksAgree
<1>6. CompletedIsProven'
  BY <1>1, <1>2, <1>3 DEF TablesInv, CompletedIsProven, LinksAgree
<1> QED
  BY <1>2, <1>4, <1>5, <1>6 DEF TablesInv

\* The token's enrollment and the new identity name each other from now on.
LEMMA ClaimKeepsTables ==
    ASSUME TablesInv, NEW e \in Enrollments, NEW i \in Identities, Claim(e, i),
           held' \in {held, held \cup {i}}, UNCHANGED seen
    PROVE  TablesInv'
<1> DEFINE d == enr[e].device
<1>1. /\ Issuable(d, i) /\ ids' = issued(d, i) /\ enr[e].status = "pending"
      /\ enr' = [enr EXCEPT ![e].status = "issued", ![e].identity = i]
  BY DEF Claim, Exchangeable
<1>2. d \in Devices
  BY <1>1 DEF TablesInv, RowsOwned
<1> HIDE DEF d
<1>3. /\ ids' \in [Identities -> IdentityRow]
      /\ ids'[i].device = d /\ ids'[i].status = "active"
      /\ \A j \in Identities \ {i} : ids'[j] = ids[j]
      /\ \A f \in Enrollments : enr[f].identity # i
      /\ OneActive'
  BY <1>1, <1>2, IssuedRows
<1>4. /\ enr' \in [Enrollments -> EnrollmentRow]
      /\ enr'[e].status = "issued" /\ enr'[e].identity = i /\ enr'[e].device = d
      /\ \A f \in Enrollments \ {e} : enr'[f] = enr[f]
  BY <1>1 DEF TablesInv, TablesTyped, EnrollmentRow, EnrollmentStatuses, d
<1>5. \A f \in Enrollments : enr[f].identity \in Identities \cup {NULL}
  BY DEF TablesInv, TablesTyped, EnrollmentRow
<1>6. TablesTyped' /\ RowsOwned'
  BY <1>1, <1>2, <1>3, <1>4 DEF TablesInv, TablesTyped, RowsOwned
<1>7. OneOpen'
  BY <1>1, <1>4 DEF TablesInv, OneOpen, openStatuses, d
<1>8. LinksAgree'
  BY <1>3, <1>4, <1>5, Constants DEF TablesInv, LinksAgree
<1>9. CompletedIsProven'
  BY <1>3, <1>4, <1>5 DEF TablesInv, CompletedIsProven, LinksAgree
<1> QED
  BY <1>3, <1>6, <1>7, <1>8, <1>9 DEF TablesInv

\* An active identity is revoked, and with it the enrollments in E that issued it.
LEMMA RevokedKeepsTables ==
    ASSUME TablesInv, NEW i \in Identities, ids[i].status \in {"active", "revoked"},
           ids' = [ids EXCEPT ![i].status = "revoked"],
           enr' \in [Enrollments -> EnrollmentRow],
           \A e \in Enrollments :
               \/ enr'[e] = enr[e]
               \/ /\ enr[e].status = "issued" /\ enr[e].identity = i
                  /\ enr'[e].status = "revoked" /\ enr'[e].device = enr[e].device
                  /\ enr'[e].identity = enr[e].identity,
           UNCHANGED <<seen, held>>
    PROVE  TablesInv'
<1>1. /\ ids' \in [Identities -> IdentityRow]
      /\ ids'[i].device = ids[i].device /\ ids'[i].status = "revoked"
      /\ ids'[i].used = ids[i].used
      /\ \A j \in Identities \ {i} : ids'[j] = ids[j]
  BY DEF TablesInv, TablesTyped, IdentityRow, IdentityStatuses
<1>2. \A e \in Enrollments : enr[e].identity \in Identities \cup {NULL}
  BY DEF TablesInv, TablesTyped, EnrollmentRow
<1>3. TablesTyped'
  BY <1>1 DEF TablesInv, TablesTyped
<1>4. RowsOwned'
  BY <1>1 DEF TablesInv, RowsOwned, TablesTyped
<1>5. OneOpen' /\ OneActive'
  BY <1>1 DEF TablesInv, OneOpen, OneActive, openStatuses
<1>6. LinksAgree'
  BY <1>1, <1>2, Constants DEF TablesInv, LinksAgree
<1>7. CompletedIsProven'
  BY <1>1, <1>2 DEF TablesInv, CompletedIsProven, TablesTyped
<1> QED
  BY <1>3, <1>4, <1>5, <1>6, <1>7 DEF TablesInv

LEMMA RevokeKeepsTables ==
    ASSUME TablesInv, NEW a \in Admins, adm[a] \in Enrollments \cup {NULL}, RevokeEnrollment(a)
    PROVE  TablesInv'
<1> DEFINE e == adm[a]
<1>1. e \in Enrollments /\ UNCHANGED <<seen, held>>
  BY DEF RevokeEnrollment
<1> HIDE DEF e
<1>2. CASE enr[e].status = "pending" /\ enr' = [enr EXCEPT ![e].status = "revoked"]
           /\ UNCHANGED ids
  BY <1>1, <1>2, CloseOne, ClosingKeepsTables
<1>3. CASE /\ enr[e].status = "issued" /\ enr[e].identity # NULL
           /\ ids[enr[e].identity].status \in {"active", "revoked"}
           /\ enr' = [enr EXCEPT ![e].status = "revoked"]
           /\ ids' = [ids EXCEPT ![enr[e].identity].status = "revoked"]
  <2>1. enr[e].identity \in Identities
    BY <1>1, <1>3 DEF TablesInv, TablesTyped, EnrollmentRow
  <2>2. /\ enr' \in [Enrollments -> EnrollmentRow]
        /\ enr'[e].status = "revoked" /\ enr'[e].device = enr[e].device
        /\ enr'[e].identity = enr[e].identity
        /\ \A f \in Enrollments \ {e} : enr'[f] = enr[f]
    BY <1>1, <1>3 DEF TablesInv, TablesTyped, EnrollmentRow, EnrollmentStatuses
  <2> QED
    BY <1>1, <1>3, <2>1, <2>2, RevokedKeepsTables
<1>4. CASE UNCHANGED <<enr, ids>>
  BY <1>1, <1>4 DEF TablesInv, TablesTyped, RowsOwned, OneOpen, OneActive, LinksAgree,
                    CompletedIsProven
<1> QED
  BY <1>2, <1>3, <1>4 DEF RevokeEnrollment, e

LEMMA TouchKeepsTables ==
    ASSUME TablesInv, NEW i \in Identities, ids' = [ids EXCEPT ![i].used = TRUE],
           UNCHANGED <<enr, seen, held>>
    PROVE  TablesInv'
<1>1. /\ ids' \in [Identities -> IdentityRow]
      /\ ids'[i].device = ids[i].device /\ ids'[i].status = ids[i].status /\ ids'[i].used
      /\ \A j \in Identities \ {i} : ids'[j] = ids[j]
  BY DEF TablesInv, TablesTyped, IdentityRow
<1>2. \A e \in Enrollments : enr[e].identity \in Identities \cup {NULL}
  BY DEF TablesInv, TablesTyped, EnrollmentRow
<1>3. TablesTyped' /\ RowsOwned'
  BY <1>1 DEF TablesInv, TablesTyped, RowsOwned
<1>4. OneOpen' /\ OneActive'
  BY <1>1 DEF TablesInv, OneOpen, OneActive
<1>5. LinksAgree'
  BY <1>1, <1>2, Constants DEF TablesInv, LinksAgree
<1>6. CompletedIsProven'
  BY <1>1, <1>2 DEF TablesInv, CompletedIsProven, TablesTyped
<1> QED
  BY <1>3, <1>4, <1>5, <1>6 DEF TablesInv

\* The request's identity is held and was used, and is the enrollment's.
LEMMA ConfirmKeepsTables ==
    ASSUME TablesInv, RequestsInv, NEW q \in Requests, NEW e \in Enrollments, Confirm(q, e)
    PROVE  TablesInv'
<1> DEFINE i == req[q].identity
<1>1. i \in held /\ ids[i].used
  BY DEF RequestsInv, Confirm
<1>2. /\ enr[e].status \in {"issued", "completed"} /\ enr[e].identity = i
      /\ enr' = [enr EXCEPT ![e].status = "completed"]
      /\ seen' = seen \cup {enr[e].device} /\ UNCHANGED <<ids, held>>
  BY DEF Confirm, Confirms
<1> HIDE DEF i
<1>3. /\ enr' \in [Enrollments -> EnrollmentRow]
      /\ enr'[e].status = "completed" /\ enr'[e].device = enr[e].device
      /\ enr'[e].identity = i
      /\ \A f \in Enrollments \ {e} : enr'[f] = enr[f]
  BY <1>2 DEF TablesInv, TablesTyped, EnrollmentRow, EnrollmentStatuses
<1>4. enr[e].device \in Devices
  BY <1>2 DEF TablesInv, RowsOwned
<1>5. TablesTyped' /\ RowsOwned'
  BY <1>2, <1>3, <1>4 DEF TablesInv, TablesTyped, RowsOwned
<1>6. OneOpen' /\ OneActive'
  BY <1>2, <1>3 DEF TablesInv, OneOpen, OneActive, openStatuses
<1>7. LinksAgree'
  BY <1>2, <1>3 DEF TablesInv, LinksAgree
<1>8. CompletedIsProven'
  BY <1>1, <1>2, <1>3 DEF TablesInv, CompletedIsProven
<1> QED
  BY <1>5, <1>6, <1>7, <1>8 DEF TablesInv

-----------------------------------------------------------------------------
(* All steps. *)

LEMMA HeldRequests ==
    ASSUME EnrollmentInv, NEW q \in Requests, req[q].pc # "idle"
    PROVE  req[q].identity \in Identities /\ req[q].identity \in held
  BY DEF EnrollmentInv, RequestsInv, TablesInv, TablesTyped

LEMMA TablesStep == EnrollmentInv /\ [Next]_vars => TablesInv'
<1> SUFFICES ASSUME EnrollmentInv, [Next]_vars PROVE TablesInv'
  OBVIOUS
<1> USE DEF EnrollmentInv
<1>1. ASSUME NEW d \in Devices, NEW e \in Enrollments, NEW ttl \in TTLs, Create(d, e, ttl)
      PROVE  TablesInv'
  BY <1>1, CreateKeepsTables DEF ProcessesTyped
<1>2. ASSUME NEW D, reconcileExpired(D) PROVE TablesInv'
  BY <1>2, SweepCloses, ClosingKeepsTables DEF reconcileExpired
<1>3. ASSUME NEW a \in Admins, NEW e \in Enrollments, RevokeBegin(a, e) PROVE TablesInv'
  BY <1>3, SweepCloses, ClosingKeepsTables DEF RevokeBegin
<1>4. ASSUME NEW a \in Admins, RevokeEnrollment(a) PROVE TablesInv'
  BY <1>4, RevokeKeepsTables DEF ProcessesTyped
<1>5. ASSUME NEW d \in Devices, NEW i \in Identities, IssueCredential(d, i) PROVE TablesInv'
  BY <1>5, IssueKeepsTables
<1>6. ASSUME NEW i \in Identities, RevokeCredential(i) PROVE TablesInv'
  BY <1>6, RevokedKeepsTables DEF RevokeCredential, TablesInv, TablesTyped
<1>7. ASSUME NEW e \in Enrollments, NEW i \in Identities,
             Exchange(e, i) \/ ExchangeAnswerLost(e, i)
      PROVE  TablesInv'
  BY <1>7, ClaimKeepsTables DEF Exchange, ExchangeAnswerLost
<1>8. ASSUME NEW e \in Enrollments, ExchangeTooLate(e) PROVE TablesInv'
  BY <1>8, CloseOne, ClosingKeepsTables DEF ExchangeTooLate
<1>9. ASSUME NEW q \in Requests, AuthTouch(q) PROVE TablesInv'
  BY <1>9, HeldRequests, TouchKeepsTables DEF AuthTouch
<1>10. ASSUME NEW q \in Requests, NEW e \in Enrollments, Confirm(q, e) PROVE TablesInv'
  BY <1>10, ConfirmKeepsTables
<1>11. CASE UNCHANGED <<enr, ids, seen, held>>
  BY <1>11 DEF TablesInv, TablesTyped, RowsOwned, OneOpen, OneActive, LinksAgree,
               CompletedIsProven
<1>12. \/ UNCHANGED <<enr, ids, seen, held>>
       \/ Issue
       \/ \E a \in Admins, e \in Enrollments : RevokeBegin(a, e)
       \/ \E a \in Admins : RevokeEnrollment(a)
       \/ \E q \in Requests : AuthTouch(q)
       \/ \E q \in Requests, e \in Enrollments : Confirm(q, e)
  BY DEF Next, vars, Administrate, Serve, RevokeFails, AgentArrive, AuthSelect,
         ConfirmNothing, RequestFails, Crash, Tick, SetClockBack
<1> QED
  BY <1>1, <1>2, <1>3, <1>4, <1>5, <1>6, <1>7, <1>8, <1>9, <1>10, <1>11, <1>12 DEF Issue

\* What a request relies on: an identity somebody holds stays the same device's,
\* stays used once it was, and stays held.
IdentitiesKept ==
    /\ held \subseteq held'
    /\ \A i \in held : ids'[i].device = ids[i].device /\ (ids[i].used => ids'[i].used)

LEMMA IdentitiesStep == EnrollmentInv /\ [Next]_vars => IdentitiesKept
<1> SUFFICES ASSUME EnrollmentInv, [Next]_vars PROVE IdentitiesKept
  OBVIOUS
<1>0. /\ ids \in [Identities -> IdentityRow] /\ held \subseteq Identities
      /\ \A i \in held : ids[i].status # "none"
  BY DEF EnrollmentInv, TablesInv, TablesTyped, RowsOwned
<1>1. ASSUME NEW d, NEW i \in Identities, Issuable(d, i), ids' = issued(d, i),
             held' \in {held, held \cup {i}}
      PROVE  IdentitiesKept
  BY <1>0, <1>1 DEF IdentitiesKept, Issuable, issued
<1>2. ASSUME NEW i, ids' = [ids EXCEPT ![i].status = "revoked"], held' = held
      PROVE  IdentitiesKept
  BY <1>0, <1>2 DEF IdentitiesKept, IdentityRow
<1>3. ASSUME NEW i, ids' = [ids EXCEPT ![i].used = TRUE], held' = held
      PROVE  IdentitiesKept
  BY <1>0, <1>3 DEF IdentitiesKept, IdentityRow
<1>4. CASE UNCHANGED <<ids, held>>
  BY <1>4 DEF IdentitiesKept
<1>5. Issue => IdentitiesKept
  BY <1>1, <1>2, <1>4 DEF Issue, Create, reconcileExpired, IssueCredential, RevokeCredential,
                          Exchange, ExchangeAnswerLost, ExchangeTooLate, Claim
<1>6. ASSUME NEW a \in Admins, Administrate(a) PROVE IdentitiesKept
  BY <1>2, <1>4, <1>6 DEF Administrate, RevokeBegin, RevokeEnrollment, RevokeFails
<1>7. ASSUME NEW q \in Requests, Serve(q) PROVE IdentitiesKept
  BY <1>3, <1>4, <1>7 DEF Serve, AuthSelect, AuthTouch, Confirm, ConfirmNothing
<1>8. \/ UNCHANGED <<ids, held>> \/ Issue
      \/ \E a \in Admins : Administrate(a)
      \/ \E q \in Requests : Serve(q)
  BY DEF Next, vars, AgentArrive, RequestFails, Crash, Tick, SetClockBack
<1> QED
  BY <1>4, <1>5, <1>6, <1>7, <1>8

\* What a step makes of one request.
RequestMoves(q) ==
    \/ req'[q] = req[q] \/ req'[q] = Idle
    \/ \E i \in held, c \in BOOLEAN :
          req'[q] = [pc |-> "select", identity |-> i, confirms |-> c]
    \/ req[q].pc = "select" /\ req'[q] = [req[q] EXCEPT !.pc = "touch"]
    \/ /\ req[q].pc = "touch" /\ req'[q] = [req[q] EXCEPT !.pc = "confirm"]
       /\ ids' = [ids EXCEPT ![req[q].identity].used = TRUE]

LEMMA RequestsMove == EnrollmentInv /\ [Next]_vars => \A q \in Requests : RequestMoves(q)
<1> SUFFICES ASSUME EnrollmentInv, [Next]_vars, NEW q \in Requests PROVE RequestMoves(q)
  OBVIOUS
<1>0. req \in [Requests -> RequestState]
  BY DEF EnrollmentInv, ProcessesTyped
<1>1. ASSUME NEW p \in Requests, AuthSelect(p) PROVE RequestMoves(q)
  BY <1>0, <1>1 DEF AuthSelect, Finish, RequestMoves, RequestState
<1>2. ASSUME NEW p \in Requests, AuthTouch(p) PROVE RequestMoves(q)
  <2>1. CASE req[p].confirms
    <3>1. req' = [req EXCEPT ![p].pc = "confirm"] /\ req[p].pc = "touch"
      BY <1>2, <2>1 DEF AuthTouch
    <3>2. CASE p = q
      <4>1. req'[q] = [req[q] EXCEPT !.pc = "confirm"]
        BY <1>0, <3>1, <3>2
      <4>2. ids' = [ids EXCEPT ![req[q].identity].used = TRUE]
        BY <1>2, <3>2 DEF AuthTouch
      <4> QED
        BY <3>1, <3>2, <4>1, <4>2 DEF RequestMoves
    <3>3. CASE p # q
      BY <1>0, <3>1, <3>3 DEF RequestMoves
    <3> QED
      BY <3>2, <3>3
  <2>2. CASE ~ req[p].confirms
    BY <1>0, <1>2, <2>2 DEF AuthTouch, Finish, RequestMoves
  <2> QED
    BY <2>1, <2>2
<1>3. ASSUME NEW p \in Requests, Finish(p) PROVE RequestMoves(q)
  BY <1>0, <1>3 DEF Finish, RequestMoves
<1>4. ASSUME NEW p \in Requests, NEW i \in Identities, NEW c \in BOOLEAN, AgentArrive(p, i, c)
      PROVE  RequestMoves(q)
  BY <1>0, <1>4 DEF AgentArrive, RequestMoves
<1>5. CASE UNCHANGED req
  BY <1>5 DEF RequestMoves
<1>6. CASE Crash
  BY <1>6 DEF Crash, RequestMoves
<1>7. Issue => UNCHANGED req
  BY DEF Issue, Create, reconcileExpired, IssueCredential, RevokeCredential, Exchange,
         ExchangeAnswerLost, ExchangeTooLate
<1>8. \A a \in Admins : Administrate(a) => UNCHANGED req
  BY DEF Administrate, RevokeBegin, RevokeEnrollment, RevokeFails
<1>9. \A p \in Requests : Serve(p) => AuthSelect(p) \/ AuthTouch(p) \/ Finish(p)
  BY DEF Serve, Confirm, ConfirmNothing
<1>10. \A p \in Requests : RequestFails(p) => Finish(p)
  BY DEF RequestFails
<1>11. Tick \/ SetClockBack \/ UNCHANGED vars => UNCHANGED req
  BY DEF Tick, SetClockBack, vars
<1> QED
  BY <1>1, <1>2, <1>3, <1>4, <1>5, <1>6, <1>7, <1>8, <1>9, <1>10, <1>11 DEF Next

LEMMA RequestsStep == EnrollmentInv /\ [Next]_vars => RequestsInv'
<1> SUFFICES ASSUME EnrollmentInv, [Next]_vars, NEW q \in Requests, req'[q].pc # "idle"
             PROVE  /\ req'[q].identity \in held'
                    /\ req'[q].pc = "confirm" => ids'[req'[q].identity].used
  BY DEF RequestsInv
<1>1. /\ IdentitiesKept /\ RequestMoves(q) /\ req[q] \in RequestState
      /\ ids \in [Identities -> IdentityRow] /\ held \subseteq Identities
  BY IdentitiesStep, RequestsMove DEF EnrollmentInv, TablesInv, TablesTyped, ProcessesTyped
<1>2. req[q].pc # "idle" =>
         /\ req[q].identity \in held
         /\ req[q].pc = "confirm" => ids[req[q].identity].used
  BY DEF EnrollmentInv, RequestsInv
<1>3. CASE req'[q] = req[q]
  BY <1>1, <1>2, <1>3 DEF IdentitiesKept
<1>4. CASE req'[q] = Idle
  BY <1>4 DEF Idle
<1>5. ASSUME NEW i \in held, NEW c, req'[q] = [pc |-> "select", identity |-> i, confirms |-> c]
      PROVE  req'[q].identity \in held' /\ req'[q].pc # "confirm"
  BY <1>1, <1>5 DEF IdentitiesKept
<1>6. CASE req[q].pc = "select" /\ req'[q] = [req[q] EXCEPT !.pc = "touch"]
  BY <1>1, <1>2, <1>6 DEF IdentitiesKept, RequestState
<1>7. CASE /\ req[q].pc = "touch" /\ req'[q] = [req[q] EXCEPT !.pc = "confirm"]
           /\ ids' = [ids EXCEPT ![req[q].identity].used = TRUE]
  <2>1. req[q].identity \in held /\ req'[q].identity = req[q].identity
    BY <1>1, <1>2, <1>7 DEF RequestState
  <2>2. ids'[req[q].identity].used
    BY <1>1, <1>7, <2>1 DEF IdentityRow
  <2> QED
    BY <1>1, <2>1, <2>2 DEF IdentitiesKept
<1> QED
  BY <1>1, <1>3, <1>4, <1>5, <1>6, <1>7 DEF RequestMoves

LEMMA ProcessesStep == EnrollmentInv /\ [Next]_vars => ProcessesTyped'
<1> SUFFICES ASSUME EnrollmentInv, [Next]_vars PROVE ProcessesTyped'
  OBVIOUS
<1>1. /\ req \in [Requests -> RequestState] /\ adm \in [Admins -> Enrollments \cup {NULL}]
      /\ now \in Nat /\ faults \in Nat /\ held \subseteq Identities
  BY DEF EnrollmentInv, ProcessesTyped, TablesInv, TablesTyped
<1>2. Idle \in RequestState
  BY DEF Idle, RequestState
<1>3. ASSUME NEW q \in Requests PROVE req'[q] \in RequestState
  <2>1. RequestMoves(q) /\ req[q] \in RequestState
    BY <1>1, RequestsMove
  <2>2. ASSUME NEW i \in held, NEW c \in BOOLEAN,
               req'[q] = [pc |-> "select", identity |-> i, confirms |-> c]
        PROVE  req'[q] \in RequestState
    BY <1>1, <2>2 DEF RequestState
  <2>3. CASE req'[q] = [req[q] EXCEPT !.pc = "touch"]
    BY <2>1, <2>3 DEF RequestState
  <2>4. CASE req'[q] = [req[q] EXCEPT !.pc = "confirm"]
    BY <2>1, <2>4 DEF RequestState
  <2> QED
    BY <1>2, <2>1, <2>2, <2>3, <2>4 DEF RequestMoves
<1>4. \/ UNCHANGED req
      \/ \E q \in Requests : \E r : req' = [req EXCEPT ![q] = r]
      \/ req' = [q \in Requests |-> Idle]
  <2>1. Issue \/ Tick \/ SetClockBack \/ UNCHANGED vars => UNCHANGED req
    BY DEF Issue, Create, reconcileExpired, IssueCredential, RevokeCredential, Exchange,
           ExchangeAnswerLost, ExchangeTooLate, Tick, SetClockBack, vars
  <2>2. \A a \in Admins : Administrate(a) => UNCHANGED req
    BY DEF Administrate, RevokeBegin, RevokeEnrollment, RevokeFails
  <2>3. \A p \in Requests : AuthSelect(p) \/ AuthTouch(p) \/ Finish(p) =>
           \E r : req' = [req EXCEPT ![p] = r]
    BY <1>1 DEF AuthSelect, AuthTouch, Finish
  <2>4. \A p \in Requests : Serve(p) \/ RequestFails(p) =>
           AuthSelect(p) \/ AuthTouch(p) \/ Finish(p)
    BY DEF Serve, Confirm, ConfirmNothing, RequestFails
  <2>5. ASSUME NEW p \in Requests, NEW i \in Identities, NEW c \in BOOLEAN, AgentArrive(p, i, c)
        PROVE  \E q \in Requests : \E r : req' = [req EXCEPT ![q] = r]
    BY <2>5 DEF AgentArrive
  <2> QED
    BY <2>1, <2>2, <2>3, <2>4, <2>5 DEF Next, Crash
<1>5. req' \in [Requests -> RequestState]
  BY <1>1, <1>2, <1>3, <1>4
<1>6. adm' \in [Admins -> Enrollments \cup {NULL}]
  <2>1. Issue \/ Tick \/ SetClockBack \/ UNCHANGED vars => UNCHANGED adm
    BY DEF Issue, Create, reconcileExpired, IssueCredential, RevokeCredential, Exchange,
           ExchangeAnswerLost, ExchangeTooLate, Tick, SetClockBack, vars
  <2>2. \A a \in Admins : Administrate(a) =>
           \E e \in Enrollments \cup {NULL} : adm' = [adm EXCEPT ![a] = e]
    BY DEF Administrate, RevokeBegin, RevokeEnrollment, RevokeFails
  <2>3. \A q \in Requests : Serve(q) \/ RequestFails(q) => UNCHANGED adm
    BY DEF Serve, AuthSelect, AuthTouch, Confirm, ConfirmNothing, RequestFails
  <2>4. \A q \in Requests, i \in Identities, c \in BOOLEAN : AgentArrive(q, i, c) => UNCHANGED adm
    BY DEF AgentArrive
  <2> QED
    BY <1>1, <2>1, <2>2, <2>3, <2>4 DEF Next, Crash
<1>7. now' \in {now, now + 1} \/ (now > 0 /\ now' = now - 1)
  <2>1. Issue \/ Tick \/ SetClockBack \/ Crash \/ UNCHANGED vars =>
           now' \in {now, now + 1} \/ (now > 0 /\ now' = now - 1)
    BY DEF Issue, Create, reconcileExpired, IssueCredential, RevokeCredential, Exchange,
           ExchangeAnswerLost, ExchangeTooLate, Tick, SetClockBack, Crash, vars, clock
  <2>2. \A a \in Admins : Administrate(a) => UNCHANGED now
    BY DEF Administrate, RevokeBegin, RevokeEnrollment, RevokeFails, clock
  <2>3. \A q \in Requests : Serve(q) \/ RequestFails(q) => UNCHANGED now
    BY DEF Serve, AuthSelect, AuthTouch, Confirm, ConfirmNothing, RequestFails, clock
  <2>4. \A q \in Requests, i \in Identities, c \in BOOLEAN : AgentArrive(q, i, c) => UNCHANGED now
    BY DEF AgentArrive, clock
  <2> QED
    BY <2>1, <2>2, <2>3, <2>4 DEF Next
<1>8. faults' \in {faults, faults + 1}
  <2>1. Issue \/ Tick \/ SetClockBack \/ Crash \/ UNCHANGED vars => faults' \in {faults, faults + 1}
    BY DEF Issue, Create, reconcileExpired, IssueCredential, RevokeCredential, Exchange,
           ExchangeAnswerLost, ExchangeTooLate, Tick, SetClockBack, Crash, Fault, vars, clock
  <2>2. \A a \in Admins : Administrate(a) => faults' \in {faults, faults + 1}
    BY DEF Administrate, RevokeBegin, RevokeEnrollment, RevokeFails, Fault, clock
  <2>3. \A q \in Requests : Serve(q) \/ RequestFails(q) => faults' \in {faults, faults + 1}
    BY DEF Serve, AuthSelect, AuthTouch, Confirm, ConfirmNothing, RequestFails, Fault, clock
  <2>4. \A q \in Requests, i \in Identities, c \in BOOLEAN :
           AgentArrive(q, i, c) => UNCHANGED faults
    BY DEF AgentArrive, clock
  <2> QED
    BY <2>1, <2>2, <2>3, <2>4 DEF Next
<1> QED
  BY <1>1, <1>5, <1>6, <1>7, <1>8 DEF ProcessesTyped

LEMMA InitEnrollment == Init => EnrollmentInv
<1> SUFFICES ASSUME Init PROVE EnrollmentInv
  OBVIOUS
<1>1. TablesTyped
  BY DEF Init, TablesTyped, NoEnrollment, NoIdentity, EnrollmentRow, IdentityRow,
         EnrollmentStatuses, IdentityStatuses
<1>2. RowsOwned /\ OneOpen /\ OneActive /\ CompletedIsProven
  BY DEF Init, RowsOwned, OneOpen, OneActive, CompletedIsProven, NoEnrollment, NoIdentity,
         openStatuses
<1>3. LinksAgree
  BY DEF Init, LinksAgree, NoEnrollment
<1>4. ProcessesTyped /\ RequestsInv
  BY DEF Init, ProcessesTyped, RequestsInv, RequestState, Idle
<1> QED
  BY <1>1, <1>2, <1>3, <1>4 DEF EnrollmentInv, TablesInv

LEMMA NextEnrollment == EnrollmentInv /\ [Next]_vars => EnrollmentInv'
  BY TablesStep, ProcessesStep, RequestsStep DEF EnrollmentInv

THEOREM EnrollmentInvariant == Spec => []EnrollmentInv
  BY InitEnrollment, NextEnrollment, PTL DEF Spec

\* The tables of AgentEnrollment and the locals of its handlers keep their types.
THEOREM EnrollmentTyped == Spec => []TypeOK
<1>1. EnrollmentInv => TypeOK
  BY DEF EnrollmentInv, TablesInv, TablesTyped, ProcessesTyped, RequestState, TypeOK
<1> QED
  BY <1>1, EnrollmentInvariant, PTL

\* Create and IssueCredentialTx count before they insert and no index backs them:
\* in every interleaving a device has one open enrollment and one active identity.
THEOREM NeverTwo == Spec => []OneOfEach
<1>1. EnrollmentInv => OneOfEach
  BY DEF EnrollmentInv, TablesInv, OneOpen, OneActive, OneOfEach
<1> QED
  BY <1>1, EnrollmentInvariant, PTL

\* Revoke, RevokeCredential and Exchange keep an enrollment and its identity in
\* step: no issued enrollment is ever in a state Revoke refuses.
THEOREM LinksStay == Spec => []LinksAgree
<1>1. EnrollmentInv => LinksAgree
  BY DEF EnrollmentInv, TablesInv
<1> QED
  BY <1>1, EnrollmentInvariant, PTL

\* Confirm completes an enrollment only for the identity its token was exchanged
\* for, which an agent received and authenticated with.
THEOREM CompletionIsProven == Spec => []CompletedIsProven
<1>1. EnrollmentInv => CompletedIsProven
  BY DEF EnrollmentInv, TablesInv
<1> QED
  BY <1>1, EnrollmentInvariant, PTL

-----------------------------------------------------------------------------
(* Outcomes. *)

OutcomesKept ==
    \A e \in Enrollments :
        /\ enr[e].status \in {"completed", "revoked", "expired"} => enr'[e].status = enr[e].status
        /\ enr[e].status = "issued" => enr'[e].status # "pending"
        /\ enr[e].identity # NULL => enr'[e].identity = enr[e].identity

RevokedKept == \A i \in Identities : ids[i].status = "revoked" => ids'[i].status = "revoked"

LEMMA OutcomesStep == EnrollmentInv /\ [Next]_vars => OutcomesKept
<1> SUFFICES ASSUME EnrollmentInv, [Next]_vars PROVE OutcomesKept
  OBVIOUS
<1>0. /\ enr \in [Enrollments -> EnrollmentRow] /\ TablesInv
      /\ \A e \in Enrollments : enr[e].status \in {"none", "pending", "expired"} =>
                                   enr[e].identity = NULL
  BY DEF EnrollmentInv, TablesInv, TablesTyped, LinksAgree
<1>1. CASE UNCHANGED enr
  BY <1>1 DEF OutcomesKept
<1>2. CASE Closing(enr')
  BY <1>2 DEF Closing, OutcomesKept
<1>3. ASSUME NEW e \in Enrollments, NEW s \in {"revoked", "completed"},
             enr[e].status = "issued" \/ enr[e].status = s, enr' = [enr EXCEPT ![e].status = s]
      PROVE  OutcomesKept
  BY <1>0, <1>3 DEF OutcomesKept, EnrollmentRow
<1>4. ASSUME NEW e \in Enrollments, NEW i \in Identities, Claim(e, i) PROVE OutcomesKept
  BY <1>0, <1>4 DEF Claim, Exchangeable, OutcomesKept, EnrollmentRow
<1>5. ASSUME NEW d \in Devices, NEW e \in Enrollments, NEW ttl \in TTLs, Create(d, e, ttl)
      PROVE  OutcomesKept
  <2> DEFINE swept == expirePending({d})
  <2>1. Closing(swept) /\ enr[e].status = "none"
    BY <1>0, <1>5, SweepCloses DEF Create
  <2>2. \A f \in Enrollments : f # e => enr'[f] = swept[f]
    BY <1>5 DEF Create, expirePending
  <2> HIDE DEF swept
  <2> QED
    BY <1>0, <2>1, <2>2 DEF Closing, OutcomesKept
<1>6. Issue => OutcomesKept
  <2>1. ASSUME NEW e \in Enrollments, ExchangeTooLate(e) PROVE OutcomesKept
    BY <1>0, <1>2, <2>1, CloseOne DEF ExchangeTooLate
  <2>2. ASSUME NEW D, reconcileExpired(D) PROVE OutcomesKept
    BY <1>0, <1>2, <2>2, SweepCloses DEF reconcileExpired
  <2> QED
    BY <1>1, <1>4, <1>5, <2>1, <2>2
       DEF Issue, IssueCredential, RevokeCredential, Exchange, ExchangeAnswerLost
<1>7. ASSUME NEW a \in Admins, Administrate(a) PROVE OutcomesKept
  <2>1. ASSUME NEW e, RevokeBegin(a, e) PROVE OutcomesKept
    BY <1>0, <1>2, <2>1, SweepCloses DEF RevokeBegin
  <2>2. CASE RevokeEnrollment(a)
    <3>1. adm[a] \in Enrollments
      BY <2>2 DEF RevokeEnrollment, EnrollmentInv, ProcessesTyped
    <3>2. CASE enr[adm[a]].status = "pending"
      BY <1>0, <1>2, <2>2, <3>1, <3>2, CloseOne DEF RevokeEnrollment, openStatuses
    <3> QED
      BY <1>1, <1>3, <2>2, <3>1, <3>2 DEF RevokeEnrollment
  <2> QED
    BY <1>1, <1>7, <2>1, <2>2 DEF Administrate, RevokeFails
<1>8. ASSUME NEW q \in Requests, Serve(q) PROVE OutcomesKept
  <2>1. ASSUME NEW e \in Enrollments, Confirm(q, e) PROVE OutcomesKept
    BY <1>3, <2>1 DEF Confirm, Confirms
  <2> QED
    BY <1>1, <1>8, <2>1 DEF Serve, AuthSelect, AuthTouch, ConfirmNothing
<1>9. \/ UNCHANGED enr \/ Issue
      \/ \E a \in Admins : Administrate(a)
      \/ \E q \in Requests : Serve(q)
  BY DEF Next, vars, AgentArrive, RequestFails, Crash, Tick, SetClockBack
<1> QED
  BY <1>1, <1>6, <1>7, <1>8, <1>9

LEMMA RevokedStep == EnrollmentInv /\ [Next]_vars => RevokedKept
<1> SUFFICES ASSUME EnrollmentInv, [Next]_vars PROVE RevokedKept
  OBVIOUS
<1>0. ids \in [Identities -> IdentityRow]
  BY DEF EnrollmentInv, TablesInv, TablesTyped
<1>1. ASSUME NEW d, NEW i \in Identities, Issuable(d, i), ids' = issued(d, i)
      PROVE  RevokedKept
  BY <1>0, <1>1 DEF RevokedKept, Issuable, issued
<1>2. ASSUME NEW i, ids' = [ids EXCEPT ![i].status = "revoked"] PROVE RevokedKept
  BY <1>0, <1>2 DEF RevokedKept, IdentityRow
<1>3. ASSUME NEW i, ids' = [ids EXCEPT ![i].used = TRUE] PROVE RevokedKept
  BY <1>0, <1>3 DEF RevokedKept, IdentityRow
<1>4. CASE UNCHANGED ids
  BY <1>4 DEF RevokedKept
<1>5. Issue => RevokedKept
  BY <1>1, <1>2, <1>4 DEF Issue, Create, reconcileExpired, IssueCredential, RevokeCredential,
                          Exchange, ExchangeAnswerLost, ExchangeTooLate, Claim
<1>6. ASSUME NEW a \in Admins, Administrate(a) PROVE RevokedKept
  BY <1>2, <1>4, <1>6 DEF Administrate, RevokeBegin, RevokeEnrollment, RevokeFails
<1>7. ASSUME NEW q \in Requests, Serve(q) PROVE RevokedKept
  BY <1>3, <1>4, <1>7 DEF Serve, AuthSelect, AuthTouch, Confirm, ConfirmNothing
<1>8. \/ UNCHANGED ids \/ Issue
      \/ \E a \in Admins : Administrate(a)
      \/ \E q \in Requests : Serve(q)
  BY DEF Next, vars, AgentArrive, RequestFails, Crash, Tick, SetClockBack
<1> QED
  BY <1>4, <1>5, <1>6, <1>7, <1>8

\* Late confirmations, a revocation in two transactions and repeated exchanges
\* leave completed, revoked and expired enrollments, and revoked identities, alone.
THEOREM OutcomesAreFinal == Spec => OutcomesStand
<1>1. EnrollmentInv /\ [Next]_vars =>
         [/\ \A e \in Enrollments :
                /\ enr[e].status \in {"completed", "revoked", "expired"} =>
                      enr'[e].status = enr[e].status
                /\ enr[e].status = "issued" => enr'[e].status # "pending"
                /\ enr[e].identity # NULL => enr'[e].identity = enr[e].identity
          /\ \A i \in Identities : ids[i].status = "revoked" => ids'[i].status = "revoked"]_vars
  BY OutcomesStep, RevokedStep DEF OutcomesKept, RevokedKept
<1> QED
  BY <1>1, EnrollmentInvariant, PTL DEF Spec, OutcomesStand

-----------------------------------------------------------------------------
(* Deadlines. *)

PendingKept ==
    \A e \in Enrollments : enr[e].status = "pending" =>
        /\ enr'[e].expiresAt = enr[e].expiresAt
        /\ enr'[e].status = "expired" => enr[e].expiresAt <= now
        /\ enr'[e].status = "issued" => now < enr[e].expiresAt
        /\ enr'[e].status = "revoked" => \E a \in Admins : adm[a] = e /\ adm'[a] = NULL
        /\ enr'[e].status # "completed"

LEMMA PendingStep == EnrollmentInv /\ [Next]_vars => PendingKept
<1> SUFFICES ASSUME EnrollmentInv, [Next]_vars PROVE PendingKept
  OBVIOUS
<1>0. /\ enr \in [Enrollments -> EnrollmentRow] /\ now \in Nat
      /\ adm \in [Admins -> Enrollments \cup {NULL}] /\ NULL \notin Enrollments
      /\ \A e \in Enrollments : enr[e].expiresAt \in Nat
  BY Constants DEF EnrollmentInv, TablesInv, TablesTyped, ProcessesTyped, EnrollmentRow
<1>1. CASE UNCHANGED enr
  BY <1>1 DEF PendingKept
<1>2. ASSUME NEW D, NEW e \in Enrollments, enr[e].status = "pending"
      PROVE  /\ expirePending(D)[e].expiresAt = enr[e].expiresAt
             /\ expirePending(D)[e].status \in {"pending", "expired"}
             /\ expirePending(D)[e].status = "expired" => enr[e].expiresAt <= now
  BY <1>0, <1>2 DEF expirePending, Elapsed, EnrollmentRow
<1>3. ASSUME NEW D, enr' = expirePending(D) PROVE PendingKept
  BY <1>2, <1>3 DEF PendingKept
<1>4. ASSUME NEW d \in Devices, NEW e \in Enrollments, NEW ttl \in TTLs, Create(d, e, ttl)
      PROVE  PendingKept
  <2>1. enr[e].status = "none"
    BY <1>4 DEF Create
  <2>2. \A f \in Enrollments : f # e => enr'[f] = expirePending({d})[f]
    BY <1>4 DEF Create, expirePending
  <2> QED
    BY <1>2, <2>1, <2>2 DEF PendingKept
<1>5. ASSUME NEW e \in Enrollments, NEW i \in Identities, Claim(e, i) PROVE PendingKept
  BY <1>0, <1>5 DEF Claim, Exchangeable, PendingKept, EnrollmentRow
<1>6. ASSUME NEW e \in Enrollments, ExchangeTooLate(e) PROVE PendingKept
  BY <1>0, <1>6 DEF ExchangeTooLate, Exchangeable, PendingKept, EnrollmentRow
<1>7. ASSUME NEW a \in Admins, RevokeEnrollment(a) PROVE PendingKept
  <2>1. adm[a] \in Enrollments /\ adm'[a] = NULL
    BY <1>0, <1>7 DEF RevokeEnrollment
  <2>2. UNCHANGED enr \/ enr' = [enr EXCEPT ![adm[a]].status = "revoked"]
    BY <1>7 DEF RevokeEnrollment
  <2> QED
    BY <1>0, <1>1, <2>1, <2>2 DEF PendingKept, EnrollmentRow
<1>8. ASSUME NEW q, NEW e \in Enrollments, Confirm(q, e) PROVE PendingKept
  BY <1>0, <1>8 DEF Confirm, Confirms, PendingKept, EnrollmentRow
<1>9. Issue => PendingKept
  BY <1>1, <1>3, <1>4, <1>5, <1>6
     DEF Issue, reconcileExpired, IssueCredential, RevokeCredential, Exchange, ExchangeAnswerLost
<1>10. ASSUME NEW a \in Admins, Administrate(a) PROVE PendingKept
  BY <1>1, <1>3, <1>7, <1>10 DEF Administrate, RevokeBegin, RevokeFails
<1>11. ASSUME NEW q \in Requests, Serve(q) PROVE PendingKept
  BY <1>1, <1>8, <1>11 DEF Serve, AuthSelect, AuthTouch, ConfirmNothing
<1>12. \/ UNCHANGED enr \/ Issue
       \/ \E a \in Admins : Administrate(a)
       \/ \E q \in Requests : Serve(q)
  BY DEF Next, vars, AgentArrive, RequestFails, Crash, Tick, SetClockBack
<1> QED
  BY <1>1, <1>9, <1>10, <1>11, <1>12

\* Whichever sweep, exchange or revocation comes first, a token that is still good
\* is not swept, one that is due is not exchanged, and no deadline moves, for any
\* lifetimes, any number of administrators and a clock that is set back.
THEOREM TokensEndInTime == Spec => TokensEndOnTime
<1>1. EnrollmentInv /\ [Next]_vars =>
         [\A e \in Enrollments : enr[e].status = "pending" =>
             /\ enr'[e].expiresAt = enr[e].expiresAt
             /\ enr'[e].status = "expired" => enr[e].expiresAt <= now
             /\ enr'[e].status = "issued" => now < enr[e].expiresAt
             /\ enr'[e].status = "revoked" => \E a \in Admins : adm[a] = e /\ adm'[a] = NULL
             /\ enr'[e].status # "completed"]_vars
  BY PendingStep DEF PendingKept
<1> QED
  BY <1>1, EnrollmentInvariant, PTL DEF Spec, TokensEndOnTime

-----------------------------------------------------------------------------
(* The lifecycle.  Of the tables it sees the statuses, devices and links of  *)
(* enrollments and the statuses and devices of identities.                   *)

Void == In("revoked") \cup In("expired")
Dismissed == {i \in Identities : ids[i].status = "revoked"}
ProvenIdentities == {i \in Identities : ids[i].used}
Enrolled == Linked(In("completed"))

\* The view of enrollments, by membership.
LEMMA Views ==
    /\ \A d \in Devices, e \in Enrollments :
          e \in lifeOffered[d] <=> enr[e].device = d /\ enr[e].status = "pending"
    /\ \A d \in Devices : \A c :
          c \in lifeClaimed[d] <=>
             \E e \in Enrollments :
                enr[e].device = d /\ enr[e].status = "issued" /\ c = <<e, enr[e].identity>>
    /\ \A c : c \in Enrolled <=>
                 \E e \in Enrollments :
                    enr[e].status = "completed" /\ c = <<e, enr[e].identity>>
    /\ \A e \in Enrollments : e \in Void <=> enr[e].status \in {"revoked", "expired"}
  BY DEF lifeOffered, lifeClaimed, Enrolled, Void, Linked, In, Of

LEMMA SameIdentities ==
    ASSUME UNCHANGED ids
    PROVE  lifeAccepted' = lifeAccepted /\ Dismissed' = Dismissed /\ ProvenIdentities' = ProvenIdentities
  BY DEF lifeAccepted, Dismissed, ProvenIdentities, ActiveIdentities

LEMMA SameEnrollments ==
    ASSUME UNCHANGED enr
    PROVE  /\ lifeOffered' = lifeOffered /\ lifeClaimed' = lifeClaimed
           /\ Void' = Void /\ Enrolled' = Enrolled
  BY DEF lifeOffered, lifeClaimed, Void, Enrolled, Linked, In, Of

\* Enrollments that are issued, or completed, before and after.
LEMMA SameClaimed ==
    ASSUME \A e \in Enrollments :
              /\ enr[e].status = "issued" \/ enr'[e].status = "issued" => enr'[e] = enr[e]
    PROVE  lifeClaimed' = lifeClaimed
<1>1. ASSUME NEW d \in Devices
      PROVE  Linked(Of(d) \cap In("issued"))' = Linked(Of(d) \cap In("issued"))
  BY DEF Linked, Of, In
<1> QED
  BY <1>1 DEF lifeClaimed

LEMMA SameEnrolled ==
    ASSUME \A e \in Enrollments :
              enr[e].status = "completed" \/ enr'[e].status = "completed" => enr'[e] = enr[e]
    PROVE  Enrolled' = Enrolled
  BY DEF Enrolled, Linked, In

LEMMA ClosingIsWithdraw ==
    ASSUME TablesInv, Closing(enr'), UNCHANGED ids
    PROVE  \E D \in SUBSET Devices : Lifecycle!Withdraw(D)
<1> DEFINE closed == {e \in Enrollments : enr[e].status = "pending" /\ enr'[e].status # "pending"}
           D == {enr[e].device : e \in closed}
<1>1. /\ \A e \in Enrollments :
            \/ enr'[e] = enr[e]
            \/ /\ enr[e].status = "pending" /\ enr'[e].status \in {"expired", "revoked"}
               /\ enr'[e].device = enr[e].device /\ enr'[e].identity = enr[e].identity
      /\ \A e \in closed : enr[e].device \in Devices
  BY DEF Closing, TablesInv, RowsOwned
<1>2. D \in SUBSET Devices
  BY <1>1
<1>3. lifeClaimed' = lifeClaimed /\ Enrolled' = Enrolled
  BY <1>1, SameClaimed, SameEnrolled
<1>4. ASSUME NEW d \in Devices
      PROVE  Of(d)' \cap In("pending")' = IF d \in D THEN {} ELSE lifeOffered[d]
  <2>1. CASE d \in D
    <3>1. PICK e \in closed : enr[e].device = d
      BY <2>1
    <3>2. \A f \in Enrollments : enr[f].device = d /\ enr[f].status = "pending" => f = e
      BY <3>1 DEF TablesInv, OneOpen, openStatuses
    <3> QED
      BY <1>1, <2>1, <3>1, <3>2 DEF Of, In
  <2>2. CASE d \notin D
    BY <1>1, <2>2 DEF Of, In, lifeOffered
  <2> QED
    BY <2>1, <2>2
<1>5. lifeOffered' = [d \in Devices |-> IF d \in D THEN {} ELSE lifeOffered[d]]
  <2> HIDE DEF D
  <2> QED
    BY <1>4 DEF lifeOffered
<1>6. Void' = Void \cup UNION {lifeOffered[d] : d \in D}
  <2>1. \A e \in Enrollments : e \in UNION {lifeOffered[d] : d \in D} <=> e \in closed
    <3>1. ASSUME NEW e \in closed PROVE e \in UNION {lifeOffered[d] : d \in D}
      BY <1>1 DEF lifeOffered, Of, In
    <3>2. ASSUME NEW e \in Enrollments, NEW d \in D, e \in lifeOffered[d] PROVE e \in closed
      <4>1. PICK f \in closed : enr[f].device = d
        BY <3>2
      <4>2. d \in Devices /\ enr[e].device = d /\ enr[e].status = "pending"
        BY <1>2, <3>2 DEF lifeOffered, Of, In
      <4> QED
        BY <4>1, <4>2 DEF TablesInv, OneOpen, openStatuses
    <3> QED
      BY <3>1, <3>2
  <2>2. \A e \in Enrollments : e \in Void' <=> e \in Void \/ e \in closed
    BY <1>1 DEF Void, In
  <2>3. Void \subseteq Enrollments /\ Void' \subseteq Enrollments
        /\ UNION {lifeOffered[d] : d \in D} \subseteq Enrollments
    BY <1>2 DEF Void, In, lifeOffered, Of
  <2> HIDE DEF D, closed
  <2> QED
    BY <2>1, <2>2, <2>3
<1> QED
  BY <1>2, <1>3, <1>5, <1>6, SameIdentities
     DEF Lifecycle!Withdraw, Void, Enrolled, Dismissed, ProvenIdentities

LEMMA CreateIsOffer ==
    ASSUME TablesInv, now \in Nat, NEW d \in Devices, NEW e \in Enrollments, NEW ttl \in TTLs,
           Create(d, e, ttl)
    PROVE  Lifecycle!Offer(d, e)
<1> DEFINE swept == expirePending({d})
           row == [device |-> d, status |-> "pending", expiresAt |-> now + ttl, identity |-> NULL]
<1>1. Closing(swept)
  BY SweepCloses
<1>2. /\ swept \in [Enrollments -> EnrollmentRow] /\ swept[e] = enr[e]
      /\ enr' = [swept EXCEPT ![e] = row] /\ enr[e].status = "none"
      /\ OpenEnrollments(d, swept) = {} /\ ActiveIdentities(d) = {} /\ UNCHANGED ids
  BY <1>1 DEF Create, Closing
<1>3. row.status = "pending" /\ row.device = d
  OBVIOUS
<1>4. \A f \in Enrollments \ {e} : enr[f].device # d => swept[f] = enr[f]
  BY DEF expirePending
<1> HIDE DEF swept, row
<1>5. /\ enr'[e] = row
      /\ \A f \in Enrollments \ {e} :
            /\ enr'[f] = swept[f]
            /\ \/ swept[f] = enr[f]
               \/ /\ enr[f].status = "pending" /\ swept[f].status \in {"expired", "revoked"}
                  /\ swept[f].device = enr[f].device
            /\ ~ (swept[f].device = d /\ swept[f].status \in {"pending", "issued"})
  BY <1>1, <1>2 DEF Closing, OpenEnrollments, openStatuses
<1>6. lifeClaimed' = lifeClaimed /\ Enrolled' = Enrolled
  BY <1>2, <1>3, <1>5, SameClaimed, SameEnrolled
<1>7. lifeClaimed[d] = {} /\ lifeAccepted[d] = {}
  <2>1. \A f \in Enrollments : ~ (enr[f].device = d /\ enr[f].status = "issued")
    BY <1>2, <1>5
  <2> QED
    BY <1>2, <2>1 DEF lifeClaimed, lifeAccepted, Linked, Of, In
<1>8. Lifecycle!NewToken(e)
  BY <1>2 DEF Lifecycle!NewToken, lifeOffered, lifeClaimed, Linked, Of, In
<1>9. lifeOffered' = [lifeOffered EXCEPT ![d] = {e}]
  <2>1. ASSUME NEW x \in Devices
        PROVE  Of(x)' \cap In("pending")' = IF x = d THEN {e} ELSE Of(x) \cap In("pending")
    <3>1. e \in Of(x)' \cap In("pending")' <=> x = d
      BY <1>3, <1>5 DEF Of, In
    <3>2. e \notin Of(x) \cap In("pending")
      BY <1>2 DEF Of, In
    <3>3. ASSUME NEW f \in Enrollments \ {e}
          PROVE  f \in Of(x)' \cap In("pending")'
                   <=> x # d /\ f \in Of(x) \cap In("pending")
      <4>1. f \in Of(x)' \cap In("pending")' <=> swept[f].device = x /\ swept[f].status = "pending"
        BY <1>5 DEF Of, In
      <4>2. f \in Of(x) \cap In("pending") <=> enr[f].device = x /\ enr[f].status = "pending"
        BY DEF Of, In
      <4> QED
        BY <1>4, <1>5, <4>1, <4>2
    <3> QED
      BY <3>1, <3>2, <3>3 DEF Of, In
  <2> QED
    BY <2>1 DEF lifeOffered
<1>10. Void' = Void \cup lifeOffered[d]
  BY <1>2, <1>3, <1>4, <1>5 DEF Void, lifeOffered, Of, In
<1> QED
  BY <1>2, <1>6, <1>7, <1>8, <1>9, <1>10, SameIdentities
     DEF Lifecycle!Offer, Void, Enrolled, Dismissed, ProvenIdentities

UsedWereIssued == \A i \in Identities : ids[i].used => ids[i].status # "none"

\* A new identity, as the lifecycle sees it.
LEMMA IssuedView ==
    ASSUME TablesInv, UsedWereIssued, NEW d \in Devices, NEW i \in Identities,
           Issuable(d, i), ids' = issued(d, i)
    PROVE  /\ lifeAccepted[d] = {} /\ Lifecycle!NewIdentity(i)
           /\ lifeAccepted' = [lifeAccepted EXCEPT ![d] = {i}]
           /\ Dismissed' = Dismissed /\ ProvenIdentities' = ProvenIdentities
<1>1. /\ ids'[i].device = d /\ ids'[i].status = "active" /\ ~ ids'[i].used
      /\ \A j \in Identities \ {i} : ids'[j] = ids[j]
      /\ ids[i].status = "none" /\ ActiveIdentities(d) = {}
  BY IssuedRows DEF Issuable
<1>2. ~ ids[i].used
  BY <1>1 DEF UsedWereIssued
<1>3. \A x \in Devices : ActiveIdentities(x)' = IF x = d THEN {i} ELSE ActiveIdentities(x)
  BY <1>1 DEF ActiveIdentities
<1>4. lifeAccepted' = [lifeAccepted EXCEPT ![d] = {i}]
  BY <1>3 DEF lifeAccepted
<1>5. Lifecycle!NewIdentity(i)
  BY <1>1 DEF Lifecycle!NewIdentity, lifeAccepted, ActiveIdentities
<1> QED
  BY <1>1, <1>2, <1>4, <1>5 DEF lifeAccepted, Dismissed, ProvenIdentities

LEMMA IssueIsInstall ==
    ASSUME TablesInv, UsedWereIssued, NEW d \in Devices, NEW i \in Identities,
           IssueCredential(d, i)
    PROVE  Lifecycle!Install(d, i)
<1>1. Issuable(d, i) /\ ids' = issued(d, i) /\ UNCHANGED enr
  BY DEF IssueCredential
<1> QED
  BY <1>1, IssuedView, SameEnrollments
     DEF Lifecycle!Install, Void, Enrolled, Dismissed, ProvenIdentities

LEMMA ClaimIsExchange ==
    ASSUME TablesInv, UsedWereIssued, NEW e \in Enrollments, NEW i \in Identities, Claim(e, i)
    PROVE  \E d \in Devices : Lifecycle!Exchange(d, e, i)
<1>1. /\ Issuable(enr[e].device, i) /\ ids' = issued(enr[e].device, i)
      /\ enr[e].status = "pending" /\ enr[e].device \in Devices
      /\ enr' = [enr EXCEPT ![e].status = "issued", ![e].identity = i]
  BY DEF Claim, Exchangeable, TablesInv, RowsOwned
<1>2. PICK d \in Devices : d = enr[e].device
  BY <1>1
<1>3. /\ enr'[e].status = "issued" /\ enr'[e].identity = i /\ enr'[e].device = d
      /\ \A f \in Enrollments \ {e} : enr'[f] = enr[f]
  BY <1>1, <1>2 DEF TablesInv, TablesTyped, EnrollmentRow
<1>4. \A f \in Enrollments \ {e} : ~ (enr[f].device = d /\ enr[f].status \in openStatuses)
  BY <1>1, <1>2 DEF TablesInv, OneOpen, openStatuses
<1>5. e \in lifeOffered[d] /\ lifeOffered' = [lifeOffered EXCEPT ![d] = {}]
  <2>1. ASSUME NEW x \in Devices
        PROVE  Of(x)' \cap In("pending")' = IF x = d THEN {} ELSE Of(x) \cap In("pending")
    <3>1. e \notin Of(x)' \cap In("pending")' /\ (x # d => e \notin Of(x) \cap In("pending"))
      BY <1>2, <1>3 DEF Of, In
    <3>2. ASSUME NEW f \in Enrollments \ {e}
          PROVE  f \in Of(x)' \cap In("pending")'
                   <=> x # d /\ f \in Of(x) \cap In("pending")
      BY <1>3, <1>4 DEF Of, In, openStatuses
    <3> QED
      BY <3>1, <3>2 DEF Of, In
  <2> QED
    BY <1>1, <1>2, <2>1 DEF lifeOffered, Of, In
<1>6. lifeClaimed' = [lifeClaimed EXCEPT ![d] = {<<e, i>>}]
  <2>1. ASSUME NEW x \in Devices, x # d
        PROVE  Linked(Of(x) \cap In("issued"))' = Linked(Of(x) \cap In("issued"))
    <3>1. \A f \in Enrollments :
             /\ f \in (Of(x) \cap In("issued"))' <=> f \in Of(x) \cap In("issued")
             /\ f \in Of(x) \cap In("issued") => enr'[f] = enr[f]
      BY <1>1, <1>2, <1>3, <2>1 DEF Of, In
    <3> QED
      BY <3>1 DEF Linked, Of, In
  <2>2. Linked(Of(d) \cap In("issued"))' = {<<e, i>>}
    <3>1. (Of(d) \cap In("issued"))' = {e}
      BY <1>3, <1>4 DEF Of, In, openStatuses
    <3> QED
      BY <1>3, <3>1 DEF Linked
  <2> QED
    BY <2>1, <2>2 DEF lifeClaimed
<1>7. Void' = Void
  BY <1>1, <1>3 DEF Void, In
<1>8. Enrolled' = Enrolled
  BY <1>1, <1>3, SameEnrolled
<1> QED
  BY <1>1, <1>2, <1>5, <1>6, <1>7, <1>8, IssuedView
     DEF Lifecycle!Exchange, Void, Enrolled, Dismissed, ProvenIdentities

\* An identity of a device is revoked.
LEMMA RevokedView ==
    ASSUME TablesInv, NEW i \in Identities, ids' = [ids EXCEPT ![i].status = "revoked"]
    PROVE  /\ \A x \in Devices :
                 lifeAccepted'[x] = IF x = ids[i].device THEN lifeAccepted[x] \ {i}
                                    ELSE lifeAccepted[x]
           /\ Dismissed' = Dismissed \cup {i} /\ ProvenIdentities' = ProvenIdentities
<1>1. /\ ids'[i].device = ids[i].device /\ ids'[i].status = "revoked"
      /\ ids'[i].used = ids[i].used
      /\ \A j \in Identities \ {i} : ids'[j] = ids[j]
  BY DEF TablesInv, TablesTyped, IdentityRow
<1>2. ASSUME NEW x \in Devices
      PROVE  ActiveIdentities(x)' = IF x = ids[i].device THEN ActiveIdentities(x) \ {i}
                                    ELSE ActiveIdentities(x)
  BY <1>1 DEF ActiveIdentities
<1> QED
  BY <1>1, <1>2 DEF lifeAccepted, Dismissed, ProvenIdentities

LEMMA RevokeIsDismiss ==
    ASSUME TablesInv, NEW i \in Identities, RevokeCredential(i)
    PROVE  \E d \in Devices : Lifecycle!Dismiss(d, i)
<1>1. /\ ids[i].status = "active" /\ ids' = [ids EXCEPT ![i].status = "revoked"]
      /\ UNCHANGED enr /\ ids[i].device \in Devices
  BY DEF RevokeCredential, TablesInv, RowsOwned
<1>2. PICK d \in Devices : d = ids[i].device
  BY <1>1
<1>3. lifeAccepted[d] = {i}
  BY <1>1, <1>2 DEF lifeAccepted, ActiveIdentities, TablesInv, OneActive
<1>4. lifeAccepted' = [lifeAccepted EXCEPT ![d] = {}]
  BY <1>1, <1>2, <1>3, RevokedView DEF lifeAccepted
<1> QED
  BY <1>1, <1>2, <1>3, <1>4, RevokedView, SameEnrollments
     DEF Lifecycle!Dismiss, Void, Enrolled, Dismissed, ProvenIdentities

\* One issued enrollment ends, in whatever way.
LEMMA EndedView ==
    ASSUME TablesInv, NEW e \in Enrollments, enr[e].status = "issued",
           NEW s \in {"revoked", "completed"}, enr' = [enr EXCEPT ![e].status = s]
    PROVE  \E d \in Devices :
              /\ d = enr[e].device /\ enr[e].identity \in Identities
              /\ <<e, enr[e].identity>> \in lifeClaimed[d]
              /\ lifeClaimed' = [lifeClaimed EXCEPT ![d] = {}]
              /\ lifeOffered' = lifeOffered
              /\ Void' = IF s = "revoked" THEN Void \cup {e} ELSE Void
              /\ Enrolled' = IF s = "completed" THEN Enrolled \cup {<<e, enr[e].identity>>}
                             ELSE Enrolled
<1>1. PICK d \in Devices : d = enr[e].device
  BY DEF TablesInv, RowsOwned
<1>2. /\ enr'[e].status = s /\ enr'[e].device = d /\ enr'[e].identity = enr[e].identity
      /\ \A f \in Enrollments \ {e} : enr'[f] = enr[f]
      /\ enr[e].identity \in Identities
  BY <1>1 DEF TablesInv, TablesTyped, EnrollmentRow, LinksAgree
<1>3. \A f \in Enrollments \ {e} : ~ (enr[f].device = d /\ enr[f].status = "issued")
  BY <1>1 DEF TablesInv, OneOpen, openStatuses
<1>4. <<e, enr[e].identity>> \in lifeClaimed[d]
  BY <1>1, Views
<1>5. lifeClaimed' = [lifeClaimed EXCEPT ![d] = {}]
  <2>1. ASSUME NEW x \in Devices, x # d
        PROVE  Linked(Of(x) \cap In("issued"))' = Linked(Of(x) \cap In("issued"))
    <3>1. \A f \in Enrollments :
             /\ f \in (Of(x) \cap In("issued"))' <=> f \in Of(x) \cap In("issued")
             /\ f \in Of(x) \cap In("issued") => enr'[f] = enr[f]
      BY <1>1, <1>2, <2>1 DEF Of, In
    <3> QED
      BY <3>1 DEF Linked, Of, In
  <2>2. (Of(d) \cap In("issued"))' = {}
    BY <1>2, <1>3 DEF Of, In
  <2>3. Linked(Of(d) \cap In("issued"))' = {}
    BY <2>2 DEF Linked
  <2> QED
    BY <2>1, <2>3 DEF lifeClaimed
<1>6. lifeOffered' = lifeOffered
  <2>1. ASSUME NEW x \in Devices
        PROVE  Of(x)' \cap In("pending")' = Of(x) \cap In("pending")
    BY <1>1, <1>2 DEF Of, In
  <2> QED
    BY <2>1 DEF lifeOffered
<1>7. Void' = IF s = "revoked" THEN Void \cup {e} ELSE Void
  BY <1>1, <1>2 DEF Void, In
<1>8. Enrolled' = IF s = "completed" THEN Enrolled \cup {<<e, enr[e].identity>>} ELSE Enrolled
  <2>1. \A f \in Enrollments :
           f \in In("completed")' <=> f \in In("completed") \/ (f = e /\ s = "completed")
    BY <1>2 DEF In
  <2>2. \A f \in Enrollments : enr'[f].identity = enr[f].identity
    BY <1>2
  <2> QED
    BY <2>1, <2>2 DEF Enrolled, Linked, In
<1> QED
  BY <1>1, <1>2, <1>4, <1>5, <1>6, <1>7, <1>8

LEMMA RevokeIsCancel ==
    ASSUME TablesInv, NEW e \in Enrollments, enr[e].status = "issued",
           ids[enr[e].identity].device = enr[e].device,
           enr' = [enr EXCEPT ![e].status = "revoked"],
           ids' = [ids EXCEPT ![enr[e].identity].status = "revoked"]
    PROVE  \E d \in Devices : \E c \in lifeClaimed[d] : Lifecycle!Cancel(d, c)
<1> DEFINE c == <<e, enr[e].identity>>
<1>1. PICK d \in Devices :
        /\ d = enr[e].device /\ enr[e].identity \in Identities /\ c \in lifeClaimed[d]
        /\ lifeClaimed' = [lifeClaimed EXCEPT ![d] = {}] /\ lifeOffered' = lifeOffered
        /\ Void' = Void \cup {e} /\ Enrolled' = Enrolled
  BY EndedView
<1>0. c[1] = e /\ c[2] = enr[e].identity
  OBVIOUS
<1> HIDE DEF c
<1>2. /\ \A x \in Devices :
            lifeAccepted'[x] = IF x = d THEN lifeAccepted[x] \ {c[2]} ELSE lifeAccepted[x]
      /\ Dismissed' = Dismissed \cup {c[2]} /\ ProvenIdentities' = ProvenIdentities
  <2>1. PICK i \in Identities : i = enr[e].identity
    BY <1>1
  <2>2. ids' = [ids EXCEPT ![i].status = "revoked"] /\ ids[i].device = d
    BY <1>1, <2>1
  <2>3. /\ \A x \in Devices :
              lifeAccepted'[x] = IF x = ids[i].device THEN lifeAccepted[x] \ {i} ELSE lifeAccepted[x]
        /\ Dismissed' = Dismissed \cup {i} /\ ProvenIdentities' = ProvenIdentities
    BY <2>2, RevokedView
  <2> QED
    BY <1>0, <2>1, <2>2, <2>3
<1>3. lifeAccepted' = [lifeAccepted EXCEPT ![d] = lifeAccepted[d] \ {c[2]}]
  BY <1>1, <1>2 DEF lifeAccepted
<1> QED
  BY <1>0, <1>1, <1>2, <1>3 DEF Lifecycle!Cancel, Void, Enrolled, Dismissed, ProvenIdentities

\* The second transaction of Revoke.
LEMMA RevokeView ==
    ASSUME TablesInv, NEW a \in Admins, adm[a] \in Enrollments \cup {NULL}, RevokeEnrollment(a),
           ~ UNCHANGED <<enr, ids>>
    PROVE  Lifecycle!LifecycleNext
<1> DEFINE e == adm[a]
<1>1. e \in Enrollments
  BY DEF RevokeEnrollment
<1> HIDE DEF e
<1>2. CASE /\ enr[e].status = "pending" /\ enr' = [enr EXCEPT ![e].status = "revoked"]
           /\ UNCHANGED ids
  BY <1>1, <1>2, CloseOne, ClosingIsWithdraw DEF Lifecycle!LifecycleNext
<1>3. CASE /\ enr[e].status = "issued" /\ ids[enr[e].identity].device = enr[e].device
           /\ enr' = [enr EXCEPT ![e].status = "revoked"]
           /\ ids' = [ids EXCEPT ![enr[e].identity].status = "revoked"]
  BY <1>1, <1>3, RevokeIsCancel DEF Lifecycle!LifecycleNext
<1> QED
  BY <1>2, <1>3 DEF RevokeEnrollment, e

\* A confirmation completes an issued enrollment or repeats what was confirmed.
LEMMA ConfirmView ==
    ASSUME TablesInv, RequestsInv, NEW q \in Requests, NEW e \in Enrollments, Confirm(q, e),
           ~ UNCHANGED <<enr, ids>>
    PROVE  Lifecycle!LifecycleNext
<1>1. /\ enr[e].status \in {"issued", "completed"} /\ enr[e].identity = req[q].identity
      /\ enr' = [enr EXCEPT ![e].status = "completed"] /\ UNCHANGED ids
      /\ ids[req[q].identity].used
  BY DEF Confirm, Confirms, RequestsInv
<1>2. enr[e].status = "issued"
  <2>1. enr[e].status = "completed" => enr' = enr
    BY <1>1 DEF TablesInv, TablesTyped, EnrollmentRow
  <2> QED
    BY <1>1, <2>1
<1> DEFINE c == <<e, enr[e].identity>>
<1>3. PICK d \in Devices :
        /\ enr[e].identity \in Identities /\ c \in lifeClaimed[d]
        /\ lifeClaimed' = [lifeClaimed EXCEPT ![d] = {}] /\ lifeOffered' = lifeOffered
        /\ Void' = Void /\ Enrolled' = Enrolled \cup {c}
  BY <1>1, <1>2, EndedView
<1>4. c[2] \in ProvenIdentities
  BY <1>1, <1>3 DEF ProvenIdentities
<1> HIDE DEF c
<1>5. Lifecycle!Confirm(d, c)
  BY <1>1, <1>3, <1>4, SameIdentities
     DEF Lifecycle!Confirm, Void, Enrolled, Dismissed, ProvenIdentities
<1> QED
  BY <1>3, <1>5 DEF Lifecycle!LifecycleNext

\* An identity in the hands of a request was issued: its device's, or revoked since.
LEMMA TouchIsProve ==
    ASSUME TablesInv, RequestsInv, NEW q \in Requests, AuthTouch(q)
    PROVE  \E i \in Identities : Lifecycle!Prove(i)
<1>1. PICK i \in Identities :
        /\ i = req[q].identity /\ ids[i].status # "none"
        /\ ids' = [ids EXCEPT ![i].used = TRUE] /\ UNCHANGED enr
  BY DEF AuthTouch, RequestsInv, TablesInv, TablesTyped, RowsOwned
<1>2. ids[i].status \in {"active", "revoked"} /\ ids[i].device \in Devices
  BY <1>1 DEF TablesInv, TablesTyped, RowsOwned, IdentityRow, IdentityStatuses
<1>3. \/ \E d \in Devices : i \in lifeAccepted[d]
      \/ i \in Dismissed
  BY <1>2 DEF lifeAccepted, ActiveIdentities, Dismissed
<1>4. /\ \A j \in Identities : ids'[j].device = ids[j].device /\ ids'[j].status = ids[j].status
      /\ \A j \in Identities : ids'[j].used <=> ids[j].used \/ j = i
  BY <1>1 DEF TablesInv, TablesTyped, IdentityRow
<1>5. lifeAccepted' = lifeAccepted /\ Dismissed' = Dismissed /\ ProvenIdentities' = ProvenIdentities \cup {i}
  BY <1>4 DEF lifeAccepted, ActiveIdentities, Dismissed, ProvenIdentities
<1> QED
  BY <1>1, <1>3, <1>5, SameEnrollments
     DEF Lifecycle!Prove, Void, Enrolled, Dismissed, ProvenIdentities

LifeInv == EnrollmentInv /\ UsedWereIssued

LEMMA UsedStep == EnrollmentInv /\ UsedWereIssued /\ [Next]_vars => UsedWereIssued'
<1> SUFFICES ASSUME EnrollmentInv, UsedWereIssued, [Next]_vars PROVE UsedWereIssued'
  OBVIOUS
<1>0. /\ ids \in [Identities -> IdentityRow]
      /\ \A i \in held : i \in Identities /\ ids[i].status # "none"
  BY DEF EnrollmentInv, TablesInv, TablesTyped, RowsOwned
<1>1. ASSUME NEW d, NEW i \in Identities, ids' = issued(d, i) PROVE UsedWereIssued'
  BY <1>0, <1>1 DEF UsedWereIssued, issued
<1>2. ASSUME NEW i, ids' = [ids EXCEPT ![i].status = "revoked"] PROVE UsedWereIssued'
  BY <1>0, <1>2 DEF UsedWereIssued, IdentityRow
<1>3. ASSUME NEW q \in Requests, AuthTouch(q) PROVE UsedWereIssued'
  <2>1. req[q].identity \in held /\ ids' = [ids EXCEPT ![req[q].identity].used = TRUE]
    BY <1>3 DEF AuthTouch, EnrollmentInv, RequestsInv
  <2> QED
    BY <1>0, <2>1 DEF UsedWereIssued, IdentityRow
<1>4. CASE UNCHANGED ids
  BY <1>4 DEF UsedWereIssued
<1>5. Issue => UsedWereIssued'
  BY <1>1, <1>2, <1>4 DEF Issue, Create, reconcileExpired, IssueCredential, RevokeCredential,
                          Exchange, ExchangeAnswerLost, ExchangeTooLate, Claim
<1>6. ASSUME NEW a \in Admins, Administrate(a) PROVE UsedWereIssued'
  BY <1>2, <1>4, <1>6 DEF Administrate, RevokeBegin, RevokeEnrollment, RevokeFails
<1>7. ASSUME NEW q \in Requests, Serve(q) PROVE UsedWereIssued'
  BY <1>3, <1>4, <1>7 DEF Serve, AuthSelect, Confirm, ConfirmNothing
<1>8. \/ UNCHANGED ids \/ Issue
      \/ \E a \in Admins : Administrate(a)
      \/ \E q \in Requests : Serve(q)
  BY DEF Next, vars, AgentArrive, RequestFails, Crash, Tick, SetClockBack
<1> QED
  BY <1>4, <1>5, <1>6, <1>7, <1>8

LEMMA StepIsLifecycle ==
    LifeInv /\ [Next]_vars => [Lifecycle!LifecycleNext]_(Lifecycle!lifeVars)
<1> SUFFICES ASSUME LifeInv, [Next]_vars
             PROVE  [Lifecycle!LifecycleNext]_(Lifecycle!lifeVars)
  OBVIOUS
<1>0. TablesInv /\ RequestsInv /\ UsedWereIssued /\ now \in Nat
      /\ \A a \in Admins : adm[a] \in Enrollments \cup {NULL}
  BY DEF LifeInv, EnrollmentInv, ProcessesTyped
<1>1. CASE UNCHANGED <<enr, ids>>
  BY <1>1, SameIdentities, SameEnrollments
     DEF Lifecycle!lifeVars, Void, Enrolled, Dismissed, ProvenIdentities
<1>2. ASSUME UNCHANGED ids, Closing(enr') PROVE Lifecycle!LifecycleNext
  BY <1>0, <1>2, ClosingIsWithdraw DEF Lifecycle!LifecycleNext
<1>3. Issue => Lifecycle!LifecycleNext
  <2>1. ASSUME NEW d \in Devices, NEW e \in Enrollments, NEW ttl \in TTLs, Create(d, e, ttl)
        PROVE  Lifecycle!LifecycleNext
    BY <1>0, <2>1, CreateIsOffer DEF Lifecycle!LifecycleNext
  <2>2. ASSUME NEW D, reconcileExpired(D) PROVE Lifecycle!LifecycleNext
    BY <1>0, <1>2, <2>2, SweepCloses DEF reconcileExpired
  <2>3. ASSUME NEW d \in Devices, NEW i \in Identities, IssueCredential(d, i)
        PROVE  Lifecycle!LifecycleNext
    BY <1>0, <2>3, IssueIsInstall DEF Lifecycle!LifecycleNext
  <2>4. ASSUME NEW i \in Identities, RevokeCredential(i) PROVE Lifecycle!LifecycleNext
    BY <1>0, <2>4, RevokeIsDismiss DEF Lifecycle!LifecycleNext
  <2>5. ASSUME NEW e \in Enrollments, NEW i \in Identities, Claim(e, i)
        PROVE  Lifecycle!LifecycleNext
    BY <1>0, <2>5, ClaimIsExchange DEF Lifecycle!LifecycleNext
  <2>6. ASSUME NEW e \in Enrollments, ExchangeTooLate(e) PROVE Lifecycle!LifecycleNext
    BY <1>0, <1>2, <2>6, CloseOne DEF ExchangeTooLate
  <2> QED
    BY <2>1, <2>2, <2>3, <2>4, <2>5, <2>6 DEF Issue, Exchange, ExchangeAnswerLost
<1>4. ASSUME NEW a \in Admins, Administrate(a), ~ UNCHANGED <<enr, ids>>
      PROVE  Lifecycle!LifecycleNext
  <2>1. ASSUME NEW e \in Enrollments, RevokeBegin(a, e) PROVE Lifecycle!LifecycleNext
    BY <1>0, <1>2, <2>1, SweepCloses DEF RevokeBegin
  <2>2. CASE RevokeEnrollment(a)
    BY <1>0, <1>4, <2>2, RevokeView
  <2> QED
    BY <1>4, <2>1, <2>2 DEF Administrate, RevokeFails
<1>5. ASSUME NEW q \in Requests, Serve(q), ~ UNCHANGED <<enr, ids>>
      PROVE  Lifecycle!LifecycleNext
  <2>1. ASSUME NEW e \in Enrollments, Confirm(q, e) PROVE Lifecycle!LifecycleNext
    BY <1>0, <1>5, <2>1, ConfirmView
  <2>2. CASE AuthTouch(q)
    BY <1>0, <2>2, TouchIsProve DEF Lifecycle!LifecycleNext
  <2> QED
    BY <1>5, <2>1, <2>2 DEF Serve, AuthSelect, ConfirmNothing
<1>6. \/ UNCHANGED <<enr, ids>> \/ Issue
      \/ \E a \in Admins : Administrate(a)
      \/ \E q \in Requests : Serve(q)
  BY DEF Next, vars, AgentArrive, RequestFails, Crash, Tick, SetClockBack
<1> QED
  BY <1>1, <1>3, <1>4, <1>5, <1>6

\* Every handler, sweep and transaction of the enrollment service is a step of the
\* documented lifecycle, or none: also a confirmation whose identity was revoked
\* while it was on its way, and a revocation between whose transactions others act.
THEOREM ServiceImplementsLifecycle == Spec => ImplementsLifecycle
<1>1. Init => Lifecycle!LifecycleInit
  <2> SUFFICES ASSUME Init PROVE Lifecycle!LifecycleInit
    OBVIOUS
  <2>1. /\ \A e \in Enrollments : enr[e].status = "none"
        /\ \A i \in Identities : ids[i].status = "none" /\ ids[i].used = FALSE
    BY DEF Init, NoEnrollment, NoIdentity
  <2>2. /\ In("pending") = {} /\ In("issued") = {} /\ In("completed") = {}
        /\ In("revoked") = {} /\ In("expired") = {}
    BY <2>1 DEF In
  <2>3. \A d \in Devices : Of(d) \cap In("pending") = {} /\ Linked(Of(d) \cap In("issued")) = {}
                           /\ ActiveIdentities(d) = {}
    BY <2>1, <2>2 DEF Linked, ActiveIdentities
  <2>4. Linked(In("completed")) = {}
    BY <2>2 DEF Linked
  <2>5. Dismissed = {} /\ ProvenIdentities = {}
    BY <2>1 DEF Dismissed, ProvenIdentities
  <2> QED
    BY <2>2, <2>3, <2>4, <2>5
       DEF Lifecycle!LifecycleInit, lifeOffered, lifeClaimed, lifeAccepted, Dismissed, ProvenIdentities
<1>2. Init => UsedWereIssued
  BY DEF Init, UsedWereIssued, NoIdentity
<1>3. EnrollmentInv /\ UsedWereIssued /\ [Next]_vars =>
        UsedWereIssued' /\ [Lifecycle!LifecycleNext]_(Lifecycle!lifeVars)
  BY UsedStep, StepIsLifecycle DEF LifeInv
<1> QED
  BY <1>1, <1>2, <1>3, EnrollmentInvariant, PTL
     DEF Spec, ImplementsLifecycle, Lifecycle!LifecycleSpec
=============================================================================
