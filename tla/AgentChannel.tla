------------------------------ MODULE AgentChannel ------------------------------
(***************************************************************************)
(* The way from an agent's identity to what is stored about its device:    *)
(* the middleware authenticateAgent (api/agent_routes.go) hands a request  *)
(* over to the handlers of heartbeats and network reports, which believe   *)
(* it.  AgentEnrollment says how identities come and go, AgentReports what *)
(* the handlers do; here they run together and share clock and crashes.    *)
(***************************************************************************)
EXTENDS AgentEnrollment, Integers, Sequences

CONSTANTS MaxCounter, Threshold, Interfaces, LANs, MaxReports, MaxBack, MaxAhead

VARIABLES
    snap, silent, ident, wanRows, lanRows, sent, back, ahead,    \* of AgentReports
    job         \* the device in the context of a request at its handler, or NULL

\* Reads change nothing and are left to AgentReports.
R == INSTANCE AgentReports WITH Readers <- {}, rd <- <<>>

reports == <<snap, silent, ident, wanRows, lanRows, sent, back, ahead>>
channelVars == <<vars, reports, job>>

ChannelInit == Init /\ R!Init /\ job = [q \in Requests |-> NULL]

AtHandler(q) == job[q] # NULL
Leave(q) == job' = [job EXCEPT ![q] = NULL]

\* Mutant: the handler takes the device from the request.
EnterAnyDevice(q) ==
    /\ AuthTouch(q) /\ ~ req[q].confirms
    /\ \E d \in Devices : job' = [job EXCEPT ![q] = d]
    /\ UNCHANGED reports

\* The last step of the middleware, for any request but a confirmation: the
\* context it passes on names the device of the identity.
Enter(q) ==
    /\ AuthTouch(q) /\ ~ req[q].confirms
    /\ job' = [job EXCEPT ![q] = ids[req[q].identity].device]
    /\ UNCHANGED reports

\* The handler stores the report,
Store(q) ==
    /\ AtHandler(q)
    /\ \/ \E in \in R!Inputs : R!Heartbeat(job[q], in)
       \/ \E r \in R!Reports : R!Report(job[q], r)
    /\ Leave(q) /\ UNCHANGED vars

\* or refuses it, fails, or has another route's work to do.
StoreNothing(q) ==
    /\ AtHandler(q)
    /\ Leave(q) /\ UNCHANGED <<vars, reports>>

\* Steps of AgentEnrollment beside the reports.
Arrive(q) ==
    /\ ~ AtHandler(q)
    /\ \E i \in Identities, confirms \in BOOLEAN : AgentArrive(q, i, confirms)

Authenticate(q) ==
    \/ AuthSelect(q)
    \/ AuthTouch(q) /\ req[q].confirms
    \/ \E e \in Enrollments : Confirm(q, e)
    \/ ConfirmNothing(q)

Enrolling ==
    /\ \/ Issue
       \/ \E a \in Admins : Administrate(a)
       \/ \E q \in Requests : Arrive(q) \/ Authenticate(q) \/ RequestFails(q)
    /\ UNCHANGED <<reports, job>>

\* A crash ends everything at a handler.
CrashAll ==
    /\ Crash
    /\ job' = [q \in Requests |-> NULL]
    /\ UNCHANGED reports

\* One clock, which goes on where that of AgentEnrollment stops at a bound.
Pass ==
    /\ R!Tick
    /\ Tick \/ (now = MaxTime /\ UNCHANGED vars)
    /\ UNCHANGED job

SetBack ==
    /\ R!SetClockBack
    /\ SetClockBack \/ (now = 0 /\ UNCHANGED vars)
    /\ UNCHANGED job

SetAhead ==
    /\ R!SetClockAhead
    /\ Tick \/ (now = MaxTime /\ UNCHANGED vars)
    /\ UNCHANGED job

Handle(q) == Enter(q) \/ Store(q) \/ StoreNothing(q)

ChannelNext == \/ Enrolling
               \/ \E q \in Requests : Handle(q)
               \/ CrashAll \/ Pass \/ SetBack \/ SetAhead

\* The clock runs and a request that is served gets its next step.  Agents may
\* report for ever; nothing makes them.
ChannelSpec ==
    /\ ChannelInit /\ [][ChannelNext]_channelVars
    /\ WF_channelVars(Pass)
    /\ \A q \in Requests :
          WF_channelVars((Authenticate(q) /\ UNCHANGED <<reports, job>>) \/ Handle(q))

-----------------------------------------------------------------------------
(* Properties. *)

Heard(d) == snap[d] # R!NoRow \/ ident[d] # 0
Online(d) == R!statusFrom(snap[d]) = "online"

\* docs/agent-heartbeat-telemetry, "Derive the Device exclusively from the
\* authenticated Agent identity": anything stored about a device came with an
\* identity of that very device, whose key an agent did receive and used, however
\* the identity was issued and whatever became of it since.
ReportsAreAuthenticated ==
    \A d \in Devices : Heard(d) =>
        \E i \in Identities : ids[i].device = d /\ ids[i].used /\ i \in held

\* docs/agent-heartbeat-telemetry: "Revoked/expired Agent identity credentials
\* therefore cannot heartbeat."  A request let in before the revocation still may;
\* but when a device has no active identity any more, it goes offline and stays
\* so, even if an agent that has the key keeps sending and the clock is corrected.
RevokedGoesOffline ==
    \A d \in Devices : <>[](ActiveIdentities(d) = {}) => <>[](~ Online(d))
=============================================================================
