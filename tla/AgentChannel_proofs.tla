-------------------------- MODULE AgentChannel_proofs --------------------------
(***************************************************************************)
(* Proofs about AgentChannel.  Every step of the composition is a step or  *)
(* a stutter of AgentEnrollment, so what AgentEnrollment_proofs knows of   *)
(* identities holds here; JobsInv adds what the middleware hands over.     *)
(***************************************************************************)
EXTENDS AgentChannel, AgentEnrollment_proofs

\* Somebody proved to be an agent of device d.
Proven(d) == \E i \in Identities : ids[i].device = d /\ ids[i].used /\ i \in held

StoresTyped ==
    /\ snap = [d \in Devices |-> snap[d]] /\ ident = [d \in Devices |-> ident[d]]
    /\ job \in [Requests -> Devices \cup {NULL}]

JobsInv == \A q \in Requests : AtHandler(q) => Proven(job[q])

ChannelInv == EnrollmentInv /\ StoresTyped /\ JobsInv /\ ReportsAreAuthenticated

LEMMA StepEnrolls == ChannelNext => [Next]_vars
  BY DEF ChannelNext, Enrolling, Arrive, Authenticate, Handle, Enter, Store, StoreNothing,
         CrashAll, Pass, SetBack, SetAhead, Next, Serve

LEMMA ProvenStays ==
    ASSUME EnrollmentInv, [Next]_vars, NEW d, Proven(d) PROVE Proven(d)'
<1>1. PICK i \in Identities : ids[i].device = d /\ ids[i].used /\ i \in held
  BY DEF Proven
<1>2. ids'[i].device = d /\ ids'[i].used /\ i \in held'
  BY <1>1, IdentitiesStep DEF IdentitiesKept
<1> QED
  BY <1>2 DEF Proven

\* Reports change the rows of one device; time changes none from unheard to heard.
LEMMA StoreStep ==
    ASSUME StoresTyped, NEW q \in Requests, Store(q)
    PROVE  /\ StoresTyped'
           /\ \A d \in Devices : Heard(d)' => Heard(d) \/ d = job[q]
<1>1. job' = [job EXCEPT ![q] = NULL] /\ job' \in [Requests -> Devices \cup {NULL}]
  BY DEF Store, Leave, StoresTyped
<1>2. ASSUME NEW in, R!Heartbeat(job[q], in)
      PROVE  /\ snap' = [d \in Devices |-> snap'[d]] /\ ident' = ident
             /\ \A d \in Devices : d # job[q] => snap'[d] = snap[d]
  BY <1>2 DEF R!Heartbeat, R!network, StoresTyped
<1>3. ASSUME NEW r, R!Report(job[q], r)
      PROVE  /\ ident' = [d \in Devices |-> ident'[d]] /\ snap' = snap
             /\ \A d \in Devices : d # job[q] => ident'[d] = ident[d]
  BY <1>3 DEF R!Report, R!telemetry, StoresTyped
<1> QED
  BY <1>1, <1>2, <1>3 DEF Store, StoresTyped, Heard

LEMMA TimeStep ==
    ASSUME StoresTyped, R!Tick \/ R!SetClockBack \/ R!SetClockAhead, UNCHANGED job
    PROVE  StoresTyped' /\ \A d \in Devices : Heard(d)' => Heard(d)
<1>1. ident' = ident
  BY DEF R!Tick, R!SetClockBack, R!SetClockAhead, R!network
<1>2. /\ snap' = [d \in Devices |-> snap'[d]]
      /\ \A d \in Devices : snap[d] = R!NoRow => snap'[d] = R!NoRow
  BY DEF R!Tick, R!SetClockBack, R!SetClockAhead, R!Shift, R!Aged
<1> QED
  BY <1>1, <1>2 DEF StoresTyped, Heard

\* Only the middleware puts a device at a handler, the identity's own, which it
\* has just marked as used.
LEMMA EnterStep ==
    ASSUME ChannelInv, NEW q \in Requests, Enter(q)
    PROVE  \E d \in Devices :
              job' = [job EXCEPT ![q] = d] /\ Proven(d)' /\ UNCHANGED reports
<1>1. PICK i \in held : i = req[q].identity /\ i \in Identities /\ ids[i].device \in Devices
  BY DEF ChannelInv, EnrollmentInv, RequestsInv, TablesInv, TablesTyped, RowsOwned, Enter, AuthTouch
<1>2. /\ job' = [job EXCEPT ![q] = ids[i].device] /\ held' = held /\ UNCHANGED reports
      /\ ids' = [ids EXCEPT ![i].used = TRUE]
  BY <1>1 DEF Enter, AuthTouch
<1>3. ids'[i].device = ids[i].device /\ ids'[i].used /\ i \in held'
  BY <1>1, <1>2 DEF ChannelInv, EnrollmentInv, TablesInv, TablesTyped, IdentityRow
<1>4. PICK d \in Devices : d = ids[i].device
  BY <1>1
<1>5. Proven(d)'
  BY <1>1, <1>3, <1>4 DEF Proven
<1> QED
  BY <1>2, <1>4, <1>5

LEMMA ChannelStep == ChannelInv /\ [ChannelNext]_channelVars => ChannelInv'
<1> SUFFICES ASSUME ChannelInv, [ChannelNext]_channelVars PROVE ChannelInv'
  OBVIOUS
<1>0. [Next]_vars /\ EnrollmentInv /\ StoresTyped /\ JobsInv
  BY StepEnrolls DEF ChannelInv, channelVars, vars
<1>1. EnrollmentInv'
  BY <1>0, NextEnrollment
<1>2. \A d : Proven(d) => Proven(d)'
  BY <1>0, ProvenStays
<1>3. \A d \in Devices : Heard(d) => Proven(d)
  BY DEF ChannelInv, ReportsAreAuthenticated, Proven
<1>4. ASSUME StoresTyped', \A d \in Devices : Heard(d)' => Proven(d)',
             \A q \in Requests : job'[q] # NULL => Proven(job[q]) /\ job'[q] = job[q]
      PROVE  ChannelInv'
  BY <1>1, <1>2, <1>4 DEF ChannelInv, JobsInv, AtHandler, ReportsAreAuthenticated, Proven
<1>5. CASE UNCHANGED <<reports, job>>
  BY <1>0, <1>2, <1>3, <1>4, <1>5 DEF reports, StoresTyped, Heard, JobsInv, AtHandler
<1>6. ASSUME NEW q \in Requests, Store(q) PROVE ChannelInv'
  <2>1. job' = [job EXCEPT ![q] = NULL] /\ Proven(job[q])
    BY <1>0, <1>6 DEF Store, Leave, JobsInv
  <2>2. \A d \in Devices : Heard(d)' => Proven(d)'
    BY <1>0, <1>2, <1>3, <1>6, <2>1, StoreStep
  <2> QED
    BY <1>0, <1>4, <1>6, <2>1, <2>2, StoreStep DEF StoresTyped, JobsInv, AtHandler
<1>7. ASSUME NEW q \in Requests, StoreNothing(q) PROVE ChannelInv'
  BY <1>0, <1>2, <1>3, <1>4, <1>7
     DEF StoreNothing, Leave, reports, StoresTyped, Heard, JobsInv, AtHandler
<1>8. CASE CrashAll
  BY <1>0, <1>2, <1>3, <1>4, <1>8 DEF CrashAll, reports, StoresTyped, Heard, JobsInv, AtHandler
<1>9. CASE Pass \/ SetBack \/ SetAhead
  <2>1. StoresTyped' /\ (\A d \in Devices : Heard(d)' => Heard(d)) /\ job' = job
    BY <1>0, <1>9, TimeStep DEF Pass, SetBack, SetAhead
  <2> QED
    BY <1>0, <1>2, <1>3, <1>4, <2>1 DEF JobsInv, AtHandler
<1>10. ASSUME NEW q \in Requests, Enter(q) PROVE ChannelInv'
  <2>1. PICK d \in Devices :
           job' = [job EXCEPT ![q] = d] /\ Proven(d)' /\ UNCHANGED reports
    BY <1>10, EnterStep
  <2>2. StoresTyped' /\ \A x \in Devices : Heard(x)' => Proven(x)'
    BY <1>0, <1>2, <1>3, <2>1 DEF reports, StoresTyped, Heard
  <2>3. \A p \in Requests : job'[p] # NULL => Proven(job'[p]) \/ (job'[p] = d /\ Proven(d)')
    BY <1>0, <2>1 DEF StoresTyped, JobsInv, AtHandler
  <2>4. JobsInv'
    BY <1>2, <2>3 DEF JobsInv, AtHandler, Proven
  <2> QED
    BY <1>1, <2>2, <2>4 DEF ChannelInv, ReportsAreAuthenticated, Proven
<1> QED
  BY <1>5, <1>6, <1>7, <1>8, <1>9, <1>10 DEF ChannelNext, Enrolling, Handle, channelVars

LEMMA InitChannel == ChannelInit => ChannelInv
<1> SUFFICES ASSUME ChannelInit PROVE ChannelInv
  OBVIOUS
<1>1. EnrollmentInv
  BY InitEnrollment DEF ChannelInit
<1>2. StoresTyped /\ \A d \in Devices : ~ Heard(d)
  BY DEF ChannelInit, R!Init, StoresTyped, Heard
<1>3. JobsInv
  BY DEF ChannelInit, JobsInv, AtHandler
<1> QED
  BY <1>1, <1>2, <1>3 DEF ChannelInv, ReportsAreAuthenticated

\* Whatever interleaving of issuing, exchanging, revoking, authenticating and
\* reporting, and for any number of devices and requests: what agentHeartbeat and
\* agentNetworkContext have stored about a device came with an identity of it.
THEOREM StoredIsAuthenticated == ChannelSpec => []ReportsAreAuthenticated
<1>1. ChannelInv => ReportsAreAuthenticated
  BY DEF ChannelInv
<1> QED
  BY <1>1, InitChannel, ChannelStep, PTL DEF ChannelSpec

\* Reports and enrollments share identities, devices, clock and crashes, and the
\* middleware enters a handler in the step that marks the identity as used: all of
\* it keeps to the enrollment service's lifecycle, so what is proved of that
\* service holds of the whole.
THEOREM ChannelImplementsLifecycle == ChannelSpec => ImplementsLifecycle
<1>1. ChannelInit => Init
  BY DEF ChannelInit
<1>2. [ChannelNext]_channelVars => [Next]_vars
  BY StepEnrolls DEF channelVars, vars
<1>3. ChannelSpec => Spec
  BY <1>1, <1>2, PTL DEF ChannelSpec, Spec
<1> QED
  BY <1>3, ServiceImplementsLifecycle
=============================================================================
