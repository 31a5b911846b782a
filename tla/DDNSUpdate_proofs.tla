--------------------------- MODULE DDNSUpdate_proofs ---------------------------
(***************************************************************************)
(* Proofs about DDNSUpdate, for any devices, hostnames, addresses and      *)
(* requests.                                                               *)
(*                                                                         *)
(* UpdateInv is what holds of concurrent updates: a row is of a device     *)
(* that may create it, the row a request copied was its device's and still *)
(* is, and a request that found no row may create it.  WaitInv adds what   *)
(* is true of labels one device may create, if that device waits for its   *)
(* answers: of the requests for such a label at most one is past the       *)
(* lookup, however many devices ask for it; its copy is still the row, and *)
(* what it has published is what BIND serves.                              *)
(***************************************************************************)
EXTENDS DDNSUpdate, TLAPS

RequestState ==
    [pc : {"idle", "domain", "mkdomain", "host", "nochg", "upsert", "save", "good"},
     dev : Devices \cup {NULL}, label : Labels \cup {NULL}, addr : Addrs \cup {NULL},
     host : HostRow]

RowsOwned ==
    \A l \in Labels : hosts[l] # NoHost =>
        /\ hosts[l].owner \in Devices /\ hosts[l].addr \in Addrs
        /\ canAutocreate(hosts[l].owner, l)

Served(q) == req[q].pc # "idle"

RequestOK(q) ==
    LET row == hosts[req[q].label]
    IN  /\ Served(q) => req[q].dev \in Devices /\ req[q].label \in Labels /\ req[q].addr \in Addrs
        /\ req[q].pc \in {"upsert", "save"} /\ req[q].host # NoHost =>
              req[q].host.owner = req[q].dev /\ row # NoHost /\ row.owner = req[q].dev
        /\ req[q].pc \in {"upsert", "save"} /\ req[q].host = NoHost =>
              canAutocreate(req[q].dev, req[q].label)
        /\ req[q].pc \in {"nochg", "good"} => row # NoHost /\ row.owner = req[q].dev

UpdateInv == TypeOK /\ RowsOwned /\ \A q \in Requests : RequestOK(q)

-----------------------------------------------------------------------------
(* Steps and the rows. *)

\* Rows appear and change their address, but not their owner.
RowsGrow ==
    /\ hosts' \in [Labels -> HostRow]
    /\ \A l \in Labels : hosts'[l] # hosts[l] =>
          /\ hosts'[l].owner \in Devices /\ hosts'[l].addr \in Addrs
          /\ canAutocreate(hosts'[l].owner, l)
          /\ hosts[l] # NoHost => hosts[l].owner = hosts'[l].owner

LEMMA SaveGrows ==
    ASSUME UpdateInv, NEW q \in Requests, SaveHost(q)
    PROVE  RowsGrow
<1> DEFINE l == req[q].label
<1>1. /\ l \in Labels /\ req[q].dev \in Devices /\ req[q].addr \in Addrs
      /\ req[q].host \in HostRow /\ hosts \in [Labels -> HostRow]
      /\ req[q].host # NoHost =>
            req[q].host.owner = req[q].dev /\ hosts[l] # NoHost /\ hosts[l].owner = req[q].dev
      /\ canAutocreate(req[q].dev, l)
  BY DEF UpdateInv, RowsOwned, RequestOK, Served, SaveHost, TypeOK
<1>2. PICK row \in HostRow : /\ hosts' = hosts \/ hosts' = [hosts EXCEPT ![l] = row]
                             /\ row.owner = req[q].dev /\ row.addr = req[q].addr
                             /\ hosts' # hosts => hosts[l] = NoHost \/ hosts[l].owner = row.owner
  <2>1. CASE req[q].host = NoHost /\ hosts[l] = NoHost
    <3>1. [owner |-> req[q].dev, addr |-> req[q].addr] \in HostRow
      BY <1>1 DEF HostRow
    <3> QED
      BY <1>1, <2>1, <3>1 DEF SaveHost
  <2>2. CASE req[q].host # NoHost
    <3>1. /\ [req[q].host EXCEPT !.addr = req[q].addr] \in HostRow
          /\ [req[q].host EXCEPT !.addr = req[q].addr].owner = req[q].dev
          /\ [req[q].host EXCEPT !.addr = req[q].addr].addr = req[q].addr
      BY <1>1, <2>2 DEF HostRow
    <3>2. hosts' = [hosts EXCEPT ![l] = [req[q].host EXCEPT !.addr = req[q].addr]]
      BY <2>2 DEF SaveHost
    <3> QED
      BY <1>1, <2>2, <3>1, <3>2
  <2>3. CASE req[q].host = NoHost /\ hosts[l] # NoHost
    <3>1. [owner |-> req[q].dev, addr |-> req[q].addr] \in HostRow
      BY <1>1 DEF HostRow
    <3> QED
      BY <1>1, <2>3, <3>1 DEF SaveHost
  <2> QED
    BY <2>1, <2>2, <2>3
<1> QED
  BY <1>1, <1>2 DEF RowsGrow

\* Whoever is told good after Save has the row.
LEMMA SaveOwns ==
    ASSUME UpdateInv, NEW q \in Requests, SaveHost(q), Goto(q, "good")
    PROVE  hosts'[req[q].label].owner = req[q].dev
<1> DEFINE l == req[q].label
<1>1. /\ l \in Labels /\ hosts \in [Labels -> HostRow] /\ req[q].host \in HostRow
      /\ req[q].pc = "save" /\ req \in [Requests -> RequestState]
      /\ req[q].host # NoHost => req[q].host.owner = req[q].dev
  BY DEF UpdateInv, RequestOK, Served, SaveHost, TypeOK, RequestState
<1>2. req'[q].pc = "good"
  BY <1>1 DEF Goto, RequestState
<1>3. \/ hosts' = [hosts EXCEPT ![l] = [owner |-> req[q].dev, addr |-> req[q].addr]]
      \/ /\ req[q].host # NoHost
         /\ hosts' = [hosts EXCEPT ![l] = [req[q].host EXCEPT !.addr = req[q].addr]]
  BY <1>1, <1>2 DEF SaveHost, Fail, Idle
<1> QED
  BY <1>1, <1>3 DEF HostRow

LEMMA RowsStep ==
    UpdateInv /\ [Next]_vars => RowsGrow
<1> SUFFICES ASSUME UpdateInv, [Next]_vars PROVE RowsGrow
  OBVIOUS
<1>1. UNCHANGED hosts \/ \E q \in Requests : SaveHost(q)
  BY DEF Next, vars, Serve, Arrive, FindDomain, CreateDomain, FindHost, NoChange, Upsert, Good,
         QueryFails, UpsertFails, SaveFails, Crash, Move, database
<1>2. CASE UNCHANGED hosts
  BY <1>2 DEF RowsGrow, UpdateInv, TypeOK
<1> QED
  BY <1>1, <1>2, SaveGrows

-----------------------------------------------------------------------------
(* Steps and the requests. *)

\* What a step may do to one request.
RequestMoves(q) ==
    \/ req'[q] = req[q]
    \/ req'[q] = Idle
    \/ \E d \in Devices, l \in Labels :
          req'[q] = [Idle EXCEPT !.pc = "domain", !.dev = d, !.label = l, !.addr = wan[d]]
    \/ /\ Served(q) /\ req[q].pc # "upsert"
       /\ \E x \in {"host", "mkdomain", "nochg", "good"} :
             /\ req'[q] = [req[q] EXCEPT !.pc = x]
             /\ x \in {"nochg", "good"} => hosts'[req[q].label].owner = req[q].dev
    \/ req[q].pc = "upsert" /\ req'[q] = [req[q] EXCEPT !.pc = "save"]
    \/ LET row == hosts[req[q].label]
       IN  /\ req[q].pc = "host" /\ hosts' = hosts
           /\ row # NoHost => row.owner = req[q].dev
           /\ row = NoHost => canAutocreate(req[q].dev, req[q].label)
           /\ req'[q] = [req[q] EXCEPT !.pc = "upsert", !.host = row]

LEMMA RequestsStep ==
    ASSUME UpdateInv, [Next]_vars, NEW q \in Requests PROVE RequestMoves(q)
<1>0. req \in [Requests -> RequestState]
  BY DEF UpdateInv, TypeOK, RequestState
<1>1. CASE UNCHANGED req
  BY <1>1 DEF RequestMoves
<1>2. ASSUME NEW p \in Requests, NEW d \in Devices, NEW l \in Labels, Arrive(p, d, l)
      PROVE  RequestMoves(q)
  BY <1>0, <1>2 DEF Arrive, RequestMoves
<1>3. ASSUME NEW p \in Requests, req' = [req EXCEPT ![p] = Idle] PROVE RequestMoves(q)
  BY <1>0, <1>3 DEF RequestMoves
<1>4. ASSUME NEW p \in Requests, NEW x \in {"host", "mkdomain", "nochg", "good"}, Goto(p, x),
             req[p].pc \notin {"idle", "upsert"},
             x \in {"nochg", "good"} => hosts'[req[p].label].owner = req[p].dev
      PROVE  RequestMoves(q)
  BY <1>0, <1>4 DEF RequestMoves, Goto, Served, RequestState
<1>5. ASSUME NEW p \in Requests, Upsert(p) PROVE RequestMoves(q)
  BY <1>0, <1>5 DEF RequestMoves, Goto, Upsert, RequestState
<1>6. ASSUME NEW p \in Requests, FindHost(p) PROVE RequestMoves(q)
  <2> DEFINE row == hosts[req[p].label]
  <2>1. CASE Refuse(p)
    BY <1>3, <2>1 DEF Refuse
  <2>2. CASE Goto(p, "nochg") /\ row.owner = req[p].dev
    BY <1>4, <1>6, <2>2 DEF FindHost, database
  <2>3. CASE /\ req' = [req EXCEPT ![p].pc = "upsert", ![p].host = row]
             /\ \/ row = NoHost /\ canAutocreate(req[p].dev, req[p].label)
                \/ row.owner = req[p].dev
    <3>0. row.owner = req[p].dev => row # NoHost
      BY <1>6, UpdateAssumption DEF FindHost, UpdateInv, RequestOK, Served, NoHost
    <3>1. req[p].pc = "host" /\ hosts' = hosts
      BY <1>6 DEF FindHost, database
    <3> QED
      BY <1>0, <2>3, <3>0, <3>1 DEF RequestMoves, RequestState
  <2> QED
    BY <1>6, <2>1, <2>2, <2>3 DEF FindHost
<1>7. ASSUME NEW p \in Requests,
             FindDomain(p) \/ CreateDomain(p) \/ NoChange(p) \/ Good(p)
             \/ QueryFails(p) \/ UpsertFails(p) \/ SaveFails(p)
      PROVE  RequestMoves(q)
  BY <1>3, <1>4, <1>7 DEF FindDomain, CreateDomain, NoChange, Good, QueryFails,
                          UpsertFails, SaveFails, Fail, Reply
<1>9. ASSUME NEW p \in Requests, SaveHost(p) PROVE RequestMoves(q)
  <2>1. CASE Fail(p)
    BY <1>3, <2>1 DEF Fail
  <2>2. CASE Goto(p, "good")
    BY <1>4, <1>9, <2>2, SaveOwns DEF SaveHost
  <2> QED
    BY <1>9, <2>1, <2>2 DEF SaveHost
<1>8. CASE Crash
  BY <1>8 DEF Crash, RequestMoves
<1> QED
  BY <1>1, <1>2, <1>5, <1>6, <1>7, <1>8, <1>9 DEF Next, Serve, Move, vars

LEMMA RequestOKStep ==
    ASSUME UpdateInv, RowsGrow, wan \in [Devices -> Addrs], NEW q \in Requests,
           RequestMoves(q), req'[q] \in RequestState
    PROVE  RequestOK(q)'
<1>0. RequestOK(q) /\ req[q] \in RequestState
  BY DEF UpdateInv, TypeOK, RequestState
<1>1. CASE req'[q] = req[q]
  <2>1. req[q].label \in Labels /\ hosts[req[q].label] # NoHost =>
           /\ hosts'[req[q].label] # NoHost
           /\ hosts'[req[q].label].owner = hosts[req[q].label].owner
    BY UpdateAssumption DEF RowsGrow, NoHost
  <2> QED
    BY <1>0, <1>1, <2>1 DEF RequestOK, Served
<1>2. CASE req'[q] = Idle
  BY <1>2 DEF Idle, RequestOK, Served
<1>3. ASSUME NEW d \in Devices, NEW l \in Labels,
             req'[q] = [Idle EXCEPT !.pc = "domain", !.dev = d, !.label = l, !.addr = wan[d]]
      PROVE  RequestOK(q)'
  BY <1>3 DEF Idle, RequestOK, Served
<1>4. ASSUME Served(q), NEW x \in {"host", "mkdomain", "nochg", "good"},
             req'[q] = [req[q] EXCEPT !.pc = x],
             x \in {"nochg", "good"} => hosts'[req[q].label].owner = req[q].dev
      PROVE  RequestOK(q)'
  <2>1. /\ req'[q].label = req[q].label /\ req'[q].dev = req[q].dev /\ req'[q].addr = req[q].addr
        /\ req'[q].pc = x
    BY <1>0, <1>4 DEF RequestState
  <2>2. x \in {"nochg", "good"} => hosts'[req[q].label] # NoHost
    BY <1>0, <1>4, UpdateAssumption DEF NoHost, RequestOK
  <2> QED
    BY <1>0, <1>4, <2>1, <2>2 DEF RequestOK, Served
<1>5. CASE req[q].pc = "upsert" /\ req'[q] = [req[q] EXCEPT !.pc = "save"]
  <2>1. /\ req'[q].label = req[q].label /\ req'[q].dev = req[q].dev /\ req'[q].addr = req[q].addr
        /\ req'[q].host = req[q].host
    BY <1>0, <1>5 DEF RequestState
  <2>2. req[q].label \in Labels /\ hosts[req[q].label] # NoHost =>
           /\ hosts'[req[q].label] # NoHost
           /\ hosts'[req[q].label].owner = hosts[req[q].label].owner
    BY UpdateAssumption DEF RowsGrow, NoHost
  <2> QED
    BY <1>0, <1>5, <2>1, <2>2 DEF RequestOK, Served
<1>6. ASSUME req[q].pc = "host", hosts' = hosts,
             hosts[req[q].label] # NoHost => hosts[req[q].label].owner = req[q].dev,
             hosts[req[q].label] = NoHost => canAutocreate(req[q].dev, req[q].label),
             req'[q] = [req[q] EXCEPT !.pc = "upsert", !.host = hosts[req[q].label]]
      PROVE  RequestOK(q)'
  <2>1. /\ req'[q].label = req[q].label /\ req'[q].dev = req[q].dev /\ req'[q].addr = req[q].addr
        /\ req'[q].host = hosts[req[q].label]
    BY <1>0, <1>6 DEF RequestState
  <2> QED
    BY <1>0, <1>6, <2>1 DEF RequestOK, Served
<1> QED
  BY <1>1, <1>2, <1>3, <1>4, <1>5, <1>6 DEF RequestMoves

LEMMA RequestsTyped ==
    ASSUME UpdateInv, NEW q \in Requests, RequestMoves(q) PROVE req'[q] \in RequestState
<1>0. req[q] \in RequestState /\ hosts \in [Labels -> HostRow] /\ wan \in [Devices -> Addrs]
      /\ RequestOK(q)
  BY DEF UpdateInv, TypeOK, RequestState
<1>1. Idle \in RequestState
  BY DEF Idle, NoHost, HostRow, RequestState
<1>2. ASSUME NEW d \in Devices, NEW l \in Labels
      PROVE  [Idle EXCEPT !.pc = "domain", !.dev = d, !.label = l, !.addr = wan[d]]
                \in RequestState
  BY <1>0, <1>1 DEF Idle, NoHost, HostRow, RequestState
<1>3. ASSUME NEW x \in {"host", "mkdomain", "nochg", "good", "save"}
      PROVE  [req[q] EXCEPT !.pc = x] \in RequestState
  BY <1>0 DEF RequestState
<1>4. req[q].pc = "host" =>
         [req[q] EXCEPT !.pc = "upsert", !.host = hosts[req[q].label]] \in RequestState
  BY <1>0 DEF RequestState, RequestOK, Served
<1> QED
  BY <1>0, <1>1, <1>2, <1>3, <1>4 DEF RequestMoves

-----------------------------------------------------------------------------
(* The stores and the answers keep their types. *)

LEMMA ZoneTyped ==
    ASSUME UpdateInv, [Next]_vars PROVE zone' \in [Labels -> SUBSET Addrs]
<1>0. zone \in [Labels -> SUBSET Addrs]
  BY DEF UpdateInv, TypeOK
<1>1. ASSUME NEW q \in Requests, req[q].pc = "upsert",
             zone' = [zone EXCEPT ![req[q].label] = Replaced(@, req[q].addr)]
      PROVE  zone' \in [Labels -> SUBSET Addrs]
  <2>1. req[q].addr \in Addrs /\ req[q].label \in Labels
    BY <1>1 DEF UpdateInv, RequestOK, Served
  <2> QED
    BY <1>0, <1>1, <2>1 DEF Replaced
<1>2. UNCHANGED zone \/ \E q \in Requests : Upsert(q) \/ UpsertFails(q)
  BY DEF Next, vars, Serve, Arrive, FindDomain, CreateDomain, FindHost, NoChange, SaveHost, Good,
         QueryFails, SaveFails, Crash, Move
<1> QED
  BY <1>0, <1>1, <1>2 DEF Upsert, UpsertFails

\* What a step may do to what the devices were told.
LEMMA Answers ==
    ASSUME [Next]_vars
    PROVE  \/ UNCHANGED told \/ Crash
           \/ \E q \in Requests : Served(q) /\ Fail(q)
           \/ \E q \in Requests, code \in {"good", "nochg"} :
                 req[q].pc = code /\ UNCHANGED hosts /\ Reply(q, code)
  BY DEF Next, vars, Serve, Arrive, FindDomain, CreateDomain, FindHost, NoChange, Upsert,
         SaveHost, Good, QueryFails, UpsertFails, SaveFails, Move, Refuse, Served

LEMMA ToldTyped ==
    ASSUME UpdateInv, [Next]_vars PROVE told' \in [Devices -> [Labels -> Answer]]
<1>0. told \in [Devices -> [Labels -> Answer]] /\ NoAnswer \in Answer
  BY DEF UpdateInv, TypeOK, Answer, NoAnswer
<1>1. ASSUME NEW q \in Requests, NEW code \in {"good", "nochg"}, Reply(q, code), Served(q)
      PROVE  told' \in [Devices -> [Labels -> Answer]]
  <2>1. [code |-> code, addr |-> req[q].addr] \in Answer
    BY <1>1 DEF UpdateInv, RequestOK, Answer
  <2> QED
    BY <1>0, <1>1, <2>1 DEF Reply
<1>2. ASSUME NEW q \in Requests, Fail(q) PROVE told' \in [Devices -> [Labels -> Answer]]
  BY <1>0, <1>2 DEF Fail
<1>3. CASE Crash
  BY <1>0, <1>3 DEF Crash
<1> QED
  BY <1>0, <1>1, <1>2, <1>3, Answers DEF Served

LEMMA WorldTyped ==
    ASSUME UpdateInv, [Next]_vars
    PROVE  /\ domain' \in BOOLEAN /\ lastIP' \in [Devices -> Addrs \cup {NULL}]
           /\ wan' \in [Devices -> Addrs] /\ moves' \in Nat /\ faults' \in Nat
<1>0. /\ domain \in BOOLEAN /\ lastIP \in [Devices -> Addrs \cup {NULL}]
      /\ wan \in [Devices -> Addrs] /\ moves \in Nat /\ faults \in Nat
  BY DEF UpdateInv, TypeOK
<1>1. domain' \in BOOLEAN
  BY <1>0 DEF Next, vars, Serve, Arrive, FindDomain, CreateDomain, FindHost, NoChange, Upsert,
              SaveHost, Good, QueryFails, UpsertFails, SaveFails, Crash, Move, database
<1>2. lastIP' \in [Devices -> Addrs \cup {NULL}]
  <2>1. ASSUME NEW q \in Requests, TouchDevice(q), Served(q)
        PROVE  lastIP' \in [Devices -> Addrs \cup {NULL}]
    <3>1. req[q].addr \in Addrs
      BY <2>1 DEF UpdateInv, RequestOK
    <3> QED
      BY <1>0, <2>1, <3>1 DEF TouchDevice
  <2>2. UNCHANGED lastIP \/ \E q \in Requests : Served(q) /\ TouchDevice(q)
    BY DEF Next, vars, Serve, Arrive, FindDomain, CreateDomain, FindHost, NoChange, Upsert,
           SaveHost, Good, QueryFails, UpsertFails, SaveFails, Crash, Move, database, Served
  <2> QED
    BY <1>0, <2>1, <2>2
<1>3. wan' \in [Devices -> Addrs] /\ moves' \in Nat /\ faults' \in Nat
  <2>1. \/ UNCHANGED world
        \/ faults' = faults + 1 /\ UNCHANGED <<wan, moves>>
        \/ \E d \in Devices, a \in Addrs : Move(d, a)
    BY DEF Next, vars, Serve, Arrive, FindDomain, CreateDomain, FindHost, NoChange, Upsert,
           SaveHost, Good, QueryFails, UpsertFails, SaveFails, Crash, world, Fault
  <2> QED
    BY <1>0, <2>1 DEF world, Move
<1> QED
  BY <1>1, <1>2, <1>3

LEMMA InitUpdate == Init => UpdateInv
<1> SUFFICES ASSUME Init PROVE UpdateInv
  OBVIOUS
<1>1. TypeOK
  BY DEF Init, TypeOK, NoHost, HostRow, Idle, NoAnswer, Answer
<1>2. RowsOwned /\ \A q \in Requests : RequestOK(q)
  BY DEF Init, RowsOwned, RequestOK, Served, Idle
<1> QED
  BY <1>1, <1>2 DEF UpdateInv

LEMMA NextUpdate == UpdateInv /\ [Next]_vars => UpdateInv'
<1> SUFFICES ASSUME UpdateInv, [Next]_vars PROVE UpdateInv'
  OBVIOUS
<1>1. RowsGrow /\ \A q \in Requests : RequestMoves(q) /\ req'[q] \in RequestState
  BY RowsStep, RequestsStep, RequestsTyped
<1>2. req' \in [Requests -> RequestState]
  <2>1. req' = [q \in Requests |-> req'[q]]
    <3>1. req = [q \in Requests |-> req[q]]
      BY DEF UpdateInv, TypeOK
    <3>2. UNCHANGED req \/ (\E q \in Requests : \E r : req' = [req EXCEPT ![q] = r])
          \/ req' = [q \in Requests |-> Idle]
      <4>1. ASSUME NEW q \in Requests, NEW x, Goto(q, x)
            PROVE  \E p \in Requests : \E r : req' = [req EXCEPT ![p] = r]
        BY <3>1, <4>1 DEF Goto
      <4>2. ASSUME NEW q \in Requests, FindHost(q)
            PROVE  \E p \in Requests : \E r : req' = [req EXCEPT ![p] = r]
        BY <3>1, <4>1, <4>2 DEF FindHost, Refuse
      <4> QED
        BY <4>1, <4>2
        DEF Next, vars, Serve, Arrive, FindDomain, CreateDomain, NoChange, Upsert, SaveHost, Good,
            QueryFails, UpsertFails, SaveFails, Crash, Move, Reply, Fail
    <3> QED
      BY <3>1, <3>2
  <2> QED
    BY <1>1, <2>1
<1>3. TypeOK'
  BY <1>1, <1>2, ZoneTyped, ToldTyped, WorldTyped DEF TypeOK, RowsGrow, RequestState
<1>4. \A q \in Requests : RequestOK(q)'
  BY <1>1, RequestOKStep DEF UpdateInv, TypeOK
<1>5. RowsOwned'
  BY <1>1 DEF RowsGrow, RowsOwned, UpdateInv
<1> QED
  BY <1>3, <1>4, <1>5 DEF UpdateInv

THEOREM UpdateInvariant == Spec => []UpdateInv
  BY InitUpdate, NextUpdate, PTL DEF Spec

\* Update never stores an owner, an address or an answer out of its domain.
THEOREM UpdateTyped == Spec => []TypeOK
<1>1. UpdateInv => TypeOK
  BY DEF UpdateInv
<1> QED
  BY <1>1, UpdateInvariant, PTL

\* Save writes the owner of a copy that may be old, Create may come second: with any
\* number of concurrent updates a host row never changes hands.
THEOREM OwnersStay == Spec => OwnersAreFinal
<1>1. UpdateInv /\ [Next]_vars =>
        [\A l \in Labels : hosts[l] # NoHost => hosts'[l].owner = hosts[l].owner]_vars
  BY RowsStep DEF RowsGrow
<1> QED
  BY <1>1, UpdateInvariant, PTL DEF Spec, OwnersAreFinal

\* Between FindHost and Upsert rows appear and are written from old copies: for any
\* policy and number of concurrent updates, a record is published over another's only
\* by a device that found no row and only if both may create the label.
THEOREM OnlyRivalsCollide == Spec => OnlyClaimsCollide
<1>1. ASSUME UpdateInv, NEW q \in Requests, req[q].pc = "upsert"
      PROVE  \/ hosts[req[q].label].owner \in {NULL, req[q].dev}
             \/ /\ req[q].host = NoHost /\ canAutocreate(req[q].dev, req[q].label)
                /\ canAutocreate(hosts[req[q].label].owner, req[q].label)
  <2>1. RequestOK(q) /\ RowsOwned
    BY <1>1 DEF UpdateInv
  <2> QED
    BY <1>1, <2>1 DEF RequestOK, RowsOwned, Served, NoHost
<1>2. UpdateInv /\ [Next]_vars =>
        [\A q \in Requests, l \in Labels :
           (req[q].pc = "upsert" /\ req[q].label = l /\ req'[q] # req[q] /\ zone'[l] # zone[l])
           => \/ hosts[l].owner \in {NULL, req[q].dev}
              \/ /\ req[q].host = NoHost
                 /\ canAutocreate(req[q].dev, l) /\ canAutocreate(hosts[l].owner, l)]_vars
  BY <1>1
<1> QED
  BY <1>2, UpdateInvariant, PTL DEF Spec, OnlyClaimsCollide

-----------------------------------------------------------------------------
(* Answers. *)

LEMMA AnsweredStep ==
    ASSUME UpdateInv, AnsweredOwn, [Next]_vars PROVE AnsweredOwn'
<1>0. /\ told \in [Devices -> [Labels -> Answer]] /\ req \in [Requests -> RequestState]
      /\ NULL \notin Devices
  BY UpdateAssumption DEF UpdateInv, TypeOK, RequestState
<1>1. ASSUME NEW d \in Devices, NEW l \in Labels, told[d][l].code # "none"
      PROVE  hosts'[l].owner = d
  <2>1. hosts[l].owner = d /\ hosts[l] # NoHost
    BY <1>0, <1>1 DEF AnsweredOwn, NoHost
  <2> QED
    BY <2>1, RowsStep DEF RowsGrow
<1>2. CASE UNCHANGED told
  BY <1>1, <1>2 DEF AnsweredOwn
<1>3. CASE Crash
  BY <1>1, <1>3 DEF Crash, AnsweredOwn, NoAnswer
<1>4. ASSUME NEW q \in Requests, Served(q), Fail(q) PROVE AnsweredOwn'
  <2>1. \A d \in Devices, l \in Labels : told'[d][l] = told[d][l] \/ told'[d][l] = NoAnswer
    BY <1>0, <1>4 DEF Fail
  <2> QED
    BY <1>1, <2>1 DEF AnsweredOwn, NoAnswer
<1>5. ASSUME NEW q \in Requests, NEW code \in {"good", "nochg"}, req[q].pc = code,
             UNCHANGED hosts, Reply(q, code)
      PROVE  AnsweredOwn'
  <2>1. hosts[req[q].label].owner = req[q].dev
    BY <1>5 DEF UpdateInv, RequestOK
  <2>2. \A d \in Devices, l \in Labels :
           told'[d][l] = told[d][l] \/ (d = req[q].dev /\ l = req[q].label)
    BY <1>0, <1>5 DEF Reply
  <2> QED
    BY <1>1, <1>5, <2>1, <2>2 DEF AnsweredOwn
<1> QED
  BY <1>2, <1>3, <1>4, <1>5, Answers

\* Update answers good after Create or Save and nochg to the owner of the row it read:
\* for any policy and number of concurrent updates, of several devices that claim a
\* host the one that has been answered has it.
THEOREM AnsweredOwners == Spec => []AnsweredOwn
<1>1. Init => AnsweredOwn
  BY DEF Init, AnsweredOwn, NoAnswer
<1> QED
  BY <1>1, AnsweredStep, UpdateInvariant, PTL DEF Spec

-----------------------------------------------------------------------------
(* Clients that wait for their answers. *)

\* The request is past the lookup of the row: it will answer, or change something.
Decided(q) == req[q].pc \in {"nochg", "upsert", "save", "good"}

OnePerDevice ==
    \A p, q \in Requests :
        /\ Served(p) /\ Served(q)
        /\ req[p].dev = req[q].dev /\ req[p].label = req[q].label
        => p = q

\* No request for l is past the lookup.
Rests(l) == \A q \in Requests : Decided(q) => req[q].label # l

\* No request for l has published an address that is not in its row yet.
Settled(l) == \A q \in Requests : req[q].pc = "save" => req[q].label # l

RowServed(row) == IF row = NoHost THEN {} ELSE {row.addr}

GoodHolds(l) ==
    \A d \in Devices :
        Uncontested(l) /\ Rests(l) /\ told[d][l].code = "good"
        => zone[l] = {told[d][l].addr} /\ hosts[l].addr = told[d][l].addr

StoresHold(l) ==
    faults = 0 /\ Uncontested(l) /\ Settled(l) => zone[l] = RowServed(hosts[l])

\* What the request for an uncontested label knows.
KnowsStores(q) ==
    LET l == req[q].label
    IN  Uncontested(l) =>
        /\ req[q].pc \in {"upsert", "save"} => req[q].host = hosts[l]
        /\ req[q].pc = "save" => zone[l] = {req[q].addr}
        /\ req[q].pc = "good" =>
              zone[l] = {req[q].addr} /\ hosts[l] # NoHost /\ hosts[l].addr = req[q].addr

WaitInv ==
    /\ AnsweredOwn
    /\ OnePerDevice
    /\ \A q \in Requests : KnowsStores(q)
    /\ \A l \in Labels : GoodHolds(l) /\ StoresHold(l)

\* Only a device that may create the label gets past the lookup,
LEMMA Candidate ==
    ASSUME UpdateInv, NEW q \in Requests, Decided(q)
    PROVE  /\ Served(q) /\ req[q].dev \in Devices /\ req[q].label \in Labels
           /\ req[q].addr \in Addrs /\ canAutocreate(req[q].dev, req[q].label)
  BY DEF UpdateInv, RowsOwned, RequestOK, Served, Decided

\* so there is one at most if the label is one device's,
LEMMA Alone ==
    ASSUME UpdateInv, OnePerDevice, NEW p \in Requests, NEW q \in Requests, Decided(p),
           Decided(q), req[p].label = req[q].label, Uncontested(req[q].label)
    PROVE  p = q
<1>1. req[p].dev = req[q].dev
  BY Candidate DEF Uncontested
<1> QED
  BY <1>1, Candidate DEF OnePerDevice

\* and nobody else has been answered.
LEMMA OnlyClient ==
    ASSUME UpdateInv, AnsweredOwn, NEW q \in Requests, Decided(q), NEW d \in Devices,
           Uncontested(req[q].label), told[d][req[q].label].code # "none"
    PROVE  d = req[q].dev
<1>1. req[q].label \in Labels /\ hosts[req[q].label].owner = d
  BY Candidate DEF AnsweredOwn
<1>2. hosts[req[q].label] # NoHost
  BY <1>1, UpdateAssumption DEF NoHost
<1>3. canAutocreate(d, req[q].label)
  BY <1>1, <1>2 DEF UpdateInv, RowsOwned
<1> QED
  BY <1>3, Candidate DEF Uncontested

\* A step that takes q no further than its decision.
LEMMA QuietStep ==
    ASSUME UpdateInv, WaitInv, AnsweredOwn', OnePerDevice', NEW q \in Requests, ~ Decided(q),
           \A p \in Requests : p # q => req'[p] = req[p],
           req'[q].pc \notin {"save", "good"},
           req'[q].pc = "upsert" => req'[q].host = hosts[req'[q].label],
           UNCHANGED <<hosts, zone>>, faults' = 0 => faults = 0,
           \A d \in Devices, l \in Labels : told'[d][l] = told[d][l] \/ told'[d][l] = NoAnswer
    PROVE  WaitInv'
<1>1. \A l \in Labels : (Rests(l)' => Rests(l)) /\ (Settled(l)' => Settled(l))
  BY DEF Rests, Settled, Decided
<1>2. \A p \in Requests : KnowsStores(p)'
  <2> SUFFICES ASSUME NEW p \in Requests PROVE KnowsStores(p)'
    OBVIOUS
  <2>1. CASE p = q
    BY <2>1 DEF KnowsStores
  <2>2. CASE p # q
    BY <2>2 DEF WaitInv, KnowsStores, Uncontested
  <2> QED
    BY <2>1, <2>2
<1>3. \A l \in Labels : GoodHolds(l)'
  BY <1>1 DEF WaitInv, GoodHolds, NoAnswer, Uncontested
<1>4. \A l \in Labels : StoresHold(l)'
  BY <1>1 DEF WaitInv, StoresHold, RowServed, Uncontested
<1> QED
  BY <1>2, <1>3, <1>4 DEF WaitInv

\* A step of a request past its decision: it has the label to itself.
Concerns(q) ==
    /\ \A p \in Requests : p # q => req'[p] = req[p]
    /\ \A m \in Labels : m # req[q].label =>
          /\ zone'[m] = zone[m] /\ hosts'[m] = hosts[m]
          /\ \A d \in Devices : told'[d][m] = told[d][m]
    /\ faults' = 0 => faults = 0
    /\ Served(q)' => req'[q].label = req[q].label

LEMMA OwnStep ==
    ASSUME UpdateInv, WaitInv, AnsweredOwn', OnePerDevice', NEW q \in Requests, Decided(q),
           Concerns(q), NEW l \in Labels, l = req[q].label,
           Uncontested(l) => KnowsStores(q)' /\ GoodHolds(l)' /\ StoresHold(l)'
    PROVE  WaitInv'
<1>1. ASSUME NEW p \in Requests PROVE KnowsStores(p)'
  <2>1. CASE p = q
    <3>1. CASE ~ Served(q)'
      BY <2>1, <3>1 DEF KnowsStores, Served
    <3>2. CASE Served(q)'
      BY <2>1, <3>2 DEF KnowsStores, Concerns, Uncontested
    <3> QED
      BY <3>1, <3>2
  <2>2. CASE p # q
    <3>1. req'[p] = req[p] /\ KnowsStores(p)
      BY <2>2 DEF WaitInv, Concerns
    <3>2. CASE ~ Decided(p)
      BY <3>1, <3>2 DEF KnowsStores, Decided
    <3>3. CASE Decided(p) /\ req[p].label = l /\ Uncontested(l)
      BY <2>2, <3>3, Alone DEF WaitInv
    <3>4. CASE Decided(p) /\ req[p].label # l
      <4>1. req[p].label \in Labels
        BY <3>4, Candidate
      <4> QED
        BY <3>1, <3>4, <4>1 DEF KnowsStores, Concerns, Uncontested
    <3>5. CASE Decided(p) /\ ~ Uncontested(req[p].label)
      BY <3>1, <3>5 DEF KnowsStores, Uncontested
    <3> QED
      BY <3>2, <3>3, <3>4, <3>5
  <2> QED
    BY <2>1, <2>2
<1>2. ASSUME NEW m \in Labels PROVE GoodHolds(m)' /\ StoresHold(m)'
  <2>1. CASE m # l
    <3>1. (Rests(m)' => Rests(m)) /\ (Settled(m)' => Settled(m))
      BY <2>1 DEF Concerns, Rests, Settled, Decided
    <3>2. /\ zone'[m] = zone[m] /\ hosts'[m] = hosts[m]
          /\ \A d \in Devices : told'[d][m] = told[d][m]
      BY <2>1 DEF Concerns
    <3>3. GoodHolds(m) /\ StoresHold(m)
      BY DEF WaitInv
    <3> QED
      BY <3>1, <3>2, <3>3 DEF GoodHolds, StoresHold, RowServed, Concerns, Uncontested
  <2>2. CASE m = l /\ Uncontested(l)
    BY <2>2
  <2>3. CASE m = l /\ ~ Uncontested(l)
    BY <2>3 DEF GoodHolds, StoresHold, Uncontested
  <2> QED
    BY <2>1, <2>2, <2>3
<1> QED
  BY <1>1, <1>2 DEF WaitInv

LEMMA OneStep ==
    ASSUME ClientsWait, UpdateInv, OnePerDevice, [Next]_vars PROVE OnePerDevice'
<1>0. req \in [Requests -> RequestState]
  BY DEF UpdateInv, TypeOK, RequestState
<1>1. ASSUME NEW q \in Requests, NEW d \in Devices, NEW l \in Labels, Arrive(q, d, l)
      PROVE  OnePerDevice'
  <2>1. /\ req'[q].dev = d /\ req'[q].label = l
        /\ \A p \in Requests : p # q => req'[p] = req[p]
        /\ \A p \in Requests : Served(p) => req[p].dev # d \/ req[p].label # l
    BY <1>0, <1>1 DEF Arrive, InFlight, Idle, Served
  <2> QED
    BY <2>1 DEF OnePerDevice, Served
<1>2. ASSUME \A q \in Requests :
                Served(q)' => /\ Served(q)
                              /\ req'[q].dev = req[q].dev /\ req'[q].label = req[q].label
      PROVE  OnePerDevice'
  BY <1>2 DEF OnePerDevice
<1>3. ASSUME NEW p \in Requests, Serve(p) \/ QueryFails(p) \/ UpsertFails(p) \/ SaveFails(p)
      PROVE  \A q \in Requests :
                Served(q)' => /\ Served(q)
                              /\ req'[q].dev = req[q].dev /\ req'[q].label = req[q].label
  <2>1. Served(p)
    BY <1>3 DEF Serve, FindDomain, CreateDomain, FindHost, NoChange, Upsert, SaveHost, Good,
                QueryFails, UpsertFails, SaveFails, Served
  <2>2. \/ \E x : Goto(p, x)
        \/ req' = [req EXCEPT ![p] = Idle]
        \/ \E row : req' = [req EXCEPT ![p].pc = "upsert", ![p].host = row]
    BY <1>3 DEF Serve, FindDomain, CreateDomain, FindHost, NoChange, Upsert, SaveHost, Good,
                QueryFails, UpsertFails, SaveFails, Fail, Refuse, Reply
  <2>3. \/ /\ \A q \in Requests : q # p => req'[q] = req[q]
           /\ req'[p].dev = req[p].dev /\ req'[p].label = req[p].label
        \/ /\ \A q \in Requests : q # p => req'[q] = req[q]
           /\ ~ Served(p)'
    BY <1>0, <2>2 DEF Goto, Idle, Served, RequestState
  <2> QED
    BY <2>1, <2>3 DEF Served
<1>4. CASE Crash
  BY <1>2, <1>4 DEF Crash, Served, Idle
<1>5. CASE UNCHANGED req
  BY <1>2, <1>5 DEF Served
<1> QED
  BY <1>1, <1>2, <1>3, <1>4, <1>5 DEF Next, Move, vars

LEMMA ArriveWaits ==
    ASSUME UpdateInv, WaitInv, AnsweredOwn', OnePerDevice', NEW q \in Requests,
           NEW d \in Devices, NEW l \in Labels, Arrive(q, d, l)
    PROVE  WaitInv'
<1>1. /\ req'[q].pc = "domain" /\ ~ Decided(q)
      /\ \A p \in Requests : p # q => req'[p] = req[p]
      /\ UNCHANGED <<hosts, zone, told, faults>>
  BY DEF Arrive, Decided, UpdateInv, TypeOK, Idle, database, world
<1> QED
  BY <1>1, QuietStep

\* Before the decision nothing is written, and told changes to no answer at most.
LEMMA LookupWaits ==
    ASSUME UpdateInv, WaitInv, AnsweredOwn', OnePerDevice', NEW q \in Requests,
           FindDomain(q) \/ CreateDomain(q) \/ FindHost(q) \/ QueryFails(q)
    PROVE  WaitInv'
<1>1. /\ ~ Decided(q) /\ \A p \in Requests : p # q => req'[p] = req[p]
      /\ req'[q].pc \notin {"save", "good"}
      /\ req'[q].pc = "upsert" => req'[q].host = hosts[req'[q].label]
      /\ UNCHANGED <<hosts, zone>> /\ (faults' = 0 => faults = 0)
      /\ told' = told \/ told' = [told EXCEPT ![req[q].dev][req[q].label] = NoAnswer]
  <2>1. CASE FindDomain(q) \/ CreateDomain(q) \/ QueryFails(q)
    BY <2>1 DEF FindDomain, CreateDomain, QueryFails, Goto, Fail, Fault, database, world,
                UpdateInv, TypeOK, Decided, Idle
  <2>2. CASE FindHost(q)
    <3>1. UNCHANGED <<hosts, zone, told, faults>> /\ ~ Decided(q)
      BY <2>2 DEF FindHost, Refuse, database, world, Decided
    <3>2. \/ req' = [req EXCEPT ![q] = Idle] \/ req' = [req EXCEPT ![q].pc = "nochg"]
          \/ req' = [req EXCEPT ![q].pc = "upsert", ![q].host = hosts[req[q].label]]
      BY <2>2 DEF FindHost, Refuse, Goto
    <3> QED
      BY <3>1, <3>2 DEF UpdateInv, TypeOK, Idle
  <2> QED
    BY <2>1, <2>2
<1>2. \A d \in Devices, l \in Labels : told'[d][l] = told[d][l] \/ told'[d][l] = NoAnswer
  BY <1>1 DEF UpdateInv, TypeOK
<1> QED
  BY <1>1, <1>2, QuietStep

LEMMA UpsertWaits ==
    ASSUME UpdateInv, WaitInv, AnsweredOwn', OnePerDevice', NEW q \in Requests, Upsert(q)
    PROVE  WaitInv'
<1> PICK l \in Labels : l = req[q].label
  BY Candidate DEF Upsert, Decided
<1>1. /\ req'[q].pc = "save" /\ req'[q].label = l /\ req'[q].addr = req[q].addr
      /\ req'[q].host = req[q].host
      /\ \A p \in Requests : p # q => req'[p] = req[p]
      /\ UNCHANGED <<hosts, told, faults>> /\ req[q].pc = "upsert" /\ Decided(q)
  BY DEF Upsert, Goto, Decided, database, world, UpdateInv, TypeOK
<1>2. l \in Labels /\ req[q].addr \in Addrs /\ zone \in [Labels -> SUBSET Addrs]
  BY <1>1, Candidate DEF UpdateInv, TypeOK
<1>3. zone'[l] = {req[q].addr} /\ \A m \in Labels : m # l => zone'[m] = zone[m]
  <2>1. Replaced(zone[l], req[q].addr) = {req[q].addr}
    BY <1>2, UpdateAssumption DEF Replaced
  <2> QED
    BY <1>2, <2>1 DEF Upsert
<1>4. Concerns(q)
  BY <1>1, <1>3 DEF Concerns
<1>5. ~ Rests(l)' /\ ~ Settled(l)'
  BY <1>1 DEF Rests, Settled, Decided
<1>6. Uncontested(l) => KnowsStores(q)'
  BY <1>1, <1>3 DEF KnowsStores, WaitInv
<1> QED
  BY <1>1, <1>4, <1>5, <1>6, OwnStep DEF GoodHolds, StoresHold

LEMMA SaveWaits ==
    ASSUME UpdateInv, WaitInv, AnsweredOwn', OnePerDevice', NEW q \in Requests, SaveHost(q)
    PROVE  WaitInv'
<1> PICK l \in Labels : l = req[q].label
  BY Candidate DEF SaveHost, Decided
<1>1. /\ req[q].pc = "save" /\ Decided(q) /\ l \in Labels /\ req[q].addr \in Addrs
      /\ hosts \in [Labels -> HostRow] /\ req \in [Requests -> RequestState]
      /\ told \in [Devices -> [Labels -> Answer]]
  BY Candidate DEF SaveHost, Decided, UpdateInv, TypeOK, RequestState
<1>2. /\ UNCHANGED <<zone, faults>>
      /\ \/ req' = [req EXCEPT ![q].pc = "good"] /\ UNCHANGED told
         \/ Fail(q)
      /\ hosts' = hosts \/ \E row : hosts' = [hosts EXCEPT ![l] = row]
  BY DEF SaveHost, Goto, world
<1>3. Concerns(q)
  BY <1>1, <1>2 DEF Fail, Concerns, Served, Idle, RequestState
<1>4. ASSUME Uncontested(l) PROVE KnowsStores(q)' /\ GoodHolds(l)' /\ StoresHold(l)'
  <2>1. req[q].host = hosts[l] /\ zone[l] = {req[q].addr}
    BY <1>1, <1>4 DEF WaitInv, KnowsStores
  <2>2. /\ req' = [req EXCEPT ![q].pc = "good"]
        /\ \/ hosts' = [hosts EXCEPT ![l] = [owner |-> req[q].dev, addr |-> req[q].addr]]
           \/ hosts' = [hosts EXCEPT ![l] = [hosts[l] EXCEPT !.addr = req[q].addr]]
    BY <1>1, <2>1 DEF SaveHost, Goto
  <2>3. hosts'[l].addr = req[q].addr
    BY <1>1, <2>2 DEF HostRow
  <2>4. hosts'[l] # NoHost
    BY <1>1, <2>3, UpdateAssumption DEF NoHost
  <2>5. req'[q].pc = "good" /\ req'[q].label = l /\ req'[q].addr = req[q].addr
    BY <1>1, <2>2 DEF RequestState
  <2>6. ~ Rests(l)'
    BY <2>5 DEF Rests, Decided
  <2>7. KnowsStores(q)'
    BY <1>2, <2>1, <2>3, <2>4, <2>5 DEF KnowsStores
  <2> QED
    BY <1>2, <2>1, <2>3, <2>4, <2>6, <2>7 DEF GoodHolds, StoresHold, RowServed
<1> QED
  BY <1>1, <1>3, <1>4, OwnStep

\* The request ends: with an answer, or because a statement failed.
LEMMA EndWaits ==
    ASSUME UpdateInv, WaitInv, AnsweredOwn', OnePerDevice', NEW q \in Requests,
           NoChange(q) \/ Good(q) \/ UpsertFails(q) \/ SaveFails(q)
    PROVE  WaitInv'
<1> PICK l \in Labels, d \in Devices : l = req[q].label /\ d = req[q].dev
  BY Candidate DEF NoChange, Good, UpsertFails, SaveFails, Decided
<1>1. /\ Decided(q) /\ l \in Labels /\ d \in Devices /\ req[q].addr \in Addrs
      /\ KnowsStores(q) /\ told \in [Devices -> [Labels -> Answer]]
      /\ zone \in [Labels -> SUBSET Addrs] /\ req \in [Requests -> RequestState]
  <2>1. Decided(q)
    BY DEF NoChange, Good, UpsertFails, SaveFails, Decided
  <2> QED
    BY <2>1, Candidate DEF WaitInv, UpdateInv, TypeOK, RequestState
<1>2. /\ req' = [req EXCEPT ![q] = Idle] /\ UNCHANGED hosts
      /\ \A m \in Labels : m # l => zone'[m] = zone[m]
      /\ \E answer : told' = [told EXCEPT ![d][l] = answer]
      /\ told'[d][l].code = "good" =>
            req[q].pc = "good" /\ zone'[l] = zone[l] /\ told'[d][l].addr = req[q].addr
      /\ faults' = 0 => faults = 0 /\ zone'[l] = zone[l] /\ req[q].pc \in {"nochg", "good"}
  <2>1. CASE NoChange(q) \/ Good(q)
    <3>1. /\ UNCHANGED <<hosts, zone, faults>> /\ req' = [req EXCEPT ![q] = Idle]
          /\ \E code \in {"nochg", "good"} :
                /\ req[q].pc = code
                /\ told' = [told EXCEPT ![d][l] = [code |-> code, addr |-> req[q].addr]]
      BY <1>1, <2>1 DEF NoChange, Good, Reply, world
    <3>2. PICK code \in {"nochg", "good"} :
             /\ req[q].pc = code
             /\ told' = [told EXCEPT ![d][l] = [code |-> code, addr |-> req[q].addr]]
      BY <3>1
    <3>3. told'[d][l] = [code |-> code, addr |-> req[q].addr]
      BY <1>1, <3>2
    <3>4. \E answer : told' = [told EXCEPT ![d][l] = answer]
      BY <3>2
    <3>5. told'[d][l].code = "good" => req[q].pc = "good" /\ told'[d][l].addr = req[q].addr
      BY <3>2, <3>3
    <3>6. req[q].pc \in {"nochg", "good"}
      BY <3>2
    <3> QED
      BY <3>1, <3>4, <3>5, <3>6
  <2>2. CASE UpsertFails(q) \/ SaveFails(q)
    <3>1. faults' # 0 /\ Fail(q) /\ UNCHANGED hosts
      BY <2>2 DEF UpsertFails, SaveFails, Fault, database, UpdateInv, TypeOK
    <3>2. \A m \in Labels : m # l => zone'[m] = zone[m]
      BY <1>1, <2>2 DEF UpsertFails, SaveFails
    <3>3. told'[d][l].code = "none"
      BY <1>1, <3>1 DEF Fail, NoAnswer
    <3> QED
      BY <3>1, <3>2, <3>3 DEF Fail
  <2> QED
    BY <2>1, <2>2
<1>3. req'[q] = Idle /\ \A p \in Requests : p # q => req'[p] = req[p]
  BY <1>1, <1>2
<1>4. \A e \in Devices, m \in Labels : (e # d \/ m # l) => told'[e][m] = told[e][m]
  BY <1>1, <1>2
<1>5. Concerns(q)
  BY <1>2, <1>3, <1>4 DEF Concerns, Served, Idle
<1>6. ASSUME Uncontested(l) PROVE KnowsStores(q)' /\ GoodHolds(l)' /\ StoresHold(l)'
  <2>1. KnowsStores(q)'
    BY <1>3 DEF KnowsStores, Idle
  <2>2. \A e \in Devices : told'[e][l].code = "good" => e = d
    BY <1>1, <1>4, <1>6, OnlyClient DEF WaitInv
  <2>3. GoodHolds(l)'
    BY <1>1, <1>2, <1>6, <2>2 DEF GoodHolds, KnowsStores
  <2>4. Settled(l)' /\ req[q].pc \in {"nochg", "good"} => Settled(l)
    BY <1>3 DEF Settled
  <2>5. StoresHold(l)'
    BY <1>1, <1>2, <1>6, <2>4 DEF StoresHold, WaitInv, RowServed
  <2> QED
    BY <2>1, <2>3, <2>5
<1> QED
  BY <1>1, <1>5, <1>6, OwnStep

LEMMA CrashWaits ==
    ASSUME UpdateInv, WaitInv, AnsweredOwn', OnePerDevice', Crash PROVE WaitInv'
<1>1. /\ \A q \in Requests : req'[q].pc = "idle"
      /\ UNCHANGED <<hosts, zone>> /\ faults' # 0
  BY DEF Crash, Idle, Fault, database, UpdateInv, TypeOK
<1>2. \A d \in Devices, l \in Labels :
         told'[d][l] = NoAnswer \/ (told'[d][l] = told[d][l] /\ ~ InFlight(d, l))
  BY DEF Crash
<1>3. ASSUME NEW d \in Devices, NEW l \in Labels, Uncontested(l), told[d][l].code = "good",
             ~ InFlight(d, l)
      PROVE  Rests(l)
  BY <1>3, OnlyClient, Candidate DEF Rests, InFlight, Served, WaitInv
<1>4. \A l \in Labels : GoodHolds(l)'
  BY <1>1, <1>2, <1>3 DEF GoodHolds, WaitInv, NoAnswer, Uncontested
<1> QED
  BY <1>1, <1>4 DEF WaitInv, KnowsStores, StoresHold

LEMMA WaitStep ==
    ASSUME ClientsWait, UpdateInv, WaitInv, [Next]_vars PROVE WaitInv'
<1>0. AnsweredOwn' /\ OnePerDevice'
  BY AnsweredStep, OneStep DEF WaitInv
<1>1. CASE UNCHANGED <<hosts, zone, req, told, faults>>
  <2>1. \A l \in Labels : (Rests(l)' <=> Rests(l)) /\ (Settled(l)' <=> Settled(l))
    BY <1>1 DEF Rests, Settled, Decided
  <2> QED
    BY <1>0, <1>1, <2>1 DEF WaitInv, KnowsStores, GoodHolds, StoresHold, RowServed, Uncontested
<1>2. \A d \in Devices, a \in Addrs : Move(d, a) => UNCHANGED <<hosts, zone, req, told, faults>>
  BY DEF Move, database
<1> QED
  BY <1>0, <1>1, <1>2, ArriveWaits, LookupWaits, UpsertWaits, SaveWaits, EndWaits, CrashWaits
  DEF Next, Serve, vars

LEMMA InitWaits == Init => WaitInv
<1> SUFFICES ASSUME Init PROVE WaitInv
  OBVIOUS
<1>1. \A q \in Requests : req[q].pc = "idle"
  BY DEF Init, Idle
<1>2. \A l \in Labels :
         /\ hosts[l] = NoHost /\ zone[l] = {}
         /\ \A d \in Devices : told[d][l].code = "none"
  BY DEF Init, NoAnswer
<1> QED
  BY <1>1, <1>2
  DEF WaitInv, AnsweredOwn, OnePerDevice, Served, KnowsStores, GoodHolds, StoresHold, RowServed

LEMMA WaitInvariant == ASSUME ClientsWait PROVE Spec => []WaitInv
<1>1. UpdateInv /\ WaitInv /\ [Next]_vars => WaitInv'
  BY WaitStep
<1> QED
  BY <1>1, InitWaits, UpdateInvariant, PTL DEF Spec

\* Update publishes first and saves second: of a host one device may create, nsupdate
\* and the row name the same address but between the two, until something fails, if
\* that device waits for its answers.  What other devices ask meanwhile is no matter.
THEOREM StoresStay == ASSUME ClientsWait PROVE Spec => []StoresAgree
<1>1. WaitInv => StoresAgree
  BY DEF WaitInv, StoresHold, StoresAgree, RowServed, Settled
<1> QED
  BY <1>1, WaitInvariant, PTL

\* Update answers good after both writes: while that answer is a waiting client's last
\* about a host no other device may create, its address is served and on record,
\* whatever failed before it and whoever else asks for the host.
THEOREM GoodMeansServed == ASSUME ClientsWait PROVE Spec => []GoodIsServed
<1>1. ASSUME UpdateInv, WaitInv, NEW d \in Devices, NEW l \in Labels, Uncontested(l),
             told[d][l].code = "good", ~ InFlight(d, l)
      PROVE  Rests(l)
  BY <1>1, OnlyClient, Candidate DEF Rests, InFlight, Served, WaitInv
<1>2. UpdateInv /\ WaitInv => GoodIsServed
  BY <1>1 DEF WaitInv, GoodHolds, GoodIsServed
<1> QED
  BY <1>2, UpdateInvariant, WaitInvariant, PTL
=============================================================================
