------------------------------ MODULE AgentReports ------------------------------
(***************************************************************************)
(* What UDM Agents report and administrators read: heartbeats with partial *)
(* telemetry (telemetry/service.go) and complete network identities        *)
(* (networkcontext/service.go).  Each report is one DB.Transaction and one *)
(* step; a read is several statements and as many steps, with what it has  *)
(* read so far in rd[p].                                                   *)
(*                                                                         *)
(* The telemetry row keeps one pair of counters, total and available, as   *)
(* memory and disk have it; 0 is "not known".  Its time is kept as the age *)
(* the server computes by its wall clock, which may be set back and ahead. *)
(* silent is the time that really passed.  The rows of a network report    *)
(* are its number and a name each; NetworkIdentity says which reports are  *)
(* accepted and what else is in a row.                                     *)
(***************************************************************************)
EXTENDS Integers, Sequences

CONSTANTS
    Devices,        \* devices, all created and active
    Readers,        \* administrative reads served concurrently
    MaxCounter,     \* the largest counter the server stores (MaxInt64)
    Threshold,      \* DefaultOnlineThresholdSeconds, in ticks of the clock
    Interfaces,     \* names of WAN interfaces
    LANs,           \* names of networks
    MaxReports,     \* bound: network reports of a device
    MaxBack,        \* bound: times the clock is set back, by a tick each
    MaxAhead,       \* bound: times it is set ahead, by a tick each
    NULL

ASSUME ReportsAssumption ==
    /\ NULL \notin Devices /\ NULL \notin Nat
    /\ {MaxCounter, Threshold, MaxReports, MaxBack, MaxAhead} \subseteq Nat

VARIABLES
    snap,       \* table agent_telemetry_snapshots
    silent,     \* true time since a device's last heartbeat
    ident,      \* table network_identity_snapshots: number of the stored report
    wanRows,    \* table network_wans
    lanRows,    \* table network_segments
    sent,       \* history: the network reports stored
    rd,         \* local state of the reads
    back,       \* times the clock was set back so far
    ahead       \* times it was set ahead

telemetry == <<snap, silent>>
network == <<ident, wanRows, lanRows, sent>>
corrections == <<back, ahead>>
vars == <<telemetry, network, rd, corrections>>

\* Later ages are alike: no correction makes them young enough to matter.
OldAge == Threshold + MaxBack + 1

NoRow == [age |-> OldAge, total |-> NULL, avail |-> NULL]
NewRow == [age |-> 0, total |-> 0, avail |-> 0]
Idle == [pc |-> "idle", device |-> NULL, row |-> NoRow, since |-> 0,
         ident |-> 0, wans |-> {}, lans |-> {}, fleet |-> FALSE]

Init ==
    /\ snap = [d \in Devices |-> NoRow]
    /\ silent = [d \in Devices |-> OldAge]
    /\ ident = [d \in Devices |-> 0]
    /\ wanRows = [d \in Devices |-> {}] /\ lanRows = [d \in Devices |-> {}]
    /\ sent = [d \in Devices |-> <<>>]
    /\ rd = [p \in Readers |-> Idle]
    /\ back = 0 /\ ahead = 0

-----------------------------------------------------------------------------
(* Heartbeats.  An omitted field is NULL. *)

Counters == 0..MaxCounter
Inputs == [total : Counters \cup {MaxCounter + 1, NULL},
           avail : Counters \cup {MaxCounter + 1, NULL}]

\* Mutant: a counter may be of any size.
validateAnySize(in) == in \in Inputs

validateInput(in) == {in.total, in.avail} \subseteq Counters \cup {NULL}

\* Mutant: a reported zero counts as omitted.
applyNonZero(row, in) ==
    [age |-> 0,
     total |-> IF in.total \in {NULL, 0} THEN row.total ELSE in.total,
     avail |-> IF in.avail \in {NULL, 0} THEN row.avail ELSE in.avail]

applyHeartbeat(row, in) ==
    [age |-> 0,
     total |-> IF in.total = NULL THEN row.total ELSE in.total,
     avail |-> IF in.avail = NULL THEN row.avail ELSE in.avail]

validateSnapshot(row) == row.total > 0 => row.avail <= row.total

Merged(d, in) == applyHeartbeat(IF snap[d] = NoRow THEN NewRow ELSE snap[d], in)

\* The row is validated as it would be stored, with the fields kept from before.
Accepts(d, in) == validateInput(in) /\ validateSnapshot(Merged(d, in))

Heartbeat(d, in) ==
    /\ Accepts(d, in)
    /\ snap' = [snap EXCEPT ![d] = Merged(d, in)]
    /\ silent' = [silent EXCEPT ![d] = 0]
    /\ UNCHANGED <<network, rd, corrections>>

\* Mutant: the last second of the threshold is too late.
statusWithin(row) ==
    IF row = NoRow THEN "never_seen"
    ELSE IF row.age < Threshold THEN "online" ELSE "offline"

\* An age below zero counts as zero.
statusFrom(row) ==
    IF row = NoRow THEN "never_seen"
    ELSE IF row.age <= Threshold THEN "online" ELSE "offline"

-----------------------------------------------------------------------------
(* Network reports. *)

Reports == [wans : SUBSET Interfaces \ {{}}, lans : SUBSET LANs]
Rows(n, names) == {[report |-> n, name |-> x] : x \in names}

\* The stored rows are deleted and the new ones inserted.
Report(d, r) ==
    LET n == Len(sent[d]) + 1
    IN  /\ n <= MaxReports
        /\ ident' = [ident EXCEPT ![d] = n]
        /\ wanRows' = [wanRows EXCEPT ![d] = Rows(n, r.wans)]
        /\ lanRows' = [lanRows EXCEPT ![d] = Rows(n, r.lans)]
        /\ sent' = [sent EXCEPT ![d] = Append(@, r)]
        /\ UNCHANGED <<telemetry, rd, corrections>>

-----------------------------------------------------------------------------
(* Reads, statement by statement. *)

Step(p, r) == rd' = [rd EXCEPT ![p] = r] /\ UNCHANGED <<telemetry, network, corrections>>

\* Status and ListStatuses; the age is computed when the row has been read.
ReadTelemetry(p, d) ==
    /\ rd[p].pc = "idle"
    /\ Step(p, [Idle EXCEPT !.pc = "judge", !.device = d, !.row = snap[d]])

\* Context of one device, or its part of ListContexts: the device,
ReadDevice(p, d, fleet) ==
    /\ rd[p].pc = "idle"
    /\ Step(p, [Idle EXCEPT !.pc = "ident", !.device = d, !.fleet = fleet,
                            !.since = ident[d]])

\* its snapshot, without which Context answers at once but ListContexts goes on,
ReadIdent(p) ==
    /\ rd[p].pc = "ident"
    /\ LET n == ident[rd[p].device]
       IN  Step(p, [rd[p] EXCEPT !.ident = n,
                                 !.pc = IF n = 0 /\ ~ rd[p].fleet THEN "answer" ELSE "wans"])

\* its WANs
ReadWANs(p) ==
    /\ rd[p].pc = "wans"
    /\ Step(p, [rd[p] EXCEPT !.wans = wanRows[rd[p].device], !.pc = "lans"])

\* Mutant: the number of the report is read again at the end.
ReadNetworksThenIdent(p) ==
    /\ rd[p].pc = "lans"
    /\ Step(p, [rd[p] EXCEPT !.lans = lanRows[rd[p].device], !.pc = "answer",
                             !.ident = ident[rd[p].device]])

\* and its networks.
ReadNetworks(p) ==
    /\ rd[p].pc = "lans"
    /\ Step(p, [rd[p] EXCEPT !.lans = lanRows[rd[p].device], !.pc = "answer"])

Answer(p) == rd[p].pc \in {"judge", "answer"} /\ Step(p, Idle)

-----------------------------------------------------------------------------
(* The clock. *)

Older(age) == IF age < OldAge THEN age + 1 ELSE OldAge
Aged(row, Change(_)) == IF row = NoRow THEN NoRow ELSE [row EXCEPT !.age = Change(row.age)]

Shift(Change(_)) ==
    /\ snap' = [d \in Devices |-> Aged(snap[d], Change)]
    /\ rd' = [p \in Readers |-> [rd[p] EXCEPT !.row = Aged(@, Change)]]

Tick ==
    /\ Shift(Older)
    /\ silent' = [d \in Devices |-> Older(silent[d])]
    /\ UNCHANGED <<network, corrections>>

SetClockBack ==
    /\ back < MaxBack /\ back' = back + 1
    /\ Shift(LAMBDA age : age - 1)
    /\ UNCHANGED <<silent, network, ahead>>

\* Every age jumps although no time has passed.
SetClockAhead ==
    /\ ahead < MaxAhead /\ ahead' = ahead + 1
    /\ Shift(Older)
    /\ UNCHANGED <<silent, network, back>>

-----------------------------------------------------------------------------
Read(p) == \/ \E d \in Devices : ReadTelemetry(p, d)
           \/ \E d \in Devices, fleet \in BOOLEAN : ReadDevice(p, d, fleet)
           \/ ReadIdent(p) \/ ReadWANs(p) \/ ReadNetworks(p) \/ Answer(p)

Next == \/ \E d \in Devices, in \in Inputs : Heartbeat(d, in)
        \/ \E d \in Devices, r \in Reports : Report(d, r)
        \/ \E p \in Readers : Read(p)
        \/ Tick \/ SetClockBack \/ SetClockAhead

Spec == Init /\ [][Next]_vars

-----------------------------------------------------------------------------
(* Properties. *)

TelemetryRow == [age : (- MaxBack)..OldAge, total : Counters, avail : Counters] \cup {NoRow}

TypeOK ==
    /\ snap \in [Devices -> TelemetryRow]
    /\ silent \in [Devices -> 0..OldAge]
    /\ ident \in [Devices -> 0..MaxReports]
    /\ sent \in [Devices -> Seq(Reports)]
    /\ \A d \in Devices :
          /\ wanRows[d] \subseteq [report : 1..MaxReports, name : Interfaces]
          /\ lanRows[d] \subseteq [report : 1..MaxReports, name : LANs]
    /\ \A p \in Readers :
          /\ rd[p].pc \in {"idle", "judge", "ident", "wans", "lans", "answer"}
          /\ rd[p].device \in Devices \cup {NULL} /\ rd[p].row \in TelemetryRow
          /\ {rd[p].since, rd[p].ident} \subseteq 0..MaxReports
    /\ back \in 0..MaxBack /\ ahead \in 0..MaxAhead

\* docs/agent-heartbeat-telemetry: "A minimal presence-only heartbeat is valid"
\* and available never exceeds total "when total memory is known".  No sequence
\* of partial heartbeats leaves a row that breaks the limit, or one against which
\* a presence-only heartbeat, or a pair that keeps the limit by itself, is
\* refused: the agent would count as offline for good.
PresenceAccepted ==
    \A d \in Devices :
        /\ snap[d] # NoRow => snap[d].total = 0 \/ snap[d].avail <= snap[d].total
        /\ \A in \in Inputs :
              \/ in.total = NULL /\ in.avail = NULL
              \/ /\ {in.total, in.avail} \subseteq Counters
                 /\ in.total = 0 \/ in.avail <= in.total
              => Accepts(d, in)

\* docs/agent-heartbeat-telemetry, "Agent state semantics", against the time that
\* really passed.  What corrections of the wall clock can do is bounded by their
\* size: an agent is offline only if its silence and the corrections ahead are more
\* than the threshold, and is online, also to a reader who fetched the row before,
\* no longer than the threshold and the corrections back together.
SilenceJudged ==
    LET limit == Threshold + back
    IN  /\ \A d \in Devices :
              /\ statusFrom(snap[d]) = "online" => silent[d] <= limit
              /\ statusFrom(snap[d]) = "offline" => silent[d] + ahead > Threshold
        /\ \A p \in Readers :
              rd[p].pc = "judge" /\ statusFrom(rd[p].row) = "online"
              => silent[rd[p].device] <= limit

WANsOf(d, n) == IF n = 0 THEN {} ELSE Rows(n, sent[d][n].wans)
LANsOf(d, n) == IF n = 0 THEN {} ELSE Rows(n, sent[d][n].lans)

\* A report replaces the previous one while several statements read it.  What a
\* reader puts together may be of different reports, but each list is one whole
\* report's, none is older than what was stored when the read began, the parts
\* get newer in the order snapshot, WANs, networks, and a device reported as
\* unknown by itself has no rows.  (As part of a fleet it may have some.)
ReadsAdvance ==
    \A p \in Readers : rd[p].pc = "answer" =>
        LET d == rd[p].device
        IN  \E j \in rd[p].ident..Len(sent[d]) : \E k \in j..Len(sent[d]) :
               /\ rd[p].since <= rd[p].ident
               /\ rd[p].wans = WANsOf(d, j) /\ rd[p].lans = LANsOf(d, k)
               /\ rd[p].ident = 0 /\ ~ rd[p].fleet => j = 0 /\ k = 0
=============================================================================
