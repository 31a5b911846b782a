-------------------------- MODULE AgentReports_proofs --------------------------
(***************************************************************************)
(* Proofs about AgentReports, for any number of devices, readers, counters *)
(* and reports and for clocks set back and ahead any number of times.      *)
(*                                                                         *)
(* AgeInv relates the age the server computes to the time that passed, in  *)
(* the table and in what a reader has fetched.  LimitKept says that every  *)
(* stored pair of counters keeps its limit.  TablesAgree ties the network  *)
(* tables to the last report, and ReadersAgree says what a reader that is  *)
(* between two statements knows about the reports so far.                  *)
(***************************************************************************)
EXTENDS AgentReports, TLAPS

WANRow == [report : 1..MaxReports, name : Interfaces]
LANRow == [report : 1..MaxReports, name : LANs]
Labels == {"idle", "judge", "ident", "wans", "lans", "answer"}

ReaderState ==
    [pc : Labels, device : Devices \cup {NULL}, row : TelemetryRow,
     since : 0..MaxReports, ident : 0..MaxReports,
     wans : SUBSET WANRow, lans : SUBSET LANRow, fleet : BOOLEAN]

TelemetryTyped ==
    /\ snap \in [Devices -> TelemetryRow] /\ silent \in [Devices -> 0..OldAge]
    /\ back \in 0..MaxBack /\ ahead \in 0..MaxAhead

NetworkTyped ==
    /\ ident \in [Devices -> 0..MaxReports] /\ sent \in [Devices -> Seq(Reports)]
    /\ wanRows \in [Devices -> SUBSET WANRow] /\ lanRows \in [Devices -> SUBSET LANRow]

ReadersTyped ==
    /\ rd \in [Readers -> ReaderState]
    /\ \A p \in Readers : rd[p].pc = "idle" \/ rd[p].device \in Devices

RowAge(d) ==
    snap[d] # NoRow =>
        silent[d] - back <= snap[d].age /\ snap[d].age <= silent[d] + ahead

FetchedAge(p) ==
    rd[p].row # NoRow =>
        /\ rd[p].pc = "judge" /\ - back <= rd[p].row.age
        /\ silent[rd[p].device] - back <= rd[p].row.age

AgeInv ==
    /\ TelemetryTyped /\ NetworkTyped /\ ReadersTyped
    /\ \A d \in Devices : RowAge(d)
    /\ \A p \in Readers : FetchedAge(p)

Earlier(age) == age - 1

-----------------------------------------------------------------------------
(* Rows. *)

LEMMA Bounds ==
    /\ MaxCounter \in Nat /\ Threshold \in Nat /\ MaxReports \in Nat
    /\ MaxBack \in Nat /\ MaxAhead \in Nat
    /\ OldAge \in Nat /\ OldAge = Threshold + MaxBack + 1
    /\ NULL \notin Nat /\ NULL \notin Counters /\ NULL \notin Devices
  BY ReportsAssumption DEF OldAge, Counters

\* A row that is there has counters, so it is not the missing row.
LEMMA RowParts ==
    ASSUME NEW row \in TelemetryRow
    PROVE  /\ row # NoRow => /\ row.age \in (- MaxBack)..OldAge
                             /\ row.total \in Counters /\ row.avail \in Counters
                             /\ row = [age |-> row.age, total |-> row.total, avail |-> row.avail]
           /\ \A a, t, v : t \in Counters => [age |-> a, total |-> t, avail |-> v] # NoRow
  BY Bounds DEF TelemetryRow, NoRow

LEMMA OlderAge ==
    ASSUME NEW n \in Int, n <= OldAge
    PROVE  Older(n) \in Int /\ n <= Older(n) /\ Older(n) <= OldAge
  BY Bounds DEF Older

LEMMA OlderRow ==
    ASSUME NEW row \in TelemetryRow
    PROVE  /\ Aged(row, Older) \in TelemetryRow
           /\ Aged(row, Older) = NoRow <=> row = NoRow
           /\ row # NoRow => /\ Aged(row, Older).age = Older(row.age)
                             /\ Aged(row, Older).total = row.total
                             /\ Aged(row, Older).avail = row.avail
<1>1. CASE row = NoRow
  BY <1>1 DEF Aged, TelemetryRow
<1>2. CASE row # NoRow
  <2>1. Older(row.age) \in (- MaxBack)..OldAge
    BY <1>2, RowParts, Bounds DEF Older
  <2>2. Aged(row, Older) = [age |-> Older(row.age), total |-> row.total, avail |-> row.avail]
    BY <1>2, RowParts DEF Aged
  <2> QED
    BY <1>2, <2>1, <2>2, RowParts DEF TelemetryRow
<1> QED
  BY <1>1, <1>2

LEMMA EarlierRow ==
    ASSUME NEW row \in TelemetryRow, row # NoRow => row.age > - MaxBack
    PROVE  /\ Aged(row, Earlier) \in TelemetryRow
           /\ Aged(row, Earlier) = NoRow <=> row = NoRow
           /\ row # NoRow => /\ Aged(row, Earlier).age = row.age - 1
                             /\ Aged(row, Earlier).total = row.total
                             /\ Aged(row, Earlier).avail = row.avail
<1>1. CASE row = NoRow
  BY <1>1 DEF Aged, TelemetryRow
<1>2. CASE row # NoRow
  <2>1. row.age - 1 \in (- MaxBack)..OldAge
    BY <1>2, RowParts, Bounds
  <2>2. Aged(row, Earlier) = [age |-> row.age - 1, total |-> row.total, avail |-> row.avail]
    BY <1>2, RowParts DEF Aged, Earlier
  <2> QED
    BY <1>2, <2>1, <2>2, RowParts DEF TelemetryRow
<1> QED
  BY <1>1, <1>2

\* What a heartbeat stores has the age zero and counters in range.
LEMMA MergedRow ==
    ASSUME TelemetryTyped, NEW d \in Devices, NEW in \in Inputs, Accepts(d, in)
    PROVE  /\ Merged(d, in) \in TelemetryRow /\ Merged(d, in) # NoRow
           /\ Merged(d, in).age = 0
           /\ Merged(d, in).total = 0 \/ Merged(d, in).avail <= Merged(d, in).total
<1> DEFINE old == IF snap[d] = NoRow THEN NewRow ELSE snap[d]
           new == Merged(d, in)
<1>1. old.total \in Counters /\ old.avail \in Counters
  BY RowParts, Bounds DEF TelemetryTyped, NewRow, Counters
<1>2. new = applyHeartbeat(old, in)
  BY DEF Merged
<1> HIDE DEF old
<1>3. new.age = 0 /\ new.total \in Counters /\ new.avail \in Counters
       /\ new = [age |-> 0, total |-> new.total, avail |-> new.avail]
  BY <1>1, <1>2 DEF applyHeartbeat, Accepts, validateInput
<1>4. new.total = 0 \/ new.avail <= new.total
  BY <1>3, Bounds DEF Accepts, validateSnapshot, Counters
<1>5. 0 \in (- MaxBack)..OldAge
  BY Bounds
<1> QED
  <2> HIDE DEF new
  <2>1. new \in TelemetryRow
    BY <1>3, <1>5 DEF TelemetryRow
  <2>2. new # NoRow
    BY <1>3, Bounds DEF NoRow
  <2> QED
    BY <1>3, <1>4, <2>1, <2>2 DEF new

-----------------------------------------------------------------------------
(* Ages. *)

LEMMA IdleTyped == Idle \in ReaderState
  BY Bounds DEF Idle, ReaderState, Labels, TelemetryRow

\* A read leaves the tables alone; what is known of its row is kept or proved anew.
LEMMA StepKeepsAges ==
    ASSUME AgeInv, NEW p \in Readers, NEW r \in ReaderState, Step(p, r),
           r.pc = "idle" \/ r.device \in Devices,
           r.row # NoRow => /\ r.pc = "judge" /\ - back <= r.row.age
                            /\ silent[r.device] - back <= r.row.age
    PROVE  AgeInv'
<1>1. rd' = [rd EXCEPT ![p] = r] /\ UNCHANGED <<snap, silent, ident, wanRows, lanRows, sent, back, ahead>>
  BY DEF Step, telemetry, network, corrections
<1>2. TelemetryTyped' /\ NetworkTyped' /\ ReadersTyped'
  BY <1>1 DEF AgeInv, TelemetryTyped, NetworkTyped, ReadersTyped
<1>3. \A d \in Devices : RowAge(d)'
  BY <1>1 DEF AgeInv, RowAge
<1>4. \A q \in Readers : FetchedAge(q)'
  <2> SUFFICES ASSUME NEW q \in Readers PROVE FetchedAge(q)'
    OBVIOUS
  <2>1. CASE q = p
    BY <1>1, <2>1 DEF AgeInv, ReadersTyped, FetchedAge
  <2>2. CASE q # p
    BY <1>1, <2>2 DEF AgeInv, ReadersTyped, FetchedAge
  <2> QED
    BY <2>1, <2>2
<1> QED
  BY <1>2, <1>3, <1>4 DEF AgeInv

LEMMA ReadKeepsAges ==
    ASSUME AgeInv, NEW p \in Readers, Read(p)
    PROVE  AgeInv'
<1>0. rd[p] \in ReaderState
  BY DEF AgeInv, ReadersTyped
<1>1. ASSUME NEW d \in Devices, ReadTelemetry(p, d) PROVE AgeInv'
  <2> DEFINE r == [Idle EXCEPT !.pc = "judge", !.device = d, !.row = snap[d]]
  <2>1. snap[d] \in TelemetryRow /\ silent[d] \in 0..OldAge /\ back \in 0..MaxBack
    BY DEF AgeInv, TelemetryTyped
  <2>2. r \in ReaderState /\ r.pc = "judge" /\ r.device = d /\ r.row = snap[d]
    BY <2>1, IdleTyped DEF Idle, ReaderState, Labels
  <2>3. snap[d] # NoRow => - back <= snap[d].age /\ silent[d] - back <= snap[d].age
    BY <2>1, RowParts, Bounds DEF AgeInv, RowAge
  <2>4. Step(p, r)
    BY <1>1 DEF ReadTelemetry
  <2> HIDE DEF r
  <2> QED
    BY <2>2, <2>3, <2>4, StepKeepsAges
<1>2. ASSUME NEW d \in Devices, NEW fleet \in BOOLEAN, ReadDevice(p, d, fleet) PROVE AgeInv'
  <2> DEFINE r == [Idle EXCEPT !.pc = "ident", !.device = d, !.fleet = fleet,
                               !.since = ident[d]]
  <2>1. ident[d] \in 0..MaxReports
    BY DEF AgeInv, NetworkTyped
  <2>2. r \in ReaderState /\ r.device = d /\ r.row = NoRow
    BY <2>1, IdleTyped DEF Idle, ReaderState, Labels
  <2>3. Step(p, r)
    BY <1>2 DEF ReadDevice
  <2> HIDE DEF r
  <2> QED
    BY <2>2, <2>3, StepKeepsAges
<1>3. ASSUME NEW r \in ReaderState, Step(p, r), r.pc = "idle" \/ r.device = rd[p].device,
             rd[p].pc \notin {"idle", "judge"}, r.row = rd[p].row
      PROVE  AgeInv'
  BY <1>0, <1>3, StepKeepsAges DEF AgeInv, ReadersTyped, FetchedAge
<1>4. ASSUME ReadIdent(p) PROVE AgeInv'
  <2>1. PICK n, l : /\ n = ident[rd[p].device] /\ l \in {"answer", "wans"}
                    /\ Step(p, [rd[p] EXCEPT !.ident = n, !.pc = l])
    BY <1>4 DEF ReadIdent
  <2>2. rd[p].pc = "ident" /\ rd[p].device \in Devices
    BY <1>4 DEF ReadIdent, AgeInv, ReadersTyped
  <2>3. n \in 0..MaxReports
    BY <2>1, <2>2 DEF AgeInv, NetworkTyped
  <2>4. [rd[p] EXCEPT !.ident = n, !.pc = l] \in ReaderState
    BY <1>0, <2>1, <2>3 DEF ReaderState, Labels
  <2> QED
    BY <1>0, <1>3, <2>1, <2>2, <2>4 DEF ReaderState
<1>5. CASE ReadWANs(p)
  <2>1. rd[p].pc = "wans" /\ rd[p].device \in Devices
    BY <1>5 DEF ReadWANs, AgeInv, ReadersTyped
  <2>2. [rd[p] EXCEPT !.wans = wanRows[rd[p].device], !.pc = "lans"] \in ReaderState
    BY <1>0, <2>1 DEF ReaderState, Labels, AgeInv, NetworkTyped
  <2> QED
    BY <1>0, <1>3, <1>5, <2>1, <2>2 DEF ReadWANs, ReaderState
<1>6. CASE ReadNetworks(p)
  <2>1. rd[p].pc = "lans" /\ rd[p].device \in Devices
    BY <1>6 DEF ReadNetworks, AgeInv, ReadersTyped
  <2>2. [rd[p] EXCEPT !.lans = lanRows[rd[p].device], !.pc = "answer"] \in ReaderState
    BY <1>0, <2>1 DEF ReaderState, Labels, AgeInv, NetworkTyped
  <2> QED
    BY <1>0, <1>3, <1>6, <2>1, <2>2 DEF ReadNetworks, ReaderState
<1>7. CASE Answer(p)
  BY <1>7, IdleTyped, StepKeepsAges DEF Answer, Idle
<1> QED
  BY <1>1, <1>2, <1>4, <1>5, <1>6, <1>7 DEF Read

\* The clock moves the age in the table and the fetched one alike: with the time
\* that passes, or without.
LEMMA OlderKeepsAges ==
    ASSUME AgeInv, Tick \/ SetClockAhead PROVE AgeInv'
<1>0. \/ silent' = [d \in Devices |-> Older(silent[d])] /\ ahead' = ahead
      \/ silent' = silent /\ ahead < MaxAhead /\ ahead' = ahead + 1
  BY DEF Tick, SetClockAhead, corrections
<1>1. /\ snap' = [d \in Devices |-> Aged(snap[d], Older)]
      /\ rd' = [p \in Readers |-> [rd[p] EXCEPT !.row = Aged(rd[p].row, Older)]]
      /\ UNCHANGED <<ident, wanRows, lanRows, sent, back>>
  BY DEF Tick, SetClockAhead, Shift, network, corrections
<1>2. \A d \in Devices : snap[d] \in TelemetryRow /\ silent[d] \in 0..OldAge
  BY DEF AgeInv, TelemetryTyped
<1>3. \A p \in Readers : rd[p] \in ReaderState /\ rd[p].row \in TelemetryRow
  BY DEF AgeInv, ReadersTyped, ReaderState
<1>4. TelemetryTyped'
  <2>1. \A d \in Devices : Older(silent[d]) \in 0..OldAge
    <3> SUFFICES ASSUME NEW d \in Devices PROVE Older(silent[d]) \in 0..OldAge
      OBVIOUS
    <3>1. silent[d] \in Int /\ 0 <= silent[d] /\ silent[d] <= OldAge
      BY <1>2, Bounds
    <3> QED
      BY <3>1, OlderAge, Bounds
  <2>2. snap' \in [Devices -> TelemetryRow]
    BY <1>1, <1>2, OlderRow
  <2>3. silent' \in [Devices -> 0..OldAge]
    BY <1>0, <2>1 DEF AgeInv, TelemetryTyped
  <2>4. back' \in 0..MaxBack /\ ahead' \in 0..MaxAhead
    <3>1. back' = back /\ (ahead' = ahead \/ (ahead < MaxAhead /\ ahead' = ahead + 1))
      BY <1>0, <1>1
    <3>2. back \in 0..MaxBack /\ ahead \in 0..MaxAhead
      BY DEF AgeInv, TelemetryTyped
    <3> QED
      BY <3>1, <3>2, Bounds
  <2> QED
    BY <2>2, <2>3, <2>4 DEF TelemetryTyped
<1>5. NetworkTyped'
  BY <1>1 DEF AgeInv, NetworkTyped
<1>6. ReadersTyped'
  <2>1. \A p \in Readers : [rd[p] EXCEPT !.row = Aged(rd[p].row, Older)] \in ReaderState
    BY <1>3, OlderRow DEF ReaderState
  <2> QED
    BY <1>1, <1>3, <2>1 DEF AgeInv, ReadersTyped, ReaderState
<1>7. ASSUME NEW d \in Devices PROVE RowAge(d)'
  <2>1. CASE snap[d] = NoRow
    BY <1>1, <1>2, <2>1, OlderRow DEF RowAge
  <2>2. CASE snap[d] # NoRow
    <3>1. /\ snap'[d].age = Older(snap[d].age) /\ back' = back
          /\ \/ silent'[d] = Older(silent[d]) /\ ahead' = ahead
             \/ silent'[d] = silent[d] /\ ahead' = ahead + 1
      BY <1>0, <1>1, <1>2, <2>2, OlderRow
    <3>2. silent[d] - back <= snap[d].age /\ snap[d].age <= silent[d] + ahead
      BY <2>2 DEF AgeInv, RowAge
    <3>3. snap[d].age \in (- MaxBack)..OldAge /\ back \in 0..MaxBack /\ ahead \in 0..MaxAhead
      BY <1>2, <2>2, RowParts DEF AgeInv, TelemetryTyped
    <3> QED
      BY <1>2, <3>1, <3>2, <3>3, Bounds DEF RowAge, Older
  <2> QED
    BY <2>1, <2>2
<1>8. ASSUME NEW p \in Readers PROVE FetchedAge(p)'
  <2>1. CASE rd[p].row = NoRow
    BY <1>1, <1>3, <2>1, OlderRow DEF FetchedAge, ReaderState
  <2>2. CASE rd[p].row # NoRow
    <3> DEFINE d == rd[p].device
    <3>1. rd'[p] = [rd[p] EXCEPT !.row = Aged(rd[p].row, Older)]
      BY <1>1
    <3>2. Aged(rd[p].row, Older).age = Older(rd[p].row.age)
      BY <1>3, <2>2, OlderRow
    <3>3. /\ rd'[p].pc = rd[p].pc /\ rd'[p].device = d
          /\ rd'[p].row.age = Older(rd[p].row.age)
      BY <1>3, <3>1, <3>2 DEF ReaderState
    <3>4. d \in Devices /\ rd[p].pc = "judge"
      BY <2>2 DEF AgeInv, ReadersTyped, FetchedAge
    <3>5. - back <= rd[p].row.age /\ silent[d] - back <= rd[p].row.age
      BY <2>2 DEF AgeInv, FetchedAge
    <3>6. rd[p].row.age \in (- MaxBack)..OldAge /\ back \in 0..MaxBack
      BY <1>3, <2>2, RowParts DEF AgeInv, TelemetryTyped
    <3>7. silent'[d] \in {Older(silent[d]), silent[d]} /\ back' = back
      BY <1>0, <1>1, <3>4
    <3> QED
      BY <1>2, <3>3, <3>4, <3>5, <3>6, <3>7, Bounds DEF FetchedAge, Older
  <2> QED
    BY <2>1, <2>2
<1> QED
  BY <1>4, <1>5, <1>6, <1>7, <1>8 DEF AgeInv

LEMMA BackKeepsAges ==
    ASSUME AgeInv, SetClockBack PROVE AgeInv'
<1>1. /\ snap' = [d \in Devices |-> Aged(snap[d], Earlier)]
      /\ rd' = [p \in Readers |-> [rd[p] EXCEPT !.row = Aged(rd[p].row, Earlier)]]
      /\ back < MaxBack /\ back' = back + 1
      /\ UNCHANGED <<silent, ident, wanRows, lanRows, sent, ahead>>
  BY DEF SetClockBack, Shift, network, Aged, Earlier
<1>2. \A d \in Devices : snap[d] \in TelemetryRow /\ silent[d] \in 0..OldAge
  BY DEF AgeInv, TelemetryTyped
<1>3. \A p \in Readers : rd[p] \in ReaderState /\ rd[p].row \in TelemetryRow
  BY DEF AgeInv, ReadersTyped, ReaderState
<1>4. back \in 0..MaxBack /\ back' \in 0..MaxBack /\ ahead \in 0..MaxAhead
  BY <1>1, Bounds DEF AgeInv, TelemetryTyped
<1>5. ASSUME NEW d \in Devices
      PROVE  /\ Aged(snap[d], Earlier) \in TelemetryRow
             /\ RowAge(d)'
  <2>1. CASE snap[d] = NoRow
    BY <1>1, <1>2, <2>1, EarlierRow DEF RowAge
  <2>2. CASE snap[d] # NoRow
    <3>1. silent[d] - back <= snap[d].age /\ snap[d].age <= silent[d] + ahead
      BY <2>2 DEF AgeInv, RowAge
    <3>2. snap[d].age \in (- MaxBack)..OldAge
      BY <1>2, <2>2, RowParts
    <3>3. snap[d].age > - MaxBack
      BY <1>1, <1>2, <1>4, <3>1, <3>2, Bounds
    <3>4. Aged(snap[d], Earlier).age = snap[d].age - 1
      BY <1>2, <2>2, <3>3, EarlierRow
    <3>5. snap'[d].age = snap[d].age - 1 /\ silent'[d] = silent[d]
      BY <1>1, <3>4
    <3>6. RowAge(d)'
      BY <1>1, <1>2, <1>4, <3>1, <3>2, <3>5, Bounds DEF RowAge
    <3> QED
      BY <1>2, <3>3, <3>6, EarlierRow
  <2> QED
    BY <2>1, <2>2
<1>6. ASSUME NEW p \in Readers
      PROVE  /\ Aged(rd[p].row, Earlier) \in TelemetryRow
             /\ FetchedAge(p)'
  <2>1. CASE rd[p].row = NoRow
    BY <1>1, <1>3, <2>1, EarlierRow DEF FetchedAge, ReaderState
  <2>2. CASE rd[p].row # NoRow
    <3> DEFINE d == rd[p].device
    <3>1. rd[p].pc = "judge" /\ d \in Devices
      BY <2>2 DEF AgeInv, ReadersTyped, FetchedAge
    <3>2. - back <= rd[p].row.age /\ silent[d] - back <= rd[p].row.age
      BY <2>2 DEF AgeInv, FetchedAge
    <3>3. rd[p].row.age \in (- MaxBack)..OldAge
      BY <1>3, <2>2, RowParts
    <3>4. rd[p].row.age > - MaxBack
      BY <1>1, <1>4, <3>2, <3>3, Bounds
    <3>5. Aged(rd[p].row, Earlier).age = rd[p].row.age - 1
      BY <1>3, <2>2, <3>4, EarlierRow
    <3>6. rd'[p] = [rd[p] EXCEPT !.row = Aged(rd[p].row, Earlier)]
      BY <1>1
    <3>7. /\ rd'[p].pc = "judge" /\ rd'[p].device = d
          /\ rd'[p].row.age = rd[p].row.age - 1
      BY <1>3, <3>1, <3>5, <3>6 DEF ReaderState
    <3>8. FetchedAge(p)'
      BY <1>1, <1>2, <1>4, <3>1, <3>2, <3>3, <3>7, Bounds DEF FetchedAge
    <3> QED
      BY <1>3, <3>4, <3>8, EarlierRow
  <2> QED
    BY <2>1, <2>2
<1>7. TelemetryTyped' /\ NetworkTyped'
  BY <1>1, <1>4, <1>5 DEF AgeInv, TelemetryTyped, NetworkTyped
<1>8. ReadersTyped'
  <2>1. \A p \in Readers : [rd[p] EXCEPT !.row = Aged(rd[p].row, Earlier)] \in ReaderState
    BY <1>3, <1>6 DEF ReaderState
  <2> QED
    BY <1>1, <1>3, <2>1 DEF AgeInv, ReadersTyped, ReaderState
<1> QED
  BY <1>5, <1>6, <1>7, <1>8 DEF AgeInv

LEMMA HeartbeatKeepsAges ==
    ASSUME AgeInv, NEW d \in Devices, NEW in \in Inputs, Heartbeat(d, in)
    PROVE  AgeInv'
<1>1. /\ snap' = [snap EXCEPT ![d] = Merged(d, in)] /\ silent' = [silent EXCEPT ![d] = 0]
      /\ UNCHANGED <<ident, wanRows, lanRows, sent, rd, back, ahead>>
  BY DEF Heartbeat, network, corrections
<1>2. Merged(d, in) \in TelemetryRow /\ Merged(d, in).age = 0
  BY MergedRow DEF Heartbeat, AgeInv
<1>3. TelemetryTyped'
  BY <1>1, <1>2, Bounds DEF AgeInv, TelemetryTyped
<1>4. NetworkTyped' /\ ReadersTyped'
  BY <1>1 DEF AgeInv, NetworkTyped, ReadersTyped
<1>5. /\ back \in 0..MaxBack /\ ahead \in 0..MaxAhead
      /\ \A e \in Devices : silent[e] \in 0..OldAge
  BY DEF AgeInv, TelemetryTyped
<1>6. ASSUME NEW e \in Devices PROVE RowAge(e)'
  <2>1. CASE e = d
    BY <1>1, <1>2, <1>5, <2>1, Bounds DEF AgeInv, TelemetryTyped, RowAge
  <2>2. CASE e # d
    BY <1>1, <2>2 DEF AgeInv, TelemetryTyped, RowAge
  <2> QED
    BY <2>1, <2>2
<1>7. ASSUME NEW p \in Readers PROVE FetchedAge(p)'
  <2> SUFFICES ASSUME rd[p].row # NoRow
               PROVE  /\ rd[p].pc = "judge" /\ - back <= rd[p].row.age
                      /\ silent'[rd[p].device] - back <= rd[p].row.age
    BY <1>1 DEF FetchedAge
  <2>1. /\ rd[p].pc = "judge" /\ rd[p].device \in Devices /\ - back <= rd[p].row.age
        /\ silent[rd[p].device] - back <= rd[p].row.age
    BY DEF AgeInv, ReadersTyped, FetchedAge
  <2>2. silent'[rd[p].device] \in {0, silent[rd[p].device]}
    BY <1>1, <2>1 DEF AgeInv, TelemetryTyped
  <2> QED
    BY <1>5, <2>1, <2>2, Bounds
<1> QED
  BY <1>3, <1>4, <1>6, <1>7 DEF AgeInv

LEMMA NewRows ==
    ASSUME NEW n \in 1..MaxReports, NEW r \in Reports
    PROVE  Rows(n, r.wans) \subseteq WANRow /\ Rows(n, r.lans) \subseteq LANRow
  BY DEF Rows, Reports, WANRow, LANRow

LEMMA ReportKeepsAges ==
    ASSUME AgeInv, NEW d \in Devices, NEW r \in Reports, Report(d, r)
    PROVE  AgeInv'
<1> DEFINE n == Len(sent[d]) + 1
<1>1. /\ n <= MaxReports
      /\ ident' = [ident EXCEPT ![d] = n] /\ sent' = [sent EXCEPT ![d] = Append(@, r)]
      /\ wanRows' = [wanRows EXCEPT ![d] = Rows(n, r.wans)]
      /\ lanRows' = [lanRows EXCEPT ![d] = Rows(n, r.lans)]
      /\ UNCHANGED <<snap, silent, rd, back, ahead>>
  BY DEF Report, telemetry, corrections
<1>2. n \in 1..MaxReports /\ Append(sent[d], r) \in Seq(Reports)
  BY <1>1, Bounds DEF AgeInv, NetworkTyped
<1> HIDE DEF n
<1>3. NetworkTyped'
  BY <1>1, <1>2, NewRows DEF AgeInv, NetworkTyped
<1>4. TelemetryTyped' /\ ReadersTyped'
  BY <1>1 DEF AgeInv, TelemetryTyped, ReadersTyped
<1>5. (\A e \in Devices : RowAge(e)') /\ (\A p \in Readers : FetchedAge(p)')
  BY <1>1 DEF AgeInv, RowAge, FetchedAge
<1> QED
  BY <1>3, <1>4, <1>5 DEF AgeInv

LEMMA InitAges == Init => AgeInv
<1> SUFFICES ASSUME Init PROVE AgeInv
  OBVIOUS
<1>1. TelemetryTyped /\ NetworkTyped
  BY Bounds DEF Init, TelemetryTyped, NetworkTyped, TelemetryRow
<1>2. ReadersTyped /\ \A p \in Readers : FetchedAge(p)
  BY IdleTyped DEF Init, ReadersTyped, FetchedAge, Idle
<1> QED
  BY <1>1, <1>2 DEF AgeInv, RowAge, Init

LEMMA NextAges == AgeInv /\ [Next]_vars => AgeInv'
<1> SUFFICES ASSUME AgeInv, [Next]_vars PROVE AgeInv'
  OBVIOUS
<1>1. CASE UNCHANGED vars
  BY <1>1 DEF vars, telemetry, network, corrections, AgeInv, TelemetryTyped, NetworkTyped, ReadersTyped,
              RowAge, FetchedAge
<1>2. CASE Next
  BY <1>2, HeartbeatKeepsAges, ReportKeepsAges, ReadKeepsAges, OlderKeepsAges, BackKeepsAges
     DEF Next
<1> QED
  BY <1>1, <1>2

THEOREM Aging == Spec => []AgeInv
  BY InitAges, NextAges, PTL DEF Spec

\* Every table of AgentReports and every local of a read keeps its type: in
\* particular no counter beyond what the column holds is stored.
THEOREM ReportsTyped == Spec => []TypeOK
<1>1. AgeInv => TypeOK
  <2> SUFFICES ASSUME AgeInv PROVE TypeOK
    OBVIOUS
  <2>1. /\ snap \in [Devices -> TelemetryRow] /\ silent \in [Devices -> 0..OldAge]
        /\ ident \in [Devices -> 0..MaxReports] /\ sent \in [Devices -> Seq(Reports)]
        /\ back \in 0..MaxBack /\ ahead \in 0..MaxAhead
    BY DEF AgeInv, TelemetryTyped, NetworkTyped
  <2>2. \A d \in Devices : wanRows[d] \subseteq WANRow /\ lanRows[d] \subseteq LANRow
    BY DEF AgeInv, NetworkTyped
  <2>3. \A p \in Readers : rd[p] \in ReaderState
    BY DEF AgeInv, ReadersTyped
  <2>4. \A p \in Readers :
           /\ rd[p].pc \in Labels /\ rd[p].device \in Devices \cup {NULL}
           /\ rd[p].row \in TelemetryRow
           /\ rd[p].since \in 0..MaxReports /\ rd[p].ident \in 0..MaxReports
    BY <2>3 DEF ReaderState
  <2> QED
    BY <2>1, <2>2, <2>4 DEF TypeOK, WANRow, LANRow, Labels
<1> QED
  BY <1>1, Aging, PTL

\* statusFrom in telemetry/service.go judges by a wall clock that may be set back
\* and ahead.  For every threshold and any number of corrections: "online" outlasts
\* the threshold by the corrections back at most, and "offline" comes before it by
\* those ahead at most, so by nothing when there were none.
THEOREM SilenceIsJudged == Spec => []SilenceJudged
<1>1. AgeInv => SilenceJudged
  <2> SUFFICES ASSUME AgeInv PROVE SilenceJudged
    OBVIOUS
  <2>1. /\ back \in 0..MaxBack /\ ahead \in 0..MaxAhead
        /\ \A d \in Devices : silent[d] \in 0..OldAge
    BY DEF AgeInv, TelemetryTyped
  <2>2. ASSUME NEW d \in Devices
        PROVE  /\ statusFrom(snap[d]) = "online" => silent[d] <= Threshold + back
               /\ statusFrom(snap[d]) = "offline" => silent[d] + ahead > Threshold
    <3>1. CASE snap[d] = NoRow
      BY <3>1 DEF statusFrom
    <3>2. CASE snap[d] # NoRow
      <4>1. silent[d] - back <= snap[d].age /\ snap[d].age <= silent[d] + ahead
        BY <3>2 DEF AgeInv, RowAge
      <4>2. snap[d].age \in (- MaxBack)..OldAge
        BY <3>2, RowParts DEF AgeInv, TelemetryTyped
      <4> QED
        BY <2>1, <3>2, <4>1, <4>2, Bounds DEF statusFrom
    <3> QED
      BY <3>1, <3>2
  <2>3. ASSUME NEW p \in Readers, rd[p].pc = "judge", statusFrom(rd[p].row) = "online"
        PROVE  silent[rd[p].device] <= Threshold + back
    <3>1. rd[p].row # NoRow /\ rd[p].row.age <= Threshold
      BY <2>3 DEF statusFrom
    <3>2. rd[p].device \in Devices /\ silent[rd[p].device] - back <= rd[p].row.age
      BY <2>3, <3>1 DEF AgeInv, ReadersTyped, FetchedAge
    <3>3. rd[p].row.age \in (- MaxBack)..OldAge
      BY <3>1, RowParts DEF AgeInv, ReadersTyped, ReaderState
    <3> QED
      BY <2>1, <3>1, <3>2, <3>3, Bounds
  <2> QED
    BY <2>2, <2>3 DEF SilenceJudged
<1> QED
  BY <1>1, Aging, PTL

-----------------------------------------------------------------------------
(* Counters. *)

LimitKept ==
    \A d \in Devices : snap[d] # NoRow => snap[d].total = 0 \/ snap[d].avail <= snap[d].total

LEMMA NextLimit == AgeInv /\ LimitKept /\ [Next]_vars => LimitKept'
<1> SUFFICES ASSUME AgeInv, LimitKept, [Next]_vars PROVE LimitKept'
  OBVIOUS
<1>1. \A d \in Devices : snap[d] \in TelemetryRow
  BY DEF AgeInv, TelemetryTyped
<1>2. CASE UNCHANGED snap
  BY <1>2 DEF LimitKept
<1>3. ASSUME NEW d \in Devices, NEW in \in Inputs, Heartbeat(d, in) PROVE LimitKept'
  <2>1. snap' = [snap EXCEPT ![d] = Merged(d, in)]
    BY <1>3 DEF Heartbeat
  <2>2. Merged(d, in).total = 0 \/ Merged(d, in).avail <= Merged(d, in).total
    BY <1>3, MergedRow DEF Heartbeat, AgeInv
  <2>3. ASSUME NEW e \in Devices, snap'[e] # NoRow
        PROVE  snap'[e].total = 0 \/ snap'[e].avail <= snap'[e].total
    <3>1. CASE e = d
      BY <2>1, <2>2, <3>1 DEF AgeInv, TelemetryTyped
    <3>2. CASE e # d
      BY <2>1, <2>3, <3>2 DEF AgeInv, TelemetryTyped, LimitKept
    <3> QED
      BY <3>1, <3>2
  <2> QED
    BY <2>3 DEF LimitKept
<1>4. CASE Tick \/ SetClockAhead
  <2>1. \A d \in Devices : snap'[d] = Aged(snap[d], Older)
    BY <1>4 DEF Tick, SetClockAhead, Shift
  <2>2. ASSUME NEW d \in Devices, snap'[d] # NoRow
        PROVE  snap'[d].total = 0 \/ snap'[d].avail <= snap'[d].total
    <3>1. /\ snap[d] # NoRow
          /\ snap'[d].total = snap[d].total /\ snap'[d].avail = snap[d].avail
      BY <1>1, <2>1, <2>2, OlderRow
    <3> QED
      BY <3>1 DEF LimitKept
  <2> QED
    BY <2>2 DEF LimitKept
<1>5. CASE SetClockBack
  <2>1. \A d \in Devices : snap'[d] = Aged(snap[d], Earlier)
    BY <1>5 DEF SetClockBack, Shift, Aged, Earlier
  <2>2. ASSUME NEW d \in Devices, snap'[d] # NoRow
        PROVE  snap'[d].total = 0 \/ snap'[d].avail <= snap'[d].total
    <3>1. snap[d] # NoRow /\ snap'[d] = [snap[d] EXCEPT !.age = snap[d].age - 1]
      BY <2>1, <2>2 DEF Aged, Earlier
    <3>2. snap'[d].total = snap[d].total /\ snap'[d].avail = snap[d].avail
      BY <1>1, <3>1, RowParts
    <3> QED
      BY <3>1, <3>2 DEF LimitKept
  <2> QED
    BY <2>2 DEF LimitKept
<1>6. Next => \/ \E d \in Devices, in \in Inputs : Heartbeat(d, in)
              \/ UNCHANGED snap \/ Tick \/ SetClockBack \/ SetClockAhead
  BY DEF Next, Report, Read, ReadTelemetry, ReadDevice, ReadIdent, ReadWANs, ReadNetworks,
         Answer, Step, telemetry
<1> QED
  BY <1>2, <1>3, <1>4, <1>5, <1>6 DEF vars, telemetry

THEOREM Limits == Spec => [](AgeInv /\ LimitKept)
<1>1. Init => LimitKept
  BY DEF Init, LimitKept
<1> QED
  BY <1>1, InitAges, NextAges, NextLimit, PTL DEF Spec

\* Report in telemetry/service.go validates the row with the fields it keeps: no
\* sequence of partial heartbeats, of any size, makes it refuse a presence-only
\* heartbeat or a pair that keeps its limit.
THEOREM PresenceIsAccepted == Spec => []PresenceAccepted
<1>1. AgeInv /\ LimitKept => PresenceAccepted
  <2> SUFFICES ASSUME AgeInv, LimitKept, NEW d \in Devices PROVE
          /\ snap[d] # NoRow => snap[d].total = 0 \/ snap[d].avail <= snap[d].total
          /\ \A in \in Inputs :
                \/ in.total = NULL /\ in.avail = NULL
                \/ /\ {in.total, in.avail} \subseteq Counters
                   /\ in.total = 0 \/ in.avail <= in.total
                => Accepts(d, in)
    BY DEF PresenceAccepted
  <2> DEFINE old == IF snap[d] = NoRow THEN NewRow ELSE snap[d]
  <2>1. old.total = 0 \/ (old.total > 0 => old.avail <= old.total)
    BY DEF LimitKept, NewRow
  <2>2. old.total \in Counters /\ old.avail \in Counters
    BY RowParts, Bounds DEF AgeInv, TelemetryTyped, NewRow, Counters
  <2>3. \A in : Merged(d, in) = applyHeartbeat(old, in)
    BY DEF Merged
  <2> HIDE DEF old
  <2>4. ASSUME NEW in \in Inputs, in.total = NULL, in.avail = NULL PROVE Accepts(d, in)
    BY <2>1, <2>2, <2>3, <2>4, Bounds
       DEF Accepts, validateInput, validateSnapshot, applyHeartbeat, Counters
  <2>5. ASSUME NEW in \in Inputs, {in.total, in.avail} \subseteq Counters,
               in.total = 0 \/ in.avail <= in.total
        PROVE  Accepts(d, in)
    <3>1. in.total # NULL /\ in.avail # NULL
      BY <2>5, Bounds
    <3>2. Merged(d, in).total = in.total /\ Merged(d, in).avail = in.avail
      BY <2>3, <3>1 DEF applyHeartbeat
    <3> QED
      BY <2>5, <3>2 DEF Accepts, validateInput, validateSnapshot
  <2> QED
    BY <2>4, <2>5 DEF LimitKept
<1> QED
  BY <1>1, Limits, PTL

-----------------------------------------------------------------------------
(* Network reports. *)

Count(d) == Len(sent[d])

TablesAgree ==
    \A d \in Devices : /\ ident[d] = Count(d)
                       /\ wanRows[d] = WANsOf(d, Count(d))
                       /\ lanRows[d] = LANsOf(d, Count(d))

\* The snapshot a reader has is of a report stored after the read began;
\* it stops at a snapshot that is not there, unless it reads the fleet.
SnapshotRead(r) ==
    /\ r.since <= r.ident /\ r.ident <= Count(r.device)
    /\ r.ident = 0 => r.fleet

Blank(r) == r.wans = {} /\ r.lans = {}

ListsAdvance(r) ==
    \E j, k \in 0..Count(r.device) :
        /\ r.since <= r.ident /\ r.ident <= j /\ j <= k
        /\ r.wans = WANsOf(r.device, j) /\ r.lans = LANsOf(r.device, k)
        /\ r.ident = 0 /\ ~ r.fleet => j = 0 /\ k = 0

ReaderAgrees(r) ==
    /\ r.pc = "ident" => Blank(r) /\ r.since <= Count(r.device)
    /\ r.pc = "wans" => SnapshotRead(r)
    /\ r.pc = "lans" => /\ SnapshotRead(r)
                        /\ \E j \in 0..Count(r.device) :
                              r.ident <= j /\ r.wans = WANsOf(r.device, j)
    /\ r.pc = "answer" => ListsAdvance(r)

ReadersAgree == \A p \in Readers : ReaderAgrees(rd[p])

ReadInv == AgeInv /\ TablesAgree /\ ReadersAgree

LEMMA CountTyped ==
    ASSUME AgeInv, NEW d \in Devices
    PROVE  /\ sent[d] \in Seq(Reports) /\ Count(d) \in Nat
           /\ WANsOf(d, 0) = {} /\ LANsOf(d, 0) = {}
  BY DEF AgeInv, NetworkTyped, Count, WANsOf, LANsOf

\* A step that changes nothing a reader of reports looks at keeps ReadInv.
LEMMA SameReports ==
    ASSUME ReadInv, AgeInv', UNCHANGED network,
           \A p \in Readers : ReaderAgrees(rd'[p])
    PROVE  ReadInv'
<1>1. \A d \in Devices : Count(d)' = Count(d)
  BY DEF Count, network
<1>2. TablesAgree'
  BY DEF ReadInv, TablesAgree, Count, WANsOf, LANsOf, network
<1>3. ReadersAgree'
  BY DEF ReadersAgree, ReaderAgrees, Blank, SnapshotRead, ListsAdvance, Count, WANsOf, LANsOf,
         network
<1> QED
  BY <1>2, <1>3 DEF ReadInv

LEMMA ReadKeepsReports ==
    ASSUME ReadInv, NEW p \in Readers, Read(p) PROVE ReadInv'
<1>0. /\ rd[p] \in ReaderState /\ rd \in [Readers -> ReaderState] /\ AgeInv'
      /\ rd[p].pc = "idle" \/ rd[p].device \in Devices
      /\ ReaderAgrees(rd[p])
  BY ReadKeepsAges DEF ReadInv, AgeInv, ReadersTyped, ReadersAgree
<1>1. ASSUME NEW r, Step(p, r), ReaderAgrees(r) PROVE ReadInv'
  <2>1. rd' = [rd EXCEPT ![p] = r] /\ UNCHANGED network
    BY <1>1 DEF Step
  <2>2. \A q \in Readers : ReaderAgrees(rd'[q])
    BY <1>0, <1>1, <2>1 DEF ReadInv, ReadersAgree
  <2> QED
    BY <1>0, <2>1, <2>2, SameReports
<1>2. \A d \in Devices : /\ ident[d] = Count(d) /\ Count(d) \in Nat
                         /\ wanRows[d] = WANsOf(d, Count(d))
                         /\ lanRows[d] = LANsOf(d, Count(d))
                         /\ WANsOf(d, 0) = {} /\ LANsOf(d, 0) = {}
  BY CountTyped DEF ReadInv, TablesAgree
<1>3. ASSUME NEW d \in Devices, ReadTelemetry(p, d) PROVE ReadInv'
  <2> DEFINE r == [Idle EXCEPT !.pc = "judge", !.device = d, !.row = snap[d]]
  <2>1. Step(p, r)
    BY <1>3 DEF ReadTelemetry
  <2>2. ReaderAgrees(r)
    BY DEF ReaderAgrees, Idle
  <2> QED
    BY <1>1, <2>1, <2>2
<1>4. ASSUME NEW d \in Devices, NEW fleet \in BOOLEAN, ReadDevice(p, d, fleet) PROVE ReadInv'
  <2> DEFINE r == [Idle EXCEPT !.pc = "ident", !.device = d, !.fleet = fleet,
                               !.since = ident[d]]
  <2>1. Step(p, r)
    BY <1>4 DEF ReadDevice
  <2>2. /\ r.pc = "ident" /\ r.device = d /\ r.since = ident[d]
        /\ r.wans = {} /\ r.lans = {}
    BY DEF Idle
  <2>3. ReaderAgrees(r)
    <3> HIDE DEF r
    <3> QED
      BY <1>2, <2>2 DEF ReaderAgrees, Blank
  <2> QED
    BY <1>1, <2>1, <2>3
<1>5. ASSUME ReadIdent(p) PROVE ReadInv'
  <2> DEFINE d == rd[p].device
             n == ident[d]
             l == IF n = 0 /\ ~ rd[p].fleet THEN "answer" ELSE "wans"
             r == [rd[p] EXCEPT !.ident = n, !.pc = l]
  <2>1. Step(p, r) /\ rd[p].pc = "ident" /\ d \in Devices
    BY <1>0, <1>5 DEF ReadIdent
  <2>2. /\ r.pc = l /\ r.device = d /\ r.since = rd[p].since /\ r.ident = n
        /\ r.fleet = rd[p].fleet /\ r.wans = rd[p].wans /\ r.lans = rd[p].lans
    BY <1>0 DEF ReaderState
  <2>3. rd[p].wans = {} /\ rd[p].lans = {} /\ rd[p].since <= Count(d)
    BY <1>0, <2>1 DEF ReaderAgrees, Blank
  <2>4. n = Count(d) /\ n \in Nat /\ WANsOf(d, 0) = {} /\ LANsOf(d, 0) = {}
    BY <1>2, <2>1
  <2>5. rd[p].since \in Nat
    BY <1>0, Bounds DEF ReaderState
  <2>6. ReaderAgrees(r)
    <3> HIDE DEF r
    <3>1. CASE n = 0 /\ ~ rd[p].fleet
      <4>1. r.pc = "answer" /\ r.since = 0
        BY <2>2, <2>3, <2>4, <2>5, <3>1
      <4>2. ListsAdvance(r)
        BY <2>2, <2>3, <2>4, <3>1, <4>1 DEF ListsAdvance
      <4> QED
        BY <4>1, <4>2 DEF ReaderAgrees
    <3>2. CASE ~ (n = 0 /\ ~ rd[p].fleet)
      BY <2>2, <2>3, <2>4, <3>2 DEF ReaderAgrees, SnapshotRead
    <3> QED
      BY <3>1, <3>2
  <2> HIDE DEF r
  <2> QED
    BY <1>1, <2>1, <2>6
<1>6. CASE ReadWANs(p)
  <2> DEFINE d == rd[p].device
             r == [rd[p] EXCEPT !.wans = wanRows[d], !.pc = "lans"]
  <2>1. Step(p, r) /\ rd[p].pc = "wans" /\ d \in Devices
    BY <1>0, <1>6 DEF ReadWANs
  <2>2. /\ r.pc = "lans" /\ r.device = d /\ r.since = rd[p].since /\ r.ident = rd[p].ident
        /\ r.fleet = rd[p].fleet /\ r.wans = wanRows[d]
    BY <1>0 DEF ReaderState
  <2>3. SnapshotRead(rd[p])
    BY <1>0, <2>1 DEF ReaderAgrees
  <2>4. wanRows[d] = WANsOf(d, Count(d)) /\ Count(d) \in Nat
    BY <1>2, <2>1
  <2> HIDE DEF r
  <2>5. SnapshotRead(r)
    BY <2>2, <2>3 DEF SnapshotRead
  <2>6. Count(d) \in 0..Count(d) /\ r.ident <= Count(d) /\ r.wans = WANsOf(d, Count(d))
    BY <2>2, <2>3, <2>4 DEF SnapshotRead
  <2>7. ReaderAgrees(r)
    BY <2>2, <2>5, <2>6 DEF ReaderAgrees
  <2> QED
    BY <1>1, <2>1, <2>7
<1>7. CASE ReadNetworks(p)
  <2> DEFINE d == rd[p].device
             r == [rd[p] EXCEPT !.lans = lanRows[d], !.pc = "answer"]
  <2>1. Step(p, r) /\ rd[p].pc = "lans" /\ d \in Devices
    BY <1>0, <1>7 DEF ReadNetworks
  <2>2. /\ r.pc = "answer" /\ r.device = d /\ r.since = rd[p].since /\ r.ident = rd[p].ident
        /\ r.fleet = rd[p].fleet /\ r.wans = rd[p].wans /\ r.lans = lanRows[d]
    BY <1>0 DEF ReaderState
  <2>3. PICK j \in 0..Count(d) : rd[p].ident <= j /\ rd[p].wans = WANsOf(d, j)
    BY <1>0, <2>1 DEF ReaderAgrees
  <2>4. SnapshotRead(rd[p])
    BY <1>0, <2>1 DEF ReaderAgrees
  <2>5. lanRows[d] = LANsOf(d, Count(d)) /\ Count(d) \in Nat
    BY <1>2, <2>1
  <2> HIDE DEF r
  <2>6. Count(d) \in 0..Count(d) /\ j <= Count(d)
    BY <2>3, <2>5
  <2>7. ListsAdvance(r)
    BY <2>2, <2>3, <2>4, <2>5, <2>6 DEF ListsAdvance, SnapshotRead
  <2>8. ReaderAgrees(r)
    BY <2>2, <2>7 DEF ReaderAgrees
  <2> QED
    BY <1>1, <2>1, <2>8
<1>8. CASE Answer(p)
  <2>1. Step(p, Idle)
    BY <1>8 DEF Answer
  <2>2. ReaderAgrees(Idle)
    BY DEF ReaderAgrees, Idle
  <2> QED
    BY <1>1, <2>1, <2>2
<1> QED
  BY <1>3, <1>4, <1>5, <1>6, <1>7, <1>8 DEF Read

\* A new report changes nothing about the earlier ones.
LEMMA HistoryGrows ==
    ASSUME AgeInv, NEW d \in Devices, NEW r \in Reports, Report(d, r), NEW e \in Devices
    PROVE  /\ Count(e) \in Nat /\ Count(e)' \in Nat /\ Count(e) <= Count(e)'
           /\ \A n \in 0..Count(e) : WANsOf(e, n)' = WANsOf(e, n) /\ LANsOf(e, n)' = LANsOf(e, n)
           /\ e = d => /\ Count(e)' = Count(e) + 1
                       /\ WANsOf(e, Count(e))' = Rows(Count(e) + 1, r.wans)
                       /\ LANsOf(e, Count(e))' = Rows(Count(e) + 1, r.lans)
<1>1. sent[e] \in Seq(Reports) /\ sent' = [sent EXCEPT ![d] = Append(sent[d], r)]
  BY DEF AgeInv, NetworkTyped, Report
<1>2. CASE e # d
  <2>1. sent'[e] = sent[e]
    BY <1>1, <1>2 DEF AgeInv, NetworkTyped
  <2> QED
    BY <1>1, <1>2, <2>1 DEF Count, WANsOf, LANsOf
<1>3. CASE e = d
  <2>1. sent'[e] = Append(sent[e], r)
    BY <1>1, <1>3 DEF AgeInv, NetworkTyped
  <2>2. /\ Len(sent'[e]) = Len(sent[e]) + 1 /\ Len(sent[e]) \in Nat
        /\ sent'[e][Len(sent[e]) + 1] = r
        /\ \A n \in 1..Len(sent[e]) : sent'[e][n] = sent[e][n]
    BY <1>1, <2>1
  <2>3. \A n \in 0..Count(e) : WANsOf(e, n)' = WANsOf(e, n) /\ LANsOf(e, n)' = LANsOf(e, n)
    BY <2>2 DEF Count, WANsOf, LANsOf
  <2> QED
    BY <2>2, <2>3 DEF Count, WANsOf, LANsOf
<1> QED
  BY <1>2, <1>3

\* What a reader knows of the reports outlasts the next report.
LEMMA ReportKeepsReader ==
    ASSUME AgeInv, NEW d \in Devices, NEW r \in Reports, Report(d, r),
           NEW q \in ReaderState, q.pc = "idle" \/ q.device \in Devices, ReaderAgrees(q)
    PROVE  ReaderAgrees(q)'
<1> DEFINE e == q.device
<1>1. CASE q.pc \in {"idle", "judge"}
  BY <1>1 DEF ReaderAgrees
<1>2. CASE q.pc \in {"ident", "wans", "lans", "answer"}
  <2>1. /\ Count(e) \in Nat /\ Count(e)' \in Nat /\ Count(e) <= Count(e)'
        /\ \A n \in 0..Count(e) : /\ WANsOf(e, n)' = WANsOf(e, n)
                                  /\ LANsOf(e, n)' = LANsOf(e, n)
    BY <1>2, HistoryGrows
  <2>2. q.since \in Nat /\ q.ident \in Nat
    BY Bounds DEF ReaderState
  <2>3. \A j \in 0..Count(e) : j \in 0..Count(e)'
    BY <2>1
  <2>4. Blank(q) /\ q.since <= Count(e) => Blank(q) /\ q.since <= Count(e)'
    BY <2>1, <2>2
  <2>5. SnapshotRead(q) => /\ q.since <= q.ident /\ q.ident <= Count(e)'
                           /\ q.ident = 0 => q.fleet
    BY <2>1, <2>2 DEF SnapshotRead
  <2>6. ASSUME NEW j \in 0..Count(e), q.ident <= j, q.wans = WANsOf(e, j)
        PROVE  \E i \in 0..Count(e)' : q.ident <= i /\ q.wans = WANsOf(e, i)'
    BY <2>1, <2>3, <2>6
  <2>7. ListsAdvance(q) =>
          \E j, k \in 0..Count(e)' :
             /\ q.since <= q.ident /\ q.ident <= j /\ j <= k
             /\ q.wans = WANsOf(e, j)' /\ q.lans = LANsOf(e, k)'
             /\ q.ident = 0 /\ ~ q.fleet => j = 0 /\ k = 0
    <3> SUFFICES ASSUME NEW j \in 0..Count(e), NEW k \in 0..Count(e),
                        q.since <= q.ident, q.ident <= j, j <= k,
                        q.wans = WANsOf(e, j), q.lans = LANsOf(e, k),
                        q.ident = 0 /\ ~ q.fleet => j = 0 /\ k = 0
                 PROVE  \E i, m \in 0..Count(e)' :
                           /\ q.since <= q.ident /\ q.ident <= i /\ i <= m
                           /\ q.wans = WANsOf(e, i)' /\ q.lans = LANsOf(e, m)'
                           /\ q.ident = 0 /\ ~ q.fleet => i = 0 /\ m = 0
      BY DEF ListsAdvance
    <3>1. WANsOf(e, j)' = WANsOf(e, j) /\ LANsOf(e, k)' = LANsOf(e, k)
      BY <2>1
    <3> QED
      BY <2>3, <3>1
  <2> QED
    BY <1>2, <2>4, <2>5, <2>6, <2>7
       DEF ReaderAgrees, SnapshotRead, ListsAdvance, Blank
<1> QED
  BY <1>1, <1>2 DEF ReaderState, Labels

LEMMA ReportKeepsReports ==
    ASSUME ReadInv, NEW d \in Devices, NEW r \in Reports, Report(d, r) PROVE ReadInv'
<1>1. AgeInv' /\ rd' = rd
  BY ReportKeepsAges DEF ReadInv, Report
<1>2. TablesAgree'
  <2> DEFINE n == Len(sent[d]) + 1
  <2>1. /\ ident' = [ident EXCEPT ![d] = n]
        /\ wanRows' = [wanRows EXCEPT ![d] = Rows(n, r.wans)]
        /\ lanRows' = [lanRows EXCEPT ![d] = Rows(n, r.lans)]
    BY DEF Report
  <2>2. ASSUME NEW e \in Devices
        PROVE  /\ ident'[e] = Count(e)' /\ wanRows'[e] = WANsOf(e, Count(e))'
               /\ lanRows'[e] = LANsOf(e, Count(e))'
    <3>1. CASE e = d
      <4>1. /\ Count(e)' = n /\ WANsOf(e, Count(e))' = Rows(n, r.wans)
            /\ LANsOf(e, Count(e))' = Rows(n, r.lans)
        BY <3>1, HistoryGrows DEF ReadInv, Count
      <4>2. ident'[e] = n /\ wanRows'[e] = Rows(n, r.wans) /\ lanRows'[e] = Rows(n, r.lans)
        BY <2>1, <3>1 DEF ReadInv, AgeInv, NetworkTyped
      <4> QED
        BY <4>1, <4>2
    <3>2. CASE e # d
      <4>1. sent'[e] = sent[e]
        BY <3>2 DEF Report, ReadInv, AgeInv, NetworkTyped
      <4>2. ident'[e] = ident[e] /\ wanRows'[e] = wanRows[e] /\ lanRows'[e] = lanRows[e]
        BY <2>1, <3>2 DEF ReadInv, AgeInv, NetworkTyped
      <4>3. /\ ident[e] = Count(e) /\ wanRows[e] = WANsOf(e, Count(e))
            /\ lanRows[e] = LANsOf(e, Count(e))
        BY DEF ReadInv, TablesAgree
      <4> QED
        BY <4>1, <4>2, <4>3 DEF Count, WANsOf, LANsOf
    <3> QED
      BY <3>1, <3>2
  <2> QED
    BY <2>2 DEF TablesAgree
<1>3. ReadersAgree'
  <2>1. \A p \in Readers : /\ rd[p] \in ReaderState /\ ReaderAgrees(rd[p])
                           /\ rd[p].pc = "idle" \/ rd[p].device \in Devices
    BY DEF ReadInv, AgeInv, ReadersTyped, ReadersAgree
  <2>2. \A q : /\ q \in ReaderState /\ ReaderAgrees(q)
               /\ q.pc = "idle" \/ q.device \in Devices
              => ReaderAgrees(q)'
    BY ReportKeepsReader DEF ReadInv
  <2>3. \A p \in Readers : \E q : q = rd[p] /\ ReaderAgrees(q)'
    BY <2>1, <2>2
  <2> QED
    BY <1>1, <2>3 DEF ReadersAgree
<1> QED
  BY <1>1, <1>2, <1>3 DEF ReadInv

\* The clock changes the fetched telemetry rows only.
LEMMA ClockKeepsReports ==
    ASSUME ReadInv, Tick \/ SetClockBack \/ SetClockAhead PROVE ReadInv'
<1>1. AgeInv' /\ UNCHANGED network
  BY OlderKeepsAges, BackKeepsAges DEF ReadInv, Tick, SetClockBack, SetClockAhead
<1>2. \A p \in Readers : \E row : rd'[p] = [rd[p] EXCEPT !.row = row]
  BY DEF Tick, SetClockBack, SetClockAhead, Shift
<1>3. ASSUME NEW p \in Readers PROVE ReaderAgrees(rd'[p])
  <2>1. rd[p] \in ReaderState /\ ReaderAgrees(rd[p])
    BY DEF ReadInv, AgeInv, ReadersTyped, ReadersAgree
  <2>2. PICK row : rd'[p] = [rd[p] EXCEPT !.row = row]
    BY <1>2
  <2>3. /\ rd'[p].pc = rd[p].pc /\ rd'[p].device = rd[p].device
        /\ rd'[p].since = rd[p].since /\ rd'[p].ident = rd[p].ident
        /\ rd'[p].wans = rd[p].wans /\ rd'[p].lans = rd[p].lans /\ rd'[p].fleet = rd[p].fleet
    BY <2>1, <2>2 DEF ReaderState
  <2> QED
    BY <2>1, <2>3 DEF ReaderAgrees, Blank, SnapshotRead, ListsAdvance
<1> QED
  BY <1>1, <1>3, SameReports

LEMMA HeartbeatKeepsReports ==
    ASSUME ReadInv, NEW d \in Devices, NEW in \in Inputs, Heartbeat(d, in) PROVE ReadInv'
<1>1. AgeInv' /\ UNCHANGED network /\ rd' = rd
  BY HeartbeatKeepsAges DEF ReadInv, Heartbeat
<1> QED
  BY <1>1, SameReports DEF ReadInv, ReadersAgree

LEMMA InitReports == Init => ReadInv
<1> SUFFICES ASSUME Init PROVE ReadInv
  OBVIOUS
<1>1. TablesAgree
  BY DEF Init, TablesAgree, Count, WANsOf, LANsOf
<1>2. ReadersAgree
  BY DEF Init, ReadersAgree, ReaderAgrees, Idle
<1> QED
  BY <1>1, <1>2, InitAges DEF ReadInv

LEMMA NextReports == ReadInv /\ [Next]_vars => ReadInv'
<1> SUFFICES ASSUME ReadInv, [Next]_vars PROVE ReadInv'
  OBVIOUS
<1>1. CASE UNCHANGED vars
  <2>1. AgeInv' /\ UNCHANGED network /\ rd' = rd
    BY <1>1, NextAges DEF ReadInv, vars
  <2> QED
    BY <2>1, SameReports DEF ReadInv, ReadersAgree
<1>2. CASE Next
  BY <1>2, HeartbeatKeepsReports, ReportKeepsReports, ReadKeepsReports, ClockKeepsReports
     DEF Next
<1> QED
  BY <1>1, <1>2

\* Context and ListContexts in networkcontext/service.go read in several statements
\* what Report replaces in one transaction: for any readers and reports, each list
\* they answer is one whole report's, none older than the snapshot it comes with.
THEOREM ReadsOnlyAdvance == Spec => []ReadsAdvance
<1>1. ReadInv => ReadsAdvance
  <2> SUFFICES ASSUME ReadInv, NEW p \in Readers, rd[p].pc = "answer"
               PROVE  \E j \in rd[p].ident..Len(sent[rd[p].device]) :
                        \E k \in j..Len(sent[rd[p].device]) :
                           /\ rd[p].since <= rd[p].ident
                           /\ rd[p].wans = WANsOf(rd[p].device, j)
                           /\ rd[p].lans = LANsOf(rd[p].device, k)
                           /\ rd[p].ident = 0 /\ ~ rd[p].fleet => j = 0 /\ k = 0
    BY DEF ReadsAdvance
  <2>1. ListsAdvance(rd[p]) /\ rd[p] \in ReaderState /\ rd[p].device \in Devices
    BY DEF ReadInv, ReadersAgree, ReaderAgrees, AgeInv, ReadersTyped
  <2>2. Len(sent[rd[p].device]) \in Nat /\ rd[p].ident \in Nat
    BY <2>1, CountTyped, Bounds DEF ReadInv, Count, ReaderState
  <2>3. PICK j, k \in 0..Count(rd[p].device) :
           /\ rd[p].since <= rd[p].ident /\ rd[p].ident <= j /\ j <= k
           /\ rd[p].wans = WANsOf(rd[p].device, j) /\ rd[p].lans = LANsOf(rd[p].device, k)
           /\ rd[p].ident = 0 /\ ~ rd[p].fleet => j = 0 /\ k = 0
    BY <2>1 DEF ListsAdvance
  <2>4. /\ j \in rd[p].ident..Len(sent[rd[p].device])
        /\ k \in j..Len(sent[rd[p].device])
    BY <2>2, <2>3 DEF Count
  <2> QED
    BY <2>3, <2>4
<1> QED
  BY <1>1, InitReports, NextReports, PTL DEF Spec
=============================================================================
