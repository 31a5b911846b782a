------------------------------ MODULE DDNSUpdate ------------------------------
(***************************************************************************)
(* ddns.Service.Update: an authenticated device publishes its address      *)
(* under a hostname.  The host row in SQLite and the record set in BIND    *)
(* are two stores written one after the other, without a transaction that  *)
(* spans the statements, by as many requests as clients send.  Every       *)
(* statement and every nsupdate is a step; the variables of a request are  *)
(* kept in req[q].  Authentication is the subject of CredentialRotation.   *)
(***************************************************************************)
EXTENDS Naturals, FiniteSets, SequencesExt

CONSTANTS
    Devices,            \* authenticated devices
    Labels,             \* host labels of the managed zone, as their dash-separated parts
    Name(_),            \* Name(d): the name of d, in the same form
    Addrs,              \* addresses
    Family(_),          \* Family(a): "A" or "AAAA"
    Requests,           \* requests served concurrently
    AutocreatePolicy,   \* "any" or "device-prefix"
    ClientsWait,        \* TRUE: a device waits for its answer before it updates a host again
    MaxMoves,           \* bound: times a device's WAN address changes
    MaxFaults,          \* bound: failed statements and updates, crashes
    NULL

ASSUME UpdateAssumption ==
    /\ NULL \notin Devices /\ NULL \notin Addrs
    /\ \A a \in Addrs : Family(a) \in {"A", "AAAA"}
    /\ AutocreatePolicy \in {"any", "device-prefix"}
    /\ ClientsWait \in BOOLEAN
    /\ {MaxMoves, MaxFaults} \subseteq Nat

VARIABLES
    domain,     \* the zone has a row in table domains
    hosts,      \* hosts[l]: the row of table hosts for l, or NoHost
    lastIP,     \* lastIP[d]: column last_ip of table devices
    zone,       \* zone[l]: addresses BIND serves for l
    req,        \* the local state of the requests
    told,       \* told[d][l]: d's last good or nochg about l, NoAnswer after an error
    wan,        \* wan[d]: the address d would publish now
    moves, faults

vars == <<domain, hosts, lastIP, zone, req, told, wan, moves, faults>>
database == <<domain, hosts, lastIP>>
world == <<wan, moves, faults>>

NoHost == [owner |-> NULL, addr |-> NULL]
NoAnswer == [code |-> "none", addr |-> NULL]
Idle == [pc |-> "idle", dev |-> NULL, label |-> NULL, addr |-> NULL, host |-> NoHost]

HostRow == [owner : Devices \cup {NULL}, addr : Addrs \cup {NULL}]
Answer == [code : {"none", "good", "nochg"}, addr : Addrs \cup {NULL}]

\* The label is the device's name, or continues it after a dash.
canAutocreate(d, l) == AutocreatePolicy = "any" \/ IsPrefix(Name(d), l)

\* At most one device may create the label: the policy is the device's name, and no
\* two names lead to it.
Uncontested(l) ==
    \A c, d \in Devices : canAutocreate(c, l) /\ canAutocreate(d, l) => c = d

InFlight(d, l) ==
    \E q \in Requests : req[q].pc # "idle" /\ req[q].dev = d /\ req[q].label = l

-----------------------------------------------------------------------------
\* EnsureDomains has seeded the zone, unless its configured name ends in a dot and
\* a blank, which splitCSV does not normalise as splitManagedFQDN does.
Init ==
    /\ domain \in BOOLEAN
    /\ hosts = [l \in Labels |-> NoHost]
    /\ lastIP = [d \in Devices |-> NULL]
    /\ zone = [l \in Labels |-> {}]
    /\ req = [q \in Requests |-> Idle]
    /\ told = [d \in Devices |-> [l \in Labels |-> NoAnswer]]
    /\ wan \in [Devices -> Addrs]
    /\ moves = 0
    /\ faults = 0

Goto(q, label) == req' = [req EXCEPT ![q].pc = label]

\* The request ends with good or nochg, or with an error.
Reply(q, code) ==
    /\ req' = [req EXCEPT ![q] = Idle]
    /\ told' = [told EXCEPT ![req[q].dev][req[q].label] = [code |-> code, addr |-> req[q].addr]]
Fail(q) ==
    /\ req' = [req EXCEPT ![q] = Idle]
    /\ told' = [told EXCEPT ![req[q].dev][req[q].label] = NoAnswer]

\* badauth says nothing about the record.
Refuse(q) == req' = [req EXCEPT ![q] = Idle] /\ UNCHANGED told

Arrive(q, d, l) ==
    /\ req[q].pc = "idle"
    /\ ClientsWait => ~ InFlight(d, l)
    /\ req' = [req EXCEPT ![q] = [Idle EXCEPT !.pc = "domain", !.dev = d, !.label = l,
                                              !.addr = wan[d]]]
    /\ UNCHANGED <<database, zone, told, world>>

FindDomain(q) ==
    /\ req[q].pc = "domain"
    /\ Goto(q, IF domain THEN "host" ELSE "mkdomain")
    /\ UNCHANGED <<database, zone, told, world>>

\* The unique name makes the second of two concurrent creations fail.
CreateDomain(q) ==
    /\ req[q].pc = "mkdomain"
    /\ IF domain THEN Fail(q) ELSE Goto(q, "host") /\ UNCHANGED told
    /\ domain' = TRUE
    /\ UNCHANGED <<hosts, lastIP, zone, world>>

\* Mutant: whose row it is is not asked.
FindHostOfAnyone(q) ==
    LET row == hosts[req[q].label]
        d   == req[q].dev
    IN  /\ req[q].pc = "host"
        /\ \/ /\ row = NoHost /\ ~ canAutocreate(d, req[q].label)
              /\ Refuse(q)
           \/ /\ row # NoHost /\ row.addr = req[q].addr
              /\ Goto(q, "nochg") /\ UNCHANGED told
           \/ /\ \/ row = NoHost /\ canAutocreate(d, req[q].label)
                 \/ row # NoHost /\ row.addr # req[q].addr
              /\ req' = [req EXCEPT ![q].pc = "upsert", ![q].host = row]
              /\ UNCHANGED told
        /\ UNCHANGED <<database, zone, world>>

\* Mutant: a row with an address of the same family needs no update.
FindHostOfSameFamily(q) ==
    LET row == hosts[req[q].label]
        d   == req[q].dev
        same == row.addr # NULL /\ Family(row.addr) = Family(req[q].addr)
    IN  /\ req[q].pc = "host"
        /\ \/ /\ row = NoHost /\ ~ canAutocreate(d, req[q].label)
              /\ Refuse(q)
           \/ /\ row # NoHost /\ row.owner # d
              /\ Refuse(q)
           \/ /\ row.owner = d /\ same
              /\ Goto(q, "nochg") /\ UNCHANGED told
           \/ /\ \/ row = NoHost /\ canAutocreate(d, req[q].label)
                 \/ row.owner = d /\ ~ same
              /\ req' = [req EXCEPT ![q].pc = "upsert", ![q].host = row]
              /\ UNCHANGED told
        /\ UNCHANGED <<database, zone, world>>

\* The host row is read; what follows decides on this copy of it.
FindHost(q) ==
    LET row == hosts[req[q].label]
        d   == req[q].dev
    IN  /\ req[q].pc = "host"
        /\ \/ /\ row = NoHost /\ ~ canAutocreate(d, req[q].label)
              /\ Refuse(q)
           \/ /\ row # NoHost /\ row.owner # d
              /\ Refuse(q)
           \/ /\ row.owner = d /\ row.addr = req[q].addr
              /\ Goto(q, "nochg") /\ UNCHANGED told
           \/ /\ \/ row = NoHost /\ canAutocreate(d, req[q].label)
                 \/ row.owner = d /\ row.addr # req[q].addr
              /\ req' = [req EXCEPT ![q].pc = "upsert", ![q].host = row]
              /\ UNCHANGED told
        /\ UNCHANGED <<database, zone, world>>

\* The device row is touched; an error of that statement is ignored.
TouchDevice(q) ==
    \/ lastIP' = [lastIP EXCEPT ![req[q].dev] = req[q].addr]
    \/ UNCHANGED lastIP

\* The client is told that nothing had to change.
NoChange(q) ==
    /\ req[q].pc = "nochg"
    /\ TouchDevice(q)
    /\ Reply(q, "nochg")
    /\ UNCHANGED <<domain, hosts, zone, world>>

\* Mutant: only records of the new address's own family are deleted.
ReplacedByFamily(old, a) == {x \in old : Family(x) # Family(a)} \cup {a}

\* Mutant: the record type and the address trade places in the script.
ReplacedSwapped(old, a) == {Family(a)}

\* buildUpsertScript: delete the A and the AAAA records, add the new one, send once.
Replaced(old, a) == {x \in old : Family(x) \notin {"A", "AAAA"}} \cup {a}

Upsert(q) ==
    /\ req[q].pc = "upsert"
    /\ zone' = [zone EXCEPT ![req[q].label] = Replaced(@, req[q].addr)]
    /\ Goto(q, "save")
    /\ UNCHANGED <<database, told, world>>

\* Mutant: Create overwrites a row that is already there.
SaveHostOverwrites(q) ==
    LET l == req[q].label
    IN  /\ req[q].pc = "save"
        /\ hosts' = [hosts EXCEPT ![l] = [owner |-> req[q].dev, addr |-> req[q].addr]]
        /\ Goto(q, "good")
        /\ UNCHANGED <<domain, lastIP, zone, told, world>>

\* Mutant: the address of the copy read earlier is saved.
SaveHostKeepsAddr(q) ==
    LET l == req[q].label
    IN  /\ req[q].pc = "save"
        /\ hosts[l] = NoHost \/ req[q].host # NoHost
        /\ hosts' = [hosts EXCEPT ![l] =
             IF req[q].host = NoHost THEN [owner |-> req[q].dev, addr |-> req[q].addr]
             ELSE req[q].host]
        /\ Goto(q, "good")
        /\ UNCHANGED <<domain, lastIP, zone, told, world>>

\* Create, which the unique index refuses if the row has appeared meanwhile, or
\* Save, which writes every column of the copy read before.
SaveHost(q) ==
    LET l    == req[q].label
        copy == req[q].host
    IN  /\ req[q].pc = "save"
        /\ \/ /\ copy = NoHost /\ hosts[l] = NoHost
              /\ hosts' = [hosts EXCEPT ![l] = [owner |-> req[q].dev, addr |-> req[q].addr]]
              /\ Goto(q, "good") /\ UNCHANGED told
           \/ /\ copy # NoHost
              /\ hosts' = [hosts EXCEPT ![l] = [copy EXCEPT !.addr = req[q].addr]]
              /\ Goto(q, "good") /\ UNCHANGED told
           \/ /\ copy = NoHost /\ hosts[l] # NoHost
              /\ Fail(q) /\ UNCHANGED hosts
        /\ UNCHANGED <<domain, lastIP, zone, world>>

Good(q) ==
    /\ req[q].pc = "good"
    /\ TouchDevice(q)
    /\ Reply(q, "good")
    /\ UNCHANGED <<domain, hosts, zone, world>>

-----------------------------------------------------------------------------
(* Faults and the outside world. *)

Fault == faults < MaxFaults /\ faults' = faults + 1

\* A statement fails before anything was published.
QueryFails(q) ==
    /\ Fault
    /\ req[q].pc \in {"domain", "mkdomain", "host"}
    /\ Fail(q)
    /\ UNCHANGED <<database, zone, wan, moves>>

\* nsupdate reports an error, with or without the update having been applied.
UpsertFails(q) ==
    /\ Fault
    /\ req[q].pc = "upsert"
    /\ \/ UNCHANGED zone
       \/ zone' = [zone EXCEPT ![req[q].label] = Replaced(@, req[q].addr)]
    /\ Fail(q)
    /\ UNCHANGED <<database, wan, moves>>

SaveFails(q) ==
    /\ Fault
    /\ req[q].pc = "save"
    /\ Fail(q)
    /\ UNCHANGED <<database, zone, wan, moves>>

Crash ==
    /\ Fault
    /\ req' = [q \in Requests |-> Idle]
    /\ told' = [d \in Devices |-> [l \in Labels |->
                   IF InFlight(d, l) THEN NoAnswer ELSE told[d][l]]]
    /\ UNCHANGED <<database, zone, wan, moves>>

Move(d, a) ==
    /\ moves < MaxMoves /\ moves' = moves + 1
    /\ a # wan[d] /\ wan' = [wan EXCEPT ![d] = a]
    /\ UNCHANGED <<database, zone, req, told, faults>>

-----------------------------------------------------------------------------
Serve(q) == \/ FindDomain(q) \/ CreateDomain(q) \/ FindHost(q) \/ NoChange(q)
            \/ Upsert(q) \/ SaveHost(q) \/ Good(q)

Next == \/ \E q \in Requests, d \in Devices, l \in Labels : Arrive(q, d, l)
        \/ \E q \in Requests : \/ Serve(q)
                               \/ QueryFails(q) \/ UpsertFails(q) \/ SaveFails(q)
        \/ Crash
        \/ \E d \in Devices, a \in Addrs : Move(d, a)

Spec == Init /\ [][Next]_vars

\* A request that is being served gets on.
FairSpec == Spec /\ \A q \in Requests : WF_vars(Serve(q))

\* Every device keeps updating the hosts it updates, as a DDNS client does.
ClientsRepeat ==
    \A d \in Devices, l \in Labels : SF_vars(\E q \in Requests : Arrive(q, d, l))

-----------------------------------------------------------------------------
(* Properties. *)

TypeOK ==
    /\ domain \in BOOLEAN
    /\ hosts \in [Labels -> HostRow]
    /\ lastIP \in [Devices -> Addrs \cup {NULL}]
    /\ zone \in [Labels -> SUBSET Addrs]
    /\ req \in [Requests -> [pc : {"idle", "domain", "mkdomain", "host", "nochg",
                                   "upsert", "save", "good"},
                             dev : Devices \cup {NULL}, label : Labels \cup {NULL},
                             addr : Addrs \cup {NULL}, host : HostRow]]
    /\ told \in [Devices -> [Labels -> Answer]]
    /\ wan \in [Devices -> Addrs]
    /\ moves \in Nat /\ faults \in Nat

\* TestDeviceCannotTakeAnotherDeviceHost, for every interleaving: the first
\* device to get a row keeps it, although rows are saved from copies.
OwnersAreFinal ==
    [][\A l \in Labels : hosts[l] # NoHost => hosts'[l].owner = hosts[l].owner]_vars

\* README, "Create a UDM device identity": "automatic host creation is restricted to
\* the device name or a device-name prefix", besides the rule of 6.4.  What is found
\* in the row is acted upon later, next to others' updates, and still only one thing
\* can go wrong: a device publishes over another's record only if both may create
\* the label and it had found no row.  Where one device may, nobody else ever does.
OnlyClaimsCollide ==
    [][\A q \in Requests, l \in Labels :
          (req[q].pc = "upsert" /\ req[q].label = l /\ req'[q] # req[q] /\ zone'[l] # zone[l])
          => \/ hosts[l].owner \in {NULL, req[q].dev}
             \/ /\ req[q].host = NoHost
                /\ canAutocreate(req[q].dev, l) /\ canAutocreate(hosts[l].owner, l)]_vars

\* Of the devices that claim a label at the same time one gets the row, and it is the
\* one that is answered: who has been told good or nochg owns the host, for good.
AnsweredOwn ==
    \A d \in Devices, l \in Labels : told[d][l].code # "none" => hosts[l].owner = d

\* With clients that wait for their own answers the two stores agree whenever no
\* update is between them, until something fails: the row's address is the one
\* address served, whoever else asks for the label.
StoresAgree ==
    faults = 0 =>
        \A l \in Labels :
            Uncontested(l) /\ (\A q \in Requests : req[q].label = l => req[q].pc # "save")
            => zone[l] = IF hosts[l] = NoHost THEN {} ELSE {hosts[l].addr}

\* Whatever fails in between and whoever else asks for the label, a client that waits
\* for its answers may believe good: its address, and no other of either family, is
\* served and on record.
GoodIsServed ==
    \A d \in Devices, l \in Labels :
        Uncontested(l) /\ told[d][l].code = "good" /\ ~ InFlight(d, l)
        => zone[l] = {told[d][l].addr} /\ hosts[l].addr = told[d][l].addr

\* docs/architecture-functional-spec-v1.0 (4.4): nochg answers an update whose
\* address is unchanged, so the address is the one being served.
NochgIsServed ==
    \A d \in Devices, l \in Labels :
        Uncontested(l) /\ told[d][l].code = "nochg" /\ ~ InFlight(d, l)
        => zone[l] = {told[d][l].addr}

\* docs/architecture-functional-spec-v1.0 (6.4): "A Device may only create/update
\* hostnames it owns": no request of one device changes what is served under
\* a hostname that is another's.
OnlyOwnHosts ==
    [][\A q \in Requests, l \in Labels :
          (req[q].pc = "upsert" /\ req[q].label = l /\ req'[q] # req[q] /\ zone'[l] # zone[l])
          => hosts[l].owner \in {NULL, req[q].dev}]_vars

\* The owner of a label no other device may create ends up being found at its address
\* when that settles, through any number of changes, if nothing fails.
OwnersAreFound ==
    ClientsRepeat /\ [](faults = 0) =>
        <>[](\A l \in Labels : Uncontested(l) /\ hosts[l] # NoHost
                                => zone[l] = {wan[hosts[l].owner]})
=============================================================================
