------------------------------- MODULE InputRules -------------------------------
(***************************************************************************)
(* The server deciding about one input at a time: the scope of an address, *)
(* a report of a device's network, the hostname of a DDNS update.  Nothing *)
(* is stored in between; AgentReports and DDNSUpdate say what happens to   *)
(* inputs these rules accept.                                              *)
(***************************************************************************)
EXTENDS NetworkIdentity, ManagedNames

CONSTANTS
    Addresses,      \* addresses to classify
    Peers,          \* addresses the server sees agents connect from
    WANLists,       \* the WANs of reports, as sequences
    NetworkSets,    \* the networks of reports
    Settings,       \* values of HERMES_DOMAINS, as sequences of items
    Names           \* hostnames of updates

NonEmptyName == Seq(STRING) \ {<<>>}

ASSUME InputAssumption ==
    /\ Addresses \subseteq Address /\ Peers \subseteq Address
    /\ WANLists \subseteq Seq(WANInput)
    /\ Settings \subseteq Seq([name : NonEmptyName, blankAfter : BOOLEAN])
    /\ Names \subseteq NonEmptyName

VARIABLE call       \* the operation, its arguments and its result

idle == [op |-> "idle"]

Init == call = idle

Classify(a) ==
    /\ call = idle
    /\ call' = [op |-> "classify", addr |-> a, scope |-> classifyIPv4(a)]

Report(peer, wans, networks) ==
    /\ call = idle
    /\ call' = [op |-> "report", networks |-> networks,
                accepted |-> validateInput(wans, networks),
                rows |-> [k \in DOMAIN wans |-> buildWAN(peer, wans[k])]]

Resolve(items, name) ==
    /\ call = idle
    /\ call' = [op |-> "resolve", items |-> items, name |-> name,
                verdict |-> splitManagedFQDN(splitCSV(items), name)]

Return == call # idle /\ call' = idle

Next == \/ \E a \in Addresses : Classify(a)
        \/ \E peer \in Peers, wans \in WANLists, networks \in NetworkSets :
              Report(peer, wans, networks)
        \/ \E items \in Settings, name \in Names : Resolve(items, name)
        \/ Return

Spec == Init /\ [][Next]_call

-----------------------------------------------------------------------------
(* Addresses: the documented blocks, each by its first and last address. *)

Before(a, b) == \E k \in 1..4 : a[k] < b[k] /\ \A j \in 1..(k - 1) : a[j] = b[j]
Within(a, first, last) == ~ Before(a, first) /\ ~ Before(last, a)

DocumentedBlocks == {
    <<"private", <<10, 0, 0, 0>>, <<10, 255, 255, 255>>>>,
    <<"private", <<172, 16, 0, 0>>, <<172, 31, 255, 255>>>>,
    <<"private", <<192, 168, 0, 0>>, <<192, 168, 255, 255>>>>,
    <<"cgnat", <<100, 64, 0, 0>>, <<100, 127, 255, 255>>>>,
    <<"special", <<0, 0, 0, 0>>, <<0, 255, 255, 255>>>>,
    <<"special", <<127, 0, 0, 0>>, <<127, 255, 255, 255>>>>,
    <<"special", <<169, 254, 0, 0>>, <<169, 254, 255, 255>>>>,
    <<"special", <<192, 0, 0, 0>>, <<192, 0, 0, 255>>>>,
    <<"special", <<192, 0, 2, 0>>, <<192, 0, 2, 255>>>>,
    <<"special", <<198, 18, 0, 0>>, <<198, 19, 255, 255>>>>,
    <<"special", <<198, 51, 100, 0>>, <<198, 51, 100, 255>>>>,
    <<"special", <<203, 0, 113, 0>>, <<203, 0, 113, 255>>>>,
    <<"special", <<224, 0, 0, 0>>, <<255, 255, 255, 255>>>>}

DocumentedScope(a) ==
    IF a = blank THEN "unknown"
    ELSE IF ~ IsIPv4(a) THEN "special"
    ELSE IF \E b \in DocumentedBlocks : Within(a, b[2], b[3])
         THEN (CHOOSE b \in DocumentedBlocks : Within(a, b[2], b[3]))[1]
         ELSE "public"

\* docs/network-identity, "Address scope": classifyIPv4 composes library
\* predicates, prefixes and the order they are asked in; at both ends of every
\* block, and on either side of it, the answer is the documented one.
ScopeDocumented == call.op = "classify" => call.scope = DocumentedScope(call.addr)

Accepted == call.op = "report" /\ call.accepted

\* docs/network-identity, "NAT states": the state of every WAN of an accepted
\* report is the one of the table for the addresses stored beside it, so that a
\* reader can check it against them; the observed address is a public one; and
\* the match is recorded as such exactly for a direct connection.  buildWAN does
\* not check the observed address for every state: validateInput must have.
NATDocumented ==
    Accepted => \A k \in DOMAIN call.rows :
        LET row == call.rows[k]
            scope == DocumentedScope(row.ipv4)
            seen == row.observed # blank
        IN  /\ seen => DocumentedScope(row.observed) = "public"
            /\ (row.natState = "direct") <=> (scope = "public" /\ row.observed = row.ipv4)
            /\ (row.natState = "public_mismatch")
                  <=> (scope = "public" /\ seen /\ row.observed # row.ipv4)
            /\ (row.natState = "double_nat") <=> (scope = "private" /\ seen)
            /\ (row.natState = "cgnat") <=> scope = "cgnat"
            /\ (row.match = {TRUE}) <=> (row.natState = "direct")
            /\ (row.source = "") <=> ~ seen

\* docs/network-identity, "Source of the observed public IPv4": the address the
\* connection came from is evidence for the default route only.  Of the WANs of
\* one accepted report at most one is given it, and no two rows name the same
\* interface, in whatever spelling.
PeerEvidenceOnce ==
    Accepted => \A j, k \in DOMAIN call.rows :
        /\ call.rows[k].source = "server_peer" => call.rows[k].defaultRoute
        /\ j # k =>
              /\ ~ {call.rows[j].source, call.rows[k].source} = {"server_peer"}
              /\ call.rows[j].interfaceName.word # call.rows[k].interfaceName.word

-----------------------------------------------------------------------------
(* Hostnames. *)

Managed == call.op = "resolve" /\ call.verdict # NotFQDN
VerdictUnder(items) == splitManagedFQDN(splitCSV(items), call.name)

\* A host row is found by its domain and label.  Whatever else HERMES_DOMAINS
\* becomes, a hostname that is managed before and after keeps both, so that its
\* row, its owner and its records are found again and not created twice.
NamesStayPut ==
    Managed => \A items \in Settings : VerdictUnder(items) \in {call.verdict, NotFQDN}

\* Zones added at the end of HERMES_DOMAINS take no hostname away, nested ones
\* included.
AdditionsKeepNames ==
    Managed => \A more \in Settings : VerdictUnder(call.items \o more) = call.verdict

Unnested(zones) ==
    \A j, k \in DOMAIN zones : ~ Below(TrimDot(zones[j]), TrimDot(zones[k]))

\* The orders in which n items can be listed: order[k] is the item at place k.
Orders(n) == {order \in [1..n -> 1..n] : \A j \in 1..n : \E k \in 1..n : order[k] = j}

\* The order of HERMES_DOMAINS matters only between a zone and one nested in it:
\* where there is none, any other order gives a hostname the same zone and label.
OrderIrrelevant ==
    (call.op = "resolve" /\ Unnested(splitCSV(call.items))) =>
        LET n == Len(call.items)
        IN  \A order \in Orders(n) :
               VerdictUnder([k \in 1..n |-> call.items[order[k]]]) = call.verdict
=============================================================================
