---------------------------- MODULE NetworkIdentity ----------------------------
(***************************************************************************)
(* What HermesDDNS concludes from a report of a device's WAN interfaces    *)
(* and networks (networkcontext/service.go), as operators: which reports   *)
(* are accepted, the scope of an address and the NAT state of a WAN.       *)
(*                                                                         *)
(* An address is its sequence of parts, as netip.ParseAddr finds them:     *)
(* four octets are an IPv4 address, eight groups an IPv6 address, <<>> is  *)
(* a blank field and any other length text that does not parse.  A name is *)
(* a word in some spelling; spellings differ in upper and lower case.      *)
(***************************************************************************)
EXTENDS Naturals, Sequences

blank == <<>>
IsIPv4(a) == Len(a) = 4
IsIPv6(a) == Len(a) = 8

IPv4 == [1..4 -> 0..255]
Address == IPv4 \cup {a \in Seq(Nat) : ~ IsIPv4(a)}

\* netip.Prefix.Contains: the first bits of the octets are the prefix's.
Contains(prefix, a) ==
    /\ IsIPv4(a)
    /\ \A i \in 1..4 :
          LET free == 8 * i - prefix.bits
              unit == IF free <= 0 THEN 1 ELSE IF free >= 8 THEN 256 ELSE 2^free
          IN  a[i] \div unit = prefix.addr[i] \div unit

Prefix(addr, bits) == [addr |-> addr, bits |-> bits]

PrivatePrefixes == {Prefix(<<10, 0, 0, 0>>, 8), Prefix(<<172, 16, 0, 0>>, 12),
                    Prefix(<<192, 168, 0, 0>>, 16)}

\* IsLoopback, IsLinkLocalUnicast, IsMulticast, IsUnspecified
LocalPrefixes == {Prefix(<<127, 0, 0, 0>>, 8), Prefix(<<169, 254, 0, 0>>, 16),
                  Prefix(<<224, 0, 0, 0>>, 4), Prefix(<<0, 0, 0, 0>>, 32)}

\* Mutant: a benchmarking block one bit too short is half missing.
specialPrefixesShort ==
    {Prefix(<<0, 0, 0, 0>>, 8), Prefix(<<192, 0, 0, 0>>, 24), Prefix(<<192, 0, 2, 0>>, 24),
     Prefix(<<198, 18, 0, 0>>, 16), Prefix(<<198, 51, 100, 0>>, 24),
     Prefix(<<203, 0, 113, 0>>, 24), Prefix(<<240, 0, 0, 0>>, 4)}

specialIPv4Prefixes ==
    {Prefix(<<0, 0, 0, 0>>, 8), Prefix(<<192, 0, 0, 0>>, 24), Prefix(<<192, 0, 2, 0>>, 24),
     Prefix(<<198, 18, 0, 0>>, 15), Prefix(<<198, 51, 100, 0>>, 24),
     Prefix(<<203, 0, 113, 0>>, 24), Prefix(<<240, 0, 0, 0>>, 4)}

isCGNAT(a) == Contains(Prefix(<<100, 64, 0, 0>>, 10), a)
IsPrivate(a) == \E p \in PrivatePrefixes : Contains(p, a)

isPublicIPv4(a) ==
    /\ IsIPv4(a) /\ ~ IsPrivate(a) /\ ~ isCGNAT(a)
    /\ \A p \in LocalPrefixes \cup specialIPv4Prefixes : ~ Contains(p, a)

classifyIPv4(a) ==
    CASE a = blank       -> "unknown"
      [] isCGNAT(a)      -> "cgnat"
      [] IsPrivate(a)    -> "private"
      [] isPublicIPv4(a) -> "public"
      [] OTHER           -> "special"

-----------------------------------------------------------------------------
(* WAN interfaces. *)

WANInput ==
    [interfaceName : [word : STRING, spelling : STRING], role : STRING, defaultRoute : BOOLEAN,
     ipv4 : Address, gatewayIPv4 : Address, ipv6 : Address, publicIPv4 : Address]

Roles == {"primary", "secondary", "other"}
normalizedRole(role) == IF role = "" THEN "other" ELSE role

\* The public address observed for a WAN: the agent's probe, or else the address
\* the server sees, but only for the WAN of the default route.
Evidence(peer, in) ==
    IF in.publicIPv4 # blank THEN [addr |-> in.publicIPv4, source |-> "agent_probe"]
    ELSE IF in.defaultRoute /\ isPublicIPv4(peer) THEN [addr |-> peer, source |-> "server_peer"]
    ELSE [addr |-> blank, source |-> ""]

\* PublicIPMatch is nil, here {}, unless both addresses are known.
Match(local, observed) ==
    IF IsIPv4(local) /\ IsIPv4(observed) THEN {local = observed} ELSE {}

\* Mutant: a private address counts as double NAT without further evidence.
natStateEager(local, observed) ==
    CASE classifyIPv4(local) = "cgnat"   -> "cgnat"
      [] classifyIPv4(local) = "private" -> "double_nat"
      [] Match(local, observed) = {TRUE} -> "direct"
      [] Match(local, observed) = {FALSE} /\ classifyIPv4(local) = "public" -> "public_mismatch"
      [] OTHER -> "unknown"

natState(local, observed) ==
    LET scope == classifyIPv4(local)
        match == Match(local, observed)
    IN  CASE scope = "cgnat"                      -> "cgnat"
          [] scope = "public" /\ match = {TRUE}   -> "direct"
          [] scope = "public" /\ match = {FALSE}  -> "public_mismatch"
          [] scope = "private" /\ match # {} /\ isPublicIPv4(observed) -> "double_nat"
          [] OTHER                                -> "unknown"

buildWAN(peer, in) ==
    LET seen == Evidence(peer, in)
        state == natState(in.ipv4, seen.addr)
    IN  [interfaceName |-> in.interfaceName, role |-> normalizedRole(in.role),
         defaultRoute |-> in.defaultRoute, ipv4 |-> in.ipv4,
         gatewayIPv4 |-> in.gatewayIPv4, ipv6 |-> in.ipv6, observed |-> seen.addr,
         source |-> seen.source, scope |-> classifyIPv4(in.ipv4), natState |-> state,
         upstreamNAT |-> state \in {"cgnat", "double_nat"},
         match |-> Match(in.ipv4, seen.addr)]

-----------------------------------------------------------------------------
(* Validation.  A VLAN identifier is a set of at most one number. *)

ValidWAN(in) ==
    /\ in.interfaceName.word # ""
    /\ normalizedRole(in.role) \in Roles
    /\ \A a \in {in.ipv4, in.gatewayIPv4} : a = blank \/ IsIPv4(a)
    /\ in.ipv6 = blank \/ IsIPv6(in.ipv6)
    /\ in.publicIPv4 = blank \/ isPublicIPv4(in.publicIPv4)

ValidNetwork(n) ==
    /\ n.name # ""
    /\ n.vlan \subseteq 1..4094
    /\ \/ n.cidr.addr = blank /\ n.gateway = blank
       \/ /\ IsIPv4(n.cidr.addr)
          /\ n.gateway = blank \/ Contains(n.cidr, n.gateway)

\* Mutant: names are compared as they are spelled, and default routes not counted.
validateEachAlone(wans, networks) ==
    /\ wans # <<>>
    /\ \A i \in DOMAIN wans : ValidWAN(wans[i])
    /\ \A i, j \in DOMAIN wans : i # j => wans[i].interfaceName # wans[j].interfaceName
    /\ \A n \in networks : ValidNetwork(n)

validateInput(wans, networks) ==
    /\ wans # <<>>
    /\ \A i \in DOMAIN wans : ValidWAN(wans[i])
    /\ \A i, j \in DOMAIN wans : i # j =>
          /\ wans[i].interfaceName.word # wans[j].interfaceName.word
          /\ ~ (wans[i].defaultRoute /\ wans[j].defaultRoute)
    /\ \A n \in networks : ValidNetwork(n)
=============================================================================
