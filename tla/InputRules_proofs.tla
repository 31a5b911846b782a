--------------------------- MODULE InputRules_proofs ---------------------------
(***************************************************************************)
(* Proofs about InputRules: what its runs check on the ends of every block *)
(* and on short lists holds for every address, report, setting and name.   *)
(*                                                                         *)
(* The rules are functions, so the proofs are about operators.  CallOK     *)
(* connects them with the specification: a call holds what its operation   *)
(* computes for arguments of the right kind.                               *)
(***************************************************************************)
EXTENDS InputRules, SequenceTheorems, WellFoundedInduction, TLAPS

CallOK ==
    \/ call = idle
    \/ \E a \in Address : call = [op |-> "classify", addr |-> a, scope |-> classifyIPv4(a)]
    \/ \E peer \in Address, wans \in Seq(WANInput), networks \in NetworkSets :
          call = [op |-> "report", networks |-> networks,
                  accepted |-> validateInput(wans, networks),
                  rows |-> [k \in DOMAIN wans |-> buildWAN(peer, wans[k])]]
    \/ \E items \in Settings, name \in Names :
          call = [op |-> "resolve", items |-> items, name |-> name,
                  verdict |-> splitManagedFQDN(splitCSV(items), name)]

LEMMA CallsAnswered == Spec => []CallOK
<1>1. Init => CallOK
  BY DEF Init, CallOK
<1>2. CallOK /\ [Next]_call => CallOK'
  <2> SUFFICES ASSUME CallOK, [Next]_call PROVE CallOK'
    OBVIOUS
  <2>1. ASSUME NEW a \in Addresses, Classify(a) PROVE CallOK'
    BY <2>1, InputAssumption DEF Classify, CallOK
  <2>2. ASSUME NEW peer \in Peers, NEW wans \in WANLists, NEW networks \in NetworkSets,
               Report(peer, wans, networks)
        PROVE  CallOK'
    BY <2>2, InputAssumption DEF Report, CallOK
  <2>3. ASSUME NEW items \in Settings, NEW name \in Names, Resolve(items, name) PROVE CallOK'
    BY <2>3 DEF Resolve, CallOK
  <2> QED
    BY <2>1, <2>2, <2>3 DEF Next, Return, CallOK
<1> QED
  BY <1>1, <1>2, PTL DEF Spec

-----------------------------------------------------------------------------
(* Addresses. *)

Unit(bits, i) ==
    LET free == 8 * i - bits
    IN  IF free <= 0 THEN 1 ELSE IF free >= 8 THEN 256 ELSE 2^free

LEMMA Octets == ASSUME NEW a \in IPv4 PROVE \A i \in 1..4 : a[i] \in 0..255
  BY DEF IPv4

LEMMA ContainsOctets ==
    ASSUME NEW a \in IPv4, NEW c1, NEW c2, NEW c3, NEW c4, NEW bits
    PROVE  Contains(Prefix(<<c1, c2, c3, c4>>, bits), a) <=>
             /\ a[1] \div Unit(bits, 1) = c1 \div Unit(bits, 1)
             /\ a[2] \div Unit(bits, 2) = c2 \div Unit(bits, 2)
             /\ a[3] \div Unit(bits, 3) = c3 \div Unit(bits, 3)
             /\ a[4] \div Unit(bits, 4) = c4 \div Unit(bits, 4)
<1> DEFINE p == Prefix(<<c1, c2, c3, c4>>, bits)
<1>1. IsIPv4(a)
  BY DEF IsIPv4, IPv4
<1>2. Contains(p, a) <=> \A i \in 1..4 : a[i] \div Unit(p.bits, i) = p.addr[i] \div Unit(p.bits, i)
  BY <1>1, Zenon DEF Contains, Unit
<1>3. p.bits = bits /\ p.addr = <<c1, c2, c3, c4>>
  BY DEF Prefix
<1> HIDE DEF p
<1>4. Contains(p, a) <=> \A i \in 1..4 : a[i] \div Unit(bits, i) = <<c1, c2, c3, c4>>[i] \div Unit(bits, i)
  BY <1>2, <1>3
<1> QED
  BY <1>4 DEF p

LEMMA Units ==
    /\ Unit(4, 1) = 16 /\ Unit(4, 2) = 256 /\ Unit(4, 3) = 256 /\ Unit(4, 4) = 256
    /\ Unit(8, 1) = 1 /\ Unit(8, 2) = 256 /\ Unit(8, 3) = 256 /\ Unit(8, 4) = 256
    /\ Unit(10, 1) = 1 /\ Unit(10, 2) = 64 /\ Unit(10, 3) = 256 /\ Unit(10, 4) = 256
    /\ Unit(12, 1) = 1 /\ Unit(12, 2) = 16 /\ Unit(12, 3) = 256 /\ Unit(12, 4) = 256
    /\ Unit(15, 1) = 1 /\ Unit(15, 2) = 2 /\ Unit(15, 3) = 256 /\ Unit(15, 4) = 256
    /\ Unit(16, 1) = 1 /\ Unit(16, 2) = 1 /\ Unit(16, 3) = 256 /\ Unit(16, 4) = 256
    /\ Unit(24, 1) = 1 /\ Unit(24, 2) = 1 /\ Unit(24, 3) = 1 /\ Unit(24, 4) = 256
    /\ Unit(32, 1) = 1 /\ Unit(32, 2) = 1 /\ Unit(32, 3) = 1 /\ Unit(32, 4) = 1
<1>1. 2^4 = 16 /\ 2^6 = 64 /\ 2^1 = 2
  OBVIOUS
<1> QED
  BY <1>1 DEF Unit

LEMMA Quotients ==
    ASSUME NEW x \in 0..255
    PROVE  /\ x \div 256 = 0
           /\ \A c \in 0..255 : c \div 256 = 0 /\ c \div 1 = c
           /\ x \div 1 = x
           /\ x \div 16 = 16 \div 16 <=> x \in 16..31
           /\ x \div 16 = 224 \div 16 <=> x \in 224..239
           /\ x \div 16 = 240 \div 16 <=> x \in 240..255
           /\ x \div 64 = 64 \div 64 <=> x \in 64..127
           /\ x \div 2 = 18 \div 2 <=> x \in 18..19
  OBVIOUS

LEMMA PrefixOctets ==
    ASSUME NEW a \in IPv4
    PROVE  /\ Contains(Prefix(<<10, 0, 0, 0>>, 8), a) <=> a[1] = 10
           /\ Contains(Prefix(<<172, 16, 0, 0>>, 12), a) <=> a[1] = 172 /\ a[2] \in 16..31
           /\ Contains(Prefix(<<192, 168, 0, 0>>, 16), a) <=> a[1] = 192 /\ a[2] = 168
           /\ Contains(Prefix(<<100, 64, 0, 0>>, 10), a) <=> a[1] = 100 /\ a[2] \in 64..127
           /\ Contains(Prefix(<<127, 0, 0, 0>>, 8), a) <=> a[1] = 127
           /\ Contains(Prefix(<<169, 254, 0, 0>>, 16), a) <=> a[1] = 169 /\ a[2] = 254
           /\ Contains(Prefix(<<224, 0, 0, 0>>, 4), a) <=> a[1] \in 224..239
           /\ Contains(Prefix(<<0, 0, 0, 0>>, 32), a)
                <=> a[1] = 0 /\ a[2] = 0 /\ a[3] = 0 /\ a[4] = 0
           /\ Contains(Prefix(<<0, 0, 0, 0>>, 8), a) <=> a[1] = 0
           /\ Contains(Prefix(<<192, 0, 0, 0>>, 24), a) <=> a[1] = 192 /\ a[2] = 0 /\ a[3] = 0
           /\ Contains(Prefix(<<192, 0, 2, 0>>, 24), a) <=> a[1] = 192 /\ a[2] = 0 /\ a[3] = 2
           /\ Contains(Prefix(<<198, 18, 0, 0>>, 15), a) <=> a[1] = 198 /\ a[2] \in 18..19
           /\ Contains(Prefix(<<198, 51, 100, 0>>, 24), a)
                <=> a[1] = 198 /\ a[2] = 51 /\ a[3] = 100
           /\ Contains(Prefix(<<203, 0, 113, 0>>, 24), a)
                <=> a[1] = 203 /\ a[2] = 0 /\ a[3] = 113
           /\ Contains(Prefix(<<240, 0, 0, 0>>, 4), a) <=> a[1] \in 240..255
<1>1. a[1] \in 0..255 /\ a[2] \in 0..255 /\ a[3] \in 0..255 /\ a[4] \in 0..255
  BY Octets
<1>2. Contains(Prefix(<<10, 0, 0, 0>>, 8), a) <=> a[1] = 10
  BY <1>1, ContainsOctets, Units, Quotients
<1>3. Contains(Prefix(<<172, 16, 0, 0>>, 12), a) <=> a[1] = 172 /\ a[2] \in 16..31
  BY <1>1, ContainsOctets, Units, Quotients
<1>4. Contains(Prefix(<<192, 168, 0, 0>>, 16), a) <=> a[1] = 192 /\ a[2] = 168
  BY <1>1, ContainsOctets, Units, Quotients
<1>5. Contains(Prefix(<<100, 64, 0, 0>>, 10), a) <=> a[1] = 100 /\ a[2] \in 64..127
  BY <1>1, ContainsOctets, Units, Quotients
<1>6. Contains(Prefix(<<127, 0, 0, 0>>, 8), a) <=> a[1] = 127
  BY <1>1, ContainsOctets, Units, Quotients
<1>7. Contains(Prefix(<<169, 254, 0, 0>>, 16), a) <=> a[1] = 169 /\ a[2] = 254
  BY <1>1, ContainsOctets, Units, Quotients
<1>8. Contains(Prefix(<<224, 0, 0, 0>>, 4), a) <=> a[1] \in 224..239
  BY <1>1, ContainsOctets, Units, Quotients
<1>9. Contains(Prefix(<<0, 0, 0, 0>>, 32), a)
        <=> a[1] = 0 /\ a[2] = 0 /\ a[3] = 0 /\ a[4] = 0
  BY <1>1, ContainsOctets, Units, Quotients
<1>10. Contains(Prefix(<<0, 0, 0, 0>>, 8), a) <=> a[1] = 0
  BY <1>1, ContainsOctets, Units, Quotients
<1>11. Contains(Prefix(<<192, 0, 0, 0>>, 24), a) <=> a[1] = 192 /\ a[2] = 0 /\ a[3] = 0
  BY <1>1, ContainsOctets, Units, Quotients
<1>12. Contains(Prefix(<<192, 0, 2, 0>>, 24), a) <=> a[1] = 192 /\ a[2] = 0 /\ a[3] = 2
  BY <1>1, ContainsOctets, Units, Quotients
<1>13. Contains(Prefix(<<198, 18, 0, 0>>, 15), a) <=> a[1] = 198 /\ a[2] \in 18..19
  BY <1>1, ContainsOctets, Units, Quotients
<1>14. Contains(Prefix(<<198, 51, 100, 0>>, 24), a)
         <=> a[1] = 198 /\ a[2] = 51 /\ a[3] = 100
  BY <1>1, ContainsOctets, Units, Quotients
<1>15. Contains(Prefix(<<203, 0, 113, 0>>, 24), a)
         <=> a[1] = 203 /\ a[2] = 0 /\ a[3] = 113
  BY <1>1, ContainsOctets, Units, Quotients
<1>16. Contains(Prefix(<<240, 0, 0, 0>>, 4), a) <=> a[1] \in 240..255
  BY <1>1, ContainsOctets, Units, Quotients
<1> QED
  BY <1>2, <1>3, <1>4, <1>5, <1>6, <1>7, <1>8, <1>9, <1>10, <1>11, <1>12, <1>13, <1>14,
     <1>15, <1>16

OctetScope(a) ==
    IF a[1] = 100 /\ a[2] \in 64..127 THEN "cgnat"
    ELSE IF \/ a[1] = 10
            \/ a[1] = 172 /\ a[2] \in 16..31
            \/ a[1] = 192 /\ a[2] = 168
         THEN "private"
    ELSE IF \/ a[1] \in {0, 127} \/ a[1] \in 224..255
            \/ a[1] = 169 /\ a[2] = 254
            \/ a[1] = 192 /\ a[2] = 0 /\ a[3] \in {0, 2}
            \/ a[1] = 198 /\ a[2] \in 18..19
            \/ a[1] = 198 /\ a[2] = 51 /\ a[3] = 100
            \/ a[1] = 203 /\ a[2] = 0 /\ a[3] = 113
         THEN "special"
    ELSE "public"

LEMMA ClassifiedByOctets ==
    ASSUME NEW a \in IPv4 PROVE classifyIPv4(a) = OctetScope(a)
<1> DEFINE In(c1, c2, c3, c4, bits) == Contains(Prefix(<<c1, c2, c3, c4>>, bits), a)
<1>1. isCGNAT(a) <=> a[1] = 100 /\ a[2] \in 64..127
  BY PrefixOctets DEF isCGNAT
<1>2. IsPrivate(a) <=> \/ a[1] = 10
                       \/ a[1] = 172 /\ a[2] \in 16..31
                       \/ a[1] = 192 /\ a[2] = 168
  <2>1. IsPrivate(a) <=> \/ In(10, 0, 0, 0, 8) \/ In(172, 16, 0, 0, 12) \/ In(192, 168, 0, 0, 16)
    BY DEF IsPrivate, PrivatePrefixes
  <2> QED
    BY <2>1, PrefixOctets
<1>3. (\A p \in LocalPrefixes \cup specialIPv4Prefixes : ~ Contains(p, a))
         <=> ~ \/ a[1] \in {0, 127} \/ a[1] \in 224..255
               \/ a[1] = 169 /\ a[2] = 254
               \/ a[1] = 192 /\ a[2] = 0 /\ a[3] \in {0, 2}
               \/ a[1] = 198 /\ a[2] \in 18..19
               \/ a[1] = 198 /\ a[2] = 51 /\ a[3] = 100
               \/ a[1] = 203 /\ a[2] = 0 /\ a[3] = 113
  <2>1. (\A p \in LocalPrefixes : ~ Contains(p, a))
           <=> ~ \/ In(127, 0, 0, 0, 8) \/ In(169, 254, 0, 0, 16)
                 \/ In(224, 0, 0, 0, 4) \/ In(0, 0, 0, 0, 32)
    BY DEF LocalPrefixes
  <2>2. (\A p \in specialIPv4Prefixes : ~ Contains(p, a))
           <=> ~ \/ In(0, 0, 0, 0, 8) \/ In(192, 0, 0, 0, 24) \/ In(192, 0, 2, 0, 24)
                 \/ In(198, 18, 0, 0, 15) \/ In(198, 51, 100, 0, 24)
                 \/ In(203, 0, 113, 0, 24) \/ In(240, 0, 0, 0, 4)
    BY DEF specialIPv4Prefixes
  <2>3. (\A p \in LocalPrefixes \cup specialIPv4Prefixes : ~ Contains(p, a))
           <=> /\ \A p \in LocalPrefixes : ~ Contains(p, a)
               /\ \A p \in specialIPv4Prefixes : ~ Contains(p, a)
    BY Zenon
  <2>4. a[1] \in 224..255 <=> a[1] \in 224..239 \/ a[1] \in 240..255
    BY Octets
  <2> QED
    BY <2>1, <2>2, <2>3, <2>4, PrefixOctets
<1>4. IsIPv4(a) /\ a # blank
  BY DEF IsIPv4, IPv4, blank
<1> QED
  BY <1>1, <1>2, <1>3, <1>4 DEF classifyIPv4, isPublicIPv4, OctetScope

LEMMA BeforeOctets ==
    ASSUME NEW a, NEW b
    PROVE  Before(a, b) <=>
             \/ a[1] < b[1]
             \/ a[1] = b[1] /\ a[2] < b[2]
             \/ a[1] = b[1] /\ a[2] = b[2] /\ a[3] < b[3]
             \/ a[1] = b[1] /\ a[2] = b[2] /\ a[3] = b[3] /\ a[4] < b[4]
<1>1. /\ \A j \in 1..(1 - 1) : FALSE
      /\ 1..(2 - 1) = {1} /\ 1..(3 - 1) = {1, 2} /\ 1..(4 - 1) = {1, 2, 3}
  OBVIOUS
<1>2. 1..4 = {1, 2, 3, 4}
  OBVIOUS
<1>3. Before(a, b) <=>
        \/ a[1] < b[1] /\ \A j \in 1..(1 - 1) : a[j] = b[j]
        \/ a[2] < b[2] /\ \A j \in 1..(2 - 1) : a[j] = b[j]
        \/ a[3] < b[3] /\ \A j \in 1..(3 - 1) : a[j] = b[j]
        \/ a[4] < b[4] /\ \A j \in 1..(4 - 1) : a[j] = b[j]
  BY <1>2, Zenon DEF Before
<1> QED
  BY <1>1, <1>3, Zenon

LEMMA WithinOctets ==
    ASSUME NEW a \in IPv4
    PROVE  /\ Within(a, <<10, 0, 0, 0>>, <<10, 255, 255, 255>>) <=> a[1] = 10
           /\ Within(a, <<172, 16, 0, 0>>, <<172, 31, 255, 255>>)
                <=> a[1] = 172 /\ a[2] \in 16..31
           /\ Within(a, <<192, 168, 0, 0>>, <<192, 168, 255, 255>>)
                <=> a[1] = 192 /\ a[2] = 168
           /\ Within(a, <<100, 64, 0, 0>>, <<100, 127, 255, 255>>)
                <=> a[1] = 100 /\ a[2] \in 64..127
           /\ Within(a, <<0, 0, 0, 0>>, <<0, 255, 255, 255>>) <=> a[1] = 0
           /\ Within(a, <<127, 0, 0, 0>>, <<127, 255, 255, 255>>) <=> a[1] = 127
           /\ Within(a, <<169, 254, 0, 0>>, <<169, 254, 255, 255>>)
                <=> a[1] = 169 /\ a[2] = 254
           /\ Within(a, <<192, 0, 0, 0>>, <<192, 0, 0, 255>>)
                <=> a[1] = 192 /\ a[2] = 0 /\ a[3] = 0
           /\ Within(a, <<192, 0, 2, 0>>, <<192, 0, 2, 255>>)
                <=> a[1] = 192 /\ a[2] = 0 /\ a[3] = 2
           /\ Within(a, <<198, 18, 0, 0>>, <<198, 19, 255, 255>>)
                <=> a[1] = 198 /\ a[2] \in 18..19
           /\ Within(a, <<198, 51, 100, 0>>, <<198, 51, 100, 255>>)
                <=> a[1] = 198 /\ a[2] = 51 /\ a[3] = 100
           /\ Within(a, <<203, 0, 113, 0>>, <<203, 0, 113, 255>>)
                <=> a[1] = 203 /\ a[2] = 0 /\ a[3] = 113
           /\ Within(a, <<224, 0, 0, 0>>, <<255, 255, 255, 255>>) <=> a[1] \in 224..255
<1>1. a[1] \in 0..255 /\ a[2] \in 0..255 /\ a[3] \in 0..255 /\ a[4] \in 0..255
  BY Octets
<1> QED
  BY <1>1, BeforeOctets, SMTT(60) DEF Within

LEMMA DocumentedByOctets ==
    ASSUME NEW a \in IPv4 PROVE DocumentedScope(a) = OctetScope(a)
<1>1. \A b \in DocumentedBlocks : Within(a, b[2], b[3]) => OctetScope(a) = b[1] /\ b[1] # "public"
  <2>1. a[1] \in 0..255 /\ a[2] \in 0..255 /\ a[3] \in 0..255 /\ a[4] \in 0..255
    BY Octets
  <2> SUFFICES ASSUME NEW b \in DocumentedBlocks, Within(a, b[2], b[3])
               PROVE  OctetScope(a) = b[1] /\ b[1] # "public"
    OBVIOUS
  <2>2. \/ /\ b[1] = "private"
           /\ \/ a[1] = 10
              \/ a[1] = 172 /\ a[2] \in 16..31
              \/ a[1] = 192 /\ a[2] = 168
        \/ b[1] = "cgnat" /\ a[1] = 100 /\ a[2] \in 64..127
        \/ /\ b[1] = "special"
           /\ \/ a[1] = 0 \/ a[1] = 127 \/ a[1] \in 224..255
              \/ a[1] = 169 /\ a[2] = 254
              \/ a[1] = 192 /\ a[2] = 0 /\ a[3] = 0
              \/ a[1] = 192 /\ a[2] = 0 /\ a[3] = 2
              \/ a[1] = 198 /\ a[2] \in 18..19
              \/ a[1] = 198 /\ a[2] = 51 /\ a[3] = 100
              \/ a[1] = 203 /\ a[2] = 0 /\ a[3] = 113
    <3> DEFINE In(kind, first, last) == b[1] = kind /\ Within(a, first, last)
    <3>1. \A kind, first, last : b = <<kind, first, last>> => In(kind, first, last)
      OBVIOUS
    <3> HIDE DEF In
    <3>2. \/ In("private", <<10, 0, 0, 0>>, <<10, 255, 255, 255>>)
          \/ In("private", <<172, 16, 0, 0>>, <<172, 31, 255, 255>>)
          \/ In("private", <<192, 168, 0, 0>>, <<192, 168, 255, 255>>)
          \/ In("cgnat", <<100, 64, 0, 0>>, <<100, 127, 255, 255>>)
          \/ In("special", <<0, 0, 0, 0>>, <<0, 255, 255, 255>>)
          \/ In("special", <<127, 0, 0, 0>>, <<127, 255, 255, 255>>)
          \/ In("special", <<169, 254, 0, 0>>, <<169, 254, 255, 255>>)
          \/ In("special", <<192, 0, 0, 0>>, <<192, 0, 0, 255>>)
          \/ In("special", <<192, 0, 2, 0>>, <<192, 0, 2, 255>>)
          \/ In("special", <<198, 18, 0, 0>>, <<198, 19, 255, 255>>)
          \/ In("special", <<198, 51, 100, 0>>, <<198, 51, 100, 255>>)
          \/ In("special", <<203, 0, 113, 0>>, <<203, 0, 113, 255>>)
          \/ In("special", <<224, 0, 0, 0>>, <<255, 255, 255, 255>>)
      BY <3>1, SMTT(30) DEF DocumentedBlocks
    <3> QED
      BY <3>2, WithinOctets DEF In
  <2> QED
    BY <2>1, <2>2 DEF OctetScope
<1>2. OctetScope(a) # "public" => \E b \in DocumentedBlocks : Within(a, b[2], b[3])
  BY Octets, WithinOctets DEF DocumentedBlocks, OctetScope
<1>3. IsIPv4(a) /\ a # blank
  BY DEF IsIPv4, IPv4, blank
<1> HIDE DEF OctetScope
<1> QED
  BY <1>1, <1>2, <1>3, Zenon DEF DocumentedScope

LEMMA Classified ==
    ASSUME NEW a \in Address PROVE classifyIPv4(a) = DocumentedScope(a)
<1>1. CASE IsIPv4(a)
  <2>1. a \in IPv4
    BY <1>1, Zenon DEF Address
  <2> QED
    BY <2>1, ClassifiedByOctets, DocumentedByOctets, Zenon
<1>2. CASE ~ IsIPv4(a)
  <2>1. ~ isCGNAT(a) /\ ~ IsPrivate(a) /\ ~ isPublicIPv4(a)
    BY <1>2 DEF isCGNAT, IsPrivate, isPublicIPv4, Contains
  <2> QED
    BY <1>2, <2>1 DEF classifyIPv4, DocumentedScope
<1> QED
  BY <1>1, <1>2

\* classifyIPv4: the predicates and prefixes it asks, in its order, are the documented
\* blocks for every address, not only at their ends.
THEOREM ScopesDocumented == Spec => []ScopeDocumented
<1>1. CallOK => ScopeDocumented
  <2> SUFFICES ASSUME CallOK, call.op = "classify"
               PROVE  call.scope = DocumentedScope(call.addr)
    BY DEF ScopeDocumented
  <2>1. PICK a \in Address : call = [op |-> "classify", addr |-> a, scope |-> classifyIPv4(a)]
    BY DEF CallOK, idle
  <2> QED
    BY <2>1, Classified
<1> QED
  BY <1>1, CallsAnswered, PTL

LEMMA ScopeNeedsAddress ==
    ASSUME NEW a \in Address, classifyIPv4(a) \in {"cgnat", "private", "public"}
    PROVE  IsIPv4(a) /\ a # blank
  BY Classified DEF DocumentedScope, IsIPv4, blank

LEMMA PublicScope ==
    ASSUME NEW a \in Address
    PROVE  isPublicIPv4(a) <=> classifyIPv4(a) = "public"
<1>1. ASSUME isPublicIPv4(a) PROVE classifyIPv4(a) = "public"
  <2>1. a # blank /\ ~ isCGNAT(a) /\ ~ IsPrivate(a)
    BY <1>1 DEF isPublicIPv4, IsIPv4, blank
  <2> QED
    BY <1>1, <2>1 DEF classifyIPv4
<1>2. ASSUME classifyIPv4(a) = "public", ~ isPublicIPv4(a) PROVE FALSE
  <2>1. CASE a = blank
    <3>1. ~ isCGNAT(a) /\ ~ IsPrivate(a)
      BY <2>1 DEF isCGNAT, IsPrivate, Contains, IsIPv4, blank
    <3> QED
      BY <1>2, <2>1, <3>1 DEF classifyIPv4
  <2>2. CASE a # blank
    BY <1>2, <2>2 DEF classifyIPv4
  <2> QED
    BY <2>1, <2>2
<1> QED
  BY <1>1, <1>2

LEMMA MatchCases ==
    ASSUME NEW local, NEW observed
    PROVE  /\ Match(local, observed) = {TRUE}
                <=> IsIPv4(local) /\ IsIPv4(observed) /\ local = observed
           /\ Match(local, observed) = {FALSE}
                <=> IsIPv4(local) /\ IsIPv4(observed) /\ local # observed
           /\ Match(local, observed) # {} <=> IsIPv4(local) /\ IsIPv4(observed)
<1>1. CASE IsIPv4(local) /\ IsIPv4(observed) /\ local = observed
  <2>1. Match(local, observed) = {TRUE}
    BY <1>1, Zenon DEF Match
  <2> QED
    BY <1>1, <2>1, Zenon
<1>2. CASE IsIPv4(local) /\ IsIPv4(observed) /\ local # observed
  <2>1. Match(local, observed) = {FALSE}
    BY <1>2, Zenon DEF Match
  <2> QED
    BY <1>2, <2>1, Zenon
<1>3. CASE ~ (IsIPv4(local) /\ IsIPv4(observed))
  <2>1. Match(local, observed) = {}
    BY <1>3, Zenon DEF Match
  <2> QED
    BY <1>3, <2>1, Zenon
<1> QED
  BY <1>1, <1>2, <1>3, Zenon

\* The table of docs/network-identity, "NAT states", for a WAN whose observed address,
\* if there is one, is public.
LEMMA StateByTable ==
    ASSUME NEW local \in Address, NEW observed \in Address,
           observed = blank \/ isPublicIPv4(observed)
    PROVE  LET state == natState(local, observed)
               scope == classifyIPv4(local)
               seen == observed # blank
           IN  /\ state = "direct" <=> scope = "public" /\ observed = local
               /\ state = "public_mismatch" <=> scope = "public" /\ seen /\ observed # local
               /\ state = "double_nat" <=> scope = "private" /\ seen
               /\ state = "cgnat" <=> scope = "cgnat"
               /\ Match(local, observed) = {TRUE} <=> state = "direct"
<1> DEFINE scope == classifyIPv4(local)
           seen == observed # blank
           match == Match(local, observed)
<1>1. seen <=> isPublicIPv4(observed) /\ IsIPv4(observed)
  BY DEF isPublicIPv4, IsIPv4, blank
<1>2. scope \in {"cgnat", "private", "public"} => IsIPv4(local) /\ local # blank
  BY ScopeNeedsAddress
<1>3. /\ match = {TRUE} <=> IsIPv4(local) /\ seen /\ local = observed
      /\ match = {FALSE} <=> IsIPv4(local) /\ seen /\ local # observed
      /\ match # {} <=> IsIPv4(local) /\ seen
  <2>1. seen <=> IsIPv4(observed)
    BY <1>1 DEF IsIPv4, blank
  <2> QED
    BY <2>1, MatchCases, Zenon
<1>4. match = {TRUE} => scope = "public"
  BY <1>1, <1>3, PublicScope
<1>5. local = observed /\ scope = "public" => seen
  BY <1>2
<1>6. natState(local, observed) =
        CASE scope = "cgnat"                      -> "cgnat"
          [] scope = "public" /\ match = {TRUE}   -> "direct"
          [] scope = "public" /\ match = {FALSE}  -> "public_mismatch"
          [] scope = "private" /\ match # {} /\ isPublicIPv4(observed) -> "double_nat"
          [] OTHER                                -> "unknown"
  BY Zenon DEF natState
<1> HIDE DEF scope, seen, match
<1>7. ~ (match = {TRUE} /\ match = {FALSE})
  BY <1>3
<1>8. CASE scope = "cgnat"
  <2>1. natState(local, observed) = "cgnat"
    BY <1>6, <1>8
  <2> QED
    BY <1>3, <1>4, <1>8, <2>1 DEF scope, seen, match
<1>9. CASE scope = "public"
  BY <1>1, <1>2, <1>3, <1>5, <1>6, <1>7, <1>9 DEF scope, seen, match
<1>10. CASE scope = "private"
  BY <1>1, <1>2, <1>3, <1>4, <1>6, <1>7, <1>10 DEF scope, seen, match
<1>11. CASE scope \notin {"cgnat", "public", "private"}
  BY <1>3, <1>4, <1>6, <1>11 DEF scope, seen, match
<1> QED
  BY <1>8, <1>9, <1>10, <1>11

-----------------------------------------------------------------------------
(* Hostnames. *)

ZoneAt(items, k) == IF items[k].blankAfter THEN items[k].name ELSE TrimDot(items[k].name)

ItemList == Seq([name : NonEmptyName, blankAfter : BOOLEAN])

LEMMA TrimmedName ==
    ASSUME NEW name \in NonEmptyName PROVE TrimDot(name) \in NonEmptyName
<1>1. name \in Seq(STRING) /\ Len(name) \in Nat \ {0}
  BY EmptySeq DEF NonEmptyName
<1>2. CASE Len(name) > 1
  <2>1. Front(name) \in Seq(STRING) /\ Len(Front(name)) = Len(name) - 1
    BY <1>1, <1>2, ElementOfSeq, SubSeqProperties DEF Front
  <2>2. Front(name) # <<>>
    BY <1>2, <2>1, EmptySeq
  <2>3. Front(name) \in NonEmptyName
    BY <2>1, <2>2 DEF NonEmptyName
  <2> QED
    BY <2>3 DEF TrimDot
<1> QED
  BY <1>1, <1>2 DEF TrimDot

\* A setting holds names at places of its items.
LEMMA ZonesOf ==
    ASSUME NEW items \in ItemList
    PROVE  /\ DOMAIN splitCSV(items) = {k \in 1..Len(items) : ZoneAt(items, k) # <<"">>}
           /\ DOMAIN splitCSV(items) \subseteq Nat
           /\ \A k \in DOMAIN splitCSV(items) :
                 splitCSV(items)[k] = ZoneAt(items, k) /\ ZoneAt(items, k) \in NonEmptyName
<1>1. DOMAIN items = 1..Len(items)
  BY DEF ItemList
<1>2. \A k \in 1..Len(items) : ZoneAt(items, k) \in NonEmptyName
  <2> SUFFICES ASSUME NEW k \in 1..Len(items) PROVE ZoneAt(items, k) \in NonEmptyName
    OBVIOUS
  <2>1. items[k] \in [name : NonEmptyName, blankAfter : BOOLEAN]
    BY ElementOfSeq DEF ItemList
  <2>2. items[k].name \in NonEmptyName /\ TrimDot(items[k].name) \in NonEmptyName
    BY <2>1, TrimmedName
  <2> QED
    BY <2>2, Zenon DEF ZoneAt
<1>3. DOMAIN splitCSV(items) = {k \in 1..Len(items) : ZoneAt(items, k) # <<"">>}
  BY <1>1, Zenon DEF splitCSV, ZoneAt
<1>4. Len(items) \in Nat
  BY DEF ItemList
<1>5. \A k \in DOMAIN splitCSV(items) : splitCSV(items)[k] = ZoneAt(items, k)
  BY <1>1, <1>3, Zenon DEF splitCSV, ZoneAt
<1>6. \A k \in DOMAIN splitCSV(items) : k \in 1..Len(items)
  BY <1>3, Zenon
<1>7. DOMAIN splitCSV(items) \subseteq Nat
  BY <1>4, <1>6
<1> QED
  BY <1>2, <1>3, <1>5, <1>6, <1>7, Zenon

LEMMA FirstMatch ==
    ASSUME NEW zones, NEW matches \in SUBSET Nat, matches # {}
    PROVE  /\ firstMatch(zones, matches) \in matches
           /\ \A j \in matches : firstMatch(zones, matches) <= j
<1>1. \E k \in matches : \A j \in matches : k <= j
  <2> DEFINE Less == {pair \in Nat \X Nat : pair[1] < pair[2]}
  <2>1. IsWellFoundedOn(Less, Nat)
    BY NatLessThanWellFounded DEF OpToRel
  <2>2. \E k \in matches : \A j \in matches : ~ (<<j, k>> \in Less)
    <3> HIDE DEF Less
    <3> QED
      BY <2>1, WFMin
  <2>3. \A j, k \in Nat : j < k => <<j, k>> \in Less
    OBVIOUS
  <2> HIDE DEF Less
  <2>4. PICK k \in matches : \A j \in matches : ~ (<<j, k>> \in Less)
    BY <2>2
  <2>5. \A j \in matches : ~ (j < k)
    BY <2>3, <2>4
  <2> QED
    BY <2>5
<1> QED
  BY <1>1 DEF firstMatch

\* The loop of splitManagedFQDN answers for one of the zones the name is below, the
\* first, or for none.
MatchesOf(zones, name) == {k \in DOMAIN zones : Below(TrimDot(name), TrimDot(zones[k]))}
Decides(zones, name, k) ==
    /\ k \in MatchesOf(zones, name)
    /\ splitManagedFQDN(zones, name) = Verdict(TrimDot(name), TrimDot(zones[k]))

LEMMA FirstDecides ==
    ASSUME NEW zones, DOMAIN zones \subseteq Nat, NEW name
    PROVE  \/ MatchesOf(zones, name) = {} /\ splitManagedFQDN(zones, name) = NotFQDN
           \/ \E k \in MatchesOf(zones, name) :
                 Decides(zones, name, k) /\ \A j \in MatchesOf(zones, name) : k <= j
<1> DEFINE matches == MatchesOf(zones, name)
<1>1. CASE matches = {}
  BY <1>1 DEF splitManagedFQDN, MatchesOf
<1>2. CASE matches # {}
  <2>1. /\ firstMatch(zones, matches) \in matches
        /\ \A j \in matches : firstMatch(zones, matches) <= j
    BY <1>2, FirstMatch DEF MatchesOf
  <2> QED
    BY <1>2, <2>1 DEF splitManagedFQDN, MatchesOf, Decides
<1> QED
  BY <1>1, <1>2

LEMMA FirstAlone ==
    ASSUME NEW zones, DOMAIN zones \subseteq Nat, NEW name, NEW k \in MatchesOf(zones, name),
           \A j \in MatchesOf(zones, name) : k <= j
    PROVE  Decides(zones, name, k)
<1>1. PICK i \in MatchesOf(zones, name) :
        Decides(zones, name, i) /\ \A j \in MatchesOf(zones, name) : i <= j
  BY FirstDecides
<1>2. i = k
  BY <1>1 DEF MatchesOf
<1> QED
  BY <1>1, <1>2

LEMMA ZoneNames ==
    ASSUME NEW items \in ItemList, NEW k \in DOMAIN splitCSV(items)
    PROVE  TrimDot(splitCSV(items)[k]) \in NonEmptyName
  BY ZonesOf, TrimmedName

\* A hostname has at most one verdict, whichever zone gives it.
LEMMA ManagedVerdict ==
    ASSUME NEW fqdn, NEW zone, Below(fqdn, zone), Verdict(fqdn, zone) # NotFQDN, Len(zone) \in Nat
    PROVE  Verdict(fqdn, zone) = [label |-> fqdn[1], zone |-> SubSeq(fqdn, 2, Len(fqdn))]
<1>1. Len(fqdn) = Len(zone) + 1
  BY DEF Verdict
<1>2. Len(fqdn) - Len(zone) + 1 = 2
  BY <1>1
<1>3. zone = SubSeq(fqdn, 2, Len(fqdn))
  BY <1>2 DEF Below
<1> QED
  BY <1>3, Zenon DEF Verdict

LEMMA OneVerdict ==
    ASSUME NEW items \in ItemList, NEW name,
           splitManagedFQDN(splitCSV(items), name) # NotFQDN
    PROVE  LET fqdn == TrimDot(name)
           IN  splitManagedFQDN(splitCSV(items), name)
                 = [label |-> fqdn[1], zone |-> SubSeq(fqdn, 2, Len(fqdn))]
<1> DEFINE zones == splitCSV(items)
<1>1. DOMAIN zones \subseteq Nat
  BY ZonesOf
<1>2. PICK k \in MatchesOf(zones, name) : Decides(zones, name, k)
  BY <1>1, FirstDecides
<1>3. k \in DOMAIN zones /\ Below(TrimDot(name), TrimDot(zones[k]))
  BY <1>2 DEF MatchesOf
<1>4. Len(TrimDot(zones[k])) \in Nat
  BY <1>3, ZoneNames DEF NonEmptyName
<1> QED
  BY <1>2, <1>3, <1>4, ManagedVerdict DEF Decides

LEMMA ResolvedCall ==
    ASSUME CallOK, call.op = "resolve"
    PROVE  /\ call.items \in Settings /\ call.items \in ItemList
           /\ call.name \in Names /\ call.name \in NonEmptyName
           /\ call.verdict = splitManagedFQDN(splitCSV(call.items), call.name)
<1>1. PICK items \in Settings, name \in Names :
        call = [op |-> "resolve", items |-> items, name |-> name,
                verdict |-> splitManagedFQDN(splitCSV(items), name)]
  BY DEF CallOK, idle
<1>2. items \in ItemList /\ name \in NonEmptyName
  BY InputAssumption DEF ItemList
<1> QED
  BY <1>1, <1>2

\* splitManagedFQDN and splitCSV: for every two values of HERMES_DOMAINS, a hostname
\* that is managed under both has one domain and label.
THEOREM NamesStay == Spec => []NamesStayPut
<1>1. CallOK => NamesStayPut
  <2> SUFFICES ASSUME CallOK, Managed, NEW items \in Settings, VerdictUnder(items) # NotFQDN
               PROVE  VerdictUnder(items) = call.verdict
    BY DEF NamesStayPut
  <2>1. items \in ItemList
    BY InputAssumption DEF ItemList
  <2>2. /\ call.items \in ItemList
        /\ call.verdict = splitManagedFQDN(splitCSV(call.items), call.name)
    BY ResolvedCall DEF Managed
  <2> QED
    BY <2>1, <2>2, OneVerdict DEF Managed, VerdictUnder
<1> QED
  BY <1>1, CallsAnswered, PTL

\* A zone at the end of HERMES_DOMAINS comes after all that matched before.
THEOREM AdditionsKeep == Spec => []AdditionsKeepNames
<1>1. CallOK => AdditionsKeepNames
  <2> SUFFICES ASSUME CallOK, Managed, NEW more \in Settings
               PROVE  VerdictUnder(call.items \o more) = call.verdict
    BY DEF AdditionsKeepNames
  <2> DEFINE longer == call.items \o more
             before == splitCSV(call.items)
             after == splitCSV(longer)
  <2>1. /\ call.items \in ItemList /\ call.verdict = splitManagedFQDN(before, call.name)
        /\ more \in ItemList
    BY ResolvedCall, InputAssumption DEF Managed, ItemList
  <2>2. /\ longer \in ItemList /\ Len(longer) = Len(call.items) + Len(more)
        /\ Len(call.items) \in Nat /\ Len(more) \in Nat
        /\ \A i \in 1..Len(call.items) : longer[i] = call.items[i]
    BY <2>1, ConcatProperties DEF ItemList
  <2>3. /\ \A k \in DOMAIN before : k \in DOMAIN after /\ after[k] = before[k]
        /\ \A j \in DOMAIN after : j \in DOMAIN before \/ Len(call.items) < j
        /\ \A k \in DOMAIN before : k \in 1..Len(call.items)
        /\ DOMAIN before \subseteq Nat /\ DOMAIN after \subseteq Nat
    <3>1. \A i \in 1..Len(call.items) : ZoneAt(longer, i) = ZoneAt(call.items, i)
      BY <2>2 DEF ZoneAt
    <3>2. DOMAIN before = {k \in 1..Len(call.items) : ZoneAt(call.items, k) # <<"">>}
      BY <2>1, ZonesOf
    <3>3. DOMAIN after = {k \in 1..Len(longer) : ZoneAt(longer, k) # <<"">>}
      BY <2>2, ZonesOf
    <3>4. /\ \A k \in DOMAIN before : before[k] = ZoneAt(call.items, k)
          /\ \A k \in DOMAIN after : after[k] = ZoneAt(longer, k)
      BY <2>1, <2>2, ZonesOf
    <3> HIDE DEF longer, before, after
    <3>5. \A k \in 1..Len(call.items) : k \in 1..Len(longer)
      BY <2>2
    <3>6. \A j \in 1..Len(longer) : j \in 1..Len(call.items) \/ Len(call.items) < j
      BY <2>2
    <3>7. DOMAIN before \subseteq Nat /\ DOMAIN after \subseteq Nat
      BY <2>1, <2>2, ZonesOf DEF before, after
    <3> QED
      BY <3>1, <3>2, <3>3, <3>4, <3>5, <3>6, <3>7
  <2> HIDE DEF longer, before, after
  <2>4. PICK k \in MatchesOf(before, call.name) :
          Decides(before, call.name, k) /\ \A j \in MatchesOf(before, call.name) : k <= j
    BY <2>1, <2>3, FirstDecides DEF Managed
  <2>5. k \in MatchesOf(after, call.name) /\ \A j \in MatchesOf(after, call.name) : k <= j
    BY <2>2, <2>3, <2>4 DEF MatchesOf
  <2>6. Decides(after, call.name, k)
    BY <2>3, <2>5, FirstAlone
  <2> QED
    BY <2>1, <2>3, <2>4, <2>6 DEF Decides, VerdictUnder, MatchesOf, after, longer
<1> QED
  BY <1>1, CallsAnswered, PTL

\* Of two zones a name is below, the shorter is around the longer.
LEMMA Nested ==
    ASSUME NEW f \in Seq(STRING), NEW a \in Seq(STRING), NEW b \in Seq(STRING),
           Below(f, a), Below(f, b), Len(b) < Len(a)
    PROVE  Below(a, b)
<1>1. Len(f) \in Nat /\ Len(a) \in Nat /\ Len(b) \in Nat
  OBVIOUS
<1>2. Len(a) < Len(f)
  BY DEF Below
<1> DEFINE startA == Len(f) - Len(a) + 1
           startB == Len(f) - Len(b) + 1
           start == Len(a) - Len(b) + 1
<1>3. /\ \A i \in startA..Len(f) : f[i] \in STRING
      /\ \A i \in startB..Len(f) : f[i] \in STRING
      /\ \A i \in start..Len(a) : a[i] \in STRING
      /\ startA \in Int /\ startB \in Int /\ start \in Int
  BY <1>1, <1>2, ElementOfSeq
<1>4. /\ a = SubSeq(f, startA, Len(f)) /\ b = SubSeq(f, startB, Len(f))
  BY DEF Below
<1>5. /\ \A i \in 1..Len(a) : a[i] = f[startA + i - 1]
      /\ \A i \in 1..Len(b) : b[i] = f[startB + i - 1]
  <2>1. /\ \A i \in 1..(Len(f) - startA + 1) : SubSeq(f, startA, Len(f))[i] = f[startA + i - 1]
        /\ \A i \in 1..(Len(f) - startB + 1) : SubSeq(f, startB, Len(f))[i] = f[startB + i - 1]
    BY <1>1, <1>3, SubSeqProperties
  <2>2. Len(f) - startA + 1 = Len(a) /\ Len(f) - startB + 1 = Len(b)
    BY <1>1
  <2> HIDE DEF startA, startB
  <2> QED
    BY <2>1, <2>2, <1>4
<1>6. /\ SubSeq(a, start, Len(a)) \in Seq(STRING)
      /\ Len(SubSeq(a, start, Len(a))) = Len(b)
      /\ \A i \in 1..Len(b) : SubSeq(a, start, Len(a))[i] = a[start + i - 1]
  <2>1. /\ SubSeq(a, start, Len(a)) \in Seq(STRING)
        /\ Len(SubSeq(a, start, Len(a)))
              = IF start <= Len(a) THEN Len(a) - start + 1 ELSE 0
        /\ \A i \in 1..(Len(a) - start + 1) : SubSeq(a, start, Len(a))[i] = a[start + i - 1]
    BY <1>1, <1>3, SubSeqProperties
  <2>2. Len(a) - start + 1 = Len(b) /\ (start <= Len(a) \/ Len(b) = 0)
    BY <1>1
  <2> HIDE DEF start
  <2> QED
    BY <2>1, <2>2
<1>7. \A i \in 1..Len(b) : SubSeq(a, start, Len(a))[i] = b[i]
  <2> SUFFICES ASSUME NEW i \in 1..Len(b) PROVE SubSeq(a, start, Len(a))[i] = b[i]
    OBVIOUS
  <2>1. start + i - 1 \in 1..Len(a) /\ startA + (start + i - 1) - 1 = startB + i - 1
    BY <1>1
  <2> HIDE DEF startA, startB, start
  <2> QED
    BY <2>1, <1>5, <1>6
<1>8. SubSeq(a, start, Len(a)) = b
  <2> HIDE DEF start
  <2> QED
    BY <1>6, <1>7, SeqEqual
<1> QED
  BY <1>8 DEF Below

LEMMA OneOfUnnested ==
    ASSUME NEW items \in ItemList, Unnested(splitCSV(items)), NEW name \in NonEmptyName,
           NEW j \in MatchesOf(splitCSV(items), name), NEW k \in MatchesOf(splitCSV(items), name)
    PROVE  TrimDot(splitCSV(items)[j]) = TrimDot(splitCSV(items)[k])
<1> DEFINE f == TrimDot(name)
           a == TrimDot(splitCSV(items)[j])
           b == TrimDot(splitCSV(items)[k])
<1>1. j \in DOMAIN splitCSV(items) /\ k \in DOMAIN splitCSV(items) /\ Below(f, a) /\ Below(f, b)
  BY DEF MatchesOf
<1>2. f \in Seq(STRING) /\ a \in Seq(STRING) /\ b \in Seq(STRING)
  BY <1>1, TrimmedName, ZoneNames DEF NonEmptyName
<1>3. ~ Below(a, b) /\ ~ Below(b, a)
  BY <1>1 DEF Unnested
<1> HIDE DEF f, a, b
<1>4. Len(a) = Len(b)
  <2>1. ~ Len(a) < Len(b) /\ ~ Len(b) < Len(a)
    BY <1>1, <1>2, <1>3, Nested
  <2>2. Len(a) \in Nat /\ Len(b) \in Nat
    BY <1>2
  <2> QED
    BY <2>1, <2>2
<1>5. a = b
  BY <1>1, <1>4 DEF Below
<1> QED
  BY <1>5 DEF a, b

\* Unnested zones: a hostname is below one of them at most, which any order finds.
THEOREM OrderIrr == Spec => []OrderIrrelevant
<1>1. CallOK => OrderIrrelevant
  <2> SUFFICES ASSUME CallOK, call.op = "resolve", Unnested(splitCSV(call.items)),
                      NEW order \in Orders(Len(call.items))
               PROVE  VerdictUnder([k \in 1..Len(call.items) |-> call.items[order[k]]])
                         = call.verdict
    BY DEF OrderIrrelevant
  <2> DEFINE n == Len(call.items)
             other == [k \in 1..n |-> call.items[order[k]]]
             zones == splitCSV(call.items)
             zonesOther == splitCSV(other)
  <2>1. /\ call.items \in ItemList /\ call.name \in NonEmptyName
        /\ call.verdict = splitManagedFQDN(zones, call.name)
    BY ResolvedCall
  <2>2. /\ n \in Nat /\ \A k \in 1..n : order[k] \in 1..n
        /\ \A j \in 1..n : \E k \in 1..n : order[k] = j
    <3>1. n \in Nat
      BY <2>1 DEF ItemList
    <3>2. order \in [1..n -> 1..n] /\ \A j \in 1..n : \E k \in 1..n : order[k] = j
      BY Zenon DEF Orders
    <3> QED
      BY <3>1, <3>2
  <2>3. other \in ItemList /\ Len(other) = n /\ \A k \in 1..n : other[k] = call.items[order[k]]
    <3>1. \A k \in 1..n : call.items[order[k]] \in [name : NonEmptyName, blankAfter : BOOLEAN]
      BY <2>1, <2>2, ElementOfSeq DEF ItemList
    <3> QED
      BY <2>2, <3>1 DEF ItemList
  <2>4. \A k \in 1..n : ZoneAt(other, k) = ZoneAt(call.items, order[k])
    BY <2>3, Zenon DEF ZoneAt
  <2>5. /\ DOMAIN zones = {k \in 1..n : ZoneAt(call.items, k) # <<"">>}
        /\ \A k \in DOMAIN zones : zones[k] = ZoneAt(call.items, k)
        /\ DOMAIN zones \subseteq Nat
    BY <2>1, ZonesOf
  <2>6. /\ DOMAIN zonesOther = {k \in 1..n : ZoneAt(other, k) # <<"">>}
        /\ \A k \in DOMAIN zonesOther : zonesOther[k] = ZoneAt(other, k)
        /\ DOMAIN zonesOther \subseteq Nat
    BY <2>3, ZonesOf
  <2>7. /\ \A j \in DOMAIN zones : \E k \in DOMAIN zonesOther : order[k] = j /\ zonesOther[k] = zones[j]
        /\ \A k \in DOMAIN zonesOther : order[k] \in DOMAIN zones /\ zones[order[k]] = zonesOther[k]
    <3> HIDE DEF n, other, zones, zonesOther
    <3>1. ASSUME NEW k \in 1..n
          PROVE  /\ k \in DOMAIN zonesOther <=> order[k] \in DOMAIN zones
                 /\ k \in DOMAIN zonesOther => zonesOther[k] = zones[order[k]]
      BY <2>2, <2>4, <2>5, <2>6
    <3>2. ASSUME NEW j \in DOMAIN zones
          PROVE  \E k \in DOMAIN zonesOther : order[k] = j /\ zonesOther[k] = zones[j]
      <4>1. j \in 1..n
        BY <2>5
      <4>2. PICK k \in 1..n : order[k] = j
        BY <2>2, <4>1
      <4> QED
        BY <3>1, <3>2, <4>2
    <3>3. ASSUME NEW k \in DOMAIN zonesOther
          PROVE  order[k] \in DOMAIN zones /\ zones[order[k]] = zonesOther[k]
      <4>1. k \in 1..n
        BY <2>6, <3>3
      <4> QED
        BY <3>1, <3>3, <4>1
    <3> QED
      BY <3>2, <3>3
  <2> HIDE DEF n, other, zones, zonesOther
  <2>8. /\ \A j \in MatchesOf(zones, call.name) : \E k \in MatchesOf(zonesOther, call.name) : order[k] = j
        /\ \A k \in MatchesOf(zonesOther, call.name) : order[k] \in MatchesOf(zones, call.name)
    BY <2>7 DEF MatchesOf
  <2>9. CASE MatchesOf(zones, call.name) = {}
    <3>1. MatchesOf(zonesOther, call.name) = {}
      BY <2>8, <2>9
    <3>2. splitManagedFQDN(zones, call.name) = NotFQDN /\ splitManagedFQDN(zonesOther, call.name) = NotFQDN
      BY <2>9, <3>1 DEF splitManagedFQDN, MatchesOf
    <3> QED
      BY <2>1, <3>2 DEF VerdictUnder, zonesOther, other, n
  <2>10. CASE MatchesOf(zones, call.name) # {}
    <3>1. PICK k \in MatchesOf(zones, call.name) : Decides(zones, call.name, k)
      BY <2>5, <2>10, FirstDecides
    <3>2. MatchesOf(zonesOther, call.name) # {}
      BY <2>8, <2>10
    <3>3. PICK j \in MatchesOf(zonesOther, call.name) : Decides(zonesOther, call.name, j)
      BY <2>6, <3>2, FirstDecides
    <3>4. order[j] \in MatchesOf(zones, call.name) /\ zones[order[j]] = zonesOther[j]
      BY <2>7, <2>8, <3>3 DEF MatchesOf
    <3>5. TrimDot(zones[order[j]]) = TrimDot(zones[k])
      BY <2>1, <3>1, <3>4, OneOfUnnested DEF zones
    <3>6. splitManagedFQDN(zonesOther, call.name) = splitManagedFQDN(zones, call.name)
      BY <3>1, <3>3, <3>4, <3>5 DEF Decides
    <3> QED
      BY <2>1, <3>6 DEF VerdictUnder, zonesOther, other, n
  <2> QED
    BY <2>9, <2>10
<1> QED
  BY <1>1, CallsAnswered, PTL

-----------------------------------------------------------------------------
(* Reports. *)

LEMMA ReportedCall ==
    ASSUME CallOK, Accepted
    PROVE  \E peer \in Address, wans \in Seq(WANInput) :
              /\ validateInput(wans, call.networks)
              /\ call.rows = [k \in DOMAIN wans |-> buildWAN(peer, wans[k])]
<1>1. PICK peer \in Address, wans \in Seq(WANInput), networks \in NetworkSets :
        call = [op |-> "report", networks |-> networks,
                accepted |-> validateInput(wans, networks),
                rows |-> [k \in DOMAIN wans |-> buildWAN(peer, wans[k])]]
  BY DEF CallOK, Accepted, idle
<1>2. call.accepted = validateInput(wans, networks) /\ call.networks = networks
  BY <1>1
<1>3. call.rows = [k \in DOMAIN wans |-> buildWAN(peer, wans[k])]
  BY <1>1
<1> QED
  BY <1>2, <1>3 DEF Accepted

\* Evidence and validateInput: the address of the connection goes to one row.
THEOREM PeerEvidence == Spec => []PeerEvidenceOnce
<1>1. CallOK => PeerEvidenceOnce
  <2> SUFFICES ASSUME CallOK, Accepted PROVE PeerEvidenceOnce
    BY DEF PeerEvidenceOnce
  <2>1. PICK peer \in Address, wans \in Seq(WANInput) :
          /\ validateInput(wans, call.networks)
          /\ call.rows = [k \in DOMAIN wans |-> buildWAN(peer, wans[k])]
    BY ReportedCall
  <2> DEFINE rows == call.rows
  <2>2. DOMAIN rows = DOMAIN wans
    BY <2>1
  <2>3. \A k \in DOMAIN rows :
           /\ rows[k].defaultRoute = wans[k].defaultRoute
           /\ rows[k].interfaceName = wans[k].interfaceName
           /\ rows[k].source = Evidence(peer, wans[k]).source
    BY <2>1 DEF buildWAN
  <2>4. \A k \in DOMAIN rows :
           Evidence(peer, wans[k]).source = "server_peer" => wans[k].defaultRoute
    BY DEF Evidence
  <2>5. \A j, k \in DOMAIN wans : j # k =>
           /\ wans[j].interfaceName.word # wans[k].interfaceName.word
           /\ ~ (wans[j].defaultRoute /\ wans[k].defaultRoute)
    BY <2>1 DEF validateInput
  <2> SUFFICES ASSUME NEW j \in DOMAIN rows, NEW k \in DOMAIN rows
               PROVE  /\ rows[k].source = "server_peer" => rows[k].defaultRoute
                      /\ j # k =>
                            /\ ~ {rows[j].source, rows[k].source} = {"server_peer"}
                            /\ rows[j].interfaceName.word # rows[k].interfaceName.word
    BY DEF PeerEvidenceOnce
  <2>6. rows[k].source = "server_peer" => rows[k].defaultRoute
    BY <2>3, <2>4
  <2>7. ASSUME j # k, {rows[j].source, rows[k].source} = {"server_peer"} PROVE FALSE
    <3>1. rows[j].source = "server_peer" /\ rows[k].source = "server_peer"
      BY <2>7
    <3>2. wans[j].defaultRoute /\ wans[k].defaultRoute
      BY <3>1, <2>3, <2>4
    <3> QED
      BY <3>2, <2>2, <2>5, <2>7
  <2>8. j # k => rows[j].interfaceName.word # rows[k].interfaceName.word
    BY <2>2, <2>3, <2>5
  <2> QED
    BY <2>6, <2>7, <2>8
<1> QED
  BY <1>1, CallsAnswered, PTL

LEMMA BlankAddress == blank \in Address
<1>1. blank \in Seq(Nat) /\ ~ IsIPv4(blank)
  BY DEF blank, IsIPv4
<1> QED
  BY <1>1, Zenon DEF Address

LEMMA EvidenceIsPublic ==
    ASSUME NEW peer \in Address, NEW in \in WANInput, ValidWAN(in)
    PROVE  LET seen == Evidence(peer, in)
           IN  /\ seen.addr \in Address
               /\ seen.addr = blank \/ isPublicIPv4(seen.addr)
               /\ seen.source = "" <=> seen.addr = blank
<1>1. in.publicIPv4 \in Address /\ blank \in Address
  BY BlankAddress DEF WANInput
<1>2. \A a \in Address : isPublicIPv4(a) => a # blank
  BY DEF isPublicIPv4, IsIPv4, blank
<1>3. in.publicIPv4 = blank \/ isPublicIPv4(in.publicIPv4)
  BY DEF ValidWAN
<1>4. CASE in.publicIPv4 # blank
  BY <1>1, <1>3, <1>4 DEF Evidence
<1>5. CASE in.publicIPv4 = blank /\ in.defaultRoute /\ isPublicIPv4(peer)
  <2>1. Evidence(peer, in) = [addr |-> peer, source |-> "server_peer"]
    BY <1>5, Zenon DEF Evidence
  <2> QED
    BY <1>2, <1>5, <2>1
<1>6. CASE in.publicIPv4 = blank /\ ~ (in.defaultRoute /\ isPublicIPv4(peer))
  <2> DEFINE none == ""
  <2>1. Evidence(peer, in) = [addr |-> blank, source |-> none]
    BY <1>6, Zenon DEF Evidence
  <2> HIDE DEF none
  <2>2. Evidence(peer, in).addr = blank /\ Evidence(peer, in).source = none
    BY <2>1
  <2> QED
    BY <1>1, <2>2, Zenon DEF none
<1> QED
  BY <1>4, <1>5, <1>6

\* natState after validateInput: for every accepted report, the state stored for a WAN
\* follows from the addresses stored with it.
THEOREM NATsDocumented == Spec => []NATDocumented
<1>1. CallOK => NATDocumented
  <2> SUFFICES ASSUME CallOK, Accepted PROVE NATDocumented
    BY DEF NATDocumented
  <2>1. PICK peer \in Address, wans \in Seq(WANInput) :
          /\ validateInput(wans, call.networks)
          /\ call.rows = [k \in DOMAIN wans |-> buildWAN(peer, wans[k])]
    BY ReportedCall
  <2> SUFFICES ASSUME NEW k \in DOMAIN call.rows
               PROVE  LET row == call.rows[k]
                          scope == DocumentedScope(row.ipv4)
                          seen == row.observed # blank
                      IN  /\ seen => DocumentedScope(row.observed) = "public"
                          /\ (row.natState = "direct")
                                <=> (scope = "public" /\ row.observed = row.ipv4)
                          /\ (row.natState = "public_mismatch")
                                <=> (scope = "public" /\ seen /\ row.observed # row.ipv4)
                          /\ (row.natState = "double_nat") <=> (scope = "private" /\ seen)
                          /\ (row.natState = "cgnat") <=> scope = "cgnat"
                          /\ (row.match = {TRUE}) <=> (row.natState = "direct")
                          /\ (row.source = "") <=> ~ seen
    BY Zenon DEF NATDocumented
  <2>2. k \in DOMAIN wans /\ call.rows[k] = buildWAN(peer, wans[k])
    BY <2>1
  <2>3. wans[k] \in WANInput /\ ValidWAN(wans[k])
    <3>1. k \in 1..Len(wans)
      BY <2>2
    <3> QED
      BY <2>1, <2>2, <3>1, ElementOfSeq DEF validateInput
  <2> DEFINE local == wans[k].ipv4
             seenAt == Evidence(peer, wans[k])
  <2>4. local \in Address
    BY <2>3 DEF WANInput
  <2>5. /\ seenAt.addr \in Address
        /\ seenAt.addr = blank \/ isPublicIPv4(seenAt.addr)
        /\ seenAt.source = "" <=> seenAt.addr = blank
    BY <2>3, EvidenceIsPublic
  <2>6. /\ call.rows[k].ipv4 = local
        /\ call.rows[k].observed = seenAt.addr
        /\ call.rows[k].source = seenAt.source
        /\ call.rows[k].natState = natState(local, seenAt.addr)
        /\ call.rows[k].match = Match(local, seenAt.addr)
    BY <2>2 DEF buildWAN
  <2> HIDE DEF local, seenAt
  <2>7. classifyIPv4(local) = DocumentedScope(local)
    BY <2>4, Classified
  <2>8. seenAt.addr # blank => DocumentedScope(seenAt.addr) = "public"
    BY <2>5, Classified, PublicScope
  <2>9. /\ natState(local, seenAt.addr) = "direct"
             <=> DocumentedScope(local) = "public" /\ seenAt.addr = local
        /\ natState(local, seenAt.addr) = "public_mismatch"
             <=> DocumentedScope(local) = "public" /\ seenAt.addr # blank /\ seenAt.addr # local
        /\ natState(local, seenAt.addr) = "double_nat"
             <=> DocumentedScope(local) = "private" /\ seenAt.addr # blank
        /\ natState(local, seenAt.addr) = "cgnat" <=> DocumentedScope(local) = "cgnat"
        /\ Match(local, seenAt.addr) = {TRUE} <=> natState(local, seenAt.addr) = "direct"
    <3>1. LET state == natState(local, seenAt.addr)
              scope == classifyIPv4(local)
              seen == seenAt.addr # blank
          IN  /\ state = "direct" <=> scope = "public" /\ seenAt.addr = local
              /\ state = "public_mismatch" <=> scope = "public" /\ seen /\ seenAt.addr # local
              /\ state = "double_nat" <=> scope = "private" /\ seen
              /\ state = "cgnat" <=> scope = "cgnat"
              /\ Match(local, seenAt.addr) = {TRUE} <=> state = "direct"
      BY <2>4, <2>5, StateByTable
    <3> QED
      BY <2>7, <3>1, Zenon
  <2> QED
    BY <2>5, <2>6, <2>8, <2>9, Zenon
<1> QED
  BY <1>1, CallsAnswered, PTL
=============================================================================
