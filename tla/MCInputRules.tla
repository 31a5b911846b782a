------------------------------ MODULE MCInputRules ------------------------------
(* Inputs for InputRules: both ends of every block, reports of up to two WANs, *)
(* and settings of up to two zones, one nested in another.                     *)
EXTENDS InputRules

Octets(edges) == UNION {{e - 1, e, e + 1} : e \in edges} \cap 0..255

MCAddresses ==
    {blank, <<1>>, <<1, 1, 1, 1, 1, 1, 1, 1>>}
    \cup (({0, 1, 9, 10, 11, 99, 100, 101, 126, 127, 128, 169, 172, 192, 198, 203}
           \cup {223, 224, 239, 240, 255})
          \X ({0, 255} \cup Octets({16, 19, 31, 51, 64, 127, 168, 254}))
          \X Octets({1, 100, 113, 255}) \X {0, 1, 255})

Public == <<8, 8, 8, 8>>
MCPeers == {<<>>, Public, <<9, 9, 9, 9>>, <<10, 0, 0, 1>>, <<1, 1, 1, 1, 1, 1, 1, 1>>}

WAN(name, role, route, local, probe) ==
    [interfaceName |-> name, role |-> role, defaultRoute |-> route, ipv4 |-> local,
     gatewayIPv4 |-> local, ipv6 |-> blank, publicIPv4 |-> probe]
Name(word, spelling) == [word |-> word, spelling |-> spelling]

OneWAN == {<<WAN(Name("eth8", "lower"), "", route, local, probe)>> :
             route \in BOOLEAN,
             local \in {blank, <<1>>, Public, <<9, 9, 9, 9>>, <<192, 168, 1, 20>>,
                        <<100, 72, 35, 18>>, <<169, 254, 1, 1>>, <<198, 19, 0, 1>>},
             probe \in {blank, <<1>>, Public, <<10, 0, 0, 1>>, <<100, 64, 0, 1>>, <<203, 0, 113, 5>>}}

TwoWANs == {<<WAN(Name("eth8", "lower"), "primary", r1, Public, p1),
              WAN(n, role, r2, <<192, 168, 1, 20>>, p2)>> :
              n \in {Name("eth8", "upper"), Name("eth9", "lower"), Name("", "lower")},
              role \in {"secondary", "backup"}, r1 \in BOOLEAN, r2 \in BOOLEAN,
              p1 \in {blank, Public}, p2 \in {blank, <<9, 9, 9, 9>>}}

MCWANLists == {<<>>} \cup OneWAN \cup TwoWANs

Network(vlan, cidr, gateway) ==
    [name |-> "LAN", vlan |-> vlan, cidr |-> cidr, gateway |-> gateway]
MCNetworkSets ==
    {{}} \cup {{Network(vlan, Prefix(<<10, 222, 20, 7>>, 24), gateway)} :
                 vlan \in {{}, {4094}, {4095}},
                 gateway \in {blank, <<10, 222, 20, 1>>, <<10, 222, 21, 1>>}}

Item(name, blankAfter) == [name |-> name, blankAfter |-> blankAfter]
Items == {Item(<<"z">>, FALSE), Item(<<"z", "">>, TRUE), Item(<<"sub", "z">>, FALSE),
          Item(<<"sub", "z", "">>, FALSE), Item(<<"y">>, FALSE), Item(<<"">>, TRUE)}
MCSettings == {s \in UNION {[1..n -> Items] : n \in 1..2} : DOMAIN splitCSV(s) # {}}

MCNames == UNION {[1..n -> {"h", "sub", "z", ""}] : n \in 1..4}
=============================================================================
