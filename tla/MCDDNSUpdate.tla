----------------------------- MODULE MCDDNSUpdate -----------------------------
(* Instances of DDNSUpdate: device hq, and devices lab and hqlab ("hq-lab") whose
   names let two of them create the same label.                                *)
EXTENDS DDNSUpdate, TLC

CONSTANTS hq, lab, hqlab, a1, a2, b1

MCName(d) == CASE d = hq -> <<"hq">> [] d = lab -> <<"lab">>
                [] OTHER -> <<"hq", "lab">>
MCFamily(a) == IF a = b1 THEN "AAAA" ELSE "A"

OneLabel == {<<"hq">>}
SharedLabel == {<<"hq", "lab">>}

RequestSymmetry == Permutations(Requests)
=============================================================================
