------------------------------ MODULE ManagedNames ------------------------------
(***************************************************************************)
(* Which zone a hostname belongs to (splitManagedFQDN of ddns/service.go)  *)
(* and how the configured zones get there (splitCSV of config.go).         *)
(*                                                                         *)
(* A name is the sequence of its labels, in lower case; a dot at the end   *)
(* of a name is an empty last label.  An item of HERMES_DOMAINS also has a *)
(* flag: whether a blank follows it.  The configured zones are a function  *)
(* from places in that list; the places of empty items have none.          *)
(***************************************************************************)
EXTENDS Naturals, Sequences

Front(s) == SubSeq(s, 1, Len(s) - 1)

\* strings.TrimSuffix(name, "."), which takes one dot.
TrimDot(name) ==
    IF Len(name) > 1 /\ name[Len(name)] = "" THEN Front(name) ELSE name

\* The dot is looked for before the blanks are removed, so that it stays in an
\* item that ends in a dot and a blank.  Empty items are dropped.
splitCSV(items) ==
    LET zone(k) == IF items[k].blankAfter THEN items[k].name ELSE TrimDot(items[k].name)
    IN  [k \in {j \in DOMAIN items : zone(j) # <<"">>} |-> zone(k)]

\* strings.HasSuffix(fqdn, "." + zone): at least one more label in front.
Below(fqdn, zone) ==
    /\ Len(fqdn) > Len(zone)
    /\ SubSeq(fqdn, Len(fqdn) - Len(zone) + 1, Len(fqdn)) = zone

NotFQDN == [label |-> "", zone |-> <<>>]

\* Mutant: a zone matches at whatever depth, and the first label is taken.
VerdictAnyDepth(fqdn, zone) == [label |-> fqdn[1], zone |-> zone]

\* What remains in front of the zone must be one label that is not empty.
Verdict(fqdn, zone) ==
    IF Len(fqdn) = Len(zone) + 1 /\ fqdn[1] # ""
    THEN [label |-> fqdn[1], zone |-> zone] ELSE NotFQDN

\* Mutant: the loop does not stop at the first match.
lastMatch(zones, matches) == CHOOSE k \in matches : \A j \in matches : j <= k

firstMatch(zones, matches) == CHOOSE k \in matches : \A j \in matches : k <= j

\* Mutant: the first zone decides even if the name is not below it.
splitByFirstZone(zones, name) ==
    LET fqdn == TrimDot(name)
        zone == TrimDot(zones[firstMatch(zones, DOMAIN zones)])
    IN  IF Below(fqdn, zone) THEN Verdict(fqdn, zone) ELSE NotFQDN

splitManagedFQDN(zones, name) ==
    LET fqdn == TrimDot(name)
        matches == {k \in DOMAIN zones : Below(fqdn, TrimDot(zones[k]))}
    IN  IF matches = {} THEN NotFQDN
        ELSE Verdict(fqdn, TrimDot(zones[firstMatch(zones, matches)]))
=============================================================================
