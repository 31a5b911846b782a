-------------------------- MODULE EnrollmentLifecycle --------------------------
(***************************************************************************)
(* What HermesDDNS promises about the agents of its devices, without       *)
(* tables, clocks, requests or administrators.  A device is offered        *)
(* tokens, of which one at a time can be exchanged for an identity; it has *)
(* one accepted identity at a time; and an identity that a token was       *)
(* exchanged for stays tied to that token until it is confirmed.           *)
(***************************************************************************)

CONSTANTS Devices,
          Tokens,       \* one-time enrollment tokens that may ever be created
          Identities    \* agent identities that may ever be issued

VARIABLES offered,      \* offered[d]: tokens that may be exchanged for an identity of d
          claimed,      \* claimed[d]: exchanged tokens with their identities, unconfirmed
          accepted,     \* accepted[d]: identities with which an agent is d's
          void,         \* tokens that came to nothing
          dismissed,    \* identities that are never accepted again
          proven,       \* identities an agent has authenticated with
          enrolled      \* exchanged tokens with their identities, confirmed

lifeVars == <<offered, claimed, accepted, void, dismissed, proven, enrolled>>

NewToken(t) ==
    /\ t \notin void
    /\ \A d \in Devices : t \notin offered[d] /\ \A c \in claimed[d] : c[1] # t
    /\ \A c \in enrolled : c[1] # t
NewIdentity(i) ==
    /\ i \notin dismissed
    /\ \A d \in Devices : i \notin accepted[d]

LifecycleInit ==
    /\ offered = [d \in Devices |-> {}]
    /\ claimed = [d \in Devices |-> {}]
    /\ accepted = [d \in Devices |-> {}]
    /\ void = {} /\ dismissed = {} /\ proven = {} /\ enrolled = {}

\* Only a device without an agent, and without one on its way, is offered a token;
\* a token it was offered before is void from then on.
Offer(d, t) ==
    /\ claimed[d] = {} /\ accepted[d] = {} /\ NewToken(t)
    /\ offered' = [offered EXCEPT ![d] = {t}]
    /\ void' = void \cup offered[d]
    /\ UNCHANGED <<claimed, accepted, dismissed, proven, enrolled>>

\* Offers end at any time, by lapse of time or by a decision, and are void.
Withdraw(D) ==
    /\ offered' = [d \in Devices |-> IF d \in D THEN {} ELSE offered[d]]
    /\ void' = void \cup UNION {offered[d] : d \in D}
    /\ UNCHANGED <<claimed, accepted, dismissed, proven, enrolled>>

\* A token is exchanged once, for the only identity of its device.
Exchange(d, t, i) ==
    /\ t \in offered[d] /\ accepted[d] = {} /\ NewIdentity(i)
    /\ offered' = [offered EXCEPT ![d] = {}]
    /\ claimed' = [claimed EXCEPT ![d] = {<<t, i>>}]
    /\ accepted' = [accepted EXCEPT ![d] = {i}]
    /\ UNCHANGED <<void, dismissed, proven, enrolled>>

\* An identity that is given to a device by hand.
Install(d, i) ==
    /\ accepted[d] = {} /\ NewIdentity(i)
    /\ accepted' = [accepted EXCEPT ![d] = {i}]
    /\ UNCHANGED <<offered, claimed, void, dismissed, proven, enrolled>>

\* An agent authenticates.  The use is recorded a moment after the identity was
\* looked up, by which time it may be dismissed, but it was accepted once.
Prove(i) ==
    /\ \/ \E d \in Devices : i \in accepted[d]
       \/ i \in dismissed
    /\ proven' = proven \cup {i}
    /\ UNCHANGED <<offered, claimed, accepted, void, dismissed, enrolled>>

\* The agent confirms with the very identity the token was exchanged for.
Confirm(d, c) ==
    /\ c \in claimed[d] /\ c[2] \in proven
    /\ claimed' = [claimed EXCEPT ![d] = {}]
    /\ enrolled' = enrolled \cup {c}
    /\ UNCHANGED <<offered, accepted, void, dismissed, proven>>

\* Giving up an unconfirmed enrollment dismisses its identity in the same step.
Cancel(d, c) ==
    /\ c \in claimed[d]
    /\ claimed' = [claimed EXCEPT ![d] = {}]
    /\ accepted' = [accepted EXCEPT ![d] = @ \ {c[2]}]
    /\ void' = void \cup {c[1]}
    /\ dismissed' = dismissed \cup {c[2]}
    /\ UNCHANGED <<offered, proven, enrolled>>

Dismiss(d, i) ==
    /\ i \in accepted[d]
    /\ accepted' = [accepted EXCEPT ![d] = {}]
    /\ dismissed' = dismissed \cup {i}
    /\ UNCHANGED <<offered, claimed, void, proven, enrolled>>

LifecycleNext ==
    \/ \E d \in Devices, t \in Tokens : Offer(d, t)
    \/ \E D \in SUBSET Devices : Withdraw(D)
    \/ \E d \in Devices, t \in Tokens, i \in Identities : Exchange(d, t, i)
    \/ \E d \in Devices, i \in Identities : Install(d, i) \/ Dismiss(d, i)
    \/ \E i \in Identities : Prove(i)
    \/ \E d \in Devices : \E c \in claimed[d] : Confirm(d, c) \/ Cancel(d, c)

LifecycleSpec == LifecycleInit /\ [][LifecycleNext]_lifeVars
=============================================================================
