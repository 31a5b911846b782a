-------------------------- MODULE RotationLifecycle --------------------------
(***************************************************************************)
(* What HermesDDNS promises about the DDNS credentials of a device while   *)
(* one of them is being replaced, without tables, clocks, requests or      *)
(* reconcilers.  Each device has a phase, the key it is known by (old) and,*)
(* while it is being replaced, the key that is to take over (new).         *)
(***************************************************************************)
EXTENDS Naturals, FiniteSets

CONSTANTS Devices,      \* devices that may be registered
          Keys,         \* DDNS keys that may ever be generated
          NULL          \* no key

VARIABLES phase,        \* phase[d]: where the replacement of d's key stands
          old,          \* old[d]: the key d has been known by
          new,          \* new[d]: the key that is to replace it, or NULL
          spent,        \* keys that are never accepted again
          proven        \* keys with which a DDNS update has been authenticated

lifeVars == <<phase, old, new, spent, proven>>

Phases == {"absent", "stable", "requested", "staged", "validating", "grace"}

\* The keys the DDNS endpoint may still accept for d: never none once d is
\* registered, and two only after the replacement has been made active.
Trusted(d) ==
    {k \in Keys : \/ k = old[d]
                  \/ k = new[d] /\ phase[d] \in {"validating", "grace"}}

Fresh(k) == /\ k \notin spent
            /\ \A d \in Devices : k # old[d] /\ k # new[d]

LifecycleInit ==
    /\ phase = [d \in Devices |-> "absent"]
    /\ old = [d \in Devices |-> NULL]
    /\ new = [d \in Devices |-> NULL]
    /\ spent = {}
    /\ proven = {}

Register(d, k) ==
    /\ phase[d] = "absent" /\ Fresh(k)
    /\ phase' = [phase EXCEPT ![d] = "stable"]
    /\ old' = [old EXCEPT ![d] = k]
    /\ UNCHANGED <<new, spent, proven>>

Ask(d) ==
    /\ phase[d] = "stable"
    /\ phase' = [phase EXCEPT ![d] = "requested"]
    /\ UNCHANGED <<old, new, spent, proven>>

Offer(d, k) ==
    /\ phase[d] = "requested" /\ Fresh(k)
    /\ phase' = [phase EXCEPT ![d] = "staged"]
    /\ new' = [new EXCEPT ![d] = k]
    /\ UNCHANGED <<old, spent, proven>>

Admit(d) ==
    /\ phase[d] = "staged"
    /\ phase' = [phase EXCEPT ![d] = "validating"]
    /\ UNCHANGED <<old, new, spent, proven>>

\* An update is authenticated.  The use is recorded a moment after the key was
\* looked up, by which time the key may be spent, but a key that was only ever
\* offered is never used.
Use(k) ==
    /\ \/ \E d \in Devices : k \in Trusted(d)
       \/ k \in spent
    /\ proven' = proven \cup {k}
    /\ UNCHANGED <<phase, old, new, spent>>

\* The old key starts to fade only once the new one has been seen to work.
Switch(d) ==
    /\ phase[d] = "validating" /\ new[d] \in proven
    /\ phase' = [phase EXCEPT ![d] = "grace"]
    /\ UNCHANGED <<old, new, spent, proven>>

Retire(d) ==
    /\ phase[d] = "grace"
    /\ phase' = [phase EXCEPT ![d] = "stable"]
    /\ spent' = spent \cup {old[d]}
    /\ old' = [old EXCEPT ![d] = new[d]]
    /\ new' = [new EXCEPT ![d] = NULL]
    /\ UNCHANGED proven

\* Giving up at any point leaves the device with the key it had before.
Abandon(d) ==
    /\ phase[d] \in {"requested", "staged", "validating", "grace"}
    /\ phase' = [phase EXCEPT ![d] = "stable"]
    /\ spent' = spent \cup ({new[d]} \ {NULL})
    /\ new' = [new EXCEPT ![d] = NULL]
    /\ UNCHANGED <<old, proven>>

LifecycleNext ==
    \/ \E d \in Devices : Ask(d) \/ Admit(d) \/ Switch(d) \/ Retire(d) \/ Abandon(d)
    \/ \E d \in Devices, k \in Keys : Register(d, k) \/ Offer(d, k)
    \/ \E k \in Keys : Use(k)

LifecycleSpec == LifecycleInit /\ [][LifecycleNext]_lifeVars
=============================================================================
