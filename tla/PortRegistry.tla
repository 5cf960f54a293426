---------------------------- MODULE PortRegistry ----------------------------
(***************************************************************************)
(* What the allocation of ports promises, without how it searches.         *)
(*                                                                         *)
(* An instance that asks is granted a port no other instance holds and     *)
(* that was not already known to be in use when it asked, or it is         *)
(* refused.  It holds the port until it is granted another one.            *)
(***************************************************************************)
CONSTANTS Instance, Ports

VARIABLES
    held,    \* the port an instance holds (0: none)
    asking,  \* the instances that wait for an answer
    known    \* the ports it must not be given

vars == <<held, asking, known>>

Init ==
    /\ held = [i \in Instance |-> 0]
    /\ asking = {}
    /\ known = [i \in Instance |-> {}]

Ask(i) ==
    /\ i \notin asking
    /\ asking' = asking \cup {i}
    /\ \E K \in SUBSET Ports : known' = [known EXCEPT ![i] = K]
    /\ UNCHANGED held

Grant(i) ==
    /\ i \in asking
    /\ \E p \in Ports \ known[i] :
          /\ \A k \in Instance \ {i} : held[k] # p
          /\ held' = [held EXCEPT ![i] = p]
    /\ asking' = asking \ {i}
    /\ UNCHANGED known

Refuse(i) ==
    /\ i \in asking
    /\ asking' = asking \ {i}
    /\ UNCHANGED <<held, known>>

\* A service of somebody else stops: its port may be granted again.
Forget ==
    /\ known' \in [Instance -> SUBSET Ports]
    /\ \A i \in Instance : known'[i] \subseteq known[i]
    /\ UNCHANGED <<held, asking>>

Next == Forget \/ \E i \in Instance : Ask(i) \/ Grant(i) \/ Refuse(i)

Spec == Init /\ [][Next]_vars
=============================================================================
