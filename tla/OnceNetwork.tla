---------------------------- MODULE OnceNetwork ----------------------------
(***************************************************************************)
(* The network as the handlers of a node see it: every packet that was     *)
(* sent reaches the handlers of the other nodes in any order, each of them *)
(* once or never.  There are no hops, copies, hashes or clocks here.       *)
(***************************************************************************)
EXTENDS Integers, Sequences

CONSTANTS Node, Packets

VARIABLES
    sources,    \* the source of every packet sent so far
    times       \* times[n][i]: how often packet i has reached the handlers of n

vars == <<sources, times>>

Init ==
    /\ sources = <<>>
    /\ times = [n \in Node |-> [i \in Packets |-> 0]]

Send(n) ==
    /\ sources' = Append(sources, n)
    /\ UNCHANGED times

Arrive(n, i) ==
    /\ i \in DOMAIN sources
    /\ sources[i] # n
    /\ times[n][i] = 0
    /\ times' = [times EXCEPT ![n][i] = 1]
    /\ UNCHANGED sources

Next ==
    \/ \E n \in Node : Send(n)
    \/ \E n \in Node : \E i \in Packets : Arrive(n, i)

Spec == Init /\ [][Next]_vars
=============================================================================
