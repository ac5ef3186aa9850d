-------------------------- MODULE OrderedChannels --------------------------
(***************************************************************************)
(* What Socket promises its users: between every two nodes a channel that  *)
(* yields what was put into it, in that order and each piece once.  There  *)
(* are no numbers here, no acknowledgements, timers or handshakes.         *)
(***************************************************************************)
EXTENDS Integers, Sequences

CONSTANT Node

VARIABLES
    sent,    \* sent[n][m]: what n has put into its channel to m
    got      \* got[m][n]: what m has got out of it

vars == <<sent, got>>

Init ==
    /\ sent = [n \in Node |-> [m \in Node |-> <<>>]]
    /\ got = [n \in Node |-> [m \in Node |-> <<>>]]

\* Node n puts something, whatever it is, into its channel to m.
Put(n, m) ==
    /\ Len(sent'[n][m]) > Len(sent[n][m])
    /\ sent' = [sent EXCEPT ![n][m] = Append(@, sent'[n][m][Len(@) + 1])]
    /\ UNCHANGED got

\* Node m gets from the channel of n what it has not got yet, the first of it.
Get(m, n) ==
    /\ Len(got[m][n]) < Len(sent[n][m])
    /\ got' = [got EXCEPT ![m][n] = Append(@, sent[n][m][Len(got[m][n]) + 1])]
    /\ UNCHANGED sent

Next == \E n, m \in Node : Put(n, m) \/ Get(m, n)

Spec == Init /\ [][Next]_vars
=============================================================================
