------------------------------- MODULE MCChat -------------------------------
(***************************************************************************)
(* Who may be called what in the instances of Chat.                        *)
(***************************************************************************)
EXTENDS Chat, TLC

CONSTANTS a, b, c, x, y, w

Three == {a, b, c}

\* Names that nobody shares: two for a, one for b, none for c.
Distinct == [n \in Node |-> CASE n = a -> {x, w} [] n = b -> {y} [] OTHER -> {}]

\* As far as the instances go the names of a are alike.
Renamings == Permutations({x, w})

\* Node m has handled all that was sent to it.
Idle(m) == reply[m] = NoReply /\ \A n \in Node : channel[n][m] = <<>>

\* The nodes start one after the other, each in a quiet network, and nobody
\* has a name before all have started and answered.
InTurn ==
    /\ phase[b] # "off" => phase[a] = "ready"
    /\ phase[c] # "off" => phase[b] = "ready" /\ b \in network[a] /\ a \in network[b]
    /\ phase[c] = "booted" /\ network[c] = {} => Idle(a) /\ Idle(b)
    /\ nickname # [n \in Node |-> NoNick] => ~ \E n, m \in Node :
          \E k \in DOMAIN channel[n][m] : channel[n][m][k] = NickChange(NoNick)
=============================================================================
