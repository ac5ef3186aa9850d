-------------------------- MODULE InOrderDelivery --------------------------
(***************************************************************************)
(* What the receiving side of the transport promises about one stream, in  *)
(* terms of the order in which the source numbered its packets: between    *)
(* two synchronisations the application gets the data packets that follow  *)
(* the SYN, each once and in the order they were sent.                     *)
(*                                                                         *)
(* Packets are named by their place in the stream, so there are no         *)
(* sequence numbers, no wrap-around and no buffer order here.              *)
(***************************************************************************)
EXTENDS Integers, Sequences

CONSTANT MaxDifference

VARIABLES
    stream,      \* the kinds of the packets sent so far, "SYN" or "DATA"
    upTo,        \* place of the last packet received in order; 0 before a SYN
    held,        \* places received ahead of their turn
    delivered    \* data packets handed to the application since the last SYN

vars == <<stream, upTo, held, delivered>>

Init ==
    /\ stream = <<>>
    /\ upTo = 0
    /\ held = {}
    /\ delivered = <<>>

Send(kind) ==
    /\ stream' = Append(stream, kind)
    /\ UNCHANGED <<upTo, held, delivered>>

\* A packet ahead of its turn is kept until the gap before it is filled.
Hold(i) ==
    /\ upTo > 0
    /\ i > upTo
    /\ held' = held \cup {i}
    /\ UNCHANGED <<stream, upTo, delivered>>

\* The packet whose turn it is leaves the held ones; data goes up.
Advance ==
    /\ upTo + 1 \in held
    /\ upTo' = upTo + 1
    /\ held' = held \ {upTo + 1}
    /\ delivered' = IF stream[upTo + 1] = "DATA"
                    THEN Append(delivered, upTo + 1)
                    ELSE delivered
    /\ UNCHANGED stream

\* A SYN starts the stream anew at its own place: the first one, one sent
\* before the last packet received in order, or one sent more than
\* MaxDifference places before a packet that is held.
Synchronize(i) ==
    /\ stream[i] = "SYN"
    /\ upTo = 0 \/ i < upTo \/ \E j \in held : j - i > MaxDifference
    /\ upTo' = i
    /\ held' = {}
    /\ delivered' = <<>>
    /\ UNCHANGED stream

Next ==
    \/ \E kind \in {"SYN", "DATA"} : Send(kind)
    \/ \E i \in 1..Len(stream) : Hold(i) \/ Synchronize(i)
    \/ Advance

Spec == Init /\ [][Next]_vars
=============================================================================
