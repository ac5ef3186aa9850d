---------------------------- MODULE MCTransport ----------------------------
(***************************************************************************)
(* The kinds of packets the instances of Transport lose.                   *)
(***************************************************************************)
EXTENDS Transport

CONSTANTS a, b

Pair == {a, b}
OnlyA == {a}

\* a sends two data packets and b one.
TwoAndOne == [n \in Pair |-> IF n = a THEN 2 ELSE 1]
TwoAndNone == [n \in Pair |-> IF n = a THEN 2 ELSE 0]
OneAndNone == [n \in Pair |-> IF n = a THEN 1 ELSE 0]
NoData == [n \in Pair |-> 0]

\* What overtakes, when anything may and when handshakes keep their place; whose
\* timers are patient.
AnyKind == {"ANN", "SYN", "SYNACK", "ACK", "DATA"}
Hellos == {"SYN", "SYNACK"}
AllButHellos == {"ANN", "ACK", "DATA"}
InPlace == {}

\* Data, and the ACKs of data.
DataTraffic == {<<"DATA", "DATA">>, <<"ACK", "DATA">>}

\* Any packet.
AllTraffic == DataTraffic \cup
    {<<"ANN", "ANN">>, <<"SYN", "ANN">>, <<"SYNACK", "SYN">>, <<"ACK", "SYNACK">>}
=============================================================================
