------------------------------- MODULE SeqNum -------------------------------
(***************************************************************************)
(* The arithmetic of sequence numbers: Java ints that wrap around, and the *)
(* signed circular difference of transport_v2/Util.java on which every     *)
(* ordering decision of the transport rests (RawPacket.compareTo and       *)
(* DataHandler.onPacketReceived).                                          *)
(*                                                                         *)
(* An int has 2 * HalfRange values; HalfRange is 2^31 in the program and a *)
(* small number in the instances TLC checks.                               *)
(***************************************************************************)
EXTENDS Integers

CONSTANT HalfRange

ASSUME HalfRangeAssumption == HalfRange \in Nat \ {0}

Modulus == 2 * HalfRange

\* The values of a Java int.
SeqNums == -HalfRange .. HalfRange - 1

\* Seeded faults, which the checks must notice: an int that grows without
\* bound, and comparisons that forget that numbers wrap around,
\* or take <= 1 for < 1.
FaultySucc(x) == x + 1
FaultyDifference(x, y) == x - y
FaultyCompareTo(x, y) == IF x <= y THEN -1 ELSE 1
OffByOneCompareTo(x, y) ==
    LET ahead == IF x < y THEN x + Modulus - y ELSE x - y
    IN  IF ahead <= 1 \/ ahead >= HalfRange THEN -1 ELSE 1

\* "x + 1" on an int.
Succ(x) == IF x = HalfRange - 1 THEN -HalfRange ELSE x + 1

\* How many increments lead from x to y, and how many decrements.
IncrementSteps(x, y) == IF y < x THEN y + Modulus - x ELSE y - x
DecrementSteps(x, y) == IF y > x THEN x + Modulus - y ELSE x - y

\* Util.differenceWithWrapAround: the shorter way round, negative when y is
\* ahead of x; two numbers exactly half the circle apart are each behind the
\* other.
DifferenceWithWrapAround(x, y) ==
    IF x = y THEN 0
    ELSE IF IncrementSteps(x, y) > DecrementSteps(x, y)
         THEN DecrementSteps(x, y)
         ELSE -IncrementSteps(x, y)

\* RawPacket.compareTo on the sequence numbers: never 0, so a TreeSet keeps
\* two packets with equal numbers, the one added last in front.
CompareTo(x, y) == IF DifferenceWithWrapAround(x, y) < 1 THEN -1 ELSE 1
=============================================================================
