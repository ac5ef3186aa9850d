--------------------------- MODULE ReorderBuffer ---------------------------
(***************************************************************************)
(* The bookkeeping DataHandler keeps per source: the last sequence number  *)
(* received in order and the TreeSet of packets received ahead of it.  The *)
(* operators here are the branches of onPacketReceived; the modules that   *)
(* use them say when a packet arrives and where the results go.            *)
(*                                                                         *)
(* The TreeSet is the sequence in which its iterator visits it.            *)
(***************************************************************************)
EXTENDS SeqNum, SequencesExt

CONSTANT MaxDifference    \* MAX_DIFFERENCE, 5 in the program

ASSUME MaxDifferenceAssumption == MaxDifference \in Nat

\* Seeded faults: a SYN seen before counts as a restart; a packet is only kept
\* when it is at least two ahead; the loop takes any packet that is ahead, or
\* misses the one after the wrap-around.
FaultySuspectsRestart(last, buf, s) == DifferenceWithWrapAround(s, last) <= 0

FaultyBuffered(last, buf, p) ==
    {[last |-> last, adopted |-> FALSE,
      buf |-> IF DifferenceWithWrapAround(p.seq, last) > 1 THEN <<p>> \o buf ELSE buf]}

FaultyFrontIsNext(last, buf) ==
    buf # <<>> /\ DifferenceWithWrapAround(Head(buf).seq, last) > 0

MissingFrontIsNext(last, buf) == buf # <<>> /\ Head(buf).seq = last + 1

\* lastInOrderSequenceNumber has no entry for this source.
NoSeq == HalfRange

\* The TreeSet after add(p): everything in front of p compares below it,
\* everything behind does not.  p goes in front of packets with its number.
Inserted(buf, p) ==
    {InsertAt(buf, k, p) : k \in
        {k \in 1..Len(buf) + 1 :
            \A i \in DOMAIN buf :
                CompareTo(p.seq, buf[i].seq) = IF i < k THEN 1 ELSE -1}}

\* What a packet does to the bookkeeping: "adopted" says that the packet's
\* own number became the last one in order and the buffer was emptied.
Adopt(s) == [last |-> s, buf |-> <<>>, adopted |-> TRUE]
Keep(last, buf) == [last |-> last, buf |-> buf, adopted |-> FALSE]

\* The sender of this SYN "is suspected of having restarted".
SuspectsRestart(last, buf, s) ==
    \/ DifferenceWithWrapAround(s, last) < 0
    \/ /\ \E i \in DOMAIN buf : CompareTo(s, buf[i].seq) = -1
       /\ DifferenceWithWrapAround(s, Last(buf).seq) < -MaxDifference

\* A packet ahead of the last one in order is buffered, any other ignored.
Buffered(last, buf, p) ==
    IF DifferenceWithWrapAround(p.seq, last) > 0
    THEN {Keep(last, b) : b \in Inserted(buf, p)}
    ELSE {Keep(last, buf)}

\* Seeded fault: SYN-ACKs do not synchronise.
FaultyOnSyn(last, buf, p) ==
    IF p.kind = "SYNACK" THEN {Keep(last, buf)}
    ELSE IF last = NoSeq \/ SuspectsRestart(last, buf, p.seq) THEN {Adopt(p.seq)}
    ELSE Buffered(last, buf, p)

\* Seeded fault: every SYN synchronises anew.
EagerOnSyn(last, buf, p) == {Adopt(p.seq)}

\* A SYN or SYN-ACK; the first one from a source is always adopted.
OnSyn(last, buf, p) ==
    IF last = NoSeq \/ SuspectsRestart(last, buf, p.seq)
    THEN {Adopt(p.seq)}
    ELSE Buffered(last, buf, p)

\* A data packet, dropped until a SYN has been received.
OnData(last, buf, p) ==
    IF last = NoSeq THEN {Keep(last, buf)} ELSE Buffered(last, buf, p)

\* The loop that empties the front of the buffer: its next iteration takes
\* the packet after the last one in order, or throws away one that should
\* not be there, and the loop goes on as long as one of the two is in front.
FrontIsNext(last, buf) == buf # <<>> /\ Head(buf).seq = Succ(last)

FrontIsStale(last, buf) ==
    /\ buf # <<>>
    /\ ~FrontIsNext(last, buf)
    /\ DifferenceWithWrapAround(Head(buf).seq, last) <= 0

Draining(last, buf) == FrontIsNext(last, buf) \/ FrontIsStale(last, buf)
=============================================================================
