---------------------------- MODULE DataHandler ----------------------------
(***************************************************************************)
(* transport_v2/DataHandler.java for one source: what the receiver thread  *)
(* does with the SYN, SYN-ACK and data packets of one stream, with Java's  *)
(* wrapping sequence numbers.                                              *)
(*                                                                         *)
(* The environment is that source and the network between.  Within one     *)
(* session the source numbers its packets consecutively, starting at 0     *)
(* with a SYN or SYN-ACK (SocketImpl.newSequenceNumber); packets arrive in *)
(* any order, some never, and retransmission makes copies of them.  A      *)
(* packet stops being sent after its retries, so that at any time only     *)
(* packets of a window of the stream are about.                            *)
(***************************************************************************)
EXTENDS ReorderBuffer

CONSTANTS
    Window,       \* how far apart two live packets of the stream can be
    MaxSent,      \* bound: packets the source sends
    MaxCopies,    \* bound: copies of one packet in the buffer
    OwnPackets    \* sequence numbers of the receiver's packets to the source

ASSUME WindowAssumption == Window \in 1..HalfRange - 1

VARIABLES
    sent,           \* the packets of the stream, in the order of numbering
    last,           \* lastInOrderSequenceNumber, NoSeq when absent
    buf,            \* outOfOrderPackets, in the order of its iterator
    sentButNoAck,   \* the receiver's own unacknowledged packets to the source
    lastPlace,      \* history: place in "sent" of the packet numbered last
    syncedAt,       \* history: place of the SYN that was adopted last
    delivered,      \* history: places put on receiveQueue since then
    acked           \* history: data packets acknowledged since then

histories == <<lastPlace, syncedAt, delivered, acked>>
vars == <<sent, last, buf, sentButNoAck, histories>>

Init ==
    /\ sent = <<>>
    /\ last = NoSeq
    /\ buf = <<>>
    /\ sentButNoAck = {}
    /\ lastPlace = 0
    /\ syncedAt = 0
    /\ delivered = <<>>
    /\ acked = {}

----------------------------------------------------------------------------
\* The source and the application of the receiver.

NextSeq == IF sent = <<>> THEN 0 ELSE Succ(Last(sent).seq)

\* A live packet is at most Window places behind the newest one.
Live(i) == i \in DOMAIN sent /\ Len(sent) - i < Window

\* The source numbers a packet and sends it.  It does not get further than
\* Window ahead of a receiver that waits for one of its packets: it would
\* have given up retransmitting it and started a new session.
Send(kind) ==
    /\ Len(sent) < MaxSent
    /\ sent = <<>> => kind = "SYN"
    /\ last # NoSeq => Len(sent) - lastPlace < Window
    /\ sent' = Append(sent, [kind |-> kind, seq |-> NextSeq, place |-> Len(sent) + 1])
    /\ UNCHANGED <<last, buf, sentButNoAck, histories>>

\* The receiver sends a packet of its own to the source, or gets its ACK.
SendOwn(s) ==
    /\ sentButNoAck' = sentButNoAck \cup {s}
    /\ UNCHANGED <<sent, last, buf, histories>>

OwnAcked(s) ==
    /\ sentButNoAck' = sentButNoAck \ {s}
    /\ UNCHANGED <<sent, last, buf, histories>>

----------------------------------------------------------------------------
\* The receiver thread.  It takes the next packet when the loop at the end
\* of the handler is done with the buffer.

Receivable(i) ==
    /\ Live(i)
    /\ Cardinality({k \in DOMAIN buf : buf[k].place = i}) < MaxCopies
    /\ ~Draining(last, buf)

\* A SYN or SYN-ACK.  One that is taken for a restart of the source also
\* forgets which packets to the source are unacknowledged.
ReceiveSyn(i) ==
    /\ Receivable(i)
    /\ sent[i].kind = "SYN"
    /\ \E o \in OnSyn(last, buf, sent[i]) :
          /\ last' = o.last
          /\ buf' = o.buf
          /\ lastPlace' = IF o.adopted THEN i ELSE lastPlace
          /\ syncedAt' = IF o.adopted THEN i ELSE syncedAt
          /\ delivered' = IF o.adopted THEN <<>> ELSE delivered
          /\ acked' = IF o.adopted THEN {} ELSE acked
          /\ sentButNoAck' = IF o.adopted /\ last # NoSeq THEN {} ELSE sentButNoAck
    /\ UNCHANGED sent

\* A data packet; once there was a SYN it is acknowledged, even when it is
\* not buffered because it came before.
ReceiveData(i) ==
    /\ Receivable(i)
    /\ sent[i].kind = "DATA"
    /\ \E o \in OnData(last, buf, sent[i]) : last' = o.last /\ buf' = o.buf
    /\ acked' = IF last = NoSeq THEN acked ELSE acked \cup {i}
    /\ UNCHANGED <<sent, sentButNoAck, lastPlace, syncedAt, delivered>>

\* An iteration of the loop: the packet in front is next, its data goes to
\* the receive queue.
TakeNext ==
    /\ FrontIsNext(last, buf)
    /\ last' = Head(buf).seq
    /\ lastPlace' = Head(buf).place
    /\ delivered' = IF Head(buf).kind = "DATA"
                    THEN Append(delivered, Head(buf).place)
                    ELSE delivered
    /\ buf' = Tail(buf)
    /\ UNCHANGED <<sent, sentButNoAck, syncedAt, acked>>

\* An iteration of the loop: the packet in front "does not belong there".
DropStale ==
    /\ FrontIsStale(last, buf)
    /\ buf' = Tail(buf)
    /\ UNCHANGED <<sent, last, sentButNoAck, histories>>

Next ==
    \/ \E kind \in {"SYN", "DATA"} : Send(kind)
    \/ \E s \in OwnPackets : SendOwn(s) \/ OwnAcked(s)
    \/ \E i \in 1..Len(sent) : ReceiveSyn(i) \/ ReceiveData(i)
    \/ TakeNext
    \/ DropStale

Spec == Init /\ [][Next]_vars

----------------------------------------------------------------------------

Packet == [kind : {"SYN", "DATA"}, seq : SeqNums, place : Nat]

\* The type of the bookkeeping and of the histories beside it.
TypeOK ==
    /\ sent \in Seq(Packet)
    /\ last \in SeqNums \cup {NoSeq}
    /\ buf \in Seq(Packet)
    /\ sentButNoAck \subseteq OwnPackets
    /\ lastPlace \in 0..Len(sent)
    /\ syncedAt \in 0..Len(sent)
    /\ delivered \in Seq(1..Len(sent))
    /\ acked \subseteq 1..Len(sent)

\* The wrapping numbers put the buffered packets in the order in which the
\* source sent them, and none of them is behind the last one in order: the
\* comparator of the TreeSet, the test "ahead of the last one" and the
\* SYN heuristic of onPacketReceived agree about the order.
BufferInStreamOrder ==
    \A i, j \in DOMAIN buf :
        /\ i < j => buf[i].place <= buf[j].place
        /\ buf[i].place >= lastPlace

\* When the receiver thread waits for a packet, the one after the last in
\* order is not in the buffer: the loop never stops too early.
NothingNextWaits ==
    ~Draining(last, buf) => \A i \in DOMAIN buf : buf[i].place > lastPlace + 1

\* Since the stream was last synchronised, the receive queue got exactly the
\* data packets sent after that SYN up to the last one in order, in the
\* order they were sent and each once, however they arrived.
DeliveredInOrder ==
    /\ \A m, n \in DOMAIN delivered : m < n => delivered[m] < delivered[n]
    /\ {delivered[m] : m \in DOMAIN delivered}
         = {i \in syncedAt + 1..lastPlace : sent[i].kind = "DATA"}

\* An acknowledged data packet has reached the receive queue or waits in the
\* buffer for its turn: the source, which forgets it now, need not send it
\* again.  (Until the stream is taken for restarted.)
AckedIsKept ==
    \A i \in acked :
        \/ i <= lastPlace
        \/ \E k \in DOMAIN buf : buf[k].place = i

\* The TreeSet has one place for every packet that can arrive: the comparator
\* orders the packets that are about, although it says of two packets with one
\* number that each is below the other, and across the wrap-around.
TreeSetPlaceIsUnique ==
    last # NoSeq =>
        \A i \in DOMAIN sent : Live(i) => Cardinality(Inserted(buf, sent[i])) = 1

PlacesOf(b) == {b[k].place : k \in DOMAIN b}

\* The handler implements in-order delivery of the stream.
InOrder == INSTANCE InOrderDelivery WITH
    stream <- [i \in DOMAIN sent |-> sent[i].kind],
    upTo <- lastPlace,
    held <- PlacesOf(buf) \ {lastPlace},
    delivered <- delivered

ImplementsInOrderDelivery == InOrder!Spec
=============================================================================
