----------------------------- MODULE Transport -----------------------------
(***************************************************************************)
(* The reliable transport of transport_v2: SocketImpl with its packet      *)
(* handlers and retransmission timers, on every node.  A node announces    *)
(* itself, every node that hears it answers with a SYN, the two handshake  *)
(* (SYN, SYN-ACK, ACK) and enter each other into their network; data goes  *)
(* to members of the network, numbered, acknowledged, retransmitted until  *)
(* acknowledged and, after the last try, the member is removed.            *)
(*                                                                         *)
(* Between two nodes lies the flooding of ReceiverThread and               *)
(* BroadcastHandler: here a channel that loses packets, and delivers the   *)
(* others once each, in order or not.                                      *)
(*                                                                         *)
(* The receiver thread handles one packet per step, the loop of            *)
(* DataHandler one buffered packet per step; no other packet is received   *)
(* before the loop ends.  Application and timers interleave with both.     *)
(***************************************************************************)
EXTENDS ReorderBuffer

CONSTANTS
    Node,
    MaxRetransmit,   \* MAX_RETRANSMIT_COUNT, 5 in the program
    DataFirst,       \* where DataHandler runs before SynchronizationHandler,
                     \* which the order of a HashSet decides in each process
    Overtaking,      \* the kinds of packets that can overtake each other
    Patient,         \* the kinds of packets whose timers only fire when neither the
                     \* packet nor its answer is under way
    Lossy,           \* the kinds of packets that can be lost
    MaxLoss,         \* bound: packets lost
    MaxAnnounce,     \* bound: announces sent
    MaxData          \* bound: data packets each node sends to another

ASSUME TransportAssumption ==
    /\ MaxRetransmit \in Nat \ {0}
    /\ DataFirst \subseteq Node
    /\ Overtaking \subseteq {"ANN", "SYN", "SYNACK", "ACK", "DATA"}
    /\ Patient \subseteq {"ANN", "SYN", "SYNACK", "ACK", "DATA"}
    /\ MaxLoss \in Nat
    /\ MaxAnnounce \in Nat
    /\ MaxData \in [Node -> Nat]

VARIABLES
    lastUsed,       \* lastUsedSequenceNumber[n][m], 0 when absent: the next number
    sentButNoAck,   \* numbers n sent to m and has no ACK for
    sentSynAck,     \* sentSynAckButNoAck[n][m]
    network,        \* network[n]
    last,           \* lastInOrderSequenceNumber[n][m] of DataHandler
    buf,            \* outOfOrderPackets[n][m] of DataHandler
    timers,         \* AckAwaitTimerTasks of n that have not run yet
    channel,        \* packets under way from n to m
    session,        \* history: how often n has started numbering for m anew
    submitted,      \* history: data n sent to m
    delivered,      \* history: data n put on its receive queue from m
    losses,         \* packets lost so far
    announces       \* announces sent so far

tracking == <<lastUsed, sentButNoAck, timers, session>>
membership == <<sentSynAck, network>>
ordering == <<last, buf, delivered>>
environment == <<losses, announces>>
vars == <<tracking, membership, ordering, environment, channel, submitted>>

Peers(n) == Node \ {n}

----------------------------------------------------------------------------
\* Packets.  The session a number belongs to is not in the packet; it tells
\* which packet a number stands for.  An ACK says in "re" what it answers.
\* (FaultyAck is a seeded fault: it repeats the wrong field.)

Announcement == [kind |-> "ANN", seq |-> 0, ack |-> 0, session |-> 0, re |-> "ANN"]
Syn(s, e) == [kind |-> "SYN", seq |-> s, ack |-> 0, session |-> e, re |-> "ANN"]
SynAck(s, a, e) == [kind |-> "SYNACK", seq |-> s, ack |-> a, session |-> e, re |-> "SYN"]
Data(s, e) == [kind |-> "DATA", seq |-> s, ack |-> 0, session |-> e, re |-> "DATA"]
FaultyAck(p) == [kind |-> "ACK", seq |-> 0, ack |-> p.ack, session |-> 0, re |-> p.kind]
Ack(p) == [kind |-> "ACK", seq |-> 0, ack |-> p.seq, session |-> 0, re |-> p.kind]

Init ==
    /\ lastUsed = [n \in Node |-> [m \in Node |-> 0]]
    /\ sentButNoAck = [n \in Node |-> [m \in Node |-> {}]]
    /\ sentSynAck = [n \in Node |-> [m \in Node |-> {}]]
    /\ network = [n \in Node |-> {}]
    /\ last = [n \in Node |-> [m \in Node |-> NoSeq]]
    /\ buf = [n \in Node |-> [m \in Node |-> <<>>]]
    /\ timers = [n \in Node |-> {}]
    /\ channel = [n \in Node |-> [m \in Node |-> <<>>]]
    /\ session = [n \in Node |-> [m \in Node |-> 0]]
    /\ submitted = [n \in Node |-> [m \in Node |-> <<>>]]
    /\ delivered = [n \in Node |-> [m \in Node |-> <<>>]]
    /\ losses = 0
    /\ announces = 0

----------------------------------------------------------------------------
\* SocketImpl.newSequenceNumber and the bookkeeping of sendAndAwaitAck: the
\* packet p from n to m is unacknowledged and its first timer is scheduled.
\* A session is shorter than half the circle of numbers.

NumberLeft(n, m) == lastUsed[n][m] < HalfRange - 1

TakeNumber(n, m) == lastUsed' = [lastUsed EXCEPT ![n][m] = @ + 1]

\* Seeded fault: one try too many.
FaultySchedule(n, m, p) ==
    timers' = [timers EXCEPT ![n] =
                  @ \cup {[to |-> m, packet |-> p, retries |-> MaxRetransmit + 1]}]

Schedule(n, m, p) ==
    timers' = [timers EXCEPT ![n] =
                  @ \cup {[to |-> m, packet |-> p, retries |-> MaxRetransmit]}]

----------------------------------------------------------------------------
\* The application.

\* SocketImpl.connect and its timer.
Announce(n) ==
    /\ announces < MaxAnnounce
    /\ announces' = announces + 1
    /\ channel' = [channel EXCEPT ![n] =
          [m \in Node |-> IF m = n THEN @[m] ELSE Append(@[m], Announcement)]]
    /\ UNCHANGED <<tracking, membership, ordering, losses, submitted>>

\* SocketImpl.send(data, m); a destination outside the network is refused.
SendData(n, m) ==
    LET p == Data(lastUsed[n][m], session[n][m])
    IN  /\ m \in network[n]
        /\ Len(submitted[n][m]) < MaxData[n]
        /\ NumberLeft(n, m)
        /\ TakeNumber(n, m)
        /\ channel' = [channel EXCEPT ![n][m] = Append(@, p)]
        /\ sentButNoAck' = [sentButNoAck EXCEPT ![n][m] = @ \cup {p.seq}]
        /\ Schedule(n, m, p)
        /\ submitted' = [submitted EXCEPT ![n][m] = Append(@, <<p.session, p.seq>>)]
        /\ UNCHANGED <<session, membership, ordering, environment>>

----------------------------------------------------------------------------
\* The receiver thread of n gets packet k of the channel from m.

Idle(n) == \A m \in Node : ~Draining(last[n][m], buf[n][m])

Receivable(n, m, k, kind) ==
    /\ k \in DOMAIN channel[m][n]
    /\ k = 1 \/ \A i \in 1..k : channel[m][n][i].kind \in Overtaking
    /\ channel[m][n][k].kind = kind
    /\ Idle(n)

\* The packet leaves its channel, the replies enter the opposite one.
Consume(n, m, k, replies) ==
    channel' = [channel EXCEPT ![m][n] = RemoveAt(@, k), ![n][m] = @ \o replies]

\* Seeded fault: who is in the network already gets no answer.
FaultyReceiveAnnounce(n, m, k) ==
    LET p == Syn(lastUsed[n][m], session[n][m])
        answer == m \notin network[n]
    IN  /\ Receivable(n, m, k, "ANN")
        /\ NumberLeft(n, m)
        /\ answer => TakeNumber(n, m)
        /\ Consume(n, m, k, IF answer THEN <<p>> ELSE <<>>)
        /\ answer => sentButNoAck' = [sentButNoAck EXCEPT ![n][m] = @ \cup {p.seq}]
        /\ answer => Schedule(n, m, p)
        /\ ~answer => UNCHANGED <<lastUsed, sentButNoAck, timers>>
        /\ UNCHANGED <<session, membership, ordering, environment, submitted>>

\* AnnounceHandler: answer with a SYN.
ReceiveAnnounce(n, m, k) ==
    LET p == Syn(lastUsed[n][m], session[n][m])
    IN  /\ Receivable(n, m, k, "ANN")
        /\ NumberLeft(n, m)
        /\ TakeNumber(n, m)
        /\ Consume(n, m, k, <<p>>)
        /\ sentButNoAck' = [sentButNoAck EXCEPT ![n][m] = @ \cup {p.seq}]
        /\ Schedule(n, m, p)
        /\ UNCHANGED <<session, membership, ordering, environment, submitted>>

\* A SYN: SynchronizationHandler answers with a SYN-ACK and remembers it,
\* DataHandler adopts or buffers the SYN's number.  When it takes the SYN for
\* a restart it forgets what is unacknowledged, the SYN-ACK included if that
\* was sent before.
ReceiveSyn(n, m, k) ==
    LET p == channel[m][n][k]
        r == SynAck(lastUsed[n][m], p.seq, session[n][m])
    IN  /\ Receivable(n, m, k, "SYN")
        /\ NumberLeft(n, m)
        /\ TakeNumber(n, m)
        /\ Consume(n, m, k, <<r>>)
        /\ Schedule(n, m, r)
        /\ sentSynAck' = [sentSynAck EXCEPT ![n][m] = @ \cup {r.seq}]
        /\ \E o \in OnSyn(last[n][m], buf[n][m], p) :
              /\ last' = [last EXCEPT ![n][m] = o.last]
              /\ buf' = [buf EXCEPT ![n][m] = o.buf]
              /\ sentButNoAck' = [sentButNoAck EXCEPT ![n][m] =
                    IF o.adopted /\ last[n][m] # NoSeq
                    THEN IF n \in DataFirst THEN {r.seq} ELSE {}
                    ELSE @ \cup {r.seq}]
        /\ UNCHANGED <<session, network, delivered, environment, submitted>>

\* A SYN-ACK: SynchronizationHandler acknowledges it and enters m into the
\* network, DataHandler treats it like a SYN, AcknowledgementHandler takes
\* its acknowledgement.
ReceiveSynAck(n, m, k) ==
    LET p == channel[m][n][k]
    IN  /\ Receivable(n, m, k, "SYNACK")
        /\ Consume(n, m, k, <<Ack(p)>>)
        /\ network' = [network EXCEPT ![n] = @ \cup {m}]
        /\ sentSynAck' = [sentSynAck EXCEPT ![n][m] = @ \ {p.ack}]
        /\ \E o \in OnSyn(last[n][m], buf[n][m], p) :
              /\ last' = [last EXCEPT ![n][m] = o.last]
              /\ buf' = [buf EXCEPT ![n][m] = o.buf]
              /\ sentButNoAck' = [sentButNoAck EXCEPT ![n][m] =
                    IF o.adopted /\ last[n][m] # NoSeq THEN {} ELSE @ \ {p.ack}]
        /\ UNCHANGED <<lastUsed, timers, session, delivered, environment, submitted>>

\* AcknowledgementHandler: the ACK of a SYN-ACK enters m into the network.
ReceiveAck(n, m, k) ==
    LET p == channel[m][n][k]
    IN  /\ Receivable(n, m, k, "ACK")
        /\ Consume(n, m, k, <<>>)
        /\ network' = [network EXCEPT ![n] =
              IF p.ack \in sentSynAck[n][m] THEN @ \cup {m} ELSE @]
        /\ sentSynAck' = [sentSynAck EXCEPT ![n][m] = @ \ {p.ack}]
        /\ sentButNoAck' = [sentButNoAck EXCEPT ![n][m] = @ \ {p.ack}]
        /\ UNCHANGED <<lastUsed, timers, session, ordering, environment, submitted>>

\* DataHandler: data is dropped before a SYN, else buffered if it is ahead,
\* and acknowledged in any case.
ReceiveData(n, m, k) ==
    LET p == channel[m][n][k]
    IN  /\ Receivable(n, m, k, "DATA")
        /\ Consume(n, m, k, IF last[n][m] = NoSeq THEN <<>> ELSE <<Ack(p)>>)
        /\ \E o \in OnData(last[n][m], buf[n][m], p) :
              buf' = [buf EXCEPT ![n][m] = o.buf]
        /\ UNCHANGED <<tracking, membership, last, delivered, environment, submitted>>

\* The loop of DataHandler: the next packet goes to the receive queue if it
\* is data, one that is not ahead is thrown away.
TakeNext(n, m) ==
    LET p == Head(buf[n][m])
    IN  /\ FrontIsNext(last[n][m], buf[n][m])
        /\ last' = [last EXCEPT ![n][m] = p.seq]
        /\ buf' = [buf EXCEPT ![n][m] = Tail(@)]
        /\ delivered' = [delivered EXCEPT ![n][m] =
              IF p.kind = "DATA" THEN Append(@, <<p.session, p.seq>>) ELSE @]
        /\ UNCHANGED <<tracking, membership, environment, channel, submitted>>

DropStale(n, m) ==
    /\ FrontIsStale(last[n][m], buf[n][m])
    /\ buf' = [buf EXCEPT ![n][m] = Tail(@)]
    /\ UNCHANGED <<tracking, membership, last, delivered, environment, channel, submitted>>

----------------------------------------------------------------------------
\* AckAwaitTimerTask.run, a second after the packet was sent.

UnderWay(n, t) ==
    \/ \E k \in DOMAIN channel[n][t.to] : channel[n][t.to][k] = t.packet
    \/ \E k \in DOMAIN channel[t.to][n] :
          /\ channel[t.to][n][k].kind \in {"SYNACK", "ACK"}
          /\ channel[t.to][n][k].ack = t.packet.seq

Due(n, t) == t \in timers[n] /\ (t.packet.kind \in Patient => ~UnderWay(n, t))

\* Seeded fault: the timer looks into the wrong table.
FaultyUnacknowledged(n, t) == t.packet.seq \in sentSynAck[n][t.to]

Unacknowledged(n, t) == t.packet.seq \in sentButNoAck[n][t.to]

\* Acknowledged, or forgotten: nothing to do.
Expire(n, t) ==
    /\ Due(n, t)
    /\ ~Unacknowledged(n, t)
    /\ timers' = [timers EXCEPT ![n] = @ \ {t}]
    /\ UNCHANGED <<lastUsed, sentButNoAck, session, membership, ordering,
                   environment, channel, submitted>>

\* Not acknowledged, and a try is left: send a duplicate.
Retransmit(n, t) ==
    /\ Due(n, t)
    /\ Unacknowledged(n, t)
    /\ t.retries > 1
    /\ channel' = [channel EXCEPT ![n][t.to] = Append(@, t.packet)]
    /\ timers' = [timers EXCEPT ![n] =
          (@ \ {t}) \cup {[t EXCEPT !.retries = t.retries - 1]}]
    /\ UNCHANGED <<lastUsed, sentButNoAck, session, membership, ordering,
                   environment, submitted>>

\* Seeded fault: what is unacknowledged stays so when the receiver goes.
FaultyGiveUp(n, t) ==
    /\ Due(n, t)
    /\ Unacknowledged(n, t)
    /\ t.retries <= 1
    /\ timers' = [timers EXCEPT ![n] = @ \ {t}]
    /\ lastUsed' = [lastUsed EXCEPT ![n][t.to] = 0]
    /\ network' = [network EXCEPT ![n] = @ \ {t.to}]
    /\ session' = [session EXCEPT ![n][t.to] = @ + 1]
    /\ UNCHANGED <<sentButNoAck, sentSynAck, ordering, environment, channel, submitted>>

\* No try is left: SocketImpl.removeFromNetwork.  Numbering starts anew;
\* sentSynAckButNoAck and the state of DataHandler stay.
GiveUp(n, t) ==
    /\ Due(n, t)
    /\ Unacknowledged(n, t)
    /\ t.retries <= 1
    /\ timers' = [timers EXCEPT ![n] = @ \ {t}]
    /\ sentButNoAck' = [sentButNoAck EXCEPT ![n][t.to] = {}]
    /\ lastUsed' = [lastUsed EXCEPT ![n][t.to] = 0]
    /\ network' = [network EXCEPT ![n] = @ \ {t.to}]
    /\ session' = [session EXCEPT ![n][t.to] = @ + 1]
    /\ UNCHANGED <<sentSynAck, ordering, environment, channel, submitted>>

\* The network loses a packet.
Lose(m, n, k) ==
    /\ losses < MaxLoss
    /\ k \in DOMAIN channel[m][n]
    /\ <<channel[m][n][k].kind, channel[m][n][k].re>> \in Lossy
    /\ losses' = losses + 1
    /\ channel' = [channel EXCEPT ![m][n] = RemoveAt(@, k)]
    /\ UNCHANGED <<tracking, membership, ordering, announces, submitted>>

----------------------------------------------------------------------------

Next ==
    \/ \E n \in Node : Announce(n)
    \/ \E n \in Node : \E t \in timers[n] :
          Expire(n, t) \/ Retransmit(n, t) \/ GiveUp(n, t)
    \/ \E n \in Node : \E m \in Peers(n) :
          SendData(n, m) \/ TakeNext(n, m) \/ DropStale(n, m)
    \/ \E n \in Node : \E m \in Peers(n) : \E k \in DOMAIN channel[m][n] :
          \/ ReceiveAnnounce(n, m, k)
          \/ ReceiveSyn(n, m, k)
          \/ ReceiveSynAck(n, m, k)
          \/ ReceiveAck(n, m, k)
          \/ ReceiveData(n, m, k)
          \/ Lose(m, n, k)

Spec == Init /\ [][Next]_vars

----------------------------------------------------------------------------

Numbers == 0..HalfRange - 1
Packet == [kind : {"ANN", "SYN", "SYNACK", "ACK", "DATA"},
           seq : Numbers, ack : Numbers, session : Nat,
           re : {"ANN", "SYN", "SYNACK", "DATA"}]
Task == [to : Node, packet : Packet, retries : 1..MaxRetransmit]

TypeOK ==
    /\ lastUsed \in [Node -> [Node -> Numbers]]
    /\ sentButNoAck \in [Node -> [Node -> SUBSET Numbers]]
    /\ sentSynAck \in [Node -> [Node -> SUBSET Numbers]]
    /\ network \in [Node -> SUBSET Node]
    /\ last \in [Node -> [Node -> Numbers \cup {NoSeq}]]
    /\ buf \in [Node -> [Node -> Seq(Packet)]]
    /\ timers \in [Node -> SUBSET Task]
    /\ channel \in [Node -> [Node -> Seq(Packet)]]
    /\ session \in [Node -> [Node -> Nat]]
    /\ submitted \in [Node -> [Node -> Seq(Nat \X Numbers)]]
    /\ delivered \in [Node -> [Node -> Seq(Nat \X Numbers)]]
    /\ losses \in 0..MaxLoss
    /\ announces \in 0..MaxAnnounce

\* A node only has members in its network that take its data: they have
\* seen a SYN of this node, so that DataHandler does not drop the data
\* before looking at it.
NetworkMeansSynced ==
    \A n, m \in Node : m \in network[n] => last[m][n] # NoSeq

\* A number that is unacknowledged has been used in the session that goes on
\* and will not be given to another packet of it.
NumbersAreFresh ==
    \A n, m \in Node : \A s \in sentButNoAck[n][m] : s < lastUsed[n][m]

\* Every unacknowledged packet of the session has a timer that will send it
\* again or give its receiver up: none is forgotten.
RetransmissionPending ==
    \A n, m \in Node : \A s \in sentButNoAck[n][m] :
        \E t \in timers[n] :
            t.to = m /\ t.packet.seq = s /\ t.packet.session = session[n][m]

\* The application gets the data of a peer in the order it was sent: none
\* twice, none after a later one.
InOrder ==
    \A n, m \in Node : IsPrefix(delivered[n][m], submitted[m][n])

Channels == INSTANCE OrderedChannels WITH sent <- submitted, got <- delivered

\* To the applications, the sockets are channels that yield what was put into
\* them: every step of the handlers and timers puts in, takes the next out, or
\* changes nothing that an application sees.
ImplementsOrderedChannels == Channels!Spec

\* When nothing is under way or waiting for a timer, data to a peer that was
\* not given up has reached its application.
Quiet ==
    /\ \A n \in Node : Idle(n) /\ timers[n] = {}
    /\ \A n, m \in Node : channel[n][m] = <<>>

NothingLost ==
    Quiet => \A n, m \in Node :
        session[m][n] = 0 => Len(delivered[n][m]) >= Len(submitted[m][n])

\* As long as two nodes have not given each other up, the application gets the
\* data of its peer in order, and whole when nothing is under way or waiting:
\* no SYN of a later handshake makes DataHandler throw away a stream in use.
DeliveryUntilGivenUp ==
    \A n, m \in Node : session[n][m] = 0 /\ session[m][n] = 0 =>
        /\ IsPrefix(delivered[n][m], submitted[m][n])
        /\ Quiet => Len(delivered[n][m]) >= Len(submitted[m][n])

----------------------------------------------------------------------------
\* The receiver thread, its loop and the timer threads run; channels deliver
\* what is not lost.  Nobody need announce itself or send.

Receive(n, m, k) ==
    \/ ReceiveAnnounce(n, m, k)
    \/ ReceiveSyn(n, m, k)
    \/ ReceiveSynAck(n, m, k)
    \/ ReceiveAck(n, m, k)
    \/ ReceiveData(n, m, k)

Loop(n, m) == TakeNext(n, m) \/ DropStale(n, m)

Timer(n, t) == Expire(n, t) \/ Retransmit(n, t) \/ GiveUp(n, t)

Fairness ==
    \A n \in Node :
        /\ \A m \in Peers(n) :
              /\ WF_vars(\E k \in DOMAIN channel[m][n] : Receive(n, m, k))
              /\ WF_vars(Loop(n, m))
        /\ WF_vars(\E t \in timers[n] : Timer(n, t))

FairSpec == Spec /\ Fairness

\* Whatever is sent is delivered.
EverythingDelivered ==
    \A n, m \in Node : \A i \in 1..MaxData[m] :
        Len(submitted[m][n]) >= i ~> Len(delivered[n][m]) >= i

\* A SYN leads to membership on both sides, whatever packets are lost as long
\* as they are fewer than the tries.
HandshakeCompletes ==
    \A n \in Node : \A m \in Peers(n) :
        lastUsed[n][m] > 0 ~> m \in network[n] /\ n \in network[m]

\* Nothing stays unacknowledged: it is acknowledged or the receiver leaves.
NothingStaysUnacknowledged ==
    \A n, m \in Node : sentButNoAck[n][m] # {} ~> sentButNoAck[n][m] = {}
=============================================================================
