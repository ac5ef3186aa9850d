-------------------------- MODULE TransportProofs --------------------------
(***************************************************************************)
(* What the transport keeps on every network, for any number of nodes,     *)
(* packets, losses and retries and any order of arrival.                   *)
(***************************************************************************)
EXTENDS Transport, ReorderBufferProofs

PacketsOf(c) == {c[i] : i \in DOMAIN c}

\* Whoever acknowledges a packet, or is about to, has seen a SYN.
AckMeansSynced ==
    \A n, m \in Node : \A p \in PacketsOf(channel[m][n]) :
        p.kind \in {"SYNACK", "ACK"} => last[m][n] # NoSeq

TaskMeansSynced ==
    \A m \in Node : \A t \in timers[m] :
        t.packet.kind \in {"SYNACK", "ACK"} => last[m][t.to] # NoSeq

SyncInv ==
    /\ TypeOK
    /\ AckMeansSynced
    /\ TaskMeansSynced
    /\ NetworkMeansSynced

TrackInv ==
    /\ TypeOK
    /\ NumbersAreFresh
    /\ RetransmissionPending

----------------------------------------------------------------------------
(* Constants, packets and channels.                                        *)

LEMMA NumberFacts ==
    /\ HalfRange \in Nat /\ HalfRange > 0
    /\ 0 \in Numbers
    /\ \A s \in Numbers : s # NoSeq
    /\ \A s \in Numbers : s < HalfRange - 1 => s + 1 \in Numbers
BY HalfRangeAssumption DEF Numbers, NoSeq

LEMMA PacketTypes ==
    ASSUME NEW s \in Numbers, NEW a \in Numbers, NEW e \in Nat, NEW p \in Packet,
           p.kind \in {"SYNACK", "DATA"}
    PROVE  /\ Announcement \in Packet /\ Syn(s, e) \in Packet
           /\ SynAck(s, a, e) \in Packet /\ Data(s, e) \in Packet
           /\ Ack(p) \in Packet
BY NumberFacts DEF Packet, Announcement, Syn, SynAck, Data, Ack

LEMMA NewPacketTypes ==
    ASSUME NEW s \in Numbers, NEW a \in Numbers, NEW e \in Nat
    PROVE  /\ Announcement \in Packet /\ Syn(s, e) \in Packet
           /\ SynAck(s, a, e) \in Packet /\ Data(s, e) \in Packet
BY NumberFacts DEF Packet, Announcement, Syn, SynAck, Data

(* The packet received is one of the channel's.                            *)
LEMMA ReceivedPacket ==
    ASSUME TypeOK, NEW n \in Node, NEW m \in Peers(n), NEW k \in DOMAIN channel[m][n]
    PROVE  /\ m \in Node /\ m # n
           /\ k \in 1..Len(channel[m][n])
           /\ channel[m][n][k] \in Packet
           /\ channel[m][n][k] \in PacketsOf(channel[m][n])
<1>1. m \in Node /\ m # n
  BY DEF Peers
<1>2. channel[m][n] \in Seq(Packet)
  BY <1>1 DEF TypeOK
<1>3. k \in 1..Len(channel[m][n])
  BY <1>2, LenProperties
<1>4. channel[m][n][k] \in Packet
  BY <1>2, <1>3, ElementOfSeq
<1> QED  BY <1>1, <1>3, <1>4 DEF PacketsOf

(* Appending a packet to one channel.                                      *)
LEMMA AppendPackets ==
    ASSUME TypeOK, NEW n \in Node, NEW m \in Node, NEW p \in Packet,
           channel' = [channel EXCEPT ![n][m] = Append(@, p)]
    PROVE  /\ channel' \in [Node -> [Node -> Seq(Packet)]]
           /\ \A x, y \in Node : \A q \in PacketsOf(channel'[x][y]) :
                 q \in PacketsOf(channel[x][y]) \/ (x = n /\ y = m /\ q = p)
<1>1. channel[n][m] \in Seq(Packet) /\ channel \in [Node -> [Node -> Seq(Packet)]]
  BY DEF TypeOK
<1> DEFINE c == Append(channel[n][m], p)
<1>2. /\ c \in Seq(Packet) /\ Len(c) = Len(channel[n][m]) + 1
      /\ \A i \in 1..Len(channel[n][m]) : c[i] = channel[n][m][i]
      /\ c[Len(channel[n][m]) + 1] = p
  BY <1>1, AppendProperties
<1>3. /\ DOMAIN c = 1..Len(c) /\ Len(channel[n][m]) \in Nat
      /\ DOMAIN channel[n][m] = 1..Len(channel[n][m])
  BY <1>1, <1>2, LenProperties
<1>4. \A q \in PacketsOf(c) : q \in PacketsOf(channel[n][m]) \/ q = p
  BY <1>2, <1>3 DEF PacketsOf
<1> HIDE DEF c
<1>5. \A x, y \in Node : channel'[x][y] = IF x = n /\ y = m THEN c ELSE channel[x][y]
  BY <1>1 DEF c
<1>6. channel' \in [Node -> [Node -> Seq(Packet)]]
  BY <1>1, <1>2 DEF c
<1> QED  BY <1>4, <1>5, <1>6

(* Receiving one packet and sending replies.                               *)
LEMMA ConsumePackets ==
    ASSUME TypeOK, NEW n \in Node, NEW m \in Peers(n), NEW k \in DOMAIN channel[m][n],
           NEW replies \in Seq(Packet), Consume(n, m, k, replies)
    PROVE  /\ channel' \in [Node -> [Node -> Seq(Packet)]]
           /\ \A x, y \in Node : \A q \in PacketsOf(channel'[x][y]) :
                 \/ q \in PacketsOf(channel[x][y])
                 \/ x = n /\ y = m /\ q \in PacketsOf(replies)
<1>0. m \in Node /\ m # n /\ k \in 1..Len(channel[m][n])
  BY ReceivedPacket
<1>1. /\ channel \in [Node -> [Node -> Seq(Packet)]]
      /\ m \in Node /\ m # n /\ k \in 1..Len(channel[m][n])
      /\ channel[m][n] \in Seq(Packet) /\ channel[n][m] \in Seq(Packet)
  BY <1>0 DEF TypeOK
<1> DEFINE c == RemoveAt(channel[m][n], k)
           d == channel[n][m] \o replies
<1>2. /\ c \in Seq(Packet)
      /\ \A q \in PacketsOf(c) : q \in PacketsOf(channel[m][n])
  <2>1. /\ c \in Seq(Packet)
        /\ \A i \in DOMAIN c : \E j \in DOMAIN channel[m][n] : c[i] = channel[m][n][j]
    BY <1>1, RemoveAtProperties
  <2> HIDE DEF c
  <2> QED  BY <2>1 DEF PacketsOf
<1>3. /\ d \in Seq(Packet)
      /\ \A q \in PacketsOf(d) : q \in PacketsOf(channel[n][m]) \/ q \in PacketsOf(replies)
  BY <1>1, ConcatElements DEF PacketsOf
<1>4. channel' = [channel EXCEPT ![m][n] = c, ![n][m] = d]
  BY <1>1 DEF Consume
<1> HIDE DEF c, d
<1>5. \A x, y \in Node : channel'[x][y] =
         IF x = m /\ y = n THEN c ELSE IF x = n /\ y = m THEN d ELSE channel[x][y]
  BY <1>1, <1>4, SMTT(30)
<1>6. channel' \in [Node -> [Node -> Seq(Packet)]]
  BY <1>1, <1>2, <1>3, <1>4
<1> QED  BY <1>2, <1>3, <1>5, <1>6, ZenonT(30)

(* A packet that is lost.                                                  *)
LEMMA LosePackets ==
    ASSUME TypeOK, NEW n \in Node, NEW m \in Peers(n), NEW k \in DOMAIN channel[m][n],
           channel' = [channel EXCEPT ![m][n] = RemoveAt(@, k)]
    PROVE  /\ channel' \in [Node -> [Node -> Seq(Packet)]]
           /\ \A x, y \in Node : \A q \in PacketsOf(channel'[x][y]) :
                 q \in PacketsOf(channel[x][y])
<1>0. m \in Node /\ k \in 1..Len(channel[m][n])
  BY ReceivedPacket
<1>1. /\ channel \in [Node -> [Node -> Seq(Packet)]]
      /\ m \in Node /\ k \in 1..Len(channel[m][n]) /\ channel[m][n] \in Seq(Packet)
  BY <1>0 DEF TypeOK
<1> DEFINE c == RemoveAt(channel[m][n], k)
<1>2. /\ c \in Seq(Packet)
      /\ \A q \in PacketsOf(c) : q \in PacketsOf(channel[m][n])
  <2>1. /\ c \in Seq(Packet)
        /\ \A i \in DOMAIN c : \E j \in DOMAIN channel[m][n] : c[i] = channel[m][n][j]
    BY <1>1, RemoveAtProperties
  <2> HIDE DEF c
  <2> QED  BY <2>1 DEF PacketsOf
<1> HIDE DEF c
<1>3. \A x, y \in Node : channel'[x][y] = IF x = m /\ y = n THEN c ELSE channel[x][y]
  BY <1>1 DEF c
<1> QED  BY <1>1, <1>2, <1>3 DEF c

(* An announce is sent to everybody.                                       *)
LEMMA AnnouncePackets ==
    ASSUME TypeOK, NEW n \in Node, Announce(n)
    PROVE  /\ channel' \in [Node -> [Node -> Seq(Packet)]]
           /\ \A x, y \in Node : \A q \in PacketsOf(channel'[x][y]) :
                 q \in PacketsOf(channel[x][y]) \/ q = Announcement
<1> DEFINE c(m) == IF m = n THEN channel[n][m] ELSE Append(channel[n][m], Announcement)
<1>1. channel \in [Node -> [Node -> Seq(Packet)]] /\ Announcement \in Packet
  BY NumberFacts DEF TypeOK, Packet, Announcement
<1>2. ASSUME NEW m \in Node
      PROVE  /\ c(m) \in Seq(Packet)
             /\ \A q \in PacketsOf(c(m)) : q \in PacketsOf(channel[n][m]) \/ q = Announcement
  <2>1. channel[n][m] \in Seq(Packet)
    BY <1>1
  <2> DEFINE d == Append(channel[n][m], Announcement)
  <2>2. /\ d \in Seq(Packet) /\ Len(d) = Len(channel[n][m]) + 1
        /\ \A i \in 1..Len(channel[n][m]) : d[i] = channel[n][m][i]
        /\ d[Len(channel[n][m]) + 1] = Announcement
    BY <1>1, <2>1, AppendProperties
  <2>3. /\ DOMAIN d = 1..Len(d) /\ Len(channel[n][m]) \in Nat
        /\ DOMAIN channel[n][m] = 1..Len(channel[n][m])
    BY <2>1, <2>2, LenProperties
  <2>4. \A q \in PacketsOf(d) : q \in PacketsOf(channel[n][m]) \/ q = Announcement
    BY <2>2, <2>3 DEF PacketsOf
  <2> QED  BY <2>1, <2>2, <2>4
<1>3. channel' = [channel EXCEPT ![n] = [m \in Node |-> c(m)]]
  BY DEF Announce
<1> HIDE DEF c
<1>4. \A x, y \in Node : channel'[x][y] = IF x = n THEN c(y) ELSE channel[x][y]
  BY <1>1, <1>3
<1>5. channel' \in [Node -> [Node -> Seq(Packet)]]
  BY <1>1, <1>2, <1>3
<1> QED  BY <1>2, <1>4, <1>5

----------------------------------------------------------------------------
(* Type correctness, action by action.                                     *)

(* Adding a number to one of the sets, taking one away, replacing one.     *)
LEMMA ReplaceNumbers ==
    ASSUME NEW f \in [Node -> [Node -> SUBSET Numbers]], NEW n \in Node, NEW m \in Node,
           NEW s
    PROVE  /\ s \in Numbers =>
                 [f EXCEPT ![n][m] = @ \cup {s}] \in [Node -> [Node -> SUBSET Numbers]]
           /\ [f EXCEPT ![n][m] = @ \ {s}] \in [Node -> [Node -> SUBSET Numbers]]
           /\ [f EXCEPT ![n][m] = {}] \in [Node -> [Node -> SUBSET Numbers]]
<1>1. f[n][m] \in SUBSET Numbers
  OBVIOUS
<1>2. \A S \in SUBSET Numbers : [f EXCEPT ![n][m] = S] \in [Node -> [Node -> SUBSET Numbers]]
  OBVIOUS
<1>3. f[n][m] \ {s} \in SUBSET Numbers /\ {} \in SUBSET Numbers
  BY <1>1
<1>4. s \in Numbers => f[n][m] \cup {s} \in SUBSET Numbers
  BY <1>1
<1> QED  BY <1>2, <1>3, <1>4

(* A packet that gets a number and a timer.                                *)
LEMMA TrackedTypes ==
    ASSUME TypeOK, NEW n \in Node, NEW m \in Node, NEW p \in Packet,
           NumberLeft(n, m), TakeNumber(n, m), Schedule(n, m, p)
    PROVE  /\ lastUsed' \in [Node -> [Node -> Numbers]]
           /\ timers' \in [Node -> SUBSET Task]
<1>1. lastUsed \in [Node -> [Node -> Numbers]] /\ timers \in [Node -> SUBSET Task]
  BY DEF TypeOK
<1>2. lastUsed[n][m] + 1 \in Numbers
  BY <1>1, NumberFacts DEF NumberLeft
<1>3. [to |-> m, packet |-> p, retries |-> MaxRetransmit] \in Task
  BY TransportAssumption DEF Task
<1> QED  BY <1>1, <1>2, <1>3 DEF TakeNumber, Schedule

LEMMA AnnounceType ==
    ASSUME TypeOK, NEW n \in Node, Announce(n)
    PROVE  TypeOK'
<1>1. channel' \in [Node -> [Node -> Seq(Packet)]]
  BY AnnouncePackets
<1>2. announces' \in 0..MaxAnnounce
  BY TransportAssumption DEF TypeOK, Announce
<1> QED  BY <1>1, <1>2 DEF TypeOK, Announce, tracking, membership, ordering

LEMMA SendDataType ==
    ASSUME TypeOK, NEW n \in Node, NEW m \in Peers(n), SendData(n, m)
    PROVE  TypeOK'
<1> DEFINE p == Data(lastUsed[n][m], session[n][m])
<1>1. m \in Node  BY DEF Peers
<1>2. lastUsed[n][m] \in Numbers /\ session[n][m] \in Nat
  BY <1>1 DEF TypeOK
<1>3. p \in Packet /\ p.seq = lastUsed[n][m] /\ p.session = session[n][m]
  BY <1>2, NewPacketTypes DEF Data
<1>4. /\ NumberLeft(n, m) /\ TakeNumber(n, m) /\ Schedule(n, m, p)
      /\ channel' = [channel EXCEPT ![n][m] = Append(@, p)]
      /\ sentButNoAck' = [sentButNoAck EXCEPT ![n][m] = @ \cup {p.seq}]
      /\ submitted' = [submitted EXCEPT ![n][m] = Append(@, <<p.session, p.seq>>)]
  BY DEF SendData
<1> HIDE DEF p
<1>5. channel' \in [Node -> [Node -> Seq(Packet)]]
  BY <1>1, <1>3, <1>4, AppendPackets
<1>6. lastUsed' \in [Node -> [Node -> Numbers]] /\ timers' \in [Node -> SUBSET Task]
  BY <1>1, <1>3, <1>4, TrackedTypes
<1>7. sentButNoAck' \in [Node -> [Node -> SUBSET Numbers]]
  <2>1. /\ sentButNoAck \in [Node -> [Node -> SUBSET Numbers]]
        /\ p.seq \in Numbers
    BY <1>2, <1>3 DEF TypeOK
  <2> QED  BY <2>1, <1>1, <1>4, ReplaceNumbers
<1>8. submitted' \in [Node -> [Node -> Seq(Nat \X Numbers)]]
  <2>1. submitted[n][m] \in Seq(Nat \X Numbers) /\ <<p.session, p.seq>> \in Nat \X Numbers
    BY <1>1, <1>2, <1>3 DEF TypeOK
  <2>2. Append(submitted[n][m], <<p.session, p.seq>>) \in Seq(Nat \X Numbers)
    BY <2>1, AppendProperties
  <2> QED  BY <1>1, <1>4, <2>2 DEF TypeOK
<1>9. UNCHANGED <<session, membership, ordering, environment>>
  BY DEF SendData
<1> QED  BY <1>5, <1>6, <1>7, <1>8, <1>9 DEF TypeOK, membership, ordering, environment

LEMMA ReceiveAnnounceType ==
    ASSUME TypeOK, NEW n \in Node, NEW m \in Peers(n), NEW k \in DOMAIN channel[m][n],
           ReceiveAnnounce(n, m, k)
    PROVE  TypeOK'
<1> DEFINE p == Syn(lastUsed[n][m], session[n][m])
<1>1. m \in Node  BY DEF Peers
<1>2. lastUsed[n][m] \in Numbers /\ session[n][m] \in Nat
  BY <1>1 DEF TypeOK
<1>3. p \in Packet /\ p.seq = lastUsed[n][m]
  BY <1>2, NewPacketTypes DEF Syn
<1>4. /\ NumberLeft(n, m) /\ TakeNumber(n, m) /\ Schedule(n, m, p)
      /\ Consume(n, m, k, <<p>>)
      /\ sentButNoAck' = [sentButNoAck EXCEPT ![n][m] = @ \cup {p.seq}]
  BY DEF ReceiveAnnounce
<1> HIDE DEF p
<1>5. channel' \in [Node -> [Node -> Seq(Packet)]]
  <2>1. <<p>> \in Seq(Packet)  BY <1>3
  <2> QED  BY <2>1, <1>4, ConsumePackets
<1>6. lastUsed' \in [Node -> [Node -> Numbers]] /\ timers' \in [Node -> SUBSET Task]
  BY <1>1, <1>3, <1>4, TrackedTypes
<1>7. sentButNoAck' \in [Node -> [Node -> SUBSET Numbers]]
  <2>1. /\ sentButNoAck \in [Node -> [Node -> SUBSET Numbers]]
        /\ p.seq \in Numbers
    BY <1>2, <1>3 DEF TypeOK
  <2> QED  BY <2>1, <1>1, <1>4, ReplaceNumbers
<1>8. UNCHANGED <<session, membership, ordering, environment, submitted>>
  BY DEF ReceiveAnnounce
<1> QED  BY <1>5, <1>6, <1>7, <1>8 DEF TypeOK, membership, ordering, environment

LEMMA ReceiveSynType ==
    ASSUME TypeOK, NEW n \in Node, NEW m \in Peers(n), NEW k \in DOMAIN channel[m][n],
           ReceiveSyn(n, m, k)
    PROVE  TypeOK'
<1> DEFINE p == channel[m][n][k]
           r == SynAck(lastUsed[n][m], p.seq, session[n][m])
<1>1. m \in Node  BY DEF Peers
<1>2. p \in Packet  BY ReceivedPacket
<1>3. lastUsed[n][m] \in Numbers /\ session[n][m] \in Nat
  BY <1>1 DEF TypeOK
<1>4. p.seq \in Numbers  BY <1>2 DEF Packet
<1>5. r \in Packet /\ r.seq \in Numbers
  BY <1>3, <1>4, NewPacketTypes DEF SynAck
<1>6. /\ NumberLeft(n, m) /\ TakeNumber(n, m) /\ Schedule(n, m, r)
      /\ Consume(n, m, k, <<r>>)
      /\ sentSynAck' = [sentSynAck EXCEPT ![n][m] = @ \cup {r.seq}]
  BY DEF ReceiveSyn
<1>7. PICK o \in OnSyn(last[n][m], buf[n][m], p) :
         /\ last' = [last EXCEPT ![n][m] = o.last]
         /\ buf' = [buf EXCEPT ![n][m] = o.buf]
         /\ sentButNoAck' = [sentButNoAck EXCEPT ![n][m] =
               IF o.adopted /\ last[n][m] # NoSeq
               THEN IF n \in DataFirst THEN {r.seq} ELSE {}
               ELSE @ \cup {r.seq}]
  BY DEF ReceiveSyn
<1> HIDE DEF p, r
<1>8. channel' \in [Node -> [Node -> Seq(Packet)]]
  <2>1. <<r>> \in Seq(Packet)  BY <1>5
  <2> QED  BY <2>1, <1>6, ConsumePackets
<1>9. lastUsed' \in [Node -> [Node -> Numbers]] /\ timers' \in [Node -> SUBSET Task]
  BY <1>1, <1>5, <1>6, TrackedTypes
<1>10. buf[n][m] \in Seq(Packet) /\ last[n][m] \in Numbers \cup {NoSeq}
  BY <1>1 DEF TypeOK
<1>11. o.buf \in Seq(Packet) /\ o.last \in Numbers \cup {NoSeq}
  <2>1. o.buf \in Seq(Packet) /\ o.last = IF o.adopted THEN p.seq ELSE last[n][m]
    BY <1>2, <1>10, OnSynType
  <2> QED  BY <2>1, <1>4, <1>10
<1>12. /\ last' \in [Node -> [Node -> Numbers \cup {NoSeq}]]
       /\ buf' \in [Node -> [Node -> Seq(Packet)]]
  BY <1>1, <1>7, <1>11 DEF TypeOK
<1>13. sentButNoAck' \in [Node -> [Node -> SUBSET Numbers]]
  <2>1. sentButNoAck[n][m] \in SUBSET Numbers  BY <1>1 DEF TypeOK
  <2> QED  BY <2>1, <1>1, <1>5, <1>7 DEF TypeOK
<1>14. sentSynAck' \in [Node -> [Node -> SUBSET Numbers]]
  <2>1. /\ sentSynAck \in [Node -> [Node -> SUBSET Numbers]]
        /\ r.seq \in Numbers
    BY <1>5 DEF TypeOK
  <2> QED  BY <2>1, <1>1, <1>6, ReplaceNumbers
<1>15. UNCHANGED <<session, network, delivered, environment, submitted>>
  BY DEF ReceiveSyn
<1> QED  BY <1>8, <1>9, <1>12, <1>13, <1>14, <1>15 DEF TypeOK, environment

LEMMA ReceiveSynAckType ==
    ASSUME TypeOK, NEW n \in Node, NEW m \in Peers(n), NEW k \in DOMAIN channel[m][n],
           ReceiveSynAck(n, m, k)
    PROVE  TypeOK'
<1> DEFINE p == channel[m][n][k]
<1>1. m \in Node  BY DEF Peers
<1>2. p \in Packet  BY ReceivedPacket
<1>3. p.seq \in Numbers  BY <1>2 DEF Packet
<1>4. /\ Consume(n, m, k, <<Ack(p)>>) /\ p.kind = "SYNACK"
      /\ network' = [network EXCEPT ![n] = @ \cup {m}]
      /\ sentSynAck' = [sentSynAck EXCEPT ![n][m] = @ \ {p.ack}]
  BY DEF ReceiveSynAck, Receivable
<1>5. PICK o \in OnSyn(last[n][m], buf[n][m], p) :
         /\ last' = [last EXCEPT ![n][m] = o.last]
         /\ buf' = [buf EXCEPT ![n][m] = o.buf]
         /\ sentButNoAck' = [sentButNoAck EXCEPT ![n][m] =
               IF o.adopted /\ last[n][m] # NoSeq THEN {} ELSE @ \ {p.ack}]
  BY DEF ReceiveSynAck
<1> HIDE DEF p
<1>6. channel' \in [Node -> [Node -> Seq(Packet)]]
  <2>1. Ack(p) \in Packet  BY <1>2, <1>4, NumberFacts DEF Packet, Ack
  <2>2. <<Ack(p)>> \in Seq(Packet)  BY <2>1
  <2> QED  BY <2>2, <1>4, ConsumePackets
<1>7. buf[n][m] \in Seq(Packet) /\ last[n][m] \in Numbers \cup {NoSeq}
  BY <1>1 DEF TypeOK
<1>8. o.buf \in Seq(Packet) /\ o.last \in Numbers \cup {NoSeq}
  <2>1. o.buf \in Seq(Packet) /\ o.last = IF o.adopted THEN p.seq ELSE last[n][m]
    BY <1>2, <1>7, OnSynType
  <2> QED  BY <2>1, <1>3, <1>7
<1>9. /\ last' \in [Node -> [Node -> Numbers \cup {NoSeq}]]
      /\ buf' \in [Node -> [Node -> Seq(Packet)]]
  BY <1>1, <1>5, <1>8 DEF TypeOK
<1>10. sentButNoAck' \in [Node -> [Node -> SUBSET Numbers]]
  <2>1. sentButNoAck[n][m] \in SUBSET Numbers  BY <1>1 DEF TypeOK
  <2> QED  BY <2>1, <1>1, <1>5 DEF TypeOK
<1>11. sentSynAck' \in [Node -> [Node -> SUBSET Numbers]]
  <2>1. sentSynAck \in [Node -> [Node -> SUBSET Numbers]]
    BY DEF TypeOK
  <2> QED  BY <2>1, <1>1, <1>4, ReplaceNumbers
<1>12. network' \in [Node -> SUBSET Node]
  BY <1>1, <1>4 DEF TypeOK
<1>13. UNCHANGED <<lastUsed, timers, session, delivered, environment, submitted>>
  BY DEF ReceiveSynAck
<1> QED  BY <1>6, <1>9, <1>10, <1>11, <1>12, <1>13 DEF TypeOK, environment

LEMMA ReceiveAckType ==
    ASSUME TypeOK, NEW n \in Node, NEW m \in Peers(n), NEW k \in DOMAIN channel[m][n],
           ReceiveAck(n, m, k)
    PROVE  TypeOK'
<1>1. m \in Node  BY DEF Peers
<1>2. channel' \in [Node -> [Node -> Seq(Packet)]]
  <2>1. Consume(n, m, k, <<>>) /\ <<>> \in Seq(Packet)
    BY EmptySeq DEF ReceiveAck
  <2> QED  BY <2>1, ConsumePackets
<1> DEFINE p == channel[m][n][k]
<1>3. /\ network' \in [Node -> SUBSET Node]
      /\ sentSynAck' \in [Node -> [Node -> SUBSET Numbers]]
      /\ sentButNoAck' \in [Node -> [Node -> SUBSET Numbers]]
  <2>1. /\ sentSynAck \in [Node -> [Node -> SUBSET Numbers]]
        /\ sentButNoAck \in [Node -> [Node -> SUBSET Numbers]]
        /\ network \in [Node -> SUBSET Node]
    BY DEF TypeOK
  <2>2. /\ network' = [network EXCEPT ![n] =
                 IF p.ack \in sentSynAck[n][m] THEN @ \cup {m} ELSE @]
        /\ sentSynAck' = [sentSynAck EXCEPT ![n][m] = @ \ {p.ack}]
        /\ sentButNoAck' = [sentButNoAck EXCEPT ![n][m] = @ \ {p.ack}]
    BY DEF ReceiveAck
  <2> HIDE DEF p
  <2>3. network' \in [Node -> SUBSET Node]
    BY <2>1, <2>2, <1>1
  <2> QED  BY <2>1, <2>2, <2>3, <1>1, ReplaceNumbers
<1>4. UNCHANGED <<lastUsed, timers, session, ordering, environment, submitted>>
  BY DEF ReceiveAck
<1> QED  BY <1>2, <1>3, <1>4 DEF TypeOK, ordering, environment

LEMMA ReceiveDataType ==
    ASSUME TypeOK, NEW n \in Node, NEW m \in Peers(n), NEW k \in DOMAIN channel[m][n],
           ReceiveData(n, m, k)
    PROVE  TypeOK'
<1> DEFINE p == channel[m][n][k]
           replies == IF last[n][m] = NoSeq THEN <<>> ELSE <<Ack(p)>>
<1>1. m \in Node  BY DEF Peers
<1>2. p \in Packet  BY ReceivedPacket
<1>3. Consume(n, m, k, replies) /\ p.kind = "DATA"
  BY DEF ReceiveData, Receivable
<1>4. PICK o \in OnData(last[n][m], buf[n][m], p) :
         buf' = [buf EXCEPT ![n][m] = o.buf]
  BY DEF ReceiveData
<1>5. replies \in Seq(Packet)
  <2>1. Ack(p) \in Packet  BY <1>2, <1>3, NumberFacts DEF Packet, Ack
  <2> QED  BY <2>1, EmptySeq
<1> HIDE DEF p, replies
<1>6. channel' \in [Node -> [Node -> Seq(Packet)]]
  BY <1>3, <1>5, ConsumePackets
<1>7. buf[n][m] \in Seq(Packet)
  BY <1>1 DEF TypeOK
<1>8. o.buf \in Seq(Packet)
  BY <1>2, <1>7, OnDataType
<1>9. buf' \in [Node -> [Node -> Seq(Packet)]]
  BY <1>1, <1>4, <1>8 DEF TypeOK
<1> QED  BY <1>6, <1>9 DEF TypeOK, ReceiveData, tracking, membership, environment

LEMMA LoopType ==
    ASSUME TypeOK, NEW n \in Node, NEW m \in Peers(n), TakeNext(n, m) \/ DropStale(n, m)
    PROVE  TypeOK'
<1>1. m \in Node  BY DEF Peers
<1>2. buf[n][m] \in Seq(Packet) /\ buf[n][m] # <<>>
  BY <1>1 DEF TypeOK, TakeNext, DropStale, FrontIsNext, FrontIsStale
<1>3. Head(buf[n][m]) \in Packet /\ Tail(buf[n][m]) \in Seq(Packet)
  BY <1>2, HeadTailProperties
<1> DEFINE p == Head(buf[n][m])
<1>4. p.seq \in Numbers /\ p.session \in Nat
  BY <1>3 DEF Packet
<1>5. CASE TakeNext(n, m)
  <2>1. last' \in [Node -> [Node -> Numbers \cup {NoSeq}]]
    BY <1>1, <1>4, <1>5 DEF TypeOK, TakeNext
  <2>2. buf' \in [Node -> [Node -> Seq(Packet)]]
    BY <1>1, <1>3, <1>5 DEF TypeOK, TakeNext
  <2>3. delivered' \in [Node -> [Node -> Seq(Nat \X Numbers)]]
    <3>1. delivered[n][m] \in Seq(Nat \X Numbers) /\ <<p.session, p.seq>> \in Nat \X Numbers
      BY <1>1, <1>4 DEF TypeOK
    <3>2. Append(delivered[n][m], <<p.session, p.seq>>) \in Seq(Nat \X Numbers)
      BY <3>1, AppendProperties
    <3> QED  BY <1>1, <1>5, <3>1, <3>2 DEF TypeOK, TakeNext
  <2> QED  BY <2>1, <2>2, <2>3, <1>5
           DEF TypeOK, TakeNext, tracking, membership, environment
<1>6. CASE DropStale(n, m)
  <2>1. buf' \in [Node -> [Node -> Seq(Packet)]]
    BY <1>1, <1>3, <1>6 DEF TypeOK, DropStale
  <2> QED  BY <2>1, <1>6 DEF TypeOK, DropStale, tracking, membership, environment
<1> QED  BY <1>5, <1>6

LEMMA TimerType ==
    ASSUME TypeOK, NEW n \in Node, NEW t \in timers[n],
           Expire(n, t) \/ Retransmit(n, t) \/ GiveUp(n, t)
    PROVE  TypeOK'
<1>0. timers \in [Node -> SUBSET Task] /\ session \in [Node -> [Node -> Nat]]
  BY DEF TypeOK
<1>1. t \in Task /\ t.to \in Node /\ t.packet \in Packet
  BY <1>0 DEF Task
<1>2. CASE Expire(n, t)
  BY <1>2 DEF TypeOK, Expire, membership, ordering, environment
<1>3. CASE Retransmit(n, t)
  <2>1. channel' = [channel EXCEPT ![n][t.to] = Append(@, t.packet)]
    BY <1>3 DEF Retransmit
  <2>2. channel' \in [Node -> [Node -> Seq(Packet)]]
    BY <1>1, <2>1, AppendPackets
  <2>3. [t EXCEPT !.retries = t.retries - 1] \in Task
    BY <1>1, <1>3, TransportAssumption DEF Task, Retransmit
  <2>4. timers' \in [Node -> SUBSET Task]
    BY <1>3, <2>3 DEF TypeOK, Retransmit
  <2> QED  BY <2>2, <2>4, <1>3
           DEF TypeOK, Retransmit, membership, ordering, environment
<1>4. CASE GiveUp(n, t)
  <2>1. timers' \in [Node -> SUBSET Task]
    BY <1>4 DEF TypeOK, GiveUp
  <2>2. /\ sentButNoAck' = [sentButNoAck EXCEPT ![n][t.to] = {}]
        /\ lastUsed' = [lastUsed EXCEPT ![n][t.to] = 0]
        /\ network' = [network EXCEPT ![n] = @ \ {t.to}]
        /\ session' = [session EXCEPT ![n][t.to] = @ + 1]
        /\ UNCHANGED <<sentSynAck, ordering, environment, channel, submitted>>
    BY <1>4 DEF GiveUp
  <2>3. sentButNoAck' \in [Node -> [Node -> SUBSET Numbers]]
    <3>1. sentButNoAck \in [Node -> [Node -> SUBSET Numbers]]
      BY DEF TypeOK
    <3> QED  BY <3>1, <2>2, <1>1, ReplaceNumbers
  <2>4. lastUsed' \in [Node -> [Node -> Numbers]]
    BY <1>1, <2>2, NumberFacts DEF TypeOK
  <2>5. network' \in [Node -> SUBSET Node]
    BY <2>2 DEF TypeOK
  <2>6. session' \in [Node -> [Node -> Nat]]
    BY <1>0, <1>1, <2>2
  <2> QED  BY <2>1, <2>2, <2>3, <2>4, <2>5, <2>6 DEF TypeOK, ordering, environment
<1> QED  BY <1>2, <1>3, <1>4

LEMMA LoseType ==
    ASSUME TypeOK, NEW n \in Node, NEW m \in Peers(n), NEW k \in DOMAIN channel[m][n],
           Lose(m, n, k)
    PROVE  TypeOK'
<1>1. channel' = [channel EXCEPT ![m][n] = RemoveAt(@, k)]
  BY DEF Lose
<1>2. channel' \in [Node -> [Node -> Seq(Packet)]]
  BY <1>1, LosePackets
<1>3. losses' \in 0..MaxLoss
  BY TransportAssumption DEF TypeOK, Lose
<1> QED  BY <1>2, <1>3 DEF TypeOK, Lose, tracking, membership, ordering

LEMMA TypeInit == Init => TypeOK
<1> SUFFICES ASSUME Init PROVE TypeOK
  OBVIOUS
<1>1. /\ 0 \in Numbers /\ NoSeq \in Numbers \cup {NoSeq} /\ {} \in SUBSET Numbers
      /\ <<>> \in Seq(Packet) /\ <<>> \in Seq(Nat \X Numbers)
      /\ 0 \in 0..MaxLoss /\ 0 \in 0..MaxAnnounce
  BY NumberFacts, EmptySeq, TransportAssumption
<1> QED  BY <1>1 DEF Init, TypeOK

LEMMA TypeNext == TypeOK /\ [Next]_vars => TypeOK'
<1> SUFFICES ASSUME TypeOK, [Next]_vars PROVE TypeOK'
  OBVIOUS
<1>1. CASE UNCHANGED vars
  BY <1>1 DEF TypeOK, vars, tracking, membership, ordering, environment
<1>2. CASE \E n \in Node : Announce(n)
  BY <1>2, AnnounceType
<1>3. CASE \E n \in Node : \E t \in timers[n] :
              Expire(n, t) \/ Retransmit(n, t) \/ GiveUp(n, t)
  BY <1>3, TimerType
<1>4. CASE \E n \in Node : \E m \in Peers(n) :
              SendData(n, m) \/ TakeNext(n, m) \/ DropStale(n, m)
  BY <1>4, SendDataType, LoopType
<1>5. CASE \E n \in Node : \E m \in Peers(n) : \E k \in DOMAIN channel[m][n] :
              \/ ReceiveAnnounce(n, m, k)
              \/ ReceiveSyn(n, m, k)
              \/ ReceiveSynAck(n, m, k)
              \/ ReceiveAck(n, m, k)
              \/ ReceiveData(n, m, k)
              \/ Lose(m, n, k)
  BY <1>5, ReceiveAnnounceType, ReceiveSynType, ReceiveSynAckType, ReceiveAckType,
     ReceiveDataType, LoseType
<1> QED  BY <1>1, <1>2, <1>3, <1>4, <1>5 DEF Next

(* The bookkeeping of every node stays of its type; in particular no       *)
(* sequence number leaves its range and no timer loses its last try.       *)
THEOREM TypeCorrect == Spec => []TypeOK
BY TypeInit, TypeNext, PTL DEF Spec

----------------------------------------------------------------------------
(* A node in the network has been synchronised with.                       *)

(* Nothing forgets a synchronisation, so that an action keeps SyncInv when *)
(* what it sends, schedules and enters in the network is justified.        *)
LEMMA SyncStep ==
    ASSUME SyncInv, TypeOK',
           \A x, y \in Node : last[x][y] # NoSeq => last'[x][y] # NoSeq,
           \A x, y \in Node : \A q \in PacketsOf(channel'[x][y]) :
              \/ q \in PacketsOf(channel[x][y])
              \/ q.kind \in {"SYNACK", "ACK"} => last'[x][y] # NoSeq,
           \A x \in Node : \A t \in timers'[x] :
              \/ \E u \in timers[x] : u.to = t.to /\ u.packet = t.packet
              \/ t.packet.kind \in {"SYNACK", "ACK"} => last'[x][t.to] # NoSeq,
           \A x, y \in Node : y \in network'[x] => y \in network[x] \/ last'[y][x] # NoSeq
    PROVE  SyncInv'
<1>1. AckMeansSynced'
  BY DEF AckMeansSynced, SyncInv
<1>2. TaskMeansSynced'
  <2>1. ASSUME NEW x \in Node, NEW t \in timers'[x],
               t.packet.kind \in {"SYNACK", "ACK"}
        PROVE  last'[x][t.to] # NoSeq
    <3>1. t.to \in Node
      <4>1. timers' \in [Node -> SUBSET Task]  BY DEF TypeOK
      <4> QED  BY <4>1 DEF Task
    <3>2. CASE \E u \in timers[x] : u.to = t.to /\ u.packet = t.packet
      BY <2>1, <3>1, <3>2 DEF TaskMeansSynced, SyncInv
    <3> QED  BY <2>1, <3>2
  <2> QED  BY <2>1 DEF TaskMeansSynced
<1>3. NetworkMeansSynced'
  BY DEF NetworkMeansSynced, SyncInv
<1> QED  BY <1>1, <1>2, <1>3 DEF SyncInv

(* The timers after one is scheduled for p.                                *)
LEMMA ScheduledTimers ==
    ASSUME TypeOK, NEW n \in Node, NEW m \in Node, NEW p, Schedule(n, m, p)
    PROVE  /\ \A x \in Node : \A t \in timers'[x] :
                 \/ \E u \in timers[x] : u.to = t.to /\ u.packet = t.packet
                 \/ x = n /\ t.to = m /\ t.packet = p
           /\ \A x \in Node : timers[x] \subseteq timers'[x]
           /\ \E t \in timers'[n] : t.to = m /\ t.packet = p
<1>1. timers \in [Node -> SUBSET Task]
  BY DEF TypeOK
<1> DEFINE new == [to |-> m, packet |-> p, retries |-> MaxRetransmit]
<1>2. \A x \in Node : timers'[x] = IF x = n THEN timers[x] \cup {new} ELSE timers[x]
  BY <1>1 DEF Schedule
<1>3. new.to = m /\ new.packet = p
  OBVIOUS
<1> HIDE DEF new
<1> QED  BY <1>2, <1>3

LEMMA SyncInit == Init => SyncInv
<1> SUFFICES ASSUME Init PROVE SyncInv
  OBVIOUS
<1>1. TypeOK
  BY TypeInit
<1>2. AckMeansSynced
  BY DEF Init, AckMeansSynced, PacketsOf
<1>3. TaskMeansSynced /\ NetworkMeansSynced
  BY DEF Init, TaskMeansSynced, NetworkMeansSynced
<1> QED  BY <1>1, <1>2, <1>3 DEF SyncInv

LEMMA AnnounceSync ==
    ASSUME SyncInv, TypeOK', NEW n \in Node, Announce(n)
    PROVE  SyncInv'
<1>1. TypeOK  BY DEF SyncInv
<1>2. \A x, y \in Node : \A q \in PacketsOf(channel'[x][y]) :
         q \in PacketsOf(channel[x][y]) \/ q = Announcement
  BY <1>1, AnnouncePackets
<1>3. UNCHANGED <<last, timers, network>>
  BY DEF Announce, tracking, membership, ordering
<1>4. Announcement.kind = "ANN"
  BY DEF Announcement
<1> QED  BY <1>2, <1>3, <1>4, SyncStep

LEMMA SendDataSync ==
    ASSUME SyncInv, TypeOK', NEW n \in Node, NEW m \in Peers(n), SendData(n, m)
    PROVE  SyncInv'
<1> DEFINE p == Data(lastUsed[n][m], session[n][m])
<1>1. TypeOK  BY DEF SyncInv
<1>2. m \in Node  BY DEF Peers
<1>3. p \in Packet /\ p.kind = "DATA"
  <2>1. lastUsed[n][m] \in Numbers /\ session[n][m] \in Nat
    BY <1>1, <1>2 DEF TypeOK
  <2> QED  BY <2>1, NewPacketTypes DEF Data
<1>4. /\ Schedule(n, m, p) /\ channel' = [channel EXCEPT ![n][m] = Append(@, p)]
      /\ UNCHANGED <<last, network>>
  BY DEF SendData, membership, ordering
<1> HIDE DEF p
<1>5. \A x, y \in Node : \A q \in PacketsOf(channel'[x][y]) :
         q \in PacketsOf(channel[x][y]) \/ q = p
  BY <1>1, <1>2, <1>3, <1>4, AppendPackets
<1>6. \A x \in Node : \A t \in timers'[x] :
         \/ \E u \in timers[x] : u.to = t.to /\ u.packet = t.packet
         \/ t.packet = p
  BY <1>1, <1>2, <1>4, ScheduledTimers
<1> QED  BY <1>3, <1>4, <1>5, <1>6, SyncStep

LEMMA ReceiveAnnounceSync ==
    ASSUME SyncInv, TypeOK', NEW n \in Node, NEW m \in Peers(n),
           NEW k \in DOMAIN channel[m][n], ReceiveAnnounce(n, m, k)
    PROVE  SyncInv'
<1> DEFINE p == Syn(lastUsed[n][m], session[n][m])
<1>1. TypeOK  BY DEF SyncInv
<1>2. m \in Node  BY DEF Peers
<1>3. p \in Packet /\ p.kind = "SYN"
  <2>1. lastUsed[n][m] \in Numbers /\ session[n][m] \in Nat
    BY <1>1, <1>2 DEF TypeOK
  <2> QED  BY <2>1, NewPacketTypes DEF Syn
<1>4. Schedule(n, m, p) /\ Consume(n, m, k, <<p>>) /\ UNCHANGED <<last, network>>
  BY DEF ReceiveAnnounce, membership, ordering
<1> HIDE DEF p
<1>5. \A x, y \in Node : \A q \in PacketsOf(channel'[x][y]) :
         q \in PacketsOf(channel[x][y]) \/ q = p
  <2>1. <<p>> \in Seq(Packet) /\ PacketsOf(<<p>>) = {p}
    BY <1>3 DEF PacketsOf
  <2> QED  BY <2>1, <1>1, <1>4, ConsumePackets
<1>6. \A x \in Node : \A t \in timers'[x] :
         \/ \E u \in timers[x] : u.to = t.to /\ u.packet = t.packet
         \/ t.packet = p
  BY <1>1, <1>2, <1>4, ScheduledTimers
<1> QED  BY <1>3, <1>4, <1>5, <1>6, SyncStep

(* The SYN-ACK is sent and scheduled when its SYN has been adopted, or was *)
(* not the first.                                                          *)
LEMMA ReceiveSynSync ==
    ASSUME SyncInv, TypeOK', NEW n \in Node, NEW m \in Peers(n),
           NEW k \in DOMAIN channel[m][n], ReceiveSyn(n, m, k)
    PROVE  SyncInv'
<1> DEFINE p == channel[m][n][k]
           r == SynAck(lastUsed[n][m], p.seq, session[n][m])
<1>1. TypeOK  BY DEF SyncInv
<1>2. m \in Node  BY DEF Peers
<1>3. p \in Packet /\ p.seq \in Numbers
  <2>1. p \in Packet  BY <1>1, ReceivedPacket
  <2> QED  BY <2>1 DEF Packet
<1>4. r \in Packet
  <2>1. lastUsed[n][m] \in Numbers /\ session[n][m] \in Nat
    BY <1>1, <1>2 DEF TypeOK
  <2> QED  BY <2>1, <1>3, NewPacketTypes
<1>5. PICK o \in OnSyn(last[n][m], buf[n][m], p) : last' = [last EXCEPT ![n][m] = o.last]
  BY DEF ReceiveSyn
<1>6. /\ Schedule(n, m, r) /\ Consume(n, m, k, <<r>>) /\ UNCHANGED network
  BY DEF ReceiveSyn
<1> HIDE DEF p, r
<1>7. buf[n][m] \in Seq(Packet) /\ last \in [Node -> [Node -> Numbers \cup {NoSeq}]]
  BY <1>1, <1>2 DEF TypeOK
<1>8. o.last # NoSeq
  <2>1. /\ o.adopted \in BOOLEAN
        /\ o.last = IF o.adopted THEN p.seq ELSE last[n][m]
        /\ last[n][m] = NoSeq => o.adopted
    BY <1>3, <1>7, OnSynType
  <2> QED  BY <2>1, <1>3, NumberFacts
<1>9. /\ last'[n][m] # NoSeq
      /\ \A x, y \in Node : last[x][y] # NoSeq => last'[x][y] # NoSeq
  BY <1>2, <1>5, <1>7, <1>8
<1>10. \A x, y \in Node : \A q \in PacketsOf(channel'[x][y]) :
          q \in PacketsOf(channel[x][y]) \/ (x = n /\ y = m)
  <2>1. <<r>> \in Seq(Packet)
    BY <1>4
  <2> QED  BY <2>1, <1>1, <1>6, ConsumePackets
<1>11. \A x \in Node : \A t \in timers'[x] :
          \/ \E u \in timers[x] : u.to = t.to /\ u.packet = t.packet
          \/ x = n /\ t.to = m
  BY <1>1, <1>2, <1>6, ScheduledTimers
<1> QED  BY <1>6, <1>9, <1>10, <1>11, SyncStep

(* The SYN-ACK says that its sender is synchronised; its receiver is as    *)
(* well from now on.                                                       *)
LEMMA ReceiveSynAckSync ==
    ASSUME SyncInv, TypeOK', NEW n \in Node, NEW m \in Peers(n),
           NEW k \in DOMAIN channel[m][n], ReceiveSynAck(n, m, k)
    PROVE  SyncInv'
<1> DEFINE p == channel[m][n][k]
<1>1. TypeOK  BY DEF SyncInv
<1>2. m \in Node  BY DEF Peers
<1>3. p \in Packet /\ p \in PacketsOf(channel[m][n])
  BY <1>1, ReceivedPacket
<1>4. p.seq \in Numbers
  BY <1>3 DEF Packet
<1>5. PICK o \in OnSyn(last[n][m], buf[n][m], p) : last' = [last EXCEPT ![n][m] = o.last]
  BY DEF ReceiveSynAck
<1>6. /\ Consume(n, m, k, <<Ack(p)>>) /\ UNCHANGED timers /\ p.kind = "SYNACK"
      /\ network' = [network EXCEPT ![n] = @ \cup {m}]
  BY DEF ReceiveSynAck, Receivable
<1> DEFINE a == Ack(p)
<1> HIDE DEF p
<1>7. a \in Packet /\ Consume(n, m, k, <<a>>)
  BY <1>3, <1>6, NumberFacts DEF Packet, Ack
<1> HIDE DEF a
<1>8. /\ buf[n][m] \in Seq(Packet) /\ last \in [Node -> [Node -> Numbers \cup {NoSeq}]]
      /\ network \in [Node -> SUBSET Node]
  <2>1. buf[n][m] \in Seq(Packet) /\ last \in [Node -> [Node -> Numbers \cup {NoSeq}]]
    BY <1>1, <1>2 DEF TypeOK
  <2>2. network \in [Node -> SUBSET Node]
    BY <1>1 DEF TypeOK
  <2> QED  BY <2>1, <2>2
<1>9. o.last # NoSeq
  <2>1. /\ o.adopted \in BOOLEAN
        /\ o.last = IF o.adopted THEN p.seq ELSE last[n][m]
        /\ last[n][m] = NoSeq => o.adopted
    BY <1>3, <1>8, OnSynType
  <2> QED  BY <2>1, <1>4, NumberFacts
<1>10. /\ last'[n][m] # NoSeq
       /\ \A x, y \in Node : last[x][y] # NoSeq => last'[x][y] # NoSeq
  BY <1>2, <1>5, <1>8, <1>9
<1>11. \A x, y \in Node : \A q \in PacketsOf(channel'[x][y]) :
          q \in PacketsOf(channel[x][y]) \/ (x = n /\ y = m)
  <2>1. <<a>> \in Seq(Packet)
    BY <1>7
  <2> QED  BY <2>1, <1>1, <1>7, ConsumePackets
<1>12. last[m][n] # NoSeq
  BY <1>2, <1>3, <1>6 DEF AckMeansSynced, SyncInv
<1>13. \A x, y \in Node : y \in network'[x] => y \in network[x] \/ (x = n /\ y = m)
  BY <1>6, <1>8
<1> QED  BY <1>2, <1>6, <1>10, <1>11, <1>12, <1>13, SyncStep

(* So does the ACK of a SYN-ACK.                                           *)
LEMMA ReceiveAckSync ==
    ASSUME SyncInv, TypeOK', NEW n \in Node, NEW m \in Peers(n),
           NEW k \in DOMAIN channel[m][n], ReceiveAck(n, m, k)
    PROVE  SyncInv'
<1> DEFINE p == channel[m][n][k]
<1>1. TypeOK  BY DEF SyncInv
<1>2. m \in Node  BY DEF Peers
<1>3. p \in PacketsOf(channel[m][n])
  BY <1>1, ReceivedPacket
<1>4. /\ Consume(n, m, k, <<>>) /\ p.kind = "ACK" /\ UNCHANGED <<timers, last>>
      /\ network' = [network EXCEPT ![n] =
            IF p.ack \in sentSynAck[n][m] THEN @ \cup {m} ELSE @]
  BY DEF ReceiveAck, Receivable, ordering
<1> HIDE DEF p
<1>5. network \in [Node -> SUBSET Node]
  BY <1>1 DEF TypeOK
<1>6. last[m][n] # NoSeq
  BY <1>2, <1>3, <1>4 DEF AckMeansSynced, SyncInv
<1>7. \A x, y \in Node : y \in network'[x] => y \in network[x] \/ (x = n /\ y = m)
  BY <1>4, <1>5
<1>8. \A x, y \in Node : \A q \in PacketsOf(channel'[x][y]) :
         q \in PacketsOf(channel[x][y])
  <2>1. <<>> \in Seq(Packet) /\ PacketsOf(<<>>) = {}
    BY EmptySeq DEF PacketsOf
  <2> QED  BY <2>1, <1>1, <1>4, ConsumePackets, ZenonT(30)
<1> QED  BY <1>2, <1>4, <1>6, <1>7, <1>8, SyncStep

LEMMA ReceiveDataSync ==
    ASSUME SyncInv, TypeOK', NEW n \in Node, NEW m \in Peers(n),
           NEW k \in DOMAIN channel[m][n], ReceiveData(n, m, k)
    PROVE  SyncInv'
<1> DEFINE p == channel[m][n][k]
           replies == IF last[n][m] = NoSeq THEN <<>> ELSE <<Ack(p)>>
<1>1. TypeOK  BY DEF SyncInv
<1>2. p \in Packet  BY <1>1, ReceivedPacket
<1>3. /\ Consume(n, m, k, replies) /\ p.kind = "DATA"
      /\ UNCHANGED <<timers, last, network>>
  BY DEF ReceiveData, Receivable, tracking, membership
<1>4. replies \in Seq(Packet)
  <2>1. Ack(p) \in Packet  BY <1>2, <1>3, NumberFacts DEF Packet, Ack
  <2> QED  BY <2>1, EmptySeq
<1>5. \A q \in PacketsOf(replies) : last[n][m] # NoSeq
  BY DEF PacketsOf
<1> HIDE DEF p, replies
<1>6. \A x, y \in Node : \A q \in PacketsOf(channel'[x][y]) :
         q \in PacketsOf(channel[x][y]) \/ last[x][y] # NoSeq
  <2>1. \A x, y \in Node : \A q \in PacketsOf(channel'[x][y]) :
           \/ q \in PacketsOf(channel[x][y])
           \/ x = n /\ y = m /\ q \in PacketsOf(replies)
    BY <1>1, <1>3, <1>4, ConsumePackets
  <2> QED  BY <2>1, <1>5
<1> QED  BY <1>3, <1>6, SyncStep

(* The number taken from the buffer is a number.                           *)
LEMMA LoopSync ==
    ASSUME SyncInv, TypeOK', NEW n \in Node, NEW m \in Peers(n),
           TakeNext(n, m) \/ DropStale(n, m)
    PROVE  SyncInv'
<1>1. TypeOK  BY DEF SyncInv
<1>2. m \in Node  BY DEF Peers
<1>3. UNCHANGED <<channel, timers, network>>
  BY DEF TakeNext, DropStale, tracking, membership
<1>4. CASE TakeNext(n, m)
  <2>1. buf[n][m] \in Seq(Packet) /\ buf[n][m] # <<>>
    BY <1>1, <1>2, <1>4 DEF TypeOK, TakeNext, FrontIsNext
  <2>2. Head(buf[n][m]).seq \in Numbers
    <3>1. Head(buf[n][m]) \in Packet  BY <2>1, HeadTailProperties
    <3> QED  BY <3>1 DEF Packet
  <2>3. last \in [Node -> [Node -> Numbers \cup {NoSeq}]]
    BY <1>1 DEF TypeOK
  <2>4. \A x, y \in Node : last[x][y] # NoSeq => last'[x][y] # NoSeq
    BY <1>2, <1>4, <2>2, <2>3, NumberFacts DEF TakeNext
  <2> QED  BY <1>3, <2>4, SyncStep
<1>5. CASE DropStale(n, m)
  <2>1. UNCHANGED last
    BY <1>5 DEF DropStale
  <2> QED  BY <1>3, <2>1, SyncStep
<1> QED  BY <1>4, <1>5

LEMMA TimerSync ==
    ASSUME SyncInv, TypeOK', NEW n \in Node, NEW t \in timers[n],
           Expire(n, t) \/ Retransmit(n, t) \/ GiveUp(n, t)
    PROVE  SyncInv'
<1>1. TypeOK  BY DEF SyncInv
<1>2. timers \in [Node -> SUBSET Task] /\ network \in [Node -> SUBSET Node]
  BY <1>1 DEF TypeOK
<1>3. t.to \in Node /\ t.packet \in Packet
  BY <1>2 DEF Task
<1>4. UNCHANGED last
  BY DEF Expire, Retransmit, GiveUp, ordering
<1>5. CASE Expire(n, t)
  <2>1. /\ UNCHANGED <<channel, network>>
        /\ \A x \in Node : timers'[x] \subseteq timers[x]
    BY <1>2, <1>5 DEF Expire, membership
  <2> QED  BY <1>4, <2>1, SyncStep
<1>6. CASE Retransmit(n, t)
  <2>1. /\ UNCHANGED network
        /\ channel' = [channel EXCEPT ![n][t.to] = Append(@, t.packet)]
    BY <1>6 DEF Retransmit, membership
  <2> DEFINE again == [t EXCEPT !.retries = t.retries - 1]
  <2>2. \A x \in Node : timers'[x] \subseteq timers[x] \cup (IF x = n THEN {again} ELSE {})
    BY <1>2, <1>6 DEF Retransmit
  <2>3. again.to = t.to /\ again.packet = t.packet
    BY <1>2 DEF Task
  <2> HIDE DEF again
  <2>4. \A x \in Node : \A u \in timers'[x] :
           \E v \in timers[x] : v.to = u.to /\ v.packet = u.packet
    BY <2>2, <2>3
  <2>5. \A x, y \in Node : \A q \in PacketsOf(channel'[x][y]) :
           q \in PacketsOf(channel[x][y]) \/ (x = n /\ y = t.to /\ q = t.packet)
    BY <1>1, <1>3, <2>1, AppendPackets
  <2>6. t.packet.kind \in {"SYNACK", "ACK"} => last[n][t.to] # NoSeq
    BY DEF TaskMeansSynced, SyncInv
  <2> QED  BY <1>4, <2>1, <2>4, <2>5, <2>6, SyncStep
<1>7. CASE GiveUp(n, t)
  <2>1. /\ UNCHANGED channel
        /\ \A x \in Node : timers'[x] \subseteq timers[x]
        /\ \A x \in Node : network'[x] \subseteq network[x]
    BY <1>2, <1>7 DEF GiveUp
  <2> QED  BY <1>4, <2>1, SyncStep
<1> QED  BY <1>5, <1>6, <1>7

LEMMA SyncNext == SyncInv /\ [Next]_vars => SyncInv'
<1> SUFFICES ASSUME SyncInv, [Next]_vars PROVE SyncInv'
  OBVIOUS
<1>1. TypeOK'
  BY TypeNext DEF SyncInv
<1>2. CASE UNCHANGED vars
  <2>1. UNCHANGED <<last, channel, timers, network>>
    BY <1>2 DEF vars, tracking, membership, ordering
  <2> QED  BY <1>1, <2>1, SyncStep
<1>3. CASE \E n \in Node : Announce(n)
  BY <1>1, <1>3, AnnounceSync
<1>4. CASE \E n \in Node : \E t \in timers[n] :
              Expire(n, t) \/ Retransmit(n, t) \/ GiveUp(n, t)
  BY <1>1, <1>4, TimerSync
<1>5. CASE \E n \in Node : \E m \in Peers(n) :
              SendData(n, m) \/ TakeNext(n, m) \/ DropStale(n, m)
  BY <1>1, <1>5, SendDataSync, LoopSync
<1>6. ASSUME NEW n \in Node, NEW m \in Peers(n), NEW k \in DOMAIN channel[m][n],
             Lose(m, n, k)
      PROVE  SyncInv'
  <2>1. TypeOK  BY DEF SyncInv
  <2>2. /\ channel' = [channel EXCEPT ![m][n] = RemoveAt(@, k)]
        /\ UNCHANGED <<last, timers, network>>
    BY <1>6 DEF Lose, tracking, membership, ordering
  <2>3. \A x, y \in Node : \A q \in PacketsOf(channel'[x][y]) :
           q \in PacketsOf(channel[x][y])
    BY <2>1, <2>2, LosePackets
  <2> QED  BY <1>1, <2>2, <2>3, SyncStep
<1>7. CASE \E n \in Node : \E m \in Peers(n) : \E k \in DOMAIN channel[m][n] :
              \/ ReceiveAnnounce(n, m, k)
              \/ ReceiveSyn(n, m, k)
              \/ ReceiveSynAck(n, m, k)
              \/ ReceiveAck(n, m, k)
              \/ ReceiveData(n, m, k)
              \/ Lose(m, n, k)
  BY <1>1, <1>6, <1>7, ReceiveAnnounceSync, ReceiveSynSync, ReceiveSynAckSync,
     ReceiveAckSync, ReceiveDataSync
<1> QED  BY <1>2, <1>3, <1>4, <1>5, <1>7 DEF Next

----------------------------------------------------------------------------
(* An unacknowledged packet has a timer.                                   *)

LEMMA TrackInit == Init => TrackInv
<1> SUFFICES ASSUME Init PROVE TrackInv
  OBVIOUS
<1>1. TypeOK
  BY TypeInit
<1>2. NumbersAreFresh /\ RetransmissionPending
  BY DEF Init, NumbersAreFresh, RetransmissionPending
<1> QED  BY <1>1, <1>2 DEF TrackInv

(* Nothing new is unacknowledged, no timer is lost.                        *)
LEMMA TrackKept ==
    ASSUME TrackInv, TypeOK', UNCHANGED <<lastUsed, timers, session>>,
           \A x, y \in Node : sentButNoAck'[x][y] \subseteq sentButNoAck[x][y]
    PROVE  TrackInv'
<1>1. NumbersAreFresh'
  BY DEF TrackInv, NumbersAreFresh
<1>2. RetransmissionPending'
  BY DEF TrackInv, RetransmissionPending
<1> QED  BY <1>1, <1>2 DEF TrackInv

\* The number s to m is all that can be newly unacknowledged at n.
OnlyAdds(n, m, s) ==
    \A x, y \in Node : sentButNoAck'[x][y] \subseteq
        sentButNoAck[x][y] \cup (IF x = n /\ y = m THEN {s} ELSE {})

(* The packet that takes the next number gets a timer; only its number is  *)
(* newly unacknowledged.                                                   *)
LEMMA TrackSent ==
    ASSUME TrackInv, TypeOK', NEW n \in Node, NEW m \in Node, NEW p \in Packet,
           p.seq = lastUsed[n][m], p.session = session[n][m],
           TakeNumber(n, m), Schedule(n, m, p), UNCHANGED session,
           OnlyAdds(n, m, p.seq)
    PROVE  TrackInv'
<1>1. TypeOK  BY DEF TrackInv
<1>2. lastUsed \in [Node -> [Node -> Numbers]]
  BY <1>1 DEF TypeOK
<1>3. \A x, y \in Node :
         lastUsed'[x][y] = IF x = n /\ y = m THEN lastUsed[x][y] + 1 ELSE lastUsed[x][y]
  BY <1>2 DEF TakeNumber
<1>4. /\ \A x \in Node : timers[x] \subseteq timers'[x]
      /\ \E t \in timers'[n] : t.to = m /\ t.packet = p
  BY <1>1, ScheduledTimers
<1>5. NumbersAreFresh'
  <2>1. ASSUME NEW x \in Node, NEW y \in Node, NEW s \in sentButNoAck'[x][y]
        PROVE  s < lastUsed'[x][y]
    <3>0. s \in sentButNoAck[x][y] \/ (x = n /\ y = m /\ s = p.seq)
      BY <2>1 DEF OnlyAdds
    <3>1. lastUsed[x][y] \in Int
      BY <1>2 DEF Numbers
    <3>2. CASE s \in sentButNoAck[x][y]
      <4>1. s < lastUsed[x][y] /\ s \in Int
        <5>1. sentButNoAck[x][y] \subseteq Numbers  BY <1>1 DEF TypeOK
        <5>2. NumbersAreFresh  BY DEF TrackInv
        <5> QED  BY <3>2, <5>1, <5>2 DEF NumbersAreFresh, Numbers
      <4> QED  BY <1>3, <3>1, <4>1
    <3>3. CASE x = n /\ y = m /\ s = p.seq
      BY <1>3, <3>1, <3>3
    <3> QED  BY <3>0, <3>2, <3>3
  <2> QED  BY <2>1 DEF NumbersAreFresh
<1>6. RetransmissionPending'
  <2>1. ASSUME NEW x \in Node, NEW y \in Node, NEW s \in sentButNoAck'[x][y]
        PROVE  \E t \in timers'[x] :
                  t.to = y /\ t.packet.seq = s /\ t.packet.session = session'[x][y]
    <3>0. s \in sentButNoAck[x][y] \/ (x = n /\ y = m /\ s = p.seq)
      BY <2>1 DEF OnlyAdds
    <3>1. CASE s \in sentButNoAck[x][y]
      BY <1>4, <3>1 DEF TrackInv, RetransmissionPending
    <3>2. CASE x = n /\ y = m /\ s = p.seq
      BY <1>4, <3>2
    <3> QED  BY <3>0, <3>1, <3>2
  <2> QED  BY <2>1 DEF RetransmissionPending
<1> QED  BY <1>5, <1>6 DEF TrackInv

LEMMA SendDataTrack ==
    ASSUME TrackInv, TypeOK', NEW n \in Node, NEW m \in Peers(n), SendData(n, m)
    PROVE  TrackInv'
<1> DEFINE p == Data(lastUsed[n][m], session[n][m])
<1>1. TypeOK /\ m \in Node  BY DEF TrackInv, Peers
<1>2. lastUsed[n][m] \in Numbers /\ session[n][m] \in Nat
  BY <1>1 DEF TypeOK
<1>3. p \in Packet /\ p.seq = lastUsed[n][m] /\ p.session = session[n][m]
  BY <1>2, NewPacketTypes DEF Data
<1>4. /\ TakeNumber(n, m) /\ Schedule(n, m, p) /\ UNCHANGED session
      /\ sentButNoAck' = [sentButNoAck EXCEPT ![n][m] = @ \cup {p.seq}]
  BY DEF SendData
<1> HIDE DEF p
<1>5. OnlyAdds(n, m, p.seq)
  <2>1. sentButNoAck \in [Node -> [Node -> SUBSET Numbers]]  BY <1>1 DEF TypeOK
  <2> QED  BY <2>1, <1>1, <1>4 DEF OnlyAdds
<1> QED  BY <1>1, <1>3, <1>4, <1>5, TrackSent

LEMMA ReceiveAnnounceTrack ==
    ASSUME TrackInv, TypeOK', NEW n \in Node, NEW m \in Peers(n),
           NEW k \in DOMAIN channel[m][n], ReceiveAnnounce(n, m, k)
    PROVE  TrackInv'
<1> DEFINE p == Syn(lastUsed[n][m], session[n][m])
<1>1. TypeOK /\ m \in Node  BY DEF TrackInv, Peers
<1>2. lastUsed[n][m] \in Numbers /\ session[n][m] \in Nat
  BY <1>1 DEF TypeOK
<1>3. p \in Packet /\ p.seq = lastUsed[n][m] /\ p.session = session[n][m]
  BY <1>2, NewPacketTypes DEF Syn
<1>4. /\ TakeNumber(n, m) /\ Schedule(n, m, p) /\ UNCHANGED session
      /\ sentButNoAck' = [sentButNoAck EXCEPT ![n][m] = @ \cup {p.seq}]
  BY DEF ReceiveAnnounce
<1> HIDE DEF p
<1>5. OnlyAdds(n, m, p.seq)
  <2>1. sentButNoAck \in [Node -> [Node -> SUBSET Numbers]]  BY <1>1 DEF TypeOK
  <2> QED  BY <2>1, <1>1, <1>4 DEF OnlyAdds
<1> QED  BY <1>1, <1>3, <1>4, <1>5, TrackSent

(* A restart forgets numbers, it adds none but the SYN-ACK's.              *)
LEMMA ReceiveSynTrack ==
    ASSUME TrackInv, TypeOK', NEW n \in Node, NEW m \in Peers(n),
           NEW k \in DOMAIN channel[m][n], ReceiveSyn(n, m, k)
    PROVE  TrackInv'
<1> DEFINE p == channel[m][n][k]
           r == SynAck(lastUsed[n][m], p.seq, session[n][m])
<1>1. TypeOK /\ m \in Node  BY DEF TrackInv, Peers
<1>2. lastUsed[n][m] \in Numbers /\ session[n][m] \in Nat
  BY <1>1 DEF TypeOK
<1>3. p.seq \in Numbers
  <2>1. p \in Packet  BY <1>1, ReceivedPacket
  <2> QED  BY <2>1 DEF Packet
<1>4. r \in Packet /\ r.seq = lastUsed[n][m] /\ r.session = session[n][m]
  BY <1>2, <1>3, NewPacketTypes DEF SynAck
<1>5. TakeNumber(n, m) /\ Schedule(n, m, r) /\ UNCHANGED session
  BY DEF ReceiveSyn
<1>6. \E o : sentButNoAck' = [sentButNoAck EXCEPT ![n][m] =
         IF o.adopted /\ last[n][m] # NoSeq
         THEN IF n \in DataFirst THEN {r.seq} ELSE {}
         ELSE @ \cup {r.seq}]
  BY DEF ReceiveSyn
<1> HIDE DEF p, r
<1>7. OnlyAdds(n, m, r.seq)
  <2>1. sentButNoAck \in [Node -> [Node -> SUBSET Numbers]]  BY <1>1 DEF TypeOK
  <2> QED  BY <2>1, <1>1, <1>6 DEF OnlyAdds
<1> QED  BY <1>1, <1>4, <1>5, <1>7, TrackSent

LEMMA ReceiveSynAckTrack ==
    ASSUME TrackInv, TypeOK', NEW n \in Node, NEW m \in Peers(n),
           NEW k \in DOMAIN channel[m][n], ReceiveSynAck(n, m, k)
    PROVE  TrackInv'
<1> DEFINE p == channel[m][n][k]
<1>1. sentButNoAck \in [Node -> [Node -> SUBSET Numbers]] /\ m \in Node
  BY DEF TrackInv, TypeOK, Peers
<1>2. \E o : sentButNoAck' = [sentButNoAck EXCEPT ![n][m] =
         IF o.adopted /\ last[n][m] # NoSeq THEN {} ELSE @ \ {p.ack}]
  BY DEF ReceiveSynAck
<1>3. UNCHANGED <<lastUsed, timers, session>>
  BY DEF ReceiveSynAck
<1> HIDE DEF p
<1>4. \A x, y \in Node : sentButNoAck'[x][y] \subseteq sentButNoAck[x][y]
  BY <1>1, <1>2
<1> QED  BY <1>3, <1>4, TrackKept

LEMMA ReceiveAckTrack ==
    ASSUME TrackInv, TypeOK', NEW n \in Node, NEW m \in Peers(n),
           NEW k \in DOMAIN channel[m][n], ReceiveAck(n, m, k)
    PROVE  TrackInv'
<1> DEFINE p == channel[m][n][k]
<1>1. sentButNoAck \in [Node -> [Node -> SUBSET Numbers]] /\ m \in Node
  BY DEF TrackInv, TypeOK, Peers
<1>2. sentButNoAck' = [sentButNoAck EXCEPT ![n][m] = @ \ {p.ack}]
  BY DEF ReceiveAck
<1>3. UNCHANGED <<lastUsed, timers, session>>
  BY DEF ReceiveAck
<1> HIDE DEF p
<1>4. \A x, y \in Node : sentButNoAck'[x][y] \subseteq sentButNoAck[x][y]
  BY <1>1, <1>2
<1> QED  BY <1>3, <1>4, TrackKept

(* A timer ends when its number is no longer unacknowledged, is replaced   *)
(* by one for the same packet, or ends the session.                        *)
LEMMA TimerTrack ==
    ASSUME TrackInv, TypeOK', NEW n \in Node, NEW t \in timers[n],
           Expire(n, t) \/ Retransmit(n, t) \/ GiveUp(n, t)
    PROVE  TrackInv'
<1>1. /\ timers \in [Node -> SUBSET Task] /\ session \in [Node -> [Node -> Nat]]
      /\ sentButNoAck \in [Node -> [Node -> SUBSET Numbers]]
      /\ lastUsed \in [Node -> [Node -> Numbers]]
  BY DEF TrackInv, TypeOK
<1>2. t \in Task /\ t.to \in Node
  BY <1>1 DEF Task
<1>3. NumbersAreFresh /\ RetransmissionPending
  BY DEF TrackInv
<1>4. CASE Expire(n, t)
  <2>1. /\ UNCHANGED <<lastUsed, sentButNoAck, session>>
        /\ t.packet.seq \notin sentButNoAck[n][t.to]
        /\ \A x \in Node : timers'[x] = IF x = n THEN timers[x] \ {t} ELSE timers[x]
    BY <1>1, <1>4 DEF Expire, Unacknowledged
  <2>2. NumbersAreFresh'
    BY <1>3, <2>1 DEF NumbersAreFresh
  <2>3. RetransmissionPending'
    <3>1. ASSUME NEW x \in Node, NEW y \in Node, NEW s \in sentButNoAck'[x][y]
          PROVE  \E v \in timers'[x] :
                    v.to = y /\ v.packet.seq = s /\ v.packet.session = session'[x][y]
      <4>1. PICK v \in timers[x] :
               v.to = y /\ v.packet.seq = s /\ v.packet.session = session[x][y]
        BY <1>3, <2>1, <3>1 DEF RetransmissionPending
      <4>2. v \in timers'[x]
        BY <2>1, <3>1, <4>1
      <4> QED  BY <2>1, <4>1, <4>2
    <3> QED  BY <3>1 DEF RetransmissionPending
  <2> QED  BY <2>2, <2>3 DEF TrackInv
<1>5. CASE Retransmit(n, t)
  <2> DEFINE again == [t EXCEPT !.retries = t.retries - 1]
  <2>1. /\ UNCHANGED <<lastUsed, sentButNoAck, session>>
        /\ \A x \in Node : timers'[x] =
              IF x = n THEN (timers[x] \ {t}) \cup {again} ELSE timers[x]
    BY <1>1, <1>5 DEF Retransmit
  <2>2. again.to = t.to /\ again.packet = t.packet
    BY <1>2 DEF Task
  <2> HIDE DEF again
  <2>3. \A x \in Node : \A u \in timers[x] :
           \E v \in timers'[x] : v.to = u.to /\ v.packet = u.packet
    BY <2>1, <2>2
  <2>4. NumbersAreFresh'
    BY <1>3, <2>1 DEF NumbersAreFresh
  <2>5. RetransmissionPending'
    <3>1. ASSUME NEW x \in Node, NEW y \in Node, NEW s \in sentButNoAck'[x][y]
          PROVE  \E v \in timers'[x] :
                    v.to = y /\ v.packet.seq = s /\ v.packet.session = session'[x][y]
      <4>1. PICK u \in timers[x] :
               u.to = y /\ u.packet.seq = s /\ u.packet.session = session[x][y]
        BY <1>3, <2>1, <3>1 DEF RetransmissionPending
      <4>2. PICK v \in timers'[x] : v.to = u.to /\ v.packet = u.packet
        BY <2>3
      <4> QED  BY <2>1, <4>1, <4>2
    <3> QED  BY <3>1 DEF RetransmissionPending
  <2> QED  BY <2>4, <2>5 DEF TrackInv
<1>6. CASE GiveUp(n, t)
  <2>1. /\ sentButNoAck' = [sentButNoAck EXCEPT ![n][t.to] = {}]
        /\ lastUsed' = [lastUsed EXCEPT ![n][t.to] = 0]
        /\ session' = [session EXCEPT ![n][t.to] = @ + 1]
        /\ timers' = [timers EXCEPT ![n] = @ \ {t}]
    BY <1>6 DEF GiveUp
  <2>2. \A x, y \in Node :
           IF x = n /\ y = t.to
           THEN sentButNoAck'[x][y] = {}
           ELSE /\ sentButNoAck'[x][y] = sentButNoAck[x][y]
                /\ lastUsed'[x][y] = lastUsed[x][y]
                /\ session'[x][y] = session[x][y]
    BY <1>1, <1>2, <2>1
  <2>3. \A x \in Node : timers'[x] = IF x = n THEN timers[x] \ {t} ELSE timers[x]
    BY <1>1, <2>1
  <2>4. NumbersAreFresh'
    BY <1>3, <2>2 DEF NumbersAreFresh
  <2>5. RetransmissionPending'
    <3>1. ASSUME NEW x \in Node, NEW y \in Node, NEW s \in sentButNoAck'[x][y]
          PROVE  \E v \in timers'[x] :
                    v.to = y /\ v.packet.seq = s /\ v.packet.session = session'[x][y]
      <4>1. ~(x = n /\ y = t.to)
        BY <2>2, <3>1
      <4>2. s \in sentButNoAck[x][y] /\ session'[x][y] = session[x][y]
        BY <2>2, <3>1, <4>1
      <4>3. PICK v \in timers[x] :
               v.to = y /\ v.packet.seq = s /\ v.packet.session = session[x][y]
        BY <1>3, <4>2 DEF RetransmissionPending
      <4>4. v \in timers'[x]
        BY <2>3, <4>1, <4>3
      <4> QED  BY <4>2, <4>3, <4>4
    <3> QED  BY <3>1 DEF RetransmissionPending
  <2> QED  BY <2>4, <2>5 DEF TrackInv
<1> QED  BY <1>4, <1>5, <1>6

LEMMA TrackNext == TrackInv /\ [Next]_vars => TrackInv'
<1> SUFFICES ASSUME TrackInv, [Next]_vars PROVE TrackInv'
  OBVIOUS
<1>1. TypeOK'
  BY TypeNext DEF TrackInv
<1>2. ASSUME UNCHANGED tracking PROVE TrackInv'
  BY <1>1, <1>2, TrackKept DEF tracking
<1>3. CASE UNCHANGED vars
  BY <1>2, <1>3 DEF vars
<1>4. CASE \E n \in Node : Announce(n)
  BY <1>2, <1>4 DEF Announce
<1>5. CASE \E n \in Node : \E t \in timers[n] :
              Expire(n, t) \/ Retransmit(n, t) \/ GiveUp(n, t)
  BY <1>1, <1>5, TimerTrack
<1>6. CASE \E n \in Node : \E m \in Peers(n) :
              SendData(n, m) \/ TakeNext(n, m) \/ DropStale(n, m)
  <2>1. CASE \E n \in Node : \E m \in Peers(n) : SendData(n, m)
    BY <1>1, <2>1, SendDataTrack
  <2>2. CASE \E n \in Node : \E m \in Peers(n) : TakeNext(n, m)
    BY <1>2, <2>2 DEF TakeNext
  <2>3. CASE \E n \in Node : \E m \in Peers(n) : DropStale(n, m)
    BY <1>2, <2>3 DEF DropStale
  <2> QED  BY <1>6, <2>1, <2>2, <2>3
<1>7. ASSUME NEW n \in Node, NEW m \in Peers(n), NEW k \in DOMAIN channel[m][n],
             ReceiveData(n, m, k) \/ Lose(m, n, k)
      PROVE  TrackInv'
  <2>1. UNCHANGED tracking
    BY <1>7 DEF ReceiveData, Lose
  <2> QED  BY <1>2, <2>1
<1>8. CASE \E n \in Node : \E m \in Peers(n) : \E k \in DOMAIN channel[m][n] :
              \/ ReceiveAnnounce(n, m, k)
              \/ ReceiveSyn(n, m, k)
              \/ ReceiveSynAck(n, m, k)
              \/ ReceiveAck(n, m, k)
              \/ ReceiveData(n, m, k)
              \/ Lose(m, n, k)
  BY <1>1, <1>7, <1>8, ReceiveAnnounceTrack, ReceiveSynTrack, ReceiveSynAckTrack,
     ReceiveAckTrack
<1> QED  BY <1>3, <1>4, <1>5, <1>6, <1>8 DEF Next

----------------------------------------------------------------------------
(* The theorems.                                                           *)

(* A node never has a member in its network that would drop its data       *)
(* because it has not seen a SYN: whatever is lost, late, duplicated by    *)
(* retransmission or given up, and however many nodes there are.           *)
THEOREM MembersAreSynced == Spec => []NetworkMeansSynced
<1>1. SyncInv => NetworkMeansSynced
  BY DEF SyncInv
<1> QED  BY <1>1, SyncInit, SyncNext, PTL DEF Spec

(* A number that waits for its ACK is never given to another packet of the *)
(* same session.                                                           *)
THEOREM NumbersStayFresh == Spec => []NumbersAreFresh
<1>1. TrackInv => NumbersAreFresh
  BY DEF TrackInv
<1> QED  BY <1>1, TrackInit, TrackNext, PTL DEF Spec

(* Every unacknowledged packet has a timer that will retransmit it or give *)
(* its receiver up: the restart heuristic, the ACKs and the give-ups never *)
(* leave one behind.                                                       *)
THEOREM NoneIsForgotten == Spec => []RetransmissionPending
<1>1. TrackInv => RetransmissionPending
  BY DEF TrackInv
<1> QED  BY <1>1, TrackInit, TrackNext, PTL DEF Spec

(***************************************************************************)
(* Delivery.  When one node announces itself, once, the packets of the     *)
(* handshakes arrive, and the timers of hellos are patient, then data      *)
(* arrives in the order it was sent, and all of it unless its receiver is  *)
(* given up.  Data and its ACKs may overtake each other, and be lost as    *)
(* often as they like; so may the announce.  Timers of data may expire     *)
(* before the ACK had time to arrive.                                      *)
(***************************************************************************)

Hello == {"SYN", "SYNACK"}

HandshakeArrives ==
    /\ Hello \subseteq Patient
    /\ MaxAnnounce <= 1
    /\ Lossy \cap {<<"SYN", "ANN">>, <<"SYNACK", "SYN">>, <<"ACK", "SYNACK">>} = {}

(* What n knows of m before it has heard of it, and what it has to do with *)
(* it after its first packet to m, which is p and has the number 0.        *)
Strange(n, m) ==
    /\ m \notin network[n]
    /\ submitted[n][m] = <<>> /\ delivered[n][m] = <<>> /\ buf[n][m] = <<>>
    /\ session[n][m] = 0

Untouched(n, m) ==
    /\ Strange(n, m)
    /\ lastUsed[n][m] = 0 /\ last[n][m] = NoSeq
    /\ sentButNoAck[n][m] = {} /\ sentSynAck[n][m] = {}
    /\ \A t \in timers[n] : t.to # m

Opened(n, m, p) ==
    /\ Strange(n, m)
    /\ lastUsed[n][m] = 1
    /\ sentButNoAck[n][m] = {0}
    /\ \A t \in timers[n] : t.to = m => t.packet = p

(* A handshake that n began with its announce, step by step.               *)
Silent(n, m) ==
    /\ Untouched(n, m) /\ Untouched(m, n)
    /\ channel[n][m] = <<>> /\ channel[m][n] = <<>>

Announced(n, m) ==
    /\ Untouched(n, m) /\ Untouched(m, n)
    /\ channel[n][m] = <<Announcement>> /\ channel[m][n] = <<>>

Answered(n, m) ==
    /\ Untouched(n, m) /\ Opened(m, n, Syn(0, 0))
    /\ last[m][n] = NoSeq /\ sentSynAck[m][n] = {}
    /\ channel[n][m] = <<>> /\ channel[m][n] = <<Syn(0, 0)>>

Accepted(n, m) ==
    /\ Opened(n, m, SynAck(0, 0, 0)) /\ Opened(m, n, Syn(0, 0))
    /\ last[n][m] = 0 /\ sentSynAck[n][m] = {0}
    /\ last[m][n] = NoSeq /\ sentSynAck[m][n] = {}
    /\ channel[n][m] = <<SynAck(0, 0, 0)>> /\ channel[m][n] = <<>>

(* Afterwards, one way: from m to n.                                       *)
SentData(m, n) == {Data(s, 0) : s \in 1..Len(submitted[m][n])}

Got(m, n, s) == s <= last[n][m] \/ \E q \in PacketsOf(buf[n][m]) : q.seq = s

Counted(d) == \A i \in DOMAIN d : d[i] = <<0, i>>

InNumberOrder(c) == \A i, j \in DOMAIN c : i <= j => c[i].seq <= c[j].seq

(* m has the ACK of its SYN-ACK, if it sent one, or it is under way.       *)
Introduced(m, n) ==
    \/ sentSynAck[m][n] = {} /\ 0 \notin sentButNoAck[m][n]
    \/ /\ sentSynAck[m][n] = {0} /\ sentButNoAck[m][n] = {0}
       /\ n \notin network[m]
       /\ \E q \in PacketsOf(channel[n][m]) :
             q.kind = "ACK" /\ q.re = "SYNACK" /\ q.ack = 0

OfHandshake(p) == p.kind \in Hello /\ p.seq = 0

Tracked(m, n) ==
    /\ \A t \in timers[m] : t.to = n => OfHandshake(t.packet) \/ t.packet \in SentData(m, n)
    /\ session[m][n] = 0 =>
          /\ lastUsed[m][n] = Len(submitted[m][n]) + 1
          /\ \A s \in 1..Len(submitted[m][n]) : s \in sentButNoAck[m][n] \/ Got(m, n, s)
    /\ session[m][n] # 0 => n \notin network[m] /\ sentButNoAck[m][n] = {}

Flow(m, n) ==
    /\ Len(submitted[m][n]) < HalfRange - 1
    /\ Counted(submitted[m][n]) /\ Counted(delivered[n][m])
    /\ last[n][m] \in 0..Len(submitted[m][n]) /\ Len(delivered[n][m]) = last[n][m]
    /\ PacketsOf(buf[n][m]) \subseteq SentData(m, n) /\ InNumberOrder(buf[n][m])
    /\ \A q \in PacketsOf(channel[m][n]) : q.kind = "ACK" \/ q \in SentData(m, n)
    /\ \A q \in PacketsOf(channel[n][m]) : q.kind = "ACK" => Got(m, n, q.ack)
    /\ Tracked(m, n)
    /\ Introduced(m, n)

Stage(n, m) ==
    \/ Silent(n, m) \/ Announced(n, m) \/ Answered(n, m) \/ Accepted(n, m)
    \/ Flow(n, m) /\ Flow(m, n)

DeliveryInv ==
    /\ TypeOK
    /\ \A n \in Node : /\ submitted[n][n] = <<>> /\ delivered[n][n] = <<>>
                       /\ \A t \in timers[n] : t.to # n
    /\ announces = 0 => \A n \in Node : \A m \in Peers(n) : Silent(n, m)
    /\ \A n \in Node : \A m \in Peers(n) : Stage(n, m) \/ Stage(m, n)

----------------------------------------------------------------------------
(* Sequences as what they hold.                                            *)

LEMMA RemoveAtKeeps ==
    ASSUME NEW S, NEW s \in Seq(S), NEW k \in 1..Len(s)
    PROVE  /\ PacketsOf(RemoveAt(s, k)) \subseteq PacketsOf(s)
           /\ \A q \in PacketsOf(s) : q # s[k] => q \in PacketsOf(RemoveAt(s, k))
<1> DEFINE f == SubSeq(s, 1, k - 1)
           g == SubSeq(s, k + 1, Len(s))
<1>1. /\ k \in Int /\ Len(s) \in Nat /\ DOMAIN s = 1..Len(s)
      /\ \A i \in 1..Len(s) : s[i] \in S
  BY LenProperties, ElementOfSeq
<1>2. /\ f \in Seq(S) /\ Len(f) = k - 1
      /\ \A i \in 1..k - 1 : f[i] = s[i]
  <2>1. \A i \in 1..k - 1 : s[i] \in S
    BY <1>1
  <2> HIDE DEF f
  <2>2. /\ f \in Seq(S)
        /\ Len(f) = IF 1 <= k - 1 THEN k - 1 - 1 + 1 ELSE 0
        /\ \A i \in 1..k - 1 - 1 + 1 : f[i] = s[1 + i - 1]
    BY <1>1, <2>1, SubSeqProperties DEF f
  <2> QED  BY <1>1, <2>2
<1>3. /\ g \in Seq(S) /\ Len(g) = Len(s) - k
      /\ \A i \in 1..Len(s) - k : g[i] = s[k + i]
  <2>1. \A i \in k + 1..Len(s) : s[i] \in S
    BY <1>1
  <2> HIDE DEF g
  <2>2. /\ g \in Seq(S)
        /\ Len(g) = IF k + 1 <= Len(s) THEN Len(s) - (k + 1) + 1 ELSE 0
        /\ \A i \in 1..Len(s) - (k + 1) + 1 : g[i] = s[k + 1 + i - 1]
    BY <1>1, <2>1, SubSeqProperties DEF g
  <2>3. /\ Len(s) - (k + 1) + 1 = Len(s) - k
        /\ \A i \in 1..Len(s) - k : k + 1 + i - 1 = k + i
    BY <1>1
  <2>4. ASSUME NEW i \in 1..Len(s) - k PROVE g[i] = s[k + i]
    BY <2>2, <2>3
  <2>5. Len(g) = Len(s) - k
    <3>1. CASE k + 1 <= Len(s)
      BY <2>2, <2>3, <3>1
    <3>2. CASE ~(k + 1 <= Len(s))
      <4>1. Len(s) - k = 0
        <5>1. k \in Int /\ Len(s) \in Int /\ k <= Len(s)
          BY <1>1
        <5> QED  BY <5>1, <3>2
      <4> QED  BY <2>2, <3>2, <4>1
    <3> QED  BY <3>1, <3>2
  <2> QED  BY <2>2, <2>4, <2>5
<1>4. RemoveAt(s, k) = f \o g
  BY DEF RemoveAt
<1> HIDE DEF f, g
<1> DEFINE r == f \o g
<1>5. /\ r \in Seq(S) /\ Len(r) = Len(f) + Len(g)
      /\ \A i \in 1..Len(f) + Len(g) : r[i] = IF i <= Len(f) THEN f[i] ELSE g[i - Len(f)]
  BY <1>2, <1>3, ConcatProperties
<1> HIDE DEF r
<1>6. DOMAIN r = 1..Len(s) - 1
  BY <1>1, <1>2, <1>3, <1>5, LenProperties
<1>7. \A i \in 1..Len(s) - 1 : r[i] = IF i < k THEN s[i] ELSE s[i + 1]
  <2> SUFFICES ASSUME NEW i \in 1..Len(s) - 1
               PROVE  r[i] = IF i < k THEN s[i] ELSE s[i + 1]
    OBVIOUS
  <2>1. Len(f) + Len(g) = Len(s) - 1
    BY <1>1, <1>2, <1>3
  <2>2. r[i] = IF i <= Len(f) THEN f[i] ELSE g[i - Len(f)]
    BY <1>5, <2>1
  <2>3. CASE i < k
    BY <1>1, <1>2, <2>2, <2>3
  <2>4. CASE i >= k
    <3>1. i - Len(f) \in 1..Len(s) - k /\ k + (i - Len(f)) = i + 1 /\ ~(i <= Len(f))
      BY <1>1, <1>2, <2>4
    <3>2. g[i - Len(f)] = s[k + (i - Len(f))]
      BY <1>3, <3>1
    <3> QED  BY <2>2, <2>4, <3>1, <3>2, <1>1
  <2> QED  BY <1>1, <2>3, <2>4
<1>8. PacketsOf(r) \subseteq PacketsOf(s)
  BY <1>1, <1>6, <1>7 DEF PacketsOf
<1>9. ASSUME NEW q \in PacketsOf(s), q # s[k] PROVE q \in PacketsOf(r)
  <2>1. PICK i \in 1..Len(s) : q = s[i]
    BY <1>1 DEF PacketsOf
  <2>2. i # k
    BY <1>9, <2>1
  <2>3. CASE i < k
    BY <1>1, <1>6, <1>7, <2>1, <2>3 DEF PacketsOf
  <2>4. CASE i > k
    <3>1. i - 1 \in 1..Len(s) - 1 /\ r[i - 1] = s[i]
      BY <1>1, <1>7, <2>4
    <3> QED  BY <1>6, <2>1, <3>1 DEF PacketsOf
  <2> QED  BY <1>1, <2>2, <2>3, <2>4
<1> QED  BY <1>4, <1>8, <1>9 DEF r

LEMMA RemoveOnly ==
    ASSUME NEW p, NEW k \in DOMAIN <<p>>
    PROVE  RemoveAt(<<p>>, k) = <<>> /\ <<p>>[k] = p
<1>1. k = 1
  OBVIOUS
<1>2. SubSeq(<<p>>, 1, 0) = <<>> /\ SubSeq(<<p>>, 2, 1) = <<>>
  BY SubSeqEmpty
<1>3. RemoveAt(<<p>>, 1) = SubSeq(<<p>>, 1, 1 - 1) \o SubSeq(<<p>>, 1 + 1, Len(<<p>>))
  BY DEF RemoveAt
<1>4. RemoveAt(<<p>>, 1) = <<>> \o <<>>
  BY <1>2, <1>3
<1>5. <<>> \o <<>> = <<>>
  BY ConcatEmptySeq, EmptySeq
<1> QED  BY <1>1, <1>4, <1>5

LEMMA AppendHolds ==
    ASSUME NEW S, NEW s \in Seq(S), NEW e \in S
    PROVE  PacketsOf(Append(s, e)) = PacketsOf(s) \cup {e}
<1> DEFINE a == Append(s, e)
<1>1. /\ a \in Seq(S) /\ Len(a) = Len(s) + 1
      /\ \A i \in 1..Len(s) : a[i] = s[i]
      /\ a[Len(s) + 1] = e
  BY AppendProperties
<1>2. DOMAIN a = 1..Len(s) + 1 /\ DOMAIN s = 1..Len(s) /\ Len(s) \in Nat
  BY <1>1, LenProperties
<1> HIDE DEF a
<1>3. PacketsOf(a) \subseteq PacketsOf(s) \cup {e}
  BY <1>1, <1>2 DEF PacketsOf
<1>4. PacketsOf(s) \subseteq PacketsOf(a)
  BY <1>1, <1>2 DEF PacketsOf
<1>5. e \in PacketsOf(a)
  BY <1>1, <1>2 DEF PacketsOf
<1> QED  BY <1>3, <1>4, <1>5 DEF a

LEMMA ConcatOne ==
    ASSUME NEW S, NEW s \in Seq(S), NEW e \in S
    PROVE  s \o <<e>> = Append(s, e) /\ s \o <<>> = s
<1>1. s \o <<>> = s
  BY ConcatEmptySeq
<1>2. <<e>> \in Seq(S) /\ Len(<<e>>) = 1 /\ <<e>>[1] = e
  OBVIOUS
<1>3. /\ Append(s, e) \in Seq(S) /\ Len(Append(s, e)) = Len(s) + 1
      /\ \A i \in 1..Len(s) : Append(s, e)[i] = s[i]
      /\ Append(s, e)[Len(s) + 1] = e
  BY AppendProperties
<1>4. /\ s \o <<e>> \in Seq(S) /\ Len(s \o <<e>>) = Len(s) + Len(<<e>>)
      /\ \A i \in 1..Len(s) + Len(<<e>>) :
            (s \o <<e>>)[i] = IF i <= Len(s) THEN s[i] ELSE <<e>>[i - Len(s)]
  BY <1>2, ConcatProperties
<1>5. Len(s) \in Nat
  BY LenProperties
<1> DEFINE c == s \o <<e>>
           d == Append(s, e)
           f == <<e>>
<1>6. c \in Seq(S) /\ d \in Seq(S) /\ Len(c) = Len(d) /\ \A i \in 1..Len(c) : c[i] = d[i]
  <2>1. /\ Len(f) = 1 /\ f[1] = e /\ c \in Seq(S) /\ d \in Seq(S)
        /\ Len(c) = Len(s) + Len(f) /\ Len(d) = Len(s) + 1
        /\ \A i \in 1..Len(s) + Len(f) : c[i] = IF i <= Len(s) THEN s[i] ELSE f[i - Len(s)]
        /\ \A i \in 1..Len(s) : d[i] = s[i]
        /\ d[Len(s) + 1] = e
    BY <1>2, <1>3, <1>4
  <2> HIDE DEF c, d, f
  <2> QED  BY <1>5, <2>1
<1>7. c = d
  <2> HIDE DEF c, d
  <2> QED  BY <1>6, SeqEqual
<1> QED  BY <1>1, <1>7

LEMMA TailHolds ==
    ASSUME NEW S, NEW s \in Seq(S), s # <<>>
    PROVE  /\ Head(s) \in S /\ Head(s) = s[1] /\ Head(s) \in PacketsOf(s)
           /\ PacketsOf(Tail(s)) \subseteq PacketsOf(s)
           /\ \A q \in PacketsOf(s) : q = Head(s) \/ q \in PacketsOf(Tail(s))
<1>1. /\ Head(s) \in S /\ Tail(s) \in Seq(S) /\ Len(Tail(s)) = Len(s) - 1
      /\ \A i \in 1..Len(Tail(s)) : Tail(s)[i] = s[i + 1]
  BY HeadTailProperties
<1>2. Head(s) = s[1] /\ Len(s) \in Nat \ {0} /\ DOMAIN s = 1..Len(s)
  BY LenProperties, EmptySeq
<1> DEFINE t == Tail(s)
           h == Head(s)
<1>3. DOMAIN t = 1..Len(t)
  BY <1>1, LenProperties
<1>4. h = s[1] /\ Len(t) = Len(s) - 1 /\ \A i \in 1..Len(t) : t[i] = s[i + 1]
  BY <1>1, <1>2
<1> HIDE DEF t, h
<1>5. h \in PacketsOf(s) /\ PacketsOf(t) \subseteq PacketsOf(s)
  BY <1>2, <1>3, <1>4 DEF PacketsOf
<1>6. ASSUME NEW q \in PacketsOf(s), q # h PROVE q \in PacketsOf(t)
  <2>1. PICK i \in 1..Len(s) : q = s[i]
    BY <1>2 DEF PacketsOf
  <2>2. i # 1
    BY <1>4, <1>6, <2>1
  <2>3. i - 1 \in 1..Len(t) /\ t[i - 1] = s[i]
    BY <1>2, <1>4, <2>1, <2>2
  <2> QED  BY <1>3, <2>1, <2>3 DEF PacketsOf
<1> QED  BY <1>1, <1>2, <1>5, <1>6 DEF t, h

----------------------------------------------------------------------------
(* Numbers of one session are less than half the circle apart: they        *)
(* compare as they count.                                                  *)

LEMMA NumbersCompare ==
    ASSUME NEW x \in Numbers, NEW y \in Numbers
    PROVE  /\ DifferenceWithWrapAround(x, y) = x - y
           /\ CompareTo(x, y) = IF x <= y THEN -1 ELSE 1
           /\ x < HalfRange - 1 => Succ(x) = x + 1
<1>1. DifferenceWithWrapAround(x, y) = x - y
  BY HalfRangeAssumption
     DEF Numbers, DifferenceWithWrapAround, IncrementSteps, DecrementSteps, Modulus
<1>2. x \in Int /\ y \in Int
  BY HalfRangeAssumption DEF Numbers
<1> QED  BY <1>1, <1>2, HalfRangeAssumption DEF CompareTo, Succ, Numbers

(* What the TreeSet holds after a packet was added, in the same order.     *)
LEMMA InsertedHolds ==
    ASSUME NEW s \in Seq(Packet), NEW p \in Packet, NEW t \in Inserted(s, p)
    PROVE  /\ t \in Seq(Packet)
           /\ PacketsOf(t) = PacketsOf(s) \cup {p}
           /\ InNumberOrder(s) => InNumberOrder(t)
<1>1. PICK k \in 1..Len(s) + 1 :
         /\ t = InsertAt(s, k, p)
         /\ \A i \in DOMAIN s : CompareTo(p.seq, s[i].seq) = IF i < k THEN 1 ELSE -1
  BY DEF Inserted
<1>2. /\ t \in Seq(Packet) /\ Len(t) = Len(s) + 1
      /\ \A i \in 1..Len(s) + 1 : t[i] = IF i < k THEN s[i] ELSE IF i = k THEN p ELSE s[i - 1]
  <2>0. s \in Seq(Packet) /\ p \in Packet /\ k \in 1..Len(s) + 1
    OBVIOUS
  <2>1. /\ InsertAt(s, k, p) \in Seq(Packet) /\ Len(InsertAt(s, k, p)) = Len(s) + 1
        /\ \A i \in 1..Len(s) + 1 :
              InsertAt(s, k, p)[i] = IF i < k THEN s[i] ELSE IF i = k THEN p ELSE s[i - 1]
    BY ONLY <2>0, InsertAtProperties, SMTT(30)
  <2>2. t = InsertAt(s, k, p)
    BY <1>1
  <2> QED  BY <2>1, <2>2
<1>3. /\ DOMAIN t = 1..Len(s) + 1 /\ DOMAIN s = 1..Len(s) /\ Len(s) \in Nat
      /\ \A i \in 1..Len(s) : s[i] \in Packet
  BY <1>2, LenProperties, ElementOfSeq
<1>4. PacketsOf(t) \subseteq PacketsOf(s) \cup {p}
  <2> SUFFICES ASSUME NEW i \in 1..Len(s) + 1 PROVE t[i] \in PacketsOf(s) \cup {p}
    BY <1>3 DEF PacketsOf
  <2>1. CASE i < k
    BY <1>2, <1>3, <2>1, SMTT(30) DEF PacketsOf
  <2>2. CASE i > k
    <3>1. i - 1 \in 1..Len(s) /\ t[i] = s[i - 1]
      BY <1>2, <1>3, <2>2
    <3> QED  BY <1>3, <3>1 DEF PacketsOf
  <2> QED  BY <1>2, <2>1, <2>2
<1>5. p \in PacketsOf(t)
  BY <1>2, <1>3 DEF PacketsOf
<1>6. ASSUME NEW i \in 1..Len(s) PROVE s[i] \in PacketsOf(t)
  <2>1. CASE i < k
    BY <1>2, <1>3, <2>1 DEF PacketsOf
  <2>2. CASE i >= k
    <3>1. i + 1 \in 1..Len(s) + 1 /\ t[i + 1] = s[i]
      BY <1>2, <1>3, <2>2
    <3> QED  BY <1>3, <3>1 DEF PacketsOf
  <2> QED  BY <2>1, <2>2
<1>7. PacketsOf(s) \subseteq PacketsOf(t)
  BY <1>3, <1>6 DEF PacketsOf
<1>8. ASSUME InNumberOrder(s) PROVE InNumberOrder(t)
  <2>1. \A i \in 1..Len(s) : s[i].seq \in Numbers /\ p.seq \in Numbers
    BY <1>3 DEF Packet
  <2>2. \A i \in 1..Len(s) : IF i < k THEN s[i].seq < p.seq ELSE p.seq <= s[i].seq
    <3> SUFFICES ASSUME NEW i \in 1..Len(s)
                 PROVE  IF i < k THEN s[i].seq < p.seq ELSE p.seq <= s[i].seq
      OBVIOUS
    <3>1. CompareTo(p.seq, s[i].seq) = IF i < k THEN 1 ELSE -1
      BY <1>1, <1>3
    <3>2. CompareTo(p.seq, s[i].seq) = IF p.seq <= s[i].seq THEN -1 ELSE 1
      BY <2>1, NumbersCompare
    <3>3. s[i].seq \in Int /\ p.seq \in Int
      BY <2>1, HalfRangeAssumption DEF Numbers
    <3> QED  BY <3>1, <3>2, <3>3
  <2>3. \A i, j \in 1..Len(s) : i <= j => s[i].seq <= s[j].seq
    BY <1>3, <1>8 DEF InNumberOrder
  <2>4. \A i \in 1..Len(s) : s[i].seq \in Int
    BY <2>1, HalfRangeAssumption DEF Numbers
  <2>5. p.seq \in Int
    BY HalfRangeAssumption DEF Packet, Numbers
  <2> SUFFICES ASSUME NEW i \in 1..Len(s) + 1, NEW j \in 1..Len(s) + 1, i <= j
               PROVE  t[i].seq <= t[j].seq
    BY <1>3 DEF InNumberOrder
  <2>6. CASE j < k
    BY <1>2, <1>3, <2>3, <2>6
  <2>7. CASE i > k
    <3>1. t[i] = s[i - 1] /\ t[j] = s[j - 1] /\ i - 1 \in 1..Len(s) /\ j - 1 \in 1..Len(s)
      BY <1>2, <1>3, <2>7
    <3> QED  BY <2>3, <3>1
  <2>8. CASE i < k /\ j = k
    BY <1>2, <1>3, <2>2, <2>8, <2>4, <2>5
  <2>9. CASE i < k /\ j > k
    <3>1. t[i] = s[i] /\ t[j] = s[j - 1] /\ i \in 1..Len(s) /\ j - 1 \in 1..Len(s) /\ i <= j - 1
      BY <1>2, <1>3, <2>9
    <3> QED  BY <2>3, <3>1
  <2>10. CASE i = k /\ j = k
    BY <1>2, <2>5, <2>10
  <2>11. CASE i = k /\ j > k
    <3>1. t[i] = p /\ t[j] = s[j - 1] /\ j - 1 \in 1..Len(s) /\ ~(j - 1 < k)
      BY <1>2, <1>3, <2>11
    <3> QED  BY <2>2, <3>1
  <2> QED  BY <1>3, <2>6, <2>7, <2>8, <2>9, <2>10, <2>11
<1> QED  BY <1>2, <1>4, <1>5, <1>7, <1>8
----------------------------------------------------------------------------
(* A step leaves the pairs alone that it is not about.                     *)

(* What n knows of m, and has under way to it, stays; timers may go.       *)
Kept(n, m) ==
    /\ lastUsed'[n][m] = lastUsed[n][m] /\ session'[n][m] = session[n][m]
    /\ sentButNoAck'[n][m] = sentButNoAck[n][m] /\ sentSynAck'[n][m] = sentSynAck[n][m]
    /\ last'[n][m] = last[n][m] /\ buf'[n][m] = buf[n][m]
    /\ submitted'[n][m] = submitted[n][m] /\ delivered'[n][m] = delivered[n][m]
    /\ channel'[n][m] = channel[n][m]
    /\ m \in network'[n] <=> m \in network[n]
    /\ \A t \in timers'[n] : t.to = m => t \in timers[n]

LEMMA UntouchedKept ==
    ASSUME NEW n \in Node, NEW m \in Node, Kept(n, m), Untouched(n, m)
    PROVE  Untouched(n, m)'
BY DEF Kept, Untouched, Strange

LEMMA OpenedKept ==
    ASSUME NEW n \in Node, NEW m \in Node, NEW p, Kept(n, m), Opened(n, m, p)
    PROVE  /\ Strange(n, m)'
           /\ lastUsed'[n][m] = 1
           /\ sentButNoAck'[n][m] = {0}
           /\ \A t \in timers'[n] : t.to = m => t.packet = p
<1>1. Strange(n, m)'
  BY DEF Kept, Opened, Strange
<1> QED  BY <1>1 DEF Kept, Opened

LEMMA SilentKept ==
    ASSUME NEW n \in Node, NEW m \in Node, Kept(n, m), Kept(m, n), Silent(n, m)
    PROVE  Silent(n, m)'
<1>1. Untouched(n, m)' /\ Untouched(m, n)'
  BY UntouchedKept DEF Silent
<1> QED  BY <1>1 DEF Silent, Kept

LEMMA FlowKept ==
    ASSUME NEW n \in Node, NEW m \in Node, Kept(n, m), Kept(m, n), Flow(m, n)
    PROVE  Flow(m, n)'
<1>1. SentData(m, n)' = SentData(m, n)
  BY DEF SentData, Kept
<1>2. \A s : Got(m, n, s)' <=> Got(m, n, s)
  BY DEF Got, Kept
<1>3. Tracked(m, n)'
  BY <1>1, <1>2 DEF Tracked, Flow, Kept
<1>4. Introduced(m, n)'
  BY DEF Introduced, Flow, Kept
<1>5. /\ \A q \in PacketsOf(channel[m][n])' : q.kind = "ACK" \/ q \in SentData(m, n)'
      /\ \A q \in PacketsOf(channel[n][m])' : q.kind = "ACK" => Got(m, n, q.ack)'
      /\ PacketsOf(buf[n][m])' \subseteq SentData(m, n)' /\ InNumberOrder(buf[n][m])'
  BY <1>1, <1>2 DEF Flow, Kept
<1>6. /\ (Len(submitted[m][n]) < HalfRange - 1)'
      /\ Counted(submitted[m][n])' /\ Counted(delivered[n][m])'
      /\ (last[n][m] \in 0..Len(submitted[m][n]))' /\ (Len(delivered[n][m]) = last[n][m])'
  BY DEF Flow, Kept
<1> QED  BY <1>3, <1>4, <1>5, <1>6 DEF Flow

LEMMA StageKept ==
    ASSUME NEW n \in Node, NEW m \in Node, Kept(n, m), Kept(m, n), Stage(n, m)
    PROVE  Stage(n, m)'
<1>1. CASE Silent(n, m)
  BY <1>1, SilentKept DEF Stage
<1>2. CASE Announced(n, m)
  <2>1. Untouched(n, m)' /\ Untouched(m, n)'
    BY <1>2, UntouchedKept DEF Announced
  <2> QED  BY <1>2, <2>1 DEF Stage, Announced, Kept
<1>3. CASE Answered(n, m)
  <2>1. Untouched(n, m)'
    BY <1>3, UntouchedKept DEF Answered
  <2>2. Opened(m, n, Syn(0, 0))'
    BY <1>3, OpenedKept, SMTT(30) DEF Answered, Opened
  <2>3. Answered(n, m)'
    BY <1>3, <2>1, <2>2 DEF Answered, Kept
  <2> QED  BY <2>3 DEF Stage
<1>4. CASE Accepted(n, m)
  <2>0. Opened(n, m, SynAck(0, 0, 0)) /\ Opened(m, n, Syn(0, 0))
    BY <1>4 DEF Accepted
  <2>1. Opened(n, m, SynAck(0, 0, 0))'
    BY <2>0, OpenedKept DEF Opened
  <2>2. Opened(m, n, Syn(0, 0))'
    BY <2>0, OpenedKept DEF Opened
  <2>3. Accepted(n, m)'
    BY <1>4, <2>1, <2>2 DEF Accepted, Kept
  <2> QED  BY <2>3 DEF Stage
<1>5. CASE Flow(n, m) /\ Flow(m, n)
  BY <1>5, FlowKept DEF Stage
<1> QED  BY <1>1, <1>2, <1>3, <1>4, <1>5 DEF Stage

(* So it is enough to look at the one pair a step is about.                *)
LEMMA DeliveryStep ==
    ASSUME DeliveryInv, TypeOK', NEW n \in Node, NEW m \in Node, n # m,
           \A x, y \in Node : (x # n \/ y # m) /\ (x # m \/ y # n) => Kept(x, y),
           announces' = announces, announces # 0,
           Stage(n, m)' \/ Stage(m, n)'
    PROVE  DeliveryInv'
<1>1. \A x \in Node : Kept(x, x)
  OBVIOUS
<1>2. \A x \in Node : /\ submitted'[x][x] = <<>> /\ delivered'[x][x] = <<>>
                      /\ \A t \in timers'[x] : t.to # x
  BY <1>1 DEF DeliveryInv, Kept
<1>3. ASSUME NEW x \in Node, NEW y \in Peers(x)
      PROVE  Stage(x, y)' \/ Stage(y, x)'
  <2>1. y \in Node /\ (Stage(x, y) \/ Stage(y, x))
    BY DEF Peers, DeliveryInv
  <2>2. CASE (x # n \/ y # m) /\ (x # m \/ y # n)
    <3>1. Kept(x, y) /\ Kept(y, x)
      BY <2>1, <2>2
    <3> QED  BY <2>1, <3>1, StageKept
  <2>3. CASE (x = n /\ y = m) \/ (x = m /\ y = n)
    BY <2>3
  <2> QED  BY <2>2, <2>3
<1> QED  BY <1>2, <1>3 DEF DeliveryInv
----------------------------------------------------------------------------
(* What a packet under way, a member, a buffered packet or a timer that    *)
(* fires says about the stage its pair is in.                              *)

LEMMA StageOfPacket ==
    ASSUME DeliveryInv, NEW n \in Node, NEW m \in Peers(n),
           NEW p \in PacketsOf(channel[m][n])
    PROVE  /\ announces # 0
           /\ p.kind = "ANN" => Announced(m, n)
           /\ p.kind = "SYN" => Answered(n, m)
           /\ p.kind = "SYNACK" => Accepted(m, n)
           /\ p.kind \in {"ACK", "DATA"} => Flow(n, m) /\ Flow(m, n)
<1>1. m \in Node /\ n \in Peers(m) /\ n # m
  BY DEF Peers
<1>2. channel[m][n] # <<>>
  BY DEF PacketsOf
<1>3. ~Silent(n, m) /\ ~Silent(m, n)
  BY <1>2 DEF Silent
<1>4. announces # 0
  BY <1>1, <1>3 DEF DeliveryInv
<1>5. CASE Announced(n, m)
  BY <1>2, <1>5 DEF Announced
<1>6. CASE Announced(m, n)
  <2>1. p = Announcement
    BY <1>6 DEF Announced, PacketsOf
  <2> QED  BY <1>4, <1>6, <2>1 DEF Announcement
<1>7. CASE Answered(n, m)
  <2>1. p = Syn(0, 0)
    BY <1>7 DEF Answered, PacketsOf
  <2> QED  BY <1>4, <1>7, <2>1 DEF Syn
<1>8. CASE Answered(m, n)
  BY <1>2, <1>8 DEF Answered
<1>9. CASE Accepted(n, m)
  BY <1>2, <1>9 DEF Accepted
<1>10. CASE Accepted(m, n)
  <2>1. p = SynAck(0, 0, 0)
    BY <1>10 DEF Accepted, PacketsOf
  <2> QED  BY <1>4, <1>10, <2>1 DEF SynAck
<1>11. CASE Flow(n, m) /\ Flow(m, n)
  <2>1. p.kind = "ACK" \/ p \in SentData(m, n)
    BY <1>11 DEF Flow
  <2>2. p.kind \in {"ACK", "DATA"}
    BY <2>1 DEF SentData, Data
  <2> QED  BY <1>4, <1>11, <2>2
<1>12. Stage(n, m) \/ Stage(m, n)
  BY DEF DeliveryInv
<1> QED  BY <1>3, <1>5, <1>6, <1>7, <1>8, <1>9, <1>10, <1>11, <1>12 DEF Stage

LEMMA StageOfMember ==
    ASSUME DeliveryInv, NEW n \in Node, NEW m \in Peers(n),
           m \in network[n] \/ buf[n][m] # <<>>
    PROVE  announces # 0 /\ Flow(n, m) /\ Flow(m, n)
<1>1. m \in Node /\ n \in Peers(m) /\ n # m
  BY DEF Peers
<1>2. ~Strange(n, m)
  BY DEF Strange
<1>3. ~Untouched(n, m) /\ \A p : ~Opened(n, m, p)
  BY <1>2 DEF Untouched, Opened
<1>4. ~Silent(n, m) /\ ~Silent(m, n)
  BY <1>3 DEF Silent
<1>5. announces # 0
  BY <1>1, <1>4 DEF DeliveryInv
<1>6. Flow(n, m) /\ Flow(m, n)
  <2>1. /\ ~Announced(n, m) /\ ~Announced(m, n)
        /\ ~Answered(n, m) /\ ~Answered(m, n)
        /\ ~Accepted(n, m) /\ ~Accepted(m, n)
    BY <1>3 DEF Announced, Answered, Accepted
  <2>2. Stage(n, m) \/ Stage(m, n)
    BY DEF DeliveryInv
  <2> QED  BY <1>4, <2>1, <2>2 DEF Stage
<1> QED  BY <1>5, <1>6

(* The timer of a hello does not fire while its handshake is under way.    *)
LEMMA StageOfTimer ==
    ASSUME DeliveryInv, Hello \subseteq Patient, NEW n \in Node, NEW t \in timers[n],
           Due(n, t), Unacknowledged(n, t)
    PROVE  /\ announces # 0
           /\ t.to \in Peers(n)
           /\ Flow(n, t.to) /\ Flow(t.to, n)
           /\ sentSynAck[n][t.to] = {} /\ 0 \notin sentButNoAck[n][t.to]
           /\ t.packet \in SentData(n, t.to)
<1> DEFINE m == t.to
<1>1. m \in Node /\ m # n
  <2>1. timers \in [Node -> SUBSET Task]
    BY DEF DeliveryInv, TypeOK
  <2>2. t.to # n
    BY DEF DeliveryInv
  <2> QED  BY <2>1, <2>2 DEF Task
<1>2. m \in Peers(n) /\ n \in Peers(m)
  BY <1>1 DEF Peers
<1>3. /\ t.packet.kind \in Hello => ~UnderWay(n, t)
      /\ t.packet.seq \in sentButNoAck[n][m]
  BY DEF Due, Unacknowledged
<1>4. t.to = m
  OBVIOUS
<1> HIDE DEF m
<1>5. ~Untouched(n, m)
  BY <1>4 DEF Untouched
<1>6. ~Silent(n, m) /\ ~Silent(m, n) /\ ~Announced(n, m) /\ ~Announced(m, n) /\ ~Answered(n, m)
  BY <1>5 DEF Silent, Announced, Answered
<1>7. ~Answered(m, n)
  <2>1. SUFFICES ASSUME Answered(m, n) PROVE FALSE
    OBVIOUS
  <2>2. t.packet = Syn(0, 0) /\ channel[n][m] = <<Syn(0, 0)>>
    BY <1>4, <2>1 DEF Answered, Opened
  <2>3. \E k \in DOMAIN channel[n][m] : channel[n][m][k] = t.packet
    BY <2>2
  <2>4. t.packet.kind \in Hello
    BY <2>2 DEF Hello, Syn, SynAck
  <2> QED  BY <1>3, <1>4, <2>3, <2>4 DEF UnderWay
<1>8. ~Accepted(n, m)
  <2>1. SUFFICES ASSUME Accepted(n, m) PROVE FALSE
    OBVIOUS
  <2>2. t.packet = SynAck(0, 0, 0) /\ channel[n][m] = <<SynAck(0, 0, 0)>>
    BY <1>4, <2>1 DEF Accepted, Opened
  <2>3. \E k \in DOMAIN channel[n][m] : channel[n][m][k] = t.packet
    BY <2>2
  <2>4. t.packet.kind \in Hello
    BY <2>2 DEF Hello, Syn, SynAck
  <2> QED  BY <1>3, <1>4, <2>3, <2>4 DEF UnderWay
<1>9. ~Accepted(m, n)
  <2>1. SUFFICES ASSUME Accepted(m, n) PROVE FALSE
    OBVIOUS
  <2>2. t.packet = Syn(0, 0) /\ channel[m][n] = <<SynAck(0, 0, 0)>>
    BY <1>4, <2>1 DEF Accepted, Opened
  <2>3. /\ t.packet.kind \in Hello /\ t.packet.seq = 0
        /\ channel[m][n][1].kind = "SYNACK" /\ channel[m][n][1].ack = 0
    BY <2>2 DEF Hello, Syn, SynAck
  <2>4. 1 \in DOMAIN channel[m][n]
    BY <2>2
  <2> QED  BY <1>3, <1>4, <2>3, <2>4 DEF UnderWay
<1>10. announces # 0
  BY <1>2, <1>6 DEF DeliveryInv
<1>11. Flow(n, m) /\ Flow(m, n)
  <2>1. Stage(n, m) \/ Stage(m, n)
    BY <1>2 DEF DeliveryInv
  <2> QED  BY <1>6, <1>7, <1>8, <1>9, <2>1 DEF Stage
<1>12. sentSynAck[n][m] = {} /\ 0 \notin sentButNoAck[n][m]
  <2>1. SUFFICES ASSUME sentButNoAck[n][m] = {0},
                        NEW q \in PacketsOf(channel[m][n]),
                        q.kind = "ACK" /\ q.re = "SYNACK" /\ q.ack = 0
                 PROVE  FALSE
    BY <1>11 DEF Flow, Introduced
  <2>2. t.packet.kind \in Hello /\ t.packet.seq = 0
    <3>1. t.packet.seq = 0
      BY <1>3, <2>1
    <3>2. OfHandshake(t.packet) \/ t.packet \in SentData(n, m)
      BY <1>4, <1>11 DEF Flow, Tracked
    <3>3. \A p \in SentData(n, m) : p.seq # 0
      BY DEF SentData, Data
    <3> QED  BY <3>1, <3>2, <3>3 DEF OfHandshake
  <2>3. PICK k \in DOMAIN channel[m][n] : channel[m][n][k] = q
    BY DEF PacketsOf
  <2> QED  BY <1>3, <1>4, <2>1, <2>2, <2>3 DEF UnderWay
<1>13. t.packet \in SentData(n, m)
  BY <1>3, <1>4, <1>11, <1>12 DEF Flow, Tracked, OfHandshake
<1> QED  BY <1>2, <1>10, <1>11, <1>12, <1>13 DEF m
----------------------------------------------------------------------------
(* The steps of the handshake.                                             *)

LEMMA Put ==
    ASSUME NEW S, NEW f \in [Node -> [Node -> S]], NEW n \in Node, NEW m \in Node, NEW v,
           NEW g, g = [f EXCEPT ![n][m] = v]
    PROVE  /\ g[n][m] = v
           /\ \A x, y \in Node : x # n \/ y # m => g[x][y] = f[x][y]
OBVIOUS

(* The two channels of a packet that is received.                          *)
LEMMA ConsumeChannels ==
    ASSUME TypeOK, NEW n \in Node, NEW m \in Node, n # m, NEW k, NEW replies,
           Consume(n, m, k, replies)
    PROVE  /\ channel'[m][n] = RemoveAt(channel[m][n], k)
           /\ channel'[n][m] = channel[n][m] \o replies
           /\ \A x, y \in Node : (x # n \/ y # m) /\ (x # m \/ y # n) =>
                 channel'[x][y] = channel[x][y]
<1>1. channel \in [Node -> [Node -> Seq(Packet)]]
  BY DEF TypeOK
<1> QED  BY <1>1 DEF Consume

(* A timer for the packet p to m.                                          *)
LEMMA ScheduleTimers ==
    ASSUME TypeOK, NEW n \in Node, NEW m \in Node, NEW p, Schedule(n, m, p)
    PROVE  \A x, y \in Node : \A t \in timers'[x] :
              t.to = y => t \in timers[x] \/ (x = n /\ y = m /\ t.packet = p)
<1>1. timers \in [Node -> SUBSET Task]
  BY DEF TypeOK
<1> DEFINE new == [to |-> m, packet |-> p, retries |-> MaxRetransmit]
<1>2. \A x \in Node : timers'[x] = IF x = n THEN timers[x] \cup {new} ELSE timers[x]
  BY <1>1 DEF Schedule
<1>3. new.to = m /\ new.packet = p
  OBVIOUS
<1> HIDE DEF new
<1> QED  BY <1>2, <1>3

LEMMA AnnounceDelivery ==
    ASSUME DeliveryInv, TypeOK', MaxAnnounce <= 1, NEW n \in Node, Announce(n)
    PROVE  DeliveryInv'
<1>1. announces = 0 /\ announces' # 0
  BY TransportAssumption DEF DeliveryInv, TypeOK, Announce
<1>2. \A x \in Node : \A y \in Peers(x) : Silent(x, y)
  BY <1>1 DEF DeliveryInv
<1>3. /\ channel' = [channel EXCEPT ![n] =
            [m \in Node |-> IF m = n THEN @[m] ELSE Append(@[m], Announcement)]]
      /\ channel \in [Node -> [Node -> Seq(Packet)]]
  BY DEF Announce, DeliveryInv, TypeOK
<1>4. UNCHANGED <<lastUsed, sentButNoAck, timers, session, sentSynAck, network,
                  last, buf, delivered, submitted>>
  BY DEF Announce, tracking, membership, ordering
<1>5. \A x, y \in Node : channel'[x][y] =
         IF x = n /\ y # n THEN Append(channel[x][y], Announcement) ELSE channel[x][y]
  BY <1>3
<1>6. \A x, y \in Node : Untouched(x, y) => Untouched(x, y)'
  BY <1>4 DEF Untouched, Strange
<1>7. ASSUME NEW x \in Node, NEW y \in Peers(x)
      PROVE  Silent(x, y)' \/ Announced(x, y)' \/ Announced(y, x)'
  <2>1. y \in Node /\ x # y /\ Silent(x, y)
    BY <1>2 DEF Peers
  <2>2. Untouched(x, y)' /\ Untouched(y, x)' /\ channel[x][y] = <<>> /\ channel[y][x] = <<>>
    BY <1>6, <2>1 DEF Silent
  <2>3. Append(<<>>, Announcement) = <<Announcement>>
    OBVIOUS
  <2>4. CASE x = n
    <3>1. channel'[x][y] = <<Announcement>> /\ channel'[y][x] = <<>>
      BY <1>5, <2>1, <2>2, <2>3, <2>4
    <3> QED  BY <2>2, <3>1 DEF Announced
  <2>5. CASE y = n
    <3>1. channel'[y][x] = <<Announcement>> /\ channel'[x][y] = <<>>
      BY <1>5, <2>1, <2>2, <2>3, <2>5
    <3> QED  BY <2>2, <3>1 DEF Announced
  <2>6. CASE x # n /\ y # n
    <3>1. channel'[y][x] = <<>> /\ channel'[x][y] = <<>>
      BY <1>5, <2>1, <2>2, <2>6
    <3> QED  BY <2>2, <3>1 DEF Silent
  <2> QED  BY <2>4, <2>5, <2>6
<1>8. \A x \in Node : \A y \in Peers(x) : Stage(x, y)' \/ Stage(y, x)'
  BY <1>7 DEF Stage
<1>9. \A x \in Node : /\ submitted'[x][x] = <<>> /\ delivered'[x][x] = <<>>
                      /\ \A t \in timers'[x] : t.to # x
  BY <1>4 DEF DeliveryInv
<1> QED  BY <1>1, <1>8, <1>9 DEF DeliveryInv

LEMMA ReceiveAnnounceDelivery ==
    ASSUME DeliveryInv, TypeOK', NEW n \in Node, NEW m \in Peers(n),
           NEW k \in DOMAIN channel[m][n], ReceiveAnnounce(n, m, k)
    PROVE  DeliveryInv'
<1> DEFINE p == Syn(lastUsed[n][m], session[n][m])
<1>1. TypeOK /\ m \in Node /\ n # m
  BY DEF DeliveryInv, Peers
<1>2. announces # 0 /\ Announced(m, n)
  <2>1. channel[m][n][k].kind = "ANN" /\ channel[m][n][k] \in PacketsOf(channel[m][n])
    BY DEF ReceiveAnnounce, Receivable, PacketsOf
  <2> QED  BY <2>1, StageOfPacket
<1>3. Untouched(m, n) /\ Untouched(n, m)
      /\ channel[m][n] = <<Announcement>> /\ channel[n][m] = <<>>
  BY <1>2 DEF Announced
<1>4. lastUsed[n][m] = 0 /\ session[n][m] = 0
  BY <1>3 DEF Untouched, Strange
<1>5. p = Syn(0, 0)
  BY <1>4
<1>6. /\ lastUsed' = [lastUsed EXCEPT ![n][m] = lastUsed[n][m] + 1]
      /\ sentButNoAck' = [sentButNoAck EXCEPT ![n][m] = sentButNoAck[n][m] \cup {0}]
      /\ Consume(n, m, k, <<Syn(0, 0)>>)
      /\ Schedule(n, m, Syn(0, 0))
  <2>1. p.seq = 0
    BY <1>4 DEF Syn
  <2>2. /\ TakeNumber(n, m) /\ Consume(n, m, k, <<p>>) /\ Schedule(n, m, p)
        /\ sentButNoAck' = [sentButNoAck EXCEPT ![n][m] = @ \cup {p.seq}]
    BY DEF ReceiveAnnounce
  <2> HIDE DEF p
  <2> QED  BY <1>5, <2>1, <2>2 DEF TakeNumber
<1> HIDE DEF p
<1>7. UNCHANGED <<session, sentSynAck, network, last, buf, delivered, submitted, announces>>
  BY DEF ReceiveAnnounce, membership, ordering, environment
<1>8. /\ lastUsed'[n][m] = 1 /\ sentButNoAck'[n][m] = {0}
      /\ \A x, y \in Node : x # n \/ y # m =>
            lastUsed'[x][y] = lastUsed[x][y] /\ sentButNoAck'[x][y] = sentButNoAck[x][y]
  <2>1. /\ lastUsed \in [Node -> [Node -> Numbers]]
        /\ sentButNoAck \in [Node -> [Node -> SUBSET Numbers]]
        /\ sentButNoAck[n][m] = {}
    BY <1>1, <1>3 DEF TypeOK, Untouched
  <2>2. lastUsed'[n][m] = 1 /\ \A x, y \in Node : x # n \/ y # m => lastUsed'[x][y] = lastUsed[x][y]
    BY <1>1, <1>4, <1>6, <2>1
  <2>3. /\ sentButNoAck'[n][m] = {0}
        /\ \A x, y \in Node : x # n \/ y # m => sentButNoAck'[x][y] = sentButNoAck[x][y]
    BY <1>1, <1>6, <2>1
  <2> QED  BY <2>2, <2>3
<1>9. /\ channel'[m][n] = <<>> /\ channel'[n][m] = <<Syn(0, 0)>>
      /\ \A x, y \in Node : (x # n \/ y # m) /\ (x # m \/ y # n) =>
            channel'[x][y] = channel[x][y]
  <2>1. RemoveAt(channel[m][n], k) = <<>>
    BY <1>3, RemoveOnly
  <2>2. <<>> \o <<Syn(0, 0)>> = <<Syn(0, 0)>>
    OBVIOUS
  <2> QED  BY <1>1, <1>3, <1>6, <2>1, <2>2, ConsumeChannels
<1>10. \A x, y \in Node : \A t \in timers'[x] :
          t.to = y => t \in timers[x] \/ (x = n /\ y = m /\ t.packet = Syn(0, 0))
  BY <1>1, <1>6, ScheduleTimers
<1>11. \A x, y \in Node : (x # n \/ y # m) /\ (x # m \/ y # n) => Kept(x, y)
  BY <1>7, <1>8, <1>9, <1>10 DEF Kept
<1>12. Untouched(m, n)'
  BY <1>1, <1>3, <1>7, <1>8, <1>10 DEF Untouched, Strange
<1>13. Opened(n, m, Syn(0, 0))'
  <2>1. Strange(n, m)'
    BY <1>3, <1>7 DEF Untouched, Strange
  <2>2. \A t \in timers'[n] : t.to = m => t.packet = Syn(0, 0)
    BY <1>1, <1>3, <1>10 DEF Untouched
  <2> QED  BY <1>8, <2>1, <2>2 DEF Opened
<1>14. Answered(m, n)'
  BY <1>3, <1>7, <1>9, <1>12, <1>13 DEF Answered, Untouched
<1> QED  BY <1>1, <1>2, <1>7, <1>11, <1>14, DeliveryStep DEF Stage
LEMMA ReceiveSynDelivery ==
    ASSUME DeliveryInv, TypeOK', NEW n \in Node, NEW m \in Peers(n),
           NEW k \in DOMAIN channel[m][n], ReceiveSyn(n, m, k)
    PROVE  DeliveryInv'
<1> DEFINE p == channel[m][n][k]
           r == SynAck(lastUsed[n][m], p.seq, session[n][m])
<1>1. TypeOK /\ m \in Node /\ n # m
  BY DEF DeliveryInv, Peers
<1>2. announces # 0 /\ Answered(n, m)
  <2>1. p.kind = "SYN" /\ p \in PacketsOf(channel[m][n])
    BY DEF ReceiveSyn, Receivable, PacketsOf
  <2> QED  BY <2>1, StageOfPacket
<1>3. /\ Untouched(n, m) /\ Opened(m, n, Syn(0, 0))
      /\ last[m][n] = NoSeq /\ sentSynAck[m][n] = {}
      /\ channel[n][m] = <<>> /\ channel[m][n] = <<Syn(0, 0)>>
  BY <1>2 DEF Answered
<1>4. /\ lastUsed[n][m] = 0 /\ session[n][m] = 0 /\ last[n][m] = NoSeq /\ buf[n][m] = <<>>
      /\ sentButNoAck[n][m] = {} /\ sentSynAck[n][m] = {}
  BY <1>3 DEF Untouched, Strange
<1>5. p = Syn(0, 0) /\ p.seq = 0
  BY <1>3, RemoveOnly DEF Syn
<1>6. r = SynAck(0, 0, 0) /\ r.seq = 0
  BY <1>4, <1>5 DEF SynAck
<1>7. OnSyn(last[n][m], buf[n][m], p) = {Adopt(0)}
  BY <1>4, <1>5 DEF OnSyn
<1>8. /\ TakeNumber(n, m) /\ Consume(n, m, k, <<r>>) /\ Schedule(n, m, r)
      /\ sentSynAck' = [sentSynAck EXCEPT ![n][m] = @ \cup {r.seq}]
      /\ \E o \in OnSyn(last[n][m], buf[n][m], p) :
            /\ last' = [last EXCEPT ![n][m] = o.last]
            /\ buf' = [buf EXCEPT ![n][m] = o.buf]
            /\ sentButNoAck' = [sentButNoAck EXCEPT ![n][m] =
                  IF o.adopted /\ last[n][m] # NoSeq
                  THEN IF n \in DataFirst THEN {r.seq} ELSE {}
                  ELSE @ \cup {r.seq}]
  BY DEF ReceiveSyn
<1> HIDE DEF p, r
<1>9. /\ last' = [last EXCEPT ![n][m] = 0]
      /\ buf' = [buf EXCEPT ![n][m] = <<>>]
      /\ sentButNoAck' = [sentButNoAck EXCEPT ![n][m] = {0}]
      /\ sentSynAck' = [sentSynAck EXCEPT ![n][m] = {0}]
      /\ lastUsed' = [lastUsed EXCEPT ![n][m] = 1]
  <2>1. PICK o \in {Adopt(0)} :
            /\ last' = [last EXCEPT ![n][m] = o.last]
            /\ buf' = [buf EXCEPT ![n][m] = o.buf]
            /\ sentButNoAck' = [sentButNoAck EXCEPT ![n][m] =
                  IF o.adopted /\ last[n][m] # NoSeq
                  THEN IF n \in DataFirst THEN {r.seq} ELSE {}
                  ELSE @ \cup {r.seq}]
    BY <1>7, <1>8
  <2>2. o.last = 0 /\ o.buf = <<>>
    BY DEF Adopt
  <2>3. sentButNoAck[n][m] \cup {r.seq} = {0} /\ sentSynAck[n][m] \cup {r.seq} = {0}
    BY <1>4, <1>6
  <2>4. /\ lastUsed \in [Node -> [Node -> Numbers]]
        /\ sentButNoAck \in [Node -> [Node -> SUBSET Numbers]]
        /\ sentSynAck \in [Node -> [Node -> SUBSET Numbers]]
    BY <1>1 DEF TypeOK
  <2>5. sentButNoAck' = [sentButNoAck EXCEPT ![n][m] = {0}]
    BY <1>1, <1>4, <2>1, <2>3, <2>4
  <2>6. sentSynAck' = [sentSynAck EXCEPT ![n][m] = {0}]
    BY <1>1, <1>8, <2>3, <2>4
  <2>7. lastUsed' = [lastUsed EXCEPT ![n][m] = 1]
    BY <1>1, <1>4, <1>8, <2>4 DEF TakeNumber
  <2> QED  BY <2>1, <2>2, <2>5, <2>6, <2>7
<1>10. UNCHANGED <<session, network, delivered, submitted, announces>>
  BY DEF ReceiveSyn, environment
<1>11. /\ lastUsed'[n][m] = 1 /\ sentButNoAck'[n][m] = {0} /\ sentSynAck'[n][m] = {0}
       /\ last'[n][m] = 0 /\ buf'[n][m] = <<>>
       /\ \A x, y \in Node : x # n \/ y # m =>
             /\ lastUsed'[x][y] = lastUsed[x][y] /\ sentButNoAck'[x][y] = sentButNoAck[x][y]
             /\ sentSynAck'[x][y] = sentSynAck[x][y]
             /\ last'[x][y] = last[x][y] /\ buf'[x][y] = buf[x][y]
  <2>1. /\ lastUsed'[n][m] = 1
        /\ \A x, y \in Node : x # n \/ y # m => lastUsed'[x][y] = lastUsed[x][y]
    BY <1>1, <1>9, Put DEF TypeOK
  <2>2. /\ sentButNoAck'[n][m] = {0}
        /\ \A x, y \in Node : x # n \/ y # m => sentButNoAck'[x][y] = sentButNoAck[x][y]
    BY <1>1, <1>9, Put DEF TypeOK
  <2>3. /\ sentSynAck'[n][m] = {0}
        /\ \A x, y \in Node : x # n \/ y # m => sentSynAck'[x][y] = sentSynAck[x][y]
    BY <1>1, <1>9, Put DEF TypeOK
  <2>4. /\ last'[n][m] = 0
        /\ \A x, y \in Node : x # n \/ y # m => last'[x][y] = last[x][y]
    BY <1>1, <1>9, Put DEF TypeOK
  <2>5. /\ buf'[n][m] = <<>>
        /\ \A x, y \in Node : x # n \/ y # m => buf'[x][y] = buf[x][y]
    BY <1>1, <1>9, Put DEF TypeOK
  <2> QED  BY <2>1, <2>2, <2>3, <2>4, <2>5
<1>12. /\ channel'[m][n] = <<>> /\ channel'[n][m] = <<SynAck(0, 0, 0)>>
       /\ \A x, y \in Node : (x # n \/ y # m) /\ (x # m \/ y # n) =>
             channel'[x][y] = channel[x][y]
  <2>1. RemoveAt(channel[m][n], k) = <<>>
    BY <1>3, RemoveOnly
  <2>2. <<>> \o <<SynAck(0, 0, 0)>> = <<SynAck(0, 0, 0)>>
    OBVIOUS
  <2> QED  BY <1>1, <1>3, <1>6, <1>8, <2>1, <2>2, ConsumeChannels
<1>13. \A x, y \in Node : \A t \in timers'[x] :
          t.to = y => t \in timers[x] \/ (x = n /\ y = m /\ t.packet = SynAck(0, 0, 0))
  BY <1>1, <1>6, <1>8, ScheduleTimers
<1>14. \A x, y \in Node : (x # n \/ y # m) /\ (x # m \/ y # n) => Kept(x, y)
  BY <1>10, <1>11, <1>12, <1>13 DEF Kept
<1>15. Opened(n, m, SynAck(0, 0, 0))'
  <2>1. Strange(n, m)'
    BY <1>3, <1>10, <1>11 DEF Untouched, Strange
  <2>2. \A t \in timers'[n] : t.to = m => t.packet = SynAck(0, 0, 0)
    BY <1>1, <1>3, <1>13 DEF Untouched
  <2> QED  BY <1>11, <2>1, <2>2 DEF Opened
<1>16. Opened(m, n, Syn(0, 0))'
  <2>1. Strange(m, n)'
    BY <1>1, <1>3, <1>10, <1>11 DEF Opened, Strange
  <2>2. \A t \in timers'[m] : t.to = n => t.packet = Syn(0, 0)
    BY <1>1, <1>3, <1>13 DEF Opened
  <2>3. lastUsed'[m][n] = 1 /\ sentButNoAck'[m][n] = {0}
    BY <1>1, <1>3, <1>11 DEF Opened
  <2> QED  BY <2>1, <2>2, <2>3 DEF Opened
<1>17. Accepted(n, m)'
  BY <1>1, <1>3, <1>11, <1>12, <1>15, <1>16 DEF Accepted
<1> QED  BY <1>1, <1>2, <1>10, <1>14, <1>17, DeliveryStep DEF Stage

LEMMA ReceiveSynAckDelivery ==
    ASSUME DeliveryInv, TypeOK', NEW n \in Node, NEW m \in Peers(n),
           NEW k \in DOMAIN channel[m][n], ReceiveSynAck(n, m, k)
    PROVE  DeliveryInv'
<1> DEFINE p == channel[m][n][k]
           q == Ack(SynAck(0, 0, 0))
<1>1. TypeOK /\ m \in Node /\ n # m
  BY DEF DeliveryInv, Peers
<1>2. announces # 0 /\ Accepted(m, n)
  <2>1. p.kind = "SYNACK" /\ p \in PacketsOf(channel[m][n])
    BY DEF ReceiveSynAck, Receivable, PacketsOf
  <2> QED  BY <2>1, StageOfPacket
<1>3. /\ Opened(m, n, SynAck(0, 0, 0)) /\ Opened(n, m, Syn(0, 0))
      /\ last[m][n] = 0 /\ sentSynAck[m][n] = {0}
      /\ last[n][m] = NoSeq /\ sentSynAck[n][m] = {}
      /\ channel[m][n] = <<SynAck(0, 0, 0)>> /\ channel[n][m] = <<>>
  BY <1>2 DEF Accepted
<1>4. p = SynAck(0, 0, 0) /\ p.seq = 0 /\ p.ack = 0
  BY <1>3, RemoveOnly DEF SynAck
<1>5. OnSyn(last[n][m], buf[n][m], p) = {Adopt(0)}
  BY <1>3, <1>4 DEF OnSyn
<1>6. /\ Consume(n, m, k, <<Ack(p)>>)
      /\ network' = [network EXCEPT ![n] = @ \cup {m}]
      /\ sentSynAck' = [sentSynAck EXCEPT ![n][m] = @ \ {p.ack}]
      /\ \E o \in OnSyn(last[n][m], buf[n][m], p) :
            /\ last' = [last EXCEPT ![n][m] = o.last]
            /\ buf' = [buf EXCEPT ![n][m] = o.buf]
            /\ sentButNoAck' = [sentButNoAck EXCEPT ![n][m] =
                  IF o.adopted /\ last[n][m] # NoSeq THEN {} ELSE @ \ {p.ack}]
  BY DEF ReceiveSynAck
<1>7. q.kind = "ACK" /\ q.re = "SYNACK" /\ q.ack = 0
  BY DEF Ack, SynAck
<1>8. Ack(p) = q
  BY <1>4
<1> HIDE DEF p, q
<1>9. sentButNoAck[n][m] = {0} /\ sentButNoAck[m][n] = {0}
  BY <1>3 DEF Opened
<1>10. /\ last' = [last EXCEPT ![n][m] = 0]
       /\ buf' = [buf EXCEPT ![n][m] = <<>>]
       /\ sentButNoAck' = [sentButNoAck EXCEPT ![n][m] = {}]
       /\ sentSynAck' = [sentSynAck EXCEPT ![n][m] = {}]
  <2>1. PICK o \in {Adopt(0)} :
            /\ last' = [last EXCEPT ![n][m] = o.last]
            /\ buf' = [buf EXCEPT ![n][m] = o.buf]
            /\ sentButNoAck' = [sentButNoAck EXCEPT ![n][m] =
                  IF o.adopted /\ last[n][m] # NoSeq THEN {} ELSE @ \ {p.ack}]
    BY <1>5, <1>6
  <2>2. o.last = 0 /\ o.buf = <<>>
    BY DEF Adopt
  <2>3. sentButNoAck[n][m] \ {p.ack} = {} /\ sentSynAck[n][m] \ {p.ack} = {}
    BY <1>3, <1>4, <1>9
  <2>4. /\ sentButNoAck \in [Node -> [Node -> SUBSET Numbers]]
        /\ sentSynAck \in [Node -> [Node -> SUBSET Numbers]]
    BY <1>1 DEF TypeOK
  <2>5. sentButNoAck' = [sentButNoAck EXCEPT ![n][m] = {}]
    BY <1>1, <1>3, <2>1, <2>3, <2>4
  <2>6. sentSynAck' = [sentSynAck EXCEPT ![n][m] = {}]
    BY <1>1, <1>6, <2>3, <2>4
  <2> QED  BY <2>1, <2>2, <2>5, <2>6
<1>11. UNCHANGED <<lastUsed, timers, session, delivered, submitted, announces>>
  BY DEF ReceiveSynAck, environment
<1>12. /\ sentButNoAck'[n][m] = {} /\ sentSynAck'[n][m] = {}
       /\ last'[n][m] = 0 /\ buf'[n][m] = <<>>
       /\ \A x, y \in Node : x # n \/ y # m =>
             /\ sentButNoAck'[x][y] = sentButNoAck[x][y]
             /\ sentSynAck'[x][y] = sentSynAck[x][y]
             /\ last'[x][y] = last[x][y] /\ buf'[x][y] = buf[x][y]
  <2>2. /\ sentButNoAck'[n][m] = {}
        /\ \A x, y \in Node : x # n \/ y # m => sentButNoAck'[x][y] = sentButNoAck[x][y]
    BY <1>1, <1>10, Put DEF TypeOK
  <2>3. /\ sentSynAck'[n][m] = {}
        /\ \A x, y \in Node : x # n \/ y # m => sentSynAck'[x][y] = sentSynAck[x][y]
    BY <1>1, <1>10, Put DEF TypeOK
  <2>4. /\ last'[n][m] = 0
        /\ \A x, y \in Node : x # n \/ y # m => last'[x][y] = last[x][y]
    BY <1>1, <1>10, Put DEF TypeOK
  <2>5. /\ buf'[n][m] = <<>>
        /\ \A x, y \in Node : x # n \/ y # m => buf'[x][y] = buf[x][y]
    BY <1>1, <1>10, Put DEF TypeOK
  <2> QED  BY <2>2, <2>3, <2>4, <2>5
<1>13. /\ channel'[m][n] = <<>> /\ channel'[n][m] = <<q>>
       /\ \A x, y \in Node : (x # n \/ y # m) /\ (x # m \/ y # n) =>
             channel'[x][y] = channel[x][y]
  <2>1. RemoveAt(channel[m][n], k) = <<>>
    BY <1>3, RemoveOnly
  <2>2. <<>> \o <<q>> = <<q>>
    OBVIOUS
  <2> QED  BY <1>1, <1>3, <1>6, <1>8, <2>1, <2>2, ConsumeChannels
<1>14. \A x, y \in Node : x # n \/ y # m => (y \in network'[x] <=> y \in network[x])
  <2>1. network \in [Node -> SUBSET Node]
    BY <1>1 DEF TypeOK
  <2>2. \A x \in Node : network'[x] = IF x = n THEN network[x] \cup {m} ELSE network[x]
    BY <1>6, <2>1
  <2> QED  BY <2>2
<1>15. \A x, y \in Node : (x # n \/ y # m) /\ (x # m \/ y # n) => Kept(x, y)
  BY <1>11, <1>12, <1>13, <1>14 DEF Kept
<1>16. 0 < HalfRange - 1
  <2>1. lastUsed[n][m] = 1 /\ lastUsed[n][m] \in Numbers
    BY <1>1, <1>3 DEF Opened, TypeOK
  <2> QED  BY <2>1, HalfRangeAssumption DEF Numbers
<1>17. PacketsOf(<<q>>) = {q} /\ PacketsOf(<<>>) = {}
  BY DEF PacketsOf
<1>18. ASSUME NEW x \in {n, m}, NEW y \in {n, m}, x # y
       PROVE  /\ submitted'[x][y] = <<>> /\ delivered'[x][y] = <<>> /\ buf'[x][y] = <<>>
              /\ session'[x][y] = 0 /\ last'[x][y] = 0 /\ lastUsed'[x][y] = 1
  BY <1>1, <1>3, <1>11, <1>12, <1>18 DEF Opened, Strange
<1>19. ASSUME NEW x \in {n, m}, NEW y \in {n, m}, x # y
       PROVE  Tracked(x, y)'
  <2>1. \A t \in timers'[x] : t.to = y => OfHandshake(t.packet)
    BY <1>3, <1>11, <1>19 DEF Opened, Syn, SynAck, OfHandshake, Hello
  <2>2. session'[x][y] = 0 /\ lastUsed'[x][y] = Len(submitted'[x][y]) + 1
    BY <1>18, <1>19
  <2>3. Len(submitted'[x][y]) = 0
    BY <1>18, <1>19
  <2> QED  BY <2>1, <2>2, <2>3 DEF Tracked
<1>20. ASSUME NEW x \in {n, m}, NEW y \in {n, m}, x # y, Introduced(x, y)'
       PROVE  Flow(x, y)'
  <2>1. Len(submitted'[x][y]) = 0 /\ Len(delivered'[y][x]) = 0 /\ last'[y][x] = 0
    BY <1>18, <1>20
  <2>2. /\ Counted(submitted[x][y])' /\ Counted(delivered[y][x])'
        /\ PacketsOf(buf[y][x])' = {} /\ InNumberOrder(buf[y][x])'
    BY <1>18, <1>20 DEF Counted, PacketsOf, InNumberOrder
  <2>3. \A c \in PacketsOf(channel[x][y])' \cup PacketsOf(channel[y][x])' : c = q
    BY <1>13, <1>17, <1>20
  <2>4. Got(x, y, 0)'
    BY <2>1 DEF Got
  <2>5. Tracked(x, y)'
    BY <1>19, <1>20
  <2> QED  BY <1>7, <1>16, <1>20, <2>1, <2>2, <2>3, <2>4, <2>5 DEF Flow
<1>21. Introduced(n, m)'
  BY <1>12 DEF Introduced
<1>22. Introduced(m, n)'
  <2>1. sentSynAck'[m][n] = {0} /\ sentButNoAck'[m][n] = {0} /\ n \notin network'[m]
    BY <1>1, <1>3, <1>9, <1>12, <1>14 DEF Opened, Strange
  <2>2. q \in PacketsOf(channel[n][m])'
    BY <1>13, <1>17
  <2> QED  BY <1>7, <2>1, <2>2 DEF Introduced
<1>23. Flow(n, m)' /\ Flow(m, n)'
  BY <1>1, <1>20, <1>21, <1>22
<1> QED  BY <1>1, <1>2, <1>11, <1>15, <1>23, DeliveryStep DEF Stage
----------------------------------------------------------------------------
(* The steps of the transfer, first the direction in which only packets    *)
(* come and go.                                                            *)

LEMMA FlowCarried ==
    ASSUME NEW n \in Node, NEW m \in Node, Flow(m, n),
           lastUsed'[m][n] = lastUsed[m][n], session'[m][n] = session[m][n],
           sentButNoAck'[m][n] = sentButNoAck[m][n], sentSynAck'[m][n] = sentSynAck[m][n],
           submitted'[m][n] = submitted[m][n], n \in network'[m] <=> n \in network[m],
           last'[n][m] = last[n][m], buf'[n][m] = buf[n][m],
           delivered'[n][m] = delivered[n][m],
           \A t \in timers'[m] : t.to = n =>
              \E u \in timers[m] : u.to = n /\ u.packet = t.packet,
           \A q \in PacketsOf(channel'[m][n]) :
              q \in PacketsOf(channel[m][n]) \/ q.kind = "ACK" \/ q \in SentData(m, n),
           \A q \in PacketsOf(channel'[n][m]) :
              q \in PacketsOf(channel[n][m]) \/ q.kind # "ACK" \/ Got(m, n, q.ack),
           \A q \in PacketsOf(channel[n][m]) :
              q.kind = "ACK" /\ q.re = "SYNACK" => q \in PacketsOf(channel'[n][m])
    PROVE  Flow(m, n)'
<1>1. SentData(m, n)' = SentData(m, n)
  BY DEF SentData
<1>2. \A s : Got(m, n, s)' <=> Got(m, n, s)
  BY DEF Got
<1>3. Tracked(m, n)'
  <2>1. \A t \in timers'[m] : t.to = n => OfHandshake(t.packet) \/ t.packet \in SentData(m, n)'
    BY <1>1 DEF Tracked, Flow
  <2>2. session'[m][n] = 0 =>
          /\ lastUsed'[m][n] = Len(submitted'[m][n]) + 1
          /\ \A s \in 1..Len(submitted'[m][n]) : s \in sentButNoAck'[m][n] \/ Got(m, n, s)'
    BY <1>2 DEF Tracked, Flow
  <2>3. session'[m][n] # 0 => n \notin network'[m] /\ sentButNoAck'[m][n] = {}
    BY DEF Tracked, Flow
  <2> QED  BY <2>1, <2>2, <2>3 DEF Tracked
<1>4. Introduced(m, n)'
  BY DEF Introduced, Flow
<1>5. \A q \in PacketsOf(channel'[m][n]) : q.kind = "ACK" \/ q \in SentData(m, n)'
  BY <1>1 DEF Flow
<1>6. \A q \in PacketsOf(channel'[n][m]) : q.kind = "ACK" => Got(m, n, q.ack)'
  BY <1>2 DEF Flow
<1>7. PacketsOf(buf'[n][m]) \subseteq SentData(m, n)' /\ InNumberOrder(buf'[n][m])
  BY <1>1 DEF Flow
<1>8. /\ Len(submitted'[m][n]) < HalfRange - 1
      /\ Counted(submitted'[m][n]) /\ Counted(delivered'[n][m])
      /\ last'[n][m] \in 0..Len(submitted'[m][n]) /\ Len(delivered'[n][m]) = last'[n][m]
  BY DEF Flow
<1> QED  BY <1>3, <1>4, <1>5, <1>6, <1>7, <1>8 DEF Flow

(* Numbers on the way are numbers.                                         *)
LEMMA FlowNumbers ==
    ASSUME TypeOK, NEW n \in Node, NEW m \in Node, Flow(m, n)
    PROVE  /\ Len(submitted[m][n]) \in Nat /\ last[n][m] \in Nat /\ last[n][m] \in Numbers
           /\ last[n][m] <= Len(submitted[m][n])
           /\ \A p \in SentData(m, n) :
                 /\ p.kind = "DATA" /\ p.session = 0
                 /\ p.seq \in 1..Len(submitted[m][n]) /\ p.seq \in Numbers
                 /\ p = Data(p.seq, 0)
                 /\ p \in Packet
<1>1. Len(submitted[m][n]) \in Nat
  <2>1. submitted[m][n] \in Seq(Nat \X Numbers)
    BY DEF TypeOK
  <2> QED  BY <2>1, LenProperties
<1>2. /\ last[n][m] \in 0..Len(submitted[m][n]) /\ Len(submitted[m][n]) < HalfRange - 1
  BY DEF Flow
<1>3. last[n][m] \in Nat /\ last[n][m] \in Numbers /\ last[n][m] <= Len(submitted[m][n])
  BY <1>1, <1>2, HalfRangeAssumption DEF Numbers
<1>4. ASSUME NEW s \in 1..Len(submitted[m][n])
      PROVE  /\ s \in Numbers /\ Data(s, 0).kind = "DATA" /\ Data(s, 0).session = 0
             /\ Data(s, 0).seq = s /\ Data(s, 0) \in Packet
  <2>1. s \in Numbers
    BY <1>1, <1>2, HalfRangeAssumption DEF Numbers
  <2> QED  BY <2>1, NewPacketTypes, NumberFacts DEF Data
<1>5. ASSUME NEW p \in SentData(m, n)
      PROVE  /\ p.kind = "DATA" /\ p.session = 0
             /\ p.seq \in 1..Len(submitted[m][n]) /\ p.seq \in Numbers
             /\ p = Data(p.seq, 0)
             /\ p \in Packet
  <2>1. PICK s \in 1..Len(submitted[m][n]) : p = Data(s, 0)
    BY DEF SentData
  <2> QED  BY <1>4, <2>1
<1> QED  BY <1>1, <1>3, <1>5

(* Data sent: the number after those in use.                               *)
LEMMA SendDataFlow ==
    ASSUME DeliveryInv, TypeOK', NEW n \in Node, NEW m \in Peers(n), SendData(n, m)
    PROVE  DeliveryInv'
<1> DEFINE p == Data(lastUsed[n][m], session[n][m])
           len == Len(submitted[n][m])
<1>1. TypeOK /\ m \in Node /\ n # m
  BY DEF DeliveryInv, Peers
<1>2. /\ m \in network[n] /\ NumberLeft(n, m) /\ TakeNumber(n, m) /\ Schedule(n, m, p)
      /\ channel' = [channel EXCEPT ![n][m] = Append(@, p)]
      /\ sentButNoAck' = [sentButNoAck EXCEPT ![n][m] = @ \cup {p.seq}]
      /\ submitted' = [submitted EXCEPT ![n][m] = Append(@, <<p.session, p.seq>>)]
      /\ UNCHANGED <<session, membership, ordering, environment>>
  BY DEF SendData
<1>3. announces # 0 /\ Flow(n, m) /\ Flow(m, n)
  BY <1>2, StageOfMember
<1>4. session[n][m] = 0 /\ lastUsed[n][m] = len + 1
  BY <1>2, <1>3 DEF Flow, Tracked
<1>5. sentSynAck[n][m] = {} /\ 0 \notin sentButNoAck[n][m]
  BY <1>2, <1>3 DEF Flow, Introduced
<1>6. len \in Nat /\ last[m][n] \in Nat /\ last[m][n] <= len
  BY <1>1, <1>3, FlowNumbers
<1>7. p = Data(len + 1, 0) /\ p.seq = len + 1 /\ p.session = 0 /\ p.kind = "DATA"
  BY <1>4 DEF Data
<1>8. p \in Packet
  <2>1. lastUsed[n][m] \in Numbers /\ session[n][m] \in Nat
    BY <1>1 DEF TypeOK
  <2> QED  BY <2>1, NewPacketTypes, NumberFacts
<1>9. len + 1 < HalfRange - 1
  BY <1>2, <1>4 DEF NumberLeft
<1> HIDE DEF p, len
<1>10. /\ lastUsed'[n][m] = len + 2
       /\ sentButNoAck'[n][m] = sentButNoAck[n][m] \cup {len + 1}
       /\ submitted'[n][m] = Append(submitted[n][m], <<0, len + 1>>)
       /\ channel'[n][m] = Append(channel[n][m], p)
       /\ \A x, y \in Node : x # n \/ y # m =>
             /\ lastUsed'[x][y] = lastUsed[x][y] /\ sentButNoAck'[x][y] = sentButNoAck[x][y]
             /\ submitted'[x][y] = submitted[x][y] /\ channel'[x][y] = channel[x][y]
  <2>1. /\ lastUsed'[n][m] = lastUsed[n][m] + 1
        /\ \A x, y \in Node : x # n \/ y # m => lastUsed'[x][y] = lastUsed[x][y]
    BY <1>1, <1>2 DEF TypeOK, TakeNumber
  <2>2. /\ sentButNoAck'[n][m] = sentButNoAck[n][m] \cup {p.seq}
        /\ \A x, y \in Node : x # n \/ y # m => sentButNoAck'[x][y] = sentButNoAck[x][y]
    BY <1>1, <1>2 DEF TypeOK
  <2>3. /\ submitted'[n][m] = Append(submitted[n][m], <<p.session, p.seq>>)
        /\ \A x, y \in Node : x # n \/ y # m => submitted'[x][y] = submitted[x][y]
    BY <1>1, <1>2, ZenonT(30) DEF TypeOK
  <2>4. /\ channel'[n][m] = Append(channel[n][m], p)
        /\ \A x, y \in Node : x # n \/ y # m => channel'[x][y] = channel[x][y]
    BY <1>1, <1>2, ZenonT(30) DEF TypeOK
  <2>5. lastUsed[n][m] + 1 = len + 2
    BY <1>4, <1>6
  <2> QED  BY <1>7, <2>1, <2>2, <2>3, <2>4, <2>5
<1>11. UNCHANGED <<session, sentSynAck, network, last, buf, delivered, announces>>
  BY <1>2 DEF membership, ordering, environment
<1>12. \A x, y \in Node : \A t \in timers'[x] :
          t.to = y => t \in timers[x] \/ (x = n /\ y = m /\ t.packet = p)
  BY <1>1, <1>2, ScheduleTimers
<1>13. \A x, y \in Node : (x # n \/ y # m) /\ (x # m \/ y # n) => Kept(x, y)
  BY <1>10, <1>11, <1>12 DEF Kept
<1>14. PacketsOf(channel'[n][m]) = PacketsOf(channel[n][m]) \cup {p}
  <2>1. channel[n][m] \in Seq(Packet)
    BY <1>1 DEF TypeOK
  <2> QED  BY <1>8, <1>10, <2>1, AppendHolds
<1>15. Flow(m, n)'
  <2>1. Flow(m, n)
    BY <1>3
  <2>2. \A q \in PacketsOf(channel'[n][m]) :
           q \in PacketsOf(channel[n][m]) \/ q.kind # "ACK" \/ Got(m, n, q.ack)
    BY <1>7, <1>14
  <2>3. \A q \in PacketsOf(channel[n][m]) : q \in PacketsOf(channel'[n][m])
    BY <1>14
  <2>4. channel'[m][n] = channel[m][n]
    BY <1>1, <1>10
  <2>5. \A t \in timers'[m] : t.to = n => \E u \in timers[m] : u.to = n /\ u.packet = t.packet
    BY <1>1, <1>12
  <2>6. /\ lastUsed'[m][n] = lastUsed[m][n] /\ sentButNoAck'[m][n] = sentButNoAck[m][n]
        /\ submitted'[m][n] = submitted[m][n]
    BY <1>1, <1>10
  <2> QED  BY <1>1, <1>11, <2>1, <2>2, <2>3, <2>4, <2>5, <2>6, FlowCarried
<1>16. /\ Len(submitted'[n][m]) = len + 1
       /\ Counted(submitted'[n][m])
  <2>1. submitted[n][m] \in Seq(Nat \X Numbers) /\ <<0, len + 1>> \in Nat \X Numbers
    <3>1. submitted[n][m] \in Seq(Nat \X Numbers)
      <4>1. submitted \in [Node -> [Node -> Seq(Nat \X Numbers)]]
        BY <1>1 DEF TypeOK
      <4> QED  BY <1>1, <4>1
    <3>2. len + 1 \in Numbers
      BY <1>6, <1>9, HalfRangeAssumption DEF Numbers
    <3> QED  BY <3>1, <3>2
  <2> DEFINE d == submitted[n][m]
             e == submitted'[n][m]
  <2>2. /\ e \in Seq(Nat \X Numbers) /\ Len(e) = Len(d) + 1
        /\ \A i \in 1..Len(d) : e[i] = d[i]
        /\ e[Len(d) + 1] = <<0, len + 1>>
    BY <1>10, <2>1, AppendProperties
  <2>3. DOMAIN e = 1..Len(d) + 1 /\ DOMAIN d = 1..Len(d) /\ Len(d) = len
    BY <2>1, <2>2, LenProperties DEF len
  <2>4. Counted(d)
    BY <1>3 DEF Flow
  <2> HIDE DEF d, e
  <2>5. \A i \in DOMAIN e : e[i] = <<0, i>>
    BY <1>6, <2>2, <2>3, <2>4 DEF Counted
  <2> QED  BY <2>2, <2>3, <2>5 DEF Counted, e
<1>17. SentData(n, m)' = SentData(n, m) \cup {p}
  <2>1. 1..len + 1 = 1..len \cup {len + 1}
    BY <1>6
  <2>2. SentData(n, m)' = {Data(s, 0) : s \in 1..len + 1}
    BY <1>16 DEF SentData
  <2>3. SentData(n, m) = {Data(s, 0) : s \in 1..len}
    BY DEF SentData, len
  <2> QED  BY <1>7, <2>1, <2>2, <2>3
<1>18. \A s : Got(n, m, s)' <=> Got(n, m, s)
  BY <1>11 DEF Got
<1>19. Tracked(n, m)'
  <2>1. \A t \in timers'[n] : t.to = m => OfHandshake(t.packet) \/ t.packet \in SentData(n, m)'
    <3>1. \A t \in timers[n] : t.to = m => OfHandshake(t.packet) \/ t.packet \in SentData(n, m)
      BY <1>3 DEF Flow, Tracked
    <3> QED  BY <1>1, <1>12, <1>17, <3>1
  <2>2. ASSUME NEW s \in 1..len + 1 PROVE s \in sentButNoAck'[n][m] \/ Got(n, m, s)'
    <3>1. s \in 1..len => s \in sentButNoAck[n][m] \/ Got(n, m, s)
      BY <1>3, <1>4 DEF Flow, Tracked, len
    <3>2. s \in 1..len \/ s = len + 1
      BY <1>6
    <3> QED  BY <1>10, <1>18, <3>1, <3>2
  <2>3. session'[n][m] = 0 /\ lastUsed'[n][m] = Len(submitted'[n][m]) + 1
    BY <1>4, <1>6, <1>10, <1>11, <1>16
  <2> QED  BY <1>16, <2>1, <2>2, <2>3 DEF Tracked
<1>20. Introduced(n, m)'
  <2>1. sentSynAck'[n][m] = {} /\ 0 \notin sentButNoAck'[n][m]
    BY <1>5, <1>6, <1>10, <1>11
  <2> QED  BY <2>1 DEF Introduced
<1>21. Flow(n, m)'
  <2>1. /\ Counted(delivered'[m][n]) /\ Len(delivered'[m][n]) = last'[m][n]
        /\ PacketsOf(buf'[m][n]) \subseteq SentData(n, m)' /\ InNumberOrder(buf'[m][n])
    BY <1>3, <1>11, <1>17 DEF Flow
  <2>2. last'[m][n] \in 0..Len(submitted'[n][m]) /\ Len(submitted'[n][m]) < HalfRange - 1
    BY <1>6, <1>9, <1>11, <1>16
  <2>3. \A q \in PacketsOf(channel'[n][m]) : q.kind = "ACK" \/ q \in SentData(n, m)'
    BY <1>3, <1>14, <1>17 DEF Flow
  <2>4. channel'[m][n] = channel[m][n]
    BY <1>1, <1>10
  <2>5. \A q \in PacketsOf(channel'[m][n]) : q.kind = "ACK" => Got(n, m, q.ack)'
    BY <1>3, <1>18, <2>4 DEF Flow
  <2> QED  BY <1>16, <1>19, <1>20, <2>1, <2>2, <2>3, <2>5 DEF Flow
<1> QED  BY <1>1, <1>3, <1>11, <1>13, <1>15, <1>21, DeliveryStep DEF Stage
(* The loop takes what is next, or throws a copy away.                     *)
LEMMA LoopFlow ==
    ASSUME DeliveryInv, TypeOK', NEW n \in Node, NEW m \in Peers(n),
           TakeNext(n, m) \/ DropStale(n, m)
    PROVE  DeliveryInv'
<1> DEFINE p == Head(buf[n][m])
           len == Len(submitted[m][n])
<1>1. TypeOK /\ m \in Node /\ n # m
  BY DEF DeliveryInv, Peers
<1>2. buf[n][m] # <<>> /\ UNCHANGED <<tracking, membership, environment, channel, submitted>>
  BY DEF TakeNext, DropStale, FrontIsNext, FrontIsStale
<1>3. announces # 0 /\ Flow(n, m) /\ Flow(m, n)
  BY <1>2, StageOfMember
<1>4. /\ len \in Nat /\ last[n][m] \in Nat /\ last[n][m] \in Numbers /\ last[n][m] <= len
      /\ len < HalfRange - 1
      /\ \A q \in SentData(m, n) :
            /\ q.kind = "DATA" /\ q.session = 0
            /\ q.seq \in 1..len /\ q.seq \in Numbers
  BY <1>1, <1>3, FlowNumbers DEF Flow
<1>5. buf[n][m] \in Seq(Packet)
  BY <1>1 DEF TypeOK
<1>6. /\ p = buf[n][m][1] /\ p \in PacketsOf(buf[n][m])
      /\ PacketsOf(Tail(buf[n][m])) \subseteq PacketsOf(buf[n][m])
      /\ \A q \in PacketsOf(buf[n][m]) : q = p \/ q \in PacketsOf(Tail(buf[n][m]))
  BY <1>2, <1>5, TailHolds
<1>7. p \in SentData(m, n)
  BY <1>3, <1>6 DEF Flow
<1>8. InNumberOrder(Tail(buf[n][m]))
  <2> DEFINE s == buf[n][m]
             t == Tail(buf[n][m])
  <2>1. /\ t \in Seq(Packet) /\ Len(t) = Len(s) - 1
        /\ \A i \in 1..Len(t) : t[i] = s[i + 1]
    BY <1>2, <1>5, HeadTailProperties
  <2>2. DOMAIN t = 1..Len(t) /\ DOMAIN s = 1..Len(s) /\ Len(s) \in Nat /\ Len(t) \in Nat
    BY <1>5, <2>1, LenProperties
  <2>3. InNumberOrder(s)
    BY <1>3 DEF Flow
  <2> HIDE DEF s, t
  <2>4. ASSUME NEW i \in 1..Len(t), NEW j \in 1..Len(t), i <= j PROVE t[i].seq <= t[j].seq
    <3>1. i + 1 \in 1..Len(s) /\ j + 1 \in 1..Len(s) /\ i + 1 <= j + 1
      BY <2>1, <2>2, <2>4
    <3>2. s[i + 1].seq <= s[j + 1].seq
      BY <2>2, <2>3, <3>1 DEF InNumberOrder
    <3> QED  BY <2>1, <3>2
  <2> QED  BY <2>2, <2>4 DEF InNumberOrder, t
<1> HIDE DEF p, len
<1>9. UNCHANGED <<lastUsed, sentButNoAck, timers, session, sentSynAck, network,
                  channel, submitted, announces>>
  BY <1>2 DEF tracking, membership, environment
<1>10. /\ buf'[n][m] = Tail(buf[n][m])
       /\ \A x, y \in Node : x # n \/ y # m => buf'[x][y] = buf[x][y]
  <2>1. buf' = [buf EXCEPT ![n][m] = Tail(@)]
    BY DEF TakeNext, DropStale
  <2> QED  BY <1>1, <2>1 DEF TypeOK
<1>11. /\ \A x, y \in Node : x # n \/ y # m =>
             last'[x][y] = last[x][y] /\ delivered'[x][y] = delivered[x][y]
       /\ last'[n][m] \in Nat /\ last'[n][m] >= last[n][m] /\ last'[n][m] <= len
       /\ p.seq <= last'[n][m]
       /\ Counted(delivered'[n][m]) /\ Len(delivered'[n][m]) = last'[n][m]
  <2>1. CASE TakeNext(n, m)
    <3>1. /\ p.seq = Succ(last[n][m])
          /\ last' = [last EXCEPT ![n][m] = p.seq]
          /\ delivered' = [delivered EXCEPT ![n][m] =
                IF p.kind = "DATA" THEN Append(@, <<p.session, p.seq>>) ELSE @]
      BY <2>1 DEF TakeNext, FrontIsNext, p
    <3>2. p.seq = last[n][m] + 1
      BY <1>4, <3>1, NumbersCompare, HalfRangeAssumption
    <3>3. p.kind = "DATA" /\ p.session = 0 /\ p.seq \in 1..len
      BY <1>4, <1>7
    <3>4. /\ last'[n][m] = last[n][m] + 1
          /\ \A x, y \in Node : x # n \/ y # m => last'[x][y] = last[x][y]
      BY <1>1, <3>1, <3>2 DEF TypeOK
    <3>5. delivered' = [delivered EXCEPT ![n][m] = Append(@, <<0, last[n][m] + 1>>)]
      BY <3>1, <3>2, <3>3
    <3>6. /\ delivered'[n][m] = Append(delivered[n][m], <<0, last[n][m] + 1>>)
          /\ \A x, y \in Node : x # n \/ y # m => delivered'[x][y] = delivered[x][y]
      BY <1>1, <3>5 DEF TypeOK
    <3> DEFINE d == delivered[n][m]
               e == delivered'[n][m]
    <3>7. d \in Seq(Nat \X Numbers) /\ <<0, last[n][m] + 1>> \in Nat \X Numbers
      <4>1. d \in Seq(Nat \X Numbers)
        <5>1. delivered \in [Node -> [Node -> Seq(Nat \X Numbers)]]
          BY <1>1 DEF TypeOK
        <5> QED  BY <1>1, <5>1
      <4>2. last[n][m] + 1 \in Numbers
        BY <1>4, <1>7, <3>2
      <4> QED  BY <4>1, <4>2
    <3>8. /\ e \in Seq(Nat \X Numbers) /\ Len(e) = Len(d) + 1
          /\ \A i \in 1..Len(d) : e[i] = d[i]
          /\ e[Len(d) + 1] = <<0, last[n][m] + 1>>
      BY <3>6, <3>7, AppendProperties
    <3>9. DOMAIN e = 1..Len(d) + 1 /\ DOMAIN d = 1..Len(d)
      BY <3>7, <3>8, LenProperties
    <3>10. Counted(d) /\ Len(d) = last[n][m]
      BY <1>3 DEF Flow
    <3> HIDE DEF d, e
    <3>11. \A i \in DOMAIN e : e[i] = <<0, i>>
      BY <1>4, <3>8, <3>9, <3>10, SMTT(30) DEF Counted
    <3>12. Counted(e) /\ Len(e) = last[n][m] + 1
      BY <3>8, <3>10, <3>11 DEF Counted
    <3>13. last[n][m] + 1 \in Nat /\ last[n][m] + 1 <= len
      BY <1>4, <3>2, <3>3
    <3> QED  BY <1>4, <3>2, <3>4, <3>6, <3>12, <3>13 DEF e
  <2>2. CASE DropStale(n, m)
    <3>1. UNCHANGED <<last, delivered>> /\ DifferenceWithWrapAround(p.seq, last[n][m]) <= 0
      BY <2>2 DEF DropStale, FrontIsStale, p
    <3>2. p.seq <= last[n][m]
      <4>1. p.seq \in Numbers /\ p.seq \in 1..len
        BY <1>4, <1>7
      <4>2. DifferenceWithWrapAround(p.seq, last[n][m]) = p.seq - last[n][m]
        BY <1>4, <4>1, NumbersCompare
      <4> QED  BY <1>4, <3>1, <4>1, <4>2
    <3> QED  BY <1>3, <1>4, <3>1, <3>2 DEF Flow
  <2> QED  BY <2>1, <2>2
<1>12. \A x, y \in Node : (x # n \/ y # m) /\ (x # m \/ y # n) => Kept(x, y)
  BY <1>9, <1>10, <1>11 DEF Kept
<1>13. Flow(n, m)'
  <2>1. /\ last'[m][n] = last[m][n] /\ buf'[m][n] = buf[m][n]
        /\ delivered'[m][n] = delivered[m][n]
    BY <1>1, <1>10, <1>11
  <2> QED  BY <1>1, <1>3, <1>9, <2>1, FlowCarried
<1>14. SentData(m, n)' = SentData(m, n)
  BY <1>9 DEF SentData
<1>15. \A s \in Int : Got(m, n, s) => Got(m, n, s)'
  <2> SUFFICES ASSUME NEW s \in Int, Got(m, n, s) PROVE Got(m, n, s)'
    OBVIOUS
  <2>1. CASE s <= last[n][m]
    <3>1. s <= last'[n][m]
      BY <1>4, <1>11, <2>1
    <3> QED  BY <3>1 DEF Got
  <2>2. ASSUME NEW q \in PacketsOf(buf[n][m]), q.seq = s PROVE Got(m, n, s)'
    BY <1>6, <1>10, <1>11, <2>2 DEF Got
  <2> QED  BY <2>1, <2>2 DEF Got
<1>16. Flow(m, n)'
  <2>1. Tracked(m, n)'
    <3>1. \A s \in 1..len : s \in Int
      BY <1>4
    <3> QED  BY <1>3, <1>9, <1>14, <1>15, <3>1 DEF Flow, Tracked, len
  <2>2. Introduced(m, n)'
    BY <1>3, <1>9 DEF Flow, Introduced
  <2>3. /\ PacketsOf(buf'[n][m]) \subseteq SentData(m, n)'
        /\ InNumberOrder(buf'[n][m])
    BY <1>3, <1>6, <1>8, <1>10, <1>14 DEF Flow
  <2>4. \A q \in PacketsOf(channel'[m][n]) : q.kind = "ACK" \/ q \in SentData(m, n)'
    BY <1>3, <1>9, <1>14 DEF Flow
  <2>5. \A q \in PacketsOf(channel'[n][m]) : q.kind = "ACK" => Got(m, n, q.ack)'
    <3>1. \A q \in PacketsOf(channel[n][m]) : q.ack \in Int
      <4>1. channel[n][m] \in Seq(Packet)
        BY <1>1 DEF TypeOK
      <4>2. \A q \in PacketsOf(channel[n][m]) : q \in Packet
        BY <4>1, LenProperties, ElementOfSeq DEF PacketsOf
      <4> QED  BY <4>2, HalfRangeAssumption DEF Packet, Numbers
    <3> QED  BY <1>3, <1>9, <1>15, <3>1 DEF Flow
  <2>6. last'[n][m] \in 0..Len(submitted'[m][n]) /\ Len(submitted'[m][n]) < HalfRange - 1
    BY <1>4, <1>9, <1>11 DEF len
  <2>7. Counted(submitted'[m][n])
    BY <1>3, <1>9 DEF Flow
  <2> QED  BY <1>11, <2>1, <2>2, <2>3, <2>4, <2>5, <2>6, <2>7 DEF Flow
<1> QED  BY <1>1, <1>3, <1>9, <1>12, <1>13, <1>16, DeliveryStep DEF Stage
(* Data that arrives is got, and acknowledged.                             *)
LEMMA ReceiveDataFlow ==
    ASSUME DeliveryInv, TypeOK', NEW n \in Node, NEW m \in Peers(n),
           NEW k \in DOMAIN channel[m][n], ReceiveData(n, m, k)
    PROVE  DeliveryInv'
<1> DEFINE p == channel[m][n][k]
           b == buf'[n][m]
<1>1. TypeOK /\ m \in Node /\ n # m
  BY DEF DeliveryInv, Peers
<1>2. k \in 1..Len(channel[m][n]) /\ p \in Packet /\ p \in PacketsOf(channel[m][n])
  BY <1>1, ReceivedPacket
<1>3. p.kind = "DATA"
  BY DEF ReceiveData, Receivable
<1>4. announces # 0 /\ Flow(n, m) /\ Flow(m, n)
  BY <1>2, <1>3, StageOfPacket
<1>5. p \in SentData(m, n)
  BY <1>2, <1>3, <1>4 DEF Flow
<1>6. /\ last[n][m] \in Nat /\ last[n][m] \in Numbers
      /\ p.seq \in Numbers
  BY <1>1, <1>4, <1>5, FlowNumbers
<1>7. last[n][m] # NoSeq
  BY <1>6, NumberFacts
<1>8. /\ Consume(n, m, k, <<Ack(p)>>)
      /\ \E o \in OnData(last[n][m], buf[n][m], p) :
            buf' = [buf EXCEPT ![n][m] = o.buf]
  BY <1>7 DEF ReceiveData
<1>9. UNCHANGED <<lastUsed, sentButNoAck, timers, session, sentSynAck, network,
                  last, delivered, submitted, announces>>
  BY DEF ReceiveData, tracking, membership, environment
<1>10. Ack(p).kind = "ACK" /\ Ack(p).ack = p.seq /\ Ack(p).re = "DATA" /\ Ack(p) \in Packet
  BY <1>2, <1>3, PacketTypes, NumberFacts DEF Ack
<1> HIDE DEF p
<1>11. \A x, y \in Node : x # n \/ y # m => buf'[x][y] = buf[x][y]
  BY <1>1, <1>8 DEF TypeOK
<1>12. /\ PacketsOf(b) \subseteq PacketsOf(buf[n][m]) \cup {p}
       /\ PacketsOf(buf[n][m]) \subseteq PacketsOf(b)
       /\ p.seq <= last[n][m] \/ p \in PacketsOf(b)
       /\ InNumberOrder(b)
  <2>1. PICK o \in OnData(last[n][m], buf[n][m], p) : buf' = [buf EXCEPT ![n][m] = o.buf]
    BY <1>8
  <2>2. b = o.buf
    BY <1>1, <2>1 DEF TypeOK
  <2>3. o \in Buffered(last[n][m], buf[n][m], p)
    BY <1>7 DEF OnData
  <2>4. buf[n][m] \in Seq(Packet) /\ InNumberOrder(buf[n][m])
    BY <1>1, <1>4 DEF TypeOK, Flow
  <2>5. DifferenceWithWrapAround(p.seq, last[n][m]) = p.seq - last[n][m]
    BY <1>6, NumbersCompare
  <2> HIDE DEF b
  <2>6. CASE p.seq > last[n][m]
    <3>1. PICK c \in Inserted(buf[n][m], p) : o = Keep(last[n][m], c)
      BY <1>6, <2>3, <2>5, <2>6, HalfRangeAssumption DEF Buffered, Numbers
    <3>2. o.buf = c
      BY <3>1 DEF Keep
    <3>3. PacketsOf(c) = PacketsOf(buf[n][m]) \cup {p} /\ InNumberOrder(c)
      BY <1>2, <2>4, InsertedHolds
    <3> QED  BY <2>2, <3>2, <3>3
  <2>7. CASE p.seq <= last[n][m]
    <3>1. o = Keep(last[n][m], buf[n][m])
      BY <1>6, <2>3, <2>5, <2>7, HalfRangeAssumption DEF Buffered, Numbers
    <3>2. o.buf = buf[n][m]
      BY <3>1 DEF Keep
    <3> QED  BY <2>2, <2>4, <2>7, <3>2
  <2>8. p.seq \in Int /\ last[n][m] \in Int
    BY <1>6, HalfRangeAssumption DEF Numbers
  <2> QED  BY <2>6, <2>7, <2>8
<1>13. /\ channel'[m][n] = RemoveAt(channel[m][n], k)
       /\ channel'[n][m] = channel[n][m] \o <<Ack(p)>>
       /\ \A x, y \in Node : (x # n \/ y # m) /\ (x # m \/ y # n) =>
             channel'[x][y] = channel[x][y]
  BY <1>1, <1>8, ConsumeChannels, SMTT(30)
<1>14. /\ PacketsOf(channel'[m][n]) \subseteq PacketsOf(channel[m][n])
       /\ \A q \in PacketsOf(channel[m][n]) : q # p => q \in PacketsOf(channel'[m][n])
  <2>1. channel[m][n] \in Seq(Packet)
    BY <1>1 DEF TypeOK
  <2> QED  BY <1>2, <1>13, <2>1, RemoveAtKeeps DEF p
<1>15. PacketsOf(channel'[n][m]) = PacketsOf(channel[n][m]) \cup {Ack(p)}
  <2>1. channel[n][m] \in Seq(Packet)
    BY <1>1 DEF TypeOK
  <2>2. channel'[n][m] = Append(channel[n][m], Ack(p))
    BY <1>10, <1>13, <2>1, ConcatOne
  <2> QED  BY <1>10, <2>1, <2>2, AppendHolds
<1>16. \A x, y \in Node : (x # n \/ y # m) /\ (x # m \/ y # n) => Kept(x, y)
  BY <1>9, <1>11, <1>13 DEF Kept
<1> HIDE DEF b
<1>17. Flow(n, m)'
  <2>1. buf'[m][n] = buf[m][n]
    BY <1>1, <1>11
  <2>2. Flow(n, m)
    BY <1>4
  <2>3. \A q \in PacketsOf(channel'[n][m]) :
           q \in PacketsOf(channel[n][m]) \/ q.kind = "ACK" \/ q \in SentData(n, m)
    BY <1>10, <1>15
  <2>4. \A q \in PacketsOf(channel'[m][n]) :
           q \in PacketsOf(channel[m][n]) \/ q.kind # "ACK" \/ Got(n, m, q.ack)
    BY <1>14
  <2>5. \A q \in PacketsOf(channel[m][n]) :
           q.kind = "ACK" /\ q.re = "SYNACK" => q \in PacketsOf(channel'[m][n])
    BY <1>3, <1>14
  <2> QED  BY <1>1, <1>9, <2>1, <2>2, <2>3, <2>4, <2>5, FlowCarried
<1>18. SentData(m, n)' = SentData(m, n)
  BY <1>9 DEF SentData
<1>19. \A s : Got(m, n, s) => Got(m, n, s)'
  BY <1>9, <1>12 DEF Got, b
<1>20. \A s : s = p.seq => Got(m, n, s)'
  BY <1>9, <1>12 DEF Got, b
<1>21. Flow(m, n)'
  <2>1. Tracked(m, n)'
    BY <1>4, <1>9, <1>18, <1>19 DEF Flow, Tracked
  <2>2. Introduced(m, n)'
    BY <1>4, <1>9, <1>15 DEF Flow, Introduced
  <2>3. PacketsOf(buf'[n][m]) \subseteq SentData(m, n)' /\ InNumberOrder(buf'[n][m])
    BY <1>4, <1>5, <1>12, <1>18 DEF Flow, b
  <2>4. \A q \in PacketsOf(channel'[m][n]) : q.kind = "ACK" \/ q \in SentData(m, n)'
    BY <1>4, <1>14, <1>18 DEF Flow
  <2>5. \A q \in PacketsOf(channel'[n][m]) : q.kind = "ACK" => Got(m, n, q.ack)'
    BY <1>4, <1>10, <1>15, <1>19, <1>20 DEF Flow
  <2>6. /\ Len(submitted'[m][n]) < HalfRange - 1
        /\ Counted(submitted'[m][n]) /\ Counted(delivered'[n][m])
        /\ last'[n][m] \in 0..Len(submitted'[m][n]) /\ Len(delivered'[n][m]) = last'[n][m]
    BY <1>4, <1>9 DEF Flow
  <2> QED  BY <2>1, <2>2, <2>3, <2>4, <2>5, <2>6 DEF Flow
<1> QED  BY <1>1, <1>4, <1>9, <1>16, <1>17, <1>21, DeliveryStep DEF Stage

(* An ACK is for what the other node has got.                              *)
LEMMA ReceiveAckFlow ==
    ASSUME DeliveryInv, TypeOK', NEW n \in Node, NEW m \in Peers(n),
           NEW k \in DOMAIN channel[m][n], ReceiveAck(n, m, k)
    PROVE  DeliveryInv'
<1> DEFINE p == channel[m][n][k]
<1>1. TypeOK /\ m \in Node /\ n # m
  BY DEF DeliveryInv, Peers
<1>2. k \in 1..Len(channel[m][n]) /\ p \in Packet /\ p \in PacketsOf(channel[m][n])
  BY <1>1, ReceivedPacket
<1>3. p.kind = "ACK"
  BY DEF ReceiveAck, Receivable
<1>4. announces # 0 /\ Flow(n, m) /\ Flow(m, n)
  BY <1>2, <1>3, StageOfPacket
<1>5. Got(n, m, p.ack)
  BY <1>2, <1>3, <1>4 DEF Flow
<1>6. /\ Consume(n, m, k, <<>>)
      /\ network' = [network EXCEPT ![n] =
            IF p.ack \in sentSynAck[n][m] THEN @ \cup {m} ELSE @]
      /\ sentSynAck' = [sentSynAck EXCEPT ![n][m] = @ \ {p.ack}]
      /\ sentButNoAck' = [sentButNoAck EXCEPT ![n][m] = @ \ {p.ack}]
      /\ UNCHANGED <<lastUsed, timers, session, last, buf, delivered, submitted, announces>>
  BY DEF ReceiveAck, ordering, environment
<1> HIDE DEF p
<1>7. /\ channel'[m][n] = RemoveAt(channel[m][n], k)
      /\ channel'[n][m] = channel[n][m]
      /\ \A x, y \in Node : (x # n \/ y # m) /\ (x # m \/ y # n) =>
            channel'[x][y] = channel[x][y]
  <2>1. channel[n][m] \in Seq(Packet)
    BY <1>1 DEF TypeOK
  <2>2. channel[n][m] \o <<>> = channel[n][m]
    BY <2>1, ConcatEmptySeq
  <2>3. Consume(n, m, k, <<>>)
    BY <1>6
  <2>4. /\ channel'[m][n] = RemoveAt(channel[m][n], k)
        /\ channel'[n][m] = channel[n][m] \o <<>>
        /\ \A x, y \in Node : (x # n \/ y # m) /\ (x # m \/ y # n) =>
              channel'[x][y] = channel[x][y]
    BY <1>1, <2>3, ConsumeChannels
  <2> QED  BY <2>2, <2>4
<1>8. /\ PacketsOf(channel'[m][n]) \subseteq PacketsOf(channel[m][n])
      /\ \A q \in PacketsOf(channel[m][n]) : q # p => q \in PacketsOf(channel'[m][n])
  <2>1. channel[m][n] \in Seq(Packet)
    BY <1>1 DEF TypeOK
  <2> QED  BY <1>2, <1>7, <2>1, RemoveAtKeeps DEF p
<1>9. /\ sentButNoAck'[n][m] = sentButNoAck[n][m] \ {p.ack}
      /\ sentSynAck'[n][m] = sentSynAck[n][m] \ {p.ack}
      /\ \A x, y \in Node : x # n \/ y # m =>
            sentButNoAck'[x][y] = sentButNoAck[x][y] /\ sentSynAck'[x][y] = sentSynAck[x][y]
  <2>1. /\ sentButNoAck'[n][m] = sentButNoAck[n][m] \ {p.ack}
        /\ \A x, y \in Node : x # n \/ y # m => sentButNoAck'[x][y] = sentButNoAck[x][y]
    BY <1>1, <1>6 DEF TypeOK
  <2>2. /\ sentSynAck'[n][m] = sentSynAck[n][m] \ {p.ack}
        /\ \A x, y \in Node : x # n \/ y # m => sentSynAck'[x][y] = sentSynAck[x][y]
    BY <1>1, <1>6 DEF TypeOK
  <2> QED  BY <2>1, <2>2
<1>10. /\ \A x, y \in Node : x # n \/ y # m => (y \in network'[x] <=> y \in network[x])
       /\ m \in network'[n] => m \in network[n] \/ p.ack \in sentSynAck[n][m]
  <2>1. network \in [Node -> SUBSET Node]
    BY <1>1 DEF TypeOK
  <2>2. \A x \in Node : network'[x] =
           IF x = n /\ p.ack \in sentSynAck[n][m] THEN network[x] \cup {m} ELSE network[x]
    BY <1>6, <2>1
  <2> QED  BY <2>2
<1>11. \A x, y \in Node : (x # n \/ y # m) /\ (x # m \/ y # n) => Kept(x, y)
  BY <1>6, <1>7, <1>9, <1>10 DEF Kept
<1>12. Flow(m, n)'
  <2>1. sentButNoAck'[m][n] = sentButNoAck[m][n] /\ sentSynAck'[m][n] = sentSynAck[m][n]
    BY <1>1, <1>9
  <2>2. n \in network'[m] <=> n \in network[m]
    BY <1>1, <1>10
  <2>3. Flow(m, n)
    BY <1>4
  <2> QED  BY <1>1, <1>6, <1>7, <1>8, <2>1, <2>2, <2>3, FlowCarried
<1>13. SentData(n, m)' = SentData(n, m)
  BY <1>6 DEF SentData
<1>14. \A s : Got(n, m, s) <=> Got(n, m, s)'
  BY <1>6 DEF Got
<1>15. Introduced(n, m)'
  <2>1. CASE sentSynAck[n][m] = {} /\ 0 \notin sentButNoAck[n][m]
    BY <1>9, <2>1 DEF Introduced
  <2>2. ASSUME sentSynAck[n][m] = {0}, sentButNoAck[n][m] = {0}, m \notin network[n],
               NEW q \in PacketsOf(channel[m][n]),
               q.kind = "ACK" /\ q.re = "SYNACK" /\ q.ack = 0
        PROVE  Introduced(n, m)'
    <3>1. CASE p.ack = 0
      BY <1>9, <2>2, <3>1 DEF Introduced
    <3>2. CASE p.ack # 0
      <4>1. q \in PacketsOf(channel'[m][n])
        BY <1>8, <2>2, <3>2
      <4>2. m \notin network'[n] /\ sentSynAck'[n][m] = {0} /\ sentButNoAck'[n][m] = {0}
        BY <1>9, <1>10, <2>2, <3>2
      <4> QED  BY <2>2, <4>1, <4>2 DEF Introduced
    <3> QED  BY <3>1, <3>2
  <2> QED  BY <1>4, <2>1, <2>2 DEF Flow, Introduced
<1>16. Tracked(n, m)'
  <2>1. \A t \in timers'[n] : t.to = m => OfHandshake(t.packet) \/ t.packet \in SentData(n, m)'
    BY <1>4, <1>6, <1>13 DEF Flow, Tracked
  <2>2. session'[n][m] = 0 =>
          /\ lastUsed'[n][m] = Len(submitted'[n][m]) + 1
          /\ \A s \in 1..Len(submitted'[n][m]) : s \in sentButNoAck'[n][m] \/ Got(n, m, s)'
    BY <1>4, <1>5, <1>6, <1>9, <1>14 DEF Flow, Tracked
  <2>3. ASSUME session'[n][m] # 0
        PROVE  m \notin network'[n] /\ sentButNoAck'[n][m] = {}
    <3>1. m \notin network[n] /\ sentButNoAck[n][m] = {}
      BY <1>4, <1>6, <2>3 DEF Flow, Tracked
    <3>2. sentSynAck[n][m] = {}
      BY <1>4, <3>1 DEF Flow, Introduced
    <3> QED  BY <1>9, <1>10, <3>1, <3>2
  <2> QED  BY <2>1, <2>2, <2>3 DEF Tracked
<1>17. Flow(n, m)'
  <2>1. \A q \in PacketsOf(channel'[n][m]) : q.kind = "ACK" \/ q \in SentData(n, m)'
    BY <1>4, <1>7, <1>13 DEF Flow
  <2>2. \A q \in PacketsOf(channel'[m][n]) : q.kind = "ACK" => Got(n, m, q.ack)'
    BY <1>4, <1>8, <1>14 DEF Flow
  <2>3. PacketsOf(buf'[m][n]) \subseteq SentData(n, m)' /\ InNumberOrder(buf'[m][n])
    BY <1>4, <1>6, <1>13 DEF Flow
  <2>4. /\ Len(submitted'[n][m]) < HalfRange - 1
        /\ Counted(submitted'[n][m]) /\ Counted(delivered'[m][n])
        /\ last'[m][n] \in 0..Len(submitted'[n][m]) /\ Len(delivered'[m][n]) = last'[m][n]
    BY <1>4, <1>6 DEF Flow
  <2> QED  BY <1>15, <1>16, <2>1, <2>2, <2>3, <2>4 DEF Flow
<1> QED  BY <1>1, <1>4, <1>6, <1>11, <1>12, <1>17, DeliveryStep DEF Stage
(* A loss: of data, or of an ACK of data, or of the announce.              *)
LEMMA LoseFlow ==
    ASSUME DeliveryInv, TypeOK', HandshakeArrives, NEW n \in Node, NEW m \in Peers(n),
           NEW k \in DOMAIN channel[m][n], Lose(m, n, k)
    PROVE  DeliveryInv'
<1> DEFINE p == channel[m][n][k]
<1>1. TypeOK /\ m \in Node /\ n # m
  BY DEF DeliveryInv, Peers
<1>2. k \in 1..Len(channel[m][n]) /\ p \in Packet /\ p \in PacketsOf(channel[m][n])
  BY <1>1, ReceivedPacket
<1>3. /\ <<p.kind, p.re>> \in Lossy
      /\ channel' = [channel EXCEPT ![m][n] = RemoveAt(@, k)]
      /\ UNCHANGED <<lastUsed, sentButNoAck, timers, session, sentSynAck, network,
                     last, buf, delivered, submitted, announces>>
  BY DEF Lose, tracking, membership, ordering
<1>4. p.kind = "SYN" => p.re = "ANN"
  <2>1. p.kind = "SYN" => Answered(n, m)
    BY <1>2, StageOfPacket
  <2>2. ASSUME Answered(n, m) PROVE p = Syn(0, 0)
    <3>1. channel[m][n] = <<Syn(0, 0)>>
      BY <2>2 DEF Answered
    <3> QED  BY <3>1, RemoveOnly
  <2> QED  BY <2>1, <2>2 DEF Syn
<1>5. p.kind = "SYNACK" => p.re = "SYN"
  <2>1. p.kind = "SYNACK" => Accepted(m, n)
    BY <1>2, StageOfPacket
  <2>2. ASSUME Accepted(m, n) PROVE p = SynAck(0, 0, 0)
    <3>1. channel[m][n] = <<SynAck(0, 0, 0)>>
      BY <2>2 DEF Accepted
    <3> QED  BY <3>1, RemoveOnly
  <2> QED  BY <2>1, <2>2 DEF SynAck
<1>6. ~(p.kind = "SYN") /\ ~(p.kind = "SYNACK") /\ ~(p.kind = "ACK" /\ p.re = "SYNACK")
  BY <1>3, <1>4, <1>5 DEF HandshakeArrives
<1>7. announces # 0 /\ (Announced(m, n) \/ (Flow(n, m) /\ Flow(m, n)))
  <2>1. p.kind \in {"ANN", "ACK", "DATA"}
    BY <1>2, <1>6 DEF Packet
  <2> QED  BY <1>2, <2>1, StageOfPacket
<1> HIDE DEF p
<1>8. /\ channel'[m][n] = RemoveAt(channel[m][n], k)
      /\ \A x, y \in Node : x # m \/ y # n => channel'[x][y] = channel[x][y]
  BY <1>1, <1>3 DEF TypeOK
<1>9. \A x, y \in Node : (x # n \/ y # m) /\ (x # m \/ y # n) => Kept(x, y)
  BY <1>3, <1>8 DEF Kept
<1>10. CASE Announced(m, n)
  <2>1. Untouched(m, n) /\ Untouched(n, m)
        /\ channel[m][n] = <<Announcement>> /\ channel[n][m] = <<>>
    BY <1>10 DEF Announced
  <2>2. channel'[m][n] = <<>> /\ channel'[n][m] = <<>>
    BY <1>1, <1>8, <2>1, RemoveOnly
  <2>3. Untouched(m, n)' /\ Untouched(n, m)'
    BY <1>3, <2>1 DEF Untouched, Strange
  <2>4. Silent(n, m)'
    BY <2>2, <2>3 DEF Silent
  <2> QED  BY <1>1, <1>3, <1>7, <1>9, <2>4, DeliveryStep DEF Stage
<1>11. CASE Flow(n, m) /\ Flow(m, n)
  <2>1. /\ PacketsOf(channel'[m][n]) \subseteq PacketsOf(channel[m][n])
        /\ \A q \in PacketsOf(channel[m][n]) : q # p => q \in PacketsOf(channel'[m][n])
    <3>1. channel[m][n] \in Seq(Packet)
      BY <1>1 DEF TypeOK
    <3> QED  BY <1>2, <1>8, <3>1, RemoveAtKeeps DEF p
  <2>2. channel'[n][m] = channel[n][m]
    BY <1>1, <1>8
  <2>3. Flow(m, n)'
    BY <1>1, <1>3, <1>11, <2>1, <2>2, FlowCarried
  <2>4. Flow(n, m)'
    <3>1. \A q \in PacketsOf(channel[m][n]) :
             q.kind = "ACK" /\ q.re = "SYNACK" => q \in PacketsOf(channel'[m][n])
      BY <1>6, <2>1
    <3> QED  BY <1>1, <1>3, <1>11, <2>1, <2>2, <3>1, FlowCarried
  <2> QED  BY <1>1, <1>3, <1>7, <1>9, <2>3, <2>4, DeliveryStep DEF Stage
<1> QED  BY <1>7, <1>10, <1>11

(* A timer that has nothing to do goes.                                    *)
LEMMA ExpireFlow ==
    ASSUME DeliveryInv, TypeOK', NEW n \in Node, NEW t \in timers[n], Expire(n, t)
    PROVE  DeliveryInv'
<1>1. UNCHANGED <<lastUsed, sentButNoAck, session, sentSynAck, network,
                  last, buf, delivered, channel, submitted, announces>>
  BY DEF Expire, membership, ordering, environment
<1>2. \A x \in Node : timers'[x] \subseteq timers[x]
  <2>1. timers \in [Node -> SUBSET Task] /\ timers' = [timers EXCEPT ![n] = @ \ {t}]
    BY DEF DeliveryInv, TypeOK, Expire
  <2> QED  BY <2>1
<1>3. \A x, y \in Node : Kept(x, y)
  BY <1>1, <1>2 DEF Kept
<1>4. \A x \in Node : \A y \in Peers(x) : Stage(x, y)' \/ Stage(y, x)'
  <2> SUFFICES ASSUME NEW x \in Node, NEW y \in Peers(x)
               PROVE  Stage(x, y)' \/ Stage(y, x)'
    OBVIOUS
  <2>1. y \in Node /\ (Stage(x, y) \/ Stage(y, x))
    BY DEF Peers, DeliveryInv
  <2> QED  BY <1>3, <2>1, StageKept
<1>5. announces' = 0 => \A x \in Node : \A y \in Peers(x) : Silent(x, y)'
  <2> SUFFICES ASSUME announces' = 0, NEW x \in Node, NEW y \in Peers(x)
               PROVE  Silent(x, y)'
    OBVIOUS
  <2>1. y \in Node /\ Silent(x, y)
    BY <1>1 DEF Peers, DeliveryInv
  <2> QED  BY <1>3, <2>1, SilentKept
<1>6. \A x \in Node : /\ submitted'[x][x] = <<>> /\ delivered'[x][x] = <<>>
                      /\ \A u \in timers'[x] : u.to # x
  BY <1>1, <1>2 DEF DeliveryInv
<1> QED  BY <1>4, <1>5, <1>6 DEF DeliveryInv

(* A copy is sent of data that was sent before.                            *)
LEMMA RetransmitFlow ==
    ASSUME DeliveryInv, TypeOK', Hello \subseteq Patient, NEW n \in Node, NEW t \in timers[n],
           Retransmit(n, t)
    PROVE  DeliveryInv'
<1> DEFINE m == t.to
           p == t.packet
<1>1. TypeOK  BY DEF DeliveryInv
<1>2. /\ announces # 0 /\ m \in Peers(n)
      /\ Flow(n, m) /\ Flow(m, n) /\ p \in SentData(n, m)
  BY StageOfTimer DEF Retransmit
<1>3. m \in Node /\ n # m
  BY <1>2 DEF Peers
<1>4. p.kind = "DATA" /\ p \in Packet
  BY <1>1, <1>2, <1>3, FlowNumbers
<1>5. /\ channel' = [channel EXCEPT ![n][m] = Append(@, p)]
      /\ UNCHANGED <<lastUsed, sentButNoAck, session, sentSynAck, network,
                     last, buf, delivered, submitted, announces>>
  BY DEF Retransmit, membership, ordering, environment
<1>6. \A x, y \in Node : \A u \in timers'[x] :
         /\ u.to = y => u \in timers[x] \/ (x = n /\ y = m)
         /\ \E v \in timers[x] : v.to = u.to /\ v.packet = u.packet
  <2> DEFINE again == [t EXCEPT !.retries = t.retries - 1]
  <2>1. timers \in [Node -> SUBSET Task] /\ timers' = [timers EXCEPT ![n] = (@ \ {t}) \cup {again}]
    BY <1>1 DEF TypeOK, Retransmit
  <2>2. \A x \in Node : timers'[x] = IF x = n THEN (timers[x] \ {t}) \cup {again} ELSE timers[x]
    BY <2>1
  <2>3. again.to = m /\ again.packet = p
    BY <2>1 DEF Task
  <2> HIDE DEF again
  <2> QED  BY <2>2, <2>3
<1> HIDE DEF m, p
<1>7. /\ channel'[n][m] = Append(channel[n][m], p)
      /\ \A x, y \in Node : x # n \/ y # m => channel'[x][y] = channel[x][y]
  BY <1>1, <1>3, <1>5 DEF TypeOK
<1>8. PacketsOf(channel'[n][m]) = PacketsOf(channel[n][m]) \cup {p}
  <2>1. channel[n][m] \in Seq(Packet)
    BY <1>1, <1>3 DEF TypeOK
  <2> QED  BY <1>4, <1>7, <2>1, AppendHolds
<1>9. \A x, y \in Node : (x # n \/ y # m) /\ (x # m \/ y # n) => Kept(x, y)
  BY <1>5, <1>6, <1>7 DEF Kept
<1>10. channel'[m][n] = channel[m][n]
  BY <1>3, <1>7
<1>11. \A x, y \in Node : \A u \in timers'[x] :
          u.to = y => \E v \in timers[x] : v.to = y /\ v.packet = u.packet
  BY <1>6
<1>12. Flow(n, m)'
  <2>1. \A q \in PacketsOf(channel'[n][m]) :
           q \in PacketsOf(channel[n][m]) \/ q.kind = "ACK" \/ q \in SentData(n, m)
    BY <1>2, <1>8
  <2> QED  BY <1>2, <1>3, <1>5, <1>10, <1>11, <2>1, FlowCarried
<1>13. Flow(m, n)'
  <2>1. \A q \in PacketsOf(channel'[n][m]) :
           q \in PacketsOf(channel[n][m]) \/ q.kind # "ACK" \/ Got(m, n, q.ack)
    BY <1>4, <1>8
  <2>2. \A q \in PacketsOf(channel[n][m]) : q \in PacketsOf(channel'[n][m])
    BY <1>8
  <2> QED  BY <1>2, <1>3, <1>5, <1>10, <1>11, <2>1, <2>2, FlowCarried
<1> QED  BY <1>2, <1>3, <1>5, <1>9, <1>12, <1>13, DeliveryStep DEF Stage

(* Nothing is sent any more to a node that was given up.                   *)
LEMMA GiveUpFlow ==
    ASSUME DeliveryInv, TypeOK', Hello \subseteq Patient, NEW n \in Node, NEW t \in timers[n],
           GiveUp(n, t)
    PROVE  DeliveryInv'
<1> DEFINE m == t.to
<1>1. TypeOK  BY DEF DeliveryInv
<1>2. /\ announces # 0 /\ m \in Peers(n)
      /\ Flow(n, m) /\ Flow(m, n) /\ sentSynAck[n][m] = {}
  BY StageOfTimer DEF GiveUp
<1>3. m \in Node /\ n # m
  BY <1>2 DEF Peers
<1>4. /\ timers' = [timers EXCEPT ![n] = @ \ {t}]
      /\ sentButNoAck' = [sentButNoAck EXCEPT ![n][m] = {}]
      /\ lastUsed' = [lastUsed EXCEPT ![n][m] = 0]
      /\ network' = [network EXCEPT ![n] = @ \ {m}]
      /\ session' = [session EXCEPT ![n][m] = @ + 1]
      /\ UNCHANGED <<sentSynAck, last, buf, delivered, channel, submitted, announces>>
  BY DEF GiveUp, ordering, environment
<1> HIDE DEF m
<1>5. \A x \in Node : timers'[x] \subseteq timers[x]
  BY <1>1, <1>4 DEF TypeOK
<1>6. /\ sentButNoAck'[n][m] = {} /\ session'[n][m] # 0
      /\ \A x, y \in Node : x # n \/ y # m =>
            /\ sentButNoAck'[x][y] = sentButNoAck[x][y]
            /\ lastUsed'[x][y] = lastUsed[x][y] /\ session'[x][y] = session[x][y]
  <2>1. /\ sentButNoAck'[n][m] = {}
        /\ \A x, y \in Node : x # n \/ y # m => sentButNoAck'[x][y] = sentButNoAck[x][y]
    BY <1>1, <1>3, <1>4, Put DEF TypeOK
  <2>2. \A x, y \in Node : x # n \/ y # m => lastUsed'[x][y] = lastUsed[x][y]
    BY <1>1, <1>3, <1>4, Put DEF TypeOK
  <2>3. /\ session'[n][m] = session[n][m] + 1 /\ session[n][m] \in Nat
        /\ \A x, y \in Node : x # n \/ y # m => session'[x][y] = session[x][y]
    BY <1>1, <1>3, <1>4, SMTT(30) DEF TypeOK
  <2> QED  BY <2>1, <2>2, <2>3
<1>7. /\ m \notin network'[n]
      /\ \A x, y \in Node : x # n \/ y # m => (y \in network'[x] <=> y \in network[x])
  <2>1. network \in [Node -> SUBSET Node]
    BY <1>1 DEF TypeOK
  <2>2. \A x \in Node : network'[x] = IF x = n THEN network[x] \ {m} ELSE network[x]
    BY <1>4, <2>1
  <2> QED  BY <2>2
<1>8. \A x, y \in Node : (x # n \/ y # m) /\ (x # m \/ y # n) => Kept(x, y)
  BY <1>4, <1>5, <1>6, <1>7 DEF Kept
<1>9. Flow(m, n)'
  <2>1. /\ sentButNoAck'[m][n] = sentButNoAck[m][n] /\ lastUsed'[m][n] = lastUsed[m][n]
        /\ session'[m][n] = session[m][n] /\ (n \in network'[m] <=> n \in network[m])
    BY <1>3, <1>6, <1>7
  <2> QED  BY <1>2, <1>3, <1>4, <1>5, <2>1, FlowCarried
<1>10. SentData(n, m)' = SentData(n, m)
  BY <1>4 DEF SentData
<1>11. \A s : Got(n, m, s) <=> Got(n, m, s)'
  BY <1>4 DEF Got
<1>12. Tracked(n, m)'
  BY <1>2, <1>3, <1>5, <1>6, <1>7, <1>10 DEF Tracked, Flow
<1>13. Introduced(n, m)'
  BY <1>2, <1>4, <1>6 DEF Introduced
<1>14. Flow(n, m)'
  <2>1. \A q \in PacketsOf(channel'[n][m]) : q.kind = "ACK" \/ q \in SentData(n, m)'
    BY <1>2, <1>4, <1>10 DEF Flow
  <2>2. \A q \in PacketsOf(channel'[m][n]) : q.kind = "ACK" => Got(n, m, q.ack)'
    BY <1>2, <1>4, <1>11 DEF Flow
  <2>3. PacketsOf(buf'[m][n]) \subseteq SentData(n, m)' /\ InNumberOrder(buf'[m][n])
    BY <1>2, <1>4, <1>10 DEF Flow
  <2>4. /\ Len(submitted'[n][m]) < HalfRange - 1
        /\ Counted(submitted'[n][m]) /\ Counted(delivered'[m][n])
        /\ last'[m][n] \in 0..Len(submitted'[n][m]) /\ Len(delivered'[m][n]) = last'[m][n]
    BY <1>2, <1>4 DEF Flow
  <2> QED  BY <1>12, <1>13, <2>1, <2>2, <2>3, <2>4 DEF Flow
<1> QED  BY <1>2, <1>3, <1>4, <1>8, <1>9, <1>14, DeliveryStep DEF Stage

----------------------------------------------------------------------------
LEMMA DeliveryInit == Init => DeliveryInv
<1> SUFFICES ASSUME Init PROVE DeliveryInv
  OBVIOUS
<1>1. TypeOK
  BY TypeInit
<1>2. \A n, m \in Node : Untouched(n, m) /\ channel[n][m] = <<>>
  BY DEF Init, Untouched, Strange
<1>3. \A n \in Node : \A m \in Peers(n) : Silent(n, m)
  BY <1>2 DEF Silent, Peers
<1>4. \A n \in Node : /\ submitted[n][n] = <<>> /\ delivered[n][n] = <<>>
                      /\ \A t \in timers[n] : t.to # n
  BY DEF Init
<1> QED  BY <1>1, <1>3, <1>4 DEF DeliveryInv, Stage

LEMMA DeliveryNext ==
    ASSUME HandshakeArrives
    PROVE  DeliveryInv /\ [Next]_vars => DeliveryInv'
<1> SUFFICES ASSUME DeliveryInv, [Next]_vars PROVE DeliveryInv'
  OBVIOUS
<1>1. TypeOK'
  BY TypeNext DEF DeliveryInv
<1>2. Hello \subseteq Patient /\ MaxAnnounce <= 1
  BY DEF HandshakeArrives
<1>3. CASE UNCHANGED vars
  <2>1. UNCHANGED <<lastUsed, sentButNoAck, timers, session, sentSynAck, network, last, buf,
                    delivered, channel, submitted, announces>>
    BY <1>3 DEF vars, tracking, membership, ordering, environment
  <2>2. \A x, y \in Node : Kept(x, y)
    BY <2>1 DEF Kept
  <2>3. \A x \in Node : \A y \in Peers(x) : Stage(x, y)' \/ Stage(y, x)'
    <3> SUFFICES ASSUME NEW x \in Node, NEW y \in Peers(x)
                 PROVE  Stage(x, y)' \/ Stage(y, x)'
      OBVIOUS
    <3>1. y \in Node /\ (Stage(x, y) \/ Stage(y, x))
      BY DEF Peers, DeliveryInv
    <3> QED  BY <2>2, <3>1, StageKept
  <2>4. announces' = 0 => \A x \in Node : \A y \in Peers(x) : Silent(x, y)'
    <3> SUFFICES ASSUME announces' = 0, NEW x \in Node, NEW y \in Peers(x)
                 PROVE  Silent(x, y)'
      OBVIOUS
    <3>1. y \in Node /\ Silent(x, y)
      BY <2>1 DEF Peers, DeliveryInv
    <3> QED  BY <2>2, <3>1, SilentKept
  <2>5. \A x \in Node : /\ submitted'[x][x] = <<>> /\ delivered'[x][x] = <<>>
                        /\ \A u \in timers'[x] : u.to # x
    BY <2>1 DEF DeliveryInv
  <2> QED  BY <1>1, <2>3, <2>4, <2>5 DEF DeliveryInv
<1>4. CASE \E n \in Node : Announce(n)
  BY <1>1, <1>2, <1>4, AnnounceDelivery
<1>5. CASE \E n \in Node : \E t \in timers[n] :
              Expire(n, t) \/ Retransmit(n, t) \/ GiveUp(n, t)
  BY <1>1, <1>2, <1>5, ExpireFlow, RetransmitFlow, GiveUpFlow
<1>6. CASE \E n \in Node : \E m \in Peers(n) :
              SendData(n, m) \/ TakeNext(n, m) \/ DropStale(n, m)
  BY <1>1, <1>6, SendDataFlow, LoopFlow
<1>7. CASE \E n \in Node : \E m \in Peers(n) : \E k \in DOMAIN channel[m][n] :
              \/ ReceiveAnnounce(n, m, k)
              \/ ReceiveSyn(n, m, k)
              \/ ReceiveSynAck(n, m, k)
              \/ ReceiveAck(n, m, k)
              \/ ReceiveData(n, m, k)
              \/ Lose(m, n, k)
  BY <1>1, <1>7, ReceiveAnnounceDelivery, ReceiveSynDelivery, ReceiveSynAckDelivery,
     ReceiveAckFlow, ReceiveDataFlow, LoseFlow
<1> QED  BY <1>3, <1>4, <1>5, <1>6, <1>7 DEF Next

(* Nothing was sent, or it flows.                                          *)
LEMMA SentMeansFlow ==
    ASSUME DeliveryInv, NEW n \in Node, NEW m \in Node
    PROVE  \/ submitted[m][n] = <<>> /\ delivered[n][m] = <<>>
           \/ n # m /\ Flow(m, n)
<1>1. CASE n = m
  BY <1>1 DEF DeliveryInv
<1>2. CASE n # m
  <2>1. m \in Peers(n) /\ (Stage(n, m) \/ Stage(m, n))
    BY <1>2 DEF Peers, DeliveryInv
  <2>2. Strange(n, m) /\ Strange(m, n) => submitted[m][n] = <<>> /\ delivered[n][m] = <<>>
    BY DEF Strange
  <2> QED  BY <1>2, <2>1, <2>2
           DEF Stage, Silent, Announced, Answered, Accepted, Untouched, Opened
<1> QED  BY <1>1, <1>2

LEMMA DeliveryOrder == DeliveryInv => InOrder
<1> SUFFICES ASSUME DeliveryInv, NEW n \in Node, NEW m \in Node
             PROVE  IsPrefix(delivered[n][m], submitted[m][n])
  BY DEF InOrder
<1> DEFINE d == delivered[n][m]
           s == submitted[m][n]
<1>1. d \in Seq(Nat \X Numbers) /\ s \in Seq(Nat \X Numbers)
  <2>1. /\ delivered \in [Node -> [Node -> Seq(Nat \X Numbers)]]
        /\ submitted \in [Node -> [Node -> Seq(Nat \X Numbers)]]
    BY DEF DeliveryInv, TypeOK
  <2> QED  BY <2>1
<1>2. Len(d) \in Nat /\ DOMAIN d = 1..Len(d) /\ Len(s) \in Nat /\ DOMAIN s = 1..Len(s)
  BY <1>1, LenProperties
<1>3. CASE s = <<>> /\ d = <<>>
  <2>1. Len(d) <= Len(s) /\ \A i \in 1..Len(d) : d[i] = s[i]
    BY <1>3
  <2>2. SubSeq(s, 1, Len(d)) = d
    BY <1>3, SubSeqEmpty
  <2> QED  BY <2>1, <2>2 DEF IsPrefix
<1>4. CASE Flow(m, n)
  <2>1. Counted(d) /\ Counted(s) /\ Len(d) <= Len(s)
    BY <1>2, <1>4 DEF Flow
  <2> HIDE DEF d, s
  <2>2. \A i \in 1..Len(d) : d[i] = s[i]
    BY <1>2, <2>1 DEF Counted
  <2>3. \A i \in 1..Len(d) : s[i] \in Nat \X Numbers
    <3>1. \A i \in 1..Len(s) : s[i] \in Nat \X Numbers
      BY <1>1, ElementOfSeq
    <3> QED  BY <1>2, <2>1, <3>1
  <2>4. /\ SubSeq(s, 1, Len(d)) \in Seq(Nat \X Numbers)
        /\ Len(SubSeq(s, 1, Len(d))) = IF 1 <= Len(d) THEN Len(d) - 1 + 1 ELSE 0
        /\ \A i \in 1..Len(d) - 1 + 1 : SubSeq(s, 1, Len(d))[i] = s[1 + i - 1]
    BY <1>2, <2>3, SubSeqProperties
  <2> DEFINE u == SubSeq(s, 1, Len(d))
  <2>5. u \in Seq(Nat \X Numbers) /\ Len(u) = Len(d) /\ \A i \in 1..Len(d) : u[i] = d[i]
    <3> HIDE DEF u
    <3> QED  BY <1>2, <2>2, <2>4 DEF u
  <2>6. u = d
    <3> HIDE DEF u
    <3> QED  BY <1>1, <2>5, SeqEqual
  <2>7. IsPrefix(d, s)
    BY <2>1, <2>6 DEF IsPrefix
  <2> QED  BY <2>7 DEF d, s
<1> QED  BY <1>3, <1>4, SentMeansFlow

(* In a quiet network all is acknowledged, so all was got; and what is got *)
(* and still in the buffer would be taken.                                 *)
LEMMA DeliveryWhole == DeliveryInv /\ RetransmissionPending => NothingLost
<1> SUFFICES ASSUME DeliveryInv, RetransmissionPending, Quiet,
                    NEW n \in Node, NEW m \in Node, session[m][n] = 0
             PROVE  Len(delivered[n][m]) >= Len(submitted[m][n])
  BY DEF NothingLost
<1>1. CASE submitted[m][n] = <<>> /\ delivered[n][m] = <<>>
  BY <1>1
<1>2. CASE n # m /\ Flow(m, n)
  <2> DEFINE len == Len(submitted[m][n])
             l == last[n][m]
             s == buf[n][m]
  <2>1. TypeOK /\ Flow(m, n)
    BY <1>2 DEF DeliveryInv
  <2>2. /\ len \in Nat /\ l \in Nat /\ l \in Numbers /\ l <= len /\ len < HalfRange - 1
        /\ \A q \in SentData(m, n) : q.seq \in Numbers
    BY <2>1, FlowNumbers DEF Flow
  <2>3. sentButNoAck[m][n] = {}
    BY DEF RetransmissionPending, Quiet
  <2>4. \A i \in 1..len : Got(m, n, i)
    BY <2>1, <2>3 DEF Flow, Tracked
  <2>5. ~Draining(l, s)
    BY DEF Quiet, Idle
  <2>6. Len(delivered[n][m]) = l
    BY <2>1 DEF Flow
  <2>7. s \in Seq(Packet) /\ PacketsOf(s) \subseteq SentData(m, n) /\ InNumberOrder(s)
    BY <2>1 DEF Flow, TypeOK
  <2>8. Got(m, n, l + 1) => l + 1 <= l \/ \E q \in PacketsOf(s) : q.seq = l + 1
    BY DEF Got
  <2> HIDE DEF len, l, s
  <2>9. SUFFICES ASSUME l < len PROVE FALSE
    BY <2>2, <2>6 DEF len
  <2>10. PICK q \in PacketsOf(s) : q.seq = l + 1
    <3>1. l + 1 \in 1..len /\ ~(l + 1 <= l)
      BY <2>2, <2>9
    <3> QED  BY <2>4, <2>8, <3>1
  <2>11. s # <<>> /\ DOMAIN s = 1..Len(s) /\ Len(s) \in Nat \ {0}
    BY <2>7, <2>10, LenProperties, EmptySeq DEF PacketsOf
  <2>12. Head(s) \in PacketsOf(s) /\ Head(s) = s[1]
    BY <2>7, <2>11, TailHolds
  <2>13. Head(s).seq \in Numbers /\ Head(s).seq <= l + 1
    <3>1. PICK i \in DOMAIN s : q = s[i]
      BY DEF PacketsOf
    <3>2. s[1].seq <= s[i].seq
      BY <2>7, <2>11, <3>1 DEF InNumberOrder
    <3> QED  BY <2>2, <2>7, <2>10, <2>12, <3>1, <3>2
  <2>14. Succ(l) = l + 1
    BY <2>2, <2>9, NumbersCompare, HalfRangeAssumption
  <2>15. CASE Head(s).seq = l + 1
    BY <2>5, <2>11, <2>14, <2>15 DEF Draining, FrontIsNext
  <2>16. CASE Head(s).seq <= l
    <3>1. DifferenceWithWrapAround(Head(s).seq, l) = Head(s).seq - l
      BY <2>2, <2>13, NumbersCompare
    <3>2. Head(s).seq - l <= 0
      BY <2>2, <2>13, <2>16, HalfRangeAssumption DEF Numbers
    <3> QED  BY <2>5, <2>11, <3>1, <3>2 DEF Draining, FrontIsStale
  <2> QED  BY <2>2, <2>13, <2>15, <2>16, HalfRangeAssumption DEF Numbers
<1> QED  BY <1>1, <1>2, SentMeansFlow

(* The application gets the data of a peer in the order it was sent, none  *)
(* twice: on any number of nodes, however often data and its ACKs overtake *)
(* each other, get lost or are sent again, and whoever is given up.        *)
THEOREM DataIsInOrder ==
    ASSUME HandshakeArrives
    PROVE  Spec => []InOrder
<1>1. DeliveryInv /\ [Next]_vars => DeliveryInv'
  BY DeliveryNext
<1> QED  BY <1>1, DeliveryInit, DeliveryOrder, PTL DEF Spec

(* When nothing is under way, everything has been delivered that was sent  *)
(* to a node that was not given up.                                        *)
THEOREM DataIsWhole ==
    ASSUME HandshakeArrives
    PROVE  Spec => []NothingLost
<1>1. DeliveryInv /\ [Next]_vars => DeliveryInv'
  BY DeliveryNext
<1>2. TrackInv => RetransmissionPending
  BY DEF TrackInv
<1> QED  BY <1>1, <1>2, DeliveryInit, DeliveryWhole, TrackInit, TrackNext, PTL DEF Spec

----------------------------------------------------------------------------
(***************************************************************************)
(* Delivery with any number of announces.  Every announce that is heard    *)
(* starts another handshake, whose SYN and SYN-ACK take numbers of the     *)
(* stream of data.  When these hellos keep their place, are not lost, and  *)
(* their timers are patient, then each comes to its receiver once and with *)
(* a number beyond all that came before, is never taken for a restart, and *)
(* two nodes that have not given each other up get each other's data in    *)
(* order and whole.  Announces, data and ACKs may overtake each other, and *)
(* be lost as often as they like, except for the ACKs of SYN-ACKs.  Data   *)
(* may be sent again while its ACK is on its way.                          *)
(***************************************************************************)

HellosInPlace ==
    /\ Hello \subseteq Patient
    /\ Overtaking \cap Hello = {}
    /\ \A l \in Lossy : l[1] \notin Hello /\ l # <<"ACK", "SYNACK">>

(* The stream from m to n: C is the channel from m to n, R the one back, U *)
(* the next number, D the data m submitted, S what m has no ACK for, L and *)
(* B the last number in order and the buffer of n, d the data delivered, T *)
(* the packets m has timers for.                                           *)
DataNumbers(D) == {D[i][2] : i \in DOMAIN D}

Has(L, B, s) ==
    \/ L # NoSeq /\ s <= L
    \/ \E q \in PacketsOf(B) : q.seq = s

OfStream(U, D, q) ==
    /\ q.seq < U
    /\ \/ q.kind = "DATA" /\ q.session = 0 /\ q.seq \in DataNumbers(D)
       \/ q.kind \in Hello /\ q.seq \notin DataNumbers(D)

(* A hello in a channel has a number beyond all that are before it.        *)
HellosGrow(C) ==
    \A i, j \in DOMAIN C :
        i < j /\ C[j].kind \in Hello /\ C[i].kind \notin {"ANN", "ACK"} => C[i].seq < C[j].seq

Typed(C, R, U, D, S, L, B, d, T) ==
    /\ C \in Seq(Packet) /\ R \in Seq(Packet) /\ B \in Seq(Packet)
    /\ D \in Seq(Nat \X Numbers) /\ d \in Seq(Nat \X Numbers)
    /\ U \in Numbers /\ L \in Numbers \cup {NoSeq}
    /\ S \in SUBSET Numbers /\ T \in SUBSET Packet

Submissions(U, D, L, d) ==
    /\ \A i \in DOMAIN D : D[i][1] = 0 /\ D[i][2] < U
    /\ \A i, j \in DOMAIN D : i < j => D[i][2] < D[j][2]
    /\ Len(d) <= Len(D) /\ \A i \in DOMAIN d : d[i] = D[i]
    /\ \A i \in DOMAIN D : i <= Len(d) <=> (L # NoSeq /\ D[i][2] <= L)

Reception(U, D, L, B) ==
    /\ IF L = NoSeq THEN D = <<>> /\ B = <<>> ELSE L < U
    /\ InNumberOrder(B)
    /\ \A q \in PacketsOf(B) : OfStream(U, D, q)

Coming(C, U, D, L, B) ==
    /\ \A q \in PacketsOf(C) : q.kind \in {"ANN", "ACK"} \/ OfStream(U, D, q)
    /\ HellosGrow(C)
    /\ \A q \in PacketsOf(C) : q.kind \in Hello =>
          /\ L # NoSeq => L < q.seq
          /\ \A c \in PacketsOf(B) : c.seq < q.seq

Acknowledged(R, L, B) ==
    \A q \in PacketsOf(R) : q.kind \in {"SYNACK", "ACK"} => Has(L, B, q.ack)

Accounted(C, U, D, S, L, B) ==
    \A s \in Numbers : s < U =>
        \/ Has(L, B, s)
        \/ s \in DataNumbers(D) /\ s \in S
        \/ \E q \in PacketsOf(C) : q.kind \in Hello /\ q.seq = s

AnswerTo(q, s) == q.ack = s /\ (q.kind = "SYNACK" \/ (q.kind = "ACK" /\ q.re = "SYNACK"))

Waiting(C, R, U, D, S, T) ==
    \A p \in T :
        /\ OfStream(U, D, p)
        /\ p.kind \in Hello /\ p.seq \in S =>
              \/ p \in PacketsOf(C)
              \/ \E q \in PacketsOf(R) : AnswerTo(q, p.seq)

Sound(C, R, U, D, S, L, B, d, T) ==
    /\ Typed(C, R, U, D, S, L, B, d, T)
    /\ Submissions(U, D, L, d)
    /\ Reception(U, D, L, B)
    /\ Coming(C, U, D, L, B)
    /\ Acknowledged(R, L, B)
    /\ Accounted(C, U, D, S, L, B)
    /\ Waiting(C, R, U, D, S, T)

----------------------------------------------------------------------------
(* Sequences of packets.                                                   *)

LEMMA RemoveAtPlaces ==
    ASSUME NEW S, NEW s \in Seq(S), NEW k \in 1..Len(s)
    PROVE  /\ RemoveAt(s, k) \in Seq(S) /\ DOMAIN RemoveAt(s, k) = 1..Len(s) - 1
           /\ \A i \in 1..Len(s) - 1 : RemoveAt(s, k)[i] = s[IF i < k THEN i ELSE i + 1]
<1> DEFINE f == SubSeq(s, 1, k - 1)
           g == SubSeq(s, k + 1, Len(s))
<1>1. /\ k \in Int /\ Len(s) \in Nat /\ DOMAIN s = 1..Len(s)
      /\ \A i \in 1..Len(s) : s[i] \in S
  BY LenProperties, ElementOfSeq
<1>2. /\ f \in Seq(S) /\ Len(f) = k - 1
      /\ \A i \in 1..k - 1 : f[i] = s[i]
  <2>1. \A i \in 1..k - 1 : s[i] \in S
    BY <1>1
  <2> HIDE DEF f
  <2>2. /\ f \in Seq(S)
        /\ Len(f) = IF 1 <= k - 1 THEN k - 1 - 1 + 1 ELSE 0
        /\ \A i \in 1..k - 1 - 1 + 1 : f[i] = s[1 + i - 1]
    BY <1>1, <2>1, SubSeqProperties DEF f
  <2> QED  BY <1>1, <2>2
<1>3. /\ g \in Seq(S) /\ Len(g) = Len(s) - k
      /\ \A i \in 1..Len(s) - k : g[i] = s[k + i]
  <2>1. \A i \in k + 1..Len(s) : s[i] \in S
    BY <1>1
  <2> HIDE DEF g
  <2>2. /\ g \in Seq(S)
        /\ Len(g) = IF k + 1 <= Len(s) THEN Len(s) - (k + 1) + 1 ELSE 0
        /\ \A i \in 1..Len(s) - (k + 1) + 1 : g[i] = s[k + 1 + i - 1]
    BY <1>1, <2>1, SubSeqProperties DEF g
  <2>3. /\ Len(s) - (k + 1) + 1 = Len(s) - k
        /\ \A i \in 1..Len(s) - k : k + 1 + i - 1 = k + i
    BY <1>1
  <2>4. ASSUME NEW i \in 1..Len(s) - k PROVE g[i] = s[k + i]
    BY <2>2, <2>3
  <2>5. Len(g) = Len(s) - k
    <3>1. CASE k + 1 <= Len(s)
      BY <2>2, <2>3, <3>1
    <3>2. CASE ~(k + 1 <= Len(s))
      <4>1. Len(s) - k = 0
        <5>1. k \in Int /\ Len(s) \in Int /\ k <= Len(s)
          BY <1>1
        <5> QED  BY <5>1, <3>2
      <4> QED  BY <2>2, <3>2, <4>1
    <3> QED  BY <3>1, <3>2
  <2> QED  BY <2>2, <2>4, <2>5
<1>4. RemoveAt(s, k) = f \o g
  BY DEF RemoveAt
<1> HIDE DEF f, g
<1> DEFINE r == f \o g
<1>5. /\ r \in Seq(S) /\ Len(r) = Len(f) + Len(g)
      /\ \A i \in 1..Len(f) + Len(g) : r[i] = IF i <= Len(f) THEN f[i] ELSE g[i - Len(f)]
  BY <1>2, <1>3, ConcatProperties
<1> HIDE DEF r
<1>6. DOMAIN r = 1..Len(s) - 1
  BY <1>1, <1>2, <1>3, <1>5, LenProperties
<1>7. \A i \in 1..Len(s) - 1 : r[i] = s[IF i < k THEN i ELSE i + 1]
  <2> SUFFICES ASSUME NEW i \in 1..Len(s) - 1
               PROVE  r[i] = s[IF i < k THEN i ELSE i + 1]
    OBVIOUS
  <2>1. Len(f) + Len(g) = Len(s) - 1
    BY <1>1, <1>2, <1>3
  <2>2. r[i] = IF i <= Len(f) THEN f[i] ELSE g[i - Len(f)]
    BY <1>5, <2>1
  <2>3. CASE i < k
    BY <1>1, <1>2, <2>2, <2>3
  <2>4. CASE i >= k
    <3>1. i - Len(f) \in 1..Len(s) - k /\ k + (i - Len(f)) = i + 1 /\ ~(i <= Len(f))
      BY <1>1, <1>2, <2>4
    <3>2. g[i - Len(f)] = s[k + (i - Len(f))]
      BY <1>3, <3>1
    <3> QED  BY <2>2, <2>4, <3>1, <3>2, <1>1
  <2> QED  BY <1>1, <2>3, <2>4
<1> QED  BY <1>4, <1>5, <1>6, <1>7 DEF r

(* What a channel holds without its k-th packet.                           *)
LEMMA RemovedHolds ==
    ASSUME NEW s \in Seq(Packet), NEW k \in 1..Len(s)
    PROVE  /\ RemoveAt(s, k) \in Seq(Packet)
           /\ PacketsOf(RemoveAt(s, k)) \subseteq PacketsOf(s)
           /\ s[k] \in PacketsOf(s) /\ s[k] \in Packet
           /\ \A q \in PacketsOf(s) : q # s[k] => q \in PacketsOf(RemoveAt(s, k))
           /\ \A q \in PacketsOf(RemoveAt(s, k)) : \E j \in DOMAIN s : j # k /\ q = s[j]
           /\ HellosGrow(s) => HellosGrow(RemoveAt(s, k))
<1> DEFINE r == RemoveAt(s, k)
           at == [i \in 1..Len(s) - 1 |-> IF i < k THEN i ELSE i + 1]
<1>1. /\ r \in Seq(Packet) /\ DOMAIN r = 1..Len(s) - 1
      /\ \A i \in 1..Len(s) - 1 : r[i] = s[IF i < k THEN i ELSE i + 1]
  BY RemoveAtPlaces
<1>2. /\ DOMAIN s = 1..Len(s) /\ Len(s) \in Nat /\ k \in Int
      /\ \A i \in 1..Len(s) : s[i] \in Packet
  BY LenProperties, ElementOfSeq
<1>3. /\ \A i \in DOMAIN r : at[i] \in DOMAIN s /\ at[i] # k /\ r[i] = s[at[i]]
      /\ \A i, j \in DOMAIN r : i < j => at[i] < at[j]
  <2> HIDE DEF r
  <2> QED  BY <1>1, <1>2
<1>4. PacketsOf(r) \subseteq PacketsOf(s) /\ \A q \in PacketsOf(s) : q # s[k] => q \in PacketsOf(r)
  BY RemoveAtKeeps
<1>5. s[k] \in PacketsOf(s) /\ s[k] \in Packet
  BY <1>2 DEF PacketsOf
<1> HIDE DEF r, at
<1>6. ASSUME NEW q \in PacketsOf(r) PROVE \E j \in DOMAIN s : j # k /\ q = s[j]
  BY <1>3 DEF PacketsOf
<1>7. ASSUME HellosGrow(s) PROVE HellosGrow(r)
  BY <1>3, <1>7 DEF HellosGrow
<1> QED  BY <1>1, <1>4, <1>5, <1>6, <1>7 DEF r

(* What a channel holds with one packet more.                              *)
LEMMA AppendedHolds ==
    ASSUME NEW s \in Seq(Packet), NEW p \in Packet
    PROVE  /\ Append(s, p) \in Seq(Packet)
           /\ PacketsOf(Append(s, p)) = PacketsOf(s) \cup {p}
           /\ HellosGrow(s) /\ (p.kind \in Hello =>
                   \A q \in PacketsOf(s) : q.kind \in {"ANN", "ACK"} \/ q.seq < p.seq)
              => HellosGrow(Append(s, p))
<1> DEFINE a == Append(s, p)
<1>1. /\ a \in Seq(Packet) /\ Len(a) = Len(s) + 1
      /\ \A i \in 1..Len(s) : a[i] = s[i]
      /\ a[Len(s) + 1] = p
  BY AppendProperties
<1>2. DOMAIN a = 1..Len(s) + 1 /\ DOMAIN s = 1..Len(s) /\ Len(s) \in Nat
  BY <1>1, LenProperties
<1>3. PacketsOf(a) = PacketsOf(s) \cup {p}
  BY AppendHolds
<1> HIDE DEF a
<1>4. ASSUME HellosGrow(s), p.kind \in Hello =>
                \A q \in PacketsOf(s) : q.kind \in {"ANN", "ACK"} \/ q.seq < p.seq,
             NEW i \in DOMAIN a, NEW j \in DOMAIN a,
             i < j, a[j].kind \in Hello, a[i].kind \notin {"ANN", "ACK"}
      PROVE  a[i].seq < a[j].seq
  <2>1. i \in 1..Len(s) /\ a[i] = s[i]
    BY <1>1, <1>2, <1>4
  <2>2. CASE j \in 1..Len(s)
    BY <1>1, <1>2, <1>4, <2>1, <2>2 DEF HellosGrow
  <2>3. CASE j = Len(s) + 1
    <3>1. a[j] = p /\ s[i] \in PacketsOf(s)
      BY <1>1, <1>2, <2>1, <2>3 DEF PacketsOf
    <3> QED  BY <1>4, <2>1, <3>1
  <2> QED  BY <1>2, <2>2, <2>3
<1>5. HellosGrow(s) /\ (p.kind \in Hello =>
                   \A q \in PacketsOf(s) : q.kind \in {"ANN", "ACK"} \/ q.seq < p.seq)
              => HellosGrow(a)
  BY <1>4 DEF HellosGrow
<1> QED  BY <1>1, <1>3, <1>5 DEF a

----------------------------------------------------------------------------
(* What can happen to a stream, one thing at a time.  First to the channel *)
(* it comes through.                                                       *)

(* An announce, an ACK or data is added.                                   *)
LEMMA TrafficAdded ==
    ASSUME NEW C, NEW R, NEW U, NEW D, NEW S, NEW L, NEW B, NEW d, NEW T,
           Sound(C, R, U, D, S, L, B, d, T), NEW q \in Packet,
           q.kind \in {"ANN", "ACK"} \/ (q.kind = "DATA" /\ OfStream(U, D, q))
    PROVE  Sound(Append(C, q), R, U, D, S, L, B, d, T)
<1> DEFINE E == Append(C, q)
<1>1. C \in Seq(Packet) /\ HellosGrow(C) /\ q.kind \notin Hello
  BY DEF Sound, Typed, Coming, Hello
<1>2. E \in Seq(Packet) /\ PacketsOf(E) = PacketsOf(C) \cup {q} /\ HellosGrow(E)
  BY <1>1, AppendedHolds
<1> HIDE DEF E
<1>3. Typed(E, R, U, D, S, L, B, d, T)
  BY <1>2 DEF Sound, Typed
<1>4. Coming(E, U, D, L, B)
  BY <1>1, <1>2 DEF Sound, Coming
<1>5. Accounted(E, U, D, S, L, B)
  BY <1>2 DEF Sound, Accounted
<1>6. Waiting(E, R, U, D, S, T)
  BY <1>2 DEF Sound, Waiting
<1> QED  BY <1>3, <1>4, <1>5, <1>6 DEF Sound, E

(* Anything but a hello leaves it.                                         *)
LEMMA TrafficGone ==
    ASSUME NEW C, NEW R, NEW U, NEW D, NEW S, NEW L, NEW B, NEW d, NEW T,
           Sound(C, R, U, D, S, L, B, d, T), NEW k \in 1..Len(C), C[k].kind \notin Hello
    PROVE  Sound(RemoveAt(C, k), R, U, D, S, L, B, d, T)
<1> DEFINE E == RemoveAt(C, k)
<1>1. C \in Seq(Packet) /\ HellosGrow(C)
  BY DEF Sound, Typed, Coming
<1>2. /\ E \in Seq(Packet) /\ PacketsOf(E) \subseteq PacketsOf(C) /\ HellosGrow(E)
      /\ \A q \in PacketsOf(C) : q.kind \in Hello => q \in PacketsOf(E)
  BY <1>1, RemovedHolds
<1> HIDE DEF E
<1>3. Typed(E, R, U, D, S, L, B, d, T)
  BY <1>2 DEF Sound, Typed
<1>4. Coming(E, U, D, L, B)
  BY <1>2 DEF Sound, Coming
<1>5. Accounted(E, U, D, S, L, B)
  BY <1>2 DEF Sound, Accounted
<1>6. Waiting(E, R, U, D, S, T)
  BY <1>2 DEF Sound, Waiting
<1> QED  BY <1>3, <1>4, <1>5, <1>6 DEF Sound, E

(* Numbers as integers.                                                    *)
LEMMA StreamNumbers ==
    ASSUME NEW C, NEW R, NEW U, NEW D, NEW S, NEW L, NEW B, NEW d, NEW T,
           Typed(C, R, U, D, S, L, B, d, T)
    PROVE  /\ HalfRange \in Int /\ NoSeq = HalfRange /\ U \in Numbers /\ U \in Int
           /\ L \in Int /\ (L # NoSeq => L \in Numbers)
           /\ \A s \in Numbers : s \in Int /\ 0 <= s /\ s < HalfRange
           /\ \A q \in PacketsOf(C) \cup PacketsOf(R) \cup PacketsOf(B) \cup T :
                 q \in Packet /\ q.seq \in Numbers /\ q.ack \in Numbers /\ q.seq \in Int
           /\ DOMAIN D = 1..Len(D) /\ Len(D) \in Nat
           /\ DOMAIN d = 1..Len(d) /\ Len(d) \in Nat
           /\ \A i \in DOMAIN D : D[i] \in Nat \X Numbers /\ D[i][2] \in Numbers /\ D[i][2] \in Int
<1>1. \A s \in Numbers : s \in Int /\ 0 <= s /\ s < HalfRange
  BY HalfRangeAssumption DEF Numbers
<1>2. /\ HalfRange \in Int /\ NoSeq = HalfRange
      /\ U \in Numbers /\ L \in Numbers \cup {NoSeq}
  BY HalfRangeAssumption DEF NoSeq, Typed
<1>3. DOMAIN D = 1..Len(D) /\ Len(D) \in Nat /\ DOMAIN d = 1..Len(d) /\ Len(d) \in Nat
  BY LenProperties DEF Typed
<1>4. \A i \in DOMAIN D : D[i] \in Nat \X Numbers
  BY ElementOfSeq, <1>3 DEF Typed
<1>5. \A i \in DOMAIN D : D[i][2] \in Numbers
  BY <1>4
<1>6. ASSUME NEW s \in Seq(Packet), NEW q \in PacketsOf(s) PROVE q \in Packet
  <2>1. PICK i \in DOMAIN s : q = s[i]
    BY DEF PacketsOf
  <2> QED  BY <2>1, LenProperties, ElementOfSeq
<1>7. \A q \in PacketsOf(C) \cup PacketsOf(R) \cup PacketsOf(B) \cup T : q \in Packet
  BY <1>6 DEF Typed
<1>8. \A q \in Packet : q.seq \in Numbers /\ q.ack \in Numbers
  BY DEF Packet
<1> QED  BY <1>1, <1>2, <1>3, <1>4, <1>5, <1>7, <1>8

(* A packet with a number of its own is sent: a hello, or data to a node   *)
(* that has seen one.                                                      *)
LEMMA NumberedAdded ==
    ASSUME NEW C, NEW R, NEW U, NEW D, NEW S, NEW L, NEW B, NEW d, NEW T,
           Sound(C, R, U, D, S, L, B, d, T), NEW q \in Packet, U + 1 \in Numbers,
           q.seq = U, NEW E,
           \/ q.kind \in Hello /\ E = D
           \/ /\ q.kind = "DATA" /\ q.session = 0 /\ E = Append(D, <<0, U>>)
              /\ L # NoSeq,
           NEW V \in SUBSET Packet, V \subseteq T \cup {q}
    PROVE  Sound(Append(C, q), R, U + 1, E, S \cup {U}, L, B, d, V)
<1> DEFINE F == Append(C, q)
<1>1. /\ Typed(C, R, U, D, S, L, B, d, T) /\ Submissions(U, D, L, d)
      /\ Reception(U, D, L, B) /\ Coming(C, U, D, L, B)
  BY DEF Sound
<1>2. /\ HalfRange \in Int /\ NoSeq = HalfRange /\ U \in Numbers /\ U \in Int
      /\ L \in Int /\ (L # NoSeq => L \in Numbers)
      /\ \A s \in Numbers : s \in Int
      /\ \A p \in PacketsOf(C) \cup PacketsOf(R) \cup PacketsOf(B) \cup T :
            p \in Packet /\ p.seq \in Numbers /\ p.seq \in Int
      /\ DOMAIN D = 1..Len(D) /\ Len(D) \in Nat
      /\ DOMAIN d = 1..Len(d) /\ Len(d) \in Nat
      /\ \A i \in DOMAIN D : D[i][2] \in Numbers /\ D[i][2] \in Int
  BY <1>1, StreamNumbers
<1>3. /\ F \in Seq(Packet) /\ PacketsOf(F) = PacketsOf(C) \cup {q} /\ HellosGrow(F)
  <2>1. C \in Seq(Packet) /\ HellosGrow(C)
    BY <1>1 DEF Typed, Coming
  <2>2. \A p \in PacketsOf(C) : p.kind \in {"ANN", "ACK"} \/ p.seq < q.seq
    BY <1>1 DEF Coming, OfStream
  <2> QED  BY <2>1, <2>2, AppendedHolds
<1> HIDE DEF F
<1>4. /\ E \in Seq(Nat \X Numbers)
      /\ DOMAIN E = 1..Len(E)
      /\ \/ E = D /\ q.kind \in Hello
         \/ /\ Len(E) = Len(D) + 1 /\ E[Len(E)] = <<0, U>> /\ L # NoSeq
            /\ q.kind = "DATA" /\ q.session = 0
      /\ \A i \in DOMAIN D : i \in DOMAIN E /\ E[i] = D[i]
  <2>1. D \in Seq(Nat \X Numbers) /\ <<0, U>> \in Nat \X Numbers
    BY <1>1, <1>2 DEF Typed
  <2>2. CASE E = D /\ q.kind \in Hello
    BY <1>2, <2>1, <2>2
  <2>3. CASE q.kind = "DATA" /\ q.session = 0 /\ E = Append(D, <<0, U>>) /\ L # NoSeq
    <3>1. /\ E \in Seq(Nat \X Numbers) /\ Len(E) = Len(D) + 1
          /\ \A i \in 1..Len(D) : E[i] = D[i]
          /\ E[Len(D) + 1] = <<0, U>>
      BY <2>1, <2>3, AppendProperties
    <3>2. DOMAIN E = 1..Len(E)
      BY <3>1, LenProperties
    <3>3. \A i \in DOMAIN D : i \in DOMAIN E /\ E[i] = D[i]
      BY <1>2, <3>1, <3>2
    <3> QED  BY <2>3, <3>1, <3>2, <3>3
  <2> QED  BY <2>2, <2>3
<1>5. \A i \in DOMAIN E :
         \/ i \in DOMAIN D /\ E[i] = D[i]
         \/ i = Len(D) + 1 /\ E[i][1] = 0 /\ E[i][2] = U /\ L # NoSeq
  <2> SUFFICES ASSUME NEW i \in DOMAIN E
               PROVE  \/ i \in DOMAIN D /\ E[i] = D[i]
                      \/ i = Len(D) + 1 /\ E[i][1] = 0 /\ E[i][2] = U /\ L # NoSeq
    OBVIOUS
  <2>1. CASE E = D
    BY <2>1
  <2>2. CASE Len(E) = Len(D) + 1 /\ E[Len(E)] = <<0, U>> /\ L # NoSeq
    <3>1. i \in 1..Len(D) \/ i = Len(E)
      BY <1>2, <1>4, <2>2
    <3>2. CASE i \in 1..Len(D)
      BY <1>2, <1>4, <3>2
    <3>3. CASE i = Len(E)
      BY <2>2, <3>3
    <3> QED  BY <3>1, <3>2, <3>3
  <2> QED  BY <1>4, <2>1, <2>2
<1>6. \A i \in DOMAIN D : D[i][1] = 0 /\ D[i][2] < U /\ D[i][2] \in Int
  BY <1>1, <1>2 DEF Submissions
<1>7. /\ DataNumbers(D) \subseteq DataNumbers(E)
      /\ \A s \in DataNumbers(E) : s \in DataNumbers(D) \/ (s = U /\ q.kind = "DATA")
      /\ q.kind = "DATA" => U \in DataNumbers(E)
      /\ q.kind \in Hello => U \notin DataNumbers(E)
  <2>1. CASE E = D /\ q.kind \in Hello
    <3>1. U \notin DataNumbers(D)
      BY <1>2, <1>6 DEF DataNumbers
    <3> QED  BY <2>1, <3>1 DEF Hello
  <2>2. CASE /\ Len(E) = Len(D) + 1 /\ E[Len(E)] = <<0, U>> /\ L # NoSeq
             /\ q.kind = "DATA" /\ q.session = 0
    <3>1. DataNumbers(D) \subseteq DataNumbers(E)
      BY <1>4 DEF DataNumbers
    <3>2. \A s \in DataNumbers(E) : s \in DataNumbers(D) \/ s = U
      BY <1>4, <1>5, <2>2 DEF DataNumbers
    <3>3. U \in DataNumbers(E)
      <4>1. Len(E) \in DOMAIN E /\ E[Len(E)][2] = U
        BY <1>2, <1>4, <2>2
      <4> QED  BY <4>1 DEF DataNumbers
    <3> QED  BY <2>2, <3>1, <3>2, <3>3 DEF Hello
  <2> QED  BY <1>4, <2>1, <2>2
<1>8. ASSUME NEW p \in Packet, OfStream(U, D, p) PROVE OfStream(U + 1, E, p)
  <2>1. p.seq < U /\ p.seq \in Int
    BY <1>2, <1>8 DEF OfStream, Packet
  <2>2. p.seq < U + 1 /\ p.seq # U
    BY <1>2, <2>1
  <2> QED  BY <1>7, <1>8, <2>2 DEF OfStream
<1>9. OfStream(U + 1, E, q)
  <2>1. q.kind \in Hello \/ (q.kind = "DATA" /\ q.session = 0)
    BY <1>4
  <2>2. q.seq < U + 1
    BY <1>2
  <2> QED  BY <1>7, <2>1, <2>2 DEF OfStream
<1>10. Typed(F, R, U + 1, E, S \cup {U}, L, B, d, V)
  BY <1>1, <1>2, <1>3, <1>4 DEF Typed
<1>11. Submissions(U + 1, E, L, d)
  <2>0. /\ \A i, j \in DOMAIN D : i < j => D[i][2] < D[j][2]
        /\ Len(d) <= Len(D) /\ \A i \in DOMAIN d : d[i] = D[i]
        /\ \A i \in DOMAIN D : i <= Len(d) <=> (L # NoSeq /\ D[i][2] <= L)
    BY <1>1 DEF Submissions
  <2>1. \A i \in DOMAIN E : E[i][1] = 0 /\ E[i][2] < U + 1
    BY <1>2, <1>5, <1>6
  <2>2. ASSUME NEW i \in DOMAIN E, NEW j \in DOMAIN E, i < j PROVE E[i][2] < E[j][2]
    <3>1. i \in DOMAIN D /\ E[i] = D[i]
      <4>1. DOMAIN D = 1..Len(D) /\ Len(D) \in Nat
        BY <1>2
      <4>2. i = Len(D) + 1 => j \notin DOMAIN D /\ j # Len(D) + 1
        BY <2>2, <4>1
      <4>3. j \in DOMAIN D \/ j = Len(D) + 1
        BY <1>5
      <4>4. (i \in DOMAIN D /\ E[i] = D[i]) \/ i = Len(D) + 1
        BY <1>5
      <4> QED  BY <4>2, <4>3, <4>4
    <3>2. CASE j \in DOMAIN D
      <4>1. E[j] = D[j]
        BY <1>4, <3>2
      <4> QED  BY <2>0, <2>2, <3>1, <3>2, <4>1
    <3>3. CASE E[j][2] = U
      BY <1>6, <3>1, <3>3
    <3> QED  BY <1>5, <3>2, <3>3
  <2>3. Len(d) <= Len(E) /\ \A i \in DOMAIN d : d[i] = E[i]
    <3>1. Len(D) <= Len(E)
      <4>1. Len(E) \in Nat
        BY <1>4, LenProperties
      <4>2. Len(E) = Len(D) \/ Len(E) = Len(D) + 1
        BY <1>4
      <4> QED  BY <1>2, <4>1, <4>2
    <3>2. Len(E) \in Nat
      BY <1>4, LenProperties
    <3>3. \A i \in DOMAIN d : i \in DOMAIN D
      BY <1>2, <2>0
    <3>4. \A i \in DOMAIN d : d[i] = E[i]
      BY <1>4, <2>0, <3>3
    <3> QED  BY <1>2, <2>0, <3>1, <3>2, <3>4
  <2>4. ASSUME NEW i \in DOMAIN E PROVE i <= Len(d) <=> (L # NoSeq /\ E[i][2] <= L)
    <3>1. CASE i \in DOMAIN D
      BY <1>4, <2>0, <3>1
    <3>2. CASE i = Len(D) + 1 /\ E[i][2] = U /\ L # NoSeq
      <4>1. L < U /\ Len(d) <= Len(D)
        BY <1>1, <3>2 DEF Reception, Submissions
      <4> QED  BY <1>2, <3>2, <4>1
    <3> QED  BY <1>5, <3>1, <3>2
  <2> QED  BY <2>1, <2>2, <2>3, <2>4 DEF Submissions
<1>12. Reception(U + 1, E, L, B)
  <2>1. L = NoSeq => E = <<>> /\ B = <<>>
    BY <1>1, <1>4 DEF Reception
  <2>2. L # NoSeq => L < U + 1
    BY <1>1, <1>2 DEF Reception
  <2>3. InNumberOrder(B) /\ \A p \in PacketsOf(B) : OfStream(U + 1, E, p)
    BY <1>1, <1>2, <1>8 DEF Reception
  <2> QED  BY <2>1, <2>2, <2>3 DEF Reception
<1>13. Coming(F, U + 1, E, L, B)
  <2>1. \A p \in PacketsOf(F) : p.kind \in {"ANN", "ACK"} \/ OfStream(U + 1, E, p)
    BY <1>1, <1>2, <1>3, <1>8, <1>9 DEF Coming
  <2>2. L # NoSeq => L < q.seq
    BY <1>1 DEF Reception
  <2>3. \A c \in PacketsOf(B) : c.seq < q.seq
    BY <1>1 DEF Reception, OfStream
  <2> QED  BY <1>1, <1>3, <2>1, <2>2, <2>3 DEF Coming
<1>14. Accounted(F, U + 1, E, S \cup {U}, L, B)
  <2> SUFFICES ASSUME NEW s \in Numbers, s < U + 1
               PROVE  \/ Has(L, B, s)
                      \/ s \in DataNumbers(E) /\ s \in S \cup {U}
                      \/ \E p \in PacketsOf(F) : p.kind \in Hello /\ p.seq = s
    BY DEF Accounted
  <2>1. CASE s < U
    BY <1>3, <1>7, <2>1 DEF Sound, Accounted
  <2>2. CASE s = U
    <3>1. CASE q.kind = "DATA"
      BY <1>7, <2>2, <3>1
    <3>2. CASE q.kind \in Hello
      BY <1>3, <2>2, <3>2
    <3> QED  BY <3>1, <3>2
  <2> QED  BY <1>2, <2>1, <2>2
<1>15. Waiting(F, R, U + 1, E, S \cup {U}, V)
  <2> SUFFICES ASSUME NEW p \in V
               PROVE  /\ OfStream(U + 1, E, p)
                      /\ p.kind \in Hello /\ p.seq \in S \cup {U} =>
                            \/ p \in PacketsOf(F)
                            \/ \E r \in PacketsOf(R) : AnswerTo(r, p.seq)
    BY DEF Waiting
  <2>1. CASE p = q
    BY <1>3, <1>9, <2>1
  <2>2. CASE p \in T
    <3>1. OfStream(U, D, p) /\ p \in Packet /\ p.seq \in Int
      BY <1>2, <2>2 DEF Sound, Waiting
    <3>2. p.seq # U
      BY <1>2, <3>1 DEF OfStream
    <3> QED  BY <1>3, <1>8, <2>2, <3>1, <3>2 DEF Sound, Waiting
  <2> QED  BY <2>1, <2>2
<1>16. Acknowledged(R, L, B)
  BY DEF Sound
<1> QED  BY <1>10, <1>11, <1>12, <1>13, <1>14, <1>15, <1>16 DEF Sound, F
(* Then to the channel of the answers, and to what is unacknowledged.      *)
LEMMA AnswerAdded ==
    ASSUME NEW C, NEW R, NEW U, NEW D, NEW S, NEW L, NEW B, NEW d, NEW T,
           Sound(C, R, U, D, S, L, B, d, T), NEW q \in Packet,
           q.kind \in {"SYNACK", "ACK"} => Has(L, B, q.ack)
    PROVE  Sound(C, Append(R, q), U, D, S, L, B, d, T)
<1> DEFINE A == Append(R, q)
<1>1. R \in Seq(Packet)
  BY DEF Sound, Typed
<1>2. A \in Seq(Packet) /\ PacketsOf(A) = PacketsOf(R) \cup {q}
  BY <1>1, AppendedHolds
<1> HIDE DEF A
<1>3. Typed(C, A, U, D, S, L, B, d, T)
  BY <1>2 DEF Sound, Typed
<1>4. Acknowledged(A, L, B)
  BY <1>2 DEF Sound, Acknowledged
<1>5. Waiting(C, A, U, D, S, T)
  BY <1>2 DEF Sound, Waiting
<1> QED  BY <1>3, <1>4, <1>5 DEF Sound, A

(* An answer is taken, with its acknowledgement if it has one.             *)
LEMMA AnswerGone ==
    ASSUME NEW C, NEW R, NEW U, NEW D, NEW S, NEW L, NEW B, NEW d, NEW T,
           Sound(C, R, U, D, S, L, B, d, T), NEW k \in 1..Len(R), NEW P \in SUBSET S,
           \/ P = S /\ ~AnswerTo(R[k], R[k].ack)
           \/ P = S \ {R[k].ack} /\ R[k].kind \in {"SYNACK", "ACK"}
    PROVE  Sound(C, RemoveAt(R, k), U, D, P, L, B, d, T)
<1> DEFINE A == RemoveAt(R, k)
           q == R[k]
<1>1. R \in Seq(Packet)
  BY DEF Sound, Typed
<1>2. /\ A \in Seq(Packet) /\ PacketsOf(A) \subseteq PacketsOf(R) /\ q \in PacketsOf(R)
      /\ \A p \in PacketsOf(R) : p # q => p \in PacketsOf(A)
  BY <1>1, RemovedHolds
<1>3. \/ P = S /\ ~AnswerTo(q, q.ack)
      \/ P = S \ {q.ack} /\ q.kind \in {"SYNACK", "ACK"}
  OBVIOUS
<1> HIDE DEF A, q
<1>4. Typed(C, A, U, D, P, L, B, d, T)
  BY <1>2 DEF Sound, Typed
<1>5. Acknowledged(A, L, B)
  BY <1>2 DEF Sound, Acknowledged
<1>6. Accounted(C, U, D, P, L, B)
  <2>1. \A s \in S : s \in P \/ Has(L, B, s)
    BY <1>2, <1>3 DEF Sound, Acknowledged
  <2> QED  BY <2>1 DEF Sound, Accounted
<1>7. Waiting(C, A, U, D, P, T)
  <2>1. \A p \in PacketsOf(R) : \A s \in P : AnswerTo(p, s) => p # q
    BY <1>3 DEF AnswerTo
  <2> QED  BY <1>2, <1>3, <2>1 DEF Sound, Waiting
<1> QED  BY <1>4, <1>5, <1>6, <1>7 DEF Sound, A

(* Timers end.                                                             *)
LEMMA TasksGone ==
    ASSUME NEW C, NEW R, NEW U, NEW D, NEW S, NEW L, NEW B, NEW d, NEW T,
           Sound(C, R, U, D, S, L, B, d, T), NEW V \in SUBSET T
    PROVE  Sound(C, R, U, D, S, L, B, d, V)
<1>1. Typed(C, R, U, D, S, L, B, d, V)
  BY DEF Sound, Typed
<1>2. Waiting(C, R, U, D, S, V)
  BY DEF Sound, Waiting
<1> QED  BY <1>1, <1>2 DEF Sound

(* A packet of the stream that is buffered or ignored.                     *)
LEMMA BufferedHolds ==
    ASSUME NEW U, NEW D, NEW L \in Numbers, NEW B \in Seq(Packet), Reception(U, D, L, B),
           NEW p \in Packet, OfStream(U, D, p), NEW o \in Buffered(L, B, p)
    PROVE  /\ o.buf \in Seq(Packet) /\ Reception(U, D, L, o.buf)
           /\ PacketsOf(o.buf) \subseteq PacketsOf(B) \cup {p}
           /\ PacketsOf(B) \subseteq PacketsOf(o.buf) /\ Has(L, o.buf, p.seq)
           /\ o.last = L /\ ~o.adopted
<1>1. p.seq \in Numbers /\ L \in Int /\ p.seq \in Int /\ L # NoSeq
  BY HalfRangeAssumption, NumberFacts DEF Packet, Numbers
<1>2. DifferenceWithWrapAround(p.seq, L) = p.seq - L
  BY <1>1, NumbersCompare
<1>3. /\ L < U /\ InNumberOrder(B)
      /\ \A q \in PacketsOf(B) : OfStream(U, D, q)
  BY <1>1 DEF Reception
<1>4. CASE p.seq > L
  <2>0. p.seq - L > 0
    BY <1>1, <1>4
  <2>1. PICK b \in Inserted(B, p) : o = Keep(L, b)
    BY <1>2, <2>0 DEF Buffered
  <2>2. b \in Seq(Packet) /\ PacketsOf(b) = PacketsOf(B) \cup {p} /\ InNumberOrder(b)
    BY <1>1, <1>3, InsertedHolds
  <2>4. Reception(U, D, L, b)
    BY <1>1, <1>3, <2>2 DEF Reception
  <2>5. Has(L, b, p.seq)
    BY <2>2 DEF Has
  <2>6. o.buf = b /\ o.last = L /\ ~o.adopted
    BY <2>1 DEF Keep
  <2> QED  BY <2>2, <2>4, <2>5, <2>6
<1>5. CASE p.seq <= L
  <2>0. ~(p.seq - L > 0)
    BY <1>1, <1>5
  <2>1. o = Keep(L, B)
    BY <1>2, <2>0 DEF Buffered
  <2>2. Has(L, B, p.seq)
    BY <1>1, <1>5 DEF Has
  <2>3. o.buf = B /\ o.last = L /\ ~o.adopted
    BY <2>1 DEF Keep
  <2> QED  BY <2>2, <2>3
<1> QED  BY <1>1, <1>4, <1>5

(* Data is received that no hello is in front of.                          *)
LEMMA DataTaken ==
    ASSUME NEW C, NEW E \in Seq(Packet), NEW R, NEW U, NEW D, NEW S, NEW L, NEW B, NEW d, NEW T,
           Sound(C, R, U, D, S, L, B, d, T), NEW p \in PacketsOf(C), p \in Packet,
           PacketsOf(E) \subseteq PacketsOf(C), HellosGrow(E), p.kind = "DATA",
           \A q \in PacketsOf(C) : q.kind \in Hello => p.seq < q.seq /\ q \in PacketsOf(E),
           NEW o, o \in OnData(L, B, p)
    PROVE  /\ L # NoSeq
           /\ Has(L, o.buf, p.seq)
           /\ Sound(E, R, U, D, S, L, o.buf, d, T)
<1>1. /\ Typed(C, R, U, D, S, L, B, d, T) /\ Submissions(U, D, L, d)
      /\ Reception(U, D, L, B) /\ Coming(C, U, D, L, B)
  BY DEF Sound
<1>4. OfStream(U, D, p) /\ p.kind \notin Hello
  BY <1>1 DEF Coming, Hello
<1>5. L # NoSeq
  <2>1. p.seq \in DataNumbers(D)
    BY <1>4 DEF OfStream, Hello
  <2>2. CASE D = <<>>
    BY <2>1, <2>2 DEF DataNumbers
  <2> QED  BY <1>1, <2>2 DEF Reception
<1>7. o \in Buffered(L, B, p)
  BY <1>5 DEF OnData
<1> DEFINE b == o.buf
<1>17. /\ b \in Seq(Packet) /\ Reception(U, D, L, b)
       /\ PacketsOf(b) \subseteq PacketsOf(B) \cup {p}
       /\ PacketsOf(B) \subseteq PacketsOf(b) /\ Has(L, b, p.seq)
  <2>1. L \in Numbers /\ B \in Seq(Packet)
    BY <1>1, <1>5 DEF Typed
  <2> QED  BY <1>1, <1>4, <1>7, <2>1, BufferedHolds
<1>8. /\ b \in Seq(Packet) /\ Reception(U, D, L, b)
      /\ PacketsOf(b) \subseteq PacketsOf(B) \cup {p}
      /\ Has(L, b, p.seq) /\ \A s : Has(L, B, s) => Has(L, b, s)
  BY <1>17 DEF Has
<1> HIDE DEF b
<1>9. Typed(E, R, U, D, S, L, b, d, T)
  BY <1>1, <1>8 DEF Typed
<1>10. Coming(E, U, D, L, b)
  BY <1>1, <1>8 DEF Coming
<1>11. Acknowledged(R, L, b)
  BY <1>8 DEF Sound, Acknowledged
<1>13. Accounted(E, U, D, S, L, b)
  BY <1>8 DEF Sound, Accounted
<1>14. Waiting(E, R, U, D, S, T)
  BY DEF Sound, Waiting
<1>16. Sound(E, R, U, D, S, L, b, d, T)
  BY <1>1, <1>8, <1>9, <1>10, <1>11, <1>13, <1>14 DEF Sound
<1> QED  BY <1>5, <1>8, <1>16 DEF b

LEMMA DataComes ==
    ASSUME NEW C, NEW R, NEW U, NEW D, NEW S, NEW L, NEW B, NEW d, NEW T,
           Sound(C, R, U, D, S, L, B, d, T), NEW k \in 1..Len(C),
           C[k].kind = "DATA", \A i \in 1..k : C[i].kind \notin Hello,
           NEW o, o \in OnData(L, B, C[k])
    PROVE  /\ L # NoSeq
           /\ Has(L, o.buf, C[k].seq)
           /\ Sound(RemoveAt(C, k), R, U, D, S, L, o.buf, d, T)
<1> DEFINE E == RemoveAt(C, k)
           p == C[k]
<1>1. C \in Seq(Packet) /\ HellosGrow(C)
  BY DEF Sound, Typed, Coming
<1>2. /\ E \in Seq(Packet) /\ PacketsOf(E) \subseteq PacketsOf(C)
      /\ p \in PacketsOf(C) /\ p \in Packet
      /\ \A q \in PacketsOf(C) : q # p => q \in PacketsOf(E)
      /\ HellosGrow(E)
  BY <1>1, RemovedHolds
<1>3. DOMAIN C = 1..Len(C) /\ Len(C) \in Nat
  BY <1>1, LenProperties
<1>4. p.kind = "DATA" /\ p.kind \notin Hello
  BY DEF Hello
<1>5. ASSUME NEW q \in PacketsOf(C), q.kind \in Hello PROVE p.seq < q.seq
  <2>1. PICK j \in DOMAIN C : q = C[j]
    BY DEF PacketsOf
  <2>2. j \notin 1..k
    BY <1>5, <2>1
  <2>3. k < j
    BY <1>3, <2>2
  <2> QED  BY <1>1, <1>3, <1>5, <2>1, <2>3 DEF HellosGrow
<1>6. \A q \in PacketsOf(C) : q.kind \in Hello => p.seq < q.seq /\ q \in PacketsOf(E)
  <2> HIDE DEF p, E
  <2> QED  BY <1>2, <1>4, <1>5
<1>7. o \in OnData(L, B, p)
  OBVIOUS
<1> HIDE DEF E, p
<1>8. /\ L # NoSeq /\ Has(L, o.buf, p.seq)
      /\ Sound(E, R, U, D, S, L, o.buf, d, T)
  BY <1>2, <1>4, <1>6, <1>7, DataTaken
<1> QED  BY <1>8 DEF E, p

(* A hello is received, the first in its channel, and answered.  Its       *)
(* number is beyond all that came before: it is adopted only if it is the  *)
(* first ever.                                                             *)
LEMMA HelloComes ==
    ASSUME NEW C, NEW R, NEW U, NEW D, NEW S, NEW L, NEW B, NEW d, NEW T,
           Sound(C, R, U, D, S, L, B, d, T), 1 \in 1..Len(C), C[1].kind \in Hello,
           NEW o \in OnSyn(L, B, C[1]), NEW a \in Packet, AnswerTo(a, C[1].seq)
    PROVE  /\ ~(o.adopted /\ L # NoSeq)
           /\ Sound(RemoveAt(C, 1), Append(R, a), U, D, S, o.last, o.buf, d, T)
<1> DEFINE p == C[1]
           E == RemoveAt(C, 1)
           A == Append(R, a)
           l == o.last
           b == o.buf
<1>1. /\ Typed(C, R, U, D, S, L, B, d, T) /\ Submissions(U, D, L, d)
      /\ Reception(U, D, L, B) /\ Coming(C, U, D, L, B)
      /\ C \in Seq(Packet) /\ R \in Seq(Packet)
  BY DEF Sound, Typed
<1>2. /\ E \in Seq(Packet) /\ PacketsOf(E) \subseteq PacketsOf(C)
      /\ p \in PacketsOf(C) /\ p \in Packet
      /\ \A q \in PacketsOf(C) : q # p => q \in PacketsOf(E)
      /\ \A q \in PacketsOf(E) : \E j \in DOMAIN C : j # 1 /\ q = C[j]
      /\ HellosGrow(E)
  BY <1>1, RemovedHolds DEF Coming
<1>3. A \in Seq(Packet) /\ PacketsOf(A) = PacketsOf(R) \cup {a}
  BY <1>1, AppendedHolds
<1>4. DOMAIN C = 1..Len(C) /\ Len(C) \in Nat /\ p = C[1] /\ AnswerTo(a, p.seq)
  BY <1>1, LenProperties
<1>5. /\ p.kind \in Hello /\ OfStream(U, D, p)
      /\ L # NoSeq => L < p.seq
      /\ \A c \in PacketsOf(B) : c.seq < p.seq
  BY <1>1, <1>2 DEF Coming, Hello
<1>6. /\ p.seq \in Numbers /\ p.seq \in Int /\ L \in Int /\ (L # NoSeq => L \in Numbers)
      /\ \A q \in PacketsOf(B) : q.seq \in Numbers /\ q.seq \in Int
      /\ B \in Seq(Packet) /\ NoSeq \notin Numbers
      /\ \A s \in Numbers : s # NoSeq
  <2>1. /\ L \in Int /\ (L # NoSeq => L \in Numbers)
        /\ \A q \in PacketsOf(B) : q.seq \in Numbers /\ q.seq \in Int
        /\ \A s \in Numbers : s \in Int
    BY <1>1, StreamNumbers
  <2>2. p.seq \in Numbers /\ B \in Seq(Packet)
    BY <1>1, <1>2 DEF Typed, Packet
  <2>3. NoSeq \notin Numbers
    BY NumberFacts
  <2> HIDE DEF p
  <2> QED  BY <2>1, <2>2, <2>3
<1>7. ASSUME NEW q \in PacketsOf(E), q.kind \in Hello PROVE p.seq < q.seq
  <2>1. PICK j \in DOMAIN C : j # 1 /\ q = C[j]
    BY <1>2
  <2>2. 1 < j /\ 1 \in DOMAIN C
    BY <1>4, <2>1
  <2>3. HellosGrow(C) /\ p.kind \notin {"ANN", "ACK"}
    BY <1>1, <1>5 DEF Coming, Hello
  <2> QED  BY <1>4, <1>7, <2>1, <2>2, <2>3 DEF HellosGrow
<1>8. o \in OnSyn(L, B, p)
  OBVIOUS
<1> HIDE DEF p, E, A
<1>9. L # NoSeq => ~SuspectsRestart(L, B, p.seq)
  <2> SUFFICES ASSUME L # NoSeq PROVE ~SuspectsRestart(L, B, p.seq)
    OBVIOUS
  <2>1. DifferenceWithWrapAround(p.seq, L) = p.seq - L
    BY <1>6, NumbersCompare
  <2>2. ~(DifferenceWithWrapAround(p.seq, L) < 0)
    BY <1>5, <1>6, <2>1
  <2>3. ASSUME NEW i \in DOMAIN B PROVE CompareTo(p.seq, B[i].seq) # -1
    <3>1. B[i] \in PacketsOf(B)
      BY DEF PacketsOf
    <3>2. CompareTo(p.seq, B[i].seq) = IF p.seq <= B[i].seq THEN -1 ELSE 1
      BY <1>6, <3>1, NumbersCompare
    <3>3. ~(p.seq <= B[i].seq)
      BY <1>5, <1>6, <3>1
    <3> QED  BY <3>2, <3>3
  <2> QED  BY <2>2, <2>3 DEF SuspectsRestart
<1>10. CASE L = NoSeq
  <2>1. l = p.seq /\ b = <<>> /\ D = <<>> /\ B = <<>>
    BY <1>1, <1>8, <1>10 DEF OnSyn, Adopt, Reception
  <2>2. PacketsOf(b) = {} /\ b \in Seq(Packet) /\ InNumberOrder(b)
    BY <2>1 DEF PacketsOf, InNumberOrder
  <2>3. l # NoSeq /\ l \in Numbers
    BY <1>6, <2>1
  <2> HIDE DEF l, b
  <2>4. Typed(E, A, U, D, S, l, b, d, T)
    BY <1>1, <1>2, <1>3, <2>2, <2>3 DEF Typed
  <2>5. Submissions(U, D, l, d)
    <3>1. DOMAIN D = {} /\ Len(D) = 0
      BY <2>1
    <3> QED  BY <1>1, <3>1 DEF Submissions
  <2>6. Reception(U, D, l, b)
    <3>1. l < U
      BY <1>5, <2>1 DEF OfStream
    <3> QED  BY <2>2, <2>3, <3>1 DEF Reception
  <2>7. Coming(E, U, D, l, b)
    BY <1>1, <1>2, <1>7, <2>1, <2>2 DEF Coming
  <2>8. \A s : ~Has(L, B, s)
    BY <1>10, <2>1 DEF Has, PacketsOf
  <2>9. Acknowledged(A, l, b)
    <3>1. \A q \in PacketsOf(R) : q.kind \notin {"SYNACK", "ACK"}
      BY <2>8 DEF Sound, Acknowledged
    <3>2. a.ack = l /\ Has(l, b, l)
      BY <1>4, <1>6, <2>1, <2>3 DEF AnswerTo, Has
    <3> QED  BY <1>3, <3>1, <3>2 DEF Acknowledged
  <2>10. Accounted(E, U, D, S, l, b)
    <3> SUFFICES ASSUME NEW s \in Numbers, s < U
                 PROVE  \/ Has(l, b, s)
                        \/ \E q \in PacketsOf(E) : q.kind \in Hello /\ q.seq = s
      BY DEF Accounted
    <3>1. DataNumbers(D) = {}
      BY <2>1 DEF DataNumbers
    <3>2. PICK q \in PacketsOf(C) : q.kind \in Hello /\ q.seq = s
      BY <2>8, <3>1 DEF Sound, Accounted
    <3>3. CASE q = p
      BY <1>6, <2>1, <2>3, <3>2, <3>3 DEF Has
    <3>4. CASE q # p
      BY <1>2, <3>2, <3>4
    <3> QED  BY <3>3, <3>4
  <2>11. Waiting(E, A, U, D, S, T)
    <3> SUFFICES ASSUME NEW t \in T, t.kind \in Hello, t.seq \in S
                 PROVE  \/ t \in PacketsOf(E)
                        \/ \E q \in PacketsOf(A) : AnswerTo(q, t.seq)
      BY DEF Sound, Waiting
    <3>1. t \in PacketsOf(C) \/ \E q \in PacketsOf(R) : AnswerTo(q, t.seq)
      BY DEF Sound, Waiting
    <3>2. CASE t = p
      BY <1>3, <1>4, <3>2
    <3> QED  BY <1>2, <1>3, <3>1, <3>2
  <2> QED  BY <1>10, <2>4, <2>5, <2>6, <2>7, <2>9, <2>10, <2>11 DEF Sound, E, A, l, b
<1>11. CASE L # NoSeq
  <2>1. o \in Buffered(L, B, p)
    BY <1>8, <1>9, <1>11 DEF OnSyn
  <2>0. L \in Numbers /\ B \in Seq(Packet) /\ p \in Packet
    BY <1>2, <1>6, <1>11
  <2>10. /\ b \in Seq(Packet) /\ Reception(U, D, L, b)
         /\ PacketsOf(b) \subseteq PacketsOf(B) \cup {p}
         /\ PacketsOf(B) \subseteq PacketsOf(b) /\ Has(L, b, p.seq)
         /\ l = L /\ ~o.adopted
    BY <1>1, <1>5, <2>0, <2>1, BufferedHolds
  <2> HIDE DEF l, b
  <2>2. /\ b \in Seq(Packet) /\ Reception(U, D, L, b)
        /\ PacketsOf(b) \subseteq PacketsOf(B) \cup {p}
        /\ Has(L, b, p.seq) /\ \A s : Has(L, B, s) => Has(L, b, s)
    BY <2>10 DEF Has
  <2>3. Typed(E, A, U, D, S, L, b, d, T)
    BY <1>1, <1>2, <1>3, <2>2 DEF Typed
  <2>4. Coming(E, U, D, L, b)
    BY <1>1, <1>2, <1>7, <2>2 DEF Coming
  <2>5. Acknowledged(A, L, b)
    <3>1. Acknowledged(R, L, B) /\ a.ack = p.seq
      BY <1>4 DEF Sound, AnswerTo
    <3> QED  BY <1>3, <2>2, <3>1 DEF Acknowledged
  <2>6. Accounted(E, U, D, S, L, b)
    <3> SUFFICES ASSUME NEW s \in Numbers, s < U
                 PROVE  \/ Has(L, b, s)
                        \/ s \in DataNumbers(D) /\ s \in S
                        \/ \E q \in PacketsOf(E) : q.kind \in Hello /\ q.seq = s
      BY DEF Accounted
    <3>1. \/ Has(L, B, s)
          \/ s \in DataNumbers(D) /\ s \in S
          \/ \E q \in PacketsOf(C) : q.kind \in Hello /\ q.seq = s
      BY DEF Sound, Accounted
    <3> QED  BY <1>2, <2>2, <3>1
  <2>7. Waiting(E, A, U, D, S, T)
    <3> SUFFICES ASSUME NEW t \in T, t.kind \in Hello, t.seq \in S
                 PROVE  \/ t \in PacketsOf(E)
                        \/ \E q \in PacketsOf(A) : AnswerTo(q, t.seq)
      BY DEF Sound, Waiting
    <3>1. t \in PacketsOf(C) \/ \E q \in PacketsOf(R) : AnswerTo(q, t.seq)
      BY DEF Sound, Waiting
    <3>2. CASE t = p
      BY <1>3, <1>4, <3>2
    <3> QED  BY <1>2, <1>3, <3>1, <3>2
  <2>9. Sound(E, A, U, D, S, L, b, d, T)
    BY <1>1, <2>2, <2>3, <2>4, <2>5, <2>6, <2>7 DEF Sound
  <2> QED  BY <2>10, <2>9 DEF E, A, l, b
<1> QED  BY <1>10, <1>11 DEF E, A

(* The loop takes the first packet of the buffer, or throws it away.       *)
LEMMA TailInOrder ==
    ASSUME NEW s \in Seq(Packet), s # <<>>, InNumberOrder(s)
    PROVE  Tail(s) \in Seq(Packet) /\ InNumberOrder(Tail(s))
<1> DEFINE t == Tail(s)
<1>1. /\ t \in Seq(Packet) /\ Len(t) = Len(s) - 1
      /\ \A i \in 1..Len(t) : t[i] = s[i + 1]
  BY HeadTailProperties
<1>2. DOMAIN t = 1..Len(t) /\ DOMAIN s = 1..Len(s) /\ Len(s) \in Nat /\ Len(t) \in Nat
  BY <1>1, LenProperties
<1> HIDE DEF t
<1>3. ASSUME NEW i \in 1..Len(t), NEW j \in 1..Len(t), i <= j PROVE t[i].seq <= t[j].seq
  <2>1. i + 1 \in 1..Len(s) /\ j + 1 \in 1..Len(s) /\ i + 1 <= j + 1
    BY <1>1, <1>2, <1>3
  <2>2. s[i + 1].seq <= s[j + 1].seq
    BY <1>2, <2>1 DEF InNumberOrder
  <2> QED  BY <1>1, <2>2
<1> QED  BY <1>1, <1>2, <1>3 DEF InNumberOrder, t

(* What the front of the buffer is.                                        *)
LEMMA FrontHolds ==
    ASSUME NEW C, NEW R, NEW U, NEW D, NEW S, NEW L, NEW B, NEW d, NEW T,
           Sound(C, R, U, D, S, L, B, d, T), B # <<>>
    PROVE  /\ L # NoSeq /\ L \in Numbers /\ L \in Int /\ L < HalfRange - 1
           /\ Succ(L) = L + 1
           /\ Head(B) \in PacketsOf(B) /\ Head(B) \in Packet
           /\ Head(B).seq \in Numbers /\ Head(B).seq \in Int /\ OfStream(U, D, Head(B))
           /\ DifferenceWithWrapAround(Head(B).seq, L) = Head(B).seq - L
           /\ Tail(B) \in Seq(Packet) /\ InNumberOrder(Tail(B))
           /\ PacketsOf(Tail(B)) \subseteq PacketsOf(B)
           /\ \A q \in PacketsOf(B) : q = Head(B) \/ q \in PacketsOf(Tail(B))
<1> DEFINE p == Head(B)
<1>1. /\ Typed(C, R, U, D, S, L, B, d, T) /\ Reception(U, D, L, B)
      /\ B \in Seq(Packet) /\ InNumberOrder(B)
  BY DEF Sound, Typed, Reception
<1>2. L # NoSeq /\ L < U
  BY <1>1 DEF Reception
<1>3. /\ p \in Packet /\ p \in PacketsOf(B)
      /\ PacketsOf(Tail(B)) \subseteq PacketsOf(B)
      /\ \A q \in PacketsOf(B) : q = p \/ q \in PacketsOf(Tail(B))
  BY <1>1, TailHolds
<1>4. Tail(B) \in Seq(Packet) /\ InNumberOrder(Tail(B))
  BY <1>1, TailInOrder
<1> HIDE DEF p
<1>5. /\ L \in Numbers /\ L \in Int /\ U \in Int /\ U < HalfRange /\ HalfRange \in Int
      /\ p.seq \in Numbers /\ p.seq \in Int
  BY <1>1, <1>2, <1>3, StreamNumbers
<1>6. L < HalfRange - 1
  BY <1>2, <1>5
<1>7. Succ(L) = L + 1 /\ DifferenceWithWrapAround(p.seq, L) = p.seq - L
  BY <1>5, <1>6, NumbersCompare
<1>8. OfStream(U, D, p)
  BY <1>1, <1>3 DEF Reception
<1> QED  BY <1>2, <1>3, <1>4, <1>5, <1>6, <1>7, <1>8 DEF p

LEMMA Dropped ==
    ASSUME NEW C, NEW R, NEW U, NEW D, NEW S, NEW L, NEW B, NEW d, NEW T,
           Sound(C, R, U, D, S, L, B, d, T), FrontIsStale(L, B)
    PROVE  Sound(C, R, U, D, S, L, Tail(B), d, T)
<1> DEFINE p == Head(B)
           b == Tail(B)
<1>0. B # <<>> /\ DifferenceWithWrapAround(p.seq, L) <= 0
  BY DEF FrontIsStale
<1>1. /\ L # NoSeq /\ L \in Int /\ p.seq \in Int
      /\ DifferenceWithWrapAround(p.seq, L) = p.seq - L
      /\ b \in Seq(Packet) /\ InNumberOrder(b) /\ PacketsOf(b) \subseteq PacketsOf(B)
      /\ \A q \in PacketsOf(B) : q = p \/ q \in PacketsOf(b)
  BY <1>0, FrontHolds
<1> HIDE DEF p, b
<1>2. p.seq <= L
  BY <1>0, <1>1
<1>3. \A s : Has(L, B, s) => Has(L, b, s)
  BY <1>1, <1>2 DEF Has
<1>4. Typed(C, R, U, D, S, L, b, d, T)
  BY <1>1 DEF Sound, Typed
<1>5. Reception(U, D, L, b)
  BY <1>1 DEF Sound, Reception
<1>6. Coming(C, U, D, L, b)
  BY <1>1 DEF Sound, Coming
<1>7. Acknowledged(R, L, b)
  BY <1>3 DEF Sound, Acknowledged
<1>8. Accounted(C, U, D, S, L, b)
  BY <1>3 DEF Sound, Accounted
<1> QED  BY <1>4, <1>5, <1>6, <1>7, <1>8 DEF Sound, b

(* Data that is next in number is next in order: none was submitted in     *)
(* between.                                                                *)
LEMMA NextIsDelivered ==
    ASSUME NEW U, NEW D \in Seq(Nat \X Numbers), NEW L \in Numbers,
           NEW d \in Seq(Nat \X Numbers),
           Submissions(U, D, L, d), NEW s \in Numbers, s = L + 1, s \in DataNumbers(D),
           NEW e, e = Append(d, <<0, s>>)
    PROVE  e \in Seq(Nat \X Numbers) /\ Submissions(U, D, s, e)
<1>1. /\ DOMAIN D = 1..Len(D) /\ Len(D) \in Nat
      /\ DOMAIN d = 1..Len(d) /\ Len(d) \in Nat
  BY LenProperties
<1>2. \A x \in Numbers : x \in Int /\ x # NoSeq
  BY HalfRangeAssumption DEF Numbers, NoSeq
<1>3. \A i \in DOMAIN D : D[i] \in Nat \X Numbers /\ D[i][1] = 0 /\ D[i][2] \in Int
  <2>1. \A i \in DOMAIN D : D[i] \in Nat \X Numbers
    BY <1>1, ElementOfSeq
  <2> QED  BY <1>2, <2>1 DEF Submissions
<1>4. /\ \A i \in DOMAIN D : D[i][2] < U
      /\ \A i, j \in DOMAIN D : i < j => D[i][2] < D[j][2]
      /\ Len(d) <= Len(D) /\ \A i \in DOMAIN d : d[i] = D[i]
      /\ \A i \in DOMAIN D : i <= Len(d) <=> D[i][2] <= L
  BY <1>2 DEF Submissions
<1>5. PICK k \in DOMAIN D : D[k][2] = s
  BY DEF DataNumbers
<1>6. k = Len(d) + 1
  <2>1. ~(k <= Len(d))
    BY <1>2, <1>4, <1>5
  <2>2. CASE Len(d) + 1 < k
    <3>1. Len(d) + 1 \in DOMAIN D
      BY <1>1, <2>2
    <3>2. D[Len(d) + 1][2] < s
      BY <1>4, <1>5, <2>2, <3>1
    <3>3. D[Len(d) + 1][2] <= L
      BY <1>2, <1>3, <3>1, <3>2
    <3> QED  BY <1>1, <1>4, <3>1, <3>3
  <2> QED  BY <1>1, <2>1, <2>2
<1>7. D[k] = <<0, s>>
  BY <1>3, <1>5
<1>8. /\ e \in Seq(Nat \X Numbers) /\ Len(e) = Len(d) + 1
      /\ \A i \in 1..Len(d) : e[i] = d[i]
      /\ e[Len(d) + 1] = <<0, s>>
  <2>1. <<0, s>> \in Nat \X Numbers
    OBVIOUS
  <2> QED  BY <2>1, AppendProperties
<1>9. DOMAIN e = 1..Len(d) + 1
  BY <1>8, LenProperties
<1>10. \A i \in DOMAIN e : e[i] = D[i]
  <2> SUFFICES ASSUME NEW i \in DOMAIN e PROVE e[i] = D[i]
    OBVIOUS
  <2>1. CASE i = Len(d) + 1
    BY <1>6, <1>7, <1>8, <2>1
  <2>2. CASE i \in 1..Len(d)
    BY <1>1, <1>4, <1>8, <2>2
  <2> QED  BY <1>1, <1>9, <2>1, <2>2
<1>11. \A i \in DOMAIN D : i <= Len(e) <=> D[i][2] <= s
  <2> SUFFICES ASSUME NEW i \in DOMAIN D PROVE i <= Len(e) <=> D[i][2] <= s
    OBVIOUS
  <2>1. CASE i < k
    <3>1. D[i][2] < s
      BY <1>4, <1>5, <2>1
    <3> QED  BY <1>1, <1>2, <1>3, <1>6, <1>8, <2>1, <3>1
  <2>2. CASE i = k
    BY <1>1, <1>2, <1>3, <1>5, <1>6, <1>8, <2>2
  <2>3. CASE k < i
    <3>1. s < D[i][2]
      BY <1>4, <1>5, <2>3
    <3> QED  BY <1>1, <1>2, <1>3, <1>6, <1>8, <2>3, <3>1
  <2> QED  BY <1>1, <2>1, <2>2, <2>3
<1>12. Len(e) <= Len(D)
  BY <1>1, <1>6, <1>8
<1>13. s # NoSeq
  BY <1>2
<1> QED  BY <1>3, <1>4, <1>8, <1>10, <1>11, <1>12, <1>13 DEF Submissions

LEMMA Taken ==
    ASSUME NEW C, NEW R, NEW U, NEW D, NEW S, NEW L, NEW B, NEW d, NEW T,
           Sound(C, R, U, D, S, L, B, d, T), FrontIsNext(L, B), NEW e,
           e = IF Head(B).kind = "DATA" THEN Append(d, <<Head(B).session, Head(B).seq>>) ELSE d
    PROVE  Sound(C, R, U, D, S, Head(B).seq, Tail(B), e, T)
<1> DEFINE p == Head(B)
           b == Tail(B)
<1>0. B # <<>> /\ p.seq = Succ(L)
  BY DEF FrontIsNext
<1>1. /\ L # NoSeq /\ L \in Numbers /\ L \in Int /\ Succ(L) = L + 1
      /\ p.seq \in Numbers /\ p \in PacketsOf(B) /\ OfStream(U, D, p)
      /\ b \in Seq(Packet) /\ InNumberOrder(b) /\ PacketsOf(b) \subseteq PacketsOf(B)
      /\ \A q \in PacketsOf(B) : q = p \/ q \in PacketsOf(b)
  BY <1>0, FrontHolds
<1>2. e = IF p.kind = "DATA" THEN Append(d, <<p.session, p.seq>>) ELSE d
  OBVIOUS
<1> HIDE DEF p, b
<1>3. /\ p.seq = L + 1 /\ L + 1 \in Numbers /\ p.seq # NoSeq
      /\ \A s \in Numbers : s \in Int
  BY <1>0, <1>1, NumberFacts, HalfRangeAssumption DEF Numbers
<1>4. /\ Typed(C, R, U, D, S, L, B, d, T) /\ Submissions(U, D, L, d)
      /\ Reception(U, D, L, B) /\ Coming(C, U, D, L, B)
      /\ D \in Seq(Nat \X Numbers) /\ d \in Seq(Nat \X Numbers)
  BY DEF Sound, Typed
<1>5. \A s \in Numbers : Has(L, B, s) => Has(p.seq, b, s)
  <2> SUFFICES ASSUME NEW s \in Numbers, Has(L, B, s) PROVE Has(p.seq, b, s)
    OBVIOUS
  <2>1. CASE s <= L
    <3>1. s <= p.seq
      BY <1>1, <1>3, <2>1
    <3> QED  BY <1>3, <3>1 DEF Has
  <2>2. CASE s = p.seq
    BY <1>3, <2>2 DEF Has
  <2> QED  BY <1>1, <2>1, <2>2 DEF Has
<1>6. e \in Seq(Nat \X Numbers) /\ Submissions(U, D, p.seq, e)
  <2>1. CASE p.kind = "DATA"
    <3>1. p.session = 0 /\ p.seq \in DataNumbers(D)
      BY <1>1, <1>3, <2>1 DEF OfStream, Hello
    <3>2. e = Append(d, <<0, p.seq>>)
      BY <1>2, <1>3, <2>1, <3>1
    <3> QED  BY <1>1, <1>3, <1>4, <3>1, <3>2, NextIsDelivered
  <2>2. CASE p.kind # "DATA"
    <3>1. L + 1 \notin DataNumbers(D) /\ e = d
      BY <1>1, <1>2, <1>3, <2>2 DEF OfStream
    <3>2. \A i \in DOMAIN D : D[i][2] \in Int /\ D[i][2] # L + 1
      <4>1. \A i \in DOMAIN D : D[i][2] \in Int
        BY <1>4, StreamNumbers
      <4> QED  BY <3>1, <4>1 DEF DataNumbers
    <3>3. \A i \in DOMAIN D : D[i][2] <= L <=> D[i][2] <= p.seq
      BY <1>1, <1>3, <3>2
    <3> QED  BY <1>1, <1>3, <1>4, <3>1, <3>3 DEF Submissions
  <2> QED  BY <2>1, <2>2
<1>7. Typed(C, R, U, D, S, p.seq, b, e, T)
  BY <1>1, <1>4, <1>6 DEF Typed
<1>8. Reception(U, D, p.seq, b)
  <2>1. p.seq < U
    BY <1>1 DEF OfStream
  <2> QED  BY <1>1, <1>3, <1>4, <2>1 DEF Reception
<1>9. Coming(C, U, D, p.seq, b)
  BY <1>1, <1>4 DEF Coming
<1>10. Acknowledged(R, p.seq, b)
  <2>1. \A q \in PacketsOf(R) : q.ack \in Numbers
    BY <1>4, StreamNumbers
  <2> QED  BY <1>5, <2>1 DEF Sound, Acknowledged
<1>11. Accounted(C, U, D, S, p.seq, b)
  BY <1>5 DEF Sound, Accounted
<1> QED  BY <1>6, <1>7, <1>8, <1>9, <1>10, <1>11 DEF Sound, p, b

----------------------------------------------------------------------------
(* What a sound stream means.                                              *)

LEMMA SameIsPrefix ==
    ASSUME NEW S, NEW d \in Seq(S), NEW s \in Seq(S), Len(d) <= Len(s),
           \A i \in 1..Len(d) : d[i] = s[i]
    PROVE  IsPrefix(d, s)
<1>1. Len(d) \in Nat /\ Len(s) \in Nat /\ \A i \in 1..Len(s) : s[i] \in S
  BY LenProperties, ElementOfSeq
<1>2. \A i \in 1..Len(d) : s[i] \in S
  BY <1>1
<1>3. /\ SubSeq(s, 1, Len(d)) \in Seq(S)
      /\ Len(SubSeq(s, 1, Len(d))) = IF 1 <= Len(d) THEN Len(d) - 1 + 1 ELSE 0
      /\ \A i \in 1..Len(d) - 1 + 1 : SubSeq(s, 1, Len(d))[i] = s[1 + i - 1]
  BY <1>1, <1>2, SubSeqProperties
<1> DEFINE u == SubSeq(s, 1, Len(d))
<1>4. u \in Seq(S) /\ Len(u) = Len(d) /\ \A i \in 1..Len(d) : u[i] = d[i]
  <2> HIDE DEF u
  <2> QED  BY <1>1, <1>3 DEF u
<1>5. u = d
  <2> HIDE DEF u
  <2> QED  BY <1>4, SeqEqual
<1> QED  BY <1>5 DEF IsPrefix

LEMMA SoundOrder ==
    ASSUME NEW C, NEW R, NEW U, NEW D, NEW S, NEW L, NEW B, NEW d, NEW T,
           Sound(C, R, U, D, S, L, B, d, T)
    PROVE  IsPrefix(d, D)
<1>1. d \in Seq(Nat \X Numbers) /\ D \in Seq(Nat \X Numbers)
  BY DEF Sound, Typed
<1>2. DOMAIN d = 1..Len(d)
  BY <1>1, LenProperties
<1>3. Len(d) <= Len(D) /\ \A i \in 1..Len(d) : d[i] = D[i]
  BY <1>2 DEF Sound, Submissions
<1> QED  BY <1>1, <1>3, SameIsPrefix

(* The packet after the last one in order does not stay in the buffer.     *)
LEMMA NextIsDraining ==
    ASSUME NEW s \in Seq(Packet), InNumberOrder(s), NEW l \in Numbers, l < HalfRange - 1,
           NEW q \in PacketsOf(s), q.seq = l + 1
    PROVE  Draining(l, s)
<1>1. s # <<>> /\ DOMAIN s = 1..Len(s) /\ Len(s) \in Nat \ {0}
  BY LenProperties, EmptySeq DEF PacketsOf
<1> DEFINE h == Head(s)
<1>2. h = s[1] /\ h \in Packet
  BY <1>1, TailHolds
<1>3. l \in Int /\ h.seq \in Numbers /\ h.seq \in Int
  BY <1>2, HalfRangeAssumption DEF Packet, Numbers
<1>4. h.seq <= l + 1
  <2>1. PICK i \in DOMAIN s : q = s[i]
    BY DEF PacketsOf
  <2>2. s[1].seq <= s[i].seq
    BY <1>1, <2>1 DEF InNumberOrder
  <2> QED  BY <1>2, <2>1, <2>2
<1>5. Succ(l) = l + 1 /\ DifferenceWithWrapAround(h.seq, l) = h.seq - l
  BY <1>3, NumbersCompare
<1> HIDE DEF h
<1>6. CASE h.seq = l + 1
  BY <1>1, <1>5, <1>6 DEF Draining, FrontIsNext, h
<1>7. CASE h.seq <= l
  <2>1. h.seq - l <= 0
    BY <1>3, <1>7
  <2> QED  BY <1>1, <1>5, <2>1 DEF Draining, FrontIsStale, h
<1> QED  BY <1>3, <1>4, <1>6, <1>7

LEMMA SoundWhole ==
    ASSUME NEW C, NEW R, NEW U, NEW D, NEW S, NEW L, NEW B, NEW d, NEW T,
           Sound(C, R, U, D, S, L, B, d, T), PacketsOf(C) = {}, S = {}, ~Draining(L, B)
    PROVE  Len(d) >= Len(D)
<1>1. /\ Typed(C, R, U, D, S, L, B, d, T) /\ Submissions(U, D, L, d)
      /\ Reception(U, D, L, B) /\ B \in Seq(Packet)
  BY DEF Sound, Typed
<1>2. /\ L \in Int /\ (L # NoSeq => L \in Numbers) /\ U \in Int /\ U < HalfRange
      /\ HalfRange \in Int
      /\ DOMAIN D = 1..Len(D) /\ Len(D) \in Nat /\ Len(d) \in Nat
      /\ \A i \in DOMAIN D : D[i][2] \in Int
  BY <1>1, StreamNumbers
<1> SUFFICES ASSUME Len(d) < Len(D) PROVE FALSE
  BY <1>2
<1>3. L # NoSeq /\ L < U
  <2>1. CASE D = <<>>
    BY <1>2, <2>1
  <2> QED  BY <1>1, <2>1 DEF Reception
<1> DEFINE i == Len(d) + 1
<1>4. i \in DOMAIN D
  BY <1>2
<1>5. ~(D[i][2] <= L) /\ D[i][2] < U
  <2>1. ~(i <= Len(d))
    BY <1>2
  <2> HIDE DEF i
  <2> QED  BY <1>1, <1>3, <1>4, <2>1 DEF Submissions
<1>6. L + 1 < U
  <2> HIDE DEF i
  <2> QED  BY <1>2, <1>4, <1>5
<1>7. L \in Numbers /\ L < HalfRange - 1 /\ L + 1 \in Numbers
  <2>1. L \in Numbers /\ L < HalfRange - 1
    BY <1>2, <1>3, <1>6
  <2> QED  BY <2>1, NumberFacts
<1>8. Has(L, B, L + 1)
  BY <1>6, <1>7 DEF Sound, Accounted
<1>9. PICK q \in PacketsOf(B) : q.seq = L + 1
  BY <1>2, <1>8 DEF Has
<1> QED  BY <1>1, <1>7, <1>9, NextIsDraining DEF Reception

----------------------------------------------------------------------------
(* The streams of a network.                                               *)

Tasks(m, n) == {t.packet : t \in {u \in timers[m] : u.to = n}}

Dir(m, n) ==
    Sound(channel[m][n], channel[n][m], lastUsed[m][n], submitted[m][n], sentButNoAck[m][n],
          last[n][m], buf[n][m], delivered[n][m], Tasks(m, n))

Together(n, m) == session[n][m] = 0 /\ session[m][n] = 0

StreamInv ==
    /\ SyncInv
    /\ \A n \in Node : submitted[n][n] = <<>> /\ delivered[n][n] = <<>>
    /\ \A n \in Node : \A m \in Peers(n) : Together(n, m) => Dir(n, m)

LEMMA StreamInit == Init => StreamInv
<1> SUFFICES ASSUME Init PROVE StreamInv
  OBVIOUS
<1>1. SyncInv
  BY SyncInit
<1>2. \A n, m \in Node :
         /\ channel[n][m] = <<>> /\ lastUsed[n][m] = 0 /\ submitted[n][m] = <<>>
         /\ sentButNoAck[n][m] = {} /\ last[n][m] = NoSeq /\ buf[n][m] = <<>>
         /\ delivered[n][m] = <<>> /\ timers[n] = {}
  BY DEF Init
<1>3. \A n, m \in Node : Tasks(n, m) = {}
  BY <1>2 DEF Tasks
<1>4. Sound(<<>>, <<>>, 0, <<>>, {}, NoSeq, <<>>, <<>>, {})
  <2>1. /\ Typed(<<>>, <<>>, 0, <<>>, {}, NoSeq, <<>>, <<>>, {})
        /\ PacketsOf(<<>>) = {} /\ \A s \in Numbers : ~(s < 0)
    BY NumberFacts, HalfRangeAssumption DEF Typed, PacketsOf, Numbers
  <2>2. Submissions(0, <<>>, NoSeq, <<>>)
    BY DEF Submissions
  <2>3. Reception(0, <<>>, NoSeq, <<>>)
    BY <2>1 DEF Reception, InNumberOrder
  <2>4. Coming(<<>>, 0, <<>>, NoSeq, <<>>)
    BY <2>1 DEF Coming, HellosGrow
  <2>5. Acknowledged(<<>>, NoSeq, <<>>) /\ Accounted(<<>>, 0, <<>>, {}, NoSeq, <<>>)
    BY <2>1 DEF Acknowledged, Accounted
  <2>6. Waiting(<<>>, <<>>, 0, <<>>, {}, {})
    BY DEF Waiting
  <2> QED  BY <2>1, <2>2, <2>3, <2>4, <2>5, <2>6 DEF Sound
<1>5. \A n \in Node : \A m \in Peers(n) : Dir(n, m)
  BY <1>2, <1>3, <1>4 DEF Dir, Peers
<1> QED  BY <1>1, <1>2, <1>5 DEF StreamInv

(* A step changes the streams of one pair.                                 *)
LEMMA FewerTasks ==
    ASSUME NEW x \in Node, NEW y \in Node,
           \A t \in timers'[x] : t.to = y => t \in timers[x]
    PROVE  Tasks(x, y)' \subseteq Tasks(x, y)
BY DEF Tasks

LEMMA DirKept ==
    ASSUME NEW x \in Node, NEW y \in Node, Kept(x, y), Kept(y, x), Dir(x, y)
    PROVE  Dir(x, y)'
<1>1. Tasks(x, y)' \in SUBSET Tasks(x, y)
  BY FewerTasks DEF Kept
<1>2. Sound(channel[x][y], channel[y][x], lastUsed[x][y], submitted[x][y], sentButNoAck[x][y],
            last[y][x], buf[y][x], delivered[y][x], Tasks(x, y)')
  BY <1>1, TasksGone DEF Dir
<1> QED  BY <1>2 DEF Dir, Kept

LEMMA StreamStep ==
    ASSUME StreamInv, SyncInv', NEW n \in Node, NEW m \in Node,
           \A x, y \in Node : (x # n \/ y # m) /\ (x # m \/ y # n) => Kept(x, y),
           \A x \in Node : submitted'[x][x] = submitted[x][x] /\ delivered'[x][x] = delivered[x][x],
           n # m /\ Together(n, m)' => Dir(n, m)' /\ Dir(m, n)'
    PROVE  StreamInv'
<1>1. \A x \in Node : submitted'[x][x] = <<>> /\ delivered'[x][x] = <<>>
  BY DEF StreamInv
<1>2. ASSUME NEW x \in Node, NEW y \in Peers(x), Together(x, y)'
      PROVE  Dir(x, y)'
  <2>1. y \in Node /\ x # y
    BY DEF Peers
  <2>2. CASE (x # n \/ y # m) /\ (x # m \/ y # n)
    <3>1. Kept(x, y) /\ Kept(y, x)
      BY <2>1, <2>2
    <3>2. Together(x, y)
      BY <1>2, <3>1 DEF Together, Kept
    <3> QED  BY <2>1, <3>1, <3>2, DirKept DEF StreamInv
  <2>3. CASE (x = n /\ y = m) \/ (x = m /\ y = n)
    BY <1>2, <2>1, <2>3 DEF Together
  <2> QED  BY <2>2, <2>3
<1> QED  BY <1>1, <1>2 DEF StreamInv

(* What the pair was before.                                               *)
LEMMA BothSound ==
    ASSUME StreamInv, NEW n \in Node, NEW m \in Peers(n), Together(n, m)
    PROVE  Dir(n, m) /\ Dir(m, n)
BY DEF StreamInv, Together, Peers

(* A number, a timer and a place in the channel for a new packet.          *)
LEMMA NumberTaken ==
    ASSUME TypeOK, TypeOK', NEW n \in Node, NEW m \in Node, NEW p,
           NumberLeft(n, m), TakeNumber(n, m), Schedule(n, m, p)
    PROVE  /\ lastUsed[n][m] \in Numbers /\ lastUsed[n][m] + 1 \in Numbers
           /\ lastUsed'[n][m] = lastUsed[n][m] + 1
           /\ \A x, y \in Node : x # n \/ y # m => lastUsed'[x][y] = lastUsed[x][y]
           /\ Tasks(n, m)' \in SUBSET Packet /\ Tasks(n, m)' \subseteq Tasks(n, m) \cup {p}
           /\ \A x, y \in Node : x # n \/ y # m =>
                 \A t \in timers'[x] : t.to = y => t \in timers[x]
<1>1. lastUsed \in [Node -> [Node -> Numbers]] /\ timers' \in [Node -> SUBSET Task]
  BY DEF TypeOK
<1>2. lastUsed[n][m] + 1 \in Numbers
  BY <1>1, NumberFacts DEF NumberLeft
<1>3. /\ lastUsed'[n][m] = lastUsed[n][m] + 1
      /\ \A x, y \in Node : x # n \/ y # m => lastUsed'[x][y] = lastUsed[x][y]
  BY <1>1 DEF TakeNumber
<1>4. \A x, y \in Node : \A t \in timers'[x] :
         t.to = y => t \in timers[x] \/ (x = n /\ y = m /\ t.packet = p)
  BY ScheduleTimers
<1>5. Tasks(n, m)' \subseteq Tasks(n, m) \cup {p}
  BY <1>4 DEF Tasks
<1>6. Tasks(n, m)' \in SUBSET Packet
  <2>1. \A t \in timers'[n] : t.packet \in Packet
    BY <1>1 DEF Task
  <2> QED  BY <2>1 DEF Tasks
<1> QED  BY <1>1, <1>2, <1>3, <1>4, <1>5, <1>6

LEMMA ConsumeOne ==
    ASSUME TypeOK, NEW n \in Node, NEW m \in Node, n # m, NEW k, NEW p \in Packet,
           Consume(n, m, k, <<p>>)
    PROVE  /\ channel'[m][n] = RemoveAt(channel[m][n], k)
           /\ channel'[n][m] = Append(channel[n][m], p)
           /\ \A x, y \in Node : (x # n \/ y # m) /\ (x # m \/ y # n) =>
                 channel'[x][y] = channel[x][y]
<1>1. channel[n][m] \in Seq(Packet)
  BY DEF TypeOK
<1>2. channel[n][m] \o <<p>> = Append(channel[n][m], p)
  BY <1>1, ConcatOne
<1> DEFINE t == <<p>>
           o == channel[n][m] \o t
<1>3. Consume(n, m, k, t)
  OBVIOUS
<1> HIDE DEF t
<1>4. /\ channel'[m][n] = RemoveAt(channel[m][n], k)
      /\ channel'[n][m] = o
      /\ \A x, y \in Node : (x # n \/ y # m) /\ (x # m \/ y # n) =>
            channel'[x][y] = channel[x][y]
  BY <1>3, ConsumeChannels
<1>5. o = Append(channel[n][m], p)
  BY <1>2 DEF t
<1> HIDE DEF o
<1> QED  BY <1>4, <1>5

LEMMA ConsumeNone ==
    ASSUME TypeOK, NEW n \in Node, NEW m \in Node, n # m, NEW k,
           Consume(n, m, k, <<>>)
    PROVE  /\ channel'[m][n] = RemoveAt(channel[m][n], k)
           /\ channel'[n][m] = channel[n][m]
           /\ \A x, y \in Node : (x # n \/ y # m) /\ (x # m \/ y # n) =>
                 channel'[x][y] = channel[x][y]
<1>1. channel[n][m] \in Seq(Packet)
  BY DEF TypeOK
<1>2. channel[n][m] \o <<>> = channel[n][m]
  BY <1>1, ConcatEmptySeq
<1> DEFINE t == <<>>
           o == channel[n][m] \o t
<1>3. Consume(n, m, k, t)
  OBVIOUS
<1> HIDE DEF t
<1>4. /\ channel'[m][n] = RemoveAt(channel[m][n], k)
      /\ channel'[n][m] = o
      /\ \A x, y \in Node : (x # n \/ y # m) /\ (x # m \/ y # n) =>
            channel'[x][y] = channel[x][y]
  BY <1>3, ConsumeChannels
<1>5. o = channel[n][m]
  BY <1>2 DEF t
<1> HIDE DEF o
<1> QED  BY <1>4, <1>5

----------------------------------------------------------------------------
(* The steps.                                                              *)

LEMMA AnnounceStream ==
    ASSUME StreamInv, SyncInv', NEW n \in Node, Announce(n)
    PROVE  StreamInv'
<1>1. /\ channel' = [channel EXCEPT ![n] =
            [m \in Node |-> IF m = n THEN @[m] ELSE Append(@[m], Announcement)]]
      /\ channel \in [Node -> [Node -> Seq(Packet)]]
  BY DEF Announce, StreamInv, SyncInv, TypeOK
<1>2. UNCHANGED <<lastUsed, sentButNoAck, timers, session, last, buf, delivered, submitted>>
  BY DEF Announce, tracking, membership, ordering
<1>3. \A x, y \in Node : channel'[x][y] =
         IF x = n /\ y # n THEN Append(channel[x][y], Announcement) ELSE channel[x][y]
  BY <1>1
<1>4. Announcement \in Packet /\ Announcement.kind = "ANN"
  BY NumberFacts DEF Packet, Announcement
<1>5. ASSUME NEW x \in Node, NEW y \in Peers(x), Together(x, y)'
      PROVE  Dir(x, y)'
  <2>1. y \in Node /\ x # y /\ Together(x, y)
    BY <1>2, <1>5 DEF Peers, Together
  <2>2. Sound(channel[x][y], channel[y][x], lastUsed[x][y], submitted[x][y],
              sentButNoAck[x][y], last[y][x], buf[y][x], delivered[y][x], Tasks(x, y))
    BY <2>1 DEF StreamInv, Dir
  <2>3. Tasks(x, y)' = Tasks(x, y)
    BY <1>2 DEF Tasks
  <2>4. Sound(channel'[x][y], channel'[y][x], lastUsed[x][y], submitted[x][y],
              sentButNoAck[x][y], last[y][x], buf[y][x], delivered[y][x], Tasks(x, y))
    <3>1. CASE x = n
      <4>1. /\ channel'[x][y] = Append(channel[x][y], Announcement)
            /\ channel'[y][x] = channel[y][x]
        BY <1>3, <2>1, <3>1
      <4> QED  BY <1>4, <2>2, <4>1, TrafficAdded
    <3>2. CASE y = n
      <4>1. /\ channel'[y][x] = Append(channel[y][x], Announcement)
            /\ channel'[x][y] = channel[x][y]
        BY <1>3, <2>1, <3>2
      <4> QED  BY <1>4, <2>2, <4>1, AnswerAdded
    <3>3. CASE x # n /\ y # n
      BY <1>3, <2>1, <2>2, <3>3
    <3> QED  BY <3>1, <3>2, <3>3
  <2> QED  BY <1>2, <2>3, <2>4 DEF Dir
<1> QED  BY <1>2, <1>5 DEF StreamInv

LEMMA SendDataStream ==
    ASSUME StreamInv, SyncInv', NEW n \in Node, NEW m \in Peers(n), SendData(n, m)
    PROVE  StreamInv'
<1> DEFINE p == Data(lastUsed[n][m], session[n][m])
<1>1. TypeOK /\ TypeOK' /\ m \in Node /\ n # m
  BY DEF StreamInv, SyncInv, Peers
<1>2. /\ NumberLeft(n, m) /\ TakeNumber(n, m) /\ Schedule(n, m, p)
      /\ channel' = [channel EXCEPT ![n][m] = Append(@, p)]
      /\ sentButNoAck' = [sentButNoAck EXCEPT ![n][m] = @ \cup {p.seq}]
      /\ submitted' = [submitted EXCEPT ![n][m] = Append(@, <<p.session, p.seq>>)]
      /\ UNCHANGED <<session, sentSynAck, network, last, buf, delivered>>
  BY DEF SendData, membership, ordering
<1>3. /\ p.seq = lastUsed[n][m] /\ p.session = session[n][m] /\ p.kind = "DATA"
      /\ p \in Packet
  <2>1. lastUsed[n][m] \in Numbers /\ session[n][m] \in Nat
    BY <1>1 DEF TypeOK
  <2> QED  BY <2>1, NewPacketTypes, NumberFacts DEF Data
<1>4. last[m][n] # NoSeq
  BY <1>1 DEF SendData, StreamInv, SyncInv, NetworkMeansSynced
<1> HIDE DEF p
<1>5. /\ lastUsed[n][m] \in Numbers /\ lastUsed[n][m] + 1 \in Numbers
      /\ lastUsed'[n][m] = lastUsed[n][m] + 1
      /\ \A x, y \in Node : x # n \/ y # m => lastUsed'[x][y] = lastUsed[x][y]
      /\ Tasks(n, m)' \in SUBSET Packet /\ Tasks(n, m)' \subseteq Tasks(n, m) \cup {p}
      /\ \A x, y \in Node : x # n \/ y # m =>
            \A t \in timers'[x] : t.to = y => t \in timers[x]
  BY <1>1, <1>2, NumberTaken
<1>6. /\ channel'[n][m] = Append(channel[n][m], p)
      /\ \A x, y \in Node : x # n \/ y # m => channel'[x][y] = channel[x][y]
  BY <1>1, <1>2 DEF TypeOK
<1>7. /\ sentButNoAck'[n][m] = sentButNoAck[n][m] \cup {lastUsed[n][m]}
      /\ \A x, y \in Node : x # n \/ y # m => sentButNoAck'[x][y] = sentButNoAck[x][y]
  BY <1>1, <1>2, <1>3 DEF TypeOK
<1>8. /\ submitted'[n][m] = Append(submitted[n][m], <<session[n][m], lastUsed[n][m]>>)
      /\ \A x, y \in Node : x # n \/ y # m => submitted'[x][y] = submitted[x][y]
  <2> DEFINE v == Append(submitted[n][m], <<p.session, p.seq>>)
  <2>1. submitted \in [Node -> [Node -> Seq(Nat \X Numbers)]]
    BY <1>1 DEF TypeOK
  <2>2. submitted' = [submitted EXCEPT ![n][m] = v]
    BY <1>1, <1>2, <2>1
  <2>3. v = Append(submitted[n][m], <<session[n][m], lastUsed[n][m]>>)
    BY <1>3
  <2> HIDE DEF v
  <2>4. /\ submitted'[n][m] = v
        /\ \A x, y \in Node : x # n \/ y # m => submitted'[x][y] = submitted[x][y]
    BY <1>1, <2>1, <2>2
  <2> QED  BY <2>3, <2>4
<1>9. \A x, y \in Node : (x # n \/ y # m) /\ (x # m \/ y # n) => Kept(x, y)
  <2>1. \A x, y \in Node : x # n \/ y # m =>
           /\ lastUsed'[x][y] = lastUsed[x][y] /\ channel'[x][y] = channel[x][y]
           /\ sentButNoAck'[x][y] = sentButNoAck[x][y]
           /\ submitted'[x][y] = submitted[x][y]
           /\ \A t \in timers'[x] : t.to = y => t \in timers[x]
    BY <1>5, <1>6, <1>7, <1>8
  <2>2. UNCHANGED <<session, sentSynAck, network, last, buf, delivered>>
    BY <1>2
  <2> QED  BY <2>1, <2>2 DEF Kept
<1>10. ASSUME Together(n, m)' PROVE Dir(n, m)' /\ Dir(m, n)'
  <2>1. session[n][m] = 0 /\ Dir(n, m) /\ Dir(m, n)
    <3>1. Together(n, m)
      BY <1>2, <1>10 DEF Together
    <3> QED  BY <3>1, BothSound DEF Together
  <2>2. Sound(channel'[n][m], channel[m][n], lastUsed'[n][m], submitted'[n][m],
              sentButNoAck'[n][m], last[m][n], buf[m][n], delivered[m][n], Tasks(n, m)')
    <3> DEFINE D == submitted[n][m]
               E == Append(D, <<0, lastUsed[n][m]>>)
    <3>1. Sound(channel[n][m], channel[m][n], lastUsed[n][m], D,
                sentButNoAck[n][m], last[m][n], buf[m][n], delivered[m][n], Tasks(n, m))
      BY <2>1 DEF Dir
    <3>2. submitted'[n][m] = E
      BY <1>8, <2>1
    <3>3. p.session = 0
      BY <1>3, <2>1
    <3> HIDE DEF D
    <3>4. Sound(Append(channel[n][m], p), channel[m][n], lastUsed[n][m] + 1, E,
                sentButNoAck[n][m] \cup {lastUsed[n][m]}, last[m][n], buf[m][n],
                delivered[m][n], Tasks(n, m)')
      BY <1>3, <1>4, <1>5, <3>1, <3>3, NumberedAdded
    <3> QED  BY <1>5, <1>6, <1>7, <3>2, <3>4
  <2>3. Dir(n, m)'
    BY <1>1, <1>2, <1>6, <2>2 DEF Dir
  <2>4. Sound(channel[m][n], channel'[n][m], lastUsed[m][n], submitted[m][n],
              sentButNoAck[m][n], last[n][m], buf[n][m], delivered[n][m], Tasks(m, n))
    BY <1>3, <1>6, <2>1, AnswerAdded DEF Dir
  <2>5. Tasks(m, n)' \in SUBSET Tasks(m, n)
    BY <1>1, <1>5, FewerTasks
  <2>6. Sound(channel[m][n], channel'[n][m], lastUsed[m][n], submitted[m][n],
              sentButNoAck[m][n], last[n][m], buf[n][m], delivered[n][m], Tasks(m, n)')
    BY <2>4, <2>5, TasksGone
  <2>7. Dir(m, n)'
    BY <1>1, <1>2, <1>5, <1>6, <1>7, <1>8, <2>6 DEF Dir
  <2> QED  BY <2>3, <2>7
<1>11. \A x \in Node : submitted'[x][x] = submitted[x][x] /\ delivered'[x][x] = delivered[x][x]
  BY <1>1, <1>2, <1>8
<1> QED  BY <1>1, <1>9, <1>10, <1>11, StreamStep

(* Hellos are received first in their channel, nothing else before one.    *)
LEMMA ReceivedInPlace ==
    ASSUME HellosInPlace, TypeOK, NEW n \in Node, NEW m \in Peers(n),
           NEW k \in DOMAIN channel[m][n], NEW kind, Receivable(n, m, k, kind)
    PROVE  /\ m \in Node /\ n # m /\ k \in 1..Len(channel[m][n])
           /\ channel[m][n][k] \in Packet /\ channel[m][n][k].kind = kind
           /\ kind \in Hello => k = 1
           /\ kind \notin Hello => \A i \in 1..k : channel[m][n][i].kind \notin Hello
<1>1. /\ m \in Node /\ n # m /\ k \in 1..Len(channel[m][n]) /\ channel[m][n][k] \in Packet
  BY ReceivedPacket
<1>2. /\ channel[m][n][k].kind = kind
      /\ k = 1 \/ \A i \in 1..k : channel[m][n][i].kind \in Overtaking
  BY DEF Receivable
<1>3. \A h \in Overtaking : h \notin Hello
  BY DEF HellosInPlace
<1> DEFINE C == channel[m][n]
<1>4. k \in Nat \ {0} /\ C[k].kind = kind /\ (k = 1 \/ \A i \in 1..k : C[i].kind \in Overtaking)
  BY <1>1, <1>2
<1> HIDE DEF C
<1>5. kind \in Hello => k = 1
  BY <1>3, <1>4
<1>6. ASSUME kind \notin Hello, NEW i \in 1..k PROVE C[i].kind \notin Hello
  BY <1>3, <1>4, <1>6
<1> QED  BY <1>1, <1>2, <1>5, <1>6 DEF C

LEMMA ReceiveAnnounceStream ==
    ASSUME HellosInPlace, StreamInv, SyncInv', NEW n \in Node, NEW m \in Peers(n),
           NEW k \in DOMAIN channel[m][n], ReceiveAnnounce(n, m, k)
    PROVE  StreamInv'
<1> DEFINE p == Syn(lastUsed[n][m], session[n][m])
<1>1. /\ TypeOK /\ TypeOK' /\ m \in Node /\ n # m /\ k \in 1..Len(channel[m][n])
      /\ channel[m][n][k].kind = "ANN"
  <2>1. TypeOK /\ TypeOK' /\ Receivable(n, m, k, "ANN")
    BY DEF StreamInv, SyncInv, ReceiveAnnounce
  <2> QED  BY <2>1, ReceivedInPlace
<1>2. /\ NumberLeft(n, m) /\ TakeNumber(n, m) /\ Schedule(n, m, p)
      /\ Consume(n, m, k, <<p>>)
      /\ sentButNoAck' = [sentButNoAck EXCEPT ![n][m] = @ \cup {p.seq}]
      /\ UNCHANGED <<session, sentSynAck, network, last, buf, delivered, submitted>>
  BY DEF ReceiveAnnounce, membership, ordering
<1>3. p.seq = lastUsed[n][m] /\ p.kind = "SYN" /\ p \in Packet
  <2>1. lastUsed[n][m] \in Numbers /\ session[n][m] \in Nat
    BY <1>1 DEF TypeOK
  <2> QED  BY <2>1, NewPacketTypes, NumberFacts DEF Syn
<1> HIDE DEF p
<1>4. /\ lastUsed[n][m] \in Numbers /\ lastUsed[n][m] + 1 \in Numbers
      /\ lastUsed'[n][m] = lastUsed[n][m] + 1
      /\ \A x, y \in Node : x # n \/ y # m => lastUsed'[x][y] = lastUsed[x][y]
      /\ Tasks(n, m)' \in SUBSET Packet /\ Tasks(n, m)' \subseteq Tasks(n, m) \cup {p}
      /\ \A x, y \in Node : x # n \/ y # m =>
            \A t \in timers'[x] : t.to = y => t \in timers[x]
  BY <1>1, <1>2, NumberTaken
<1>5. /\ channel'[m][n] = RemoveAt(channel[m][n], k)
      /\ channel'[n][m] = Append(channel[n][m], p)
      /\ \A x, y \in Node : (x # n \/ y # m) /\ (x # m \/ y # n) =>
            channel'[x][y] = channel[x][y]
  BY <1>1, <1>2, <1>3, ConsumeOne
<1>6. /\ sentButNoAck'[n][m] = sentButNoAck[n][m] \cup {lastUsed[n][m]}
      /\ \A x, y \in Node : x # n \/ y # m => sentButNoAck'[x][y] = sentButNoAck[x][y]
  BY <1>1, <1>2, <1>3 DEF TypeOK
<1>7. \A x, y \in Node : (x # n \/ y # m) /\ (x # m \/ y # n) => Kept(x, y)
  <2>1. \A x, y \in Node : (x # n \/ y # m) /\ (x # m \/ y # n) =>
           /\ lastUsed'[x][y] = lastUsed[x][y] /\ channel'[x][y] = channel[x][y]
           /\ sentButNoAck'[x][y] = sentButNoAck[x][y]
           /\ \A t \in timers'[x] : t.to = y => t \in timers[x]
    BY <1>4, <1>5, <1>6
  <2>2. UNCHANGED <<session, sentSynAck, network, last, buf, delivered, submitted>>
    BY <1>2
  <2> QED  BY <2>1, <2>2 DEF Kept
<1>8. ASSUME Together(n, m)' PROVE Dir(n, m)' /\ Dir(m, n)'
  <2>1. Dir(n, m) /\ Dir(m, n)
    <3>1. Together(n, m)
      BY <1>2, <1>8 DEF Together
    <3> QED  BY <3>1, BothSound
  <2>2. Sound(channel'[n][m], channel'[m][n], lastUsed'[n][m], submitted[n][m],
              sentButNoAck'[n][m], last[m][n], buf[m][n], delivered[m][n], Tasks(n, m)')
    <3>1. Sound(channel[n][m], channel[m][n], lastUsed[n][m], submitted[n][m],
                sentButNoAck[n][m], last[m][n], buf[m][n], delivered[m][n], Tasks(n, m))
      BY <2>1 DEF Dir
    <3>2. p.kind \in Hello
      BY <1>3 DEF Hello
    <3>3. Sound(channel'[n][m], channel[m][n], lastUsed[n][m] + 1, submitted[n][m],
                sentButNoAck'[n][m], last[m][n], buf[m][n], delivered[m][n], Tasks(n, m)')
      BY <1>3, <1>4, <1>5, <1>6, <3>1, <3>2, NumberedAdded
    <3>4. ~AnswerTo(channel[m][n][k], channel[m][n][k].ack)
      BY <1>1 DEF AnswerTo
    <3> QED  BY <1>1, <1>4, <1>5, <3>3, <3>4, AnswerGone
  <2>3. Dir(n, m)'
    BY <1>2, <2>2 DEF Dir
  <2>4. Sound(channel'[m][n], channel'[n][m], lastUsed[m][n], submitted[m][n],
              sentButNoAck[m][n], last[n][m], buf[n][m], delivered[n][m], Tasks(m, n)')
    <3>1. Sound(channel[m][n], channel[n][m], lastUsed[m][n], submitted[m][n],
                sentButNoAck[m][n], last[n][m], buf[n][m], delivered[n][m], Tasks(m, n))
      BY <2>1 DEF Dir
    <3>2. channel[m][n][k].kind \notin Hello
      BY <1>1 DEF Hello
    <3>3. Sound(channel'[m][n], channel[n][m], lastUsed[m][n], submitted[m][n],
                sentButNoAck[m][n], last[n][m], buf[n][m], delivered[n][m], Tasks(m, n))
      BY <1>1, <1>5, <3>1, <3>2, TrafficGone
    <3>4. Sound(channel'[m][n], channel'[n][m], lastUsed[m][n], submitted[m][n],
                sentButNoAck[m][n], last[n][m], buf[n][m], delivered[n][m], Tasks(m, n))
      BY <1>3, <1>5, <3>3, AnswerAdded
    <3>5. Tasks(m, n)' \in SUBSET Tasks(m, n)
      BY <1>1, <1>4, FewerTasks
    <3> QED  BY <3>4, <3>5, TasksGone
  <2>5. Dir(m, n)'
    BY <1>1, <1>2, <1>4, <1>6, <2>4 DEF Dir
  <2> QED  BY <2>3, <2>5
<1>9. \A x \in Node : submitted'[x][x] = submitted[x][x] /\ delivered'[x][x] = delivered[x][x]
  BY <1>2
<1> QED  BY <1>1, <1>7, <1>8, <1>9, StreamStep

LEMMA ReceiveSynStream ==
    ASSUME HellosInPlace, StreamInv, SyncInv', NEW n \in Node, NEW m \in Peers(n),
           NEW k \in DOMAIN channel[m][n], ReceiveSyn(n, m, k)
    PROVE  StreamInv'
<1> DEFINE p == channel[m][n][k]
           r == SynAck(lastUsed[n][m], p.seq, session[n][m])
<1>1. /\ TypeOK /\ TypeOK' /\ m \in Node /\ n # m /\ k \in 1..Len(channel[m][n])
      /\ p \in Packet /\ p.kind = "SYN" /\ k = 1
  <2>1. TypeOK /\ TypeOK' /\ Receivable(n, m, k, "SYN")
    BY DEF StreamInv, SyncInv, ReceiveSyn
  <2> QED  BY <2>1, ReceivedInPlace DEF Hello
<1>2. /\ NumberLeft(n, m) /\ TakeNumber(n, m) /\ Schedule(n, m, r)
      /\ Consume(n, m, k, <<r>>)
      /\ UNCHANGED <<session, network, delivered, submitted>>
  BY DEF ReceiveSyn
<1>3. sentSynAck' = [sentSynAck EXCEPT ![n][m] = @ \cup {r.seq}]
  BY DEF ReceiveSyn
<1>4. PICK o \in OnSyn(last[n][m], buf[n][m], p) :
         /\ last' = [last EXCEPT ![n][m] = o.last]
         /\ buf' = [buf EXCEPT ![n][m] = o.buf]
         /\ sentButNoAck' = [sentButNoAck EXCEPT ![n][m] =
               IF o.adopted /\ last[n][m] # NoSeq
               THEN IF n \in DataFirst THEN {r.seq} ELSE {}
               ELSE @ \cup {r.seq}]
  BY DEF ReceiveSyn
<1>5. /\ r.seq = lastUsed[n][m] /\ r.kind = "SYNACK" /\ r \in Packet /\ r.ack = p.seq
      /\ AnswerTo(r, p.seq)
  <2>1. lastUsed[n][m] \in Numbers /\ session[n][m] \in Nat /\ p.seq \in Numbers
    BY <1>1 DEF TypeOK, Packet
  <2> HIDE DEF p, r
  <2>2. r \in Packet
    BY <2>1, NewPacketTypes DEF r
  <2>3. r.seq = lastUsed[n][m] /\ r.kind = "SYNACK" /\ r.ack = p.seq
    BY DEF r, SynAck
  <2>4. AnswerTo(r, p.seq)
    BY <2>3, Zenon DEF AnswerTo
  <2> QED  BY <2>2, <2>3, <2>4, Zenon
<1> HIDE DEF r
<1>6. /\ lastUsed[n][m] \in Numbers /\ lastUsed[n][m] + 1 \in Numbers
      /\ lastUsed'[n][m] = lastUsed[n][m] + 1
      /\ \A x, y \in Node : x # n \/ y # m => lastUsed'[x][y] = lastUsed[x][y]
      /\ Tasks(n, m)' \in SUBSET Packet /\ Tasks(n, m)' \subseteq Tasks(n, m) \cup {r}
      /\ \A x, y \in Node : x # n \/ y # m =>
            \A t \in timers'[x] : t.to = y => t \in timers[x]
  BY <1>1, <1>2, NumberTaken
<1>7. /\ channel'[m][n] = RemoveAt(channel[m][n], k)
      /\ channel'[n][m] = Append(channel[n][m], r)
      /\ \A x, y \in Node : (x # n \/ y # m) /\ (x # m \/ y # n) =>
            channel'[x][y] = channel[x][y]
  BY <1>1, <1>2, <1>5, ConsumeOne
<1>8. /\ last'[n][m] = o.last /\ buf'[n][m] = o.buf
      /\ \A x, y \in Node : x # n \/ y # m =>
            /\ last'[x][y] = last[x][y] /\ buf'[x][y] = buf[x][y]
            /\ sentButNoAck'[x][y] = sentButNoAck[x][y]
            /\ sentSynAck'[x][y] = sentSynAck[x][y]
  <2> HIDE DEF p
  <2>1. last'[n][m] = o.last /\ \A x, y \in Node : x # n \/ y # m => last'[x][y] = last[x][y]
    BY <1>1, <1>4 DEF TypeOK
  <2>2. buf'[n][m] = o.buf /\ \A x, y \in Node : x # n \/ y # m => buf'[x][y] = buf[x][y]
    BY <1>1, <1>4 DEF TypeOK
  <2>3. \A x, y \in Node : x # n \/ y # m => sentButNoAck'[x][y] = sentButNoAck[x][y]
    BY <1>1, <1>4 DEF TypeOK
  <2>4. \A x, y \in Node : x # n \/ y # m => sentSynAck'[x][y] = sentSynAck[x][y]
    BY <1>1, <1>3 DEF TypeOK
  <2> QED  BY <2>1, <2>2, <2>3, <2>4
<1>9. \A x, y \in Node : (x # n \/ y # m) /\ (x # m \/ y # n) => Kept(x, y)
  <2>1. \A x, y \in Node : (x # n \/ y # m) /\ (x # m \/ y # n) =>
           /\ lastUsed'[x][y] = lastUsed[x][y] /\ channel'[x][y] = channel[x][y]
           /\ \A t \in timers'[x] : t.to = y => t \in timers[x]
    BY <1>6, <1>7
  <2>2. UNCHANGED <<session, network, delivered, submitted>>
    BY <1>2
  <2> QED  BY <1>8, <2>1, <2>2 DEF Kept
<1>10. ASSUME Together(n, m)' PROVE Dir(n, m)' /\ Dir(m, n)'
  <2>1. Dir(n, m) /\ Dir(m, n)
    <3>1. Together(n, m)
      BY <1>2, <1>10 DEF Together
    <3> QED  BY <3>1, BothSound
  <2>2. /\ ~(o.adopted /\ last[n][m] # NoSeq)
        /\ Sound(channel'[m][n], channel'[n][m], lastUsed[m][n], submitted[m][n],
                 sentButNoAck[m][n], last'[n][m], buf'[n][m], delivered[n][m], Tasks(m, n))
    <3> DEFINE C == channel[m][n]
               R == channel[n][m]
    <3>1. Sound(C, R, lastUsed[m][n], submitted[m][n], sentButNoAck[m][n],
                last[n][m], buf[n][m], delivered[n][m], Tasks(m, n))
      BY <2>1 DEF Dir
    <3>2. C[1].kind \in Hello /\ 1 \in 1..Len(C) /\ AnswerTo(r, C[1].seq)
      BY <1>1, <1>5 DEF Hello
    <3>3. o \in OnSyn(last[n][m], buf[n][m], C[1])
      BY <1>1
    <3> HIDE DEF C, R
    <3>4. /\ ~(o.adopted /\ last[n][m] # NoSeq)
          /\ Sound(RemoveAt(C, 1), Append(R, r), lastUsed[m][n], submitted[m][n],
                   sentButNoAck[m][n], o.last, o.buf, delivered[n][m], Tasks(m, n))
      BY <1>5, <3>1, <3>2, <3>3, HelloComes
    <3> QED  BY <1>1, <1>7, <1>8, <3>4 DEF C, R
  <2>3. Tasks(m, n)' \in SUBSET Tasks(m, n)
    BY <1>1, <1>6, FewerTasks
  <2>4. Sound(channel'[m][n], channel'[n][m], lastUsed[m][n], submitted[m][n],
              sentButNoAck[m][n], last'[n][m], buf'[n][m], delivered[n][m], Tasks(m, n)')
    BY <2>2, <2>3, TasksGone
  <2>5. Dir(m, n)'
    BY <1>1, <1>2, <1>6, <1>8, <2>4 DEF Dir
  <2>6. sentButNoAck'[n][m] = sentButNoAck[n][m] \cup {lastUsed[n][m]}
    <3> HIDE DEF p
    <3>1. sentButNoAck' = [sentButNoAck EXCEPT ![n][m] = @ \cup {r.seq}]
      BY <1>4, <2>2
    <3> QED  BY <1>1, <1>5, <3>1 DEF TypeOK
  <2>7. Sound(channel'[n][m], channel'[m][n], lastUsed'[n][m], submitted[n][m],
              sentButNoAck'[n][m], last[m][n], buf[m][n], delivered[m][n], Tasks(n, m)')
    <3>1. Sound(channel[n][m], channel[m][n], lastUsed[n][m], submitted[n][m],
                sentButNoAck[n][m], last[m][n], buf[m][n], delivered[m][n], Tasks(n, m))
      BY <2>1 DEF Dir
    <3>2. r.kind \in Hello
      BY <1>5 DEF Hello
    <3>3. Sound(channel'[n][m], channel[m][n], lastUsed[n][m] + 1, submitted[n][m],
                sentButNoAck'[n][m], last[m][n], buf[m][n], delivered[m][n], Tasks(n, m)')
      BY <1>5, <1>6, <1>7, <2>6, <3>1, <3>2, NumberedAdded
    <3>4. ~AnswerTo(channel[m][n][k], channel[m][n][k].ack)
      BY <1>1 DEF AnswerTo
    <3> QED  BY <1>1, <1>6, <1>7, <3>3, <3>4, AnswerGone
  <2>8. Dir(n, m)'
    BY <1>1, <1>2, <1>8, <2>7 DEF Dir
  <2> QED  BY <2>5, <2>8
<1>11. \A x \in Node : submitted'[x][x] = submitted[x][x] /\ delivered'[x][x] = delivered[x][x]
  BY <1>2
<1> QED  BY <1>1, <1>9, <1>10, <1>11, StreamStep

LEMMA ReceiveSynAckStream ==
    ASSUME HellosInPlace, StreamInv, SyncInv', NEW n \in Node, NEW m \in Peers(n),
           NEW k \in DOMAIN channel[m][n], ReceiveSynAck(n, m, k)
    PROVE  StreamInv'
<1> DEFINE p == channel[m][n][k]
           a == Ack(p)
<1>1. /\ TypeOK /\ TypeOK' /\ m \in Node /\ n # m /\ k \in 1..Len(channel[m][n])
      /\ p \in Packet /\ p.kind = "SYNACK" /\ k = 1
  <2>1. TypeOK /\ TypeOK' /\ Receivable(n, m, k, "SYNACK")
    BY DEF StreamInv, SyncInv, ReceiveSynAck
  <2> QED  BY <2>1, ReceivedInPlace DEF Hello
<1>2. /\ Consume(n, m, k, <<a>>)
      /\ UNCHANGED <<lastUsed, timers, session, delivered, submitted>>
  BY DEF ReceiveSynAck
<1>3. /\ network' = [network EXCEPT ![n] = @ \cup {m}]
      /\ sentSynAck' = [sentSynAck EXCEPT ![n][m] = @ \ {p.ack}]
  BY DEF ReceiveSynAck
<1>4. PICK o \in OnSyn(last[n][m], buf[n][m], p) :
         /\ last' = [last EXCEPT ![n][m] = o.last]
         /\ buf' = [buf EXCEPT ![n][m] = o.buf]
         /\ sentButNoAck' = [sentButNoAck EXCEPT ![n][m] =
               IF o.adopted /\ last[n][m] # NoSeq THEN {} ELSE @ \ {p.ack}]
  BY DEF ReceiveSynAck
<1>5. a \in Packet /\ AnswerTo(a, p.seq) /\ a.kind = "ACK"
  <2> HIDE DEF p
  <2>1. a \in Packet
    BY <1>1, NumberFacts DEF Packet, Ack
  <2> QED  BY <1>1, <2>1 DEF Ack, AnswerTo
<1> HIDE DEF a
<1>6. /\ channel'[m][n] = RemoveAt(channel[m][n], k)
      /\ channel'[n][m] = Append(channel[n][m], a)
      /\ \A x, y \in Node : (x # n \/ y # m) /\ (x # m \/ y # n) =>
            channel'[x][y] = channel[x][y]
  BY <1>1, <1>2, <1>5, ConsumeOne
<1>7. /\ last'[n][m] = o.last /\ buf'[n][m] = o.buf
      /\ \A x, y \in Node : x # n \/ y # m =>
            /\ last'[x][y] = last[x][y] /\ buf'[x][y] = buf[x][y]
            /\ sentButNoAck'[x][y] = sentButNoAck[x][y]
            /\ sentSynAck'[x][y] = sentSynAck[x][y]
            /\ y \in network'[x] <=> y \in network[x]
  <2> HIDE DEF p
  <2>1. last'[n][m] = o.last /\ \A x, y \in Node : x # n \/ y # m => last'[x][y] = last[x][y]
    BY <1>1, <1>4 DEF TypeOK
  <2>2. buf'[n][m] = o.buf /\ \A x, y \in Node : x # n \/ y # m => buf'[x][y] = buf[x][y]
    BY <1>1, <1>4 DEF TypeOK
  <2>3. \A x, y \in Node : x # n \/ y # m => sentButNoAck'[x][y] = sentButNoAck[x][y]
    BY <1>1, <1>4 DEF TypeOK
  <2>4. \A x, y \in Node : x # n \/ y # m => sentSynAck'[x][y] = sentSynAck[x][y]
    BY <1>1, <1>3 DEF TypeOK
  <2>5. \A x, y \in Node : x # n \/ y # m => (y \in network'[x] <=> y \in network[x])
    <3>1. network \in [Node -> SUBSET Node]
      BY <1>1 DEF TypeOK
    <3>2. \A x \in Node : network'[x] = IF x = n THEN network[n] \cup {m} ELSE network[x]
      BY <1>3, <3>1
    <3> QED  BY <3>2
  <2> QED  BY <2>1, <2>2, <2>3, <2>4, <2>5
<1>8. \A x, y \in Node : (x # n \/ y # m) /\ (x # m \/ y # n) => Kept(x, y)
  <2>1. \A x, y \in Node : (x # n \/ y # m) /\ (x # m \/ y # n) =>
           channel'[x][y] = channel[x][y]
    BY <1>6
  <2>2. UNCHANGED <<lastUsed, timers, session, delivered, submitted>>
    BY <1>2
  <2> QED  BY <1>7, <2>1, <2>2 DEF Kept
<1>9. ASSUME Together(n, m)' PROVE Dir(n, m)' /\ Dir(m, n)'
  <2>1. Dir(n, m) /\ Dir(m, n)
    <3>1. Together(n, m)
      BY <1>2, <1>9 DEF Together
    <3> QED  BY <3>1, BothSound
  <2>2. /\ ~(o.adopted /\ last[n][m] # NoSeq)
        /\ Sound(channel'[m][n], channel'[n][m], lastUsed[m][n], submitted[m][n],
                 sentButNoAck[m][n], last'[n][m], buf'[n][m], delivered[n][m], Tasks(m, n))
    <3> DEFINE C == channel[m][n]
               R == channel[n][m]
    <3>1. Sound(C, R, lastUsed[m][n], submitted[m][n], sentButNoAck[m][n],
                last[n][m], buf[n][m], delivered[n][m], Tasks(m, n))
      BY <2>1 DEF Dir
    <3>2. C[1].kind \in Hello /\ 1 \in 1..Len(C) /\ AnswerTo(a, C[1].seq)
      BY <1>1, <1>5 DEF Hello
    <3>3. o \in OnSyn(last[n][m], buf[n][m], C[1])
      BY <1>1
    <3> HIDE DEF C, R
    <3>4. /\ ~(o.adopted /\ last[n][m] # NoSeq)
          /\ Sound(RemoveAt(C, 1), Append(R, a), lastUsed[m][n], submitted[m][n],
                   sentButNoAck[m][n], o.last, o.buf, delivered[n][m], Tasks(m, n))
      BY <1>5, <3>1, <3>2, <3>3, HelloComes
    <3> QED  BY <1>1, <1>6, <1>7, <3>4 DEF C, R
  <2>3. Tasks(n, m)' = Tasks(n, m) /\ Tasks(m, n)' = Tasks(m, n)
    BY <1>2 DEF Tasks
  <2>4. Dir(m, n)'
    BY <1>1, <1>2, <1>7, <2>2, <2>3 DEF Dir
  <2>5. sentButNoAck'[n][m] = sentButNoAck[n][m] \ {p.ack}
    <3> HIDE DEF p
    <3>1. sentButNoAck' = [sentButNoAck EXCEPT ![n][m] = @ \ {p.ack}]
      BY <1>4, <2>2
    <3> QED  BY <1>1, <3>1 DEF TypeOK
  <2>6. Sound(channel'[n][m], channel'[m][n], lastUsed[n][m], submitted[n][m],
              sentButNoAck'[n][m], last[m][n], buf[m][n], delivered[m][n], Tasks(n, m))
    <3> DEFINE S == sentButNoAck[n][m]
               P == sentButNoAck'[n][m]
    <3>1. Sound(channel[n][m], channel[m][n], lastUsed[n][m], submitted[n][m],
                S, last[m][n], buf[m][n], delivered[m][n], Tasks(n, m))
      BY <2>1 DEF Dir
    <3>2. P = S \ {channel[m][n][k].ack} /\ channel[m][n][k].kind \in {"SYNACK", "ACK"}
      BY <1>1, <2>5
    <3>3. P \in SUBSET S
      BY <3>2
    <3> HIDE DEF S, P
    <3>4. Sound(channel[n][m], RemoveAt(channel[m][n], k), lastUsed[n][m], submitted[n][m],
                P, last[m][n], buf[m][n], delivered[m][n], Tasks(n, m))
      BY <1>1, <3>1, <3>2, <3>3, AnswerGone
    <3>5. Sound(Append(channel[n][m], a), RemoveAt(channel[m][n], k), lastUsed[n][m],
                submitted[n][m], P, last[m][n], buf[m][n], delivered[m][n], Tasks(n, m))
      BY <1>5, <3>4, TrafficAdded
    <3> QED  BY <1>6, <3>5 DEF P
  <2>7. Dir(n, m)'
    BY <1>1, <1>2, <1>7, <2>3, <2>6 DEF Dir
  <2> QED  BY <2>4, <2>7
<1>10. \A x \in Node : submitted'[x][x] = submitted[x][x] /\ delivered'[x][x] = delivered[x][x]
  BY <1>2
<1> QED  BY <1>1, <1>8, <1>9, <1>10, StreamStep

LEMMA ReceiveAckStream ==
    ASSUME HellosInPlace, StreamInv, SyncInv', NEW n \in Node, NEW m \in Peers(n),
           NEW k \in DOMAIN channel[m][n], ReceiveAck(n, m, k)
    PROVE  StreamInv'
<1> DEFINE p == channel[m][n][k]
<1>1. /\ TypeOK /\ m \in Node /\ n # m /\ k \in 1..Len(channel[m][n])
      /\ p.kind = "ACK"
  <2>1. TypeOK /\ Receivable(n, m, k, "ACK")
    BY DEF StreamInv, SyncInv, ReceiveAck
  <2> QED  BY <2>1, ReceivedInPlace
<1>2. /\ Consume(n, m, k, <<>>)
      /\ UNCHANGED <<lastUsed, timers, session, last, buf, delivered, submitted>>
  BY DEF ReceiveAck, ordering
<1>3. /\ network' = [network EXCEPT ![n] =
            IF p.ack \in sentSynAck[n][m] THEN @ \cup {m} ELSE @]
      /\ sentSynAck' = [sentSynAck EXCEPT ![n][m] = @ \ {p.ack}]
      /\ sentButNoAck' = [sentButNoAck EXCEPT ![n][m] = @ \ {p.ack}]
  BY DEF ReceiveAck
<1>4. /\ channel'[m][n] = RemoveAt(channel[m][n], k)
      /\ channel'[n][m] = channel[n][m]
      /\ \A x, y \in Node : (x # n \/ y # m) /\ (x # m \/ y # n) =>
            channel'[x][y] = channel[x][y]
  BY <1>1, <1>2, ConsumeNone
<1>5. /\ sentButNoAck'[n][m] = sentButNoAck[n][m] \ {p.ack}
      /\ \A x, y \in Node : x # n \/ y # m =>
            /\ sentButNoAck'[x][y] = sentButNoAck[x][y]
            /\ sentSynAck'[x][y] = sentSynAck[x][y]
            /\ y \in network'[x] <=> y \in network[x]
  <2> HIDE DEF p
  <2>1. /\ sentButNoAck'[n][m] = sentButNoAck[n][m] \ {p.ack}
        /\ \A x, y \in Node : x # n \/ y # m => sentButNoAck'[x][y] = sentButNoAck[x][y]
    BY <1>1, <1>3 DEF TypeOK
  <2>2. \A x, y \in Node : x # n \/ y # m => sentSynAck'[x][y] = sentSynAck[x][y]
    BY <1>1, <1>3 DEF TypeOK
  <2>3. \A x, y \in Node : x # n \/ y # m => (y \in network'[x] <=> y \in network[x])
    <3>1. network \in [Node -> SUBSET Node]
      BY <1>1 DEF TypeOK
    <3>2. \A x \in Node : network'[x] = network[x] \/ (x = n /\ network'[x] = network[x] \cup {m})
      BY <1>3, <3>1
    <3> QED  BY <3>2
  <2> QED  BY <2>1, <2>2, <2>3
<1>6. \A x, y \in Node : (x # n \/ y # m) /\ (x # m \/ y # n) => Kept(x, y)
  <2>1. \A x, y \in Node : (x # n \/ y # m) /\ (x # m \/ y # n) =>
           channel'[x][y] = channel[x][y]
    BY <1>4
  <2>2. UNCHANGED <<lastUsed, timers, session, last, buf, delivered, submitted>>
    BY <1>2
  <2> QED  BY <1>5, <2>1, <2>2 DEF Kept
<1>7. ASSUME Together(n, m)' PROVE Dir(n, m)' /\ Dir(m, n)'
  <2>1. Dir(n, m) /\ Dir(m, n)
    <3>1. Together(n, m)
      BY <1>2, <1>7 DEF Together
    <3> QED  BY <3>1, BothSound
  <2>2. Tasks(n, m)' = Tasks(n, m) /\ Tasks(m, n)' = Tasks(m, n)
    BY <1>2 DEF Tasks
  <2>3. Sound(channel'[m][n], channel'[n][m], lastUsed[m][n], submitted[m][n],
              sentButNoAck[m][n], last[n][m], buf[n][m], delivered[n][m], Tasks(m, n))
    <3>1. Sound(channel[m][n], channel[n][m], lastUsed[m][n], submitted[m][n],
                sentButNoAck[m][n], last[n][m], buf[n][m], delivered[n][m], Tasks(m, n))
      BY <2>1 DEF Dir
    <3>2. channel[m][n][k].kind \notin Hello
      BY <1>1 DEF Hello
    <3> QED  BY <1>1, <1>4, <3>1, <3>2, TrafficGone
  <2>4. Dir(m, n)'
    BY <1>1, <1>2, <1>5, <2>2, <2>3 DEF Dir
  <2>5. Sound(channel'[n][m], channel'[m][n], lastUsed[n][m], submitted[n][m],
              sentButNoAck'[n][m], last[m][n], buf[m][n], delivered[m][n], Tasks(n, m))
    <3> DEFINE S == sentButNoAck[n][m]
               P == sentButNoAck'[n][m]
    <3>1. Sound(channel[n][m], channel[m][n], lastUsed[n][m], submitted[n][m],
                S, last[m][n], buf[m][n], delivered[m][n], Tasks(n, m))
      BY <2>1 DEF Dir
    <3>2. P = S \ {channel[m][n][k].ack} /\ channel[m][n][k].kind \in {"SYNACK", "ACK"}
      BY <1>1, <1>5
    <3>3. P \in SUBSET S
      BY <3>2
    <3> HIDE DEF S, P
    <3>4. Sound(channel[n][m], RemoveAt(channel[m][n], k), lastUsed[n][m], submitted[n][m],
                P, last[m][n], buf[m][n], delivered[m][n], Tasks(n, m))
      BY <1>1, <3>1, <3>2, <3>3, AnswerGone
    <3> QED  BY <1>4, <3>4 DEF P
  <2>6. Dir(n, m)'
    BY <1>2, <2>2, <2>5 DEF Dir
  <2> QED  BY <2>4, <2>6
<1>8. \A x \in Node : submitted'[x][x] = submitted[x][x] /\ delivered'[x][x] = delivered[x][x]
  BY <1>2
<1> QED  BY <1>1, <1>6, <1>7, <1>8, StreamStep

LEMMA ReceiveDataStream ==
    ASSUME HellosInPlace, StreamInv, SyncInv', NEW n \in Node, NEW m \in Peers(n),
           NEW k \in DOMAIN channel[m][n], ReceiveData(n, m, k)
    PROVE  StreamInv'
<1> DEFINE p == channel[m][n][k]
           a == Ack(p)
           replies == IF last[n][m] = NoSeq THEN <<>> ELSE <<a>>
<1>1. /\ TypeOK /\ m \in Node /\ n # m /\ k \in 1..Len(channel[m][n])
      /\ p \in Packet /\ p.kind = "DATA" /\ \A i \in 1..k : channel[m][n][i].kind \notin Hello
  <2>1. TypeOK /\ Receivable(n, m, k, "DATA") /\ "DATA" \notin Hello
    BY DEF StreamInv, SyncInv, ReceiveData, Hello
  <2> QED  BY <2>1, ReceivedInPlace
<1>2. /\ Consume(n, m, k, replies)
      /\ UNCHANGED <<lastUsed, sentButNoAck, timers, session, sentSynAck, network, last,
                     delivered, submitted>>
  BY DEF ReceiveData, tracking, membership
<1>3. PICK o \in OnData(last[n][m], buf[n][m], p) : buf' = [buf EXCEPT ![n][m] = o.buf]
  BY DEF ReceiveData
<1>4. a \in Packet /\ a.kind = "ACK" /\ a.ack = p.seq /\ ~AnswerTo(p, p.ack)
  <2> HIDE DEF p
  <2>1. a \in Packet
    BY <1>1, NumberFacts DEF Packet, Ack
  <2>2. a.kind = "ACK" /\ a.ack = p.seq
    BY DEF Ack
  <2>3. ~AnswerTo(p, p.ack)
    BY <1>1 DEF AnswerTo
  <2> QED  BY <2>1, <2>2, <2>3
<1>5. /\ channel'[m][n] = RemoveAt(channel[m][n], k)
      /\ \A x, y \in Node : (x # n \/ y # m) /\ (x # m \/ y # n) =>
            channel'[x][y] = channel[x][y]
  <2> HIDE DEF replies
  <2> QED  BY <1>1, <1>2, ConsumeChannels
<1>6. last[n][m] # NoSeq => channel'[n][m] = Append(channel[n][m], a)
  <2> SUFFICES ASSUME last[n][m] # NoSeq PROVE channel'[n][m] = Append(channel[n][m], a)
    OBVIOUS
  <2>1. Consume(n, m, k, <<a>>)
    BY <1>2
  <2> HIDE DEF a
  <2> QED  BY <1>1, <1>4, <2>1, ConsumeOne
<1> HIDE DEF a, replies
<1>7. /\ buf'[n][m] = o.buf
      /\ \A x, y \in Node : x # n \/ y # m => buf'[x][y] = buf[x][y]
  BY <1>1, <1>3 DEF TypeOK
<1>8. \A x, y \in Node : (x # n \/ y # m) /\ (x # m \/ y # n) => Kept(x, y)
  <2>1. \A x, y \in Node : (x # n \/ y # m) /\ (x # m \/ y # n) =>
           channel'[x][y] = channel[x][y] /\ buf'[x][y] = buf[x][y]
    BY <1>5, <1>7
  <2>2. UNCHANGED <<lastUsed, sentButNoAck, timers, session, sentSynAck, network, last,
                    delivered, submitted>>
    BY <1>2
  <2> QED  BY <2>1, <2>2 DEF Kept
<1>9. ASSUME Together(n, m)' PROVE Dir(n, m)' /\ Dir(m, n)'
  <2>1. Dir(n, m) /\ Dir(m, n)
    <3>1. Together(n, m)
      BY <1>2, <1>9 DEF Together
    <3> QED  BY <3>1, BothSound
  <2>2. Tasks(n, m)' = Tasks(n, m) /\ Tasks(m, n)' = Tasks(m, n)
    BY <1>2 DEF Tasks
  <2>3. /\ last[n][m] # NoSeq
        /\ Has(last[n][m], buf'[n][m], p.seq)
        /\ Sound(channel'[m][n], channel[n][m], lastUsed[m][n], submitted[m][n],
                 sentButNoAck[m][n], last[n][m], buf'[n][m], delivered[n][m], Tasks(m, n))
    <3> DEFINE C == channel[m][n]
    <3>1. Sound(C, channel[n][m], lastUsed[m][n], submitted[m][n],
                sentButNoAck[m][n], last[n][m], buf[n][m], delivered[n][m], Tasks(m, n))
      BY <2>1 DEF Dir
    <3>2. /\ k \in 1..Len(C) /\ C[k].kind = "DATA" /\ \A i \in 1..k : C[i].kind \notin Hello
          /\ o \in OnData(last[n][m], buf[n][m], C[k])
      BY <1>1
    <3> HIDE DEF C
    <3>3. /\ last[n][m] # NoSeq
          /\ Has(last[n][m], o.buf, C[k].seq)
          /\ Sound(RemoveAt(C, k), channel[n][m], lastUsed[m][n], submitted[m][n],
                   sentButNoAck[m][n], last[n][m], o.buf, delivered[n][m], Tasks(m, n))
      BY <3>1, <3>2, DataComes
    <3> QED  BY <1>5, <1>7, <3>3 DEF C
  <2>4. channel'[n][m] = Append(channel[n][m], a)
    BY <1>6, <2>3
  <2>5. Sound(channel'[m][n], channel'[n][m], lastUsed[m][n], submitted[m][n],
              sentButNoAck[m][n], last[n][m], buf'[n][m], delivered[n][m], Tasks(m, n))
    BY <1>4, <2>3, <2>4, AnswerAdded
  <2>6. Dir(m, n)'
    BY <1>2, <2>2, <2>5 DEF Dir
  <2>7. Sound(channel'[n][m], channel'[m][n], lastUsed[n][m], submitted[n][m],
              sentButNoAck[n][m], last[m][n], buf[m][n], delivered[m][n], Tasks(n, m))
    <3>1. Sound(channel[n][m], channel[m][n], lastUsed[n][m], submitted[n][m],
                sentButNoAck[n][m], last[m][n], buf[m][n], delivered[m][n], Tasks(n, m))
      BY <2>1 DEF Dir
    <3>2. Sound(channel[n][m], RemoveAt(channel[m][n], k), lastUsed[n][m], submitted[n][m],
                sentButNoAck[n][m], last[m][n], buf[m][n], delivered[m][n], Tasks(n, m))
      BY <1>1, <1>4, <3>1, AnswerGone
    <3>3. Sound(Append(channel[n][m], a), RemoveAt(channel[m][n], k), lastUsed[n][m],
                submitted[n][m], sentButNoAck[n][m], last[m][n], buf[m][n], delivered[m][n],
                Tasks(n, m))
      BY <1>4, <3>2, TrafficAdded
    <3> QED  BY <1>5, <2>4, <3>3
  <2>8. Dir(n, m)'
    BY <1>1, <1>2, <1>7, <2>2, <2>7 DEF Dir
  <2> QED  BY <2>6, <2>8
<1>10. \A x \in Node : submitted'[x][x] = submitted[x][x] /\ delivered'[x][x] = delivered[x][x]
  BY <1>2
<1> QED  BY <1>1, <1>8, <1>9, <1>10, StreamStep

LEMMA LoopStream ==
    ASSUME StreamInv, SyncInv', NEW n \in Node, NEW m \in Peers(n),
           TakeNext(n, m) \/ DropStale(n, m)
    PROVE  StreamInv'
<1> DEFINE p == Head(buf[n][m])
           b == Tail(buf[n][m])
           e == IF p.kind = "DATA"
                THEN Append(delivered[n][m], <<p.session, p.seq>>) ELSE delivered[n][m]
<1>1. TypeOK /\ m \in Node /\ n # m
  BY DEF StreamInv, SyncInv, Peers
<1>2. UNCHANGED <<lastUsed, sentButNoAck, timers, session, sentSynAck, network, channel,
                  submitted>>
  BY DEF TakeNext, DropStale, tracking, membership
<1>3. /\ buf'[n][m] = b
      /\ \A x, y \in Node : x # n \/ y # m => buf'[x][y] = buf[x][y]
  <2>1. buf' = [buf EXCEPT ![n][m] = Tail(@)]
    BY DEF TakeNext, DropStale
  <2> QED  BY <1>1, <2>1 DEF TypeOK
<1>4. CASE TakeNext(n, m)
  <2>1. /\ FrontIsNext(last[n][m], buf[n][m])
        /\ last' = [last EXCEPT ![n][m] = p.seq]
        /\ delivered' = [delivered EXCEPT ![n][m] =
              IF p.kind = "DATA" THEN Append(@, <<p.session, p.seq>>) ELSE @]
    BY <1>4 DEF TakeNext
  <2> HIDE DEF p, b
  <2>2. /\ last'[n][m] = p.seq
        /\ \A x, y \in Node : x # n \/ y # m => last'[x][y] = last[x][y]
    BY <1>1, <2>1 DEF TypeOK
  <2>3. /\ delivered'[n][m] = e
        /\ \A x, y \in Node : x # n \/ y # m => delivered'[x][y] = delivered[x][y]
    <3>1. delivered \in [Node -> [Node -> Seq(Nat \X Numbers)]]
      BY <1>1 DEF TypeOK
    <3>2. delivered' = [delivered EXCEPT ![n][m] = e]
      BY <1>1, <2>1, <3>1
    <3> HIDE DEF e
    <3> QED  BY <1>1, <3>1, <3>2
  <2> HIDE DEF e
  <2>4. \A x, y \in Node : (x # n \/ y # m) /\ (x # m \/ y # n) => Kept(x, y)
    BY <1>2, <1>3, <2>2, <2>3 DEF Kept
  <2>5. ASSUME Together(n, m)' PROVE Dir(n, m)' /\ Dir(m, n)'
    <3>1. Dir(n, m) /\ Dir(m, n)
      <4>1. Together(n, m)
        BY <1>2, <2>5 DEF Together
      <4> QED  BY <4>1, BothSound
    <3>2. Tasks(n, m)' = Tasks(n, m) /\ Tasks(m, n)' = Tasks(m, n)
      BY <1>2 DEF Tasks
    <3>3. Dir(n, m)'
      BY <1>1, <1>2, <1>3, <2>2, <2>3, <3>1, <3>2 DEF Dir
    <3>4. Sound(channel[m][n], channel[n][m], lastUsed[m][n], submitted[m][n],
                sentButNoAck[m][n], p.seq, b, e, Tasks(m, n))
      BY <2>1, <3>1, Taken DEF Dir, p, b, e
    <3>5. Dir(m, n)'
      BY <1>2, <1>3, <2>2, <2>3, <3>2, <3>4 DEF Dir
    <3> QED  BY <3>3, <3>5
  <2>6. \A x \in Node : submitted'[x][x] = submitted[x][x] /\ delivered'[x][x] = delivered[x][x]
    BY <1>1, <1>2, <2>3
  <2> QED  BY <1>1, <2>4, <2>5, <2>6, StreamStep
<1>5. CASE DropStale(n, m)
  <2>1. FrontIsStale(last[n][m], buf[n][m]) /\ UNCHANGED <<last, delivered>>
    BY <1>5 DEF DropStale
  <2> HIDE DEF b, e
  <2>2. \A x, y \in Node : (x # n \/ y # m) /\ (x # m \/ y # n) => Kept(x, y)
    BY <1>2, <1>3, <2>1 DEF Kept
  <2>3. ASSUME Together(n, m)' PROVE Dir(n, m)' /\ Dir(m, n)'
    <3>1. Dir(n, m) /\ Dir(m, n)
      <4>1. Together(n, m)
        BY <1>2, <2>3 DEF Together
      <4> QED  BY <4>1, BothSound
    <3>2. Tasks(n, m)' = Tasks(n, m) /\ Tasks(m, n)' = Tasks(m, n)
      BY <1>2 DEF Tasks
    <3>3. Dir(n, m)'
      BY <1>1, <1>2, <1>3, <2>1, <3>1, <3>2 DEF Dir
    <3>4. Sound(channel[m][n], channel[n][m], lastUsed[m][n], submitted[m][n],
                sentButNoAck[m][n], last[n][m], b, delivered[n][m], Tasks(m, n))
      BY <2>1, <3>1, Dropped DEF Dir, b
    <3>5. Dir(m, n)'
      BY <1>2, <1>3, <2>1, <3>2, <3>4 DEF Dir
    <3> QED  BY <3>3, <3>5
  <2>4. \A x \in Node : submitted'[x][x] = submitted[x][x] /\ delivered'[x][x] = delivered[x][x]
    BY <1>2, <2>1
  <2> QED  BY <1>1, <2>2, <2>3, <2>4, StreamStep
<1> QED  BY <1>4, <1>5

LEMMA LoseStream ==
    ASSUME HellosInPlace, StreamInv, SyncInv', NEW n \in Node, NEW m \in Peers(n),
           NEW k \in DOMAIN channel[m][n], Lose(m, n, k)
    PROVE  StreamInv'
<1> DEFINE p == channel[m][n][k]
<1>1. TypeOK /\ m \in Node /\ n # m /\ k \in 1..Len(channel[m][n])
  BY ReceivedPacket DEF StreamInv, SyncInv
<1>2. /\ <<p.kind, p.re>> \in Lossy
      /\ channel' = [channel EXCEPT ![m][n] = RemoveAt(@, k)]
      /\ UNCHANGED <<lastUsed, sentButNoAck, timers, session, sentSynAck, network, last,
                     buf, delivered, submitted>>
  BY DEF Lose, tracking, membership, ordering
<1>3. p.kind \notin Hello /\ ~AnswerTo(p, p.ack)
  <2> HIDE DEF p
  <2>1. <<p.kind, p.re>>[1] \notin Hello /\ <<p.kind, p.re>> # <<"ACK", "SYNACK">>
    BY <1>2, Zenon DEF HellosInPlace
  <2>2. p.kind \notin Hello /\ ~(p.kind = "ACK" /\ p.re = "SYNACK")
    BY <2>1
  <2> QED  BY <2>2 DEF AnswerTo, Hello
<1>4. /\ channel'[m][n] = RemoveAt(channel[m][n], k)
      /\ \A x, y \in Node : x # m \/ y # n => channel'[x][y] = channel[x][y]
  BY <1>1, <1>2 DEF TypeOK
<1>5. \A x, y \in Node : (x # n \/ y # m) /\ (x # m \/ y # n) => Kept(x, y)
  <2>1. \A x, y \in Node : x # m \/ y # n => channel'[x][y] = channel[x][y]
    BY <1>4
  <2>2. UNCHANGED <<lastUsed, sentButNoAck, timers, session, sentSynAck, network, last,
                    buf, delivered, submitted>>
    BY <1>2
  <2> QED  BY <2>1, <2>2 DEF Kept
<1>6. ASSUME Together(n, m)' PROVE Dir(n, m)' /\ Dir(m, n)'
  <2>1. Dir(n, m) /\ Dir(m, n)
    <3>1. Together(n, m)
      BY <1>2, <1>6 DEF Together
    <3> QED  BY <3>1, BothSound
  <2>2. Tasks(n, m)' = Tasks(n, m) /\ Tasks(m, n)' = Tasks(m, n)
    BY <1>2 DEF Tasks
  <2>3. Sound(channel'[m][n], channel[n][m], lastUsed[m][n], submitted[m][n],
              sentButNoAck[m][n], last[n][m], buf[n][m], delivered[n][m], Tasks(m, n))
    <3>1. Sound(channel[m][n], channel[n][m], lastUsed[m][n], submitted[m][n],
                sentButNoAck[m][n], last[n][m], buf[n][m], delivered[n][m], Tasks(m, n))
      BY <2>1 DEF Dir
    <3> QED  BY <1>1, <1>3, <1>4, <3>1, TrafficGone
  <2>4. Sound(channel[n][m], channel'[m][n], lastUsed[n][m], submitted[n][m],
              sentButNoAck[n][m], last[m][n], buf[m][n], delivered[m][n], Tasks(n, m))
    <3>1. Sound(channel[n][m], channel[m][n], lastUsed[n][m], submitted[n][m],
                sentButNoAck[n][m], last[m][n], buf[m][n], delivered[m][n], Tasks(n, m))
      BY <2>1 DEF Dir
    <3> QED  BY <1>1, <1>3, <1>4, <3>1, AnswerGone
  <2>5. channel'[n][m] = channel[n][m]
    BY <1>1, <1>4
  <2> QED  BY <1>2, <2>2, <2>3, <2>4, <2>5 DEF Dir
<1>7. \A x \in Node : submitted'[x][x] = submitted[x][x] /\ delivered'[x][x] = delivered[x][x]
  BY <1>2
<1> QED  BY <1>1, <1>5, <1>6, <1>7, StreamStep

LEMMA StreamKept ==
    ASSUME StreamInv, SyncInv', \A x, y \in Node : Kept(x, y)
    PROVE  StreamInv'
<1>1. \A x \in Node : submitted'[x][x] = <<>> /\ delivered'[x][x] = <<>>
  BY DEF StreamInv, Kept
<1>2. ASSUME NEW x \in Node, NEW y \in Peers(x), Together(x, y)'
      PROVE  Dir(x, y)'
  <2>1. y \in Node /\ Kept(x, y) /\ Kept(y, x)
    BY DEF Peers
  <2>2. Together(x, y)
    BY <1>2, <2>1 DEF Together, Kept
  <2> QED  BY <2>1, <2>2, DirKept DEF StreamInv
<1> QED  BY <1>1, <1>2 DEF StreamInv

(* A timer that is due and finds its packet unacknowledged has sent data:  *)
(* a hello, or its answer, would still be under way.                       *)
LEMMA DueData ==
    ASSUME HellosInPlace, TypeOK, NEW n \in Node, NEW t \in timers[n],
           Due(n, t), Unacknowledged(n, t), Dir(n, t.to)
    PROVE  /\ t.packet \in Packet /\ t.packet.kind = "DATA"
           /\ OfStream(lastUsed[n][t.to], submitted[n][t.to], t.packet)
<1> DEFINE m == t.to
           p == t.packet
<1>1. t \in Task /\ m \in Node /\ p \in Packet
  <2>1. timers \in [Node -> SUBSET Task]
    BY DEF TypeOK
  <2> QED  BY <2>1 DEF Task
<1>2. p \in Tasks(n, m)
  BY DEF Tasks
<1>3. (p.kind \in Hello => ~UnderWay(n, t)) /\ p.seq \in sentButNoAck[n][m]
  BY DEF HellosInPlace, Due, Unacknowledged
<1>4. Waiting(channel[n][m], channel[m][n], lastUsed[n][m], submitted[n][m],
              sentButNoAck[n][m], Tasks(n, m))
  BY DEF Dir, Sound
<1> HIDE DEF m, p
<1>5. OfStream(lastUsed[n][m], submitted[n][m], p)
  BY <1>2, <1>4 DEF Waiting
<1>6. ASSUME p.kind \in Hello PROVE FALSE
  <2>0. ~UnderWay(n, t)
    BY <1>3, <1>6
  <2>1. \/ p \in PacketsOf(channel[n][m])
        \/ \E q \in PacketsOf(channel[m][n]) : AnswerTo(q, p.seq)
    BY <1>2, <1>3, <1>4, <1>6 DEF Waiting
  <2>2. CASE p \in PacketsOf(channel[n][m])
    <3>1. PICK k \in DOMAIN channel[n][m] : p = channel[n][m][k]
      BY <2>2 DEF PacketsOf
    <3> QED  BY <2>0, <3>1 DEF UnderWay, m, p
  <2>3. ASSUME NEW q \in PacketsOf(channel[m][n]), AnswerTo(q, p.seq) PROVE FALSE
    <3>1. PICK k \in DOMAIN channel[m][n] : q = channel[m][n][k]
      BY DEF PacketsOf
    <3>2. q.kind \in {"SYNACK", "ACK"} /\ q.ack = p.seq
      BY <2>3 DEF AnswerTo
    <3> QED  BY <2>0, <3>1, <3>2 DEF UnderWay, m, p
  <2> QED  BY <2>1, <2>2, <2>3
<1>7. p.kind = "DATA"
  BY <1>5, <1>6 DEF OfStream
<1> QED  BY <1>1, <1>5, <1>7 DEF m, p

LEMMA TimerStream ==
    ASSUME HellosInPlace, StreamInv, SyncInv', NEW n \in Node, NEW t \in timers[n],
           Expire(n, t) \/ Retransmit(n, t) \/ GiveUp(n, t)
    PROVE  StreamInv'
<1> DEFINE m == t.to
           p == t.packet
<1>1. TypeOK /\ t \in Task /\ m \in Node
  <2>1. TypeOK /\ timers \in [Node -> SUBSET Task]
    BY DEF StreamInv, SyncInv, TypeOK
  <2> QED  BY <2>1 DEF Task
<1>2. UNCHANGED <<sentSynAck, last, buf, delivered, submitted>>
  BY DEF Expire, Retransmit, GiveUp, membership, ordering
<1>3. timers \in [Node -> SUBSET Task]
  BY <1>1 DEF TypeOK
<1>4. \A x \in Node : submitted'[x][x] = submitted[x][x] /\ delivered'[x][x] = delivered[x][x]
  BY <1>2
<1> HIDE DEF m, p
<1>5. CASE Expire(n, t)
  <2>1. /\ UNCHANGED <<lastUsed, sentButNoAck, session, network, channel>>
        /\ timers' = [timers EXCEPT ![n] = @ \ {t}]
    BY <1>5 DEF Expire, membership
  <2>2. \A x \in Node : timers'[x] \subseteq timers[x]
    BY <1>3, <2>1
  <2>3. \A x, y \in Node : Kept(x, y)
    BY <1>2, <2>1, <2>2 DEF Kept
  <2> QED  BY <2>3, StreamKept
<1>6. CASE Retransmit(n, t)
  <2> DEFINE u == [t EXCEPT !.retries = t.retries - 1]
  <2>1. /\ UNCHANGED <<lastUsed, sentButNoAck, session, network>>
        /\ channel' = [channel EXCEPT ![n][m] = Append(@, p)]
        /\ timers' = [timers EXCEPT ![n] = (@ \ {t}) \cup {u}]
        /\ Due(n, t) /\ Unacknowledged(n, t)
    BY <1>6 DEF Retransmit, membership, m, p
  <2>2. u.to = m /\ u.packet = p
    BY <1>1 DEF Task, m, p
  <2> HIDE DEF u
  <2>3. /\ channel'[n][m] = Append(channel[n][m], p)
        /\ \A x, y \in Node : x # n \/ y # m => channel'[x][y] = channel[x][y]
    BY <1>1, <2>1 DEF TypeOK
  <2>4. \A x \in Node : \A v \in timers'[x] : v \in timers[x] \/ (x = n /\ v = u)
    BY <1>3, <2>1
  <2>5. \A x, y \in Node : (x # n \/ y # m) /\ (x # m \/ y # n) => Kept(x, y)
    <3>1. \A x, y \in Node : x # n \/ y # m =>
             /\ channel'[x][y] = channel[x][y]
             /\ \A v \in timers'[x] : v.to = y => v \in timers[x]
      BY <2>2, <2>3, <2>4
    <3>2. UNCHANGED <<lastUsed, sentButNoAck, session, network>>
      BY <2>1
    <3> QED  BY <1>2, <3>1, <3>2 DEF Kept
  <2>6. ASSUME n # m, Together(n, m)' PROVE Dir(n, m)' /\ Dir(m, n)'
    <3>1. Dir(n, m) /\ Dir(m, n)
      <4>1. Together(n, m) /\ m \in Peers(n)
        BY <1>1, <2>1, <2>6 DEF Together, Peers
      <4> QED  BY <4>1, BothSound
    <3>2. Tasks(n, m)' \in SUBSET Tasks(n, m)
      <4>1. p \in Tasks(n, m)
        BY DEF Tasks, m, p
      <4> QED  BY <2>2, <2>4, <4>1 DEF Tasks
    <3>3. Tasks(m, n)' \in SUBSET Tasks(m, n)
      <4>1. \A v \in timers'[m] : v.to = n => v \in timers[m]
        BY <1>1, <2>4, <2>6
      <4> QED  BY <1>1, <4>1, FewerTasks
    <3>4. p \in Packet /\ p.kind = "DATA" /\ OfStream(lastUsed[n][m], submitted[n][m], p)
      BY <1>1, <2>1, <3>1, DueData DEF m, p
    <3>5. Sound(channel'[n][m], channel[m][n], lastUsed[n][m], submitted[n][m],
                sentButNoAck[n][m], last[m][n], buf[m][n], delivered[m][n], Tasks(n, m)')
      <4>1. Sound(channel[n][m], channel[m][n], lastUsed[n][m], submitted[n][m],
                  sentButNoAck[n][m], last[m][n], buf[m][n], delivered[m][n], Tasks(n, m))
        BY <3>1 DEF Dir
      <4>2. Sound(channel'[n][m], channel[m][n], lastUsed[n][m], submitted[n][m],
                  sentButNoAck[n][m], last[m][n], buf[m][n], delivered[m][n], Tasks(n, m))
        BY <2>3, <3>4, <4>1, TrafficAdded
      <4> QED  BY <3>2, <4>2, TasksGone
    <3>6. Sound(channel[m][n], channel'[n][m], lastUsed[m][n], submitted[m][n],
                sentButNoAck[m][n], last[n][m], buf[n][m], delivered[n][m], Tasks(m, n)')
      <4>1. Sound(channel[m][n], channel[n][m], lastUsed[m][n], submitted[m][n],
                  sentButNoAck[m][n], last[n][m], buf[n][m], delivered[n][m], Tasks(m, n))
        BY <3>1 DEF Dir
      <4>2. Sound(channel[m][n], channel'[n][m], lastUsed[m][n], submitted[m][n],
                  sentButNoAck[m][n], last[n][m], buf[n][m], delivered[n][m], Tasks(m, n))
        BY <2>3, <3>4, <4>1, AnswerAdded
      <4> QED  BY <3>3, <4>2, TasksGone
    <3>7. channel'[m][n] = channel[m][n]
      BY <1>1, <2>3, <2>6
    <3> QED  BY <1>2, <2>1, <3>5, <3>6, <3>7 DEF Dir
  <2> QED  BY <1>1, <1>4, <2>5, <2>6, StreamStep
<1>7. CASE GiveUp(n, t)
  <2>1. /\ UNCHANGED channel
        /\ timers' = [timers EXCEPT ![n] = @ \ {t}]
        /\ sentButNoAck' = [sentButNoAck EXCEPT ![n][m] = {}]
        /\ lastUsed' = [lastUsed EXCEPT ![n][m] = 0]
        /\ network' = [network EXCEPT ![n] = @ \ {m}]
        /\ session' = [session EXCEPT ![n][m] = @ + 1]
    BY <1>7 DEF GiveUp, m
  <2>2. \A x \in Node : timers'[x] \subseteq timers[x]
    BY <1>3, <2>1
  <2>3. \A x, y \in Node : x # n \/ y # m =>
           /\ sentButNoAck'[x][y] = sentButNoAck[x][y] /\ lastUsed'[x][y] = lastUsed[x][y]
           /\ session'[x][y] = session[x][y]
           /\ y \in network'[x] <=> y \in network[x]
    <3>1. \A x, y \in Node : x # n \/ y # m =>
             /\ sentButNoAck'[x][y] = sentButNoAck[x][y] /\ lastUsed'[x][y] = lastUsed[x][y]
             /\ session'[x][y] = session[x][y]
      BY <1>1, <2>1 DEF TypeOK
    <3>2. \A x \in Node : network'[x] = network[x] \/ (x = n /\ network'[x] = network[x] \ {m})
      BY <1>1, <2>1 DEF TypeOK
    <3> QED  BY <3>1, <3>2
  <2>4. \A x, y \in Node : (x # n \/ y # m) /\ (x # m \/ y # n) => Kept(x, y)
    BY <1>2, <2>1, <2>2, <2>3 DEF Kept
  <2>5. ~Together(n, m)'
    <3>1. session[n][m] \in Nat /\ session'[n][m] = session[n][m] + 1
      BY <1>1, <2>1 DEF TypeOK
    <3> QED  BY <3>1 DEF Together
  <2> QED  BY <1>1, <1>4, <2>4, <2>5, StreamStep
<1> QED  BY <1>5, <1>6, <1>7

LEMMA StreamNext ==
    ASSUME HellosInPlace
    PROVE  StreamInv /\ [Next]_vars => StreamInv'
<1> SUFFICES ASSUME StreamInv, [Next]_vars PROVE StreamInv'
  OBVIOUS
<1>1. SyncInv'
  BY SyncNext DEF StreamInv
<1>2. CASE UNCHANGED vars
  <2>1. \A x, y \in Node : Kept(x, y)
    BY <1>2 DEF Kept, vars, tracking, membership, ordering, environment
  <2> QED  BY <1>1, <2>1, StreamKept
<1>3. ASSUME NEW n \in Node, Announce(n) PROVE StreamInv'
  BY <1>1, <1>3, AnnounceStream
<1>4. ASSUME NEW n \in Node, NEW t \in timers[n],
             Expire(n, t) \/ Retransmit(n, t) \/ GiveUp(n, t)
      PROVE  StreamInv'
  BY <1>1, <1>4, TimerStream
<1>5. ASSUME NEW n \in Node, NEW m \in Peers(n),
             SendData(n, m) \/ TakeNext(n, m) \/ DropStale(n, m)
      PROVE  StreamInv'
  BY <1>1, <1>5, SendDataStream, LoopStream
<1>6. ASSUME NEW n \in Node, NEW m \in Peers(n), NEW k \in DOMAIN channel[m][n],
             \/ ReceiveAnnounce(n, m, k) \/ ReceiveSyn(n, m, k) \/ ReceiveSynAck(n, m, k)
             \/ ReceiveAck(n, m, k) \/ ReceiveData(n, m, k) \/ Lose(m, n, k)
      PROVE  StreamInv'
  <2>1. CASE ReceiveAnnounce(n, m, k)
    BY <1>1, <2>1, ReceiveAnnounceStream
  <2>2. CASE ReceiveSyn(n, m, k)
    BY <1>1, <2>2, ReceiveSynStream
  <2>3. CASE ReceiveSynAck(n, m, k)
    BY <1>1, <2>3, ReceiveSynAckStream
  <2>4. CASE ReceiveAck(n, m, k)
    BY <1>1, <2>4, ReceiveAckStream
  <2>5. CASE ReceiveData(n, m, k)
    BY <1>1, <2>5, ReceiveDataStream
  <2>6. CASE Lose(m, n, k)
    BY <1>1, <2>6, LoseStream
  <2> QED  BY <1>6, <2>1, <2>2, <2>3, <2>4, <2>5, <2>6
<1> QED  BY <1>2, <1>3, <1>4, <1>5, <1>6 DEF Next

LEMMA StreamDelivery == StreamInv /\ RetransmissionPending => DeliveryUntilGivenUp
<1> SUFFICES ASSUME StreamInv, RetransmissionPending, NEW n \in Node, NEW m \in Node,
                    session[n][m] = 0, session[m][n] = 0
             PROVE  /\ IsPrefix(delivered[n][m], submitted[m][n])
                    /\ Quiet => Len(delivered[n][m]) >= Len(submitted[m][n])
  BY DEF DeliveryUntilGivenUp
<1> DEFINE d == delivered[n][m]
           D == submitted[m][n]
<1>1. CASE n = m
  <2>1. d = <<>> /\ D = <<>>
    BY <1>1 DEF StreamInv
  <2>2. d \in Seq(Nat) /\ D \in Seq(Nat) /\ Len(d) <= Len(D) /\ Len(d) >= Len(D)
        /\ \A i \in 1..Len(d) : d[i] = D[i]
    BY <2>1
  <2> HIDE DEF d, D
  <2>3. IsPrefix(d, D)
    BY <2>2, SameIsPrefix
  <2> QED  BY <2>2, <2>3 DEF d, D
<1>2. CASE n # m
  <2>1. Dir(m, n)
    BY <1>2 DEF StreamInv, Together, Peers
  <2>2. Sound(channel[m][n], channel[n][m], lastUsed[m][n], D, sentButNoAck[m][n],
              last[n][m], buf[n][m], d, Tasks(m, n))
    BY <2>1 DEF Dir
  <2> HIDE DEF d, D
  <2>3. IsPrefix(d, D)
    BY <2>2, SoundOrder
  <2>4. ASSUME Quiet PROVE Len(d) >= Len(D)
    <3>1. PacketsOf(channel[m][n]) = {}
      BY <2>4 DEF Quiet, PacketsOf
    <3>2. sentButNoAck[m][n] = {}
      BY <2>4 DEF RetransmissionPending, Quiet
    <3>3. ~Draining(last[n][m], buf[n][m])
      BY <2>4 DEF Quiet, Idle
    <3> QED  BY <2>2, <3>1, <3>2, <3>3, SoundWhole
  <2> QED  BY <2>3, <2>4 DEF d, D
<1> QED  BY <1>1, <1>2

(* Two nodes that have not given each other up get each other's data in    *)
(* the order it was sent, none twice, and, when nothing is under way, all  *)
(* of it: however often nodes announce themselves and start another        *)
(* handshake, and however often announces, data and ACKs overtake each     *)
(* other, get lost or are sent again.                                      *)
THEOREM DeliveredUntilGivenUp ==
    ASSUME HellosInPlace
    PROVE  Spec => []DeliveryUntilGivenUp
<1>1. StreamInv /\ [Next]_vars => StreamInv'
  BY StreamNext
<1>2. TrackInv => RetransmissionPending
  BY DEF TrackInv
<1> QED  BY <1>1, <1>2, StreamInit, StreamDelivery, TrackInit, TrackNext, PTL DEF Spec

----------------------------------------------------------------------------
(* The sockets implement OrderedChannels.  A send puts one piece of data   *)
(* into a channel, and the loop of DataHandler gets one out of it: since   *)
(* what has been delivered stays a prefix of what was sent, it is the      *)
(* first that was not delivered before.                                    *)

LEMMA ChannelsInit == Init => Channels!Init
BY DEF Init, Channels!Init

LEMMA SendPuts ==
    ASSUME TypeOK, NEW n \in Node, NEW m \in Peers(n), SendData(n, m)
    PROVE  Channels!Put(n, m)
<1> DEFINE e == <<session[n][m], lastUsed[n][m]>>
           s == submitted[n][m]
<1>1. /\ submitted' = [submitted EXCEPT ![n][m] = Append(@, e)]
      /\ UNCHANGED delivered
  BY DEF SendData, Data, ordering
<1>2. m \in Node
  BY DEF Peers
<1>3. s \in Seq(Nat \X Numbers) /\ submitted \in [Node -> [Node -> Seq(Nat \X Numbers)]]
  BY <1>2 DEF TypeOK
<1> HIDE DEF e
<1>4. submitted'[n][m] = Append(s, e)
  BY <1>1, <1>2, <1>3
<1>5. Len(Append(s, e)) = Len(s) + 1 /\ Append(s, e)[Len(s) + 1] = e /\ Len(s) \in Nat
  BY <1>3
<1>6. submitted' = [submitted EXCEPT ![n][m] = Append(@, submitted'[n][m][Len(@) + 1])]
  <2>1. submitted'[n][m][Len(s) + 1] = e
    BY <1>4, <1>5
  <2> QED  BY <1>1, <2>1
<1>7. Len(submitted'[n][m]) > Len(submitted[n][m])
  BY <1>4, <1>5
<1> QED  BY <1>1, <1>6, <1>7 DEF Channels!Put

(* A prefix that grows by one grows by the next element. *)
LEMMA PrefixGrows ==
    ASSUME NEW S, NEW d \in Seq(S), NEW s \in Seq(S), NEW e \in S,
           IsPrefix(Append(d, e), s)
    PROVE  Len(d) < Len(s) /\ e = s[Len(d) + 1]
<1> DEFINE a == Append(d, e)
<1>1. /\ a \in Seq(S) /\ Len(a) = Len(d) + 1 /\ a[Len(d) + 1] = e
      /\ Len(d) \in Nat /\ Len(s) \in Nat
  BY LenProperties
<1> HIDE DEF a
<1>2. Len(a) <= Len(s) /\ SubSeq(a, 1, Len(a)) = SubSeq(s, 1, Len(a))
  BY DEF IsPrefix, a
<1>3. SubSeq(a, 1, Len(a))[Len(a)] = a[Len(a)] /\ SubSeq(s, 1, Len(a))[Len(a)] = s[Len(a)]
  BY <1>1, <1>2
<1> QED  BY <1>1, <1>2, <1>3

LEMMA TakeGets ==
    ASSUME TypeOK, TypeOK', InOrder', NEW n \in Node, NEW m \in Peers(n), TakeNext(n, m)
    PROVE  Channels!Get(n, m) \/ UNCHANGED Channels!vars
<1> DEFINE p == Head(buf[n][m])
           e == <<p.session, p.seq>>
           d == delivered[n][m]
           s == submitted[m][n]
<1>1. /\ delivered' = [delivered EXCEPT ![n][m] = IF p.kind = "DATA" THEN Append(@, e) ELSE @]
      /\ UNCHANGED submitted /\ buf[n][m] # <<>>
  BY DEF TakeNext, environment, FrontIsNext
<1>2. m \in Node
  BY DEF Peers
<1>3. CASE p.kind # "DATA"
  <2>1. delivered' = delivered
    BY <1>1, <1>3, <1>2 DEF TypeOK
  <2> QED  BY <1>1, <2>1 DEF Channels!vars
<1>4. CASE p.kind = "DATA"
  <2>1. e \in Nat \X Numbers
    <3>1. buf[n][m] \in Seq(Packet)
      BY <1>2 DEF TypeOK
    <3>2. p \in Packet
      BY <1>1, <3>1, HeadTailProperties
    <3> HIDE DEF p
    <3> QED  BY <3>2 DEF Packet
  <2> HIDE DEF e
  <2>2. d \in Seq(Nat \X Numbers) /\ s \in Seq(Nat \X Numbers)
    BY <1>2 DEF TypeOK
  <2>3. /\ delivered' = [delivered EXCEPT ![n][m] = Append(@, e)]
        /\ delivered'[n][m] = Append(d, e)
    BY <1>1, <1>2, <1>4 DEF TypeOK
  <2>4. IsPrefix(Append(d, e), s)
    BY <1>1, <1>2, <2>3 DEF InOrder
  <2>5. Len(d) < Len(s) /\ e = s[Len(d) + 1]
    BY <2>1, <2>2, <2>4, PrefixGrows
  <2> QED  BY <1>1, <2>3, <2>5 DEF Channels!Get
<1> QED  BY <1>3, <1>4

LEMMA OthersKeepChannels ==
    ASSUME Next,
           ~(\E n \in Node : \E m \in Peers(n) : SendData(n, m) \/ TakeNext(n, m))
    PROVE  UNCHANGED Channels!vars
<1>1. UNCHANGED <<submitted, delivered>>
  <2>1. ASSUME NEW n \in Node, Announce(n) PROVE UNCHANGED <<submitted, delivered>>
    BY <2>1 DEF Announce, ordering
  <2>2. ASSUME NEW n \in Node, NEW t \in timers[n],
               Expire(n, t) \/ Retransmit(n, t) \/ GiveUp(n, t)
        PROVE  UNCHANGED <<submitted, delivered>>
    BY <2>2 DEF Expire, Retransmit, GiveUp, ordering
  <2>3. ASSUME NEW n \in Node, NEW m \in Peers(n), DropStale(n, m)
        PROVE  UNCHANGED <<submitted, delivered>>
    BY <2>3 DEF DropStale
  <2>4. ASSUME NEW n \in Node, NEW m \in Peers(n), NEW k \in DOMAIN channel[m][n],
               \/ ReceiveAnnounce(n, m, k) \/ ReceiveSyn(n, m, k) \/ ReceiveSynAck(n, m, k)
               \/ ReceiveAck(n, m, k) \/ ReceiveData(n, m, k) \/ Lose(m, n, k)
        PROVE  UNCHANGED <<submitted, delivered>>
    BY <2>4 DEF ReceiveAnnounce, ReceiveSyn, ReceiveSynAck, ReceiveAck, ReceiveData, Lose,
                ordering
  <2> QED  BY <2>1, <2>2, <2>3, <2>4 DEF Next
<1> QED  BY <1>1 DEF Channels!vars

(* To the applications the sockets are channels that yield what was put    *)
(* into them, in order and once, whatever happens to data and its ACKs on  *)
(* the way: every run of the transport is a run of OrderedChannels.        *)
THEOREM SocketsAreOrderedChannels ==
    ASSUME HandshakeArrives
    PROVE  Spec => ImplementsOrderedChannels
<1>1. DeliveryInv /\ [Next]_vars => DeliveryInv'
  BY DeliveryNext
<1>2. DeliveryInv /\ DeliveryInv' /\ [Next]_vars => [Channels!Next]_(Channels!vars)
  <2> SUFFICES ASSUME DeliveryInv, DeliveryInv', [Next]_vars
               PROVE  [Channels!Next]_(Channels!vars)
    OBVIOUS
  <2>1. TypeOK /\ TypeOK' /\ InOrder'
    <3>1. InOrder'
      BY DeliveryOrder, PTL
    <3> QED  BY <3>1 DEF DeliveryInv
  <2>2. CASE UNCHANGED vars
    BY <2>2 DEF vars, ordering, Channels!vars
  <2>3. ASSUME NEW n \in Node, NEW m \in Peers(n), SendData(n, m) PROVE Channels!Next
    BY <2>1, <2>3, SendPuts DEF Channels!Next, Peers
  <2>4. ASSUME NEW n \in Node, NEW m \in Peers(n), TakeNext(n, m)
        PROVE  [Channels!Next]_(Channels!vars)
    BY <2>1, <2>4, TakeGets DEF Channels!Next, Peers
  <2> QED  BY <2>2, <2>3, <2>4, OthersKeepChannels
<1> QED  BY <1>1, <1>2, DeliveryInit, ChannelsInit, PTL
         DEF Spec, ImplementsOrderedChannels, Channels!Spec
=============================================================================
