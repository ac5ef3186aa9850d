------------------------- MODULE DataHandlerProofs -------------------------
(***************************************************************************)
(* DataHandler delivers its stream in order, for every width of the int,   *)
(* every window that fits in half of it and every bound.                   *)
(***************************************************************************)
EXTENDS DataHandler, ReorderBufferProofs, FiniteSetTheorems

\* The source's numbering: packets at most half the circle apart differ in
\* sequence number by their distance in the stream.
Numbered ==
    \A i \in DOMAIN sent :
        /\ sent[i].place = i
        /\ \A j \in 1..i : i - j < HalfRange =>
              DifferenceWithWrapAround(sent[i].seq, sent[j].seq) = i - j

\* The last sequence number in order is that of a packet of the stream, and
\* the source is at most a window ahead of it.
SyncState ==
    /\ syncedAt <= lastPlace
    /\ lastPlace = 0 => /\ last = NoSeq
                        /\ buf = <<>>
                        /\ delivered = <<>>
                        /\ acked = {}
    /\ lastPlace > 0 => /\ last = sent[lastPlace].seq
                        /\ Len(sent) - lastPlace <= Window

\* The buffer holds packets of the stream.
BufferedAreSent ==
    \A k \in DOMAIN buf :
        /\ buf[k].place \in DOMAIN sent
        /\ buf[k] = sent[buf[k].place]

Inv ==
    /\ TypeOK
    /\ Numbered
    /\ SyncState
    /\ BufferedAreSent
    /\ BufferInStreamOrder
    /\ DeliveredInOrder
    /\ AckedIsKept

----------------------------------------------------------------------------

(* What the type invariant says about domains and elements.                *)
LEMMA Elements ==
    ASSUME TypeOK
    PROVE  /\ Len(sent) \in Nat /\ DOMAIN sent = 1..Len(sent)
           /\ \A i \in 1..Len(sent) : sent[i] \in Packet
           /\ Len(buf) \in Nat /\ DOMAIN buf = 1..Len(buf)
           /\ \A k \in 1..Len(buf) : buf[k] \in Packet
           /\ Len(delivered) \in Nat /\ DOMAIN delivered = 1..Len(delivered)
           /\ \A m \in 1..Len(delivered) : delivered[m] \in 1..Len(sent)
BY LenProperties, ElementOfSeq DEF TypeOK

LEMMA Constants ==
    /\ HalfRange \in Nat /\ HalfRange > 1
    /\ Window \in Nat /\ Window < HalfRange
    /\ NoSeq \notin SeqNums
BY HalfRangeAssumption, WindowAssumption DEF NoSeq, SeqNums

(* Within half the circle the difference of two packets' numbers is their  *)
(* distance in the stream, whichever is first.                             *)
LEMMA Distance ==
    ASSUME TypeOK, Numbered,
           NEW i \in DOMAIN sent, NEW j \in DOMAIN sent,
           i - j < HalfRange, j - i < HalfRange
    PROVE  DifferenceWithWrapAround(sent[i].seq, sent[j].seq) = i - j
<1>1. /\ i \in Nat /\ j \in Nat /\ i >= 1 /\ j >= 1
      /\ sent[i].seq \in SeqNums /\ sent[j].seq \in SeqNums
  BY Elements DEF Packet
<1>2. CASE j <= i
  BY <1>1, <1>2 DEF Numbered
<1>3. CASE i < j
  <2>1. DifferenceWithWrapAround(sent[j].seq, sent[i].seq) = j - i
    BY <1>1, <1>3 DEF Numbered
  <2>2. j - i # -HalfRange
    BY <1>1, <1>3, Constants
  <2>3. DifferenceWithWrapAround(sent[i].seq, sent[j].seq) = -(j - i)
    BY <1>1, <2>1, <2>2, DifferenceAntisymmetric
  <2> QED  BY <1>1, <2>3
<1> QED  BY <1>1, <1>2, <1>3

(* A packet that arrives: it is buffered, in its place, exactly when it is *)
(* further on in the stream than the last one in order.                    *)
LEMMA BufferedStep ==
    ASSUME Inv, lastPlace > 0, NEW i \in DOMAIN sent, Live(i),
           NEW o \in Buffered(last, buf, sent[i])
    PROVE  /\ o.last = last
           /\ o.adopted = FALSE
           /\ o.buf \in Seq(Packet)
           /\ PlacesOf(o.buf) = PlacesOf(buf) \cup (IF i > lastPlace THEN {i} ELSE {})
           /\ \A k \in DOMAIN o.buf : o.buf[k] = sent[o.buf[k].place]
           /\ \A k, m \in DOMAIN o.buf :
                 k < m => o.buf[k].place <= o.buf[m].place
<1> USE DEF Inv
<1> DEFINE p == sent[i]
<1>1. /\ i \in 1..Len(sent) /\ lastPlace \in DOMAIN sent /\ lastPlace \in 1..Len(sent)
      /\ p \in Packet /\ p.place = i /\ last = sent[lastPlace].seq
  BY Elements DEF TypeOK, SyncState, Numbered
<1>2. Len(sent) - i < Window /\ Len(sent) - lastPlace <= Window
  BY DEF Live, SyncState
<1>3. DifferenceWithWrapAround(p.seq, last) = i - lastPlace
  <2>1. i - lastPlace < HalfRange /\ lastPlace - i < HalfRange
    BY <1>1, <1>2, Constants, Elements
  <2> QED  BY <1>1, <2>1, Distance
<1>4. CASE ~(i > lastPlace)
  <2>1. o = Keep(last, buf)
    BY <1>1, <1>3, <1>4 DEF Buffered
  <2> QED
    BY <2>1, <1>4 DEF Keep, TypeOK, BufferedAreSent, BufferInStreamOrder
<1>5. CASE i > lastPlace
  <2>1. PICK b \in Inserted(buf, p) : o = Keep(last, b)
    BY <1>1, <1>3, <1>5, Elements DEF Buffered
  <2>2. PICK k \in 1..Len(buf) + 1 :
           /\ b = InsertAt(buf, k, p)
           /\ \A m \in DOMAIN buf :
                 CompareTo(p.seq, buf[m].seq) = IF m < k THEN 1 ELSE -1
    BY <2>1 DEF Inserted
  <2>3. /\ b \in Seq(Packet)
        /\ Len(b) = Len(buf) + 1
        /\ \A m \in 1..Len(buf) + 1 :
              b[m] = IF m < k THEN buf[m] ELSE IF m = k THEN p ELSE buf[m - 1]
    <3>1. buf \in Seq(Packet)  BY DEF TypeOK
    <3>2. /\ InsertAt(buf, k, p) \in Seq(Packet)
          /\ Len(InsertAt(buf, k, p)) = Len(buf) + 1
          /\ \A m \in 1..Len(buf) + 1 :
                InsertAt(buf, k, p)[m] =
                   IF m < k THEN buf[m] ELSE IF m = k THEN p ELSE buf[m - 1]
      BY ONLY <3>1, <1>1, InsertAtProperties
    <3> QED  BY <3>2, <2>2
  <2>4. DOMAIN b = 1..Len(buf) + 1
    BY <2>3, LenProperties
  <2>5. /\ Len(buf) \in Nat /\ DOMAIN buf = 1..Len(buf)
        /\ \A m \in DOMAIN buf : buf[m].place \in 1..Len(sent)
    BY Elements DEF BufferedAreSent
  <2>6. \A m \in DOMAIN buf : IF m < k THEN buf[m].place < i ELSE i <= buf[m].place
    <3> SUFFICES ASSUME NEW m \in DOMAIN buf
                 PROVE  IF m < k THEN buf[m].place < i ELSE i <= buf[m].place
      OBVIOUS
    <3>1. buf[m] = sent[buf[m].place] /\ buf[m].place >= lastPlace
      BY DEF BufferedAreSent, BufferInStreamOrder
    <3>2. DifferenceWithWrapAround(p.seq, buf[m].seq) = i - buf[m].place
      <4>1. i - buf[m].place < HalfRange /\ buf[m].place - i < HalfRange
        BY <1>1, <1>2, <2>5, <3>1, Constants, Elements, SMTT(30)
      <4>2. buf[m].place \in DOMAIN sent  BY DEF BufferedAreSent
      <4> QED  BY <3>1, <4>1, <4>2, Distance
    <3>3. CompareTo(p.seq, buf[m].seq) = IF m < k THEN 1 ELSE -1
      BY <2>2
    <3> QED  BY <1>1, <2>5, <3>2, <3>3 DEF CompareTo
  <2>7. PlacesOf(b) = PlacesOf(buf) \cup {i}
    <3>1. ASSUME NEW x \in PlacesOf(b) PROVE x \in PlacesOf(buf) \cup {i}
      <4>1. PICK m \in 1..Len(buf) + 1 : x = b[m].place
        BY <2>4 DEF PlacesOf
      <4>2. CASE m < k
        BY <4>1, <4>2, <2>3, <2>5 DEF PlacesOf
      <4>3. CASE m = k
        BY <4>1, <4>3, <2>3, <1>1
      <4>4. CASE m > k
        <5>1. m - 1 \in DOMAIN buf /\ b[m] = buf[m - 1]
          BY <4>1, <4>4, <2>3, <2>5
        <5> QED  BY <5>1, <4>1 DEF PlacesOf
      <4> QED  BY <4>1, <4>2, <4>3, <4>4, <2>5
    <3>2. ASSUME NEW x \in PlacesOf(buf) PROVE x \in PlacesOf(b)
      <4>1. PICK m \in 1..Len(buf) : x = buf[m].place
        BY <2>5 DEF PlacesOf
      <4>2. CASE m < k
        <5>1. m \in DOMAIN b /\ b[m] = buf[m]
          BY <4>1, <4>2, <2>3, <2>4, <2>5
        <5> QED  BY <5>1, <4>1 DEF PlacesOf
      <4>3. CASE m >= k
        <5>1. m + 1 \in DOMAIN b /\ b[m + 1] = buf[m]
          BY <4>1, <4>3, <2>3, <2>4, <2>5
        <5> QED  BY <5>1, <4>1 DEF PlacesOf
      <4> QED  BY <4>1, <4>2, <4>3, <2>5
    <3>3. i \in PlacesOf(b)
      <4>1. k \in DOMAIN b /\ b[k] = p  BY <2>3, <2>4
      <4> QED  BY <4>1, <1>1 DEF PlacesOf
    <3> QED  BY <3>1, <3>2, <3>3
  <2>8. \A m \in DOMAIN b : b[m] = sent[b[m].place]
    <3> SUFFICES ASSUME NEW m \in DOMAIN b
                 PROVE  b[m] = sent[b[m].place]
      OBVIOUS
    <3>1. CASE m < k
      <4>1. m \in DOMAIN buf /\ b[m] = buf[m]  BY <3>1, <2>3, <2>4, <2>5
      <4> QED  BY <4>1 DEF BufferedAreSent
    <3>2. CASE m = k
      BY <3>2, <1>1, <2>3, <2>4
    <3>3. CASE m > k
      <4>1. m - 1 \in DOMAIN buf /\ b[m] = buf[m - 1]
        BY <3>3, <2>3, <2>4, <2>5
      <4> QED  BY <4>1 DEF BufferedAreSent
    <3> QED  BY <3>1, <3>2, <3>3, <2>4
  <2>9. \A m, n \in DOMAIN b : m < n => b[m].place <= b[n].place
    <3> SUFFICES ASSUME NEW m \in DOMAIN b, NEW n \in DOMAIN b, m < n
                 PROVE  b[m].place <= b[n].place
      OBVIOUS
    <3>1. m \in 1..Len(buf) + 1 /\ n \in 1..Len(buf) + 1 /\ k \in Int
      BY <2>4
    <3>2. CASE n < k
      BY <3>1, <3>2, <2>3, <2>5 DEF BufferInStreamOrder
    <3>3. CASE n = k
      <4>1. m \in DOMAIN buf /\ b[m] = buf[m] /\ b[n] = p
        BY <3>1, <3>3, <2>3, <2>5
      <4> QED  BY <4>1, <3>3, <2>5, <2>6, <1>1
    <3>4. CASE n > k /\ m < k
      <4>1. /\ m \in DOMAIN buf /\ n - 1 \in DOMAIN buf /\ m <= n - 1
            /\ b[m] = buf[m] /\ b[n] = buf[n - 1]
        BY <3>1, <3>4, <2>3, <2>5
      <4>2. CASE m < n - 1
        BY <4>1, <4>2 DEF BufferInStreamOrder
      <4>3. CASE m = n - 1
        BY <4>1, <4>3, <2>5
      <4> QED  BY <4>1, <4>2, <4>3, <3>1
    <3>5. CASE n > k /\ m = k
      <4>1. n - 1 \in DOMAIN buf /\ ~(n - 1 < k) /\ b[m] = p /\ b[n] = buf[n - 1]
        BY <3>1, <3>5, <2>3, <2>5
      <4> QED  BY <4>1, <2>6, <1>1
    <3>6. CASE n > k /\ m > k
      <4>1. /\ m - 1 \in DOMAIN buf /\ n - 1 \in DOMAIN buf /\ m - 1 < n - 1
            /\ b[m] = buf[m - 1] /\ b[n] = buf[n - 1]
        BY <3>1, <3>6, <2>3, <2>5
      <4> QED  BY <4>1 DEF BufferInStreamOrder
    <3> QED  BY <3>1, <3>2, <3>3, <3>4, <3>5, <3>6
  <2> QED  BY <2>1, <2>3, <2>7, <2>8, <2>9, <1>5 DEF Keep
<1> QED  BY <1>1, <1>4, <1>5, Elements

----------------------------------------------------------------------------
(* Each action preserves the invariant.                                    *)

LEMMA SendPreserves ==
    ASSUME Inv, NEW kind \in {"SYN", "DATA"}, Send(kind)
    PROVE  Inv'
<1> USE DEF Inv
<1> DEFINE n == Len(sent)
           p == [kind |-> kind, seq |-> NextSeq, place |-> n + 1]
<1>1. /\ n \in Nat /\ DOMAIN sent = 1..n
      /\ \A i \in 1..n : sent[i] \in Packet
  BY Elements
<1>2. /\ sent = <<>> => NextSeq = 0
      /\ sent # <<>> => n >= 1 /\ NextSeq = Succ(sent[n].seq)
      /\ NextSeq \in SeqNums
  <2>1. sent = <<>> => NextSeq = 0
    BY DEF NextSeq
  <2>2. sent # <<>> => n >= 1 /\ NextSeq = Succ(sent[n].seq)
    BY <1>1, EmptySeq DEF NextSeq, Last, TypeOK
  <2>3. 0 \in SeqNums
    BY Constants DEF SeqNums
  <2> QED  BY <1>1, <2>1, <2>2, <2>3, SuccType DEF Packet
<1>3. p \in Packet
  BY <1>1, <1>2 DEF Packet
<1>4. /\ sent' = Append(sent, p)
      /\ UNCHANGED <<last, buf, sentButNoAck, lastPlace, syncedAt, delivered, acked>>
  BY DEF Send, histories
<1>5. /\ sent' \in Seq(Packet) /\ Len(sent') = n + 1 /\ DOMAIN sent' = 1..n + 1
      /\ \A i \in 1..n : sent'[i] = sent[i]
      /\ sent'[n + 1] = p
  <2>1. sent \in Seq(Packet)  BY DEF TypeOK
  <2>2. /\ sent' \in Seq(Packet) /\ Len(sent') = n + 1
        /\ \A i \in 1..n : sent'[i] = sent[i]
        /\ sent'[n + 1] = p
    BY <1>3, <1>4, <2>1, AppendProperties
  <2> QED  BY <2>2, LenProperties
<1> HIDE DEF n, p
<1>6. TypeOK'
  <2>1. 1..n \subseteq 1..n + 1 /\ 0..n \subseteq 0..n + 1
    BY <1>1
  <2>2. delivered' \in Seq(1..Len(sent'))
    BY <2>1, <1>4, <1>5, SeqMonotonic DEF TypeOK, n
  <2> QED  BY <1>4, <1>5, <2>1, <2>2 DEF TypeOK, n
<1>7. Numbered'
  <2> SUFFICES ASSUME NEW i \in 1..n + 1
               PROVE  /\ sent'[i].place = i
                      /\ \A j \in 1..i : i - j < HalfRange =>
                           DifferenceWithWrapAround(sent'[i].seq, sent'[j].seq) = i - j
    BY <1>5 DEF Numbered
  <2>1. CASE i \in 1..n
    BY <2>1, <1>1, <1>5 DEF Numbered
  <2>2. CASE i = n + 1
    <3>1. sent'[i].place = i
      BY <2>2, <1>5 DEF p
    <3>2. ASSUME NEW j \in 1..i, i - j < HalfRange
          PROVE  DifferenceWithWrapAround(sent'[i].seq, sent'[j].seq) = i - j
      <4>1. CASE j = i
        BY <4>1, <2>2, <1>1 DEF DifferenceWithWrapAround
      <4>2. CASE j < i
        <5>1. /\ n \in DOMAIN sent /\ j \in 1..n /\ sent # <<>>
              /\ n - j < HalfRange - 1
          BY <4>2, <3>2, <2>2, <1>1, Constants
        <5>2. DifferenceWithWrapAround(sent[n].seq, sent[j].seq) = n - j
          BY <5>1, <1>1, Constants DEF Numbered
        <5>3. sent[n].seq \in SeqNums /\ sent[j].seq \in SeqNums
          BY <5>1, <1>1 DEF Packet
        <5>4. DifferenceWithWrapAround(Succ(sent[n].seq), sent[j].seq) = n - j + 1
          BY <5>1, <5>2, <5>3, DifferenceSucc
        <5>5. sent'[i].seq = Succ(sent[n].seq) /\ sent'[j] = sent[j]
          BY <5>1, <2>2, <1>2, <1>5 DEF p
        <5> QED  BY <5>1, <5>4, <5>5, <2>2, <1>1
      <4> QED  BY <4>1, <4>2, <2>2, <1>1
    <3> QED  BY <3>1, <3>2
  <2> QED  BY <2>1, <2>2, <1>1
<1>8. SyncState'
  <2>1. CASE lastPlace = 0
    BY <2>1, <1>4 DEF SyncState
  <2>2. CASE lastPlace > 0
    <3>1. last # NoSeq
      BY <2>2, <1>1, Constants DEF SyncState, Packet, TypeOK, n
    <3>2. n - lastPlace < Window
      BY <3>1 DEF Send, n
    <3>3. lastPlace \in 1..n
      BY <2>2, <1>1 DEF TypeOK, n
    <3> QED  BY <2>2, <3>2, <3>3, <1>1, <1>4, <1>5, Constants DEF SyncState
  <2> QED  BY <2>1, <2>2, <1>1 DEF TypeOK, n
<1>9. BufferedAreSent'
  BY <1>1, <1>4, <1>5 DEF BufferedAreSent
<1>10. BufferInStreamOrder'
  BY <1>4 DEF BufferInStreamOrder
<1>11. DeliveredInOrder'
  <2>1. \A i \in syncedAt + 1..lastPlace : sent'[i].kind = sent[i].kind
    BY <1>1, <1>5 DEF TypeOK, n
  <2>2. {i \in syncedAt + 1..lastPlace : sent'[i].kind = "DATA"}
          = {i \in syncedAt + 1..lastPlace : sent[i].kind = "DATA"}
    BY <2>1
  <2> QED  BY <2>2, <1>4, ZenonT(30) DEF DeliveredInOrder
<1>12. AckedIsKept'
  BY <1>4 DEF AckedIsKept
<1> QED  BY <1>6, <1>7, <1>8, <1>9, <1>10, <1>11, <1>12

(* The receiver's own packets have no part in the invariant.               *)
LEMMA OwnPreserves ==
    ASSUME Inv, NEW s \in OwnPackets, SendOwn(s) \/ OwnAcked(s)
    PROVE  Inv'
<1>1. /\ sentButNoAck' \subseteq OwnPackets
      /\ UNCHANGED <<sent, last, buf, lastPlace, syncedAt, delivered, acked>>
  BY DEF SendOwn, OwnAcked, histories, Inv, TypeOK
<1> QED
  BY <1>1, SMTT(30) DEF Inv, TypeOK, Numbered, SyncState, BufferedAreSent,
     BufferInStreamOrder, DeliveredInOrder, AckedIsKept

(* A SYN is either adopted, because it is the first or looks like one of a *)
(* restarted source, or treated like any packet.                           *)
LEMMA SynCases ==
    ASSUME Inv, NEW i \in DOMAIN sent, NEW o \in OnSyn(last, buf, sent[i])
    PROVE  \/ /\ o = Adopt(sent[i].seq)
              /\ lastPlace = 0 \/ SuspectsRestart(last, buf, sent[i].seq)
           \/ /\ lastPlace > 0
              /\ o \in Buffered(last, buf, sent[i])
<1>1. last = NoSeq <=> lastPlace = 0
  <2>1. lastPlace > 0 => last \in SeqNums
    BY Elements DEF Inv, SyncState, TypeOK, Packet
  <2> QED  BY <2>1, Constants DEF Inv, SyncState, TypeOK
<1> QED  BY <1>1 DEF OnSyn, Inv, TypeOK

(* A step that does no more than buffer an arriving packet, and            *)
(* acknowledge it.                                                         *)
LEMMA BufferingPreserves ==
    ASSUME Inv, lastPlace > 0, NEW i \in DOMAIN sent, Live(i),
           NEW o \in Buffered(last, buf, sent[i]),
           buf' = o.buf,
           acked' \in {acked, acked \cup {i}},
           UNCHANGED <<sent, last, sentButNoAck, lastPlace, syncedAt, delivered>>
    PROVE  Inv'
<1> USE DEF Inv
<1>1. /\ buf' \in Seq(Packet)
      /\ PlacesOf(buf') = PlacesOf(buf) \cup (IF i > lastPlace THEN {i} ELSE {})
      /\ \A k \in DOMAIN buf' : buf'[k] = sent[buf'[k].place]
      /\ \A k, m \in DOMAIN buf' : k < m => buf'[k].place <= buf'[m].place
  BY BufferedStep
<1>2. /\ i \in 1..Len(sent) /\ Len(sent) \in Nat /\ DOMAIN sent = 1..Len(sent)
      /\ lastPlace \in Nat
  BY Elements DEF TypeOK
<1>3. \A x \in PlacesOf(buf') : x \in DOMAIN sent /\ x >= lastPlace
  <2>1. \A x \in PlacesOf(buf) : x \in DOMAIN sent /\ x >= lastPlace
    BY DEF PlacesOf, BufferedAreSent, BufferInStreamOrder
  <2> QED  BY <1>1, <1>2, <2>1
<1>4. TypeOK'
  BY <1>1, <1>2 DEF TypeOK
<1>5. Numbered' /\ SyncState' /\ DeliveredInOrder'
  BY <1>2 DEF Numbered, SyncState, DeliveredInOrder
<1>6. BufferedAreSent'
  BY <1>1, <1>3 DEF BufferedAreSent, PlacesOf
<1>7. BufferInStreamOrder'
  BY <1>1, <1>3 DEF BufferInStreamOrder, PlacesOf
<1>8. AckedIsKept'
  BY <1>1, <1>2 DEF AckedIsKept, PlacesOf
<1> QED  BY <1>4, <1>5, <1>6, <1>7, <1>8

LEMMA ReceiveSynPreserves ==
    ASSUME Inv, NEW i \in 1..Len(sent), ReceiveSyn(i)
    PROVE  Inv'
<1> USE DEF Inv
<1>1. /\ i \in DOMAIN sent /\ Live(i) /\ sent[i].kind = "SYN"
      /\ Len(sent) \in Nat /\ DOMAIN sent = 1..Len(sent)
      /\ sent[i] \in Packet /\ sent[i].seq \in SeqNums
      /\ sent' = sent
  BY Elements DEF ReceiveSyn, Receivable, Live, Packet
<1>2. PICK o \in OnSyn(last, buf, sent[i]) :
         /\ last' = o.last
         /\ buf' = o.buf
         /\ lastPlace' = IF o.adopted THEN i ELSE lastPlace
         /\ syncedAt' = IF o.adopted THEN i ELSE syncedAt
         /\ delivered' = IF o.adopted THEN <<>> ELSE delivered
         /\ acked' = IF o.adopted THEN {} ELSE acked
         /\ sentButNoAck' = IF o.adopted /\ last # NoSeq THEN {} ELSE sentButNoAck
  BY DEF ReceiveSyn
<1>3. CASE o = Adopt(sent[i].seq)
  <2>1. /\ last' = sent[i].seq /\ buf' = <<>> /\ lastPlace' = i /\ syncedAt' = i
        /\ delivered' = <<>> /\ acked' = {}
        /\ sentButNoAck' \in {sentButNoAck, {}}
    BY <1>2, <1>3 DEF Adopt
  <2>2. TypeOK'
    BY <1>1, <2>1, EmptySeq DEF TypeOK
  <2>3. Numbered'
    BY <1>1 DEF Numbered
  <2>4. SyncState'
    BY <1>1, <2>1, Constants DEF SyncState, Live
  <2>5. BufferedAreSent' /\ BufferInStreamOrder'
    BY <2>1 DEF BufferedAreSent, BufferInStreamOrder
  <2>6. DeliveredInOrder'
    BY <1>1, <2>1 DEF DeliveredInOrder
  <2>7. AckedIsKept'
    BY <2>1 DEF AckedIsKept
  <2> QED  BY <2>2, <2>3, <2>4, <2>5, <2>6, <2>7
<1>4. CASE lastPlace > 0 /\ o \in Buffered(last, buf, sent[i])
  <2>1. o.last = last /\ o.adopted = FALSE
    BY <1>1, <1>4, BufferedStep
  <2>2. /\ UNCHANGED <<sent, last, sentButNoAck, lastPlace, syncedAt, delivered, acked>>
        /\ buf' = o.buf
    BY <1>1, <1>2, <2>1
  <2> QED
    BY <1>1, <1>4, <2>2, BufferingPreserves
<1> QED  BY <1>1, <1>2, <1>3, <1>4, SynCases

LEMMA ReceiveDataPreserves ==
    ASSUME Inv, NEW i \in 1..Len(sent), ReceiveData(i)
    PROVE  Inv'
<1>1. /\ i \in DOMAIN sent /\ Live(i)
      /\ UNCHANGED <<sent, sentButNoAck, lastPlace, syncedAt, delivered>>
  BY DEF ReceiveData, Receivable, Live
<1>2. PICK o \in OnData(last, buf, sent[i]) : last' = o.last /\ buf' = o.buf
  BY DEF ReceiveData
<1>3. CASE last = NoSeq
  <2>1. UNCHANGED vars
    BY <1>1, <1>2, <1>3 DEF OnData, Keep, ReceiveData, vars, histories
  <2> QED
    BY <2>1, SMTT(30) DEF vars, histories, Inv, TypeOK, Numbered, SyncState, BufferedAreSent,
       BufferInStreamOrder, DeliveredInOrder, AckedIsKept
<1>4. CASE last # NoSeq
  <2>1. lastPlace > 0 /\ o \in Buffered(last, buf, sent[i])
    BY <1>2, <1>4 DEF OnData, Inv, SyncState, TypeOK
  <2>2. o.last = last
    BY <1>1, <2>1, BufferedStep
  <2>3. acked' = acked \cup {i}
    BY <1>4 DEF ReceiveData
  <2> QED  BY <1>1, <1>2, <2>1, <2>2, <2>3, BufferingPreserves
<1> QED  BY <1>3, <1>4

(* The packet in front of the buffer.                                      *)
LEMMA FrontPacket ==
    ASSUME Inv, buf # <<>>
    PROVE  /\ lastPlace > 0
           /\ Len(buf) >= 1 /\ Head(buf) = buf[1]
           /\ buf[1].place \in 1..Len(sent) /\ buf[1] = sent[buf[1].place]
           /\ buf[1].place >= lastPlace
           /\ FrontIsNext(last, buf) <=> buf[1].place = lastPlace + 1
           /\ FrontIsStale(last, buf) <=> buf[1].place = lastPlace
           /\ Tail(buf) \in Seq(Packet)
           /\ Len(Tail(buf)) = Len(buf) - 1 /\ DOMAIN Tail(buf) = 1..Len(buf) - 1
           /\ \A k \in 1..Len(buf) - 1 : Tail(buf)[k] = buf[k + 1]
<1> USE DEF Inv
<1>1. lastPlace > 0
  BY DEF TypeOK, SyncState
<1>2. Len(buf) >= 1 /\ Head(buf) = buf[1] /\ 1 \in DOMAIN buf
  BY EmptySeq, LenProperties DEF TypeOK
<1>3. buf[1].place \in 1..Len(sent) /\ buf[1] = sent[buf[1].place]
  BY <1>2, Elements DEF BufferedAreSent
<1>4. buf[1].place >= lastPlace
  BY <1>2 DEF BufferInStreamOrder
<1>5. DifferenceWithWrapAround(buf[1].seq, last) = buf[1].place - lastPlace
  <2>1. lastPlace \in 1..Len(sent) /\ Len(sent) \in Nat /\ DOMAIN sent = 1..Len(sent)
    BY <1>1, Elements DEF TypeOK
  <2>2. /\ buf[1].place - lastPlace < HalfRange
        /\ lastPlace - buf[1].place < HalfRange
    BY <1>1, <1>3, <1>4, <2>1, Constants DEF SyncState
  <2>3. last = sent[lastPlace].seq
    BY <1>1 DEF SyncState
  <2> QED  BY <1>3, <2>1, <2>2, <2>3, Distance
<1>6. buf[1].seq \in SeqNums /\ last \in SeqNums
  <2>1. lastPlace \in 1..Len(sent)
    BY <1>1, Elements DEF TypeOK
  <2> QED  BY <1>1, <1>3, <2>1, Elements DEF SyncState, Packet
<1>7. DifferenceWithWrapAround(buf[1].seq, last) = 1 <=> buf[1].seq = Succ(last)
  BY <1>6, Constants, DifferenceZeroOne
<1>8. FrontIsNext(last, buf) <=> buf[1].place = lastPlace + 1
  BY <1>2, <1>3, <1>4, <1>5, <1>7, Elements DEF FrontIsNext, TypeOK
<1>9. FrontIsStale(last, buf) <=> buf[1].place = lastPlace
  BY <1>2, <1>3, <1>4, <1>5, <1>8, Elements DEF FrontIsStale, TypeOK
<1>10. /\ Tail(buf) \in Seq(Packet)
       /\ Len(Tail(buf)) = Len(buf) - 1
       /\ \A k \in 1..Len(buf) - 1 : Tail(buf)[k] = buf[k + 1]
  BY HeadTailProperties DEF TypeOK
<1>11. DOMAIN Tail(buf) = 1..Len(buf) - 1
  BY <1>10, LenProperties
<1> QED  BY <1>1, <1>2, <1>3, <1>4, <1>8, <1>9, <1>10, <1>11

LEMMA TakeNextPreserves ==
    ASSUME Inv, TakeNext
    PROVE  Inv'
<1> USE DEF Inv
<1> DEFINE f == buf[1]
           l == lastPlace + 1
<1>1. buf # <<>> /\ FrontIsNext(last, buf)
  BY DEF TakeNext, FrontIsNext
<1>2. /\ lastPlace > 0 /\ lastPlace \in Nat /\ Len(sent) \in Nat
      /\ DOMAIN sent = 1..Len(sent)
      /\ Len(buf) \in Nat /\ Len(buf) >= 1 /\ DOMAIN buf = 1..Len(buf)
      /\ f.place = l /\ f = sent[l] /\ l \in 1..Len(sent)
      /\ sent[l] \in Packet
  BY <1>1, FrontPacket, Elements DEF TypeOK
<1>3. /\ buf' = Tail(buf) /\ last' = f.seq /\ lastPlace' = l
      /\ delivered' = IF f.kind = "DATA" THEN Append(delivered, l) ELSE delivered
      /\ UNCHANGED <<sent, sentButNoAck, syncedAt, acked>>
  BY <1>1, <1>2, FrontPacket DEF TakeNext
<1>4. /\ buf' \in Seq(Packet) /\ DOMAIN buf' = 1..Len(buf) - 1
      /\ \A k \in DOMAIN buf' : buf'[k] = buf[k + 1] /\ k + 1 \in DOMAIN buf
  BY <1>1, <1>2, <1>3, FrontPacket
<1> HIDE DEF f, l
<1>5. TypeOK'
  <2>1. delivered' \in Seq(1..Len(sent))
    BY <1>2, <1>3, AppendProperties DEF TypeOK
  <2>2. last' \in SeqNums
    BY <1>2, <1>3 DEF Packet
  <2> QED  BY <1>2, <1>3, <1>4, <2>1, <2>2 DEF TypeOK
<1>6. Numbered'
  BY <1>3 DEF Numbered
<1>7. SyncState'
  BY <1>2, <1>3, Constants DEF SyncState, TypeOK, l
<1>8. BufferedAreSent'
  BY <1>3, <1>4 DEF BufferedAreSent
<1>9. BufferInStreamOrder'
  <2>1. \A k \in DOMAIN buf' : buf'[k].place >= l
    <3> SUFFICES ASSUME NEW k \in DOMAIN buf' PROVE buf[k + 1].place >= l
      BY <1>4
    <3>1. 1 \in DOMAIN buf /\ k + 1 \in DOMAIN buf /\ 1 < k + 1
      BY <1>2, <1>4
    <3>2. buf[1].place <= buf[k + 1].place
      BY <3>1 DEF BufferInStreamOrder
    <3>3. buf[1].place = l /\ buf[k + 1].place \in Nat /\ l \in Nat
      BY <1>2, <3>1 DEF f, BufferedAreSent
    <3> QED  BY <3>2, <3>3
  <2>2. \A k, m \in DOMAIN buf' : k < m => buf'[k].place <= buf'[m].place
    <3> SUFFICES ASSUME NEW k \in DOMAIN buf', NEW m \in DOMAIN buf', k < m
                 PROVE  buf[k + 1].place <= buf[m + 1].place
      BY <1>4
    <3>1. k + 1 \in DOMAIN buf /\ m + 1 \in DOMAIN buf /\ k + 1 < m + 1
      BY <1>2, <1>4
    <3> QED  BY <3>1 DEF BufferInStreamOrder
  <2> QED  BY <1>3, <2>1, <2>2 DEF BufferInStreamOrder
<1>10. DeliveredInOrder'
  <2>1. /\ delivered \in Seq(1..Len(sent)) /\ Len(delivered) \in Nat
        /\ DOMAIN delivered = 1..Len(delivered)
        /\ \A m \in DOMAIN delivered : delivered[m] \in syncedAt + 1..lastPlace
    BY Elements DEF TypeOK, DeliveredInOrder
  <2>2. syncedAt \in Nat /\ syncedAt < l /\ syncedAt + 1..l = (syncedAt + 1..lastPlace) \cup {l}
    BY <1>2 DEF SyncState, TypeOK, l
  <2>3. CASE f.kind = "DATA"
    <3>1. /\ Len(delivered') = Len(delivered) + 1
          /\ DOMAIN delivered' = 1..Len(delivered) + 1
          /\ \A m \in 1..Len(delivered) : delivered'[m] = delivered[m]
          /\ delivered'[Len(delivered) + 1] = l
      <4>1. /\ delivered' \in Seq(1..Len(sent))
            /\ Len(delivered') = Len(delivered) + 1
            /\ \A m \in 1..Len(delivered) : delivered'[m] = delivered[m]
            /\ delivered'[Len(delivered) + 1] = l
        BY <1>2, <1>3, <2>1, <2>3, AppendProperties
      <4> QED  BY <4>1, LenProperties
    <3>2. \A m, n \in DOMAIN delivered' : m < n => delivered'[m] < delivered'[n]
      <4> SUFFICES ASSUME NEW m \in DOMAIN delivered', NEW n \in DOMAIN delivered', m < n
                   PROVE  delivered'[m] < delivered'[n]
        OBVIOUS
      <4>1. m \in DOMAIN delivered /\ delivered'[m] = delivered[m]
        BY <2>1, <3>1
      <4>2. CASE n \in DOMAIN delivered
        BY <2>1, <3>1, <4>1, <4>2 DEF DeliveredInOrder
      <4>3. CASE n = Len(delivered) + 1
        BY <1>2, <2>1, <2>2, <3>1, <4>1, <4>3 DEF l
      <4> QED  BY <2>1, <3>1, <4>2, <4>3
    <3>3. {delivered'[m] : m \in DOMAIN delivered'}
            = {delivered[m] : m \in DOMAIN delivered} \cup {l}
      <4>1. ASSUME NEW x \in {delivered'[m] : m \in DOMAIN delivered'}
            PROVE  x \in {delivered[m] : m \in DOMAIN delivered} \cup {l}
        BY <2>1, <3>1
      <4>2. ASSUME NEW x \in {delivered[m] : m \in DOMAIN delivered}
            PROVE  x \in {delivered'[m] : m \in DOMAIN delivered'}
        BY <2>1, <3>1
      <4>3. l \in {delivered'[m] : m \in DOMAIN delivered'}
        BY <2>1, <3>1
      <4> QED  BY <4>1, <4>2, <4>3
    <3>4. {i \in syncedAt + 1..l : sent[i].kind = "DATA"}
            = {i \in syncedAt + 1..lastPlace : sent[i].kind = "DATA"} \cup {l}
      BY <1>2, <2>2, <2>3
    <3> QED  BY <1>3, <3>2, <3>3, <3>4 DEF DeliveredInOrder
  <2>4. CASE f.kind # "DATA"
    <3>1. {i \in syncedAt + 1..l : sent[i].kind = "DATA"}
            = {i \in syncedAt + 1..lastPlace : sent[i].kind = "DATA"}
      BY <1>2, <2>2, <2>4
    <3> QED  BY <1>3, <2>4, <3>1 DEF DeliveredInOrder
  <2> QED  BY <2>3, <2>4
<1>11. AckedIsKept'
  <2> SUFFICES ASSUME NEW i \in acked, ~(i <= l)
               PROVE  \E k \in DOMAIN buf' : buf'[k].place = i
    BY <1>3 DEF AckedIsKept
  <2>1. PICK k \in DOMAIN buf : buf[k].place = i
    BY <1>2 DEF AckedIsKept, TypeOK, l
  <2>2. k # 1
    BY <1>2, <2>1 DEF f, l
  <2>3. k - 1 \in DOMAIN buf' /\ buf'[k - 1] = buf[k]
    BY <1>2, <1>4, <2>2
  <2> QED  BY <2>1, <2>3
<1> QED
  BY <1>5, <1>6, <1>7, <1>8, <1>9, <1>10, <1>11

LEMMA DropStalePreserves ==
    ASSUME Inv, DropStale
    PROVE  Inv'
<1> USE DEF Inv
<1>1. buf # <<>> /\ FrontIsStale(last, buf)
  BY DEF DropStale, FrontIsStale
<1>2. /\ lastPlace \in Nat /\ Len(buf) \in Nat /\ Len(buf) >= 1
      /\ DOMAIN buf = 1..Len(buf) /\ buf[1].place = lastPlace
  BY <1>1, FrontPacket, Elements DEF TypeOK
<1>3. /\ buf' = Tail(buf)
      /\ UNCHANGED <<sent, last, sentButNoAck, lastPlace, syncedAt, delivered, acked>>
  BY DEF DropStale, histories
<1>4. /\ buf' \in Seq(Packet) /\ DOMAIN buf' = 1..Len(buf) - 1
      /\ \A k \in DOMAIN buf' : buf'[k] = buf[k + 1] /\ k + 1 \in DOMAIN buf
  BY <1>1, <1>2, <1>3, FrontPacket
<1>5. TypeOK'
  BY <1>3, <1>4 DEF TypeOK
<1>6. Numbered' /\ SyncState' /\ DeliveredInOrder'
  <2>1. lastPlace # 0
    BY <1>1, FrontPacket
  <2> QED  BY <1>2, <1>3, <2>1 DEF Numbered, SyncState, DeliveredInOrder
<1>7. BufferedAreSent'
  BY <1>3, <1>4 DEF BufferedAreSent
<1>8. BufferInStreamOrder'
  <2> SUFFICES ASSUME NEW k \in DOMAIN buf', NEW m \in DOMAIN buf'
               PROVE  /\ k < m => buf[k + 1].place <= buf[m + 1].place
                      /\ buf[k + 1].place >= lastPlace
    BY <1>3, <1>4 DEF BufferInStreamOrder
  <2>1. k + 1 \in DOMAIN buf /\ m + 1 \in DOMAIN buf /\ (k < m => k + 1 < m + 1)
    BY <1>2, <1>4
  <2> QED  BY <2>1 DEF BufferInStreamOrder
<1>9. AckedIsKept'
  <2> SUFFICES ASSUME NEW i \in acked, ~(i <= lastPlace)
               PROVE  \E k \in DOMAIN buf' : buf'[k].place = i
    BY <1>3 DEF AckedIsKept
  <2>1. PICK k \in DOMAIN buf : buf[k].place = i
    BY DEF AckedIsKept
  <2>2. k # 1
    BY <1>2, <2>1
  <2>3. k - 1 \in DOMAIN buf' /\ buf'[k - 1] = buf[k]
    BY <1>2, <1>4, <2>2
  <2> QED  BY <2>1, <2>3
<1> QED
  BY <1>5, <1>6, <1>7, <1>8, <1>9

----------------------------------------------------------------------------

LEMMA InitInv == Init => Inv
<1> SUFFICES ASSUME Init PROVE Inv
  OBVIOUS
<1>1. sent = <<>> /\ buf = <<>> /\ delivered = <<>>
  BY DEF Init
<1>2. TypeOK
  BY <1>1, EmptySeq DEF Init, TypeOK
<1>3. Numbered /\ SyncState /\ BufferedAreSent /\ BufferInStreamOrder
  BY <1>1 DEF Init, Numbered, SyncState, BufferedAreSent, BufferInStreamOrder
<1>4. DeliveredInOrder /\ AckedIsKept
  BY <1>1 DEF Init, DeliveredInOrder, AckedIsKept
<1> QED  BY <1>2, <1>3, <1>4 DEF Inv

LEMMA NextInv == Inv /\ [Next]_vars => Inv'
<1> SUFFICES ASSUME Inv, [Next]_vars PROVE Inv'
  OBVIOUS
<1>1. ASSUME NEW kind \in {"SYN", "DATA"}, Send(kind) PROVE Inv'
  BY <1>1, SendPreserves
<1>2. ASSUME NEW s \in OwnPackets, SendOwn(s) \/ OwnAcked(s) PROVE Inv'
  BY <1>2, OwnPreserves
<1>3. ASSUME NEW i \in 1..Len(sent), ReceiveSyn(i) PROVE Inv'
  BY <1>3, ReceiveSynPreserves
<1>4. ASSUME NEW i \in 1..Len(sent), ReceiveData(i) PROVE Inv'
  BY <1>4, ReceiveDataPreserves
<1>5. CASE TakeNext
  BY <1>5, TakeNextPreserves
<1>6. CASE DropStale
  BY <1>6, DropStalePreserves
<1>7. CASE UNCHANGED vars
  BY <1>7, SMTT(30) DEF vars, histories, Inv, TypeOK, Numbered, SyncState, BufferedAreSent,
     BufferInStreamOrder, DeliveredInOrder, AckedIsKept
<1> QED
  BY <1>1, <1>2, <1>3, <1>4, <1>5, <1>6, <1>7 DEF Next

LEMMA InvHolds == Spec => []Inv
BY InitInv, NextInv, PTL DEF Spec

(* The bookkeeping of DataHandler.onPacketReceived keeps its types.        *)
THEOREM TypeCorrect == Spec => []TypeOK
<1>1. Inv => TypeOK  BY DEF Inv
<1> QED  BY <1>1, InvHolds, PTL

(* The TreeSet keeps the packets in the order the source sent them, across *)
(* the wrap-around of the numbers, and holds none behind the last one.     *)
THEOREM BufferStaysInStreamOrder == Spec => []BufferInStreamOrder
<1>1. Inv => BufferInStreamOrder  BY DEF Inv
<1> QED  BY <1>1, InvHolds, PTL

(* The loop of onPacketReceived never stops before a packet that is next.  *)
THEOREM LoopTakesAllThatIsNext == Spec => []NothingNextWaits
<1>1. ASSUME Inv PROVE NothingNextWaits
  <2> SUFFICES ASSUME ~Draining(last, buf), NEW k \in DOMAIN buf
               PROVE  buf[k].place > lastPlace + 1
    BY DEF NothingNextWaits
  <2>1. /\ k \in 1..Len(buf) /\ buf[k].place \in Nat /\ lastPlace \in Nat
        /\ buf # <<>>
    BY <1>1, Elements, EmptySeq DEF Inv, TypeOK, Packet
  <2>2. buf[1].place > lastPlace + 1 /\ 1 \in DOMAIN buf /\ buf[1].place \in Nat
    <3>1. /\ buf[1].place >= lastPlace /\ buf[1].place \in 1..Len(sent)
          /\ FrontIsNext(last, buf) <=> buf[1].place = lastPlace + 1
          /\ FrontIsStale(last, buf) <=> buf[1].place = lastPlace
      BY <1>1, <2>1, FrontPacket
    <3>2. buf[1].place # lastPlace + 1 /\ buf[1].place # lastPlace
      BY <3>1 DEF Draining
    <3>3. 1 \in DOMAIN buf /\ Len(sent) \in Nat
      BY <1>1, <2>1, Elements DEF Inv
    <3> QED  BY <2>1, <3>1, <3>2, <3>3
  <2>3. buf[1].place <= buf[k].place
    BY <1>1, <2>1, <2>2 DEF Inv, BufferInStreamOrder
  <2> QED  BY <2>1, <2>2, <2>3
<1> QED  BY <1>1, InvHolds, PTL

(* The receive queue gets the data packets after the SYN, each once and in *)
(* the order of sending, up to the last one in order.                      *)
THEOREM DeliveryIsInOrder == Spec => []DeliveredInOrder
<1>1. Inv => DeliveredInOrder  BY DEF Inv
<1> QED  BY <1>1, InvHolds, PTL

(* No acknowledged packet is dropped while the stream is not restarted.    *)
THEOREM AckedStaysKept == Spec => []AckedIsKept
<1>1. Inv => AckedIsKept  BY DEF Inv
<1> QED  BY <1>1, InvHolds, PTL

----------------------------------------------------------------------------
(* The place in the TreeSet.                                               *)

\* Every place in the stream cuts the buffer in two: what a minimum over the
\* buffer would give, kept as an invariant.
CutAt(b, i, k) == \A m \in DOMAIN b : b[m].place < i <=> m < k
Cut(b) == \A i \in Nat : \E k \in 1..Len(b) + 1 : CutAt(b, i, k)

(* Removing the first packet moves every cut one place to the front.       *)
LEMMA TailKeepsCut ==
    ASSUME NEW b \in Seq(Packet), b # <<>>, Cut(b)
    PROVE  Cut(Tail(b))
<1> DEFINE t == Tail(b)
<1>1. /\ Len(b) \in Nat /\ Len(b) >= 1 /\ DOMAIN b = 1..Len(b)
      /\ Len(t) = Len(b) - 1 /\ DOMAIN t = 1..Len(b) - 1
      /\ \A m \in 1..Len(b) - 1 : t[m] = b[m + 1]
  OBVIOUS
<1> HIDE DEF t
<1>2. ASSUME NEW i \in Nat
      PROVE  \E k \in 1..Len(t) + 1 : CutAt(t, i, k)
  <2>1. PICK k \in 1..Len(b) + 1 : CutAt(b, i, k)
    BY DEF Cut
  <2>2. ASSUME NEW m \in DOMAIN t
        PROVE  t[m].place < i <=> m + 1 < k
    <3>1. m + 1 \in DOMAIN b /\ t[m] = b[m + 1]
      BY <1>1
    <3>2. b[m + 1].place < i <=> m + 1 < k
      BY <2>1, <3>1 DEF CutAt
    <3> QED  BY <3>1, <3>2
  <2>3. CASE k = 1
    <3>1. 1 \in 1..Len(t) + 1 /\ CutAt(t, i, 1)
      BY <1>1, <2>2, <2>3 DEF CutAt
    <3> QED  BY <3>1
  <2>4. CASE k > 1
    <3>1. k - 1 \in 1..Len(t) + 1 /\ CutAt(t, i, k - 1)
      BY <1>1, <2>2, <2>4 DEF CutAt
    <3> QED  BY <3>1
  <2> QED  BY <1>1, <2>3, <2>4
<1> QED  BY <1>2 DEF Cut, t

(* A packet put in so that the order of sending is kept leaves every cut.  *)
LEMMA InsertKeepsCut ==
    ASSUME NEW b \in Seq(Packet), NEW p \in Packet, NEW c \in 1..Len(b) + 1, Cut(b),
           \A k, m \in DOMAIN InsertAt(b, c, p) :
              k < m => InsertAt(b, c, p)[k].place <= InsertAt(b, c, p)[m].place
    PROVE  Cut(InsertAt(b, c, p))
<1> DEFINE w == InsertAt(b, c, p)
<1>1. /\ w \in Seq(Packet) /\ Len(w) = Len(b) + 1
      /\ \A m \in 1..Len(b) + 1 :
            w[m] = IF m < c THEN b[m] ELSE IF m = c THEN p ELSE b[m - 1]
  BY InsertAtProperties
<1>2. \A k, m \in DOMAIN w : k < m => w[k].place <= w[m].place
  OBVIOUS
<1> HIDE DEF w
<1>3. /\ Len(b) \in Nat /\ DOMAIN b = 1..Len(b) /\ DOMAIN w = 1..Len(b) + 1
      /\ p.place \in Nat
  BY <1>1, LenProperties DEF Packet
<1>4. ASSUME NEW m \in DOMAIN b PROVE b[m].place \in Nat
  <2>1. b[m] \in Packet
    BY <1>3, ElementOfSeq
  <2> QED  BY <2>1 DEF Packet
<1>5. /\ Len(b) \in Nat /\ DOMAIN b = 1..Len(b) /\ DOMAIN w = 1..Len(b) + 1
      /\ \A m \in DOMAIN b : b[m].place \in Nat
      /\ p.place \in Nat
      /\ \A k, m \in DOMAIN w : k < m => w[k].place <= w[m].place
  BY <1>2, <1>3, <1>4
<1>6. /\ w[c] = p
      /\ \A m \in DOMAIN b : m < c => w[m] = b[m] /\ b[m].place <= p.place
      /\ \A m \in DOMAIN b : m >= c => w[m + 1] = b[m] /\ p.place <= b[m].place
  <2>1. w[c] = p /\ c \in DOMAIN w
    BY <1>1, <1>5
  <2>2. ASSUME NEW m \in DOMAIN b, m < c PROVE w[m] = b[m] /\ b[m].place <= p.place
    <3>1. m \in DOMAIN w /\ w[m] = b[m]
      BY <1>1, <1>5, <2>2
    <3> QED  BY <3>1, <2>1, <2>2, <1>5
  <2>3. ASSUME NEW m \in DOMAIN b, m >= c PROVE w[m + 1] = b[m] /\ p.place <= b[m].place
    <3>1. m + 1 \in DOMAIN w /\ w[m + 1] = b[m] /\ c < m + 1
      BY <1>1, <1>5, <2>3
    <3> QED  BY <3>1, <2>1, <2>3, <1>5
  <2> QED  BY <2>1, <2>2, <2>3
<1>7. ASSUME NEW i \in Nat
      PROVE  \E k \in 1..Len(w) + 1 : CutAt(w, i, k)
  <2>1. PICK k \in 1..Len(b) + 1 : CutAt(b, i, k)
    BY DEF Cut
  <2>2. \A m \in DOMAIN w : \/ m < c /\ m \in DOMAIN b /\ w[m] = b[m]
                            \/ m = c /\ w[m] = p
                            \/ m > c /\ m - 1 \in DOMAIN b /\ w[m] = b[m - 1]
    <3> SUFFICES ASSUME NEW m \in DOMAIN w
                 PROVE  \/ m < c /\ m \in DOMAIN b /\ w[m] = b[m]
                        \/ m = c /\ w[m] = p
                        \/ m > c /\ m - 1 \in DOMAIN b /\ w[m] = b[m - 1]
      OBVIOUS
    <3>1. m \in 1..Len(b) + 1 /\ (m < c \/ m = c \/ m > c)
      BY <1>5
    <3>2. CASE m < c
      BY <3>1, <3>2, <1>1, <1>5
    <3>3. CASE m = c
      BY <3>1, <3>3, <1>1
    <3>4. CASE m > c
      <4>1. m - 1 \in DOMAIN b
        BY <3>1, <3>4, <1>5
      <4> QED  BY <3>1, <3>4, <4>1, <1>1
    <3> QED  BY <3>1, <3>2, <3>3, <3>4
  <2>3. CASE p.place < i
    <3>1. c <= k
      <4> SUFFICES ASSUME k < c PROVE FALSE
        BY <1>5
      <4>1. k \in DOMAIN b /\ b[k].place <= p.place
        BY <1>5, <1>6
      <4> QED  BY <4>1, <2>1, <2>3, <1>5 DEF CutAt
    <3>2. ASSUME NEW m \in DOMAIN w PROVE w[m].place < i <=> m < k + 1
      <4>1. CASE m < c /\ m \in DOMAIN b /\ w[m] = b[m]
        BY <4>1, <2>1, <3>1, <1>5 DEF CutAt
      <4>2. CASE m = c /\ w[m] = p
        BY <4>2, <2>3, <3>1, <1>5
      <4>3. CASE m > c /\ m - 1 \in DOMAIN b /\ w[m] = b[m - 1]
        <5>1. w[m].place < i <=> m - 1 < k
          BY <4>3, <2>1 DEF CutAt
        <5>2. m \in Int /\ k \in Int
          BY <1>5
        <5>3. m - 1 < k <=> m < k + 1
          BY <5>2
        <5> QED  BY <5>1, <5>3
      <4> QED  BY <4>1, <4>2, <4>3, <2>2
    <3>3. k + 1 \in 1..Len(w) + 1
      BY <1>1, <1>5
    <3> QED  BY <3>2, <3>3 DEF CutAt
  <2>4. CASE i <= p.place
    <3>1. k <= c
      <4> SUFFICES ASSUME c < k PROVE FALSE
        BY <1>5
      <4>1. c \in DOMAIN b /\ p.place <= b[c].place
        BY <1>5, <1>6
      <4> QED  BY <4>1, <2>1, <2>4, <1>5 DEF CutAt
    <3>2. ASSUME NEW m \in DOMAIN w PROVE w[m].place < i <=> m < k
      <4>1. CASE m < c /\ m \in DOMAIN b /\ w[m] = b[m]
        BY <4>1, <2>1, <1>5 DEF CutAt
      <4>2. CASE m = c /\ w[m] = p
        BY <4>2, <2>4, <3>1, <1>5
      <4>3. CASE m > c /\ m - 1 \in DOMAIN b /\ w[m] = b[m - 1]
        <5>1. w[m].place < i <=> m - 1 < k
          BY <4>3, <2>1 DEF CutAt
        <5>2. m \in Int /\ k \in Int /\ c \in Int
          BY <1>5
        <5>3. ~ (m - 1 < k) /\ ~ (m < k)
          BY <5>2, <3>1, <4>3
        <5> QED  BY <5>1, <5>3
      <4> QED  BY <4>1, <4>2, <4>3, <2>2
    <3>3. k \in 1..Len(w) + 1
      BY <1>1, <1>5
    <3> QED  BY <3>2, <3>3 DEF CutAt
  <2> QED  BY <2>3, <2>4, <1>5
<1> QED  BY <1>7 DEF Cut, w

(* The buffer starts without packets, where every place cuts alike.        *)
LEMMA EmptyIsCut == Cut(<<>>)
  BY DEF Cut, CutAt

\* What a packet does to the cut of the buffer.
LEMMA OutcomeKeepsCut ==
    ASSUME Inv, Inv', Cut(buf), NEW i \in DOMAIN sent, NEW o, buf' = o.buf,
           \/ o = Adopt(sent[i].seq)
           \/ o = Keep(last, buf)
           \/ o \in Buffered(last, buf, sent[i])
    PROVE  Cut(buf')
<1>1. CASE o = Adopt(sent[i].seq)
  BY <1>1, EmptyIsCut DEF Adopt
<1>2. CASE o = Keep(last, buf)
  BY <1>2 DEF Keep
<1>3. CASE o # Keep(last, buf) /\ o \in Buffered(last, buf, sent[i])
  <2>1. PICK b \in Inserted(buf, sent[i]) : o = Keep(last, b)
    BY <1>3 DEF Buffered
  <2>2. PICK c \in 1..Len(buf) + 1 : b = InsertAt(buf, c, sent[i])
    BY DEF Inserted
  <2>3. buf' = InsertAt(buf, c, sent[i])
    BY <2>1, <2>2 DEF Keep
  <2>4. \A k, m \in DOMAIN buf' : k < m => buf'[k].place <= buf'[m].place
    BY DEF Inv, BufferInStreamOrder
  <2>5. buf \in Seq(Packet) /\ sent[i] \in Packet
    BY Elements DEF Inv, TypeOK
  <2> QED  BY <2>3, <2>4, <2>5, InsertKeepsCut
<1> QED  BY <1>1, <1>2, <1>3

(* Every step keeps the cuts of the buffer.                                *)
LEMMA NextCut == Inv /\ Inv' /\ Cut(buf) /\ [Next]_vars => Cut(buf')
<1> SUFFICES ASSUME Inv, Inv', Cut(buf), [Next]_vars PROVE Cut(buf')
  OBVIOUS
<1>1. ASSUME NEW i \in 1..Len(sent), ReceiveSyn(i) PROVE Cut(buf')
  <2>1. PICK o \in OnSyn(last, buf, sent[i]) : buf' = o.buf
    BY <1>1 DEF ReceiveSyn
  <2>2. o = Adopt(sent[i].seq) \/ o \in Buffered(last, buf, sent[i])
    BY DEF OnSyn
  <2>3. i \in DOMAIN sent
    BY Elements DEF Inv
  <2> QED  BY <2>1, <2>2, <2>3, OutcomeKeepsCut
<1>2. ASSUME NEW i \in 1..Len(sent), ReceiveData(i) PROVE Cut(buf')
  <2>1. PICK o \in OnData(last, buf, sent[i]) : buf' = o.buf
    BY <1>2 DEF ReceiveData
  <2>2. o = Keep(last, buf) \/ o \in Buffered(last, buf, sent[i])
    BY DEF OnData
  <2>3. i \in DOMAIN sent
    BY Elements DEF Inv
  <2> QED  BY <2>1, <2>2, <2>3, OutcomeKeepsCut
<1>3. CASE TakeNext \/ DropStale
  <2>1. buf' = Tail(buf) /\ buf # <<>>
    BY <1>3 DEF TakeNext, DropStale, FrontIsNext, FrontIsStale
  <2> QED  BY <2>1, TailKeepsCut DEF Inv, TypeOK
<1>4. CASE \/ \E kind \in {"SYN", "DATA"} : Send(kind)
           \/ \E s \in OwnPackets : SendOwn(s) \/ OwnAcked(s)
           \/ UNCHANGED vars
  BY <1>4 DEF Send, SendOwn, OwnAcked, vars
<1> QED  BY <1>1, <1>2, <1>3, <1>4 DEF Next

(* Two live places, or a live one and a buffered one, are within half the  *)
(* circle of each other, whatever the place l delivered last.              *)
LEMMA WithinHalf ==
    ASSUME NEW n \in Nat, NEW l \in Nat, NEW i \in Nat, NEW q \in Nat,
           i <= n, q <= n, l <= q, n - i < Window, n - l <= Window
    PROVE  i - q < HalfRange /\ q - i < HalfRange
<1>1. i - q <= n - l /\ q - i <= n - i
  OBVIOUS
<1> QED  BY <1>1, Constants

(* The TreeSet of DataHandler has one place for every packet that can      *)
(* arrive, for every width of the int and every window within half of it:  *)
(* its comparator is an order on what is about, across the wrap-around.    *)
THEOREM PlaceStaysUnique == Spec => []TreeSetPlaceIsUnique
<1>1. ASSUME Inv, Cut(buf) PROVE TreeSetPlaceIsUnique
  <2> USE <1>1
  <2> SUFFICES ASSUME last # NoSeq, NEW i \in DOMAIN sent, Live(i)
               PROVE  Cardinality(Inserted(buf, sent[i])) = 1
    BY DEF TreeSetPlaceIsUnique
  <2>1. /\ i \in 1..Len(sent) /\ Len(sent) \in Nat /\ Len(buf) \in Nat
        /\ DOMAIN buf = 1..Len(buf) /\ lastPlace \in 1..Len(sent)
        /\ Len(sent) - i < Window /\ Len(sent) - lastPlace <= Window
    BY Elements DEF Inv, TypeOK, SyncState, Live
  <2>2. ASSUME NEW m \in DOMAIN buf
        PROVE  /\ buf[m].place \in Nat
               /\ CompareTo(sent[i].seq, buf[m].seq) = IF buf[m].place < i THEN 1 ELSE -1
    <3>1. buf[m] = sent[buf[m].place] /\ buf[m].place \in DOMAIN sent
      BY <2>1, Elements DEF Inv, BufferedAreSent
    <3>2. buf[m].place \in 1..Len(sent) /\ buf[m].place >= lastPlace
      BY <2>1, Elements DEF Inv, BufferedAreSent, BufferInStreamOrder
    <3>3. i - buf[m].place < HalfRange /\ buf[m].place - i < HalfRange
      <4>1. /\ Len(sent) \in Nat /\ lastPlace \in Nat /\ i \in Nat
            /\ i <= Len(sent)
            /\ Len(sent) - i < Window /\ Len(sent) - lastPlace <= Window
        BY ONLY <2>1
      <4>2. PICK q \in 1..Len(sent) : q = buf[m].place /\ q >= lastPlace
        BY ONLY <3>2
      <4>3. q \in Nat /\ q <= Len(sent) /\ lastPlace <= q
        BY ONLY <4>1, <4>2
      <4>4. i - q < HalfRange /\ q - i < HalfRange
        BY ONLY <4>1, <4>3, WithinHalf
      <4> QED  BY ONLY <4>2, <4>4
    <3>4. i \in Int /\ buf[m].place \in Int /\ buf[m].place \in Nat
      <4>1. i \in Int /\ Len(sent) \in Nat
        BY ONLY <2>1
      <4>2. PICK q \in 1..Len(sent) : q = buf[m].place
        BY ONLY <3>2
      <4>3. q \in Int /\ q \in Nat
        BY ONLY <4>1, <4>2
      <4> QED  BY ONLY <4>1, <4>2, <4>3
    <3>5. DifferenceWithWrapAround(sent[i].seq, sent[buf[m].place].seq) = i - buf[m].place
      BY <3>1, <3>3, Distance DEF Inv
    <3>6. i - buf[m].place < 1 <=> ~(buf[m].place < i)
      BY ONLY <3>4
    <3> QED  BY <3>1, <3>5, <3>4, <3>6 DEF CompareTo
  <2>3. PICK k \in 1..Len(buf) + 1 : CutAt(buf, i, k)
    <3>1. i \in Nat
      BY <2>1
    <3> QED  BY <3>1 DEF Cut
  <2>4. ASSUME NEW c \in 1..Len(buf) + 1,
               \A m \in DOMAIN buf :
                  CompareTo(sent[i].seq, buf[m].seq) = IF m < c THEN 1 ELSE -1
        PROVE  c = k
    <3>1. \A m \in DOMAIN buf : m < c <=> m < k
      BY <2>2, <2>3, <2>4 DEF CutAt
    <3>2. ~(c < k)
      <4> SUFFICES ASSUME c < k PROVE FALSE
        OBVIOUS
      <4>1. c \in DOMAIN buf /\ ~(c < c)
        BY <2>1
      <4> QED  BY <3>1, <4>1
    <3>3. ~(k < c)
      <4> SUFFICES ASSUME k < c PROVE FALSE
        OBVIOUS
      <4>1. k \in DOMAIN buf /\ ~(k < k)
        BY <2>1
      <4> QED  BY <3>1, <4>1
    <3> QED  BY <2>1, <3>2, <3>3
  <2>5. \A m \in DOMAIN buf : CompareTo(sent[i].seq, buf[m].seq) = IF m < k THEN 1 ELSE -1
    BY <2>2, <2>3 DEF CutAt
  <2>6. Inserted(buf, sent[i]) = {InsertAt(buf, k, sent[i])}
    BY <2>4, <2>5 DEF Inserted
  <2> QED  BY <2>6, FS_Singleton
<1>2. Init => Cut(buf)
  BY EmptyIsCut DEF Init
<1>3. Cut(buf) /\ Inv /\ Inv' /\ [Next]_vars => Cut(buf)'
  BY NextCut
<1> QED  BY <1>1, <1>2, <1>3, InvHolds, PTL DEF Spec

----------------------------------------------------------------------------
(* The refinement.                                                         *)

Kinds == {"SYN", "DATA"}
Stream == [i \in DOMAIN sent |-> sent[i].kind]
HeldPlaces == PlacesOf(buf) \ {lastPlace}

LEMMA StreamType ==
    ASSUME TypeOK
    PROVE  /\ Stream \in Seq(Kinds) /\ Len(Stream) = Len(sent)
           /\ DOMAIN Stream = 1..Len(sent)
           /\ \A i \in 1..Len(sent) : Stream[i] = sent[i].kind
<1>1. /\ Len(sent) \in Nat /\ DOMAIN sent = 1..Len(sent)
      /\ \A i \in 1..Len(sent) : sent[i].kind \in Kinds
  BY Elements DEF Packet, Kinds
<1>2. Stream \in [1..Len(sent) -> Kinds]
  BY <1>1 DEF Stream
<1>3. Stream \in Seq(Kinds)
  BY <1>1, <1>2, SeqDef
<1>4. Len(Stream) = Len(sent)
  BY <1>1, <1>2, <1>3, LenProperties
<1> QED  BY <1>1, <1>3, <1>4 DEF Stream

LEMMA InitRefines == Init => InOrder!Init
<1> SUFFICES ASSUME Init PROVE InOrder!Init
  OBVIOUS
<1>1. sent = <<>> /\ buf = <<>>
  BY DEF Init
<1>2. DOMAIN sent = {} /\ DOMAIN buf = {}
  BY <1>1
<1>3. [i \in DOMAIN sent |-> sent[i].kind] = <<>>
  BY <1>2
<1>4. PlacesOf(buf) \ {lastPlace} = {}
  BY <1>2 DEF PlacesOf
<1> QED  BY <1>3, <1>4 DEF Init, InOrder!Init

(* Sending appends the packet's kind to the stream.                        *)
LEMMA SendRefines ==
    ASSUME Inv, Inv', NEW kind \in Kinds, Send(kind)
    PROVE  InOrder!Send(kind)
<1> USE DEF Inv
<1>1. /\ sent' = Append(sent, [kind |-> kind, seq |-> NextSeq, place |-> Len(sent) + 1])
      /\ UNCHANGED <<last, buf, lastPlace, delivered>>
  BY DEF Send, histories
<1>2. /\ Len(sent) \in Nat /\ Len(sent') = Len(sent) + 1
      /\ \A i \in 1..Len(sent) : sent'[i] = sent[i]
      /\ sent'[Len(sent) + 1].kind = kind
  <2> DEFINE p == [kind |-> kind, seq |-> NextSeq, place |-> Len(sent) + 1]
  <2>1. /\ Len(sent) \in Nat /\ sent \in Seq(Packet \cup {p}) /\ p \in Packet \cup {p}
    <3>1. sent \in Seq(Packet) /\ Packet \subseteq Packet \cup {p}
      BY DEF TypeOK
    <3> HIDE DEF p
    <3> QED  BY <3>1, SeqMonotonic, Elements
  <2>2. p.kind = kind
    OBVIOUS
  <2> HIDE DEF p
  <2>3. /\ Len(Append(sent, p)) = Len(sent) + 1
        /\ \A i \in 1..Len(sent) : Append(sent, p)[i] = sent[i]
        /\ Append(sent, p)[Len(sent) + 1] = p
    BY <2>1, AppendProperties
  <2> QED  BY <1>1, <2>1, <2>2, <2>3 DEF p
<1>3. /\ Stream \in Seq(Kinds) /\ Len(Stream) = Len(sent)
      /\ \A i \in 1..Len(sent) : Stream[i] = sent[i].kind
  BY StreamType
<1>4. /\ Stream' \in Seq(Kinds) /\ Len(Stream') = Len(sent)+ 1
      /\ \A i \in 1..Len(sent) + 1 : Stream'[i] = sent'[i].kind
  <2>1. TypeOK'
    OBVIOUS
  <2>2. /\ Stream' \in Seq(Kinds) /\ Len(Stream') = Len(sent')
        /\ \A i \in 1..Len(sent') : Stream'[i] = sent'[i].kind
    <3>1. /\ Len(sent') \in Nat /\ DOMAIN sent' = 1..Len(sent')
          /\ \A i \in 1..Len(sent') : sent'[i].kind \in Kinds
      <4>1. sent' \in Seq(Packet)
        BY <2>1 DEF TypeOK
      <4>2. /\ Len(sent') \in Nat /\ DOMAIN sent' = 1..Len(sent')
            /\ \A i \in 1..Len(sent') : sent'[i] \in Packet
        BY <4>1, LenProperties, ElementOfSeq
      <4> QED  BY <4>2 DEF Packet, Kinds
    <3>2. Stream' \in [1..Len(sent') -> Kinds]
      BY <3>1 DEF Stream
    <3>3. Stream' \in Seq(Kinds)
      BY <3>1, <3>2, SeqDef
    <3> QED  BY <3>1, <3>2, <3>3, LenProperties DEF Stream
  <2> QED  BY <1>2, <2>2
<1>5. /\ Append(Stream, kind) \in Seq(Kinds)
      /\ Len(Append(Stream, kind)) = Len(sent) + 1
      /\ \A i \in 1..Len(sent) : Append(Stream, kind)[i] = Stream[i]
      /\ Append(Stream, kind)[Len(sent) + 1] = kind
  BY <1>3, AppendProperties
<1>6. Stream' = Append(Stream, kind)
  <2>1. \A i \in 1..Len(sent) + 1 : Stream'[i] = Append(Stream, kind)[i]
    BY <1>2, <1>3, <1>4, <1>5
  <2> QED  BY <1>4, <1>5, <2>1, SeqEqual
<1>7. PlacesOf(buf)' = PlacesOf(buf)
  BY <1>1 DEF PlacesOf
<1> QED  BY <1>1, <1>6, <1>7 DEF InOrder!Send, Stream

(* A packet that is buffered is held, any other leaves no trace.           *)
LEMMA BufferingRefines ==
    ASSUME Inv, lastPlace > 0, NEW i \in DOMAIN sent, Live(i),
           NEW o \in Buffered(last, buf, sent[i]),
           buf' = o.buf,
           UNCHANGED <<sent, lastPlace, delivered>>
    PROVE  [InOrder!Next]_InOrder!vars
<1>1. PlacesOf(buf)' = PlacesOf(buf) \cup (IF i > lastPlace THEN {i} ELSE {})
  <2>1. PlacesOf(o.buf) = PlacesOf(buf) \cup (IF i > lastPlace THEN {i} ELSE {})
    BY BufferedStep
  <2>2. PlacesOf(buf)' = PlacesOf(o.buf)
    BY DEF PlacesOf
  <2> QED  BY <2>1, <2>2
<1>2. /\ i \in 1..Len(sent) /\ lastPlace \in Nat
      /\ Len([k \in DOMAIN sent |-> sent[k].kind]) = Len(sent)
  BY Elements, StreamType DEF Inv, TypeOK, Stream
<1>3. CASE i > lastPlace
  <2>1. (PlacesOf(buf) \ {lastPlace})' = (PlacesOf(buf) \ {lastPlace}) \cup {i}
    BY <1>1, <1>2, <1>3
  <2>2. InOrder!Hold(i)
    BY <1>3, <2>1 DEF InOrder!Hold
  <2> QED  BY <1>2, <2>2 DEF InOrder!Next
<1>4. CASE ~(i > lastPlace)
  BY <1>1, <1>4 DEF InOrder!vars
<1> QED  BY <1>3, <1>4

LEMMA ReceiveSynRefines ==
    ASSUME Inv, NEW i \in 1..Len(sent), ReceiveSyn(i)
    PROVE  [InOrder!Next]_InOrder!vars
<1>1. /\ i \in DOMAIN sent /\ Live(i) /\ sent[i].kind = "SYN"
      /\ DOMAIN sent = 1..Len(sent) /\ Len(sent) \in Nat /\ lastPlace \in Nat
      /\ sent' = sent
      /\ Len([k \in DOMAIN sent |-> sent[k].kind]) = Len(sent)
  BY Elements, StreamType DEF ReceiveSyn, Receivable, Live, Inv, TypeOK, Stream
<1>2. PICK o \in OnSyn(last, buf, sent[i]) :
         /\ last' = o.last
         /\ buf' = o.buf
         /\ lastPlace' = IF o.adopted THEN i ELSE lastPlace
         /\ delivered' = IF o.adopted THEN <<>> ELSE delivered
  BY DEF ReceiveSyn
<1>3. CASE /\ o = Adopt(sent[i].seq)
           /\ lastPlace = 0 \/ SuspectsRestart(last, buf, sent[i].seq)
  <2>1. buf' = <<>> /\ lastPlace' = i /\ delivered' = <<>>
    BY <1>2, <1>3 DEF Adopt
  <2>2. (PlacesOf(buf) \ {lastPlace})' = {}
    BY <2>1 DEF PlacesOf
  <2>3. \/ lastPlace = 0
        \/ i < lastPlace
        \/ \E j \in PlacesOf(buf) \ {lastPlace} : j - i > MaxDifference
    <3> SUFFICES ASSUME lastPlace > 0, ~(i < lastPlace)
                 PROVE  \E j \in PlacesOf(buf) \ {lastPlace} : j - i > MaxDifference
      BY <1>1
    <3>1. /\ lastPlace \in DOMAIN sent /\ last = sent[lastPlace].seq
          /\ Len(sent) - i < Window /\ Len(sent) - lastPlace <= Window
      BY <1>1 DEF Inv, SyncState, Live, TypeOK
    <3>2. DifferenceWithWrapAround(sent[i].seq, last) = i - lastPlace
      <4>1. i - lastPlace < HalfRange /\ lastPlace - i < HalfRange
        BY <1>1, <3>1, Constants
      <4> QED  BY <1>1, <3>1, <4>1, Distance DEF Inv
    <3>3. /\ buf # <<>>
          /\ DifferenceWithWrapAround(sent[i].seq, buf[Len(buf)].seq) < -MaxDifference
      BY <1>1, <1>3, <3>2 DEF SuspectsRestart, Last
    <3> DEFINE j == buf[Len(buf)].place
    <3>4. /\ Len(buf) \in DOMAIN buf /\ j \in DOMAIN sent /\ j \in 1..Len(sent)
          /\ buf[Len(buf)] = sent[j] /\ j >= lastPlace
      <4>1. Len(buf) \in DOMAIN buf
        BY <3>3, Elements, EmptySeq DEF Inv, TypeOK
      <4> QED  BY <1>1, <4>1 DEF Inv, BufferedAreSent, BufferInStreamOrder
    <3> HIDE DEF j
    <3>5. DifferenceWithWrapAround(sent[i].seq, sent[j].seq) = i - j
      <4>1. i - j < HalfRange /\ j - i < HalfRange
        BY <1>1, <3>1, <3>4, Constants
      <4> QED  BY <1>1, <3>4, <4>1, Distance DEF Inv
    <3>6. j - i > MaxDifference /\ j # lastPlace
      BY <1>1, <3>3, <3>4, <3>5, MaxDifferenceAssumption
    <3> QED  BY <3>4, <3>6 DEF PlacesOf, j
  <2>4. InOrder!Synchronize(i)
    BY <1>1, <2>1, <2>2, <2>3 DEF InOrder!Synchronize
  <2> QED  BY <1>1, <2>4 DEF InOrder!Next
<1>4. CASE lastPlace > 0 /\ o \in Buffered(last, buf, sent[i])
  <2>1. o.adopted = FALSE
    BY <1>1, <1>4, BufferedStep
  <2> QED  BY <1>1, <1>2, <1>4, <2>1, BufferingRefines
<1> QED  BY <1>1, <1>3, <1>4, SynCases

LEMMA ReceiveDataRefines ==
    ASSUME Inv, NEW i \in 1..Len(sent), ReceiveData(i)
    PROVE  [InOrder!Next]_InOrder!vars
<1>1. /\ i \in DOMAIN sent /\ Live(i)
      /\ UNCHANGED <<sent, lastPlace, delivered>>
  BY DEF ReceiveData, Receivable, Live
<1>2. PICK o \in OnData(last, buf, sent[i]) : buf' = o.buf
  BY DEF ReceiveData
<1>3. CASE last = NoSeq
  BY <1>1, <1>2, <1>3 DEF OnData, Keep, InOrder!vars
<1>4. CASE last # NoSeq
  <2>1. lastPlace > 0 /\ o \in Buffered(last, buf, sent[i])
    BY <1>2, <1>4 DEF OnData, Inv, SyncState, TypeOK
  <2> QED  BY <1>1, <1>2, <2>1, BufferingRefines
<1> QED  BY <1>3, <1>4

(* Taking the front packet off the buffer.                                 *)
LEMMA TailPlaces ==
    ASSUME Inv, buf # <<>>
    PROVE  PlacesOf(buf) = PlacesOf(Tail(buf)) \cup {buf[1].place}
<1>1. /\ Len(buf) \in Nat /\ Len(buf) >= 1 /\ DOMAIN buf = 1..Len(buf)
      /\ DOMAIN Tail(buf) = 1..Len(buf) - 1
      /\ \A k \in 1..Len(buf) - 1 : Tail(buf)[k] = buf[k + 1]
  BY FrontPacket, Elements DEF Inv
<1>2. ASSUME NEW x \in PlacesOf(buf) PROVE x \in PlacesOf(Tail(buf)) \cup {buf[1].place}
  <2>1. PICK k \in 1..Len(buf) : x = buf[k].place
    BY <1>1 DEF PlacesOf
  <2>2. CASE k = 1
    BY <2>1, <2>2
  <2>3. CASE k > 1
    <3>1. k - 1 \in DOMAIN Tail(buf) /\ Tail(buf)[k - 1] = buf[k]
      BY <1>1, <2>1, <2>3
    <3> QED  BY <2>1, <3>1 DEF PlacesOf
  <2> QED  BY <2>1, <2>2, <2>3
<1>3. ASSUME NEW x \in PlacesOf(Tail(buf)) PROVE x \in PlacesOf(buf)
  <2>1. PICK k \in 1..Len(buf) - 1 : x = Tail(buf)[k].place
    BY <1>1 DEF PlacesOf
  <2>2. k + 1 \in DOMAIN buf /\ x = buf[k + 1].place
    BY <1>1, <2>1
  <2> QED  BY <2>2 DEF PlacesOf
<1>4. buf[1].place \in PlacesOf(buf)
  BY <1>1 DEF PlacesOf
<1> QED  BY <1>2, <1>3, <1>4

LEMMA TakeNextRefines ==
    ASSUME Inv, Inv', TakeNext
    PROVE  InOrder!Advance
<1> DEFINE l == lastPlace + 1
<1>1. /\ buf # <<>> /\ buf[1].place = l /\ buf[1] = sent[l] /\ Head(buf) = buf[1]
      /\ l \in DOMAIN sent /\ lastPlace \in Nat
  BY FrontPacket, Elements DEF TakeNext, FrontIsNext, Inv, TypeOK
<1>2. /\ buf' = Tail(buf) /\ lastPlace' = l /\ sent' = sent
      /\ delivered' = IF sent[l].kind = "DATA" THEN Append(delivered, l) ELSE delivered
  BY <1>1 DEF TakeNext
<1>3. PlacesOf(buf) = PlacesOf(buf)' \cup {l}
  BY <1>1, <1>2, TailPlaces DEF PlacesOf
<1>4. lastPlace \notin PlacesOf(buf)'
  BY <1>1, <1>2 DEF Inv, BufferInStreamOrder, PlacesOf
<1>5. (PlacesOf(buf) \ {lastPlace})' = (PlacesOf(buf) \ {lastPlace}) \ {l}
  BY <1>1, <1>2, <1>3, <1>4
<1>6. l \in PlacesOf(buf) \ {lastPlace}
  BY <1>1, <1>3
<1> QED  BY <1>1, <1>2, <1>5, <1>6 DEF InOrder!Advance

LEMMA DropStaleRefines ==
    ASSUME Inv, DropStale
    PROVE  UNCHANGED InOrder!vars
<1>1. buf # <<>> /\ buf[1].place = lastPlace
  BY FrontPacket DEF DropStale, FrontIsStale
<1>2. buf' = Tail(buf) /\ UNCHANGED <<sent, lastPlace, delivered>>
  BY DEF DropStale, histories
<1>3. PlacesOf(buf) = PlacesOf(buf)' \cup {lastPlace}
  BY <1>1, <1>2, TailPlaces DEF PlacesOf
<1>4. (PlacesOf(buf) \ {lastPlace})' = PlacesOf(buf) \ {lastPlace}
  BY <1>2, <1>3
<1> QED  BY <1>2, <1>4 DEF InOrder!vars

LEMMA StepRefines == Inv /\ Inv' /\ [Next]_vars => [InOrder!Next]_InOrder!vars
<1> SUFFICES ASSUME Inv, Inv', [Next]_vars PROVE [InOrder!Next]_InOrder!vars
  OBVIOUS
<1>1. ASSUME NEW kind \in {"SYN", "DATA"}, Send(kind) PROVE InOrder!Next
  BY <1>1, SendRefines DEF Kinds, InOrder!Next
<1>2. ASSUME NEW s \in OwnPackets, SendOwn(s) \/ OwnAcked(s) PROVE UNCHANGED InOrder!vars
  <2>1. UNCHANGED <<sent, buf, lastPlace, delivered>>
    BY <1>2 DEF SendOwn, OwnAcked, histories
  <2> QED  BY <2>1 DEF InOrder!vars, PlacesOf
<1>3. ASSUME NEW i \in 1..Len(sent), ReceiveSyn(i) PROVE [InOrder!Next]_InOrder!vars
  BY <1>3, ReceiveSynRefines
<1>4. ASSUME NEW i \in 1..Len(sent), ReceiveData(i) PROVE [InOrder!Next]_InOrder!vars
  BY <1>4, ReceiveDataRefines
<1>5. CASE TakeNext
  BY <1>5, TakeNextRefines DEF InOrder!Next
<1>6. CASE DropStale
  BY <1>6, DropStaleRefines
<1>7. CASE UNCHANGED vars
  BY <1>7 DEF vars, histories, InOrder!vars, PlacesOf
<1> QED
  BY <1>1, <1>2, <1>3, <1>4, <1>5, <1>6, <1>7 DEF Next

(* DataHandler.java implements in-order delivery of one stream: every run  *)
(* of the handler, seen through the places of the packets, is a run of     *)
(* InOrderDelivery.                                                        *)
THEOREM Refinement == Spec => ImplementsInOrderDelivery
BY InitInv, NextInv, InvHolds, InitRefines, StepRefines, PTL
   DEF Spec, ImplementsInOrderDelivery, InOrder!Spec

=============================================================================
