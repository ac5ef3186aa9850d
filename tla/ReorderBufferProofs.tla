------------------------ MODULE ReorderBufferProofs ------------------------
(***************************************************************************)
(* The circular difference of sequence numbers, for every width of the     *)
(* int, and what the operators of ReorderBuffer return.                    *)
(***************************************************************************)
EXTENDS ReorderBuffer, SequenceTheorems, TLAPS

(* The difference is an integer between -HalfRange and HalfRange - 1, so   *)
(* the long that Util.java computes it in never overflows.                 *)
THEOREM DifferenceRange ==
    ASSUME NEW x \in SeqNums, NEW y \in SeqNums
    PROVE  DifferenceWithWrapAround(x, y) \in SeqNums
BY HalfRangeAssumption
   DEF DifferenceWithWrapAround, IncrementSteps, DecrementSteps, SeqNums, Modulus

LEMMA SuccType ==
    ASSUME NEW x \in SeqNums
    PROVE  Succ(x) \in SeqNums
BY HalfRangeAssumption DEF Succ, SeqNums

(* Counting one packet further moves the difference by one, unless the two *)
(* numbers are already as far apart as the circle allows.                  *)
LEMMA DifferenceSucc ==
    ASSUME NEW x \in SeqNums, NEW y \in SeqNums,
           DifferenceWithWrapAround(x, y) < HalfRange - 1
    PROVE  DifferenceWithWrapAround(Succ(x), y)
             = DifferenceWithWrapAround(x, y) + 1
BY HalfRangeAssumption
   DEF DifferenceWithWrapAround, IncrementSteps, DecrementSteps, SeqNums,
       Modulus, Succ

(* Swapping the arguments negates the difference, except for the two       *)
(* numbers that are exactly half the circle apart.                         *)
LEMMA DifferenceAntisymmetric ==
    ASSUME NEW x \in SeqNums, NEW y \in SeqNums,
           DifferenceWithWrapAround(x, y) # -HalfRange
    PROVE  DifferenceWithWrapAround(y, x) = -DifferenceWithWrapAround(x, y)
BY HalfRangeAssumption
   DEF DifferenceWithWrapAround, IncrementSteps, DecrementSteps, SeqNums, Modulus

(* Two numbers at most half the circle behind a third differ by the        *)
(* difference of their distances: within such a window the circular order  *)
(* that RawPacket.compareTo gives the TreeSet is transitive.               *)
THEOREM DifferenceInWindow ==
    ASSUME NEW a \in SeqNums, NEW x \in SeqNums, NEW y \in SeqNums,
           DifferenceWithWrapAround(a, x) >= 0,
           DifferenceWithWrapAround(a, y) >= 0
    PROVE  DifferenceWithWrapAround(x, y)
             = DifferenceWithWrapAround(a, y) - DifferenceWithWrapAround(a, x)
BY HalfRangeAssumption
   DEF DifferenceWithWrapAround, IncrementSteps, DecrementSteps, SeqNums, Modulus

(* Only equal numbers differ by zero, and only the successor is one ahead: *)
(* "== last + 1" in DataHandler's loop is the test "one ahead".            *)
THEOREM DifferenceZeroOne ==
    ASSUME NEW x \in SeqNums, NEW y \in SeqNums
    PROVE  /\ DifferenceWithWrapAround(x, y) = 0 <=> x = y
           /\ (HalfRange > 1) =>
                (DifferenceWithWrapAround(x, y) = 1 <=> x = Succ(y))
BY HalfRangeAssumption
   DEF DifferenceWithWrapAround, IncrementSteps, DecrementSteps, SeqNums,
       Modulus, Succ

----------------------------------------------------------------------------
(* Inserting an element moves those behind its place and changes nothing   *)
(* else.                                                                   *)
LEMMA InsertAtProperties ==
    ASSUME NEW S, NEW s \in Seq(S), NEW e \in S, NEW k \in 1..Len(s) + 1
    PROVE  /\ InsertAt(s, k, e) \in Seq(S)
           /\ Len(InsertAt(s, k, e)) = Len(s) + 1
           /\ \A i \in 1..Len(s) + 1 :
                 InsertAt(s, k, e)[i] =
                    IF i < k THEN s[i] ELSE IF i = k THEN e ELSE s[i - 1]
<1> DEFINE a == SubSeq(s, 1, k - 1)
           b == SubSeq(s, k, Len(s))
<1>1. /\ k \in Int /\ Len(s) \in Nat
      /\ \A i \in 1..Len(s) : s[i] \in S
  BY LenProperties, ElementOfSeq
<1>2. /\ a \in Seq(S) /\ Len(a) = k - 1
      /\ \A i \in 1..k - 1 : a[i] = s[i]
  <2>1. /\ a \in Seq(S) /\ Len(a) = IF 1 <= k - 1 THEN k - 1 - 1 + 1 ELSE 0
        /\ \A i \in 1..k - 1 - 1 + 1 : a[i] = s[1 + i - 1]
    <3>1. \A i \in 1..k - 1 : s[i] \in S  BY <1>1
    <3> QED  BY <3>1, <1>1, SubSeqProperties
  <2> QED  BY <1>1, <2>1
<1>3. /\ b \in Seq(S) /\ Len(b) = Len(s) - k + 1
      /\ \A i \in 1..Len(s) - k + 1 : b[i] = s[k + i - 1]
  <2>1. /\ b \in Seq(S) /\ Len(b) = IF k <= Len(s) THEN Len(s) - k + 1 ELSE 0
        /\ \A i \in 1..Len(s) - k + 1 : b[i] = s[k + i - 1]
    <3>1. \A i \in k..Len(s) : s[i] \in S  BY <1>1
    <3> QED  BY <3>1, <1>1, SubSeqProperties
  <2> QED  BY <1>1, <2>1
<1> DEFINE ae == a \o <<e>>
<1>4. /\ <<e>> \in Seq(S) /\ Len(<<e>>) = 1 /\ <<e>>[1] = e  OBVIOUS
<1> HIDE DEF a, b
<1>5. /\ ae \in Seq(S) /\ Len(ae) = k
      /\ \A i \in 1..k : ae[i] = IF i <= k - 1 THEN a[i] ELSE e
  <2>1. /\ ae \in Seq(S) /\ Len(ae) = Len(a) + 1
        /\ \A i \in 1..Len(a) + 1 :
              ae[i] = IF i <= Len(a) THEN a[i] ELSE <<e>>[i - Len(a)]
    BY <1>2, <1>4, ConcatProperties
  <2> QED  BY <2>1, <1>1, <1>2, <1>4
<1> HIDE DEF ae
<1>6. /\ ae \o b \in Seq(S) /\ Len(ae \o b) = Len(s) + 1
      /\ \A i \in 1..Len(s) + 1 :
            (ae \o b)[i] = IF i <= k THEN ae[i] ELSE b[i - k]
  <2>1. /\ ae \o b \in Seq(S) /\ Len(ae \o b) = Len(ae) + Len(b)
        /\ \A i \in 1..Len(ae) + Len(b) :
              (ae \o b)[i] = IF i <= Len(ae) THEN ae[i] ELSE b[i - Len(ae)]
    BY <1>3, <1>5, ConcatProperties
  <2> QED  BY <2>1, <1>1, <1>3, <1>5
<1>7. InsertAt(s, k, e) = ae \o b  BY DEF InsertAt, ae, a, b
<1>8. \A i \in 1..Len(s) + 1 :
         (ae \o b)[i] = IF i < k THEN s[i] ELSE IF i = k THEN e ELSE s[i - 1]
  BY <1>1, <1>2, <1>3, <1>5, <1>6, SMTT(30)
<1> QED  BY <1>6, <1>7, <1>8

(* Removing an element adds none.                                          *)
LEMMA RemoveAtProperties ==
    ASSUME NEW S, NEW s \in Seq(S), NEW k \in 1..Len(s)
    PROVE  /\ RemoveAt(s, k) \in Seq(S)
           /\ \A i \in DOMAIN RemoveAt(s, k) :
                 \E j \in DOMAIN s : RemoveAt(s, k)[i] = s[j]
<1> DEFINE T == {s[j] : j \in DOMAIN s}
<1>1. /\ Len(s) \in Nat /\ DOMAIN s = 1..Len(s)
      /\ \A i \in 1..Len(s) : s[i] \in S /\ s[i] \in T
  BY LenProperties, ElementOfSeq
<1>2. T \subseteq S
  BY <1>1
<1> HIDE DEF T
<1>3. SubSeq(s, 1, k - 1) \in Seq(T)
  <2>1. \A i \in 1..k - 1 : s[i] \in T  BY <1>1
  <2> QED  BY <2>1, <1>1, SubSeqProperties
<1>4. SubSeq(s, k + 1, Len(s)) \in Seq(T)
  <2>1. \A i \in k + 1..Len(s) : s[i] \in T  BY <1>1
  <2> QED  BY <2>1, <1>1, SubSeqProperties
<1>5. RemoveAt(s, k) \in Seq(T)
  BY <1>3, <1>4, ConcatProperties DEF RemoveAt
<1>6. RemoveAt(s, k) \in Seq(S)
  BY <1>2, <1>5, SeqMonotonic
<1>7. \A i \in DOMAIN RemoveAt(s, k) : RemoveAt(s, k)[i] \in T
  BY <1>5, LenProperties, ElementOfSeq
<1> QED  BY <1>6, <1>7 DEF T

(* The elements of a concatenation are those of its parts.                 *)
LEMMA ConcatElements ==
    ASSUME NEW S, NEW s \in Seq(S), NEW t \in Seq(S)
    PROVE  /\ s \o t \in Seq(S)
           /\ \A i \in DOMAIN (s \o t) :
                 \/ \E j \in DOMAIN s : (s \o t)[i] = s[j]
                 \/ \E j \in DOMAIN t : (s \o t)[i] = t[j]
<1>1. /\ s \o t \in Seq(S) /\ Len(s \o t) = Len(s) + Len(t)
      /\ \A i \in 1..Len(s) + Len(t) :
            (s \o t)[i] = IF i <= Len(s) THEN s[i] ELSE t[i - Len(s)]
  BY ConcatProperties
<1>2. /\ Len(s) \in Nat /\ DOMAIN s = 1..Len(s)
      /\ Len(t) \in Nat /\ DOMAIN t = 1..Len(t)
      /\ DOMAIN (s \o t) = 1..Len(s) + Len(t)
  BY <1>1, LenProperties
<1>3. ASSUME NEW i \in DOMAIN (s \o t)
      PROVE  \/ \E j \in DOMAIN s : (s \o t)[i] = s[j]
             \/ \E j \in DOMAIN t : (s \o t)[i] = t[j]
  <2>1. CASE i <= Len(s)
    BY <1>1, <1>2, <2>1
  <2>2. CASE i > Len(s)
    <3>1. i - Len(s) \in DOMAIN t /\ (s \o t)[i] = t[i - Len(s)]
      BY <1>1, <1>2, <2>2
    <3> QED  BY <3>1
  <2> QED  BY <1>2, <2>1, <2>2
<1> QED  BY <1>1, <1>3

(* What DataHandler's branches return.                                     *)
LEMMA BufferedType ==
    ASSUME NEW P, NEW last, NEW buf \in Seq(P), NEW p \in P,
           NEW o \in Buffered(last, buf, p)
    PROVE  o.last = last /\ o.buf \in Seq(P) /\ o.adopted = FALSE
<1>1. CASE o = Keep(last, buf)
  BY <1>1 DEF Keep
<1>2. ASSUME NEW b \in Inserted(buf, p), o = Keep(last, b)
      PROVE  o.last = last /\ o.buf \in Seq(P) /\ o.adopted = FALSE
  <2>1. PICK k \in 1..Len(buf) + 1 : b = InsertAt(buf, k, p)
    BY DEF Inserted
  <2> QED  BY <1>2, <2>1, InsertAtProperties DEF Keep
<1> QED  BY <1>1, <1>2 DEF Buffered

LEMMA OnSynType ==
    ASSUME NEW P, NEW last, NEW buf \in Seq(P), NEW p \in P,
           NEW o \in OnSyn(last, buf, p)
    PROVE  /\ o.buf \in Seq(P)
           /\ o.adopted \in BOOLEAN
           /\ o.last = IF o.adopted THEN p.seq ELSE last
           /\ last = NoSeq => o.adopted
<1>1. CASE o = Adopt(p.seq)
  <2>1. o.last = p.seq /\ o.buf = <<>> /\ o.adopted = TRUE
    BY <1>1 DEF Adopt
  <2>2. <<>> \in Seq(P)
    BY EmptySeq
  <2> QED  BY <2>1, <2>2
<1>2. CASE last # NoSeq /\ o \in Buffered(last, buf, p)
  <2>1. o \in Buffered(last, buf, p)
    BY <1>2
  <2>2. o.last = last /\ o.buf \in Seq(P) /\ o.adopted = FALSE
    BY <2>1, BufferedType
  <2> QED  BY <1>2, <2>2
<1> QED  BY <1>1, <1>2 DEF OnSyn

LEMMA OnDataType ==
    ASSUME NEW P, NEW last, NEW buf \in Seq(P), NEW p \in P,
           NEW o \in OnData(last, buf, p)
    PROVE  o.last = last /\ o.buf \in Seq(P)
<1>1. CASE o = Keep(last, buf)
  BY <1>1 DEF Keep
<1>2. CASE o \in Buffered(last, buf, p)
  <2>1. o \in Buffered(last, buf, p)
    BY <1>2
  <2>2. o.last = last /\ o.buf \in Seq(P) /\ o.adopted = FALSE
    BY <2>1, BufferedType
  <2> QED  BY <2>2
<1> QED  BY <1>1, <1>2 DEF OnData
=============================================================================
