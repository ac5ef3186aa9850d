------------------------- MODULE SocketThreadsProofs -------------------------
(***************************************************************************)
(* What holds of SocketThreads for any number of packets and tries, in any *)
(* order of the threads.                                                   *)
(***************************************************************************)
EXTENDS SocketThreads, TLAPS

----------------------------------------------------------------------------
\* Types.

\* The tries of a packet run out when its receiver is given up, not before.
TriesLeft ==
    \A p \in Packet :
        stage[p] \in Numbering \cup Sending \cup {"new", "waiting"} => tries[p] > 0

\* A packet has no number until its thread has read one.
Unnumbered ==
    \A p \in Packet : stage[p] \in {"new", "look", "start", "read"} => number[p] = -1

Numbered ==
    \A p \in Packet :
        stage[p] \in Sending \cup GivingUp \cup {"write", "waiting", "done", "gone"} =>
            number[p] \in Nat

TypeInv == TypeOK /\ TriesLeft /\ Unnumbered /\ Numbered

LEMMA TypeInit == Init => TypeInv
<1> SUFFICES ASSUME Init PROVE TypeInv
  OBVIOUS
<1>1. TypeOK
  <2>1. tries \in [Packet -> 0..MaxRetransmit]
    BY SocketThreadsAssumption DEF Init
  <2>2. number \in [Packet -> Nat \cup {-1}]
    BY DEF Init
  <2> QED
    BY <2>1, <2>2 DEF Init, TypeOK, Numbering, Sending, GivingUp
<1>2. TriesLeft
  BY SocketThreadsAssumption DEF Init, TriesLeft
<1>3. Unnumbered /\ Numbered
  BY DEF Init, Unnumbered, Numbered, Sending, GivingUp
<1> QED
  BY <1>1, <1>2, <1>3 DEF TypeInv

LEMMA TypeStep == TypeInv /\ [Next]_vars => TypeInv'
<1> SUFFICES ASSUME TypeInv, [Next]_vars PROVE TypeInv'
  OBVIOUS
<1> USE SocketThreadsAssumption DEF TypeInv, TypeOK, TriesLeft, Unnumbered,
        Numbered, At, maps, Numbering, Sending, GivingUp
<1>1. ASSUME NEW p \in Packet, Begin(p)
      PROVE  TypeInv'
  BY <1>1 DEF Begin
<1>2. ASSUME NEW p \in Packet, NextNumber(p)
      PROVE  TypeInv'
  <2>1. CASE Look(p)
    BY <2>1 DEF Look
  <2>2. CASE Start(p)
    BY <2>2 DEF Start
  <2>3. CASE Read(p)
    BY <2>3 DEF Read
  <2>4. CASE Write(p)
    <3>1. number[p] + 1 \in Nat
      BY DEF TypeOK
    <3> QED
      BY <2>4, <3>1 DEF Write, Written
  <2> QED
    BY <1>2, <2>1, <2>2, <2>3, <2>4 DEF NextNumber
<1>3. ASSUME NEW p \in Packet, SendAndRetry(p)
      PROVE  TypeInv'
  <2>1. CASE Transmit(p)
    BY <2>1 DEF Transmit
  <2>2. CASE Check(p)
    BY <2>2 DEF Check
  <2>3. CASE Create(p)
    BY <2>3 DEF Create
  <2>4. CASE Record(p)
    BY <2>4 DEF Record, Recorded
  <2> QED
    BY <1>3, <2>1, <2>2, <2>3, <2>4 DEF SendAndRetry
<1>4. ASSUME NEW p \in Packet, Wake(p)
      PROVE  TypeInv'
  <2>1. CASE IsUnacked(p) /\ tries[p] > 1
    BY <1>4, <2>1 DEF Wake, AfterTimer
  <2>2. CASE IsUnacked(p) /\ tries[p] = 1
    BY <1>4, <2>2 DEF Wake, AfterTimer
  <2>3. CASE ~IsUnacked(p)
    BY <1>4, <2>3 DEF Wake, AfterTimer
  <2>4. tries[p] > 0
    BY <1>4 DEF Wake
  <2> QED
    BY <2>1, <2>2, <2>3, <2>4
<1>5. ASSUME NEW p \in Packet, GiveUp(p)
      PROVE  TypeInv'
  BY <1>5, ZenonT(30) DEF GiveUp, Forget, Renumber, Leave
<1>6. ASSUME NEW p \in Packet, ReceiveAck(p)
      PROVE  TypeInv'
  BY <1>6 DEF ReceiveAck, IsUnacked
<1>7. CASE Join
  BY <1>7 DEF Join
<1>8. CASE UNCHANGED vars
  BY <1>8 DEF vars
<1> QED
  BY <1>1, <1>2, <1>3, <1>4, <1>5, <1>6, <1>7, <1>8 DEF Next, Run

\* The maps and the threads keep their types: no thread makes a new try when
\* none is left.
THEOREM TypeCorrect == Spec => []TypeOK
<1>1. TypeInv => TypeOK
  BY DEF TypeInv
<1> QED
  BY <1>1, TypeInit, TypeStep, PTL DEF Spec

----------------------------------------------------------------------------
\* No number waits without a timer.  That a thread works on a number it has
\* not looked at is inductive by itself; the types tell the numbers apart.

LEMMA WaitingStep == TypeInv /\ WaitingHasTimer /\ [Next]_vars => WaitingHasTimer'
<1> SUFFICES ASSUME TypeInv, WaitingHasTimer, [Next]_vars PROVE WaitingHasTimer'
  OBVIOUS
<1> USE DEF TypeInv, TypeOK, Unnumbered, WaitingHasTimer, At, maps, Numbering, Sending
<1>1. ASSUME NEW p \in Packet, Begin(p)
      PROVE  WaitingHasTimer'
  BY <1>1 DEF Begin
<1>2. ASSUME NEW p \in Packet, NextNumber(p)
      PROVE  WaitingHasTimer'
  <2>1. CASE Look(p)
    BY <2>1 DEF Look
  <2>2. CASE Start(p)
    BY <2>2 DEF Start
  <2>3. CASE Read(p)
    BY <2>3 DEF Read
  <2>4. CASE Write(p)
    BY <2>4 DEF Write
  <2> QED
    BY <1>2, <2>1, <2>2, <2>3, <2>4 DEF NextNumber
<1>3. ASSUME NEW p \in Packet, SendAndRetry(p)
      PROVE  WaitingHasTimer'
  <2>1. CASE Transmit(p)
    BY <2>1 DEF Transmit
  <2>2. CASE Check(p)
    BY <2>2 DEF Check
  <2>3. CASE Create(p)
    BY <2>3 DEF Create
  <2>4. CASE Record(p)
    BY <2>4 DEF Record, Recorded
  <2> QED
    BY <1>3, <2>1, <2>2, <2>3, <2>4 DEF SendAndRetry
<1>4. ASSUME NEW p \in Packet, Wake(p)
      PROVE  WaitingHasTimer'
  <2>1. CASE IsUnacked(p)
    BY <1>4, <2>1 DEF Wake, AfterTimer
  <2>2. CASE ~IsUnacked(p)
    BY <1>4, <2>2 DEF Wake, AfterTimer, IsUnacked
  <2> QED
    BY <2>1, <2>2
<1>5. ASSUME NEW p \in Packet, GiveUp(p)
      PROVE  WaitingHasTimer'
  <2>1. CASE Forget(p)
    BY <2>1 DEF Forget
  <2>2. CASE Renumber(p)
    BY <2>2 DEF Renumber
  <2>3. CASE Leave(p)
    BY <2>3 DEF Leave
  <2> QED
    BY <1>5, <2>1, <2>2, <2>3 DEF GiveUp
<1>6. ASSUME NEW p \in Packet, ReceiveAck(p)
      PROVE  WaitingHasTimer'
  BY <1>6 DEF ReceiveAck, IsUnacked
<1>7. CASE Join
  BY <1>7 DEF Join
<1>8. CASE UNCHANGED vars
  BY <1>8 DEF vars
<1> QED
  BY <1>1, <1>2, <1>3, <1>4, <1>5, <1>6, <1>7, <1>8 DEF Next, Run

\* However many threads put, fill, empty and throw away the set of numbers
\* without a lock, none stays in it that no timer will look at.
THEOREM NoneIsWithoutTimer == Spec => []WaitingHasTimer
<1>1. Init => WaitingHasTimer
  BY DEF Init, WaitingHasTimer
<1> QED
  BY <1>1, TypeInit, TypeStep, WaitingStep, PTL DEF Spec

----------------------------------------------------------------------------
\* Numbers have no gaps.

\* As long as the other node is not given up, the number that comes next has
\* all the numbers before it in use.
CounterHasNoGaps ==
    ~GivenUp /\ counter # Absent =>
        \A s \in 0..counter - 1 : \E q \in Packet : number[q] = s

GapInv == NumbersHaveNoGaps /\ CounterHasNoGaps

LEMMA GapStep == TypeInv /\ GapInv /\ [Next]_vars => GapInv'
<1> SUFFICES ASSUME TypeInv, GapInv, [Next]_vars PROVE GapInv'
  OBVIOUS
<1> USE SocketThreadsAssumption
    DEF TypeInv, TypeOK, Unnumbered, Numbered, GapInv, NumbersHaveNoGaps,
        CounterHasNoGaps, GivenUp, At, maps
<1>1. ASSUME NEW p \in Packet, Begin(p)
      PROVE  GapInv'
  BY <1>1 DEF Begin
<1>2. ASSUME NEW p \in Packet, NextNumber(p)
      PROVE  GapInv'
  <2>1. CASE Look(p)
    BY <2>1 DEF Look
  <2>2. CASE Start(p)
    BY <2>2 DEF Start
  <2>3. CASE Read(p)
    <3>1. CASE counter = Absent
      BY <2>3, <3>1 DEF Read
    <3>2. CASE counter # Absent
      BY <2>3, <3>2 DEF Read
    <3> QED
      BY <3>1, <3>2
  <2>4. CASE Write(p)
    BY <2>4 DEF Write, Written
  <2> QED
    BY <1>2, <2>1, <2>2, <2>3, <2>4 DEF NextNumber
<1>3. ASSUME NEW p \in Packet, SendAndRetry(p)
      PROVE  GapInv'
  BY <1>3 DEF SendAndRetry, Transmit, Check, Create, Record, Recorded
<1>4. ASSUME NEW p \in Packet, Wake(p)
      PROVE  GapInv'
  BY <1>4 DEF Wake, AfterTimer
<1>5. ASSUME NEW p \in Packet, GiveUp(p)
      PROVE  GapInv'
  BY <1>5 DEF GiveUp, Forget, Renumber, Leave
<1>6. ASSUME NEW p \in Packet, ReceiveAck(p)
      PROVE  GapInv'
  BY <1>6 DEF ReceiveAck
<1>7. CASE Join
  BY <1>7 DEF Join
<1>8. CASE UNCHANGED vars
  BY <1>8 DEF vars
<1> QED
  BY <1>1, <1>2, <1>3, <1>4, <1>5, <1>6, <1>7, <1>8 DEF Next, Run

\* Threads that take numbers at the same time may take one twice, but leave
\* none out that the other node would wait for.
THEOREM NoneIsSkipped == Spec => []NumbersHaveNoGaps
<1>1. Init => GapInv
  BY DEF Init, GapInv, NumbersHaveNoGaps, CounterHasNoGaps
<1>2. GapInv => NumbersHaveNoGaps
  BY DEF GapInv
<1> QED
  BY <1>1, <1>2, TypeInit, TypeStep, GapStep, PTL DEF Spec
=============================================================================
