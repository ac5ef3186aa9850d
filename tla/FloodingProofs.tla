--------------------------- MODULE FloodingProofs ---------------------------
(***************************************************************************)
(* For every network, every clock and any number of packets and losses: a  *)
(* packet reaches the handlers of a node at most once; and at least once,  *)
(* wherever there is a path to, when nothing is lost and no hash collides. *)
(***************************************************************************)
EXTENDS Flooding, TLAPS

\* A node that handled a packet remembers its hash.
Remembered ==
    \A n \in Node : \A i \in DOMAIN built :
        handlings[n][i] > 0 => HashCode(built[i]) \in handled[n]

Inv == TypeOK /\ HandledOnce /\ Remembered

LEMMA BuiltElements ==
    ASSUME TypeOK
    PROVE  /\ Len(built) \in Nat /\ DOMAIN built = 1..Len(built)
           /\ \A i \in 1..Len(built) : built[i] \in BuiltPacket
BY DEF TypeOK

LEMMA HashType ==
    ASSUME NEW p \in BuiltPacket
    PROVE  HashCode(p) \in HashCodes
BY DEF HashCode, HashCodes, BuiltPacket

LEMMA HeardType ==
    ASSUME NEW c \in [Node -> [Packets -> Nat]], NEW n \in Node, NEW i \in Packets
    PROVE  /\ Heard(c, n, i) \in [Node -> [Packets -> Nat]]
           /\ \A m \in Node : \A j \in Packets : j # i => Heard(c, n, i)[m][j] = c[m][j]
BY DEF Heard

LEMMA TakenType ==
    ASSUME TypeOK, NEW n \in Node, NEW i \in Packets, copies[n][i] > 0
    PROVE  /\ Taken(n, i) \in [Node -> [Packets -> Nat]]
           /\ \A m \in Node : \A j \in Packets : j # i => Taken(n, i)[m][j] = copies[m][j]
           /\ i <= Len(built)
<1>1. copies[n][i] - 1 \in Nat
  BY DEF TypeOK
<1>2. i \in Nat /\ Len(built) \in Nat
  BY FloodingAssumption, BuiltElements DEF Packets
<1>3. i <= Len(built)
  <2> SUFFICES ASSUME i > Len(built) PROVE FALSE
    BY <1>2
  <2>1. copies[n][i] = 0
    BY DEF TypeOK
  <2> QED  BY <2>1
<1> QED  BY <1>1, <1>3 DEF TypeOK, Taken

LEMMA InitInv == Init => Inv
<1> SUFFICES ASSUME Init PROVE Inv
  OBVIOUS
<1>1. TypeOK
  BY FloodingAssumption DEF Init, TypeOK, Packets
<1>2. DOMAIN built = {}
  BY DEF Init
<1> QED  BY <1>1, <1>2 DEF Inv, HandledOnce, Remembered

LEMMA TickPreserves == Inv /\ Tick => Inv'
BY DEF Inv, Tick, TypeOK, HandledOnce, Remembered, HashCode

LEMMA SendPreserves ==
    ASSUME Inv, NEW n \in Node, NEW d \in Node \cup {Everyone}, Send(n, d)
    PROVE  Inv'
<1> DEFINE p == [source |-> n, dest |-> d, nonce |-> clock]
           k == Len(built) + 1
<1>1. /\ TypeOK /\ HandledOnce /\ Remembered
      /\ built' = Append(built, p) /\ Len(built) < MaxPackets
      /\ copies' = Heard(copies, n, k)
      /\ UNCHANGED <<clock, handled, handlings, losses>>
  BY DEF Inv, Send
<1>2. p \in BuiltPacket
  BY <1>1 DEF TypeOK, BuiltPacket
<1>3. Len(built) \in Nat /\ DOMAIN built = 1..Len(built) /\ k \in Packets
  BY <1>1, BuiltElements, FloodingAssumption DEF Packets
<1>4. /\ built' \in Seq(BuiltPacket) /\ Len(built') = k
      /\ DOMAIN built' = 1..k
      /\ built'[k] = p /\ \A i \in 1..Len(built) : built'[i] = built[i]
  BY <1>1, <1>2, <1>3 DEF TypeOK
<1> HIDE DEF p
<1>5. /\ copies' \in [Node -> [Packets -> Nat]]
      /\ \A m \in Node : \A j \in Packets : j # k => copies'[m][j] = copies[m][j]
  <2>1. copies \in [Node -> [Packets -> Nat]]
    BY <1>1 DEF TypeOK
  <2>2. k \in Packets /\ copies' = Heard(copies, n, k)
    BY <1>1, <1>3
  <2> HIDE DEF k
  <2> QED  BY <2>1, <2>2, HeardType
<1>6. \A m \in Node : handlings[m][k] = 0
  BY <1>1, <1>3 DEF TypeOK
<1>7. TypeOK'
  <2>1. k <= MaxPackets
    BY <1>1, <1>3, FloodingAssumption
  <2>2. \A m \in Node : \A j \in Packets :
            j > Len(built') => copies'[m][j] = 0 /\ handlings'[m][j] = 0
    <3> SUFFICES ASSUME NEW m \in Node, NEW j \in Packets, j > k
                 PROVE  copies'[m][j] = 0 /\ handlings'[m][j] = 0
      BY <1>4
    <3>1. j # k /\ j > Len(built) /\ j \in Nat
      BY <1>3 DEF Packets
    <3> QED  BY <3>1, <1>1, <1>5 DEF TypeOK
  <2> QED  BY <2>1, <2>2, <1>1, <1>4, <1>5 DEF TypeOK
<1>8. HandledOnce'
  <2> SUFFICES ASSUME NEW m \in Node, NEW i \in 1..k
               PROVE  handlings[m][i] <= IF built'[i].source = m THEN 0 ELSE 1
    BY <1>1, <1>4 DEF HandledOnce
  <2>1. CASE i = k
    BY <2>1, <1>6
  <2>2. CASE i # k
    BY <2>2, <1>1, <1>3, <1>4 DEF HandledOnce
  <2> QED  BY <2>1, <2>2
<1>9. Remembered'
  <2> SUFFICES ASSUME NEW m \in Node, NEW i \in 1..k, handlings[m][i] > 0
               PROVE  HashCode(built'[i]) \in handled[m]
    BY <1>1, <1>4 DEF Remembered
  <2>1. i # k
    BY <1>6
  <2> QED  BY <2>1, <1>1, <1>3, <1>4 DEF Remembered
<1> QED  BY <1>7, <1>8, <1>9 DEF Inv

LEMMA HandlePreserves ==
    ASSUME Inv, NEW n \in Node, NEW i \in Packets, Handle(n, i)
    PROVE  Inv'
<1>1. /\ TypeOK /\ HandledOnce /\ Remembered
      /\ copies[n][i] > 0
      /\ built[i].source # n /\ HashCode(built[i]) \notin handled[n]
      /\ handled' = [handled EXCEPT ![n] = @ \cup {HashCode(built[i])}]
      /\ handlings' = [handlings EXCEPT ![n][i] = IF @ = 0 THEN 1 ELSE 2]
      /\ copies' \in {Heard(Taken(n, i), n, i), Taken(n, i)}
      /\ UNCHANGED <<clock, built, losses>>
  BY DEF Inv, Handle, Fresh, Remember
<1>2. /\ Len(built) \in Nat /\ i \in 1..Len(built) /\ DOMAIN built = 1..Len(built)
      /\ built[i] \in BuiltPacket
  BY <1>1, TakenType, BuiltElements, FloodingAssumption DEF Packets
<1>3. handlings[n][i] = 0
  <2>1. handlings[n][i] \in 0..2
    BY <1>1 DEF TypeOK
  <2> QED  BY <2>1, <1>1, <1>2 DEF Remembered
<1>4. HashCode(built[i]) \in HashCodes
  BY <1>2, HashType
<1>5. /\ copies' \in [Node -> [Packets -> Nat]]
      /\ \A m \in Node : \A j \in Packets : j # i => copies'[m][j] = copies[m][j]
  <2>1. /\ Taken(n, i) \in [Node -> [Packets -> Nat]]
        /\ \A m \in Node : \A j \in Packets : j # i => Taken(n, i)[m][j] = copies[m][j]
    BY <1>1, TakenType
  <2>2. /\ Heard(Taken(n, i), n, i) \in [Node -> [Packets -> Nat]]
        /\ \A m \in Node : \A j \in Packets :
              j # i => Heard(Taken(n, i), n, i)[m][j] = Taken(n, i)[m][j]
    BY <2>1, HeardType
  <2> QED  BY <1>1, <2>1, <2>2
<1>6. /\ handlings' \in [Node -> [Packets -> 0..2]]
      /\ handlings'[n][i] = 1
      /\ \A m \in Node : \A j \in Packets :
            m # n \/ j # i => handlings'[m][j] = handlings[m][j]
  BY <1>1, <1>3 DEF TypeOK
<1>7. handled' \in [Node -> SUBSET HashCodes]
      /\ \A m \in Node : handled[m] \subseteq handled'[m]
      /\ HashCode(built[i]) \in handled'[n]
  BY <1>1, <1>4 DEF TypeOK
<1>8. TypeOK'
  <2>1. \A m \in Node : \A j \in Packets :
            j > Len(built) => copies'[m][j] = 0 /\ handlings'[m][j] = 0
    <3> SUFFICES ASSUME NEW m \in Node, NEW j \in Packets, j > Len(built)
                 PROVE  copies'[m][j] = 0 /\ handlings'[m][j] = 0
      OBVIOUS
    <3>1. j # i
      BY <1>2
    <3> QED  BY <3>1, <1>1, <1>5, <1>6 DEF TypeOK
  <2> QED  BY <2>1, <1>1, <1>5, <1>6, <1>7 DEF TypeOK
<1>9. HandledOnce'
  <2> SUFFICES ASSUME NEW m \in Node, NEW j \in 1..Len(built)
               PROVE  handlings'[m][j] <= IF built[j].source = m THEN 0 ELSE 1
    BY <1>1, <1>2 DEF HandledOnce
  <2>1. j \in Packets
    BY <1>1, <1>2, FloodingAssumption DEF Packets, TypeOK
  <2>2. CASE m = n /\ j = i
    BY <2>2, <1>1, <1>6
  <2>3. CASE m # n \/ j # i
    BY <2>1, <2>3, <1>1, <1>2, <1>6 DEF HandledOnce
  <2> QED  BY <2>2, <2>3
<1>10. Remembered'
  <2> SUFFICES ASSUME NEW m \in Node, NEW j \in 1..Len(built), handlings'[m][j] > 0
               PROVE  HashCode(built[j]) \in handled'[m]
    BY <1>1, <1>2 DEF Remembered, HashCode
  <2>1. j \in Packets
    BY <1>1, <1>2, FloodingAssumption DEF Packets, TypeOK
  <2>2. CASE m = n /\ j = i
    BY <2>2, <1>7
  <2>3. CASE m # n \/ j # i
    BY <2>1, <2>3, <1>1, <1>2, <1>6, <1>7 DEF Remembered
  <2> QED  BY <2>2, <2>3
<1> QED  BY <1>8, <1>9, <1>10 DEF Inv

LEMMA LessPreserves ==
    ASSUME Inv, NEW n \in Node, NEW i \in Packets, Drop(n, i) \/ Lose(n, i)
    PROVE  Inv'
<1>1. /\ TypeOK /\ HandledOnce /\ Remembered
      /\ copies[n][i] > 0 /\ copies' = Taken(n, i)
      /\ losses' \in 0..MaxLoss
      /\ UNCHANGED <<clock, built, handled, handlings>>
  BY FloodingAssumption DEF Inv, Drop, Lose, TypeOK
<1>2. /\ copies' \in [Node -> [Packets -> Nat]]
      /\ \A m \in Node : \A j \in Packets : j # i => copies'[m][j] = copies[m][j]
      /\ i <= Len(built)
  BY <1>1, TakenType
<1>3. i \in Nat /\ Len(built) \in Nat
  BY <1>1, BuiltElements, FloodingAssumption DEF Packets
<1>4. TypeOK'
  <2>1. \A m \in Node : \A j \in Packets :
            j > Len(built) => copies'[m][j] = 0 /\ handlings[m][j] = 0
    <3> SUFFICES ASSUME NEW m \in Node, NEW j \in Packets, j > Len(built)
                 PROVE  copies'[m][j] = 0 /\ handlings[m][j] = 0
      OBVIOUS
    <3>1. j # i
      BY <1>2, <1>3
    <3> QED  BY <3>1, <1>1, <1>2 DEF TypeOK
  <2> QED  BY <2>1, <1>1, <1>2 DEF TypeOK
<1> QED  BY <1>1, <1>4 DEF Inv, HandledOnce, Remembered, HashCode

LEMMA NextInv == Inv /\ [Next]_vars => Inv'
<1> SUFFICES ASSUME Inv, [Next]_vars PROVE Inv'
  OBVIOUS
<1>1. CASE Tick
  BY <1>1, TickPreserves
<1>2. ASSUME NEW n \in Node, NEW d \in Node \cup {Everyone}, Send(n, d) PROVE Inv'
  BY <1>2, SendPreserves
<1>3. ASSUME NEW n \in Node, NEW i \in Packets, Handle(n, i) PROVE Inv'
  BY <1>3, HandlePreserves
<1>4. ASSUME NEW n \in Node, NEW i \in Packets, Drop(n, i) \/ Lose(n, i) PROVE Inv'
  BY <1>4, LessPreserves
<1>5. CASE UNCHANGED vars
  BY <1>5 DEF vars, Inv, TypeOK, HandledOnce, Remembered, HashCode
<1> QED  BY <1>1, <1>2, <1>3, <1>4, <1>5 DEF Next

LEMMA InvHolds == Spec => []Inv
BY InitInv, NextInv, PTL DEF Spec

(* The state of the receiver threads and of the network keeps its type.    *)
THEOREM TypeCorrect == Spec => []TypeOK
<1>1. Inv => TypeOK  BY DEF Inv
<1> QED  BY <1>1, InvHolds, PTL

(* ReceiverThread hands a packet to the handlers of a node at most once,   *)
(* and never to those of its source.                                       *)
THEOREM PacketsAreHandledOnce == Spec => []HandledOnce
<1>1. Inv => HandledOnce  BY DEF Inv
<1> QED  BY <1>1, InvHolds, PTL

(***************************************************************************)
(* Reach.  What a node remembers it has handled; so a packet that no other *)
(* is taken for is handled, or still to be looked at, by whoever hears its *)
(* source or a node that has sent it on.                                   *)
(***************************************************************************)

\* Each hash a node remembers is of a packet it has handled.
HandledFor ==
    \A n \in Node : \A h \in handled[n] :
        \E i \in DOMAIN built : HashCode(built[i]) = h /\ handlings[n][i] > 0

\* Node n has sent packet i, or sent it on.
Sent(n, i) ==
    n = built[i].source \/ (handlings[n][i] > 0 /\ Relays(n, i))

SentIsHeard ==
    losses = 0 => \A i \in DOMAIN built : Distinct(i) => \A r \in Range :
        Sent(r[1], i) /\ r[2] # built[i].source =>
            handlings[r[2]][i] > 0 \/ copies[r[2]][i] > 0

ReachInv == HandledFor /\ SentIsHeard

LEMMA InitReach == Init => ReachInv
<1> SUFFICES ASSUME Init PROVE ReachInv
  OBVIOUS
<1>1. DOMAIN built = {}
  BY DEF Init
<1> QED  BY <1>1 DEF Init, ReachInv, HandledFor, SentIsHeard

LEMMA HeardMore ==
    ASSUME NEW c \in [Node -> [Packets -> Nat]], NEW n \in Node, NEW i \in Packets
    PROVE  /\ \A m \in Node : \A j \in Packets : Heard(c, n, i)[m][j] >= c[m][j]
           /\ \A m \in Node : <<n, m>> \in Range => Heard(c, n, i)[m][i] > 0
<1>1. MaxCopies \in Nat \ {0}
  BY FloodingAssumption
<1>2. ASSUME NEW m \in Node, NEW j \in Packets
      PROVE  Heard(c, n, i)[m][j] >= c[m][j]
  BY DEF Heard
<1>3. ASSUME NEW m \in Node, <<n, m>> \in Range
      PROVE  Heard(c, n, i)[m][i] > 0
  <2>1. CASE c[m][i] < MaxCopies
    <3>1. Heard(c, n, i)[m] = [c[m] EXCEPT ![i] = @ + 1]
      BY <1>3, <2>1 DEF Heard
    <3> QED  BY <3>1
  <2>2. CASE ~(c[m][i] < MaxCopies)
    <3>1. Heard(c, n, i)[m] = c[m]
      BY <2>2 DEF Heard
    <3>2. c[m][i] \in Nat
      OBVIOUS
    <3> QED  BY <3>1, <3>2, <2>2, <1>1
  <2> QED  BY <2>1, <2>2
<1> QED  BY <1>2, <1>3

\* A hash that a node remembers, if no other packet has it, is of a packet that
\* the node has handled.
LEMMA RememberedIsHandled ==
    ASSUME HandledFor, NEW n \in Node, NEW i \in DOMAIN built, Distinct(i),
           HashCode(built[i]) \in handled[n]
    PROVE  handlings[n][i] > 0
BY DEF HandledFor, Distinct

LEMMA SendReach ==
    ASSUME Inv, ReachInv, NEW n \in Node, NEW d \in Node \cup {Everyone}, Send(n, d)
    PROVE  ReachInv'
<1> DEFINE p == [source |-> n, dest |-> d, nonce |-> clock]
           k == Len(built) + 1
<1>1. /\ TypeOK /\ HandledFor /\ SentIsHeard
      /\ built' = Append(built, p) /\ Len(built) < MaxPackets
      /\ copies' = Heard(copies, n, k)
      /\ UNCHANGED <<clock, handled, handlings, losses>>
  BY DEF Inv, ReachInv, Send
<1>2. Len(built) \in Nat /\ DOMAIN built = 1..Len(built) /\ k \in Packets /\ p.source = n
  BY <1>1, BuiltElements, FloodingAssumption DEF Packets
<1>3. /\ DOMAIN built' = 1..k /\ built'[k] = p
      /\ \A i \in 1..Len(built) : i # k /\ i \in 1..k /\ built'[i] = built[i]
      /\ \A i \in 1..k : i # k => i \in 1..Len(built)
  BY <1>1, <1>2 DEF TypeOK
<1>4. \A m \in Node : handlings[m][k] = 0
  BY <1>1, <1>2 DEF TypeOK
<1> HIDE DEF p, k
<1>5. copies \in [Node -> [Packets -> Nat]]
  BY <1>1 DEF TypeOK
<1>6. /\ \A m \in Node : \A j \in Packets : j # k => copies'[m][j] = copies[m][j]
      /\ \A m \in Node : <<n, m>> \in Range => copies'[m][k] > 0
  <2>1. k \in Packets /\ copies' = Heard(copies, n, k)
    BY <1>1, <1>2
  <2>2. \A m \in Node : \A j \in Packets : j # k => copies'[m][j] = copies[m][j]
    BY <2>1, <1>5, HeardType
  <2>3. \A m \in Node : <<n, m>> \in Range => copies'[m][k] > 0
    BY <2>1, <1>5, HeardMore
  <2> QED  BY <2>2, <2>3
<1>7. HandledFor'
  <2> SUFFICES ASSUME NEW m \in Node, NEW h \in handled[m]
               PROVE  \E i \in 1..k : HashCode(built'[i]) = h /\ handlings[m][i] > 0
    BY <1>1, <1>3 DEF HandledFor, HashCode
  <2>1. PICK i \in 1..Len(built) : HashCode(built[i]) = h /\ handlings[m][i] > 0
    BY <1>1, <1>2 DEF HandledFor
  <2> QED  BY <2>1, <1>3
<1>8. SentIsHeard'
  <2> SUFFICES ASSUME losses = 0, NEW i \in 1..k, Distinct(i)', NEW r \in Range,
                      Sent(r[1], i)', r[2] # built'[i].source
               PROVE  handlings[r[2]][i] > 0 \/ copies'[r[2]][i] > 0
    BY <1>1, <1>3 DEF SentIsHeard
  <2>1. r[1] \in Node /\ r[2] \in Node /\ r = <<r[1], r[2]>>
    BY FloodingAssumption
  <2>2. CASE i = k
    <3>1. r[1] = n
      BY <2>1, <2>2, <1>1, <1>2, <1>3, <1>4 DEF Sent
    <3> QED  BY <3>1, <2>1, <2>2, <1>6
  <2>3. CASE i # k
    <3>1. i \in 1..Len(built) /\ built'[i] = built[i] /\ i \in Packets
      BY <2>3, <1>1, <1>2, <1>3, FloodingAssumption DEF Packets
    <3>2. Distinct(i)
      BY <3>1, <1>2, <1>3 DEF Distinct, HashCode
    <3>3. Sent(r[1], i)
      BY <3>1, <1>1 DEF Sent, Relays
    <3>4. handlings[r[2]][i] > 0 \/ copies[r[2]][i] > 0
      BY <3>1, <3>2, <3>3, <1>1, <1>2 DEF SentIsHeard
    <3> QED  BY <3>1, <3>4, <2>1, <2>3, <1>6
  <2> QED  BY <2>2, <2>3
<1> QED  BY <1>7, <1>8 DEF ReachInv

LEMMA HandleReach ==
    ASSUME Inv, ReachInv, NEW n \in Node, NEW i \in Packets, Handle(n, i)
    PROVE  ReachInv'
<1>1. /\ TypeOK /\ HandledFor /\ SentIsHeard
      /\ copies[n][i] > 0
      /\ handled' = [handled EXCEPT ![n] = @ \cup {HashCode(built[i])}]
      /\ handlings' = [handlings EXCEPT ![n][i] = IF @ = 0 THEN 1 ELSE 2]
      /\ copies' = IF Relays(n, i) THEN Heard(Taken(n, i), n, i) ELSE Taken(n, i)
      /\ UNCHANGED <<clock, built, losses>>
  BY DEF Inv, ReachInv, Handle, Remember
<1>2. i \in DOMAIN built /\ \A j \in DOMAIN built : j \in Packets
  <2>1. Len(built) \in Nat /\ DOMAIN built = 1..Len(built) /\ Len(built) <= MaxPackets
    BY <1>1, BuiltElements DEF TypeOK
  <2>2. i <= Len(built) /\ i \in 1..MaxPackets
    BY <1>1, TakenType DEF Packets
  <2> QED  BY <2>1, <2>2, FloodingAssumption DEF Packets
<1>3. /\ handlings'[n][i] > 0
      /\ \A m \in Node : \A j \in Packets : m # n \/ j # i => handlings'[m][j] = handlings[m][j]
      /\ \A m \in Node : \A j \in Packets : handlings[m][j] > 0 => handlings'[m][j] > 0
  <2>1. handlings \in [Node -> [Packets -> 0..2]]
    BY <1>1 DEF TypeOK
  <2> QED  BY <2>1, <1>1
<1>4. /\ Taken(n, i) \in [Node -> [Packets -> Nat]]
      /\ \A m \in Node : \A j \in Packets : m # n \/ j # i => Taken(n, i)[m][j] = copies[m][j]
  <2>1. Taken(n, i) \in [Node -> [Packets -> Nat]]
    BY <1>1, TakenType
  <2>2. copies \in [Node -> [Packets -> Nat]]
    BY <1>1 DEF TypeOK
  <2> QED  BY <2>1, <2>2 DEF Taken
<1>5. /\ \A m \in Node : \A j \in Packets :
            (m # n \/ j # i) /\ copies[m][j] > 0 => copies'[m][j] > 0
      /\ Relays(n, i) => \A m \in Node : <<n, m>> \in Range => copies'[m][i] > 0
  <2>1. CASE Relays(n, i)
    <3>1. copies' = Heard(Taken(n, i), n, i)
      BY <2>1, <1>1
    <3>2. /\ \A m \in Node : \A j \in Packets : copies'[m][j] >= Taken(n, i)[m][j]
          /\ \A m \in Node : <<n, m>> \in Range => copies'[m][i] > 0
      BY <3>1, <1>4, HeardMore
    <3>3. copies' \in [Node -> [Packets -> Nat]] /\ copies \in [Node -> [Packets -> Nat]]
      <4>1. copies' \in [Node -> [Packets -> Nat]]
        BY <3>1, <1>4, HeardType
      <4> QED  BY <4>1, <1>1 DEF TypeOK
    <3>4. ASSUME NEW m \in Node, NEW j \in Packets, m # n \/ j # i, copies[m][j] > 0
          PROVE  copies'[m][j] > 0
      <4>1. copies'[m][j] >= copies[m][j]
        BY <3>2, <3>4, <1>4
      <4>2. copies'[m][j] \in Nat /\ copies[m][j] \in Nat
        BY <3>3
      <4> QED  BY <4>1, <4>2, <3>4
    <3> QED  BY <3>2, <3>4
  <2>2. CASE ~Relays(n, i)
    BY <2>2, <1>1, <1>4
  <2> QED  BY <2>1, <2>2
<1>6. HandledFor'
  <2> SUFFICES ASSUME NEW m \in Node, NEW h \in handled'[m]
               PROVE  \E j \in DOMAIN built : HashCode(built[j]) = h /\ handlings'[m][j] > 0
    BY <1>1 DEF HandledFor, HashCode
  <2>1. CASE h \in handled[m]
    <3>1. PICK j \in DOMAIN built : HashCode(built[j]) = h /\ handlings[m][j] > 0
      BY <2>1, <1>1 DEF HandledFor
    <3> QED  BY <3>1, <1>2, <1>3
  <2>2. CASE h \notin handled[m]
    <3>1. handled \in [Node -> SUBSET HashCodes]
      BY <1>1 DEF TypeOK
    <3>2. m = n /\ h = HashCode(built[i])
      BY <3>1, <2>2, <1>1
    <3> QED  BY <3>2, <1>2, <1>3
  <2> QED  BY <2>1, <2>2
<1>7. SentIsHeard'
  <2> SUFFICES ASSUME losses = 0, NEW j \in DOMAIN built, Distinct(j), NEW r \in Range,
                      Sent(r[1], j)', r[2] # built[j].source
               PROVE  handlings'[r[2]][j] > 0 \/ copies'[r[2]][j] > 0
    BY <1>1 DEF SentIsHeard, Distinct, HashCode
  <2>1. r[1] \in Node /\ r[2] \in Node /\ r = <<r[1], r[2]>> /\ j \in Packets
    BY FloodingAssumption, <1>2
  <2>2. CASE Sent(r[1], j)
    <3>1. handlings[r[2]][j] > 0 \/ copies[r[2]][j] > 0
      BY <2>2, <1>1 DEF SentIsHeard
    <3>2. CASE r[2] = n /\ j = i
      BY <3>2, <1>3
    <3>3. CASE r[2] # n \/ j # i
      BY <3>1, <3>3, <2>1, <1>3, <1>5
    <3> QED  BY <3>2, <3>3
  <2>3. CASE ~Sent(r[1], j)
    <3>1. r[1] = n /\ j = i /\ Relays(n, i)
      BY <2>1, <2>3, <1>1, <1>3 DEF Sent, Relays
    <3> QED  BY <3>1, <2>1, <1>5
  <2> QED  BY <2>2, <2>3
<1> QED  BY <1>6, <1>7 DEF ReachInv

LEMMA DropReach ==
    ASSUME Inv, ReachInv, NEW n \in Node, NEW i \in Packets, Drop(n, i)
    PROVE  ReachInv'
<1>1. /\ TypeOK /\ HandledFor /\ SentIsHeard
      /\ copies[n][i] > 0 /\ ~Fresh(n, i)
      /\ copies' = Taken(n, i)
      /\ UNCHANGED <<clock, built, handled, handlings, losses>>
  BY DEF Inv, ReachInv, Drop
<1>2. \A j \in DOMAIN built : j \in Packets
  <2>1. Len(built) \in Nat /\ DOMAIN built = 1..Len(built) /\ Len(built) <= MaxPackets
    BY <1>1, BuiltElements DEF TypeOK
  <2> QED  BY <2>1, FloodingAssumption DEF Packets
<1>3. \A m \in Node : \A j \in Packets : m # n \/ j # i => copies'[m][j] = copies[m][j]
  <2>1. copies \in [Node -> [Packets -> Nat]]
    BY <1>1 DEF TypeOK
  <2> QED  BY <2>1, <1>1 DEF Taken
<1>4. HandledFor'
  BY <1>1 DEF HandledFor, HashCode
<1>5. SentIsHeard'
  <2> SUFFICES ASSUME losses = 0, NEW j \in DOMAIN built, Distinct(j), NEW r \in Range,
                      Sent(r[1], j), r[2] # built[j].source
               PROVE  handlings[r[2]][j] > 0 \/ copies'[r[2]][j] > 0
    BY <1>1 DEF SentIsHeard, Distinct, HashCode, Sent, Relays
  <2>1. r[2] \in Node /\ j \in Packets
    BY FloodingAssumption, <1>2
  <2>2. handlings[r[2]][j] > 0 \/ copies[r[2]][j] > 0
    BY <1>1 DEF SentIsHeard
  <2>3. CASE r[2] = n /\ j = i
    <3>1. HashCode(built[i]) \in handled[n]
      BY <2>3, <1>1 DEF Fresh
    <3> QED  BY <3>1, <2>1, <2>3, <1>1, RememberedIsHandled
  <2>4. CASE r[2] # n \/ j # i
    BY <2>1, <2>2, <2>4, <1>3
  <2> QED  BY <2>3, <2>4
<1> QED  BY <1>4, <1>5 DEF ReachInv

LEMMA LoseReach ==
    ASSUME Inv, ReachInv, NEW n \in Node, NEW i \in Packets, Lose(n, i)
    PROVE  ReachInv'
<1>1. losses \in 0..MaxLoss /\ losses' = losses + 1 /\ HandledFor
      /\ UNCHANGED <<built, handled, handlings>>
  BY DEF Inv, TypeOK, ReachInv, Lose
<1>2. losses' # 0
  BY <1>1, FloodingAssumption
<1> QED  BY <1>1, <1>2 DEF ReachInv, HandledFor, SentIsHeard, HashCode

LEMMA NextReach == Inv /\ ReachInv /\ [Next]_vars => ReachInv'
<1> SUFFICES ASSUME Inv, ReachInv, [Next]_vars PROVE ReachInv'
  OBVIOUS
<1>1. CASE Tick \/ UNCHANGED vars
  <2>1. UNCHANGED <<built, copies, handled, handlings, losses>>
    BY <1>1 DEF Tick, vars
  <2> QED  BY <2>1
        DEF ReachInv, HandledFor, SentIsHeard, Distinct, Sent, Relays, HashCode
<1>2. ASSUME NEW n \in Node, NEW d \in Node \cup {Everyone}, Send(n, d) PROVE ReachInv'
  BY <1>2, SendReach
<1>3. ASSUME NEW n \in Node, NEW i \in Packets, Handle(n, i) \/ Drop(n, i) \/ Lose(n, i)
      PROVE  ReachInv'
  BY <1>3, HandleReach, DropReach, LoseReach
<1> QED  BY <1>1, <1>2, <1>3 DEF Next

(* On any network, also one with cycles, a packet that no other is taken   *)
(* for reaches the handlers of every node there is a path to.              *)
THEOREM FloodingReaches == Spec => []FloodReachesAll
<1>1. Inv /\ ReachInv => FloodReachesAll
  <2> SUFFICES ASSUME Inv, ReachInv, losses = 0, NEW i \in DOMAIN built, Distinct(i),
                      ~Airborne(i), NEW n \in Within(i)
               PROVE  handlings[n][i] = 1
    BY DEF FloodReachesAll
  <2> DEFINE S == {m \in Node : m = built[i].source \/ handlings[m][i] > 0}
  <2>1. /\ TypeOK /\ HandledOnce /\ i \in Packets /\ built[i].source \in Node
        /\ n \in Node /\ n # built[i].source
    <3>1. TypeOK /\ HandledOnce /\ n \in Node /\ n # built[i].source
      BY DEF Inv, Within
    <3>2. /\ Len(built) \in Nat /\ i \in 1..Len(built) /\ Len(built) <= MaxPackets
          /\ built[i] \in BuiltPacket
      BY <3>1, BuiltElements DEF TypeOK
    <3> QED  BY <3>1, <3>2, FloodingAssumption DEF Packets, BuiltPacket
  <2>2. Spreads(S, i)
    <3> SUFFICES ASSUME NEW r \in Range, r[1] \in S, r[1] # built[i].dest
                 PROVE  r[2] \in S
      BY <2>1 DEF Spreads
    <3>1. r[1] \in Node /\ r[2] \in Node
      BY FloodingAssumption
    <3>2. Sent(r[1], i)
      BY DEF Sent, Relays
    <3>3. ~(copies[r[2]][i] > 0)
      BY <3>1 DEF Airborne
    <3> QED  BY <3>1, <3>2, <3>3 DEF ReachInv, SentIsHeard
  <2>3. n \in S
    BY <2>2 DEF Within
  <2>4. handlings[n][i] > 0 /\ handlings[n][i] \in 0..2 /\ handlings[n][i] <= 1
    BY <2>1, <2>3 DEF TypeOK, HandledOnce
  <2> QED  BY <2>4
<1> QED  BY <1>1, InitInv, NextInv, InitReach, NextReach, PTL DEF Spec

(***************************************************************************)
(* Flooding implements OnceNetwork: the first datagram of a packet that    *)
(* the handlers of a node get is its arrival there, and there is no other. *)
(***************************************************************************)

LEMMA InitNetwork == Init => Network!Init
<1> SUFFICES ASSUME Init PROVE Network!Init
  OBVIOUS
<1>1. built = <<>> /\ DOMAIN built = {}
  BY DEF Init
<1>2. [i \in DOMAIN built |-> built[i].source] = <<>>
  BY <1>1
<1> QED  BY <1>2 DEF Init, Network!Init

LEMMA SendNetwork ==
    ASSUME TypeOK, NEW n \in Node, NEW d \in Node \cup {Everyone}, Send(n, d)
    PROVE  Network!Send(n)
<1> DEFINE p == [source |-> n, dest |-> d, nonce |-> clock]
           sources == [i \in DOMAIN built |-> built[i].source]
           more == [i \in DOMAIN built' |-> built'[i].source]
<1>1. built' = Append(built, p) /\ UNCHANGED handlings
  BY DEF Send
<1>2. /\ Len(built) \in Nat /\ DOMAIN built = 1..Len(built)
      /\ DOMAIN built' = 1..(Len(built) + 1)
      /\ \A i \in 1..Len(built) : built'[i] = built[i]
      /\ built'[Len(built) + 1] = p /\ p.source = n
  <2>1. built \in Seq(BuiltPacket)
    BY DEF TypeOK
  <2> HIDE DEF p
  <2>2. Append(built, p)[Len(built) + 1] = p
    BY <2>1
  <2>3. p.source = n
    BY DEF p
  <2> QED  BY <1>1, <2>1, <2>2, <2>3
<1>3. \A i \in 1..Len(built) : built[i].source \in Node
  BY BuiltElements DEF BuiltPacket
<1> HIDE DEF p
<1>4. sources \in Seq(Node) /\ Len(sources) = Len(built)
  BY <1>2, <1>3
<1>5. more = Append(sources, n)
  <2>1. /\ Append(sources, n) \in Seq(Node) /\ Len(Append(sources, n)) = Len(built) + 1
        /\ \A i \in 1..Len(built) : Append(sources, n)[i] = sources[i]
        /\ Append(sources, n)[Len(built) + 1] = n
    BY <1>4
  <2>2. DOMAIN Append(sources, n) = 1..(Len(built) + 1)
    BY <2>1
  <2>3. \A i \in 1..(Len(built) + 1) : more[i] = Append(sources, n)[i]
    <3> SUFFICES ASSUME NEW i \in 1..(Len(built) + 1) PROVE more[i] = Append(sources, n)[i]
      OBVIOUS
    <3>1. CASE i \in 1..Len(built)
      BY <3>1, <1>2, <2>1
    <3>2. CASE i \notin 1..Len(built)
      <4>1. i = Len(built) + 1
        BY <3>2, <1>2
      <4> QED  BY <4>1, <1>2, <2>1
    <3> QED  BY <3>1, <3>2
  <2>4. Append(sources, n) \in [1..(Len(built) + 1) -> Node]
    <3>1. \A q \in Seq(Node) : q \in [1..Len(q) -> Node]
      OBVIOUS
    <3> HIDE DEF sources
    <3> QED  BY <2>1, <3>1
  <2>5. more = [i \in 1..(Len(built) + 1) |-> built'[i].source]
    BY <1>2
  <2> HIDE DEF sources
  <2>6. Append(sources, n) = [i \in 1..(Len(built) + 1) |-> Append(sources, n)[i]]
    BY <2>4
  <2> QED  BY <2>3, <2>5, <2>6
<1> QED  BY <1>1, <1>5 DEF Network!Send

LEMMA HandleNetwork ==
    ASSUME Inv, NEW n \in Node, NEW i \in Packets, Handle(n, i)
    PROVE  Network!Arrive(n, i)
<1>1. /\ TypeOK /\ Remembered /\ copies[n][i] > 0
      /\ built[i].source # n /\ HashCode(built[i]) \notin handled[n]
      /\ handlings' = [handlings EXCEPT ![n][i] = IF @ = 0 THEN 1 ELSE 2]
      /\ UNCHANGED built
  BY DEF Inv, Handle, Fresh
<1>2. i \in DOMAIN built
  BY <1>1, TakenType, BuiltElements, FloodingAssumption DEF Packets
<1>3. handlings[n][i] = 0
  <2>1. handlings[n][i] \in 0..2
    BY <1>1 DEF TypeOK
  <2> QED  BY <1>1, <1>2, <2>1 DEF Remembered
<1>4. handlings' = [handlings EXCEPT ![n][i] = 1]
  BY <1>1, <1>3
<1> QED  BY <1>1, <1>2, <1>3, <1>4 DEF Network!Arrive

(* Whatever the routes, cycles and losses, to the handlers of the nodes    *)
(* the flooded network carries packets one by one, in any order, and none  *)
(* of them twice to one node or back to its source.                        *)
THEOREM FloodingIsOnceNetwork == Spec => ImplementsOnceNetwork
<1>1. Inv /\ [Next]_vars => [Network!Next]_(Network!vars)
  <2> SUFFICES ASSUME Inv, [Next]_vars PROVE [Network!Next]_(Network!vars)
    OBVIOUS
  <2>1. ASSUME UNCHANGED <<built, handlings>> PROVE UNCHANGED Network!vars
    BY <2>1 DEF Network!vars
  <2>2. CASE Tick \/ UNCHANGED vars
    BY <2>1, <2>2 DEF Tick, vars
  <2>3. ASSUME NEW n \in Node, NEW d \in Node \cup {Everyone}, Send(n, d)
        PROVE  Network!Next
    BY <2>3, SendNetwork DEF Inv, Network!Next
  <2>4. ASSUME NEW n \in Node, NEW i \in Packets, Handle(n, i) PROVE Network!Next
    BY <2>4, HandleNetwork DEF Network!Next
  <2>5. ASSUME NEW n \in Node, NEW i \in Packets, Drop(n, i) \/ Lose(n, i)
        PROVE  UNCHANGED Network!vars
    BY <2>1, <2>5 DEF Drop, Lose
  <2> QED  BY <2>2, <2>3, <2>4, <2>5 DEF Next
<1> QED  BY <1>1, InitNetwork, InvHolds, PTL DEF Spec, ImplementsOnceNetwork, Network!Spec
=============================================================================
