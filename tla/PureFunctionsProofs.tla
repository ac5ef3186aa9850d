----------------------- MODULE PureFunctionsProofs -----------------------
(***************************************************************************)
(* The pure functions of the program, for all inputs: the order of         *)
(* sequence numbers, the hashes of nonces, and what is shown of a message. *)
(***************************************************************************)
EXTENDS PureFunctions, FiniteSetTheorems, SequenceTheorems, WellFoundedInduction, TLAPS

---------------------------------------------------------------------------
(* Counting.                                                               *)

\* The senders are as far apart in their ints as in their counting, up to
\* whole rounds of the circle.
RoundsApart(k) == (number[1] - count[1]) - (number[2] - count[2]) = k * Modulus

CountInv ==
    /\ count \in [Sender -> Nat]
    /\ number \in [Sender -> SeqNums]
    /\ \E k \in Int : RoundsApart(k)

LEMMA CountInit == Init => CountInv
<1> SUFFICES ASSUME Init PROVE CountInv
  OBVIOUS
<1>1. 0 \in SeqNums /\ Modulus \in Int
  BY HalfRangeAssumption DEF SeqNums, Modulus
<1>2. PICK x \in SeqNums : number = [s \in Sender |-> x] /\ count = [s \in Sender |-> 0]
  BY <1>1 DEF Init
<1>3. RoundsApart(0)
  <2>1. x \in Int /\ 0 * Modulus = 0
    BY <1>1 DEF SeqNums
  <2> QED  BY <1>2, <2>1 DEF RoundsApart, Sender
<1> QED  BY <1>2, <1>3 DEF CountInv

LEMMA CountNext == CountInv /\ [Next]_vars => CountInv'
<1> SUFFICES ASSUME CountInv, [Next]_vars PROVE CountInv'
  OBVIOUS
<1>1. CASE UNCHANGED <<count, number>>
  BY <1>1 DEF CountInv, RoundsApart
<1>2. ASSUME NEW s \in Sender, Count(s) PROVE CountInv'
  <2>1. /\ count' = [count EXCEPT ![s] = @ + 1]
        /\ number' = [number EXCEPT ![s] = Succ(@)]
        /\ count \in [Sender -> Nat] /\ number \in [Sender -> SeqNums]
    BY <1>2 DEF Count, CountInv
  <2>2. PICK k \in Int : RoundsApart(k)
    BY DEF CountInv
  <2>3. \E j \in {0, 1} : Succ(number[s]) = number[s] + 1 - j * Modulus
    BY <2>1, HalfRangeAssumption DEF Succ, SeqNums, Modulus
  <2>4. PICK j \in {0, 1} : Succ(number[s]) = number[s] + 1 - j * Modulus
    BY <2>3
  <2>5. Succ(number[s]) \in SeqNums
    BY <2>1, HalfRangeAssumption DEF Succ, SeqNums
  <2>6. count' \in [Sender -> Nat] /\ number' \in [Sender -> SeqNums]
    BY <2>1, <2>5
  <2>7. /\ Modulus \in Int /\ j \in Int
        /\ \A t \in Sender : number[t] \in Int /\ count[t] \in Int
    BY <2>1, HalfRangeAssumption DEF SeqNums, Modulus
  <2>8. (k - j) * Modulus = k * Modulus - j * Modulus
        /\ (k + j) * Modulus = k * Modulus + j * Modulus
    <3> HIDE DEF Modulus
    <3> QED  BY <2>7
  <2>9. CASE s = 1
    <3>1. /\ number'[1] = number[1] + 1 - j * Modulus /\ count'[1] = count[1] + 1
          /\ number'[2] = number[2] /\ count'[2] = count[2]
      BY <2>1, <2>4, <2>9 DEF Sender
    <3>2. 1 \in Sender /\ 2 \in Sender /\ j * Modulus \in Int /\ k * Modulus \in Int
      BY <2>7 DEF Sender
    <3>3. RoundsApart(k - j)'
      <4> DEFINE a == j * Modulus
                 b == k * Modulus
                 d == (k - j) * Modulus
      <4>1. d = b - a /\ a \in Int /\ b \in Int
        BY <2>8, <3>2
      <4>2. (number[1] - count[1]) - (number[2] - count[2]) = b
        BY <2>2 DEF RoundsApart
      <4>3. number'[1] = number[1] + 1 - a
        BY <3>1
      <4>4. number[1] \in Int /\ number[2] \in Int /\ count[1] \in Int /\ count[2] \in Int
        BY <2>7, <3>2
      <4> HIDE DEF a, b, d
      <4>5. (number'[1] - count'[1]) - (number'[2] - count'[2]) = d
        BY <3>1, <4>1, <4>2, <4>3, <4>4
      <4> QED  BY <4>5 DEF RoundsApart, d, Modulus
    <3> QED  BY <2>6, <2>7, <3>3 DEF CountInv
  <2>10. CASE s = 2
    <3>1. /\ number'[2] = number[2] + 1 - j * Modulus /\ count'[2] = count[2] + 1
          /\ number'[1] = number[1] /\ count'[1] = count[1]
      BY <2>1, <2>4, <2>10 DEF Sender
    <3>2. 1 \in Sender /\ 2 \in Sender /\ j * Modulus \in Int /\ k * Modulus \in Int
      BY <2>7 DEF Sender
    <3>3. RoundsApart(k + j)'
      <4> DEFINE a == j * Modulus
                 b == k * Modulus
                 d == (k + j) * Modulus
      <4>1. d = b + a /\ a \in Int /\ b \in Int
        BY <2>8, <3>2
      <4>2. (number[1] - count[1]) - (number[2] - count[2]) = b
        BY <2>2 DEF RoundsApart
      <4>3. number'[2] = number[2] + 1 - a
        BY <3>1
      <4>4. number[1] \in Int /\ number[2] \in Int /\ count[1] \in Int /\ count[2] \in Int
        BY <2>7, <3>2
      <4> HIDE DEF a, b, d
      <4>5. (number'[1] - count'[1]) - (number'[2] - count'[2]) = d
        BY <3>1, <4>1, <4>2, <4>3, <4>4
      <4> QED  BY <4>5 DEF RoundsApart, d, Modulus
    <3> QED  BY <2>6, <2>7, <3>3 DEF CountInv
  <2> QED  BY <2>9, <2>10 DEF Sender
<1> QED  BY <1>1, <1>2 DEF Next, Tick, Type, Click, AddPiece, vars, numbers

\* A multiple of m that is less than twice m is none, one or minus one m.
LEMMA FewRounds ==
    ASSUME NEW m \in Nat \ {0}, NEW k \in Int, k * m < 2 * m, -2 * m < k * m
    PROVE  k \in {-1, 0, 1}
<1>1. ASSUME k >= 2 PROVE FALSE
  <2>1. k - 2 \in Nat
    BY <1>1
  <2>2. (k - 2) * m >= 0
    BY <2>1
  <2>3. (k - 2) * m = k * m - 2 * m
    OBVIOUS
  <2> QED  BY <2>2, <2>3
<1>2. ASSUME k <= -2 PROVE FALSE
  <2>1. -2 - k \in Nat
    BY <1>2
  <2>2. (-2 - k) * m >= 0
    BY <2>1
  <2>3. (-2 - k) * m = -2 * m - k * m
    OBVIOUS
  <2> QED  BY <2>2, <2>3
<1> QED  BY <1>1, <1>2

(* Two senders that began with the same number: however far they count,    *)
(* the circular difference of their numbers is the difference of their     *)
(* counts, if these are less than half the circle apart.                   *)
THEOREM CountingIsCompared == Spec => []ComparisonFollowsCounting
<1>1. CountInv => ComparisonFollowsCounting
  <2> SUFFICES ASSUME CountInv, count[1] - count[2] \in -HalfRange..HalfRange - 1
               PROVE  /\ DifferenceWithWrapAround(number[1], number[2]) = count[1] - count[2]
                      /\ CompareTo(number[1], number[2]) = 1 <=> count[1] > count[2]
    BY DEF ComparisonFollowsCounting
  <2>1. /\ number[1] \in SeqNums /\ number[2] \in SeqNums
        /\ count[1] \in Nat /\ count[2] \in Nat
    BY DEF CountInv, Sender
  <2>2. PICK k \in Int : RoundsApart(k)
    BY DEF CountInv
  <2> DEFINE x == number[1]
             y == number[2]
             i == count[1]
             j == count[2]
             m == Modulus
             b == k * m
  <2>3. m = 2 * HalfRange /\ m \in Nat \ {0}
    BY HalfRangeAssumption DEF Modulus
  <2>4. (x - i) - (y - j) = b
    BY <2>2 DEF RoundsApart
  <2>5. k \in {-1, 0, 1}
    <3> HIDE DEF x, y, i, j, m
    <3>1. b < 2 * m /\ -2 * m < b
      BY <2>1, <2>3, <2>4, HalfRangeAssumption DEF x, y, i, j, SeqNums
    <3> QED  BY <2>3, <3>1, FewRounds
  <2>6. b \in {-m, 0, m}
    BY <2>3, <2>5
  <2>7. i - j \in -HalfRange..HalfRange - 1 /\ x \in SeqNums /\ y \in SeqNums
        /\ i \in Nat /\ j \in Nat
    BY <2>1
  <2> HIDE DEF x, y, i, j, b, m
  <2>8. x - y \in {i - j - m, i - j, i - j + m}
    BY <2>3, <2>4, <2>6, <2>7 DEF SeqNums
  <2>9. DifferenceWithWrapAround(x, y) = i - j
    BY <2>3, <2>7, <2>8, HalfRangeAssumption
       DEF DifferenceWithWrapAround, IncrementSteps, DecrementSteps, SeqNums, Modulus
  <2>10. CompareTo(x, y) = 1 <=> i > j
    BY <2>7, <2>9 DEF CompareTo
  <2> QED  BY <2>9, <2>10 DEF x, y, i, j
<1> QED  BY <1>1, CountInit, CountNext, PTL DEF Spec

---------------------------------------------------------------------------
(* Hashing.                                                                *)

Signed(u) == IF u < 128 THEN u ELSE u - 256

HashOf(b0, b1, b2, b3) ==
    Signed(b3) + 31 * Signed(b2) + 961 * Signed(b1) + 29791 * Signed(b0)

LEMMA Divided ==
    ASSUME NEW n \in Nat
    PROVE  \E q \in Nat, r \in 0..255 : n = 256 * q + r /\ n \div 256 = q /\ n % 256 = r
OBVIOUS

LEMMA BytesOf ==
    ASSUME NEW n \in Nat
    PROVE  LET q1 == n \div 256
               q2 == q1 \div 256
               q3 == q2 \div 256
           IN  NonceHash(n) = HashOf(n % 256, q1 % 256, q2 % 256, q3 % 256)
<1> DEFINE q1 == n \div 256
           q2 == q1 \div 256
           q3 == q2 \div 256
<1>1. q1 = n \div 256 /\ q2 = n \div 65536 /\ q3 = n \div 16777216 /\ n = n \div 1
  OBVIOUS
<1>2. /\ Weights[1] = 1 /\ Weights[2] = 256 /\ Weights[3] = 65536 /\ Weights[4] = 16777216
  BY DEF Weights
<1>3. /\ ByteOf(n, 0) = Signed(n % 256) /\ ByteOf(n, 1) = Signed(q1 % 256)
      /\ ByteOf(n, 2) = Signed(q2 % 256) /\ ByteOf(n, 3) = Signed(q3 % 256)
  BY <1>1, <1>2 DEF ByteOf, Signed
<1> HIDE DEF q1, q2, q3
<1> QED  BY <1>3 DEF NonceHash, HashOf, q1, q2, q3

LEMMA DividedType == ASSUME NEW n \in Nat PROVE n \div 256 \in Nat /\ n % 256 \in 0..255
BY Divided

(* A number that grows by less than 1800: how often its lowest byte        *)
(* overflows.                                                              *)
Carries(n, m, d, e) ==
    /\ m \div 256 = n \div 256 + e
    /\ m % 256 = (n % 256) + d - 256 * e
    /\ d <= 8 => e <= 1

Later(n, m, d) == m = n + d /\ d \in 0..1799

LEMMA Carry ==
    ASSUME NEW n \in Nat, NEW m \in Nat, NEW d, Later(n, m, d)
    PROVE  \E e \in 0..8 : Carries(n, m, d, e)
<1>0. m = n + d /\ d \in 0..1799
  BY DEF Later
<1>1. PICK q \in Nat, r \in 0..255 : n = 256 * q + r /\ n \div 256 = q /\ n % 256 = r
  BY Divided
<1>2. PICK p \in Nat, s \in 0..255 : m = 256 * p + s /\ m \div 256 = p /\ m % 256 = s
  BY Divided
<1>3. p - q \in 0..8 /\ s = r + d - 256 * (p - q) /\ p = q + (p - q) /\ (d <= 8 => p - q <= 1)
  BY <1>0, <1>1, <1>2
<1> QED  BY <1>1, <1>2, <1>3 DEF Carries

(* The lowest byte counts most, and carries into bytes that count less.    *)
Grown(r0, r1, r2, r3, s0, s1, s2, s3, d, e1, e2, e3, e4) ==
    /\ {r0, r1, r2, r3, s0, s1, s2, s3} \subseteq 0..255
    /\ d \in 1..1799 /\ e1 \in 0..8 /\ {e2, e3, e4} \subseteq 0..1
    /\ s0 = r0 + d - 256 * e1
    /\ s1 = r1 + e1 - 256 * e2
    /\ s2 = r2 + e2 - 256 * e3
    /\ s3 = r3 + e3 - 256 * e4

LEMMA ByteSums ==
    ASSUME NEW r0, NEW r1, NEW r2, NEW r3, NEW s0, NEW s1, NEW s2, NEW s3,
           NEW d, NEW e1, NEW e2, NEW e3, NEW e4,
           Grown(r0, r1, r2, r3, s0, s1, s2, s3, d, e1, e2, e3, e4),
           HashOf(s0, s1, s2, s3) = HashOf(r0, r1, r2, r3)
    PROVE  FALSE
<1>1. /\ s0 = r0 + d - 256 * e1 /\ s1 = r1 + e1 - 256 * e2
      /\ s2 = r2 + e2 - 256 * e3 /\ s3 = r3 + e3 - 256 * e4
      /\ r0 \in 0..255 /\ r1 \in 0..255 /\ r2 \in 0..255 /\ r3 \in 0..255
      /\ s0 \in 0..255 /\ s1 \in 0..255 /\ s2 \in 0..255 /\ s3 \in 0..255
      /\ d \in 1..1799 /\ e1 \in 0..8 /\ e2 \in 0..1 /\ e3 \in 0..1 /\ e4 \in 0..1
  BY DEF Grown
<1> DEFINE d0 == Signed(s0) - Signed(r0)
           d1 == Signed(s1) - Signed(r1)
           d2 == Signed(s2) - Signed(r2)
           d3 == Signed(s3) - Signed(r3)
<1>2. d3 \in {0, 1, -255}
  BY <1>1 DEF Signed
<1>3. d2 \in {0, 1, -255}
  BY <1>1 DEF Signed
<1>4. d1 \in (0..8) \cup (-256..-248)
  BY <1>1 DEF Signed
<1>5. /\ d0 \in -255..255 /\ d - 256 * e1 \in -255..255
      /\ \E f \in -1..1 : d0 = d - 256 * e1 + 256 * f
  <2>1. CASE s0 < 128 /\ r0 < 128
    BY <1>1, <2>1 DEF Signed
  <2>2. CASE s0 < 128 /\ ~(r0 < 128)
    BY <1>1, <2>2 DEF Signed
  <2>3. CASE ~(s0 < 128) /\ r0 < 128
    BY <1>1, <2>3 DEF Signed
  <2>4. CASE ~(s0 < 128) /\ ~(r0 < 128)
    BY <1>1, <2>4 DEF Signed
  <2> QED  BY <2>1, <2>2, <2>3, <2>4
<1>6. d3 + 31 * d2 + 961 * d1 + 29791 * d0 = 0
  BY <1>1 DEF HashOf, Signed
<1>7. d1 >= 0 => e1 = d1
  BY <1>1 DEF Signed
<1>8. d1 < 0 => e1 = d1 + 256
  BY <1>1 DEF Signed
<1> HIDE DEF d0, d1, d2, d3
<1>9. d3 = 0
  BY <1>2, <1>3, <1>4, <1>5, <1>6
<1>10. d2 = 0
  BY <1>2, <1>3, <1>4, <1>5, <1>6, <1>9
<1>11. d1 + 31 * d0 = 0
  BY <1>4, <1>5, <1>6, <1>9, <1>10
<1>12. (d1 = 0 /\ d0 = 0) \/ (d1 = -248 /\ d0 = 8)
  BY <1>4, <1>5, <1>11
<1>13. PICK f \in -1..1 : d0 = d - 256 * e1 + 256 * f
  BY <1>5
<1>14. CASE d1 = 0 /\ d0 = 0
  <2>1. e1 = 0
    BY <1>7, <1>14
  <2>2. 0 = d + 256 * f
    BY <1>1, <1>13, <1>14, <2>1
  <2>3. d - 256 * 0 \in -255..255
    BY <1>5, <2>1
  <2> QED  BY <1>1, <2>2, <2>3
<1>15. CASE d1 = -248 /\ d0 = 8
  <2>1. e1 = 8
    BY <1>8, <1>15
  <2>2. 8 = d - 2048 + 256 * f
    BY <1>1, <1>13, <1>15, <2>1
  <2> QED  BY <1>1, <2>2
<1> QED  BY <1>12, <1>14, <1>15

(* Two nonces less than 1800 milliseconds apart have different hashes,     *)
(* whatever bytes change between them.                                     *)
Apart(n, m) == m - n \in 1..1799

THEOREM NoncesDiffer ==
    ASSUME NEW n \in Nat, NEW m \in Nat, Apart(n, m)
    PROVE  NonceHash(n) # NonceHash(m)
<1> SUFFICES ASSUME NonceHash(n) = NonceHash(m) PROVE FALSE
  OBVIOUS
<1> DEFINE d == m - n
           q1 == n \div 256
           q2 == q1 \div 256
           q3 == q2 \div 256
           p1 == m \div 256
           p2 == p1 \div 256
           p3 == p2 \div 256
           r0 == n % 256
           r1 == q1 % 256
           r2 == q2 % 256
           r3 == q3 % 256
           s0 == m % 256
           s1 == p1 % 256
           s2 == p2 % 256
           s3 == p3 % 256
<1>1. m = n + d /\ d \in 1..1799
  BY DEF Apart
<1> HIDE DEF d
<1>2. q1 \in Nat /\ q2 \in Nat /\ q3 \in Nat /\ p1 \in Nat /\ p2 \in Nat /\ p3 \in Nat
  BY DividedType
<1>3. /\ r0 \in 0..255 /\ r1 \in 0..255 /\ r2 \in 0..255 /\ r3 \in 0..255
      /\ s0 \in 0..255 /\ s1 \in 0..255 /\ s2 \in 0..255 /\ s3 \in 0..255
  BY <1>2, DividedType
<1>4. NonceHash(n) = HashOf(r0, r1, r2, r3) /\ NonceHash(m) = HashOf(s0, s1, s2, s3)
  BY BytesOf
<1>5. PICK e1 \in 0..8 : Carries(n, m, d, e1)
  <2>1. Later(n, m, d)
    BY <1>1 DEF Later
  <2> QED  BY <2>1, Carry
<1>6. p1 = q1 + e1 /\ s0 = r0 + d - 256 * e1
  BY <1>5 DEF Carries
<1> HIDE DEF q1, p1, r0, s0
<1>7. PICK e2 \in 0..8 : Carries(q1, p1, e1, e2)
  <2>1. Later(q1, p1, e1)
    BY <1>6 DEF Later
  <2> QED  BY <1>2, <2>1, Carry
<1>8. p2 = q2 + e2 /\ s1 = r1 + e1 - 256 * e2 /\ e2 \in 0..1
  BY <1>7 DEF Carries
<1> HIDE DEF q2, p2, r1, s1
<1>9. PICK e3 \in 0..8 : Carries(q2, p2, e2, e3)
  <2>1. Later(q2, p2, e2)
    BY <1>8 DEF Later
  <2> QED  BY <1>2, <2>1, Carry
<1>10. p3 = q3 + e3 /\ s2 = r2 + e2 - 256 * e3 /\ e3 \in 0..1
  BY <1>8, <1>9 DEF Carries
<1> HIDE DEF q3, p3, r2, s2
<1>11. PICK e4 \in 0..8 : Carries(q3, p3, e3, e4)
  <2>1. Later(q3, p3, e3)
    BY <1>10 DEF Later
  <2> QED  BY <1>2, <2>1, Carry
<1>12. s3 = r3 + e3 - 256 * e4 /\ e4 \in 0..1
  BY <1>10, <1>11 DEF Carries
<1> HIDE DEF r3, s3
<1>13. Grown(r0, r1, r2, r3, s0, s1, s2, s3, d, e1, e2, e3, e4)
  BY <1>1, <1>3, <1>6, <1>8, <1>10, <1>12 DEF Grown
<1>14. HashOf(s0, s1, s2, s3) = HashOf(r0, r1, r2, r3)
  BY <1>4
<1> QED  BY <1>13, <1>14, ByteSums

(* Whatever the time, packets of one source that are built less than       *)
(* Window milliseconds apart have different hashes.                        *)
THEOREM HashesTellApart == Spec => []HashTellsApart
<1> DEFINE ClockInv == clock \in Nat
<1>1. Init => ClockInv
  <2> SUFFICES ASSUME Init PROVE clock \in Nat
    OBVIOUS
  <2>1. start \in Starts \cup {0} /\ clock = start
    BY DEF Init
  <2>2. Starts \subseteq Nat
    BY PureFunctionsAssumption
  <2> QED  BY <2>1, <2>2
<1>2. ClockInv /\ [Next]_vars => ClockInv'
  BY DEF Next, Count, Tick, Type, Click, AddPiece, vars, time
<1>3. ClockInv => HashTellsApart
  <2> SUFFICES ASSUME clock \in Nat, NEW d \in 1..Window - 1
               PROVE  NonceHash(clock) # NonceHash(clock + d)
    BY DEF HashTellsApart
  <2>1. clock + d \in Nat /\ Apart(clock, clock + d)
    BY PureFunctionsAssumption DEF Apart
  <2> QED  BY <2>1, NoncesDiffer
<1> QED  BY <1>1, <1>2, <1>3, PTL DEF Spec

---------------------------------------------------------------------------
(* Where a message is cut.                                                 *)

(* No code begins, and none ends, strictly inside another one.             *)
LEMMA NoOverlap ==
    ASSUME NEW message \in Seq(Char), NEW c \in Code, NEW d \in Code,
           NEW i \in Nat, NEW j \in Nat,
           Occurs(c, message, i), Occurs(d, message, j)
    PROVE  /\ ~(i < j /\ j < i + Len(c))
           /\ ~(i < j + Len(d) /\ j + Len(d) < i + Len(c))
<1>1. c \in Seq(Char) /\ d \in Seq(Char)
  BY CodesAssumption
<1>2. Len(c) \in Nat /\ Len(d) \in Nat /\ Len(c) >= 2 /\ Len(d) >= 2
  BY <1>1, CodesAssumption
<1>3. \A k \in 1..Len(c) : message[i + k] = c[k]
  BY DEF Occurs
<1>4. \A k \in 1..Len(d) : message[j + k] = d[k]
  BY DEF Occurs
<1>5. ASSUME i < j, j < i + Len(c)
      PROVE  FALSE
  <2>1. message[j + 1] = Left
    <3>1. 1 \in 1..Len(d)
      BY <1>2
    <3>2. message[j + 1] = d[1]
      BY <1>4, <3>1
    <3>3. QED
      BY <3>2, CodesAssumption
  <2>2. j + 1 - i \in 1..Len(c) /\ i + (j + 1 - i) = j + 1
    BY <1>2, <1>5
  <2>3. message[j + 1] = c[j + 1 - i]
    BY <1>3, <2>2
  <2>4. c[j + 1 - i] # Left
    <3>1. CASE j + 1 - i = Len(c)
      BY <3>1, CodesAssumption
    <3>2. CASE j + 1 - i # Len(c)
      <4>1. j + 1 - i \in 2..Len(c) - 1
        BY <1>2, <1>5, <3>2
      <4>2. QED
        BY <4>1, CodesAssumption
    <3>3. QED
      BY <3>1, <3>2
  <2>5. QED
    BY <2>1, <2>3, <2>4
<1>6. ASSUME i < j + Len(d), j + Len(d) < i + Len(c)
      PROVE  FALSE
  <2>1. message[j + Len(d)] = Right
    BY <1>2, <1>4, CodesAssumption, SMTT(30)
  <2>2. j + Len(d) - i \in 1..Len(c) /\ i + (j + Len(d) - i) = j + Len(d)
    BY <1>2, <1>6
  <2>3. message[j + Len(d)] = c[j + Len(d) - i]
    BY <1>3, <2>2
  <2>4. c[j + Len(d) - i] # Right
    <3>1. CASE j + Len(d) - i = 1
      BY <3>1, CodesAssumption
    <3>2. CASE j + Len(d) - i # 1
      <4>1. j + Len(d) - i \in 2..Len(c) - 1
        BY <1>2, <1>6, <3>2
      <4>2. QED
        BY <4>1, CodesAssumption
    <3>3. QED
      BY <3>1, <3>2
  <2>5. QED
    BY <2>1, <2>3, <2>4
<1>7. QED
  BY <1>5, <1>6

(* Wherever a code occurs it is a part of its own, and so is shown as a    *)
(* picture: neither another code nor an end of the message cuts it.        *)
THEOREM CodesAreParts ==
    ASSUME NEW message \in Seq(Char), NEW c \in Code, NEW i \in Nat,
           Occurs(c, message, i)
    PROVE  <<i, i + Len(c)>> \in Cuts(message)
<1>1. c \in Seq(Char) /\ Len(c) \in Nat /\ Len(c) >= 2
  BY CodesAssumption
<1>2. Len(message) \in Nat /\ i + Len(c) <= Len(message)
  BY DEF Occurs
<1>3. i \in Indices(message) /\ i + Len(c) \in Indices(message)
  <2>1. i \in 0..Len(message) /\ i + Len(c) \in 0..Len(message)
    BY <1>1, <1>2
  <2>2. i + Len(c) >= Len(c) /\ (i + Len(c)) - Len(c) = i
    BY <1>1
  <2>3. QED
    BY <2>1, <2>2 DEF Indices
<1>4. ASSUME NEW k \in Indices(message)
      PROVE  k <= i \/ i + Len(c) <= k
  <2>1. CASE k \in {0, Len(message)}
    BY <1>1, <1>2, <2>1
  <2>2. CASE k \in 0..Len(message) /\ \E d \in Code : Occurs(d, message, k)
    BY <1>1, <1>2, <2>2, NoOverlap
  <2>3. ASSUME NEW d \in Code, k \in 0..Len(message), k >= Len(d),
               Occurs(d, message, k - Len(d))
        PROVE  k <= i \/ i + Len(c) <= k
    <3>1. d \in Seq(Char) /\ Len(d) \in Nat
      BY CodesAssumption
    <3>2. k - Len(d) \in Nat /\ (k - Len(d)) + Len(d) = k
      BY <1>2, <2>3, <3>1
    <3>3. ~(i < k /\ k < i + Len(c))
      BY <2>3, <3>2, NoOverlap
    <3>4. QED
      BY <1>1, <1>2, <2>3, <3>3
  <2>4. QED
    BY <2>1, <2>2, <2>3 DEF Indices
<1>5. QED
  BY <1>1, <1>3, <1>4 DEF Cuts

(* What is shown as text has no code in it.                                *)
THEOREM TextHasNoCode ==
    ASSUME NEW message \in Seq(Char), NEW l \in Nat, NEW r \in Nat,
           <<l, r>> \in Cuts(message),
           NEW c \in Code, NEW i \in Nat,
           Occurs(c, message, i), l <= i, i + Len(c) <= r
    PROVE  i = l /\ i + Len(c) = r
<1>1. c \in Seq(Char) /\ Len(c) \in Nat /\ Len(c) >= 2
  BY CodesAssumption
<1>2. i \in Indices(message) /\ i + Len(c) \in Indices(message)
  BY CodesAreParts DEF Cuts
<1>3. \A k \in Indices(message) : k <= l \/ r <= k
  BY DEF Cuts
<1>4. QED
  BY <1>1, <1>2, <1>3

(* A code at the end of a message adds one occurrence and no other.        *)
LEMMA OccurrencesInAddition ==
    ASSUME NEW message \in Seq(Char), NEW c \in Code, NEW d \in Code, NEW j \in Nat
    PROVE  Occurs(d, AddEmoticon(message, c), j) <=>
               Occurs(d, message, j) \/ (j = Len(message) /\ d = c)
<1> DEFINE longer == AddEmoticon(message, c)
<1>1. c \in Seq(Char) /\ Len(c) \in Nat /\ Len(c) >= 2
  BY CodesAssumption
<1>2. d \in Seq(Char) /\ Len(d) \in Nat /\ Len(d) >= 2
  BY CodesAssumption
<1>3. /\ longer \in Seq(Char)
      /\ Len(message) \in Nat
      /\ Len(longer) = Len(message) + Len(c)
      /\ \A k \in 1..Len(message) : longer[k] = message[k]
      /\ \A k \in 1..Len(c) : longer[Len(message) + k] = c[k]
  BY <1>1 DEF AddEmoticon
<1> HIDE DEF longer
<1>4. Occurs(c, longer, Len(message))
  BY <1>3 DEF Occurs
<1>5. ASSUME Occurs(d, message, j)
      PROVE  Occurs(d, longer, j)
  <2>1. /\ j + Len(d) <= Len(message)
        /\ \A k \in 1..Len(d) : message[j + k] = d[k]
    BY <1>5 DEF Occurs
  <2>2. \A k \in 1..Len(d) : j + k \in 1..Len(message)
    BY <1>2, <1>3, <2>1
  <2>3. \A k \in 1..Len(d) : longer[j + k] = d[k]
    BY <1>3, <2>1, <2>2
  <2>4. QED
    BY <1>1, <1>2, <1>3, <2>1, <2>3 DEF Occurs
<1>6. ASSUME Occurs(d, longer, j), j + Len(d) <= Len(message)
      PROVE  Occurs(d, message, j)
  <2>1. \A k \in 1..Len(d) : longer[j + k] = d[k]
    BY <1>6 DEF Occurs
  <2>2. \A k \in 1..Len(d) : j + k \in 1..Len(message)
    BY <1>2, <1>3, <1>6
  <2>3. \A k \in 1..Len(d) : message[j + k] = d[k]
    BY <1>3, <2>1, <2>2
  <2>4. QED
    BY <1>6, <2>3 DEF Occurs
<1>7. ASSUME Occurs(d, longer, j), ~(j + Len(d) <= Len(message))
      PROVE  j = Len(message) /\ d = c
  <2>1. ~(j < Len(message) /\ Len(message) < j + Len(d))
    BY <1>3, <1>4, <1>7, NoOverlap
  <2>2. /\ ~(Len(message) < j /\ j < Len(message) + Len(c))
        /\ ~(Len(message) < j + Len(d) /\ j + Len(d) < Len(message) + Len(c))
    BY <1>3, <1>4, <1>7, NoOverlap
  <2>3. j + Len(d) <= Len(message) + Len(c)
    BY <1>3, <1>7 DEF Occurs
  <2>4. j = Len(message) /\ Len(d) = Len(c)
    BY <1>1, <1>2, <1>3, <1>7, <2>1, <2>2, <2>3
  <2>5. \A k \in 1..Len(d) : longer[j + k] = d[k]
    BY <1>7 DEF Occurs
  <2>6. \A k \in 1..Len(c) : d[k] = c[k]
    BY <1>3, <2>4, <2>5
  <2>7. QED
    BY <1>1, <1>2, <2>4, <2>6
<1>8. QED
  BY <1>4, <1>5, <1>6, <1>7 DEF longer

LEMMA IndicesInAddition ==
    ASSUME NEW message \in Seq(Char), NEW c \in Code
    PROVE  Indices(AddEmoticon(message, c)) = Indices(message) \cup {Len(message) + Len(c)}
<1> DEFINE longer == AddEmoticon(message, c)
           end == Len(message) + Len(c)
<1>1. /\ c \in Seq(Char) /\ Len(c) \in Nat /\ Len(c) >= 2
      /\ Len(message) \in Nat
      /\ Len(longer) = end
  BY CodesAssumption DEF AddEmoticon
<1>2. \A d \in Code, j \in Nat :
         Occurs(d, longer, j) <=> Occurs(d, message, j) \/ (j = Len(message) /\ d = c)
  BY OccurrencesInAddition
<1>3. \A d \in Code : Len(d) \in Nat
  BY CodesAssumption
<1>4. \A d \in Code, j \in Nat : Occurs(d, message, j) => j + Len(d) <= Len(message)
  BY DEF Occurs
<1> HIDE DEF longer
<1>5. ASSUME NEW k \in Indices(longer)
      PROVE  k \in Indices(message) \cup {end}
  <2>1. CASE k \in {0, Len(longer)}
    BY <1>1, <2>1 DEF Indices
  <2>2. ASSUME NEW d \in Code, k \in 0..end, Occurs(d, longer, k)
        PROVE  k \in Indices(message)
    <3>1. k \in Nat
      BY <1>1, <2>2
    <3>2. CASE Occurs(d, message, k)
      <4>1. k \in 0..Len(message)
        BY <1>1, <1>3, <1>4, <3>1, <3>2
      <4>2. QED
        BY <3>2, <4>1 DEF Indices
    <3>3. CASE k = Len(message)
      BY <3>3 DEF Indices
    <3>4. QED
      BY <1>2, <2>2, <3>1, <3>2, <3>3
  <2>3. ASSUME NEW d \in Code, k \in 0..end, k >= Len(d), Occurs(d, longer, k - Len(d))
        PROVE  k \in Indices(message) \cup {end}
    <3>1. k \in Nat /\ Len(d) \in Nat /\ k - Len(d) \in Nat /\ (k - Len(d)) + Len(d) = k
      BY <1>1, <1>3, <2>3
    <3>2. CASE Occurs(d, message, k - Len(d))
      <4>1. k \in 0..Len(message)
        BY <1>1, <1>4, <3>1, <3>2
      <4>2. QED
        BY <2>3, <3>2, <4>1 DEF Indices
    <3>3. CASE k - Len(d) = Len(message) /\ d = c
      BY <1>1, <3>1, <3>3
    <3>4. QED
      BY <1>2, <2>3, <3>1, <3>2, <3>3
  <2>4. QED
    BY <1>1, <2>1, <2>2, <2>3 DEF Indices
<1>6. ASSUME NEW k \in Indices(message)
      PROVE  k \in Indices(longer)
  <2>1. CASE k = 0
    BY <2>1 DEF Indices
  <2>2. CASE k = Len(message)
    <3>1. k \in 0..Len(longer) /\ Occurs(c, longer, k)
      BY <1>1, <1>2, <2>2
    <3>2. QED
      BY <3>1 DEF Indices
  <2>3. ASSUME NEW d \in Code, k \in 0..Len(message), Occurs(d, message, k)
        PROVE  k \in Indices(longer)
    <3>1. k \in Nat /\ k \in 0..Len(longer)
      BY <1>1, <2>3
    <3>2. Occurs(d, longer, k)
      BY <1>2, <2>3, <3>1
    <3>3. QED
      BY <3>1, <3>2 DEF Indices
  <2>4. ASSUME NEW d \in Code, k \in 0..Len(message), k >= Len(d),
               Occurs(d, message, k - Len(d))
        PROVE  k \in Indices(longer)
    <3>1. k \in 0..Len(longer) /\ k - Len(d) \in Nat
      BY <1>1, <1>3, <2>4
    <3>2. Occurs(d, longer, k - Len(d))
      BY <1>2, <2>4, <3>1
    <3>3. QED
      BY <2>4, <3>1, <3>2 DEF Indices
  <2>5. QED
    BY <2>1, <2>2, <2>3, <2>4 DEF Indices
<1>7. end \in Indices(longer)
  BY <1>1 DEF Indices
<1>8. QED
  BY <1>5, <1>6, <1>7 DEF longer

(* A code that is added is a part of its own after all parts there were,   *)
(* and changes none of them, whatever the message ended with.              *)
THEOREM AddedCodeIsOnePart ==
    ASSUME NEW message \in Seq(Char), NEW c \in Code
    PROVE  Cuts(AddEmoticon(message, c)) =
               Cuts(message) \cup {<<Len(message), Len(message) + Len(c)>>}
<1> DEFINE n == Len(message)
           end == n + Len(c)
           before == Indices(message)
           after == Indices(AddEmoticon(message, c))
<1>1. n \in Nat /\ end \in Nat /\ n < end
  BY CodesAssumption
<1>2. before \subseteq 0..n /\ n \in before
  BY <1>1 DEF Indices
<1>3. after = before \cup {end}
  BY IndicesInAddition
<1>4. /\ Cuts(message) =
            {lr \in before \X before :
               lr[1] < lr[2] /\ \A i \in before : i <= lr[1] \/ lr[2] <= i}
      /\ Cuts(AddEmoticon(message, c)) =
            {lr \in after \X after :
               lr[1] < lr[2] /\ \A i \in after : i <= lr[1] \/ lr[2] <= i}
  BY DEF Cuts
<1> HIDE DEF n, end, before, after
<1>5. ASSUME NEW l \in after, NEW r \in after
      PROVE  (l < r /\ \A i \in after : i <= l \/ r <= i) <=>
               \/ /\ l \in before /\ r \in before
                  /\ l < r /\ \A i \in before : i <= l \/ r <= i
               \/ l = n /\ r = end
  <2>1. l \in 0..end /\ r \in 0..end
    BY <1>1, <1>2, <1>3
  <2>2. CASE l \in before /\ r \in before
    BY <1>1, <1>2, <1>3, <2>1, <2>2
  <2>3. CASE l = end
    BY <1>1, <1>2, <1>3, <2>1, <2>3
  <2>4. CASE l \in before /\ r = end
    BY <1>1, <1>2, <1>3, <2>1, <2>4
  <2>5. QED
    BY <1>3, <2>2, <2>3, <2>4
<1>6. n \in after /\ end \in after
  BY <1>2, <1>3
<1>7. Cuts(AddEmoticon(message, c)) = Cuts(message) \cup {<<n, end>>}
  BY <1>3, <1>4, <1>5, <1>6
<1>8. QED
  BY <1>7 DEF n, end

---------------------------------------------------------------------------
(* What is shown of a message, in which order.                             *)

(* Cuts from the left.                                                     *)
Rank(cuts, lr) == Cardinality({ab \in cuts : ab[1] <= lr[1]})

Separated(cuts) ==
    /\ cuts \subseteq Nat \X Nat
    /\ IsFiniteSet(cuts)
    /\ \A x \in cuts : x[1] < x[2]
    /\ \A x, y \in cuts : x = y \/ x[2] <= y[1] \/ y[2] <= x[1]

LEMMA RankGrows ==
    ASSUME NEW cuts, Separated(cuts), NEW x \in cuts, NEW y \in cuts, x[1] < y[1]
    PROVE  Rank(cuts, x) < Rank(cuts, y)
<1> DEFINE S == {ab \in cuts : ab[1] <= x[1]}
           T == {ab \in cuts : ab[1] <= y[1]}
<1>1. \A ab \in cuts : ab[1] \in Nat
  BY DEF Separated
<1>2. S \in SUBSET T /\ y \in T /\ y \notin S
  BY <1>1
<1>3. IsFiniteSet(T)
  <2>1. IsFiniteSet(cuts) /\ T \in SUBSET cuts
    BY DEF Separated
  <2> QED  BY <2>1, FS_Subset
<1> HIDE DEF S, T
<1>4. IsFiniteSet(S) /\ Cardinality(S) <= Cardinality(T) /\ (Cardinality(T) = Cardinality(S) => T = S)
  BY <1>2, <1>3, FS_Subset
<1>5. Cardinality(S) \in Nat /\ Cardinality(T) \in Nat
  BY <1>3, <1>4, FS_CardinalityType
<1>6. Cardinality(S) < Cardinality(T)
  BY <1>2, <1>4, <1>5
<1> QED  BY <1>6 DEF Rank, S, T

LEMMA RankType ==
    ASSUME NEW cuts, Separated(cuts), NEW x \in cuts
    PROVE  Cardinality(cuts) \in Nat /\ Rank(cuts, x) \in 1..Cardinality(cuts)
<1> DEFINE S == {ab \in cuts : ab[1] <= x[1]}
<1>1. S \in SUBSET cuts /\ IsFiniteSet(cuts) /\ x \in S
  BY DEF Separated
<1> HIDE DEF S
<1>2. IsFiniteSet(S) /\ Cardinality(S) <= Cardinality(cuts)
  BY <1>1, FS_Subset
<1>3. Cardinality(S) \in Nat /\ Cardinality(cuts) \in Nat
  BY <1>1, <1>2, FS_CardinalityType
<1>4. Cardinality(S) # 0
  BY <1>1, <1>2, FS_EmptySet
<1>5. Cardinality(S) \in 1..Cardinality(cuts)
  BY <1>2, <1>3, <1>4
<1> QED  BY <1>3, <1>5 DEF Rank, S

LEMMA RankTellsApart ==
    ASSUME NEW cuts, Separated(cuts), NEW x \in cuts, NEW y \in cuts,
           Rank(cuts, x) = Rank(cuts, y)
    PROVE  x = y
<1>1. Rank(cuts, x) \in Nat
  BY RankType
<1>2. ~(x[1] < y[1]) /\ ~(y[1] < x[1])
  BY <1>1, RankGrows
<1>3. x[1] \in Nat /\ y[1] \in Nat /\ x[2] \in Nat /\ y[2] \in Nat
  BY DEF Separated
<1>4. x[1] < x[2] /\ y[1] < y[2] /\ (x = y \/ x[2] <= y[1] \/ y[2] <= x[1])
  BY DEF Separated
<1> QED  BY <1>2, <1>3, <1>4

LEMMA EveryRank ==
    ASSUME NEW cuts, Separated(cuts), NEW k \in 1..Cardinality(cuts)
    PROVE  \E x \in cuts : Rank(cuts, x) = k
<1> DEFINE n == Cardinality(cuts)
           rank == [x \in cuts |-> Rank(cuts, x)]
<1>1. IsFiniteSet(cuts) /\ n \in Nat
  BY FS_CardinalityType DEF Separated
<1>2. IsFiniteSet(1..n) /\ Cardinality(1..n) = n
  <2>1. n > 0 \/ n = 0
    BY <1>1
  <2>2. IsFiniteSet(1..n) /\ Cardinality(1..n) = IF 1 > n THEN 0 ELSE n - 1 + 1
    BY <1>1, FS_Interval
  <2> QED  BY <1>1, <2>1, <2>2
<1>3. rank \in Injection(cuts, 1..n)
  <2>1. rank \in [cuts -> 1..n]
    BY RankType
  <2>2. \A x, y \in cuts : rank[x] = rank[y] => x = y
    BY RankTellsApart
  <2> QED  BY <2>1, <2>2 DEF Injection, IsInjective
<1> HIDE DEF rank, n
<1>4. rank \in Surjection(cuts, 1..n)
  BY <1>2, <1>3, FS_Injection DEF n
<1>5. \E x \in cuts : rank[x] = k
  BY <1>4 DEF Surjection, n
<1> QED  BY <1>5 DEF rank

LEMMA NthIs ==
    ASSUME NEW cuts, Separated(cuts), NEW x \in cuts
    PROVE  Nth(cuts, Rank(cuts, x)) = x
<1> DEFINE k == Rank(cuts, x)
           nth == CHOOSE lr \in cuts : Rank(cuts, lr) = k
<1>1. nth \in cuts /\ Rank(cuts, nth) = k
  OBVIOUS
<1>2. nth = x
  BY <1>1, RankTellsApart
<1>3. Nth(cuts, k) = nth
  BY DEF Nth, Rank
<1> QED  BY <1>2, <1>3

LEMMA NthHasRank ==
    ASSUME NEW cuts, Separated(cuts), NEW k \in 1..Cardinality(cuts)
    PROVE  Nth(cuts, k) \in cuts /\ Rank(cuts, Nth(cuts, k)) = k
BY EveryRank, NthIs

LEMMA CutsType ==
    ASSUME NEW message \in Seq(Char)
    PROVE  /\ Len(message) \in Nat
           /\ Separated(Cuts(message))
           /\ \A x \in Cuts(message) :
                 /\ x \in Indices(message) \X Indices(message)
                 /\ x[1] \in 0..Len(message) /\ x[2] \in 0..Len(message)
<1> DEFINE n == Len(message)
           indices == Indices(message)
           cuts == Cuts(message)
<1>1. n \in Nat /\ indices \subseteq 0..n
  BY DEF Indices
<1>2. cuts = {lr \in indices \X indices :
                lr[1] < lr[2] /\ \A i \in indices : i <= lr[1] \/ lr[2] <= i}
  BY DEF Cuts
<1> HIDE DEF n, indices, cuts
<1>3. \A x \in cuts : /\ x \in indices \X indices
                      /\ x[1] \in indices /\ x[2] \in indices
                      /\ x[1] \in 0..n /\ x[2] \in 0..n /\ x[1] < x[2]
  BY <1>1, <1>2
<1>4. IsFiniteSet(cuts)
  <2>1. IsFiniteSet(0..n)
    BY <1>1, FS_Interval
  <2>2. IsFiniteSet(indices)
    BY <1>1, <2>1, FS_Subset
  <2>3. IsFiniteSet(indices \X indices)
    BY <2>2, FS_Product
  <2>4. cuts \in SUBSET (indices \X indices)
    BY <1>2
  <2> QED  BY <2>3, <2>4, FS_Subset
<1>5. ASSUME NEW x \in cuts, NEW y \in cuts
      PROVE  x = y \/ x[2] <= y[1] \/ y[2] <= x[1]
  <2>1. /\ x = <<x[1], x[2]>> /\ y = <<y[1], y[2]>>
        /\ x[1] \in 0..n /\ x[2] \in 0..n /\ y[1] \in 0..n /\ y[2] \in 0..n
    BY <1>3
  <2>2. \A i \in indices : (i <= x[1] \/ x[2] <= i) /\ (i <= y[1] \/ y[2] <= i)
    BY <1>2
  <2>3. /\ x[1] <= y[1] \/ y[2] <= x[1]
        /\ x[2] <= y[1] \/ y[2] <= x[2]
        /\ y[1] <= x[1] \/ x[2] <= y[1]
        /\ y[2] <= x[1] \/ x[2] <= y[2]
    BY <1>3, <2>2
  <2>4. x[1] < x[2] /\ y[1] < y[2]
    BY <1>3
  <2> QED  BY <2>1, <2>3, <2>4
<1>6. cuts \subseteq Nat \X Nat
  BY <1>1, <1>3
<1>7. Separated(cuts)
  BY <1>3, <1>4, <1>5, <1>6 DEF Separated
<1> QED  BY <1>1, <1>3, <1>7 DEF n, indices, cuts

(* A cut to the right of all others is the last one.                       *)
LEMMA CutAtTheEnd ==
    ASSUME NEW cuts, Separated(cuts), NEW l \in Nat, NEW r \in Nat, l < r,
           \A y \in cuts : y[2] <= l
    PROVE  /\ Cardinality(cuts \cup {<<l, r>>}) = Cardinality(cuts) + 1
           /\ \A k \in 1..Cardinality(cuts) : Nth(cuts \cup {<<l, r>>}, k) = Nth(cuts, k)
           /\ Nth(cuts \cup {<<l, r>>}, Cardinality(cuts) + 1) = <<l, r>>
<1> DEFINE last == <<l, r>>
           more == cuts \cup {last}
           n == Cardinality(cuts)
<1>1. last[1] = l /\ last[2] = r
  OBVIOUS
<1>2. /\ IsFiniteSet(cuts) /\ cuts \subseteq Nat \X Nat
      /\ \A x \in cuts : x[1] \in Nat /\ x[2] \in Nat /\ x[1] < x[2] /\ x[2] <= l
      /\ \A x, y \in cuts : x = y \/ x[2] <= y[1] \/ y[2] <= x[1]
  BY DEF Separated
<1>3. last \in Nat \X Nat
  OBVIOUS
<1> HIDE DEF last
<1>4. \A x \in cuts : x[1] < last[1] /\ x[2] <= last[1]
  BY <1>1, <1>2
<1>5. last \notin cuts
  BY <1>1, <1>4
<1>6. IsFiniteSet(more) /\ Cardinality(more) = n + 1 /\ n \in Nat
  BY <1>2, <1>5, FS_AddElement, FS_CardinalityType
<1>7. Separated(more)
  <2>1. \A x \in more : x[1] < x[2]
    BY <1>1, <1>2
  <2>2. \A x, y \in more : x = y \/ x[2] <= y[1] \/ y[2] <= x[1]
    BY <1>2, <1>4
  <2>3. more \subseteq Nat \X Nat
    BY <1>2, <1>3
  <2> QED  BY <1>6, <2>1, <2>2, <2>3 DEF Separated
<1>8. ASSUME NEW x \in cuts
      PROVE  Rank(more, x) = Rank(cuts, x)
  <2>1. ~(last[1] <= x[1])
    BY <1>1, <1>2
  <2>2. {ab \in more : ab[1] <= x[1]} = {ab \in cuts : ab[1] <= x[1]}
    BY <2>1
  <2> QED  BY <2>2 DEF Rank
<1>9. Rank(more, last) = n + 1
  <2>1. {ab \in more : ab[1] <= last[1]} = more
    BY <1>1, <1>2
  <2> QED  BY <1>6, <2>1 DEF Rank
<1>10. ASSUME NEW k \in 1..n
       PROVE  Nth(more, k) = Nth(cuts, k)
  <2>1. Nth(cuts, k) \in cuts /\ Rank(cuts, Nth(cuts, k)) = k
    BY NthHasRank
  <2>2. Nth(cuts, k) \in more /\ Rank(more, Nth(cuts, k)) = k
    BY <1>8, <2>1
  <2> QED  BY <1>7, <2>2, NthIs
<1>11. Nth(more, n + 1) = last
  BY <1>7, <1>9, NthIs
<1> QED  BY <1>6, <1>10, <1>11 DEF last

(* A code added to a message with its button is one more picture, and      *)
(* changes nothing of what is shown before it.                             *)
THEOREM AddedCodeIsShown ==
    ASSUME NEW message \in Seq(Char), NEW c \in Code
    PROVE  ParseMessage(AddEmoticon(message, c)) = Append(ParseMessage(message), Part(c))
<1> DEFINE n == Len(message)
           longer == AddEmoticon(message, c)
           cuts == Cuts(message)
           m == Cardinality(cuts)
           more == cuts \cup {<<n, n + Len(c)>>}
           PartAt(lr, s) == Part(SubSeq(s, lr[1] + 1, lr[2]))
<1>1. n \in Nat /\ c \in Seq(Char) /\ Len(c) \in Nat /\ Len(c) >= 2
  BY CodesAssumption
<1>2. longer \in Seq(Char) /\ longer = message \o c /\ Len(longer) = n + Len(c)
  BY <1>1 DEF AddEmoticon
<1>3. Separated(cuts) /\ \A x \in cuts : x[1] \in 0..n /\ x[2] \in 0..n /\ x[1] < x[2]
  BY CutsType DEF Separated
<1>4. m \in Nat
  BY <1>3, FS_CardinalityType DEF Separated
<1>5. Cuts(longer) = more
  BY AddedCodeIsOnePart
<1>6. /\ Cardinality(more) = m + 1
      /\ \A k \in 1..m : Nth(more, k) = Nth(cuts, k)
      /\ Nth(more, m + 1) = <<n, n + Len(c)>>
  <2>1. n + Len(c) \in Nat /\ n < n + Len(c) /\ \A y \in cuts : y[2] <= n
    BY <1>1, <1>3
  <2> QED  BY <1>1, <1>3, <2>1, CutAtTheEnd
<1>7. ParseMessage(message) = [k \in 1..m |-> PartAt(Nth(cuts, k), message)]
  BY DEF ParseMessage
<1>8. ParseMessage(longer) = [k \in 1..m + 1 |-> PartAt(Nth(more, k), longer)]
  BY <1>5, <1>6 DEF ParseMessage
<1>9. ASSUME NEW k \in 1..m
      PROVE  PartAt(Nth(more, k), longer) = PartAt(Nth(cuts, k), message)
  <2> DEFINE x == Nth(cuts, k)
  <2>1. x \in cuts
    BY <1>3, NthHasRank
  <2>2. x[1] \in 0..n /\ x[2] \in 0..n /\ x[1] < x[2]
    BY <1>3, <2>1
  <2> HIDE DEF x
  <2>3. x[1] + 1 \in 1..n /\ x[2] \in 1..n
    BY <1>1, <2>2
  <2>4. SubSeq(message \o c, x[1] + 1, x[2]) = SubSeq(message, x[1] + 1, x[2])
    BY <1>1, <2>3, SubSeqOfConcat1
  <2> QED  BY <1>2, <1>6, <2>4 DEF x
<1>10. PartAt(Nth(more, m + 1), longer) = Part(c)
  <2>1. SubSeq(message \o c, n + 1, n + Len(c)) = SubSeq(c, (n + 1) - n, (n + Len(c)) - n)
    <3>1. n + 1 \in n + 1..n + Len(c) /\ n + Len(c) \in n + 1..n + Len(c)
      BY <1>1
    <3> QED  BY <1>1, <3>1, SubSeqOfConcat2
  <2>2. (n + 1) - n = 1 /\ (n + Len(c)) - n = Len(c)
    BY <1>1
  <2>3. SubSeq(c, 1, Len(c)) = c
    BY <1>1, SubSeqFull
  <2>4. SubSeq(longer, n + 1, n + Len(c)) = c
    BY <1>2, <2>1, <2>2, <2>3
  <2>5. Nth(more, m + 1)[1] = n /\ Nth(more, m + 1)[2] = n + Len(c)
    BY <1>6
  <2> HIDE DEF more, m, longer, n
  <2> QED  BY <2>4, <2>5
<1> HIDE DEF PartAt, cuts, more, longer, m, n
<1>11. ASSUME NEW f, NEW g, NEW p, NEW Q(_), NEW R(_),
              f = [k \in 1..m |-> Q(k)], g = [k \in 1..m + 1 |-> R(k)],
              \A k \in 1..m : R(k) = Q(k), R(m + 1) = p
       PROVE  g = Append(f, p)
  BY <1>4, <1>11
<1> QED  BY <1>4, <1>7, <1>8, <1>9, <1>10 DEF longer

LEMMA Least ==
    ASSUME NEW T, T \subseteq Nat, T # {}
    PROVE  \E x \in T : \A y \in T : x <= y
<1>1. PICK R : IsWellFoundedOn(R, Nat) /\ \A y \in Nat : \A x \in Nat : <<y, x>> \in R <=> y < x
  <2>1. \A y \in Nat : \A x \in Nat : <<y, x>> \in OpToRel(<, Nat) <=> y < x
    BY DEF OpToRel
  <2> QED  BY <2>1, NatLessThanWellFounded, Zenon
<1>2. IsWellFoundedOn(R, Nat)
  BY <1>1
<1>3. \E x \in T : \A y \in T : ~(<<y, x>> \in R)
  BY <1>2, WFMin
<1>4. PICK x \in T : \A y \in T : ~(<<y, x>> \in R)
  BY <1>3
<1>5. ASSUME NEW y \in T PROVE x <= y
  <2>1. ~(y < x)
    BY <1>1, <1>4
  <2> QED  BY <2>1
<1> QED  BY <1>5

(* A message is cut from every place where it may be to the next one.      *)
LEMMA CutFrom ==
    ASSUME NEW message \in Seq(Char), NEW i \in Indices(message), i < Len(message)
    PROVE  \E x \in Cuts(message) : x[1] = i
<1> DEFINE later == {j \in Indices(message) : i < j}
<1>1. /\ Len(message) \in Nat /\ Len(message) \in Indices(message)
      /\ Indices(message) \subseteq 0..Len(message)
  BY DEF Indices
<1>2. later \subseteq Nat /\ later # {}
  BY <1>1
<1>3. PICK r \in later : \A j \in later : r <= j
  BY <1>2, Least
<1>4. \A j \in Indices(message) : j <= i \/ r <= j
  BY <1>1, <1>3
<1>5. <<i, r>> \in Cuts(message)
  BY <1>3, <1>4 DEF Cuts
<1> QED  BY <1>5

(* The cuts follow on one another, from one end of the message to the      *)
(* other.                                                                  *)
LEMMA CutsFollow ==
    ASSUME NEW message \in Seq(Char)
    PROVE  LET cuts == Cuts(message)
               last == Cardinality(cuts)
           IN  /\ last = 0 => Len(message) = 0
               /\ last > 0 => Nth(cuts, 1)[1] = 0 /\ Nth(cuts, last)[2] = Len(message)
               /\ \A k \in 1..last - 1 : Nth(cuts, k + 1)[1] = Nth(cuts, k)[2]
<1> DEFINE n == Len(message)
           cuts == Cuts(message)
           last == Cardinality(cuts)
<1>1. /\ n \in Nat /\ Separated(cuts)
      /\ \A x \in cuts : /\ x[1] \in 0..n /\ x[2] \in 0..n /\ x[1] < x[2]
                         /\ x[1] \in Indices(message) /\ x[2] \in Indices(message)
  BY CutsType DEF Separated
<1>2. last \in Nat
  BY <1>1, FS_CardinalityType DEF Separated
<1>3. \A i \in Indices(message) : i < n => \E x \in cuts : x[1] = i
  BY CutFrom
<1>4. \A x, y \in cuts : x = y \/ x[2] <= y[1] \/ y[2] <= x[1]
  BY <1>1 DEF Separated
<1>5. 0 \in Indices(message)
  BY DEF Indices
<1> HIDE DEF n, cuts, last
<1>6. \A k \in 1..last : Nth(cuts, k) \in cuts /\ Rank(cuts, Nth(cuts, k)) = k
  BY <1>1, NthHasRank DEF last
<1>7. \A x \in cuts : Rank(cuts, x) \in 1..last
  BY <1>1, RankType DEF last
<1>8. \A x, y \in cuts : x[1] < y[1] => Rank(cuts, x) < Rank(cuts, y)
  BY <1>1, RankGrows
<1>9. ASSUME last = 0
      PROVE  n = 0
  BY <1>1, <1>3, <1>5, <1>7, <1>9
<1>10. ASSUME last > 0
       PROVE  Nth(cuts, 1)[1] = 0
  <2>1. 1 \in 1..last
    BY <1>2, <1>10
  <2>2. PICK x \in cuts : x[1] = 0
    <3>1. n > 0
      BY <1>1, <1>6, <2>1
    <3> QED  BY <1>3, <1>5, <3>1
  <2>3. Nth(cuts, 1) \in cuts /\ Rank(cuts, Nth(cuts, 1)) = 1
    BY <1>6, <2>1
  <2>4. ~(x[1] < Nth(cuts, 1)[1])
    <3>1. Rank(cuts, x) \in 1..last /\ (x[1] < Nth(cuts, 1)[1] => Rank(cuts, x) < 1)
      BY <1>7, <1>8, <2>3
    <3> QED  BY <1>2, <3>1
  <2> QED  BY <1>1, <2>2, <2>3, <2>4
<1>11. ASSUME last > 0
       PROVE  Nth(cuts, last)[2] = n
  <2> DEFINE y == Nth(cuts, last)
  <2>1. y \in cuts /\ Rank(cuts, y) = last
    BY <1>2, <1>6, <1>11
  <2> HIDE DEF y
  <2>2. CASE y[2] < n
    <3>1. PICK x \in cuts : x[1] = y[2]
      BY <1>1, <1>3, <2>1, <2>2
    <3>2. y[1] < x[1]
      BY <1>1, <2>1, <3>1
    <3>3. last < Rank(cuts, x) /\ Rank(cuts, x) \in 1..last
      BY <1>7, <1>8, <2>1, <3>2
    <3> QED  BY <1>2, <3>3
  <2>3. CASE ~(y[2] < n)
    BY <1>1, <2>1, <2>3 DEF y
  <2> QED  BY <2>2, <2>3
<1>12. ASSUME NEW k \in 1..last - 1
       PROVE  Nth(cuts, k + 1)[1] = Nth(cuts, k)[2]
  <2> DEFINE x == Nth(cuts, k)
             y == Nth(cuts, k + 1)
  <2>1. k \in 1..last /\ k + 1 \in 1..last
    BY <1>2
  <2>2. x \in cuts /\ Rank(cuts, x) = k /\ y \in cuts /\ Rank(cuts, y) = k + 1
    BY <1>6, <2>1
  <2> HIDE DEF x, y
  <2>3. x[2] <= y[1]
    <3>1. ~(y[1] < x[1]) /\ x # y
      BY <1>8, <2>1, <2>2
    <3>2. x[1] \in Nat /\ y[1] \in Nat /\ y[2] \in Nat /\ y[1] < y[2]
      BY <1>1, <2>2
    <3> QED  BY <1>4, <2>2, <3>1, <3>2
  <2>4. ~(x[2] < y[1])
    <3> SUFFICES ASSUME x[2] < y[1] PROVE FALSE
      OBVIOUS
    <3>1. x[2] < n /\ x[2] \in Indices(message) /\ x[1] < x[2]
      BY <1>1, <2>2
    <3>2. PICK z \in cuts : z[1] = x[2]
      BY <1>3, <3>1
    <3>3. Rank(cuts, x) < Rank(cuts, z) /\ Rank(cuts, z) < Rank(cuts, y)
      BY <1>8, <2>2, <3>1, <3>2
    <3>4. Rank(cuts, z) \in 1..last
      BY <1>7, <3>2
    <3> QED  BY <2>2, <3>3, <3>4
  <2>5. x[2] \in Nat /\ y[1] \in Nat
    BY <1>1, <2>2
  <2>6. y[1] = x[2]
    BY <2>3, <2>4, <2>5
  <2> QED  BY <2>6 DEF x, y
<1> QED  BY <1>9, <1>10, <1>11, <1>12 DEF n, cuts, last

IsSum(n, width, f) == f = [k \in 0..n |-> IF k = 0 THEN 0 ELSE f[k - 1] + width[k]]

(* What counts up the lengths of consecutive pieces is where they end.     *)
LEMMA Sums ==
    ASSUME NEW n \in Nat, NEW stop, NEW width, NEW sum,
           stop[0] = 0, \A k \in 1..n : stop[k] = stop[k - 1] + width[k],
           IsSum(n, width, sum)
    PROVE  \A k \in 0..n : sum[k] = stop[k]
<1> DEFINE wrong == {k \in 0..n : sum[k] # stop[k]}
<1> SUFFICES ASSUME wrong # {} PROVE FALSE
  OBVIOUS
<1>1. wrong \subseteq Nat
  OBVIOUS
<1> HIDE DEF wrong
<1>2. PICK k \in wrong : \A j \in wrong : k <= j
  BY <1>1, Least
<1>3. k \in 0..n /\ sum[k] # stop[k]
  BY DEF wrong
<1>4. sum[0] = 0
  BY DEF IsSum
<1>5. k \in 1..n /\ k - 1 \in 0..n
  BY <1>3, <1>4
<1>6. sum[k] = sum[k - 1] + width[k]
  BY <1>5 DEF IsSum
<1>7. k - 1 \notin wrong
  BY <1>2, <1>5
<1>8. sum[k - 1] = stop[k - 1]
  BY <1>5, <1>7 DEF wrong
<1> QED  BY <1>3, <1>5, <1>6, <1>8

LEMMA SumsExist ==
    ASSUME NEW n \in Nat, NEW stop, NEW width,
           stop[0] = 0, \A k \in 1..n : stop[k] = stop[k - 1] + width[k]
    PROVE  \E f : IsSum(n, width, f)
<1> DEFINE f == [k \in 0..n |-> stop[k]]
<1>1. \A k \in 0..n : stop[k] = IF k = 0 THEN 0 ELSE f[k - 1] + width[k]
  <2> SUFFICES ASSUME NEW k \in 0..n, k # 0 PROVE stop[k] = f[k - 1] + width[k]
    OBVIOUS
  <2>1. k \in 1..n /\ k - 1 \in 0..n
    OBVIOUS
  <2> QED  BY <2>1
<1>2. IsSum(n, width, f)
  BY <1>1 DEF IsSum
<1> QED  BY <1>2

LEMMA PartsOf ==
    ASSUME NEW message \in Seq(Char)
    PROVE  LET parts == ParseMessage(message)
               cuts == Cuts(message)
           IN  /\ Cardinality(cuts) \in Nat /\ Len(parts) = Cardinality(cuts)
               /\ DOMAIN parts = 1..Len(parts)
               /\ \A k \in 1..Len(parts) :
                     LET x == Nth(cuts, k)
                     IN  /\ x \in cuts /\ Rank(cuts, x) = k
                         /\ parts[k] = Part(SubSeq(message, x[1] + 1, x[2]))
                         /\ parts[k].value = SubSeq(message, x[1] + 1, x[2])
                         /\ Len(parts[k].value) = x[2] - x[1]
<1> DEFINE parts == ParseMessage(message)
           cuts == Cuts(message)
           n == Cardinality(cuts)
           PartAt(x) == Part(SubSeq(message, x[1] + 1, x[2]))
<1>1. /\ Len(message) \in Nat /\ Separated(cuts)
      /\ \A x \in cuts : x[1] \in 0..Len(message) /\ x[2] \in 0..Len(message) /\ x[1] < x[2]
  BY CutsType DEF Separated
<1>2. n \in Nat
  BY <1>1, FS_CardinalityType DEF Separated
<1>3. parts = [k \in 1..n |-> PartAt(Nth(cuts, k))]
  BY DEF ParseMessage
<1> HIDE DEF parts, cuts, n, PartAt
<1>4. DOMAIN parts = 1..n
  BY <1>3
<1>5. Len(parts) = n
  BY <1>2, <1>3
<1>6. \A k \in 1..n : Nth(cuts, k) \in cuts /\ Rank(cuts, Nth(cuts, k)) = k
  BY <1>1, NthHasRank DEF n
<1>7. \A k \in 1..n : parts[k] = PartAt(Nth(cuts, k))
  BY <1>3
<1>8. \A x \in cuts : /\ PartAt(x).value = SubSeq(message, x[1] + 1, x[2])
                      /\ Len(PartAt(x).value) = x[2] - x[1]
  <2> SUFFICES ASSUME NEW x \in cuts
               PROVE  /\ PartAt(x).value = SubSeq(message, x[1] + 1, x[2])
                      /\ Len(PartAt(x).value) = x[2] - x[1]
    OBVIOUS
  <2>1. PartAt(x).value = SubSeq(message, x[1] + 1, x[2])
    BY DEF PartAt, Part
  <2>2. x[1] + 1 \in 1..Len(message) /\ x[2] \in x[1] + 1..Len(message) /\ x[1] \in Nat
    BY <1>1
  <2>3. Len(SubSeq(message, x[1] + 1, x[2])) = x[2] - x[1]
    BY <1>1, <2>2
  <2> QED  BY <2>1, <2>3
<1> QED  BY <1>2, <1>4, <1>5, <1>6, <1>7, <1>8 DEF parts, cuts, n, PartAt

LEMMA OccursHere ==
    ASSUME NEW message \in Seq(Char), NEW c \in Code, NEW j \in Nat, Occurs(c, message, j)
    PROVE  SubSeq(message, j + 1, j + Len(c)) = c
<1> DEFINE s == SubSeq(message, j + 1, j + Len(c))
<1>1. c \in Seq(Char) /\ Len(c) \in Nat /\ Len(c) >= 2 /\ Len(message) \in Nat
  BY CodesAssumption
<1>2. j + Len(c) <= Len(message) /\ \A k \in 1..Len(c) : message[j + k] = c[k]
  BY DEF Occurs
<1>3. /\ s \in Seq(Char) /\ Len(s) = Len(c)
      /\ \A k \in 1..Len(c) : s[k] = message[(j + 1) + k - 1]
  BY <1>1, <1>2
<1>4. \A k \in 1..Len(c) : s[k] = c[k]
  <2>1. \A k \in 1..Len(c) : (j + 1) + k - 1 = j + k
    BY <1>1
  <2> QED  BY <1>2, <1>3, <2>1
<1> HIDE DEF s
<1>5. s = c
  BY <1>1, <1>3, <1>4
<1> QED  BY <1>5 DEF s

(* Between two cuts there is a code, or a code begins at the second cut.   *)
LEMMA TextMeetsPicture ==
    ASSUME NEW message \in Seq(Char), NEW x \in Cuts(message), NEW y \in Cuts(message),
           x[2] = y[1]
    PROVE  \/ SubSeq(message, x[1] + 1, x[2]) \in Code
           \/ SubSeq(message, y[1] + 1, y[2]) \in Code
<1> DEFINE n == Len(message)
           i == y[1]
           cuts == Cuts(message)
<1>1. /\ n \in Nat /\ i \in 0..n /\ i \in Indices(message)
      /\ \A z \in cuts : z[1] \in 0..n /\ z[2] \in 0..n /\ z[1] < z[2]
      /\ \A z, w \in cuts : z = w \/ z[2] <= w[1] \/ w[2] <= z[1]
  BY CutsType DEF Separated
<1>2. i # 0 /\ i # n
  BY <1>1
<1>3. ASSUME NEW c \in Code, NEW j \in Nat, Occurs(c, message, j)
      PROVE  <<j, j + Len(c)>> \in cuts /\ SubSeq(message, j + 1, j + Len(c)) = c
  BY <1>3, CodesAreParts, OccursHere
<1>4. ASSUME NEW c \in Code, Occurs(c, message, i)
      PROVE  SubSeq(message, y[1] + 1, y[2]) \in Code
  <2> DEFINE z == <<i, i + Len(c)>>
  <2>1. i \in Nat /\ z \in cuts /\ SubSeq(message, i + 1, i + Len(c)) = c
    BY <1>1, <1>3, <1>4
  <2>2. z[1] = i /\ z[2] = i + Len(c)
    OBVIOUS
  <2> HIDE DEF z
  <2>3. z = y
    BY <1>1, <2>1, <2>2
  <2> QED  BY <2>1, <2>2, <2>3
<1>5. ASSUME NEW c \in Code, i >= Len(c), Occurs(c, message, i - Len(c))
      PROVE  SubSeq(message, x[1] + 1, x[2]) \in Code
  <2> DEFINE j == i - Len(c)
             z == <<j, j + Len(c)>>
  <2>1. Len(c) \in Nat /\ j \in Nat /\ j + Len(c) = i
    BY <1>1, <1>5, CodesAssumption
  <2>2. z \in cuts /\ SubSeq(message, j + 1, j + Len(c)) = c
    BY <1>3, <1>5, <2>1
  <2>3. z[1] = j /\ z[2] = i
    BY <2>1
  <2> HIDE DEF z, j
  <2>4. z = x
    <3>1. z = x \/ z[2] <= x[1] \/ x[2] <= z[1]
      BY <1>1, <2>2
    <3>2. x[1] < x[2] /\ z[1] < z[2] /\ x[2] = z[2] /\ x[1] \in Nat /\ z[1] \in Nat /\ z[2] \in Nat
      BY <1>1, <2>2, <2>3
    <3> QED  BY <3>1, <3>2
  <2> QED  BY <2>1, <2>2, <2>3, <2>4
<1> QED  BY <1>1, <1>2, <1>4, <1>5 DEF Indices

(* The pictures and texts of a message, in order, are the message.         *)
LEMMA ShownAsRead ==
    ASSUME field \in Seq(Char)
    PROVE  PartsAreAsRead
<1> DEFINE parts == ParseMessage(field)
           cuts == Cuts(field)
           n == Len(parts)
           stop == [k \in 0..n |-> IF k = 0 THEN 0 ELSE Nth(cuts, k)[2]]
           width == [k \in 1..n |-> Len(parts[k].value)]
           IsEnd(f) == f = [k \in 0..n |-> IF k = 0 THEN 0 ELSE f[k - 1] + Len(parts[k].value)]
           end == CHOOSE f : IsEnd(f)
<1>1. /\ n \in Nat /\ n = Cardinality(cuts)
      /\ DOMAIN parts = 1..n
      /\ \A k \in 1..n :
            LET x == Nth(cuts, k)
            IN  /\ x \in cuts /\ Rank(cuts, x) = k
                /\ parts[k] = Part(SubSeq(field, x[1] + 1, x[2]))
                /\ parts[k].value = SubSeq(field, x[1] + 1, x[2])
                /\ Len(parts[k].value) = x[2] - x[1]
  BY PartsOf
<1>2. /\ Len(field) \in Nat /\ Separated(cuts)
      /\ \A x \in cuts : x[1] \in 0..Len(field) /\ x[2] \in 0..Len(field) /\ x[1] < x[2]
  BY CutsType DEF Separated
<1>3. /\ n = 0 => Len(field) = 0
      /\ n > 0 => Nth(cuts, 1)[1] = 0 /\ Nth(cuts, n)[2] = Len(field)
      /\ \A k \in 1..n - 1 : Nth(cuts, k + 1)[1] = Nth(cuts, k)[2]
  BY <1>1, CutsFollow
<1>4. \A k \in 1..n : stop[k - 1] = Nth(cuts, k)[1]
  <2> SUFFICES ASSUME NEW k \in 1..n PROVE stop[k - 1] = Nth(cuts, k)[1]
    OBVIOUS
  <2>1. CASE k = 1
    BY <1>1, <1>3, <2>1
  <2>2. CASE k # 1
    <3>1. k - 1 \in 1..n - 1 /\ k - 1 \in 0..n /\ (k - 1) + 1 = k /\ k - 1 # 0
      BY <1>1, <2>2
    <3> HIDE DEF n, cuts
    <3>2. stop[k - 1] = Nth(cuts, k - 1)[2]
      BY <3>1
    <3> QED  BY <1>3, <3>1, <3>2
  <2> QED  BY <2>1, <2>2
<1>5. stop[0] = 0 /\ \A k \in 1..n : stop[k] = Nth(cuts, k)[2]
  BY <1>1
<1> HIDE DEF parts, cuts, n, stop
<1>6. \A k \in 1..n : stop[k] = stop[k - 1] + width[k]
  <2> SUFFICES ASSUME NEW k \in 1..n PROVE stop[k] = stop[k - 1] + width[k]
    OBVIOUS
  <2> DEFINE x == Nth(cuts, k)
  <2>1. x \in cuts /\ width[k] = x[2] - x[1]
    BY <1>1
  <2>2. x[1] \in Nat /\ x[2] \in Nat
    BY <1>2, <2>1
  <2>3. stop[k] = x[2] /\ stop[k - 1] = x[1]
    BY <1>4, <1>5
  <2> HIDE DEF x
  <2> QED  BY <2>1, <2>2, <2>3
<1>7. \A f : IsEnd(f) <=> IsSum(n, width, f)
  <2>1. ASSUME NEW f
        PROVE  [k \in 0..n |-> IF k = 0 THEN 0 ELSE f[k - 1] + Len(parts[k].value)]
                 = [k \in 0..n |-> IF k = 0 THEN 0 ELSE f[k - 1] + width[k]]
    <3>1. \A k \in 0..n : k # 0 => k \in 1..n
      BY <1>1
    <3>2. \A k \in 1..n : width[k] = Len(parts[k].value)
      OBVIOUS
    <3> HIDE DEF width
    <3> QED  BY <3>1, <3>2
  <2> QED  BY <2>1 DEF IsSum
<1> HIDE DEF IsEnd, width
<1>8. IsSum(n, width, end)
  <2>1. \E f : IsSum(n, width, f)
    BY <1>1, <1>5, <1>6, SumsExist
  <2> QED  BY <1>7, <2>1
<1> HIDE DEF end
<1>9. \A k \in 0..n : end[k] = stop[k]
  BY <1>1, <1>5, <1>6, <1>8, Sums
<1>10. end[n] = Len(field)
  <2>1. CASE n = 0
    BY <1>1, <1>3, <1>5, <1>9, <2>1
  <2>2. CASE n # 0
    <3>1. n \in 1..n /\ n \in 0..n /\ n > 0
      BY <1>1, <2>2
    <3> QED  BY <1>3, <1>5, <1>9, <3>1
  <2> QED  BY <2>1, <2>2
<1>11. ASSUME NEW k \in 1..n
       PROVE  /\ k - 1 \in 0..n /\ k \in 0..n
              /\ Nth(cuts, k) \in cuts
              /\ end[k - 1] = Nth(cuts, k)[1] /\ end[k] = Nth(cuts, k)[2]
              /\ parts[k] = Part(SubSeq(field, end[k - 1] + 1, end[k]))
              /\ parts[k].value = SubSeq(field, end[k - 1] + 1, end[k])
              /\ parts[k].value # <<>>
  <2>1. k - 1 \in 0..n /\ k \in 0..n
    BY <1>1
  <2>2. end[k - 1] = Nth(cuts, k)[1] /\ end[k] = Nth(cuts, k)[2]
    BY <1>4, <1>5, <1>9, <2>1
  <2>3. Nth(cuts, k) \in cuts
    BY <1>1
  <2>4. Len(parts[k].value) = end[k] - end[k - 1] /\ end[k - 1] \in Nat /\ end[k] \in Nat /\ end[k - 1] < end[k]
    BY <1>1, <1>2, <2>2, <2>3
  <2>5. parts[k].value # <<>>
    <3>1. Len(parts[k].value) # 0
      BY <2>4
    <3> QED  BY <3>1
  <2> QED  BY <1>1, <2>1, <2>2, <2>3, <2>5
<1>12. ASSUME NEW k \in 1..n
       PROVE  \/ parts[k].type = "emoticon" /\ parts[k].value \in Code
              \/ /\ parts[k].type = "text"
                 /\ k < n => parts[k + 1].type = "emoticon"
  <2> DEFINE x == Nth(cuts, k)
             y == Nth(cuts, k + 1)
  <2>1. /\ x \in cuts
        /\ parts[k] = Part(SubSeq(field, x[1] + 1, x[2]))
        /\ parts[k].value = SubSeq(field, x[1] + 1, x[2])
    BY <1>1
  <2>2. CASE SubSeq(field, x[1] + 1, x[2]) \in Code
    BY <2>1, <2>2 DEF Part
  <2>3. CASE SubSeq(field, x[1] + 1, x[2]) \notin Code
    <3>1. parts[k].type = "text"
      BY <2>1, <2>3 DEF Part
    <3>2. ASSUME k < n PROVE parts[k + 1].type = "emoticon"
      <4>1. k \in 1..n - 1 /\ k + 1 \in 1..n
        BY <1>1, <3>2
      <4>2. y \in cuts /\ parts[k + 1] = Part(SubSeq(field, y[1] + 1, y[2])) /\ y[1] = x[2]
        BY <1>1, <1>3, <4>1
      <4> HIDE DEF x, y
      <4>3. SubSeq(field, y[1] + 1, y[2]) \in Code
        BY <2>1, <2>3, <4>2, TextMeetsPicture DEF cuts
      <4> QED  BY <4>2, <4>3 DEF Part
    <3> QED  BY <3>1, <3>2
  <2> QED  BY <2>2, <2>3
<1>13. ASSUME NEW c \in Code, NEW i \in 0..Len(field), Occurs(c, field, i)
       PROVE  \E k \in 1..n : end[k - 1] = i /\ parts[k] = [type |-> "emoticon", value |-> c]
  <2> DEFINE x == <<i, i + Len(c)>>
  <2>1. x \in cuts /\ x[1] = i /\ SubSeq(field, x[1] + 1, x[2]) = c
    <3>1. i \in Nat
      BY <1>2
    <3> QED  BY <1>13, <3>1, CodesAreParts, OccursHere DEF cuts
  <2> HIDE DEF x
  <2>2. Rank(cuts, x) \in 1..n /\ Nth(cuts, Rank(cuts, x)) = x
    BY <1>1, <1>2, <2>1, RankType, NthIs
  <2>3. PICK k \in 1..n : Nth(cuts, k) = x
    BY <2>2
  <2>4. end[k - 1] = i /\ parts[k] = Part(c)
    BY <1>1, <1>11, <2>1, <2>3
  <2> QED  BY <2>4 DEF Part
<1>14. PartsAreAsRead <=>
         /\ end[n] = Len(field)
         /\ \A k \in DOMAIN parts :
               /\ parts[k].value = SubSeq(field, end[k - 1] + 1, end[k])
               /\ parts[k].value # <<>>
               /\ \/ parts[k].type = "emoticon" /\ parts[k].value \in Code
                  \/ /\ parts[k].type = "text"
                     /\ k < n => parts[k + 1].type = "emoticon"
         /\ \A c \in Code, i \in 0..Len(field) : Occurs(c, field, i) =>
               \E k \in DOMAIN parts :
                   end[k - 1] = i /\ parts[k] = [type |-> "emoticon", value |-> c]
  BY DEF PartsAreAsRead, parts, n, end, IsEnd
<1>15. DOMAIN parts = 1..n
  BY <1>1
<1>16. \A k \in DOMAIN parts :
         /\ parts[k].value = SubSeq(field, end[k - 1] + 1, end[k])
         /\ parts[k].value # <<>>
         /\ \/ parts[k].type = "emoticon" /\ parts[k].value \in Code
            \/ /\ parts[k].type = "text"
               /\ k < n => parts[k + 1].type = "emoticon"
  BY <1>11, <1>12, <1>15
<1>17. \A c \in Code, i \in 0..Len(field) : Occurs(c, field, i) =>
         \E k \in DOMAIN parts :
             end[k - 1] = i /\ parts[k] = [type |-> "emoticon", value |-> c]
  BY <1>13, <1>15
<1> QED  BY <1>10, <1>14, <1>16, <1>17, Zenon

WrittenInv == field \in Seq(Char)

LEMMA Written == Spec => []WrittenInv
<1>1. Init => WrittenInv
  BY DEF Init, WrittenInv
<1>2. WrittenInv /\ [Next]_vars => WrittenInv'
  <2> SUFFICES ASSUME WrittenInv, [Next]_vars PROVE WrittenInv'
    OBVIOUS
  <2>1. ASSUME NEW key \in Keys, Type(key) PROVE WrittenInv'
    <3>1. key \in Char
      BY PureFunctionsAssumption
    <3> QED  BY <2>1, <3>1 DEF Type, WrittenInv
  <2>2. ASSUME NEW c \in Buttons, Click(c) PROVE WrittenInv'
    <3>1. c \in Seq(Char)
      BY PureFunctionsAssumption, CodesAssumption
    <3> QED  BY <2>2, <3>1 DEF Click, AddEmoticon, WrittenInv
  <2>3. ASSUME NEW s \in Sender, Count(s) PROVE WrittenInv'
    BY <2>3 DEF Count, writing, WrittenInv
  <2>4. CASE Tick
    BY <2>4 DEF Tick, writing, WrittenInv
  <2>5. CASE UNCHANGED vars
    BY <2>5 DEF vars, writing, WrittenInv
  <2> QED  BY <2>1, <2>2, <2>3, <2>4, <2>5 DEF Next
<1> QED  BY <1>1, <1>2, PTL DEF Spec

(* Every message that can be written is shown as a reader sees it: nothing *)
(* is lost, nothing is shown twice, and each code is a picture.            *)
THEOREM PartsAreRead == Spec => []PartsAreAsRead
<1>1. WrittenInv => PartsAreAsRead
  BY ShownAsRead DEF WrittenInv
<1> QED  BY <1>1, Written, PTL

(* An emoticon added with its button is always shown as that picture.      *)
THEOREM ButtonsAddPictures == Spec => ButtonAddsOnePicture
<1>1. ASSUME WrittenInv, [Next]_vars
      PROVE  [\A c \in Buttons : Click(c) =>
                ParseMessage(field') = Append(ParseMessage(field), Part(c))]_vars
  <2> SUFFICES ASSUME NEW c \in Buttons, Click(c)
               PROVE  ParseMessage(field') = Append(ParseMessage(field), Part(c))
    OBVIOUS
  <2>1. c \in Code /\ field \in Seq(Char) /\ field' = AddEmoticon(field, c)
    BY <1>1, PureFunctionsAssumption DEF Click, WrittenInv
  <2> QED  BY <2>1, AddedCodeIsShown
<1> QED  BY <1>1, Written, PTL DEF Spec, ButtonAddsOnePicture
=============================================================================
