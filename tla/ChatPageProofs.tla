--------------------------- MODULE ChatPageProofs ---------------------------
(***************************************************************************)
(* The chat as pages show it, for any number of pages, peers, calls and    *)
(* messages, and whatever the threads of the server send in between:       *)
(*   - a call is answered once at most, in order, and by its own result;   *)
(*   - values have the types of TypeOK: what a page hears of is well       *)
(*     formed, and the names it lists are names of somebody (TypeInv);     *)
(*   - a loaded page has a tab for each conversation, and lists each user, *)
(*     whichever way it heard of them, if only in what is still under way; *)
(*   - a tab shows texts of its conversation, none twice (TextInv), and of *)
(*     what peers write it misses nothing after the first (MissInv).       *)
(* All of them rest on Chain: what is shown, under way to a page, waiting  *)
(* in an outbox and called for keeps its order.                            *)
(***************************************************************************)
EXTENDS ChatPage, FiniteSetTheorems, TLAPS

Num == Nat \cup {-1}

\* Ids before and after each other.
Before(s, t) == \A k \in DOMAIN t : t[k] # -1 => \A j \in DOMAIN s : s[j] < t[k]

\* The ids of results taken, under way, to be sent, and of calls to be served,
\* each in its order and all in this one.
Chain(a, m, o, r) ==
    /\ Ascending(a) /\ Ascending(m) /\ Ascending(o) /\ Ascending(r)
    /\ Before(a, m) /\ Before(a, o) /\ Before(a, r)
    /\ Before(m, o) /\ Before(m, r)
    /\ Before(o, r)

----------------------------------------------------------------------------
\* Sequences of ids.

LEMMA TailOrder ==
    ASSUME NEW s \in Seq(Num), s # <<>>, NEW u \in Seq(Num)
    PROVE  /\ Tail(s) \in Seq(Num)
           /\ Ascending(s) => Ascending(Tail(s))
           /\ Before(u, s) => Before(u, Tail(s))
           /\ Before(s, u) => Before(Tail(s), u)
  <1>1. /\ Tail(s) \in Seq(Num)
        /\ Len(Tail(s)) = Len(s) - 1
        /\ \A k \in 1..Len(s) - 1 : Tail(s)[k] = s[k + 1]
    OBVIOUS
  <1>2. Ascending(s) => Ascending(Tail(s))
    BY <1>1 DEF Ascending, Num
  <1>3. Before(u, s) => Before(u, Tail(s))
    BY <1>1 DEF Before, Num
  <1>4. Before(s, u) => Before(Tail(s), u)
    BY <1>1 DEF Before, Num
  <1> QED BY <1>1, <1>2, <1>3, <1>4

LEMMA GapOrder ==
    ASSUME NEW s \in Seq(Num), NEW u \in Seq(Num)
    PROVE  /\ Append(s, -1) \in Seq(Num)
           /\ Ascending(s) => Ascending(Append(s, -1))
           /\ Before(u, s) => Before(u, Append(s, -1))
           /\ Before(s, u) => Before(Append(s, -1), u)
  <1>1. /\ Append(s, -1) \in Seq(Num)
        /\ Len(Append(s, -1)) = Len(s) + 1
        /\ \A k \in 1..Len(s) : Append(s, -1)[k] = s[k]
        /\ Append(s, -1)[Len(s) + 1] = -1
    BY DEF Num
  <1>2. Ascending(s) => Ascending(Append(s, -1))
    BY <1>1 DEF Ascending, Num
  <1>3. Before(u, s) => Before(u, Append(s, -1))
    BY <1>1 DEF Before, Num
  <1>4. Before(s, u) => Before(Append(s, -1), u)
    BY <1>1 DEF Before, Num
  <1> QED BY <1>1, <1>2, <1>3, <1>4

LEMMA MoveOrder ==
    ASSUME NEW s \in Seq(Num), NEW t \in Seq(Num), s # <<>>, NEW u \in Seq(Num),
           Ascending(s), Ascending(t), Before(t, s)
    PROVE  /\ Append(t, Head(s)) \in Seq(Num)
           /\ Ascending(Append(t, Head(s)))
           /\ Before(Append(t, Head(s)), Tail(s))
           /\ Before(u, s) /\ Before(u, t) => Before(u, Append(t, Head(s)))
           /\ Before(s, u) /\ Before(t, u) => Before(Append(t, Head(s)), u)
  <1>1. /\ Tail(s) \in Seq(Num)
        /\ Len(Tail(s)) = Len(s) - 1
        /\ \A k \in 1..Len(s) - 1 : Tail(s)[k] = s[k + 1]
        /\ Head(s) = s[1] /\ Head(s) \in Num /\ 1 \in DOMAIN s
    OBVIOUS
  <1>2. /\ Append(t, Head(s)) \in Seq(Num)
        /\ Len(Append(t, Head(s))) = Len(t) + 1
        /\ \A k \in 1..Len(t) : Append(t, Head(s))[k] = t[k]
        /\ Append(t, Head(s))[Len(t) + 1] = s[1]
    BY <1>1
  <1>3. Ascending(Append(t, Head(s)))
    BY <1>1, <1>2 DEF Ascending, Before, Num
  <1>4. Before(Append(t, Head(s)), Tail(s))
    BY <1>1, <1>2 DEF Ascending, Before, Num
  <1>5. Before(u, s) /\ Before(u, t) => Before(u, Append(t, Head(s)))
    BY <1>1, <1>2 DEF Before, Num
  <1>6. Before(s, u) /\ Before(t, u) => Before(Append(t, Head(s)), u)
    BY <1>1, <1>2 DEF Before, Num
  <1> QED BY <1>2, <1>3, <1>4, <1>5, <1>6

LEMMA ConcatOrder ==
    ASSUME NEW s \in Seq(Num), NEW t \in Seq(Num), NEW u \in Seq(Num)
    PROVE  /\ s \o t \in Seq(Num)
           /\ Ascending(s) /\ Ascending(t) /\ Before(s, t) => Ascending(s \o t)
           /\ Before(s, u) /\ Before(t, u) => Before(s \o t, u)
  <1> DEFINE w == s \o t
  <1>1. /\ w \in Seq(Num)
        /\ \A k \in DOMAIN w :
              \/ k \in DOMAIN s /\ w[k] = s[k]
              \/ /\ k - Len(s) \in DOMAIN t
                 /\ w[k] = t[k - Len(s)]
    OBVIOUS
  <1>2. /\ Len(s) \in Nat /\ DOMAIN s = 1..Len(s)
        /\ Len(t) \in Nat /\ DOMAIN t = 1..Len(t)
        /\ Len(w) \in Nat /\ DOMAIN w = 1..Len(w)
        /\ \A k \in DOMAIN s : s[k] \in Num
        /\ \A k \in DOMAIN t : t[k] \in Num
    BY <1>1
  <1> HIDE DEF w
  <1>3. ASSUME Ascending(s), Ascending(t), Before(s, t)
        PROVE  Ascending(w)
    <2> SUFFICES ASSUME NEW k \in DOMAIN w, w[k] # -1, NEW j \in 1..k - 1
                 PROVE  w[j] < w[k]
      BY DEF Ascending
    <2>1. j \in DOMAIN w /\ k \in Int /\ j \in Int /\ j < k
      BY <1>2
    <2>2. CASE k \in DOMAIN s /\ w[k] = s[k]
      <3>1. j \in DOMAIN s /\ j \in 1..k - 1
        BY <2>1, <2>2, <1>2
      <3>2. w[j] = s[j]
        BY <3>1, <2>1, <1>1, <1>2
      <3> QED BY <3>1, <3>2, <2>2, <1>3 DEF Ascending
    <2>3. CASE /\ k - Len(s) \in DOMAIN t /\ w[k] = t[k - Len(s)]
               /\ j \in DOMAIN s /\ w[j] = s[j]
      BY <2>3, <1>3 DEF Before
    <2>4. CASE /\ k - Len(s) \in DOMAIN t /\ w[k] = t[k - Len(s)]
               /\ j - Len(s) \in DOMAIN t /\ w[j] = t[j - Len(s)]
      <3>1. j - Len(s) \in 1..(k - Len(s)) - 1
        BY <2>1, <2>4, <1>2
      <3> QED BY <3>1, <2>4, <1>3 DEF Ascending
    <2> QED BY <2>1, <2>2, <2>3, <2>4, <1>1
  <1>4. ASSUME Before(s, u), Before(t, u)
        PROVE  Before(w, u)
    BY <1>1, <1>4 DEF Before
  <1> QED BY <1>1, <1>3, <1>4 DEF w

LEMMA ConcatAfter ==
    ASSUME NEW s \in Seq(Num), NEW t \in Seq(Num), NEW u \in Seq(Num),
           Before(u, s), Before(u, t)
    PROVE  Before(u, s \o t)
  <1> DEFINE w == s \o t
  <1>1. \A k \in DOMAIN w : \/ k \in DOMAIN s /\ w[k] = s[k]
                            \/ k - Len(s) \in DOMAIN t /\ w[k] = t[k - Len(s)]
    OBVIOUS
  <1> HIDE DEF w
  <1>2. Before(u, w)
    BY <1>1 DEF Before
  <1> QED BY <1>2 DEF w

\* A chain is an ascending sequence cut in four.
LEMMA ChainIsOrder ==
    ASSUME NEW a \in Seq(Num), NEW m \in Seq(Num), NEW o \in Seq(Num), NEW r \in Seq(Num),
           Chain(a, m, o, r)
    PROVE  Ascending(a \o m \o o \o r)
  <1>1. a \o m \in Seq(Num) /\ Ascending(a \o m)
    BY ConcatOrder DEF Chain
  <1>2. Before(a \o m, o) /\ Before(a \o m, r)
    BY ConcatOrder DEF Chain
  <1>3. a \o m \o o \in Seq(Num) /\ Ascending(a \o m \o o)
    BY <1>1, <1>2, ConcatOrder DEF Chain
  <1>4. Before(a \o m \o o, r)
    BY <1>1, <1>2, ConcatOrder DEF Chain
  <1> QED BY <1>3, <1>4, ConcatOrder DEF Chain

LEMMA ChainShrinks ==
    ASSUME NEW a \in Seq(Num), NEW m \in Seq(Num), NEW o \in Seq(Num), NEW r \in Seq(Num),
           Chain(a, m, o, r)
    PROVE  /\ m # <<>> => Chain(a, Tail(m), o, r)
           /\ o # <<>> => Chain(a, m, Tail(o), r)
           /\ r # <<>> => Chain(a, m, o, Tail(r))
           /\ Chain(a, <<>>, o, r)
  <1>1. m # <<>> => Chain(a, Tail(m), o, r)
    BY TailOrder DEF Chain
  <1>2. o # <<>> => Chain(a, m, Tail(o), r)
    BY TailOrder DEF Chain
  <1>3. r # <<>> => Chain(a, m, o, Tail(r))
    BY TailOrder DEF Chain
  <1>4. Chain(a, <<>>, o, r)
    BY DEF Chain, Before, Ascending
  <1> QED BY <1>1, <1>2, <1>3, <1>4

LEMMA ChainMoves ==
    ASSUME NEW a \in Seq(Num), NEW m \in Seq(Num), NEW o \in Seq(Num), NEW r \in Seq(Num),
           Chain(a, m, o, r)
    PROVE  /\ m # <<>> => Chain(Append(a, Head(m)), Tail(m), o, r)
           /\ o # <<>> => Chain(a, Append(m, Head(o)), Tail(o), r)
           /\ r # <<>> => Chain(a, m, Append(o, Head(r)), Tail(r))
  <1>1. m # <<>> => Chain(Append(a, Head(m)), Tail(m), o, r)
    BY TailOrder, MoveOrder DEF Chain
  <1>2. o # <<>> => Chain(a, Append(m, Head(o)), Tail(o), r)
    BY TailOrder, MoveOrder DEF Chain
  <1>3. r # <<>> => Chain(a, m, Append(o, Head(r)), Tail(r))
    BY TailOrder, MoveOrder DEF Chain
  <1> QED BY <1>1, <1>2, <1>3

LEMMA ChainGrows ==
    ASSUME NEW a \in Seq(Num), NEW m \in Seq(Num), NEW o \in Seq(Num), NEW r \in Seq(Num),
           Chain(a, m, o, r)
    PROVE  /\ Chain(a, Append(m, -1), o, r)
           /\ Chain(a, m, Append(o, -1), r)
  BY GapOrder DEF Chain

----------------------------------------------------------------------------
\* Sequences of anything.

IsSequence(s) == s \in Seq(ToSet(s))

LEMMA TailOfSequence ==
    ASSUME NEW s, IsSequence(s), s # <<>>
    PROVE  /\ IsSequence(Tail(s))
           /\ ToSet(Tail(s)) \subseteq ToSet(s)
           /\ Head(s) \in ToSet(s)
           /\ Ids(Tail(s)) = Tail(Ids(s))
           /\ Ids(s) # <<>> /\ Head(Ids(s)) = Head(s).id
  <1> DEFINE S == ToSet(s)
  <1>1. s \in Seq(S)
    BY DEF IsSequence
  <1> HIDE DEF S
  <1>2. /\ Tail(s) \in Seq(S) /\ Len(Tail(s)) = Len(s) - 1 /\ Len(s) \in Nat /\ Len(s) > 0
        /\ \A k \in 1..Len(s) - 1 : Tail(s)[k] = s[k + 1]
        /\ DOMAIN s = 1..Len(s) /\ DOMAIN Tail(s) = 1..Len(s) - 1
        /\ Head(s) = s[1]
    BY <1>1
  <1>3. ToSet(Tail(s)) \subseteq ToSet(s) /\ Head(s) \in ToSet(s)
    BY <1>2 DEF ToSet
  <1>4. Tail(s) \in Seq(ToSet(Tail(s)))
    <2> DEFINE w == Tail(s)
               T == ToSet(w)
    <2>1. w \in Seq(S) /\ Len(w) \in Nat /\ DOMAIN w = 1..Len(w)
      BY <1>2
    <2> HIDE DEF w
    <2>2. \A k \in DOMAIN w : w[k] \in T
      BY DEF ToSet
    <2> HIDE DEF T
    <2>3. w \in [1..Len(w) -> T]
      BY <2>1, <2>2
    <2>4. w \in Seq(T)
      BY <2>1, <2>3
    <2> QED BY <2>4 DEF w, T
  <1> DEFINE I == {x.id : x \in S}
  <1>5. Ids(s) \in Seq(I) /\ Len(Ids(s)) = Len(s) /\ Ids(s) # <<>>
    <2>1. \A k \in 1..Len(s) : s[k].id \in I
      <3>1. \A k \in 1..Len(s) : s[k] \in S
        BY <1>1
      <3> QED BY <3>1
    <2> HIDE DEF I
    <2>2. Ids(s) \in [1..Len(s) -> I]
      BY <2>1, <1>2 DEF Ids
    <2>3. Ids(s) \in Seq(I) /\ Len(Ids(s)) = Len(s)
      BY <2>2, <1>2
    <2> QED BY <2>3, <1>2
  <1> HIDE DEF I
  <1>6. Head(Ids(s)) = Head(s).id
    BY <1>2, <1>5 DEF Ids
  <1>7. Ids(Tail(s)) = Tail(Ids(s))
    <2> DEFINE v == Tail(Ids(s))
    <2>1. /\ v \in Seq(I) /\ DOMAIN v = 1..Len(s) - 1
          /\ \A k \in 1..Len(s) - 1 : v[k] = Ids(s)[k + 1]
      BY <1>5, <1>2
    <2> HIDE DEF v
    <2>2. \A k \in 1..Len(s) - 1 : v[k] = Tail(s)[k].id
      <3>1. \A k \in 1..Len(s) - 1 : k + 1 \in DOMAIN s
        BY <1>2
      <3>2. \A k \in DOMAIN s : Ids(s)[k] = s[k].id
        BY DEF Ids
      <3>3. \A k \in 1..Len(s) - 1 : Tail(s)[k] = s[k + 1]
        BY <1>2
      <3> QED BY <2>1, <3>1, <3>2, <3>3
    <2>3. v = [k \in 1..Len(s) - 1 |-> v[k]]
      BY <2>1
    <2>4. v = [k \in 1..Len(s) - 1 |-> Tail(s)[k].id]
      BY <2>2, <2>3
    <2>5. Ids(Tail(s)) = [k \in 1..Len(s) - 1 |-> Tail(s)[k].id]
      BY <1>2 DEF Ids
    <2> QED BY <2>4, <2>5 DEF v
  <1> QED BY <1>3, <1>4, <1>5, <1>6, <1>7 DEF IsSequence

LEMMA AppendToSequence ==
    ASSUME NEW s, IsSequence(s), NEW x
    PROVE  /\ IsSequence(Append(s, x))
           /\ ToSet(Append(s, x)) = ToSet(s) \cup {x}
           /\ Ids(Append(s, x)) = Append(Ids(s), x.id)
  <1> DEFINE S == ToSet(s) \cup {x}
             w == Append(s, x)
  <1>1. s \in Seq(S) /\ x \in S
    BY DEF IsSequence
  <1>a. \A k \in DOMAIN s : s[k] \in ToSet(s)
    BY DEF ToSet
  <1> HIDE DEF S
  <1>2. /\ w \in Seq(S) /\ Len(w) = Len(s) + 1 /\ Len(s) \in Nat
        /\ \A k \in 1..Len(s) : w[k] = s[k]
        /\ w[Len(s) + 1] = x
        /\ DOMAIN s = 1..Len(s) /\ DOMAIN w = 1..Len(s) + 1
    BY <1>1
  <1> HIDE DEF w
  <1>3. ToSet(w) = ToSet(s) \cup {x}
    <2>1. ToSet(w) \subseteq ToSet(s) \cup {x}
      <3> SUFFICES ASSUME NEW k \in 1..Len(s) + 1 PROVE w[k] \in ToSet(s) \cup {x}
        BY <1>2 DEF ToSet
      <3> QED BY <1>2, <1>a
    <2>2. ToSet(s) \subseteq ToSet(w)
      BY <1>2 DEF ToSet
    <2>3. x \in ToSet(w)
      BY <1>2 DEF ToSet
    <2> QED BY <2>1, <2>2, <2>3
  <1>4. IsSequence(w)
    BY <1>2, <1>3 DEF IsSequence, S
  <1>5. Ids(w) = Append(Ids(s), x.id)
    <2> DEFINE I == {y.id : y \in S}
    <2>1. Ids(s) \in [1..Len(s) -> I] /\ x.id \in I
      BY <1>1, <1>2 DEF Ids
    <2> HIDE DEF I
    <2>2. Ids(s) \in Seq(I) /\ Len(Ids(s)) = Len(s)
      BY <2>1, <1>2
    <2>3. /\ Append(Ids(s), x.id) = [k \in 1..Len(s) + 1 |-> Append(Ids(s), x.id)[k]]
          /\ \A k \in 1..Len(s) : Append(Ids(s), x.id)[k] = Ids(s)[k]
          /\ Append(Ids(s), x.id)[Len(s) + 1] = x.id
      BY <2>1, <2>2
    <2>4. \A k \in 1..Len(s) + 1 : Append(Ids(s), x.id)[k] = w[k].id
      BY <2>3, <1>2 DEF Ids
    <2> QED BY <2>3, <2>4, <1>2 DEF Ids
  <1> QED BY <1>3, <1>4, <1>5 DEF w

\* Calls made together, and what is sent for a call, are functions on 1..n.
LEMMA FunctionIsSequence ==
    ASSUME NEW n \in Nat, NEW s, s = [k \in 1..n |-> s[k]]
    PROVE  IsSequence(s) /\ Len(s) = n
  <1> DEFINE S == ToSet(s)
  <1>1. DOMAIN s = 1..n
    OBVIOUS
  <1>2. \A k \in 1..n : s[k] \in S
    BY <1>1 DEF ToSet
  <1> HIDE DEF S
  <1>3. s \in [1..n -> S]
    BY <1>2
  <1>4. s \in Seq(S) /\ Len(s) = n
    BY <1>3
  <1> QED BY <1>4 DEF IsSequence, S

LEMMA ConcatOfSequences ==
    ASSUME NEW s, NEW t, IsSequence(s), IsSequence(t)
    PROVE  /\ IsSequence(s \o t)
           /\ ToSet(s \o t) \subseteq ToSet(s) \cup ToSet(t)
           /\ Ids(s \o t) = Ids(s) \o Ids(t)
  <1> DEFINE S == ToSet(s) \cup ToSet(t)
             w == s \o t
  <1>1. s \in Seq(S) /\ t \in Seq(S)
    BY DEF IsSequence
  <1>2. /\ \A k \in DOMAIN s : s[k] \in ToSet(s)
        /\ \A k \in DOMAIN t : t[k] \in ToSet(t)
    BY DEF ToSet
  <1> HIDE DEF S
  <1>3. /\ w \in Seq(S) /\ Len(w) = Len(s) + Len(t)
        /\ DOMAIN w = 1..Len(s) + Len(t)
        /\ DOMAIN s = 1..Len(s) /\ Len(s) \in Nat
        /\ DOMAIN t = 1..Len(t) /\ Len(t) \in Nat
        /\ \A k \in 1..Len(s) + Len(t) :
              w[k] = IF k \in 1..Len(s) THEN s[k] ELSE t[k - Len(s)]
    BY <1>1
  <1> HIDE DEF w
  <1>4. \A k \in DOMAIN w : k \notin DOMAIN s => k - Len(s) \in DOMAIN t
    BY <1>3
  <1>5. ToSet(w) \subseteq ToSet(s) \cup ToSet(t)
    <2> SUFFICES ASSUME NEW k \in DOMAIN w PROVE w[k] \in ToSet(s) \cup ToSet(t)
      BY DEF ToSet
    <2> QED BY <1>2, <1>3, <1>4
  <1>6. IsSequence(w)
    <2>1. w = [k \in 1..Len(s) + Len(t) |-> w[k]]
      BY <1>3
    <2> QED BY <2>1, <1>3, FunctionIsSequence
  <1>7. Ids(w) = Ids(s) \o Ids(t)
    <2> DEFINE I == {x.id : x \in S}
               v == Ids(s) \o Ids(t)
    <2>1. \A k \in DOMAIN s : s[k].id \in I
      BY <1>1
    <2>2. \A k \in DOMAIN t : t[k].id \in I
      BY <1>1
    <2> HIDE DEF I
    <2>3. Ids(s) \in [1..Len(s) -> I] /\ Ids(t) \in [1..Len(t) -> I]
      BY <2>1, <2>2, <1>3 DEF Ids
    <2>4. /\ Ids(s) \in Seq(I) /\ Len(Ids(s)) = Len(s)
          /\ Ids(t) \in Seq(I) /\ Len(Ids(t)) = Len(t)
      <3>1. Ids(s) \in Seq(I) /\ Len(Ids(s)) = Len(s)
        BY <2>3, <1>3
      <3>2. Ids(t) \in Seq(I) /\ Len(Ids(t)) = Len(t)
        BY <2>3, <1>3
      <3> QED BY <3>1, <3>2
    <2>5. /\ v \in Seq(I) /\ DOMAIN v = 1..Len(s) + Len(t)
          /\ \A k \in 1..Len(s) + Len(t) :
                v[k] = IF k \in 1..Len(s) THEN Ids(s)[k] ELSE Ids(t)[k - Len(s)]
      BY <2>4
    <2> HIDE DEF v
    <2>6. \A k \in 1..Len(s) + Len(t) : v[k] = w[k].id
      <3> SUFFICES ASSUME NEW k \in 1..Len(s) + Len(t) PROVE v[k] = w[k].id
        OBVIOUS
      <3>1. CASE k \in 1..Len(s)
        BY <3>1, <2>5, <1>3 DEF Ids
      <3>2. CASE k \notin 1..Len(s)
        BY <3>2, <2>5, <1>3, <1>4 DEF Ids
      <3> QED BY <3>1, <3>2
    <2>7. v = [k \in 1..Len(s) + Len(t) |-> v[k]]
      BY <2>5
    <2>8. v = [k \in 1..Len(s) + Len(t) |-> w[k].id]
      BY <2>6, <2>7
    <2>9. Ids(w) = [k \in 1..Len(s) + Len(t) |-> w[k].id]
      BY <1>3 DEF Ids
    <2> QED BY <2>8, <2>9 DEF v
  <1> QED BY <1>5, <1>6, <1>7 DEF w

LEMMA TwoAppended ==
    ASSUME NEW x, NEW y
    PROVE  Append(Append(<<>>, x), y) = <<x, y>>
  <1> DEFINE w == Append(<<x>>, y)
  <1>1. <<x>> \in Seq({x, y}) /\ Len(<<x>>) = 1
    OBVIOUS
  <1>2. w \in Seq({x, y}) /\ Len(w) = 2 /\ w[1] = x /\ w[2] = y
    BY <1>1
  <1> HIDE DEF w
  <1>3. w = <<x, y>>
    BY <1>2
  <1>4. Append(<<>>, x) = <<x>>
    OBVIOUS
  <1> QED BY <1>3, <1>4 DEF w

LEMMA IdsOfSequence ==
    ASSUME NEW s, IsSequence(s), \A x \in ToSet(s) : x.id \in Num
    PROVE  Ids(s) \in Seq(Num) /\ Len(Ids(s)) = Len(s)
  <1> DEFINE S == ToSet(s)
  <1>1. s \in Seq(S) /\ \A k \in DOMAIN s : s[k] \in S
    BY DEF IsSequence, ToSet
  <1>2. \A k \in DOMAIN s : s[k].id \in Num
    BY <1>1
  <1> HIDE DEF S
  <1>3. DOMAIN s = 1..Len(s) /\ Len(s) \in Nat
    BY <1>1
  <1>4. Ids(s) \in [1..Len(s) -> Num]
    BY <1>2, <1>3 DEF Ids
  <1> QED BY <1>3, <1>4

----------------------------------------------------------------------------
\* The invariant, page by page: n calls were made, cb are their callbacks, a
\* the ids of the results taken, m what is under way, o what is to be sent,
\* and r the calls to be served.

\* The callback of the call i is for the method f.
Awaits(n, cb, i, f) == i \in 0..n - 1 /\ cb[i + 1] = f

Fits(n, cb, x) == IF x.kind = "result" THEN Awaits(n, cb, x.id, x.of) ELSE x.id = -1

IsCall(n, cb, x) == Awaits(n, cb, x.id, x.method)

PageInv(n, cb, a, m, o, r) ==
    /\ n \in Nat
    /\ DOMAIN cb = 1..n
    /\ a \in Seq(0..n - 1)
    /\ IsSequence(m) /\ \A x \in ToSet(m) : Fits(n, cb, x)
    /\ IsSequence(o) /\ \A x \in ToSet(o) : Fits(n, cb, x)
    /\ IsSequence(r) /\ \A x \in ToSet(r) : IsCall(n, cb, x)
    /\ Chain(a, Ids(m), Ids(o), Ids(r))

\* All of these are sequences of ids.
LEMMA PageIds ==
    ASSUME NEW n, NEW cb, NEW a, NEW m, NEW o, NEW r, PageInv(n, cb, a, m, o, r)
    PROVE  /\ a \in Seq(Num)
           /\ Ids(m) \in Seq(Num) /\ Ids(o) \in Seq(Num) /\ Ids(r) \in Seq(Num)
  <1>1. a \in Seq(Num)
    <2>1. 0..n - 1 \subseteq Num
      BY DEF PageInv, Num
    <2> QED BY <2>1 DEF PageInv
  <1>2. Ids(m) \in Seq(Num)
    BY IdsOfSequence DEF PageInv, Fits, Awaits, Num
  <1>3. Ids(o) \in Seq(Num)
    BY IdsOfSequence DEF PageInv, Fits, Awaits, Num
  <1>4. Ids(r) \in Seq(Num)
    BY IdsOfSequence DEF PageInv, IsCall, Awaits, Num
  <1> QED BY <1>1, <1>2, <1>3, <1>4

\* The page takes a message; a result leaves its id.
LEMMA PageTakes ==
    ASSUME NEW n, NEW cb, NEW a, NEW m, NEW o, NEW r, PageInv(n, cb, a, m, o, r),
           m # <<>>
    PROVE  /\ PageInv(n, cb, a, Tail(m), o, r)
           /\ Head(m).kind = "result" => PageInv(n, cb, Append(a, Head(m).id), Tail(m), o, r)
  <1>1. /\ IsSequence(Tail(m)) /\ ToSet(Tail(m)) \subseteq ToSet(m) /\ Head(m) \in ToSet(m)
        /\ Ids(Tail(m)) = Tail(Ids(m)) /\ Ids(m) # <<>> /\ Head(Ids(m)) = Head(m).id
    BY TailOfSequence DEF PageInv
  <1>2. PageInv(n, cb, a, Tail(m), o, r)
    <2>1. Chain(a, Ids(Tail(m)), Ids(o), Ids(r))
      BY <1>1, PageIds, ChainShrinks DEF PageInv
    <2> QED BY <1>1, <2>1 DEF PageInv
  <1>3. ASSUME Head(m).kind = "result"
        PROVE  PageInv(n, cb, Append(a, Head(m).id), Tail(m), o, r)
    <2>1. Chain(Append(a, Head(m).id), Ids(Tail(m)), Ids(o), Ids(r))
      BY <1>1, PageIds, ChainMoves DEF PageInv
    <2>2. Head(m).id \in 0..n - 1
      BY <1>1, <1>3 DEF PageInv, Fits, Awaits
    <2>3. Append(a, Head(m).id) \in Seq(0..n - 1)
      BY <2>2 DEF PageInv
    <2> QED BY <1>1, <2>1, <2>3 DEF PageInv
  <1> QED BY <1>2, <1>3

\* The first of the outbox is sent to the page, or to others only.
LEMMA PageIsSent ==
    ASSUME NEW n, NEW cb, NEW a, NEW m, NEW o, NEW r, PageInv(n, cb, a, m, o, r),
           o # <<>>
    PROVE  /\ PageInv(n, cb, a, Append(m, Head(o)), Tail(o), r)
           /\ PageInv(n, cb, a, m, Tail(o), r)
           /\ Fits(n, cb, Head(o))
  <1>1. /\ IsSequence(Tail(o)) /\ ToSet(Tail(o)) \subseteq ToSet(o) /\ Head(o) \in ToSet(o)
        /\ Ids(Tail(o)) = Tail(Ids(o)) /\ Ids(o) # <<>> /\ Head(Ids(o)) = Head(o).id
    BY TailOfSequence DEF PageInv
  <1>2. PageInv(n, cb, a, m, Tail(o), r)
    <2>1. Chain(a, Ids(m), Ids(Tail(o)), Ids(r))
      BY <1>1, PageIds, ChainShrinks DEF PageInv
    <2> QED BY <1>1, <2>1 DEF PageInv
  <1>3. PageInv(n, cb, a, Append(m, Head(o)), Tail(o), r)
    <2>1. /\ IsSequence(Append(m, Head(o)))
          /\ ToSet(Append(m, Head(o))) = ToSet(m) \cup {Head(o)}
          /\ Ids(Append(m, Head(o))) = Append(Ids(m), Head(o).id)
      BY AppendToSequence DEF PageInv
    <2>2. Chain(a, Ids(Append(m, Head(o))), Ids(Tail(o)), Ids(r))
      BY <1>1, <2>1, PageIds, ChainMoves DEF PageInv
    <2>3. \A x \in ToSet(Append(m, Head(o))) : Fits(n, cb, x)
      BY <1>1, <2>1 DEF PageInv
    <2> QED BY <1>1, <2>1, <2>2, <2>3 DEF PageInv
  <1> QED BY <1>1, <1>2, <1>3 DEF PageInv

\* A notification of another thread.
LEMMA PageIsNotified ==
    ASSUME NEW n, NEW cb, NEW a, NEW m, NEW o, NEW r, PageInv(n, cb, a, m, o, r),
           NEW x, x.kind # "result", x.id = -1
    PROVE  /\ PageInv(n, cb, a, Append(m, x), o, r)
           /\ PageInv(n, cb, a, m, Append(o, x), r)
  <1>1. PageInv(n, cb, a, Append(m, x), o, r)
    <2>1. /\ IsSequence(Append(m, x)) /\ ToSet(Append(m, x)) = ToSet(m) \cup {x}
          /\ Ids(Append(m, x)) = Append(Ids(m), -1)
      BY AppendToSequence DEF PageInv
    <2>2. Chain(a, Ids(Append(m, x)), Ids(o), Ids(r))
      BY <2>1, PageIds, ChainGrows DEF PageInv
    <2> QED BY <2>1, <2>2 DEF PageInv, Fits
  <1>2. PageInv(n, cb, a, m, Append(o, x), r)
    <2>1. /\ IsSequence(Append(o, x)) /\ ToSet(Append(o, x)) = ToSet(o) \cup {x}
          /\ Ids(Append(o, x)) = Append(Ids(o), -1)
      BY AppendToSequence DEF PageInv
    <2>2. Chain(a, Ids(m), Ids(Append(o, x)), Ids(r))
      BY <2>1, PageIds, ChainGrows DEF PageInv
    <2> QED BY <2>1, <2>2 DEF PageInv, Fits
  <1> QED BY <1>1, <1>2

\* The first call is served: with a result, or not.
LEMMA PageIsServed ==
    ASSUME NEW n, NEW cb, NEW a, NEW m, NEW o, NEW r, PageInv(n, cb, a, m, o, r),
           r # <<>>
    PROVE  /\ PageInv(n, cb, a, m, o, Tail(r))
           /\ \A value : PageInv(n, cb, a, m, Append(o, Result(Head(r), value)), Tail(r))
  <1>1. /\ IsSequence(Tail(r)) /\ ToSet(Tail(r)) \subseteq ToSet(r) /\ Head(r) \in ToSet(r)
        /\ Ids(Tail(r)) = Tail(Ids(r)) /\ Ids(r) # <<>> /\ Head(Ids(r)) = Head(r).id
    BY TailOfSequence DEF PageInv
  <1>2. PageInv(n, cb, a, m, o, Tail(r))
    <2>1. Chain(a, Ids(m), Ids(o), Ids(Tail(r)))
      BY <1>1, PageIds, ChainShrinks DEF PageInv
    <2> QED BY <1>1, <2>1 DEF PageInv
  <1>3. ASSUME NEW value
        PROVE  PageInv(n, cb, a, m, Append(o, Result(Head(r), value)), Tail(r))
    <2> DEFINE x == Result(Head(r), value)
    <2>1. x.kind = "result" /\ x.id = Head(r).id /\ x.of = Head(r).method
      BY DEF Result
    <2> HIDE DEF x
    <2>2. /\ IsSequence(Append(o, x)) /\ ToSet(Append(o, x)) = ToSet(o) \cup {x}
          /\ Ids(Append(o, x)) = Append(Ids(o), Head(r).id)
      BY <2>1, AppendToSequence DEF PageInv
    <2>3. Chain(a, Ids(m), Ids(Append(o, x)), Ids(Tail(r)))
      BY <1>1, <2>2, PageIds, ChainMoves DEF PageInv
    <2>4. Fits(n, cb, x)
      BY <1>1, <2>1 DEF PageInv, Fits, IsCall
    <2>5. PageInv(n, cb, a, m, Append(o, x), Tail(r))
      BY <1>1, <2>2, <2>3, <2>4 DEF PageInv
    <2> QED BY <2>5 DEF x
  <1> QED BY <1>2, <1>3

\* The page is closed, and what was under way is lost.
LEMMA PageIsClosed ==
    ASSUME NEW n, NEW cb, NEW a, NEW m, NEW o, NEW r, PageInv(n, cb, a, m, o, r)
    PROVE  PageInv(n, cb, a, <<>>, o, r)
  <1>1. IsSequence(<<>>) /\ ToSet(<<>>) = {} /\ Ids(<<>>) = <<>>
    <2>1. IsSequence(<<>>)
      BY DEF IsSequence
    <2>2. ToSet(<<>>) = {}
      BY DEF ToSet
    <2>3. Ids(<<>>) \in Seq(Num) /\ Len(Ids(<<>>)) = Len(<<>>)
      BY ONLY <2>1, <2>2, IdsOfSequence
    <2>4. Len(<<>>) = 0
      OBVIOUS
    <2>5. Ids(<<>>) = <<>>
      <3> DEFINE t == Ids(<<>>)
      <3>1. t \in Seq(Num) /\ Len(t) = 0
        BY <2>3, <2>4
      <3> HIDE DEF t
      <3>2. t = <<>>
        BY <3>1
      <3> QED BY <3>2 DEF t
    <2> QED BY <2>1, <2>2, <2>5
  <1>2. Chain(a, <<>>, Ids(o), Ids(r))
    BY PageIds, ChainShrinks DEF PageInv
  <1>3. Chain(a, Ids(<<>>), Ids(o), Ids(r))
    BY <1>1, <1>2
  <1> QED BY <1>1, <1>3 DEF PageInv

\* The page makes calls, with new ids.
LEMMA PageCalls ==
    ASSUME NEW n, NEW cb, NEW a, NEW m, NEW o, NEW r, PageInv(n, cb, a, m, o, r),
           NEW l \in Nat, NEW new, NEW more,
           IsSequence(new), DOMAIN new = 1..l,
           \A k \in 1..l : new[k].id = n + k - 1 /\ more[n + k] = new[k].method,
           DOMAIN more = 1..n + l,
           \A i \in 1..n : more[i] = cb[i]
    PROVE  PageInv(n + l, more, a, m, o, r \o new)
  <1>1. n \in Nat /\ n + l \in Nat /\ DOMAIN more = 1..n + l
    BY DEF PageInv
  <1>2. /\ \A x : Fits(n, cb, x) => Fits(n + l, more, x)
        /\ \A x : IsCall(n, cb, x) => IsCall(n + l, more, x)
    <2>1. ASSUME NEW i, NEW f, Awaits(n, cb, i, f)
          PROVE  Awaits(n + l, more, i, f)
      <3>1. i \in Nat /\ i \in 0..n - 1 /\ i \in 0..(n + l) - 1
        BY <2>1, <1>1 DEF Awaits
      <3>2. i + 1 \in 1..n
        BY <3>1, <1>1
      <3>3. more[i + 1] = cb[i + 1]
        BY <3>2
      <3> QED BY <2>1, <3>1, <3>3, Zenon DEF Awaits
    <2> QED BY <2>1, Zenon DEF Fits, IsCall
  <1>3. \A x \in ToSet(new) : IsCall(n + l, more, x)
    <2> SUFFICES ASSUME NEW k \in 1..l PROVE IsCall(n + l, more, new[k])
      BY DEF ToSet
    <2>1. new[k].id = n + k - 1 /\ more[n + k] = new[k].method
      OBVIOUS
    <2>2. Awaits(n + l, more, n + k - 1, new[k].method)
      <3>1. n + k - 1 \in 0..(n + l) - 1 /\ (n + k - 1) + 1 = n + k
        BY <1>1
      <3> QED BY <2>1, <3>1, Zenon DEF Awaits
    <2> QED BY <2>1, <2>2, Zenon DEF IsCall
  <1>4. Ids(new) \in Seq(Num) /\ DOMAIN Ids(new) = 1..l /\ \A k \in 1..l : Ids(new)[k] = n + k - 1
    <2>1. \A x \in ToSet(new) : x.id \in Num
      BY <1>1, <1>3 DEF IsCall, Awaits, Num
    <2> QED BY <2>1, IdsOfSequence DEF Ids
  <1> DEFINE ids == Ids(new)
  <1>5. ids \in Seq(Num) /\ DOMAIN ids = 1..l /\ \A k \in 1..l : ids[k] = n + k - 1
    BY <1>4
  <1> HIDE DEF ids
  <1>6. Ascending(ids) /\ \A s \in Seq(Num) : (\A k \in DOMAIN s : s[k] < n) => Before(s, ids)
    <2>1. Ascending(ids)
      <3> SUFFICES ASSUME NEW k \in 1..l, NEW j \in 1..k - 1 PROVE ids[j] < ids[k]
        BY <1>5 DEF Ascending
      <3>1. ids[k] = n + k - 1 /\ ids[j] = n + j - 1 /\ k \in Nat /\ j \in Nat /\ j < k
        BY <1>5
      <3> QED BY <3>1, <1>1
    <2>2. ASSUME NEW s \in Seq(Num), \A k \in DOMAIN s : s[k] < n
          PROVE  Before(s, ids)
      <3> SUFFICES ASSUME NEW k \in 1..l, NEW j \in DOMAIN s PROVE s[j] < ids[k]
        BY <1>5 DEF Before
      <3>1. ids[k] = n + k - 1 /\ k >= 1 /\ k \in Nat /\ s[j] < n
        BY <1>5, <2>2
      <3>2. s[j] \in Int
        BY DEF Num
      <3> QED BY <3>1, <3>2, <1>1
    <2> QED BY <2>1, <2>2
  <1>7. Before(a, ids) /\ Before(Ids(m), ids) /\ Before(Ids(o), ids) /\ Before(Ids(r), ids)
    <2>1. \A k \in DOMAIN a : a[k] < n
      BY <1>1 DEF PageInv
    <2>2. \A x : Fits(n, cb, x) \/ IsCall(n, cb, x) => x.id < n
      BY <1>1 DEF Fits, IsCall, Awaits
    <2>3. /\ \A k \in DOMAIN Ids(m) : Ids(m)[k] < n
          /\ \A k \in DOMAIN Ids(o) : Ids(o)[k] < n
          /\ \A k \in DOMAIN Ids(r) : Ids(r)[k] < n
      BY <2>2 DEF PageInv, Ids, ToSet
    <2> QED BY <2>1, <2>3, <1>6, PageIds
  <1>8. Chain(a, Ids(m), Ids(o), Ids(r) \o ids)
    BY <1>5, <1>6, <1>7, PageIds, ConcatOrder, ConcatAfter DEF Chain, PageInv
  <1>9. /\ IsSequence(r \o new) /\ ToSet(r \o new) \subseteq ToSet(r) \cup ToSet(new)
         /\ Ids(r \o new) = Ids(r) \o ids
    BY ConcatOfSequences DEF PageInv, ids
  <1>10. a \in Seq(0..(n + l) - 1)
    <2>1. 0..n - 1 \subseteq 0..(n + l) - 1
      BY <1>1
    <2> QED BY <2>1 DEF PageInv
  <1>11. /\ \A x \in ToSet(m) : Fits(n + l, more, x)
         /\ \A x \in ToSet(o) : Fits(n + l, more, x)
         /\ \A x \in ToSet(r \o new) : IsCall(n + l, more, x)
    BY <1>2, <1>3, <1>9, Zenon DEF PageInv
  <1>12. IsSequence(m) /\ IsSequence(o)
    BY DEF PageInv
  <1>13. Chain(a, Ids(m), Ids(o), Ids(r \o new))
    BY <1>8, <1>9, Zenon
  <1> QED BY <1>1, <1>9, <1>10, <1>11, <1>12, <1>13 DEF PageInv

----------------------------------------------------------------------------
\* The invariant.

PageOK(p) ==
    PageInv(nextId[p], callbacks[p], answered[p], messages[p], outbox[p], requests[p])

\* What the thread of the peers sends has no id.
HandlerSends(sends) ==
    IsSequence(sends) /\ \A x \in ToSet(sends) : x.kind # "result" /\ x.id = -1

Inv ==
    /\ DOMAIN nextId = Page /\ DOMAIN callbacks = Page /\ DOMAIN answered = Page
    /\ DOMAIN messages = Page /\ DOMAIN requests = Page /\ DOMAIN outbox = Thread
    /\ HandlerSends(outbox[Handler])
    /\ \A p \in Page : PageOK(p)

LEMMA ThreadsAreApart == \A p \in Page : p # Handler /\ p \in Thread
  BY RpcAssumption DEF Thread

LEMMA InvInit == Init => Inv
  <1> SUFFICES ASSUME RpcInit PROVE Inv
    BY DEF Init
  <1>1. IsSequence(<<>>) /\ ToSet(<<>>) = {}
    <2>1. IsSequence(<<>>)
      BY DEF IsSequence
    <2>2. ToSet(<<>>) = {}
      BY DEF ToSet
    <2> QED BY <2>1, <2>2
  <1>2. ASSUME NEW p \in Page PROVE PageOK(p)
    <2>1. /\ nextId[p] = 0 /\ callbacks[p] = <<>> /\ answered[p] = <<>>
          /\ messages[p] = <<>> /\ outbox[p] = <<>> /\ requests[p] = <<>>
      BY ThreadsAreApart DEF RpcInit
    <2>2. DOMAIN Ids(<<>>) = {} /\ DOMAIN <<>> = 1..0
      BY DEF Ids
    <2>3. Chain(<<>>, Ids(<<>>), Ids(<<>>), Ids(<<>>))
      BY <2>2 DEF Chain, Ascending, Before
    <2>4. PageInv(0, <<>>, <<>>, <<>>, <<>>, <<>>)
      BY <1>1, <2>2, <2>3 DEF PageInv
    <2> QED BY <2>1, <2>4 DEF PageOK
  <1>3. HandlerSends(outbox[Handler])
    BY <1>1 DEF RpcInit, HandlerSends, Thread
  <1> QED BY <1>2, <1>3 DEF RpcInit, Inv

----------------------------------------------------------------------------
\* The steps of JsonRpc.

\* A page makes l calls.
LEMMA CallKeepsInv ==
    ASSUME Inv, NEW p \in Page, NEW calls, NEW l \in Nat,
           DOMAIN calls = 1..l, Len(calls) = l,
           Call(p, calls), UNCHANGED <<messages, answered, outbox>>
    PROVE  Inv'
  <1> DEFINE n == nextId[p]
             new == [k \in DOMAIN calls |->
                       [id |-> IdOf(p, k), method |-> calls[k].method, arg |-> calls[k].arg]]
             more == [i \in 1..n + l |->
                       IF i \in DOMAIN callbacks[p] THEN callbacks[p][i] ELSE calls[i - n].method]
  <1>1. /\ PageInv(n, callbacks[p], answered[p], messages[p], outbox[p], requests[p])
        /\ n \in Nat /\ DOMAIN callbacks[p] = 1..n
    BY DEF Inv, PageOK, PageInv
  <1>2. /\ nextId' = [nextId EXCEPT ![p] = n + l]
        /\ callbacks' = [callbacks EXCEPT ![p] = more]
        /\ requests' = [requests EXCEPT ![p] = requests[p] \o new]
    BY DEF Call
  <1>3. /\ new = [k \in 1..l |-> new[k]]
        /\ \A k \in 1..l : new[k].id = n + k - 1 /\ new[k].method = calls[k].method
    BY DEF IdOf
  <1>4. /\ DOMAIN more = 1..n + l
        /\ \A i \in 1..n : more[i] = callbacks[p][i]
    BY <1>1
  <1>5. \A k \in 1..l : more[n + k] = calls[k].method
    <2> SUFFICES ASSUME NEW k \in 1..l PROVE more[n + k] = calls[k].method
      OBVIOUS
    <2>1. n + k \in 1..n + l /\ n + k \notin 1..n /\ (n + k) - n = k
      BY <1>1
    <2> QED BY <2>1, <1>1
  <1> HIDE DEF n, new, more
  <1>6. PageInv(n + l, more, answered[p], messages[p], outbox[p], requests[p] \o new)
    <2>1. \A k \in 1..l : new[k].id = n + k - 1 /\ more[n + k] = new[k].method
      BY <1>3, <1>5, Zenon
    <2>2. IsSequence(new) /\ DOMAIN new = 1..l
      BY <1>3, FunctionIsSequence
    <2> QED BY <1>1, <1>4, <2>1, <2>2, PageCalls, ZenonT(30)
  <1>7. PageOK(p)'
    BY <1>2, <1>6 DEF PageOK, Inv
  <1>8. ASSUME NEW q \in Page, q # p PROVE PageOK(q)'
    BY <1>2, <1>8 DEF PageOK, Inv
  <1> QED BY <1>2, <1>7, <1>8 DEF Inv

\* The outcome of the first call of p, if it is one for the page.
IsReply(p, sends) ==
    PageInv(nextId[p], callbacks[p], answered[p], messages[p], sends, Tail(requests[p]))

LEMMA ServedKeepsInv ==
    ASSUME Inv, NEW p \in Page, NEW method, NEW sends,
           Served(p, method, sends), UNCHANGED <<client, messages>>,
           IsReply(p, sends)
    PROVE  Inv'
  <1>1. /\ requests' = [requests EXCEPT ![p] = Tail(requests[p])]
        /\ outbox' = [outbox EXCEPT ![p] = sends]
        /\ UNCHANGED <<nextId, callbacks, answered, messages>>
    BY DEF Served, client
  <1>2. PageOK(p)'
    BY <1>1, ThreadsAreApart DEF PageOK, Inv, IsReply
  <1>3. ASSUME NEW q \in Page, q # p PROVE PageOK(q)'
    BY <1>1, <1>3, ThreadsAreApart DEF PageOK, Inv
  <1>4. outbox'[Handler] = outbox[Handler]
    BY <1>1, ThreadsAreApart DEF Inv
  <1> QED BY <1>1, <1>2, <1>3, <1>4 DEF Inv

\* A result, a notification and a result, or an error are such outcomes.
LEMMA Replies ==
    ASSUME Inv, NEW p \in Page, Free(p), requests[p] # <<>>
    PROVE  /\ \A v : IsReply(p, <<Result(Request(p), v)>>)
           /\ \A s, u, v : IsReply(p, <<Note(s, u), Result(Request(p), v)>>)
           /\ IsReply(p, <<Failure(Request(p))>>)
  <1> DEFINE n == nextId[p]
             cb == callbacks[p]
             a == answered[p]
             m == messages[p]
             r == requests[p]
  <1>1. PageInv(n, cb, a, m, <<>>, r) /\ r # <<>>
    BY DEF Inv, PageOK, Free
  <1>2. IsReply(p, <<>>)
    BY <1>1, PageIsServed DEF IsReply
  <1>3. ASSUME NEW v PROVE IsReply(p, <<Result(Request(p), v)>>)
    <2>1. PageInv(n, cb, a, m, Append(<<>>, Result(Head(r), v)), Tail(r))
      BY <1>1, PageIsServed
    <2> QED BY <2>1 DEF IsReply, Request
  <1>4. ASSUME NEW s, NEW u, NEW v PROVE IsReply(p, <<Note(s, u), Result(Request(p), v)>>)
    <2>1. PageInv(n, cb, a, m, Append(<<>>, Note(s, u)), r)
      <3>1. Note(s, u).kind # "result" /\ Note(s, u).id = -1
        BY DEF Note
      <3> QED BY <1>1, <3>1, PageIsNotified
    <2>2. PageInv(n, cb, a, m, Append(Append(<<>>, Note(s, u)), Result(Head(r), v)), Tail(r))
      BY <1>1, <2>1, PageIsServed
    <2>3. /\ Append(Append(<<>>, Note(s, u)), Result(Head(r), v))
                = <<Note(s, u), Result(Head(r), v)>>
          /\ Head(r) = Request(p)
      BY TwoAppended DEF Request
    <2>4. PageInv(n, cb, a, m, <<Note(s, u), Result(Request(p), v)>>, Tail(r))
      BY <2>2, <2>3
    <2> QED BY <2>4 DEF IsReply
  <1>5. IsReply(p, <<Failure(Request(p))>>)
    <2>1. Failure(Request(p)).kind # "result" /\ Failure(Request(p)).id = -1
      BY DEF Failure
    <2>2. PageInv(n, cb, a, m, Append(<<>>, Failure(Request(p))), Tail(r))
      BY <1>2, <2>1, PageIsNotified DEF IsReply
    <2> QED BY <2>2 DEF IsReply
  <1> QED BY <1>3, <1>4, <1>5

\* A thread sends the first of its outbox.
LEMMA SendKeepsInv ==
    ASSUME Inv, NEW t \in Thread, Send(t), UNCHANGED <<client, requests>>
    PROVE  Inv'
  <1> DEFINE x == Head(outbox[t])
             gets(p) == p \in Receivers(t, x) /\ open[p] = "open"
  <1>1. /\ outbox[t] # <<>>
        /\ messages' = [p \in Page |-> IF gets(p) THEN Append(messages[p], x) ELSE messages[p]]
        /\ outbox' = [outbox EXCEPT ![t] = Tail(outbox[t])]
        /\ UNCHANGED <<nextId, callbacks, answered, requests>>
    BY DEF Send, client
  <1>2. ASSUME t = Handler
        PROVE  x.kind # "result" /\ x.id = -1 /\ HandlerSends(Tail(outbox[t]))
    BY <1>1, <1>2, TailOfSequence DEF Inv, HandlerSends
  <1>3. ASSUME NEW p \in Page, p # t, p \in Receivers(t, x)
        PROVE  x.kind # "result" /\ x.id = -1
    <2>1. CASE t = Handler
      BY <2>1, <1>2
    <2>2. CASE t \in Page
      <3>1. x.kind = "note"
        BY <1>3 DEF Receivers
      <3>2. Fits(nextId[t], callbacks[t], x)
        BY <2>2, <1>1, PageIsSent DEF Inv, PageOK
      <3> QED BY <3>1, <3>2 DEF Fits
    <2> QED BY <2>1, <2>2 DEF Thread
  <1>4. ASSUME NEW p \in Page PROVE PageOK(p)'
    <2>1. PageInv(nextId[p], callbacks[p], answered[p], messages[p], outbox[p], requests[p])
      BY DEF Inv, PageOK
    <2>2. CASE p = t
      <3>1. outbox'[p] = Tail(outbox[p])
        BY <2>2, <1>1 DEF Inv
      <3>2. messages'[p] \in {Append(messages[p], x), messages[p]}
        BY <1>1
      <3>3. /\ PageInv(nextId[p], callbacks[p], answered[p], Append(messages[p], x),
                       Tail(outbox[p]), requests[p])
            /\ PageInv(nextId[p], callbacks[p], answered[p], messages[p],
                       Tail(outbox[p]), requests[p])
        BY <2>1, <2>2, <1>1, PageIsSent
      <3> HIDE DEF x
      <3> QED BY <3>1, <3>2, <3>3, <1>1 DEF PageOK
    <2>3. CASE p # t
      <3>1. outbox'[p] = outbox[p]
        BY <2>3, <1>1, ThreadsAreApart DEF Inv
      <3>2. CASE gets(p)
        <4>1. x.kind # "result" /\ x.id = -1
          BY <2>3, <3>2, <1>3
        <4>2. messages'[p] = Append(messages[p], x)
          BY <3>2, <1>1
        <4> HIDE DEF x
        <4> QED BY <2>1, <3>1, <4>1, <4>2, <1>1, PageIsNotified DEF PageOK
      <3>3. CASE ~gets(p)
        <4>1. messages'[p] = messages[p]
          BY <3>3, <1>1
        <4> QED BY <2>1, <3>1, <4>1, <1>1 DEF PageOK
      <3> QED BY <3>2, <3>3
    <2> QED BY <2>2, <2>3
  <1>5. HandlerSends(outbox'[Handler])
    <2>1. CASE t = Handler
      BY <2>1, <1>1, <1>2 DEF Inv
    <2>2. CASE t # Handler
      BY <2>2, <1>1 DEF Inv
    <2> QED BY <2>1, <2>2
  <1> QED BY <1>1, <1>4, <1>5 DEF Inv

\* A page takes a message.
LEMMA TakeKeepsInv ==
    ASSUME Inv, NEW p \in Page, NEW kind, Take(p, kind),
           UNCHANGED <<nextId, callbacks, requests, outbox>>
    PROVE  Inv'
  <1>1. /\ messages[p] # <<>> /\ Head(messages[p]).kind = kind
        /\ messages' = [messages EXCEPT ![p] = Tail(messages[p])]
        /\ answered' = [answered EXCEPT ![p] =
              IF kind = "result" THEN Append(answered[p], Head(messages[p]).id) ELSE answered[p]]
    BY DEF Take
  <1>2. PageOK(p)'
    <2>1. PageInv(nextId[p], callbacks[p], answered[p], messages[p], outbox[p], requests[p])
      BY DEF Inv, PageOK
    <2>2. PageInv(nextId[p], callbacks[p], answered'[p], Tail(messages[p]), outbox[p], requests[p])
      BY <1>1, <2>1, PageTakes DEF Inv
    <2>3. messages'[p] = Tail(messages[p])
      BY <1>1 DEF Inv
    <2> QED BY <2>2, <2>3 DEF PageOK
  <1>3. ASSUME NEW q \in Page, q # p PROVE PageOK(q)'
    BY <1>1, <1>3 DEF PageOK, Inv
  <1> QED BY <1>1, <1>2, <1>3 DEF Inv

\* What happens in the process alone.
LEMMA NothingSentKeepsInv ==
    ASSUME Inv, UNCHANGED <<nextId, callbacks, answered, messages, requests, outbox>>
    PROVE  Inv'
  BY DEF Inv, PageOK

\* The thread of the peers has something else to send.
LEMMA HandlerKeepsInv ==
    ASSUME Inv, NEW sends, HandlerSends(sends),
           outbox' = [outbox EXCEPT ![Handler] = sends],
           UNCHANGED <<nextId, callbacks, answered, messages, requests>>
    PROVE  Inv'
  <1>1. ASSUME NEW p \in Page PROVE PageOK(p)'
    <2>1. outbox'[p] = outbox[p]
      BY ThreadsAreApart DEF Inv
    <2> QED BY <2>1 DEF PageOK, Inv
  <1>2. outbox'[Handler] = sends
    BY DEF Inv, Thread
  <1> QED BY <1>1, <1>2 DEF Inv

----------------------------------------------------------------------------
\* The actions of ChatPage.

\* Calls come from a page that opens, or from a user, one at a time.
LEMMA DeedKeepsInv ==
    ASSUME Inv, NEW p \in Page, NEW method, NEW arg, Deed(p, method, arg)
    PROVE  Inv'
  <1>1. DOMAIN <<Ask(method, arg)>> = 1..1 /\ Len(<<Ask(method, arg)>>) = 1
    OBVIOUS
  <1>2. Call(p, <<Ask(method, arg)>>) /\ UNCHANGED <<messages, answered, outbox>>
    BY DEF Deed, server
  <1> QED BY <1>1, <1>2, CallKeepsInv

LEMMA PageActsKeepInv ==
    ASSUME Inv, NEW p \in Page,
           \/ Connect(p) \/ ClosePage(p)
           \/ \E x \in OwnNames : ChooseNickname(p, x)
           \/ \E k \in DOMAIN drawn[p] : StartConversation(p, k)
           \/ \E k \in DOMAIN tabs[p] : WriteText(p, k) \/ CloseTab(p, k)
    PROVE  Inv'
  <1>1. CASE Connect(p)
    <2>1. DOMAIN Greeting = 1..7 /\ Len(Greeting) = 7
      BY DEF Greeting
    <2>2. Call(p, Greeting) /\ UNCHANGED <<messages, answered, outbox>>
      BY <1>1 DEF Connect, server
    <2> QED BY <2>1, <2>2, CallKeepsInv
  <1>2. CASE ClosePage(p)
    <2>1. /\ messages' = [messages EXCEPT ![p] = <<>>]
          /\ UNCHANGED <<nextId, callbacks, answered, requests, outbox>>
      BY <1>2 DEF ClosePage, server
    <2>2. PageOK(p)'
      BY <2>1, PageIsClosed DEF Inv, PageOK
    <2>3. ASSUME NEW q \in Page, q # p PROVE PageOK(q)'
      BY <2>1, <2>3 DEF Inv, PageOK
    <2> QED BY <2>1, <2>2, <2>3 DEF Inv
  <1>3. CASE \E x \in OwnNames : ChooseNickname(p, x)
    BY <1>3, DeedKeepsInv DEF ChooseNickname
  <1>4. CASE \E k \in DOMAIN drawn[p] : StartConversation(p, k)
    BY <1>4, DeedKeepsInv DEF StartConversation
  <1>5. CASE \E k \in DOMAIN tabs[p] : WriteText(p, k)
    BY <1>5, DeedKeepsInv DEF WriteText
  <1>6. CASE \E k \in DOMAIN tabs[p] : CloseTab(p, k)
    BY <1>6, DeedKeepsInv DEF CloseTab
  <1> QED BY <1>1, <1>2, <1>3, <1>4, <1>5, <1>6

LEMMA ServingKeepsInv ==
    ASSUME Inv, NEW p \in Page,
           \/ ServeSubscribe(p) \/ ServeUpdateNickname(p) \/ ServeSendMessage(p)
           \/ ServeGetConversations(p) \/ ServeGetUsers(p)
           \/ \E c \in ConvId : ServeAddConversation(p, c)
           \/ ServeLeaveConversation(p) \/ ServeFailing(p)
    PROVE  Inv'
  <1>1. ASSUME NEW method, NEW v, Served(p, method, <<Result(Request(p), v)>>),
               UNCHANGED <<client, messages>>
        PROVE  Inv'
    BY <1>1, Replies, ServedKeepsInv DEF Served
  <1>2. ASSUME NEW method, NEW s, NEW u, NEW v,
               Served(p, method, <<Note(s, u), Result(Request(p), v)>>),
               UNCHANGED <<client, messages>>
        PROVE  Inv'
    BY <1>2, Replies, ServedKeepsInv DEF Served
  <1>3. ASSUME NEW method, Served(p, method, <<Failure(Request(p))>>),
               UNCHANGED <<client, messages>>
        PROVE  Inv'
    BY <1>3, Replies, ServedKeepsInv DEF Served
  <1>4. CASE ServeSubscribe(p)
    BY <1>1, <1>4 DEF ServeSubscribe, Subscribe, Unserved
  <1>5. CASE ServeUpdateNickname(p)
    BY <1>1, <1>5 DEF ServeUpdateNickname, Unserved
  <1>6. CASE ServeSendMessage(p)
    BY <1>1, <1>6 DEF ServeSendMessage, Unserved
  <1>7. CASE ServeGetConversations(p)
    BY <1>1, <1>7 DEF ServeGetConversations, Unserved
  <1>8. CASE ServeGetUsers(p)
    BY <1>1, <1>8 DEF ServeGetUsers, Unserved
  <1>9. CASE \E c \in ConvId : ServeAddConversation(p, c)
    BY <1>2, <1>9 DEF ServeAddConversation, Unserved
  <1>10. CASE ServeLeaveConversation(p)
    BY <1>2, <1>10 DEF ServeLeaveConversation, Unserved
  <1>11. CASE ServeFailing(p)
    BY <1>3, <1>11 DEF ServeFailing, Unserved
  <1> QED BY <1>4, <1>5, <1>6, <1>7, <1>8, <1>9, <1>10, <1>11

\* One or two notifications.
LEMMA NewsKeepsInv ==
    ASSUME Inv, NEW sends, News(sends), UNCHANGED <<client, wire>>,
           \/ \E x : sends = <<x>> /\ x.kind # "result" /\ x.id = -1
           \/ \E x, y : /\ sends = <<x, y>> /\ x.kind # "result" /\ x.id = -1
                        /\ y.kind # "result" /\ y.id = -1
    PROVE  Inv'
  <1>1. HandlerSends(sends)
    <2>1. ASSUME NEW x, sends = <<x>>, x.kind # "result", x.id = -1
          PROVE  HandlerSends(sends)
      <3>1. ToSet(<<x>>) = {x} /\ <<x>> \in Seq({x})
        BY DEF ToSet
      <3> QED BY <2>1, <3>1, Zenon DEF HandlerSends, IsSequence
    <2>2. ASSUME NEW x, NEW y, sends = <<x, y>>, x.kind # "result", x.id = -1,
                 y.kind # "result", y.id = -1
          PROVE  HandlerSends(sends)
      <3>1. ToSet(<<x, y>>) = {x, y} /\ <<x, y>> \in Seq({x, y})
        BY DEF ToSet
      <3> QED BY <2>2, <3>1, Zenon DEF HandlerSends, IsSequence
    <2> QED BY <2>1, <2>2
  <1> QED BY <1>1, HandlerKeepsInv DEF News, client, wire

LEMMA HandlingKeepsInv ==
    ASSUME Inv, NEW a \in Peer,
           \/ \E x \in AnyNick : HandleNickChange(a, x)
           \/ \E c \in Talk : HandleText(a, c)
           \/ HandleLeave(a)
           \/ \E c \in ConvId : HandleInvite(a, c) \/ HandleLeaveConversation(a, c)
    PROVE  Inv'
  <1>1. \A s, u : Note(s, u).kind # "result" /\ Note(s, u).id = -1
    BY DEF Note
  <1>2. \A x : DropTalksWith(x).kind # "result" /\ DropTalksWith(x).id = -1
    BY DEF DropTalksWith
  <1>3. ASSUME NEW s, NEW u, News(<<Note(s, u)>>), UNCHANGED <<client, wire>>
        PROVE  Inv'
    BY <1>1, <1>3, NewsKeepsInv
  <1>4. ASSUME NEW s, NEW u, NEW t, NEW v, News(<<Note(s, u), Note(t, v)>>),
               UNCHANGED <<client, wire>>
        PROVE  Inv'
    BY <1>1, <1>4, NewsKeepsInv
  <1>5. CASE \E x \in AnyNick : HandleNickChange(a, x)
    BY <1>3, <1>5 DEF HandleNickChange, Unmoved
  <1>6. CASE \E c \in Talk : HandleText(a, c)
    BY <1>3, <1>4, <1>6 DEF HandleText, Unmoved
  <1>7. CASE HandleLeave(a)
    BY <1>1, <1>2, <1>7, NewsKeepsInv DEF HandleLeave, Unmoved
  <1>8. CASE \E c \in ConvId : HandleInvite(a, c)
    BY <1>3, <1>8 DEF HandleInvite, Unmoved
  <1>9. CASE \E c \in ConvId : HandleLeaveConversation(a, c)
    BY <1>3, <1>9 DEF HandleLeaveConversation, Unmoved
  <1> QED BY <1>5, <1>6, <1>7, <1>8, <1>9

LEMMA DroppingKeepsInv ==
    ASSUME Inv, DropTalks
    PROVE  Inv'
  <1>1. /\ outbox[Handler] # <<>>
        /\ outbox' = [outbox EXCEPT ![Handler] = Tail(outbox[Handler])]
        /\ UNCHANGED <<nextId, callbacks, answered, messages, requests>>
    BY DEF DropTalks, client, wire
  <1>2. HandlerSends(Tail(outbox[Handler]))
    BY <1>1, TailOfSequence DEF Inv, HandlerSends
  <1> QED BY <1>1, <1>2, HandlerKeepsInv

LEMMA TakingKeepsInv ==
    ASSUME Inv, NEW p \in Page,
           \/ TakeSilently(p) \/ TakeNickname(p) \/ TakeOwnText(p) \/ TakeConversations(p)
           \/ TakeUsers(p) \/ TakeError(p) \/ TakeNewConversation(p) \/ TakeNewMessage(p)
           \/ TakeLeaveConversation(p) \/ TakeNewUser(p) \/ TakeRemoveUser(p)
    PROVE  Inv'
  <1>1. ASSUME NEW kind, Take(p, kind), UNCHANGED Untaken
        PROVE  Inv'
    BY <1>1, TakeKeepsInv DEF Untaken, server
  <1>2. ASSUME NEW method, TakeResult(p, method) PROVE Inv'
    BY <1>1, <1>2 DEF TakeResult
  <1>3. ASSUME NEW s, TakeNote(p, s) PROVE Inv'
    BY <1>1, <1>3 DEF TakeNote
  <1>4. CASE TakeSilently(p) \/ TakeNickname(p) \/ TakeOwnText(p) \/ TakeConversations(p) \/ TakeUsers(p)
    BY <1>2, <1>4 DEF TakeSilently, TakeNickname, TakeOwnText, TakeConversations, TakeUsers
  <1>5. CASE TakeError(p)
    BY <1>1, <1>5 DEF TakeError
  <1>6. CASE \/ TakeNewConversation(p) \/ TakeNewMessage(p) \/ TakeLeaveConversation(p)
             \/ TakeNewUser(p) \/ TakeRemoveUser(p)
    BY <1>3, <1>6 DEF TakeNewConversation, TakeNewMessage, TakeLeaveConversation,
                      TakeNewUser, TakeRemoveUser
  <1> QED BY <1>4, <1>5, <1>6

LEMMA InvStep == Inv /\ [Next]_vars => Inv'
  <1> SUFFICES ASSUME Inv, [Next]_vars PROVE Inv'
    OBVIOUS
  <1>1. ASSUME NEW t \in Thread, SendNext(t) PROVE Inv'
    BY <1>1, SendKeepsInv DEF SendNext
  <1>2. CASE UNCHANGED vars
    BY <1>2, NothingSentKeepsInv DEF vars, rpc, client, wire, server
  <1> QED BY <1>1, <1>2, PageActsKeepInv, ServingKeepsInv, HandlingKeepsInv, DroppingKeepsInv,
             TakingKeepsInv DEF Next

\* On every page, whatever other threads send to it in between, a call is
\* answered once at most, in the order of calling, and each result finds the
\* callback of its own call.
THEOREM AnswersStayMatched == Spec => []AnswersMatchCalls
  <1>1. Inv => AnswersMatchCalls
    <2> SUFFICES ASSUME Inv, NEW p \in Page
                 PROVE  /\ Ascending(Underway(p))
                        /\ \A m \in ToSet(messages[p]) \cup ToSet(outbox[p]) :
                              m.kind = "result" => FindsCaller(p, m)
      BY DEF AnswersMatchCalls
    <2>1. PageInv(nextId[p], callbacks[p], answered[p], messages[p], outbox[p], requests[p])
      BY DEF Inv, PageOK
    <2>2. Ascending(Underway(p))
      <3>1. Chain(answered[p], Ids(messages[p]), Ids(outbox[p]), Ids(requests[p]))
        BY <2>1 DEF PageInv
      <3> QED BY <2>1, <3>1, PageIds, ChainIsOrder DEF Underway
    <2>3. ASSUME NEW m \in ToSet(messages[p]) \cup ToSet(outbox[p]), m.kind = "result"
          PROVE  FindsCaller(p, m)
      <3>1. Awaits(nextId[p], callbacks[p], m.id, m.of)
        BY <2>1, <2>3 DEF PageInv, Fits
      <3>2. \A i \in 0..nextId[p] - 1 : i + 1 \in DOMAIN callbacks[p]
        BY <2>1 DEF PageInv
      <3> QED BY <3>1, <3>2, Zenon DEF Awaits, FindsCaller
    <2> QED BY <2>2, <2>3
  <1> QED BY <1>1, InvInit, InvStep, PTL DEF Spec

----------------------------------------------------------------------------
(* Finite sets of numbers in ascending order.                              *)

UpTo(S, k) == {j \in S : j <= k}

LEMMA Ranks ==
    ASSUME NEW S, S \subseteq Int, IsFiniteSet(S)
    PROVE  /\ Cardinality(S) \in Nat
           /\ \A i \in 1..Cardinality(S) : \E k \in S : Cardinality(UpTo(S, k)) = i
           /\ \A k \in S : Cardinality(UpTo(S, k)) \in 1..Cardinality(S)
           /\ \A k, l \in S : k < l => Cardinality(UpTo(S, k)) < Cardinality(UpTo(S, l))
<1> DEFINE n == Cardinality(S)
           rank == [k \in S |-> Cardinality(UpTo(S, k))]
<1>1. n \in Nat
  BY FS_CardinalityType
<1>2. ASSUME NEW k \in S
      PROVE  /\ UpTo(S, k) \subseteq S /\ k \in UpTo(S, k) /\ IsFiniteSet(UpTo(S, k))
             /\ Cardinality(UpTo(S, k)) \in 1..n
  <2>1. UpTo(S, k) \subseteq S /\ k \in UpTo(S, k)
    BY DEF UpTo
  <2>2. IsFiniteSet(UpTo(S, k)) /\ Cardinality(UpTo(S, k)) <= n
    BY <2>1, FS_Subset
  <2>3. Cardinality(UpTo(S, k)) \in Nat
    BY <2>2, FS_CardinalityType
  <2>4. Cardinality(UpTo(S, k)) # 0
    BY <2>1, <2>2, FS_EmptySet
  <2> QED  BY <2>1, <2>2, <2>3, <2>4, <1>1
<1>3. ASSUME NEW k \in S, NEW l \in S, k < l
      PROVE  Cardinality(UpTo(S, k)) < Cardinality(UpTo(S, l))
  <2>1. UpTo(S, k) \subseteq UpTo(S, l) /\ l \notin UpTo(S, k) /\ l \in UpTo(S, l)
    <3>1. k \in Int /\ l \in Int /\ \A j \in S : j \in Int
      OBVIOUS
    <3>2. ASSUME NEW j \in UpTo(S, k) PROVE j \in UpTo(S, l)
      <4>1. j \in S /\ j \in Int /\ j <= k
        BY <3>1 DEF UpTo
      <4> QED  BY <4>1, <3>1, <1>3 DEF UpTo
    <3>3. l \notin UpTo(S, k)
      <4>1. ~(l <= k)
        BY <3>1, <1>3
      <4> QED  BY <4>1 DEF UpTo
    <3> QED  BY <3>2, <3>3, <1>2
  <2>2. /\ Cardinality(UpTo(S, k)) <= Cardinality(UpTo(S, l))
        /\ Cardinality(UpTo(S, k)) # Cardinality(UpTo(S, l))
    BY <1>2, <2>1, FS_Subset
  <2>3. Cardinality(UpTo(S, k)) \in Int /\ Cardinality(UpTo(S, l)) \in Int
    BY <1>2
  <2> QED  BY <2>2, <2>3
<1>4. rank \in Injection(S, 1..n)
  <2>1. rank \in [S -> 1..n]
    BY <1>2
  <2>2. ASSUME NEW k \in S, NEW l \in S, rank[k] = rank[l] PROVE k = l
    <3>1. k \in Int /\ l \in Int /\ rank[k] \in Int /\ rank[l] \in Int
      BY <2>1
    <3>2. ~(k < l) /\ ~(l < k)
      BY <2>2, <3>1, <1>3
    <3> QED  BY <3>1, <3>2
  <2> QED  BY <2>1, <2>2 DEF Injection, IsInjective
<1>5. rank \in Surjection(S, 1..n)
  <2>1. IsFiniteSet(1..n) /\ Cardinality(1..n) = n
    BY <1>1, FS_Interval
  <2> HIDE DEF rank
  <2> QED  BY <2>1, <1>4, FS_Injection
<1>6. \A i \in 1..n : \E k \in S : Cardinality(UpTo(S, k)) = i
  BY <1>5 DEF Surjection
<1> QED  BY <1>1, <1>2, <1>3, <1>6

LEMMA SortedElements ==
    ASSUME NEW S, S \subseteq Int, IsFiniteSet(S)
    PROVE  /\ Cardinality(S) \in Nat
           /\ DOMAIN Sorted(S) = 1..Cardinality(S)
           /\ \A i \in 1..Cardinality(S) : Sorted(S)[i] \in S
           /\ \A k \in S : \E i \in 1..Cardinality(S) : Sorted(S)[i] = k
<1>1. ASSUME NEW i \in 1..Cardinality(S)
      PROVE  Sorted(S)[i] \in S /\ Cardinality(UpTo(S, Sorted(S)[i])) = i
  <2>1. \E k \in S : Cardinality({j \in S : j <= k}) = i
    BY Ranks DEF UpTo
  <2>2. Sorted(S)[i] = CHOOSE k \in S : Cardinality({j \in S : j <= k}) = i
    BY DEF Sorted
  <2> QED  BY <2>1, <2>2 DEF UpTo
<1>2. ASSUME NEW k \in S
      PROVE  \E i \in 1..Cardinality(S) : Sorted(S)[i] = k
  <2> DEFINE i == Cardinality(UpTo(S, k))
             l == Sorted(S)[i]
  <2>1. i \in 1..Cardinality(S)
    BY Ranks
  <2>2. l \in S /\ Cardinality(UpTo(S, l)) = i
    BY <2>1, <1>1
  <2>3. ~(k < l) /\ ~(l < k)
    <3>1. i \in Int
      BY <2>1
    <3> HIDE DEF l
    <3>2. \A x, y \in S : x < y => Cardinality(UpTo(S, x)) < Cardinality(UpTo(S, y))
      BY Ranks
    <3>3. Cardinality(UpTo(S, k)) = Cardinality(UpTo(S, l)) /\ Cardinality(UpTo(S, l)) \in Int
      BY <2>2, <3>1
    <3> HIDE DEF i
    <3>4. ~(k < l)
      BY <2>2, <3>2, <3>3
    <3>5. ~(l < k)
      BY <2>2, <3>2, <3>3
    <3> QED  BY <3>4, <3>5
  <2>4. l = k
    <3>1. k \in Int /\ l \in Int
      BY <2>2
    <3> QED  BY <2>3, <3>1
  <2> QED  BY <2>1, <2>4
<1>3. Cardinality(S) \in Nat
  BY FS_CardinalityType
<1>4. DOMAIN Sorted(S) = 1..Cardinality(S)
  BY DEF Sorted
<1> QED  BY <1>1, <1>2, <1>3, <1>4

LEMMA Extremes ==
    ASSUME NEW S, S \subseteq Int, IsFiniteSet(S), S # {}
    PROVE  Max(S) \in S /\ Min(S) \in S /\ \A k \in S : Min(S) <= k /\ k <= Max(S)
<1> DEFINE n == Cardinality(S)
<1>1. n \in Nat /\ n # 0
  BY FS_CardinalityType, FS_EmptySet
<1>2. PICK k \in S : Cardinality(UpTo(S, k)) = n
  <2>1. n \in 1..n
    BY <1>1
  <2> HIDE DEF n
  <2>2. \A i \in 1..n : \E k \in S : Cardinality(UpTo(S, k)) = i
    BY Ranks DEF n
  <2> QED  BY <2>1, <2>2
<1>3. UpTo(S, k) = S
  BY <1>2, FS_Subset DEF UpTo
<1>4. PICK l \in S : Cardinality(UpTo(S, l)) = 1
  <2>1. 1 \in 1..n
    BY <1>1
  <2> QED  BY <2>1, Ranks
<1>5. \A j \in S : ~(j < l)
  <2> SUFFICES ASSUME NEW j \in S, j < l PROVE FALSE
    OBVIOUS
  <2>1. Cardinality(UpTo(S, j)) < 1 /\ Cardinality(UpTo(S, j)) \in 1..n
    BY <1>4, Ranks
  <2> QED  BY <2>1
<1>6. \E x \in S : \A y \in S : x >= y
  BY <1>3 DEF UpTo
<1>7. \E x \in S : \A y \in S : x <= y
  BY <1>5
<1> QED  BY <1>6, <1>7 DEF Max, Min

LEMMA SetToSeqElements ==
    ASSUME NEW S, IsFiniteSet(S)
    PROVE  /\ Cardinality(S) \in Nat
           /\ DOMAIN SetToSeq(S) = 1..Cardinality(S)
           /\ \A i \in 1..Cardinality(S) : SetToSeq(S)[i] \in S
           /\ \A k \in S : \E i \in 1..Cardinality(S) : SetToSeq(S)[i] = k
<1> DEFINE n == Cardinality(S)
<1>1. n \in Nat /\ ExistsBijection(1..n, S)
  BY FS_CardinalityType
<1>2. \E f \in [1..n -> S] : IsInjective(f)
  BY <1>1 DEF ExistsBijection, Bijection, Injection
<1>3. SetToSeq(S) \in [1..n -> S] /\ IsInjective(SetToSeq(S))
  BY <1>2 DEF SetToSeq
<1>4. SetToSeq(S) \in Surjection(1..n, S)
  <2>1. SetToSeq(S) \in Injection(1..n, S)
    BY <1>3 DEF Injection
  <2>2. Cardinality(1..n) = n
    BY <1>1, FS_Interval
  <2> QED  BY <2>1, <2>2, FS_Injection
<1> QED  BY <1>1, <1>3, <1>4 DEF Surjection

----------------------------------------------------------------------------
(* Sequences of elements of a set.                                         *)

LEMMA SeqFacts ==
    ASSUME NEW S, NEW s \in Seq(S)
    PROVE  /\ Len(s) \in Nat /\ DOMAIN s = 1..Len(s)
           /\ \A k \in DOMAIN s : s[k] \in S
           /\ ToSet(s) \subseteq S
           /\ \A x \in ToSet(s) : \E k \in DOMAIN s : s[k] = x
           /\ \A k \in DOMAIN s : s[k] \in ToSet(s)
BY DEF ToSet

LEMMA TailFacts ==
    ASSUME NEW S, NEW s \in Seq(S), s # <<>>
    PROVE  /\ Head(s) = s[1] /\ Head(s) \in S /\ 1 \in DOMAIN s
           /\ Tail(s) \in Seq(S) /\ Len(Tail(s)) = Len(s) - 1
           /\ \A k \in DOMAIN Tail(s) : k + 1 \in DOMAIN s /\ Tail(s)[k] = s[k + 1]
           /\ \A k \in DOMAIN s : k # 1 => k - 1 \in DOMAIN Tail(s) /\ Tail(s)[k - 1] = s[k]
           /\ ToSet(s) = {Head(s)} \cup ToSet(Tail(s))
<1>1. /\ Head(s) = s[1] /\ Head(s) \in S /\ 1 \in DOMAIN s
      /\ Tail(s) \in Seq(S) /\ Len(Tail(s)) = Len(s) - 1
      /\ \A k \in DOMAIN Tail(s) : k + 1 \in DOMAIN s /\ Tail(s)[k] = s[k + 1]
      /\ \A k \in DOMAIN s : k # 1 => k - 1 \in DOMAIN Tail(s) /\ Tail(s)[k - 1] = s[k]
  OBVIOUS
<1>2. ASSUME NEW x \in ToSet(s) PROVE x \in {Head(s)} \cup ToSet(Tail(s))
  <2>1. PICK k \in DOMAIN s : s[k] = x
    BY DEF ToSet
  <2>2. CASE k = 1
    BY <2>1, <2>2, <1>1
  <2>3. CASE k # 1
    BY <2>1, <2>3, <1>1 DEF ToSet
  <2> QED  BY <2>2, <2>3
<1>3. ToSet(Tail(s)) \subseteq ToSet(s)
  <2> SUFFICES ASSUME NEW k \in DOMAIN Tail(s) PROVE Tail(s)[k] \in ToSet(s)
    BY DEF ToSet
  <2> QED  BY <1>1 DEF ToSet
<1>4. Head(s) \in ToSet(s)
  BY <1>1 DEF ToSet
<1> QED  BY <1>1, <1>2, <1>3, <1>4

LEMMA AppendFacts ==
    ASSUME NEW S, NEW s \in Seq(S), NEW x \in S
    PROVE  /\ Append(s, x) \in Seq(S) /\ Len(Append(s, x)) = Len(s) + 1
           /\ DOMAIN Append(s, x) = 1..Len(s) + 1
           /\ \A k \in DOMAIN s : k \in 1..Len(s) + 1 /\ Append(s, x)[k] = s[k]
           /\ Append(s, x)[Len(s) + 1] = x
           /\ ToSet(Append(s, x)) = ToSet(s) \cup {x}
<1>1. /\ Append(s, x) \in Seq(S) /\ Len(Append(s, x)) = Len(s) + 1
      /\ DOMAIN Append(s, x) = 1..Len(s) + 1 /\ Len(s) \in Nat
      /\ \A k \in DOMAIN s : k \in 1..Len(s) + 1 /\ Append(s, x)[k] = s[k]
      /\ Append(s, x)[Len(s) + 1] = x
  OBVIOUS
<1>2. ToSet(Append(s, x)) \subseteq ToSet(s) \cup {x}
  <2> SUFFICES ASSUME NEW k \in 1..Len(s) + 1 PROVE Append(s, x)[k] \in ToSet(s) \cup {x}
    BY <1>1 DEF ToSet
  <2>1. k = Len(s) + 1 \/ k \in DOMAIN s
    BY <1>1
  <2> QED  BY <2>1, <1>1 DEF ToSet
<1>3. ToSet(s) \subseteq ToSet(Append(s, x))
  <2> SUFFICES ASSUME NEW k \in DOMAIN s PROVE s[k] \in ToSet(Append(s, x))
    BY DEF ToSet
  <2> QED  BY <1>1 DEF ToSet
<1>4. x \in ToSet(Append(s, x))
  <2>1. Len(s) + 1 \in 1..Len(s) + 1
    BY <1>1
  <2> QED  BY <2>1, <1>1 DEF ToSet
<1> QED  BY <1>1, <1>2, <1>3, <1>4

LEMMA ConcatFacts ==
    ASSUME NEW S, NEW s \in Seq(S), NEW t \in Seq(S)
    PROVE  /\ s \o t \in Seq(S) /\ Len(s \o t) = Len(s) + Len(t)
           /\ DOMAIN (s \o t) = 1..Len(s) + Len(t)
           /\ \A k \in DOMAIN s : k \in DOMAIN (s \o t) /\ (s \o t)[k] = s[k]
           /\ \A k \in DOMAIN t : /\ Len(s) + k \in DOMAIN (s \o t)
                                  /\ (s \o t)[Len(s) + k] = t[k]
           /\ \A k \in DOMAIN (s \o t) : \/ k \in DOMAIN s
                                         \/ k - Len(s) \in DOMAIN t /\ (s \o t)[k] = t[k - Len(s)]
           /\ ToSet(s \o t) = ToSet(s) \cup ToSet(t)
<1>1. /\ s \o t \in Seq(S) /\ Len(s \o t) = Len(s) + Len(t)
      /\ DOMAIN (s \o t) = 1..Len(s) + Len(t)
      /\ \A k \in DOMAIN s : k \in DOMAIN (s \o t) /\ (s \o t)[k] = s[k]
      /\ \A k \in DOMAIN t : /\ Len(s) + k \in DOMAIN (s \o t)
                             /\ (s \o t)[Len(s) + k] = t[k]
      /\ \A k \in DOMAIN (s \o t) : \/ k \in DOMAIN s
                                    \/ k - Len(s) \in DOMAIN t /\ (s \o t)[k] = t[k - Len(s)]
  OBVIOUS
<1> DEFINE w == s \o t
<1> HIDE DEF w
<1>2. ToSet(w) \subseteq ToSet(s) \cup ToSet(t)
  <2> SUFFICES ASSUME NEW k \in DOMAIN w PROVE w[k] \in ToSet(s) \cup ToSet(t)
    BY DEF ToSet
  <2>1. \/ k \in DOMAIN s /\ w[k] = s[k]
        \/ k - Len(s) \in DOMAIN t /\ w[k] = t[k - Len(s)]
    BY <1>1 DEF w
  <2> QED  BY <2>1 DEF ToSet
<1>3. ToSet(s) \subseteq ToSet(w)
  <2> SUFFICES ASSUME NEW k \in DOMAIN s PROVE s[k] \in ToSet(w)
    BY DEF ToSet
  <2>1. k \in DOMAIN w /\ w[k] = s[k]
    BY <1>1 DEF w
  <2> QED  BY <2>1 DEF ToSet
<1>4. ToSet(t) \subseteq ToSet(w)
  <2> SUFFICES ASSUME NEW k \in DOMAIN t PROVE t[k] \in ToSet(w)
    BY DEF ToSet
  <2>1. Len(s) + k \in DOMAIN w /\ w[Len(s) + k] = t[k]
    BY <1>1 DEF w
  <2> QED  BY <2>1 DEF ToSet
<1> QED  BY <1>1, <1>2, <1>3, <1>4 DEF w

LEMMA ShortFacts ==
    ASSUME NEW S
    PROVE  /\ <<>> \in Seq(S) /\ ToSet(<<>>) = {}
           /\ \A x \in S : <<x>> \in Seq(S) /\ ToSet(<<x>>) = {x}
           /\ \A x, y \in S : <<x, y>> \in Seq(S) /\ ToSet(<<x, y>>) = {x, y}
<1>1. ASSUME NEW x \in S PROVE <<x>> \in Seq(S) /\ ToSet(<<x>>) = {x}
  <2>1. DOMAIN <<x>> = 1..1
    OBVIOUS
  <2> QED  BY <2>1 DEF ToSet
<1>2. ASSUME NEW x \in S, NEW y \in S
      PROVE  <<x, y>> \in Seq(S) /\ ToSet(<<x, y>>) = {x, y}
  <2>1. DOMAIN <<x, y>> = 1..2 /\ <<x, y>>[1] = x /\ <<x, y>>[2] = y
    OBVIOUS
  <2> QED  BY <2>1 DEF ToSet
<1> QED  BY <1>1, <1>2 DEF ToSet

----------------------------------------------------------------------------
(* What a page and the server may send each other.                         *)

IsNote(m, s) == m.kind = "note" /\ m.of = s
IsResult(m, f) == m.kind = "result" /\ m.of = f

HasText(m) == IsNote(m, "newMessage") \/ IsResult(m, "sendMessage")
HasTalks(m) == IsNote(m, "newConversation") \/ IsResult(m, "getConversations")
HasUsers(m) == IsNote(m, "newUser") \/ IsResult(m, "getUsers")

\* The names that stand for a peer, once and for all.
Heard == {x \in AnyNick : byName[x] # Nobody}

\* The text of an item was written in the conversation of the item.
Written(i) == i.text \in DOMAIN texts /\ texts[i.text] = i.conv

SoundCall(r) ==
    /\ r.method = "updateNickname" => r.arg.name \in Nick
    /\ r.method = "addConversation" => r.arg.name \in Heard
    /\ r.method = "sendMessage" => Written(r.arg)

SoundMessage(m) ==
    /\ HasText(m) => Written(m.value[1])
    /\ HasTalks(m) => \A i \in ToSet(m.value) :
          i.name \in AnyNick \cup {Undefined} /\ i.conv \in Talk \cup {Undefined}
    /\ HasUsers(m) => \A i \in ToSet(m.value) : i.name \in Heard

SoundWire ==
    /\ \A p \in Page : \A r \in ToSet(requests[p]) : SoundCall(r)
    /\ \A p \in Page : \A m \in ToSet(messages[p]) : SoundMessage(m)
    /\ \A t \in Thread : \A m \in ToSet(outbox[t]) : SoundMessage(m)

ListsAreHeard ==
    /\ byAddress \in [Peer -> Heard \cup {Absent}]
    /\ users \in [Page -> Seq(Heard)]
    /\ drawn \in [Page -> Seq(Heard)]

TypeInv ==
    /\ TypeOK
    /\ Len(texts) <= counts.news + counts.deeds
    /\ ListsAreHeard
    /\ SoundWire

Asking == [id : Nat, method : Method, arg : AnItem]
Calling == [method : Method, arg : AnItem]
TabType(n) == [title : AnyNick \cup {Title(Empty), Undefined},
               conv : Talk \cup {Undefined}, texts : Seq(1..n)]

RpcTyped ==
    /\ open \in [Page -> {"connecting", "open", "closed"}]
    /\ nextId \in [Page -> Nat]
    /\ callbacks \in [Page -> Seq(Method)]
    /\ answered \in [Page -> Seq(Nat)]
    /\ requests \in [Page -> Seq(Asking)]
    /\ messages \in [Page -> Seq(Sent)]
    /\ subscribers \in [Stream -> SUBSET Page]
    /\ outbox \in [Thread -> Seq(Sent)]

ProcessTyped ==
    /\ nickname \in AnyNick
    /\ byName \in [AnyNick -> Peer \cup {Nobody}]
    /\ convs \in [Talk -> AnyNick \cup {Absent}]
    /\ running \in BOOLEAN

PagesTyped ==
    /\ asking \subseteq Page
    /\ users \in [Page -> Seq(Heard)]
    /\ drawn \in [Page -> Seq(Heard)]
    /\ tabs \in [Page -> Seq(TabType(Len(texts)))]

HistoryTyped ==
    /\ texts \in Seq(Talk \cup {Undefined})
    /\ handled \subseteq 1..Len(texts)
    /\ partner \in [Talk -> Peer \cup {Nobody}]
    /\ leavers \subseteq AnyNick
    /\ left \subseteq ConvId
    /\ improvised \subseteq Talk
    /\ misled \subseteq Page
    /\ counts \in [news : 0..MaxNews, deeds : 0..MaxDeeds]
    /\ Len(texts) <= counts.news + counts.deeds

BookTyped == byAddress \in [Peer -> Heard \cup {Absent}]

LEMMA SeqSubset ==
    ASSUME NEW S, NEW T, S \subseteq T, NEW s \in Seq(S)
    PROVE  s \in Seq(T)
OBVIOUS

LEMMA TypesApart ==
    TypeInv <=> RpcTyped /\ ProcessTyped /\ PagesTyped /\ HistoryTyped /\ BookTyped /\ SoundWire
<1>1. Heard \subseteq AnyNick
  BY DEF Heard
<1>2. ASSUME NEW f \in [Page -> Seq(Heard)] PROVE f \in [Page -> Seq(AnyNick)]
  <2>1. \A p \in Page : f[p] \in Seq(AnyNick)
    BY <1>1, SeqSubset
  <2> QED  BY <2>1
<1>3. ASSUME NEW f \in [Peer -> Heard \cup {Absent}] PROVE f \in [Peer -> AnyNick \cup {Absent}]
  BY <1>1
<1>4. ASSUME RpcTyped, ProcessTyped, PagesTyped, HistoryTyped, BookTyped, SoundWire
      PROVE  TypeInv
  <2>1. TypeOK
    BY <1>2, <1>3, <1>4
       DEF RpcTyped, ProcessTyped, PagesTyped, HistoryTyped, BookTyped, TypeOK, TabType, Asking
  <2> QED  BY <1>4, <2>1 DEF TypeInv, PagesTyped, HistoryTyped, BookTyped, ListsAreHeard
<1>5. ASSUME TypeInv
      PROVE  RpcTyped /\ ProcessTyped /\ PagesTyped /\ HistoryTyped /\ BookTyped /\ SoundWire
  <2>1. TypeOK
    BY <1>5 DEF TypeInv
  <2>2. RpcTyped /\ ProcessTyped
    BY <2>1 DEF RpcTyped, ProcessTyped, TypeOK, Asking
  <2>3. PagesTyped /\ HistoryTyped /\ BookTyped /\ SoundWire
    BY <1>5, <2>1 DEF PagesTyped, HistoryTyped, BookTyped, TypeOK, TypeInv, ListsAreHeard, TabType
  <2> QED  BY <2>2, <2>3
<1> QED  BY <1>4, <1>5

LEMMA InitTypes == Init => TypeInv
<1> SUFFICES ASSUME Init PROVE TypeInv
  OBVIOUS
<1>1. \A S : <<>> \in Seq(S) /\ ToSet(<<>>) = {}
  BY ShortFacts
<1>2. RpcTyped
  BY <1>1 DEF Init, RpcInit, RpcTyped
<1>3. Null \in AnyNick /\ Empty \in AnyNick /\ Everyone \in Talk
  BY PageAssumption DEF AnyNick, Talk
<1>4. ProcessTyped
  BY <1>3 DEF Init, ProcessTyped
<1>5. PagesTyped
  BY <1>1 DEF Init, PagesTyped
<1>6. HistoryTyped
  <2>1. MaxNews \in Nat /\ MaxDeeds \in Nat
    BY PageAssumption
  <2>2. counts \in [news : 0..MaxNews, deeds : 0..MaxDeeds] /\ Len(texts) <= counts.news + counts.deeds
    BY <2>1 DEF Init
  <2> QED  BY <1>1, <2>2 DEF Init, HistoryTyped
<1>7. BookTyped
  BY DEF Init, BookTyped
<1>8. SoundWire
  BY <1>1 DEF Init, RpcInit, SoundWire
<1> QED  BY <1>2, <1>4, <1>5, <1>6, <1>7, <1>8, TypesApart

----------------------------------------------------------------------------
(* Types of what goes over the wire.  Names and texts only get more.       *)

Grows ==
    /\ Heard \subseteq Heard'
    /\ \A t \in DOMAIN texts : t \in DOMAIN texts' /\ texts'[t] = texts[t]

LEMMA SoundGrows ==
    ASSUME Grows
    PROVE  /\ \A r : SoundCall(r) => SoundCall(r)'
           /\ \A m : SoundMessage(m) => SoundMessage(m)'
<1>1. \A i : Written(i) => Written(i)'
  BY DEF Grows, Written
<1>2. \A x : x \in Heard => x \in Heard'
  BY DEF Grows
<1> QED  BY <1>1, <1>2 DEF SoundCall, SoundMessage, HasText, HasTalks, HasUsers, IsNote, IsResult

LEMMA SameGrows == UNCHANGED <<byName, texts>> => Grows
BY DEF Grows, Heard

LEMMA StaySound ==
    ASSUME SoundWire, Grows,
           \A p \in Page : \A x \in ToSet(requests'[p]) : x \in ToSet(requests[p]) \/ SoundCall(x)',
           \A p \in Page : \A m \in ToSet(messages'[p]) :
              \/ m \in ToSet(messages[p]) \/ \E t \in Thread : m \in ToSet(outbox[t]),
           \A t \in Thread : \A m \in ToSet(outbox'[t]) : m \in ToSet(outbox[t]) \/ SoundMessage(m)'
    PROVE  SoundWire'
<1>1. \A p \in Page : \A x \in ToSet(requests'[p]) : SoundCall(x)'
  BY SoundGrows DEF SoundWire
<1>2. \A p \in Page : \A m \in ToSet(messages'[p]) : SoundMessage(m)'
  BY SoundGrows DEF SoundWire
<1>3. \A t \in Thread : \A m \in ToSet(outbox'[t]) : SoundMessage(m)'
  BY SoundGrows DEF SoundWire
<1> QED  BY <1>1, <1>2, <1>3 DEF SoundWire

LEMMA RpcOf == TypeInv => RpcTyped /\ SoundWire
BY TypesApart

LEMMA CallShape ==
    ASSUME TypeInv, Inv, NEW p \in Page, NEW calls \in Seq(Calling), Call(p, calls)
    PROVE  \E new \in Seq(Asking) :
              /\ Len(new) = Len(calls)
              /\ \A k \in DOMAIN calls : new[k].method = calls[k].method /\ new[k].arg = calls[k].arg
              /\ requests' = [requests EXCEPT ![p] = requests[p] \o new]
              /\ nextId' \in [Page -> Nat]
              /\ callbacks' \in [Page -> Seq(Method)]
<1> DEFINE n == nextId[p]
           new == [k \in DOMAIN calls |->
                     [id |-> IdOf(p, k), method |-> calls[k].method, arg |-> calls[k].arg]]
           more == [i \in 1..n + Len(calls) |->
                     IF i \in DOMAIN callbacks[p] THEN callbacks[p][i] ELSE calls[i - n].method]
<1>1. /\ RpcTyped /\ n \in Nat /\ DOMAIN callbacks[p] = 1..n
      /\ callbacks[p] \in Seq(Method)
  <2>1. RpcTyped
    BY RpcOf
  <2>2. DOMAIN callbacks[p] = 1..n
    BY DEF Inv, PageOK, PageInv
  <2> QED  BY <2>1, <2>2 DEF RpcTyped
<1>2. /\ Len(calls) \in Nat /\ DOMAIN calls = 1..Len(calls)
      /\ \A k \in DOMAIN calls : calls[k].method \in Method /\ calls[k].arg \in AnItem
  <2>1. \A k \in DOMAIN calls : calls[k] \in Calling
    BY SeqFacts
  <2>2. Len(calls) \in Nat /\ DOMAIN calls = 1..Len(calls)
    BY SeqFacts
  <2> QED  BY <2>1, <2>2 DEF Calling
<1>3. new \in Seq(Asking) /\ Len(new) = Len(calls)
  <2>1. \A k \in DOMAIN calls : IdOf(p, k) \in Nat
    BY <1>1, <1>2 DEF IdOf
  <2>2. \A k \in DOMAIN calls : new[k] \in Asking
    BY <2>1, <1>2 DEF Asking
  <2>3. new \in [1..Len(calls) -> Asking]
    BY <2>2, <1>2
  <2> QED  BY <2>3, <1>2
<1>4. more \in Seq(Method)
  <2>1. ASSUME NEW i \in 1..n + Len(calls) PROVE more[i] \in Method
    <3>1. CASE i \in DOMAIN callbacks[p]
      BY <3>1, <1>1
    <3>2. CASE i \notin DOMAIN callbacks[p]
      <4>1. i - n \in DOMAIN calls
        BY <3>2, <1>1, <1>2
      <4> QED  BY <4>1, <3>2, <1>2
    <3> QED  BY <3>1, <3>2
  <2>2. n + Len(calls) \in Nat
    BY <1>1, <1>2
  <2>3. more \in [1..n + Len(calls) -> Method]
    BY <2>1
  <2> QED  BY <2>2, <2>3
<1>5. /\ nextId' = [nextId EXCEPT ![p] = n + Len(calls)]
      /\ callbacks' = [callbacks EXCEPT ![p] = more]
      /\ requests' = [requests EXCEPT ![p] = requests[p] \o new]
  BY DEF Call
<1>6. \A k \in DOMAIN calls : new[k].method = calls[k].method /\ new[k].arg = calls[k].arg
  OBVIOUS
<1> HIDE DEF n, new, more
<1>7. nextId' \in [Page -> Nat] /\ callbacks' \in [Page -> Seq(Method)]
  <2>1. n + Len(calls) \in Nat
    BY <1>1, <1>2
  <2> QED  BY <2>1, <1>1, <1>4, <1>5 DEF RpcTyped
<1> QED  BY <1>3, <1>5, <1>6, <1>7

LEMMA CallTypes ==
    ASSUME TypeInv, Inv, Grows, NEW p \in Page, NEW calls \in Seq(Calling), Call(p, calls),
           \A c \in ToSet(calls) : SoundCall(c)',
           open' \in [Page -> {"connecting", "open", "closed"}],
           UNCHANGED <<messages, answered, server>>
    PROVE  RpcTyped' /\ SoundWire'
<1>1. PICK new \in Seq(Asking) :
         /\ Len(new) = Len(calls)
         /\ \A k \in DOMAIN calls : new[k].method = calls[k].method /\ new[k].arg = calls[k].arg
         /\ requests' = [requests EXCEPT ![p] = requests[p] \o new]
         /\ nextId' \in [Page -> Nat]
         /\ callbacks' \in [Page -> Seq(Method)]
  BY CallShape
<1>2. RpcTyped /\ SoundWire /\ requests[p] \in Seq(Asking)
  BY RpcOf DEF RpcTyped
<1>3. /\ requests[p] \o new \in Seq(Asking)
      /\ ToSet(requests[p] \o new) = ToSet(requests[p]) \cup ToSet(new)
  BY <1>2, ConcatFacts
<1>4. RpcTyped'
  BY <1>1, <1>2, <1>3 DEF RpcTyped, server
<1>5. ASSUME NEW r \in ToSet(new) PROVE SoundCall(r)'
  <2>1. DOMAIN new = DOMAIN calls
    BY <1>1, SeqFacts
  <2>2. PICK k \in DOMAIN calls : new[k] = r
    BY <2>1, SeqFacts
  <2>3. SoundCall(calls[k])'
    <3>1. calls[k] \in ToSet(calls)
      BY SeqFacts
    <3> QED  BY <3>1
  <2>4. r.method = calls[k].method /\ r.arg = calls[k].arg
    BY <1>1, <2>2
  <2> QED  BY <2>3, <2>4 DEF SoundCall
<1>6. SoundWire'
  <2>1. \A q \in Page : \A x \in ToSet(requests'[q]) : x \in ToSet(requests[q]) \/ SoundCall(x)'
    <3>1. \A q \in Page : requests'[q] = IF q = p THEN requests[p] \o new ELSE requests[q]
      BY <1>1, <1>2 DEF RpcTyped
    <3> QED  BY <3>1, <1>3, <1>5
  <2>2. messages' = messages /\ outbox' = outbox
    BY DEF server
  <2> QED  BY <2>1, <2>2, <1>2, StaySound
<1> QED  BY <1>4, <1>6

LEMMA ServedShape ==
    ASSUME TypeInv, NEW p \in Page, NEW method, NEW sends, Served(p, method, sends)
    PROVE  /\ outbox[p] = <<>> /\ requests[p] # <<>> /\ requests[p] \in Seq(Asking)
           /\ Request(p) \in Asking /\ Request(p).method = method /\ SoundCall(Request(p))
           /\ requests' = [requests EXCEPT ![p] = Tail(requests[p])]
           /\ outbox' = [outbox EXCEPT ![p] = sends]
           /\ Tail(requests[p]) \in Seq(Asking)
           /\ ToSet(requests[p]) = {Request(p)} \cup ToSet(Tail(requests[p]))
<1>1. requests[p] \in Seq(Asking) /\ SoundWire
  BY RpcOf DEF RpcTyped
<1>2. /\ outbox[p] = <<>> /\ requests[p] # <<>> /\ Request(p).method = method
      /\ requests' = [requests EXCEPT ![p] = Tail(requests[p])]
      /\ outbox' = [outbox EXCEPT ![p] = sends]
  BY DEF Served, Free
<1>3. /\ Request(p) \in Asking /\ Tail(requests[p]) \in Seq(Asking)
      /\ ToSet(requests[p]) = {Request(p)} \cup ToSet(Tail(requests[p]))
  BY <1>1, <1>2, TailFacts DEF Request
<1> QED  BY <1>1, <1>2, <1>3 DEF SoundWire

LEMMA ServedTypes ==
    ASSUME TypeInv, Grows, NEW p \in Page, NEW method, NEW sends \in Seq(Sent),
           Served(p, method, sends), \A m \in ToSet(sends) : SoundMessage(m)',
           subscribers' \in [Stream -> SUBSET Page], UNCHANGED <<client, messages>>
    PROVE  RpcTyped' /\ SoundWire'
<1>1. /\ requests' = [requests EXCEPT ![p] = Tail(requests[p])]
      /\ outbox' = [outbox EXCEPT ![p] = sends]
      /\ Tail(requests[p]) \in Seq(Asking)
      /\ ToSet(requests[p]) = {Request(p)} \cup ToSet(Tail(requests[p]))
  BY ServedShape
<1>2. RpcTyped /\ SoundWire /\ p \in Thread
  BY RpcOf, ThreadsAreApart
<1>3. RpcTyped'
  BY <1>1, <1>2 DEF RpcTyped, client
<1>4. SoundWire'
  <2>1. \A q \in Page : \A x \in ToSet(requests'[q]) : x \in ToSet(requests[q])
    <3>1. \A q \in Page : requests'[q] = IF q = p THEN Tail(requests[p]) ELSE requests[q]
      BY <1>1, <1>2 DEF RpcTyped
    <3> QED  BY <3>1, <1>1
  <2>2. \A t \in Thread : \A m \in ToSet(outbox'[t]) : m \in ToSet(outbox[t]) \/ SoundMessage(m)'
    <3>1. \A t \in Thread : outbox'[t] = IF t = p THEN sends ELSE outbox[t]
      BY <1>1, <1>2 DEF RpcTyped
    <3> QED  BY <3>1
  <2>3. messages' = messages
    OBVIOUS
  <2> QED  BY <2>1, <2>2, <2>3, <1>2, StaySound
<1> QED  BY <1>3, <1>4

\* The thread of the peers has something to send.
LEMMA NewsTypes ==
    ASSUME TypeInv, Grows, NEW sends \in Seq(Sent), \A m \in ToSet(sends) : SoundMessage(m)',
           outbox' = [outbox EXCEPT ![Handler] = sends], UNCHANGED <<client, wire, subscribers>>
    PROVE  RpcTyped' /\ SoundWire'
<1>1. RpcTyped /\ SoundWire
  BY RpcOf
<1>2. RpcTyped'
  BY <1>1 DEF RpcTyped, client, wire
<1>3. SoundWire'
  <2>1. requests' = requests /\ messages' = messages
    BY DEF wire
  <2>2. \A t \in Thread : \A m \in ToSet(outbox'[t]) : m \in ToSet(outbox[t]) \/ SoundMessage(m)'
    <3>1. \A t \in Thread : outbox'[t] = IF t = Handler THEN sends ELSE outbox[t]
      BY <1>1 DEF RpcTyped
    <3> QED  BY <3>1
  <2> QED  BY <2>1, <2>2, <1>1, StaySound
<1> QED  BY <1>2, <1>3

\* A thread is done with the first of what it has to send.
LEMMA OutboxShrinks ==
    ASSUME TypeInv, NEW t \in Thread, outbox[t] # <<>>,
           outbox' = [outbox EXCEPT ![t] = Tail(@)]
    PROVE  /\ outbox[t] \in Seq(Sent) /\ Head(outbox[t]) \in Sent
           /\ ToSet(outbox[t]) = {Head(outbox[t])} \cup ToSet(Tail(outbox[t]))
           /\ outbox' \in [Thread -> Seq(Sent)]
           /\ \A u \in Thread : outbox'[u] = IF u = t THEN Tail(outbox[t]) ELSE outbox[u]
           /\ \A u \in Thread : ToSet(outbox'[u]) \subseteq ToSet(outbox[u])
<1>1. outbox \in [Thread -> Seq(Sent)]
  BY RpcOf DEF RpcTyped
<1>2. outbox[t] \in Seq(Sent)
  BY <1>1
<1>3. /\ Head(outbox[t]) \in Sent /\ Tail(outbox[t]) \in Seq(Sent)
      /\ ToSet(outbox[t]) = {Head(outbox[t])} \cup ToSet(Tail(outbox[t]))
  BY <1>2, TailFacts
<1>4. \A u \in Thread : outbox'[u] = IF u = t THEN Tail(outbox[t]) ELSE outbox[u]
  BY <1>1
<1> QED  BY <1>1, <1>2, <1>3, <1>4

LEMMA SendShape ==
    ASSUME TypeInv, NEW t \in Thread, SendNext(t)
    PROVE  /\ outbox[t] # <<>> /\ Head(outbox[t]).kind # "drop"
           /\ outbox' = [outbox EXCEPT ![t] = Tail(@)]
           /\ \A p \in Page :
                 messages'[p] = IF p \in Receivers(t, Head(outbox[t])) /\ open[p] = "open"
                                THEN Append(messages[p], Head(outbox[t])) ELSE messages[p]
           /\ messages' \in [Page -> Seq(Sent)]
           /\ \A p \in Page : ToSet(messages'[p]) \subseteq ToSet(messages[p]) \cup {Head(outbox[t])}
           /\ UNCHANGED <<client, requests, subscribers, process, pages, history, counts>>
<1> DEFINE x == Head(outbox[t])
<1>1. /\ outbox[t] # <<>> /\ x.kind # "drop"
      /\ outbox' = [outbox EXCEPT ![t] = Tail(@)]
      /\ messages' = [p \in Page |-> IF p \in Receivers(t, x) /\ open[p] = "open"
                                     THEN Append(messages[p], x) ELSE messages[p]]
      /\ UNCHANGED <<client, requests, subscribers, process, pages, history, counts>>
  BY DEF SendNext, Send
<1>2. x \in Sent /\ messages \in [Page -> Seq(Sent)]
  BY <1>1, OutboxShrinks, RpcOf DEF RpcTyped
<1> HIDE DEF x
<1>3. ASSUME NEW p \in Page
      PROVE  /\ messages'[p] = IF p \in Receivers(t, x) /\ open[p] = "open"
                               THEN Append(messages[p], x) ELSE messages[p]
             /\ messages'[p] \in Seq(Sent)
             /\ ToSet(messages'[p]) \subseteq ToSet(messages[p]) \cup {x}
  <2>1. messages[p] \in Seq(Sent)
    BY <1>2
  <2>2. Append(messages[p], x) \in Seq(Sent) /\ ToSet(Append(messages[p], x)) = ToSet(messages[p]) \cup {x}
    BY <2>1, <1>2, AppendFacts
  <2> QED  BY <2>1, <2>2, <1>1
<1>4. messages' \in [Page -> Seq(Sent)]
  BY <1>1, <1>3
<1> QED  BY <1>1, <1>3, <1>4 DEF x

LEMMA TakeShape ==
    ASSUME TypeInv, Inv, NEW p \in Page, NEW kind, Take(p, kind)
    PROVE  /\ messages[p] # <<>> /\ messages[p] \in Seq(Sent) /\ open[p] = "open"
           /\ Head(messages[p]) \in Sent /\ Head(messages[p]).kind = kind
           /\ SoundMessage(Head(messages[p]))
           /\ Tail(messages[p]) \in Seq(Sent)
           /\ \A q \in Page : messages'[q] = IF q = p THEN Tail(messages[p]) ELSE messages[q]
           /\ messages' \in [Page -> Seq(Sent)]
           /\ ToSet(messages[p]) = {Head(messages[p])} \cup ToSet(Tail(messages[p]))
           /\ kind = "result" => CallbackOf(p) = Head(messages[p]).of
           /\ answered' \in [Page -> Seq(Nat)]
<1>1. RpcTyped /\ SoundWire /\ messages[p] \in Seq(Sent) /\ answered[p] \in Seq(Nat)
  BY RpcOf DEF RpcTyped
<1>2. /\ messages[p] # <<>> /\ open[p] = "open" /\ Head(messages[p]).kind = kind
      /\ messages' = [messages EXCEPT ![p] = Tail(messages[p])]
      /\ answered' = [answered EXCEPT ![p] =
            IF kind = "result" THEN Append(answered[p], Head(messages[p]).id) ELSE answered[p]]
  BY DEF Take
<1>3. /\ Head(messages[p]) \in Sent /\ Tail(messages[p]) \in Seq(Sent)
      /\ ToSet(messages[p]) = {Head(messages[p])} \cup ToSet(Tail(messages[p]))
  BY <1>1, <1>2, TailFacts
<1>4. kind = "result" => Awaits(nextId[p], callbacks[p], Head(messages[p]).id, Head(messages[p]).of)
  BY <1>2, <1>3 DEF Inv, PageOK, PageInv, Fits
<1>5. answered' \in [Page -> Seq(Nat)]
  <2>1. kind = "result" => Head(messages[p]).id \in Nat
    <3>1. nextId[p] \in Nat
      BY <1>1 DEF RpcTyped
    <3> QED  BY <3>1, <1>4 DEF Awaits
  <2>2. (IF kind = "result" THEN Append(answered[p], Head(messages[p]).id) ELSE answered[p]) \in Seq(Nat)
    BY <2>1, <1>1, AppendFacts
  <2> QED  BY <2>2, <1>1, <1>2 DEF RpcTyped
<1>6. kind = "result" => CallbackOf(p) = Head(messages[p]).of
  BY <1>4 DEF CallbackOf, Awaits
<1>7. /\ \A q \in Page : messages'[q] = IF q = p THEN Tail(messages[p]) ELSE messages[q]
      /\ messages' \in [Page -> Seq(Sent)]
  BY <1>1, <1>2, <1>3 DEF RpcTyped
<1> QED  BY <1>1, <1>2, <1>3, <1>5, <1>6, <1>7 DEF SoundWire

LEMMA TakeTypes ==
    ASSUME TypeInv, Inv, Grows, NEW p \in Page, NEW kind, Take(p, kind),
           UNCHANGED <<open, nextId, callbacks, requests, server>>
    PROVE  RpcTyped' /\ SoundWire'
<1>1. /\ messages' \in [Page -> Seq(Sent)] /\ answered' \in [Page -> Seq(Nat)]
      /\ \A q \in Page : messages'[q] = IF q = p THEN Tail(messages[p]) ELSE messages[q]
      /\ ToSet(messages[p]) = {Head(messages[p])} \cup ToSet(Tail(messages[p]))
  BY TakeShape
<1>2. RpcTyped /\ SoundWire
  BY RpcOf
<1>3. RpcTyped'
  BY <1>1, <1>2 DEF RpcTyped, server
<1>4. \A q \in Page : \A m \in ToSet(messages'[q]) : m \in ToSet(messages[q])
  BY <1>1
<1>5. SoundWire'
  <2>1. requests' = requests /\ outbox' = outbox
    BY DEF server
  <2> QED  BY <2>1, <1>2, <1>4, StaySound
<1> QED  BY <1>3, <1>5

----------------------------------------------------------------------------
(* The steps keep the types.                                               *)

LEMMA Values ==
    /\ Null \in AnyNick /\ Empty \in AnyNick /\ OwnNames \subseteq AnyNick
    /\ \A x \in AnyNick \cup Stream \cup {Undefined}, c \in Talk \cup {0, Undefined},
          t \in 0..MaxNews + MaxDeeds : Item(x, c, t) \in AnItem
    /\ 0 \in 0..MaxNews + MaxDeeds
    /\ \A x, c, t : Item(x, c, t).name = x /\ Item(x, c, t).conv = c /\ Item(x, c, t).text = t
    /\ \A r \in Asking, v \in Seq(AnItem) : Result(r, v) \in Sent
    /\ \A r \in Asking : Failure(r) \in Sent
    /\ \A s \in Stream, v \in Seq(AnItem) : Note(s, v) \in Sent
    /\ \A x \in AnyNick : DropTalksWith(x) \in Sent
<1>1. Null \in AnyNick /\ Empty \in AnyNick /\ OwnNames \subseteq AnyNick
  BY PageAssumption DEF AnyNick
<1>2. \A x \in AnyNick \cup Stream \cup {Undefined}, c \in Talk \cup {0, Undefined},
         t \in 0..MaxNews + MaxDeeds : Item(x, c, t) \in AnItem
  BY DEF Item, AnItem
<1>3. 0 \in 0..MaxNews + MaxDeeds
  BY PageAssumption
<1>4. \A r \in Asking, v \in Seq(AnItem) : Result(r, v) \in Sent
  BY DEF Result, Sent, Asking
<1>5. \A r \in Asking : Failure(r) \in Sent
  <2>1. <<>> \in Seq(AnItem)
    OBVIOUS
  <2> QED  BY <2>1 DEF Failure, Sent, Asking
<1>6. \A s \in Stream, v \in Seq(AnItem) : Note(s, v) \in Sent
  BY DEF Note, Sent
<1>7. ASSUME NEW x \in AnyNick PROVE DropTalksWith(x) \in Sent
  <2>1. Item(x, 0, 0) \in AnItem
    BY <1>2, <1>3
  <2>2. <<Item(x, 0, 0)>> \in Seq(AnItem)
    BY <2>1
  <2> QED  BY <2>2 DEF DropTalksWith, Sent
<1>8. \A x, c, t : Item(x, c, t).name = x /\ Item(x, c, t).conv = c /\ Item(x, c, t).text = t
  BY DEF Item
<1> QED  BY <1>1, <1>2, <1>3, <1>4, <1>5, <1>6, <1>7, <1>8

LEMMA TypesLater ==
    ASSUME RpcTyped', ProcessTyped', PagesTyped', HistoryTyped', BookTyped', SoundWire'
    PROVE  TypeInv'
BY TypesApart, PTL

LEMMA FunctionIsSeq ==
    ASSUME NEW n \in Nat, NEW S, NEW f \in [1..n -> S]
    PROVE  f \in Seq(S) /\ Len(f) = n /\ DOMAIN f = 1..n
OBVIOUS

LEMMA NameOnly == \A x \in AnyNick : Item(x, 0, 0) \in AnItem /\ Item(x, 0, 0).name = x
<1> SUFFICES ASSUME NEW x \in AnyNick PROVE Item(x, 0, 0) \in AnItem /\ Item(x, 0, 0).name = x
  OBVIOUS
<1>1. x \in AnyNick \cup Stream \cup {Undefined} /\ 0 \in Talk \cup {0, Undefined}
  OBVIOUS
<1> QED  BY <1>1, Values

\* What is sent that says nothing of texts, conversations or users.
LEMMA SoundSilence ==
    /\ \A r : SoundMessage(Failure(r))
    /\ \A x : SoundMessage(DropTalksWith(x))
    /\ \A r, v : r.method \notin {"sendMessage", "getConversations", "getUsers"} =>
                    SoundMessage(Result(r, v))
    /\ \A s, v : s \notin {"newMessage", "newConversation", "newUser"} => SoundMessage(Note(s, v))
BY DEF SoundMessage, HasText, HasTalks, HasUsers, IsNote, IsResult, Failure, DropTalksWith,
       Result, Note

LEMMA SoundTexts ==
    /\ \A r, v : r.method = "sendMessage" /\ Written(v[1]) => SoundMessage(Result(r, v))
    /\ \A v : Written(v[1]) => SoundMessage(Note("newMessage", v))
BY DEF SoundMessage, HasText, HasTalks, HasUsers, IsNote, IsResult, Result, Note

LEMMA SoundTalks ==
    ASSUME NEW v,
           \A i \in ToSet(v) : i.name \in AnyNick \cup {Undefined} /\ i.conv \in Talk \cup {Undefined}
    PROVE  /\ \A r : r.method = "getConversations" => SoundMessage(Result(r, v))
           /\ SoundMessage(Note("newConversation", v))
BY DEF SoundMessage, HasText, HasTalks, HasUsers, IsNote, IsResult, Result, Note

LEMMA SoundUsers ==
    ASSUME NEW v, \A i \in ToSet(v) : i.name \in Heard
    PROVE  /\ \A r : r.method = "getUsers" => SoundMessage(Result(r, v))
           /\ SoundMessage(Note("newUser", v))
BY DEF SoundMessage, HasText, HasTalks, HasUsers, IsNote, IsResult, Result, Note

LEMMA ProcessStays ==
    ASSUME TypeInv
    PROVE  /\ UNCHANGED <<nickname, byName, convs, running>> => ProcessTyped'
           /\ UNCHANGED <<byAddress, byName>> => BookTyped'
           /\ UNCHANGED <<pages, texts, byName>> => PagesTyped'
           /\ UNCHANGED <<history, counts>> => HistoryTyped'
BY TypesApart DEF ProcessTyped, BookTyped, PagesTyped, HistoryTyped, Heard, pages, history, talks, lists

LEMMA TabsGrow ==
    ASSUME NEW n \in Nat, NEW m \in Nat, n <= m, NEW f \in [Page -> Seq(TabType(n))]
    PROVE  f \in [Page -> Seq(TabType(m))]
<1>1. Seq(1..n) \subseteq Seq(1..m)
  <2>1. 1..n \subseteq 1..m
    OBVIOUS
  <2> QED  BY <2>1, SeqSubset
<1>2. TabType(n) \subseteq TabType(m)
  BY <1>1 DEF TabType
<1>3. \A p \in Page : f[p] \in Seq(TabType(m))
  BY <1>2, SeqSubset
<1> QED  BY <1>3

LEMMA CountTypes ==
    ASSUME TypeInv, NEW what, NEW max, Count(what, max),
           (what = "news" /\ max = MaxNews) \/ (what = "deeds" /\ max = MaxDeeds)
    PROVE  /\ counts' \in [news : 0..MaxNews, deeds : 0..MaxDeeds]
           /\ Len(texts) + 1 <= counts'.news + counts'.deeds
           /\ Len(texts) \in Nat /\ Len(texts) + 1 \in 1..MaxNews + MaxDeeds
<1>1. /\ counts \in [news : 0..MaxNews, deeds : 0..MaxDeeds]
      /\ Len(texts) <= counts.news + counts.deeds /\ Len(texts) \in Nat
      /\ MaxNews \in Nat /\ MaxDeeds \in Nat
  BY TypesApart, PageAssumption, SeqFacts DEF HistoryTyped
<1>2. /\ counts[what] < max
      /\ counts' = [counts EXCEPT ![what] = counts[what] + 1]
  BY DEF Count
<1>3. /\ counts.news \in 0..MaxNews /\ counts.deeds \in 0..MaxDeeds
      /\ counts = [news |-> counts.news, deeds |-> counts.deeds]
  BY <1>1
<1>4. CASE what = "news" /\ max = MaxNews
  <2>1. counts' = [news |-> counts.news + 1, deeds |-> counts.deeds] /\ counts.news + 1 \in 0..MaxNews
    <3>1. counts.news < MaxNews /\ counts' = [counts EXCEPT !.news = counts.news + 1]
      BY <1>2, <1>4
    <3>2. counts.news + 1 \in 0..MaxNews
      BY <3>1, <1>1, <1>3
    <3>3. counts' = [news |-> counts.news + 1, deeds |-> counts.deeds]
      BY ONLY <3>1, <1>3
    <3> QED  BY <3>2, <3>3
  <2> QED  BY <2>1, <1>1, <1>3
<1>5. CASE what = "deeds" /\ max = MaxDeeds
  <2>1. counts' = [news |-> counts.news, deeds |-> counts.deeds + 1] /\ counts.deeds + 1 \in 0..MaxDeeds
    <3>1. counts.deeds < MaxDeeds /\ counts' = [counts EXCEPT !.deeds = counts.deeds + 1]
      BY <1>2, <1>5
    <3>2. counts.deeds + 1 \in 0..MaxDeeds
      BY <3>1, <1>1, <1>3
    <3>3. counts' = [news |-> counts.news, deeds |-> counts.deeds + 1]
      BY ONLY <3>1, <1>3
    <3> QED  BY <3>2, <3>3
  <2> QED  BY <2>1, <1>1, <1>3
<1> QED  BY <1>4, <1>5

\* What users do.
LEMMA DeedTypes ==
    ASSUME TypeInv, Inv, Grows, NEW p \in Page, NEW method \in Method, NEW arg \in AnItem,
           Deed(p, method, arg), SoundCall(Ask(method, arg))'
    PROVE  /\ RpcTyped' /\ SoundWire' /\ ProcessTyped' /\ BookTyped'
           /\ counts' \in [news : 0..MaxNews, deeds : 0..MaxDeeds]
           /\ Len(texts) + 1 <= counts'.news + counts'.deeds
           /\ Len(texts) \in Nat /\ Len(texts) + 1 \in 1..MaxNews + MaxDeeds
           /\ UNCHANGED <<process, pages, leavers, misled>>
<1>1. /\ Count("deeds", MaxDeeds)
      /\ Call(p, <<Ask(method, arg)>>)
      /\ UNCHANGED <<open, messages, answered, server, process, pages, leavers, misled>>
  BY DEF Deed
<1>2. Ask(method, arg) \in Calling
  BY DEF Ask, Calling
<1>3. <<Ask(method, arg)>> \in Seq(Calling) /\ ToSet(<<Ask(method, arg)>>) = {Ask(method, arg)}
  BY <1>2, ShortFacts
<1>4. open' \in [Page -> {"connecting", "open", "closed"}]
  BY <1>1, RpcOf DEF RpcTyped
<1>5. RpcTyped' /\ SoundWire'
  <2>1. \A c \in ToSet(<<Ask(method, arg)>>) : SoundCall(c)'
    BY <1>3
  <2> QED  BY <1>1, <1>3, <1>4, <2>1, CallTypes
<1>6. ProcessTyped' /\ BookTyped'
  BY <1>1, ProcessStays DEF process, book
<1> QED  BY <1>1, <1>5, <1>6, CountTypes

LEMMA HistoryStays ==
    ASSUME TypeInv, UNCHANGED <<talks, leavers, misled>>,
           counts' \in [news : 0..MaxNews, deeds : 0..MaxDeeds],
           Len(texts) + 1 <= counts'.news + counts'.deeds
    PROVE  HistoryTyped'
<1>1. HistoryTyped
  BY TypesApart
<1>2. /\ Len(texts) \in Nat /\ counts'.news \in Int /\ counts'.deeds \in Int
  BY <1>1 DEF HistoryTyped
<1>3. Len(texts) <= counts'.news + counts'.deeds
  BY <1>2
<1> QED  BY <1>1, <1>3 DEF HistoryTyped, talks

LEMMA GreetingCalls ==
    /\ Greeting \in Seq(Calling) /\ DOMAIN Greeting = 1..7
    /\ \A k \in 1..7 : Greeting[k].method \notin {"updateNickname", "addConversation", "sendMessage"}
<1>1. /\ \A k \in 1..7 : Greeting[k] \in Calling
      /\ \A k \in 1..7 : Greeting[k].method \notin {"updateNickname", "addConversation", "sendMessage"}
  <2>1. /\ \A s \in Stream : Item(s, 0, 0) \in AnItem
        /\ NoItem \in AnItem
    BY Values DEF NoItem
  <2>2. /\ \A s \in Stream : Subscription(s) \in Calling /\ Subscription(s).method = "subscribe"
        /\ Ask("getConversations", NoItem) \in Calling
        /\ Ask("getUsers", NoItem) \in Calling
        /\ Ask("getConversations", NoItem).method = "getConversations"
        /\ Ask("getUsers", NoItem).method = "getUsers"
    BY <2>1, PageAssumption DEF Subscription, Ask, Calling
  <2>3. {"newConversation", "leaveConversation", "newUser", "removeUser", "newMessage"} \subseteq Stream
    BY PageAssumption
  <2> QED  BY <2>2, <2>3 DEF Greeting
<1>2. Greeting \in Seq(Calling) /\ DOMAIN Greeting = 1..7
  <2>1. Greeting \in [1..7 -> Calling] /\ DOMAIN Greeting = 1..7
    BY <1>1 DEF Greeting
  <2> QED  BY <2>1, FunctionIsSeq
<1> QED  BY <1>1, <1>2

LEMMA ConnectTypes ==
    ASSUME TypeInv, Inv, NEW p \in Page, Connect(p)
    PROVE  TypeInv'
<1>1. /\ open' = [open EXCEPT ![p] = "open"]
      /\ Call(p, Greeting)
      /\ UNCHANGED <<messages, answered, server, process, pages, history, counts>>
  BY DEF Connect
<1>2. open' \in [Page -> {"connecting", "open", "closed"}]
  BY <1>1, RpcOf DEF RpcTyped
<1>4. /\ Greeting \in Seq(Calling) /\ DOMAIN Greeting = 1..7
      /\ \A k \in 1..7 : Greeting[k].method \notin {"updateNickname", "addConversation", "sendMessage"}
  BY GreetingCalls
<1>5. \A c \in ToSet(Greeting) : SoundCall(c)'
  <2>1. \A c \in ToSet(Greeting) : c.method \notin {"updateNickname", "addConversation", "sendMessage"}
    BY <1>4 DEF ToSet
  <2> QED  BY <2>1 DEF SoundCall
<1>6. RpcTyped' /\ SoundWire'
  <2>1. Grows
    BY <1>1, SameGrows DEF process, book, history, talks
  <2> QED  BY <1>1, <1>2, <1>4, <1>5, <2>1, CallTypes
<1>7. ProcessTyped' /\ BookTyped' /\ PagesTyped' /\ HistoryTyped'
  BY <1>1, ProcessStays DEF process, book, history, talks
<1> QED  BY <1>6, <1>7, TypesLater

LEMMA ClosePageTypes ==
    ASSUME TypeInv, Inv, NEW p \in Page, ClosePage(p)
    PROVE  TypeInv'
<1>1. /\ Count("deeds", MaxDeeds)
      /\ open' = [open EXCEPT ![p] = "closed"]
      /\ messages' = [messages EXCEPT ![p] = <<>>]
      /\ UNCHANGED <<nextId, callbacks, answered, requests, server, process, pages, history>>
  BY DEF ClosePage
<1>2. RpcTyped /\ SoundWire
  BY RpcOf
<1>3. RpcTyped'
  BY <1>1, <1>2 DEF RpcTyped, server
<1>4. SoundWire'
  <2>1. Grows
    BY <1>1, SameGrows DEF process, book, history, talks
  <2>2. \A q \in Page : messages'[q] = IF q = p THEN <<>> ELSE messages[q]
    BY <1>1, <1>2 DEF RpcTyped
  <2>3. \A q \in Page : \A m \in ToSet(messages'[q]) : m \in ToSet(messages[q])
    BY <2>2, ShortFacts
  <2>4. requests' = requests /\ outbox' = outbox
    BY <1>1 DEF server
  <2> QED  BY <1>2, <2>1, <2>3, <2>4, StaySound
<1>5. ProcessTyped' /\ BookTyped' /\ PagesTyped'
  BY <1>1, ProcessStays DEF process, book, history, talks
<1>6. HistoryTyped'
  BY <1>1, CountTypes, HistoryStays DEF history
<1> QED  BY <1>3, <1>4, <1>5, <1>6, TypesLater

LEMMA ChooseNicknameTypes ==
    ASSUME TypeInv, Inv, NEW p \in Page, NEW x \in OwnNames, ChooseNickname(p, x)
    PROVE  TypeInv'
<1>1. Deed(p, "updateNickname", Item(x, 0, 0)) /\ UNCHANGED talks
  BY DEF ChooseNickname
<1>2. Item(x, 0, 0) \in AnItem /\ "updateNickname" \in Method /\ x \in Nick
  BY Values, PageAssumption
<1>3. SoundCall(Ask("updateNickname", Item(x, 0, 0)))'
  BY <1>2 DEF SoundCall, Ask, Item
<1>4. Grows
  BY <1>1, SameGrows DEF Deed, process, book, talks
<1>5. /\ RpcTyped' /\ SoundWire' /\ ProcessTyped' /\ BookTyped'
      /\ counts' \in [news : 0..MaxNews, deeds : 0..MaxDeeds]
      /\ Len(texts) + 1 <= counts'.news + counts'.deeds
      /\ UNCHANGED <<process, pages, leavers, misled>>
  BY <1>1, <1>2, <1>3, <1>4, DeedTypes
<1>6. HistoryTyped' /\ PagesTyped'
  BY <1>1, <1>5, HistoryStays, ProcessStays DEF process, book, talks
<1> QED  BY <1>5, <1>6, TypesLater

LEMMA StartConversationTypes ==
    ASSUME TypeInv, Inv, NEW p \in Page, NEW k \in DOMAIN drawn[p], StartConversation(p, k)
    PROVE  TypeInv'
<1>2. drawn[p][k] \in Heard
  <2>1. drawn[p] \in Seq(Heard)
    BY TypesApart DEF PagesTyped
  <2> QED  BY <2>1, SeqFacts
<1>0. PICK x \in Heard : x = drawn[p][k]
  BY <1>2
<1>1. Deed(p, "addConversation", Item(x, 0, 0)) /\ UNCHANGED talks
  BY <1>0 DEF StartConversation
<1>3. Item(x, 0, 0) \in AnItem /\ "addConversation" \in Method
  BY Values, PageAssumption DEF Heard
<1>4. Grows
  BY <1>1, SameGrows DEF Deed, process, book, talks
<1>5. SoundCall(Ask("addConversation", Item(x, 0, 0)))'
  <2>1. SoundCall(Ask("addConversation", Item(x, 0, 0)))
    BY DEF SoundCall, Ask, Item
  <2> QED  BY <2>1, <1>4, SoundGrows
<1>6. /\ RpcTyped' /\ SoundWire' /\ ProcessTyped' /\ BookTyped'
      /\ counts' \in [news : 0..MaxNews, deeds : 0..MaxDeeds]
      /\ Len(texts) + 1 <= counts'.news + counts'.deeds
      /\ UNCHANGED <<process, pages, leavers, misled>>
  BY <1>1, <1>3, <1>4, <1>5, DeedTypes
<1>7. HistoryTyped' /\ PagesTyped'
  BY <1>1, <1>6, HistoryStays, ProcessStays DEF process, book, talks
<1> QED  BY <1>6, <1>7, TypesLater

LEMMA TabFacts ==
    ASSUME TypeInv, NEW p \in Page
    PROVE  /\ tabs[p] \in Seq(TabType(Len(texts)))
           /\ \A k \in DOMAIN tabs[p] :
                 /\ tabs[p][k] \in TabType(Len(texts))
                 /\ tabs[p][k].title \in AnyNick \cup {Title(Empty), Undefined}
                 /\ tabs[p][k].conv \in Talk \cup {Undefined}
                 /\ tabs[p][k].texts \in Seq(1..Len(texts))
<1>1. tabs[p] \in Seq(TabType(Len(texts)))
  BY TypesApart DEF PagesTyped
<1>2. \A k \in DOMAIN tabs[p] : tabs[p][k] \in TabType(Len(texts))
  BY <1>1, SeqFacts
<1> QED  BY <1>1, <1>2 DEF TabType

LEMMA CloseTabTypes ==
    ASSUME TypeInv, Inv, NEW p \in Page, NEW k \in DOMAIN tabs[p], CloseTab(p, k)
    PROVE  TypeInv'
<1>2. PICK c \in Talk \cup {Undefined} : c = tabs[p][k].conv
  BY TabFacts
<1>1. Deed(p, "leaveConversation", Item(Null, c, 0)) /\ UNCHANGED talks
  BY <1>2 DEF CloseTab
<1>3. Item(Null, c, 0) \in AnItem /\ "leaveConversation" \in Method
  BY <1>2, Values, PageAssumption
<1>4. Grows
  BY <1>1, SameGrows DEF Deed, process, book, talks
<1>5. SoundCall(Ask("leaveConversation", Item(Null, c, 0)))'
  BY DEF SoundCall, Ask
<1>6. /\ RpcTyped' /\ SoundWire' /\ ProcessTyped' /\ BookTyped'
      /\ counts' \in [news : 0..MaxNews, deeds : 0..MaxDeeds]
      /\ Len(texts) + 1 <= counts'.news + counts'.deeds
      /\ UNCHANGED <<process, pages, leavers, misled>>
  BY <1>1, <1>3, <1>4, <1>5, DeedTypes
<1>7. HistoryTyped' /\ PagesTyped'
  BY <1>1, <1>6, HistoryStays, ProcessStays DEF process, book, talks
<1> QED  BY <1>6, <1>7, TypesLater

\* A text is written in c, by a user or a peer.
LEMMA TextsGrow ==
    ASSUME TypeInv, NEW c \in Talk \cup {Undefined}, texts' = Append(texts, c)
    PROVE  /\ \A t \in DOMAIN texts : t \in DOMAIN texts' /\ texts'[t] = texts[t]
           /\ texts' \in Seq(Talk \cup {Undefined}) /\ Len(texts') = Len(texts) + 1
           /\ Len(texts) + 1 \in DOMAIN texts' /\ texts'[Len(texts) + 1] = c
           /\ handled \cup {Len(texts) + 1} \subseteq 1..Len(texts')
           /\ UNCHANGED byName => Grows
           /\ UNCHANGED <<byName, pages>> => PagesTyped'
           /\ Len(texts) \in Nat /\ DOMAIN texts = 1..Len(texts)
<1>1. texts \in Seq(Talk \cup {Undefined}) /\ handled \subseteq 1..Len(texts)
      /\ tabs \in [Page -> Seq(TabType(Len(texts)))]
  BY TypesApart DEF HistoryTyped, PagesTyped
<1>2. Len(texts) \in Nat /\ DOMAIN texts = 1..Len(texts)
  BY <1>1, SeqFacts
<1>3. /\ texts' \in Seq(Talk \cup {Undefined}) /\ Len(texts') = Len(texts) + 1
      /\ DOMAIN texts' = 1..Len(texts) + 1
      /\ \A k \in DOMAIN texts : k \in 1..Len(texts) + 1 /\ texts'[k] = texts[k]
      /\ texts'[Len(texts) + 1] = c
  BY <1>1, AppendFacts
<1>4. handled \cup {Len(texts) + 1} \subseteq 1..Len(texts')
  <2>1. 1..Len(texts) \subseteq 1..Len(texts) + 1 /\ Len(texts) + 1 \in 1..Len(texts) + 1
    BY <1>2
  <2> QED  BY <2>1, <1>1, <1>3
<1>5. tabs \in [Page -> Seq(TabType(Len(texts')))]
  <2>1. Len(texts') \in Nat /\ Len(texts) <= Len(texts')
    BY <1>2, <1>3
  <2> QED  BY <2>1, <1>1, <1>2, TabsGrow
<1>6. UNCHANGED byName => Grows
  BY <1>3 DEF Grows, Heard
<1>7. UNCHANGED <<byName, pages>> => PagesTyped'
  BY <1>5, TypesApart DEF PagesTyped, pages, lists, Heard
<1>8. Len(texts) + 1 \in DOMAIN texts'
  BY <1>2, <1>3
<1> QED  BY <1>2, <1>3, <1>4, <1>6, <1>7, <1>8

LEMMA WriteTextTypes ==
    ASSUME TypeInv, Inv, NEW p \in Page, NEW k \in DOMAIN tabs[p], WriteText(p, k)
    PROVE  TypeInv'
<1>2. PICK c \in Talk \cup {Undefined} : c = tabs[p][k].conv
  BY TabFacts
<1>0. PICK t : t = Len(texts) + 1
  OBVIOUS
<1>1. /\ Deed(p, "sendMessage", Item(Null, c, t))
      /\ texts' = Append(texts, c)
      /\ UNCHANGED <<handled, partner, left, improvised>>
  BY <1>2, <1>0 DEF WriteText
<1>3. t \in 1..MaxNews + MaxDeeds
  BY <1>0, <1>1, CountTypes DEF Deed
<1>4. Item(Null, c, t) \in AnItem /\ "sendMessage" \in Method
  <2>1. t \in 0..MaxNews + MaxDeeds
    BY <1>3
  <2> QED  BY <1>2, <2>1, Values, PageAssumption
<1>5. /\ texts' \in Seq(Talk \cup {Undefined}) /\ Len(texts') = Len(texts) + 1
      /\ t \in DOMAIN texts' /\ texts'[t] = c
      /\ handled \subseteq 1..Len(texts')
  BY <1>0, <1>1, <1>2, TextsGrow
<1>6. Grows /\ PagesTyped'
  <2>1. UNCHANGED <<byName, pages>>
    BY <1>1 DEF Deed, process, book
  <2> QED  BY <2>1, <1>1, <1>2, TextsGrow
<1>7. SoundCall(Ask("sendMessage", Item(Null, c, t)))'
  BY <1>5 DEF SoundCall, Ask, Item, Written
<1>8. /\ RpcTyped' /\ SoundWire' /\ ProcessTyped' /\ BookTyped'
      /\ counts' \in [news : 0..MaxNews, deeds : 0..MaxDeeds]
      /\ Len(texts) + 1 <= counts'.news + counts'.deeds
      /\ UNCHANGED <<process, pages, leavers, misled>>
  BY <1>1, <1>4, <1>6, <1>7, DeedTypes
<1>9. HistoryTyped'
  BY <1>1, <1>5, <1>8, TypesApart DEF HistoryTyped
<1> QED  BY <1>6, <1>8, <1>9, TypesLater

LEMMA ServeTypes ==
    ASSUME TypeInv, NEW p \in Page, NEW method, NEW sends \in Seq(Sent),
           Served(p, method, sends), \A m \in ToSet(sends) : SoundMessage(m),
           subscribers' \in [Stream -> SUBSET Page],
           UNCHANGED <<Unserved, book, texts>>, ProcessTyped', HistoryTyped'
    PROVE  TypeInv'
<1>1. Grows
  BY SameGrows DEF book
<1>2. RpcTyped' /\ SoundWire'
  <2>1. \A m \in ToSet(sends) : SoundMessage(m)'
    BY <1>1, SoundGrows
  <2> QED  BY <1>1, <2>1, ServedTypes DEF Unserved
<1>3. BookTyped' /\ PagesTyped'
  BY ProcessStays DEF book, Unserved
<1> QED  BY <1>2, <1>3, TypesLater

LEMMA SameStays ==
    ASSUME TypeInv
    PROVE  /\ UNCHANGED process => ProcessTyped'
           /\ UNCHANGED subscribers => subscribers' \in [Stream -> SUBSET Page]
           /\ UNCHANGED <<Unserved, talks>> => HistoryTyped'
BY ProcessStays, RpcOf DEF process, book, RpcTyped, Unserved, history, talks

LEMMA OneSent ==
    ASSUME NEW m \in Sent, SoundMessage(m)
    PROVE  <<m>> \in Seq(Sent) /\ \A x \in ToSet(<<m>>) : SoundMessage(x)
BY ShortFacts

LEMMA TwoSent ==
    ASSUME NEW m \in Sent, NEW n \in Sent, SoundMessage(m), SoundMessage(n)
    PROVE  <<m, n>> \in Seq(Sent) /\ \A x \in ToSet(<<m, n>>) : SoundMessage(x)
BY ShortFacts

LEMMA ArgumentOf ==
    ASSUME TypeInv, NEW p \in Page, NEW method, NEW sends, Served(p, method, sends)
    PROVE  /\ Request(p) \in Asking /\ Request(p).method = method /\ SoundCall(Request(p))
           /\ Request(p).arg \in AnItem
           /\ Request(p).arg.conv \in Talk \cup {0, Undefined}
<1>1. Request(p) \in Asking /\ Request(p).method = method /\ SoundCall(Request(p))
  BY ServedShape
<1>2. Request(p).arg \in AnItem
  BY <1>1 DEF Asking
<1> QED  BY <1>1, <1>2 DEF AnItem

LEMMA ServeSubscribeTypes ==
    ASSUME TypeInv, NEW p \in Page, ServeSubscribe(p)
    PROVE  TypeInv'
<1> DEFINE r == Request(p)
<1>1. /\ Served(p, "subscribe", <<Result(r, <<>>)>>)
      /\ subscribers' = [subscribers EXCEPT ![r.arg.name] = @ \cup {p}]
      /\ UNCHANGED <<Unserved, process, talks>>
  BY DEF ServeSubscribe, Subscribe
<1>2. r \in Asking /\ r.method = "subscribe"
  BY <1>1, ArgumentOf
<1> HIDE DEF r
<1>3. subscribers' \in [Stream -> SUBSET Page]
  <2>1. subscribers \in [Stream -> SUBSET Page]
    BY RpcOf DEF RpcTyped
  <2> QED  BY <1>1, <2>1
<1>4. Result(r, <<>>) \in Sent /\ SoundMessage(Result(r, <<>>))
  BY <1>2, Values, ShortFacts, SoundSilence
<1> QED  BY <1>1, <1>3, <1>4, OneSent, SameStays, ServeTypes DEF process, talks

LEMMA ServeUpdateNicknameTypes ==
    ASSUME TypeInv, NEW p \in Page, ServeUpdateNickname(p)
    PROVE  TypeInv'
<1> DEFINE r == Request(p)
           x == r.arg.name
           y == IF byName[x] = Nobody THEN x ELSE Empty
<1>1. /\ Served(p, "updateNickname", <<Result(r, <<Item(y, 0, 0)>>)>>)
      /\ nickname' = IF byName[x] = Nobody THEN x ELSE nickname
      /\ UNCHANGED <<Unserved, subscribers, book, convs, running, talks>>
  BY DEF ServeUpdateNickname
<1>2. r \in Asking /\ r.method = "updateNickname" /\ x \in AnyNick
  <2>1. r \in Asking /\ r.method = "updateNickname" /\ SoundCall(r)
    BY <1>1, ArgumentOf
  <2> QED  BY <2>1 DEF SoundCall, AnyNick
<1>3. nickname' \in AnyNick /\ y \in AnyNick
  <2>1. nickname \in AnyNick
    BY TypesApart DEF ProcessTyped
  <2> QED  BY <2>1, <1>1, <1>2, Values
<1> HIDE DEF r, x, y
<1>4. Result(r, <<Item(y, 0, 0)>>) \in Sent /\ SoundMessage(Result(r, <<Item(y, 0, 0)>>))
  <2>1. Item(y, 0, 0) \in AnItem
    BY <1>3, Values
  <2>2. <<Item(y, 0, 0)>> \in Seq(AnItem)
    BY <2>1, ShortFacts
  <2> QED  BY <1>2, <2>2, Values, SoundSilence
<1>5. ProcessTyped'
  BY <1>1, <1>3, TypesApart DEF ProcessTyped, book
<1> QED  BY <1>1, <1>4, <1>5, OneSent, SameStays, ServeTypes DEF talks

LEMMA ServeSendMessageTypes ==
    ASSUME TypeInv, NEW p \in Page, ServeSendMessage(p)
    PROVE  TypeInv'
<1> DEFINE r == Request(p)
<1>1. /\ Served(p, "sendMessage", <<Result(r, <<r.arg>>)>>)
      /\ UNCHANGED <<Unserved, subscribers, process, talks>>
  BY DEF ServeSendMessage
<1>2. r \in Asking /\ r.method = "sendMessage" /\ r.arg \in AnItem /\ Written(r.arg)
  <2>1. r \in Asking /\ r.method = "sendMessage" /\ SoundCall(r) /\ r.arg \in AnItem
    BY <1>1, ArgumentOf
  <2> QED  BY <2>1 DEF SoundCall
<1> HIDE DEF r
<1>3. Result(r, <<r.arg>>) \in Sent /\ SoundMessage(Result(r, <<r.arg>>))
  <2>1. <<r.arg>> \in Seq(AnItem) /\ <<r.arg>>[1] = r.arg
    BY <1>2, ShortFacts
  <2> QED  BY <1>2, <2>1, Values, SoundTexts
<1> QED  BY <1>1, <1>3, OneSent, SameStays, ServeTypes DEF process, talks

LEMMA ListedOnes ==
    ASSUME TypeInv
    PROVE  /\ Listed \subseteq Talk /\ Listed \subseteq Int /\ IsFiniteSet(Listed)
           /\ \A c \in Listed : convs[c] \in AnyNick
<1>1. Listed \subseteq Talk /\ Talk \subseteq Int
  BY PageAssumption DEF Listed, Talk, Everyone
<1>2. IsFiniteSet(Talk)
  BY PageAssumption, FS_AddElement DEF Talk
<1>3. IsFiniteSet(Listed)
  BY <1>1, <1>2, FS_Subset
<1>4. \A c \in Listed : convs[c] \in AnyNick
  BY TypesApart DEF ProcessTyped, Listed
<1> QED  BY <1>1, <1>3, <1>4

\* The value of getConversations.
Roll == [k \in DOMAIN Sorted(Listed) |-> Item(convs[Sorted(Listed)[k]], Sorted(Listed)[k], 0)]

LEMMA RollFacts ==
    ASSUME TypeInv
    PROVE  /\ Roll \in Seq(AnItem)
           /\ \A i \in ToSet(Roll) : i.name \in AnyNick /\ i.conv \in Listed
           /\ \A c \in Listed : \E i \in ToSet(Roll) : i.conv = c
<1> DEFINE n == Cardinality(Listed)
           s == Sorted(Listed)
<1>1. /\ n \in Nat /\ DOMAIN s = 1..n
      /\ \A i \in 1..n : s[i] \in Listed
      /\ \A k \in Listed : \E i \in 1..n : s[i] = k
  BY ListedOnes, SortedElements
<1>2. \A k \in 1..n : Roll[k] = Item(convs[s[k]], s[k], 0)
  BY <1>1 DEF Roll
<1>3. DOMAIN Roll = 1..n
  BY <1>1 DEF Roll
<1> HIDE DEF n, s
<1>4. \A k \in 1..n : Roll[k] \in AnItem /\ Roll[k].name \in AnyNick /\ Roll[k].conv = s[k]
  <2> SUFFICES ASSUME NEW k \in 1..n
               PROVE  Roll[k] \in AnItem /\ Roll[k].name \in AnyNick /\ Roll[k].conv = s[k]
    OBVIOUS
  <2>1. s[k] \in Talk /\ convs[s[k]] \in AnyNick
    BY <1>1, ListedOnes
  <2> QED  BY <1>2, <2>1, Values
<1>5. Roll \in Seq(AnItem)
  <2>1. Roll = [k \in 1..n |-> Roll[k]]
    BY <1>3 DEF Roll
  <2>2. Roll \in [1..n -> AnItem]
    BY <2>1, <1>4
  <2> QED  BY <2>2, <1>1, FunctionIsSeq
<1>6. \A i \in ToSet(Roll) : i.name \in AnyNick /\ i.conv \in Listed
  BY <1>1, <1>3, <1>4 DEF ToSet
<1>7. ASSUME NEW c \in Listed PROVE \E i \in ToSet(Roll) : i.conv = c
  <2>1. PICK k \in 1..n : s[k] = c
    BY <1>1
  <2>2. Roll[k] \in ToSet(Roll)
    BY <1>3 DEF ToSet
  <2> QED  BY <1>4, <2>1, <2>2
<1> QED  BY <1>5, <1>6, <1>7

LEMMA ServeGetConversationsTypes ==
    ASSUME TypeInv, NEW p \in Page, ServeGetConversations(p)
    PROVE  TypeInv'
<1> DEFINE r == Request(p)
<1>1. /\ Served(p, "getConversations", <<Result(r, Roll)>>)
      /\ UNCHANGED <<Unserved, subscribers, process, talks>>
  BY DEF ServeGetConversations, Roll
<1>2. r \in Asking /\ r.method = "getConversations"
  BY <1>1, ArgumentOf
<1> HIDE DEF r
<1>3. Result(r, Roll) \in Sent /\ SoundMessage(Result(r, Roll))
  <2>1. \A i \in ToSet(Roll) : i.name \in AnyNick \cup {Undefined} /\ i.conv \in Talk \cup {Undefined}
    BY RollFacts, ListedOnes
  <2> QED  BY <1>2, <2>1, RollFacts, Values, SoundTalks
<1> QED  BY <1>1, <1>3, OneSent, SameStays, ServeTypes DEF process, talks

\* The value of getUsers.
KnownOnes == {a \in Peer : byAddress[a] # Absent}
Register == [k \in DOMAIN SetToSeq(KnownOnes) |-> Item(byAddress[SetToSeq(KnownOnes)[k]], 0, 0)]

LEMMA RegisterFacts ==
    ASSUME TypeInv
    PROVE  /\ Register \in Seq(AnItem)
           /\ \A i \in ToSet(Register) : i.name \in Heard
           /\ \A a \in Peer : Known(a) => \E i \in ToSet(Register) : i.name = byAddress[a]
<1> DEFINE n == Cardinality(KnownOnes)
           s == SetToSeq(KnownOnes)
<1>0. KnownOnes \subseteq Peer /\ IsFiniteSet(KnownOnes)
  <2>1. KnownOnes \subseteq Peer
    BY DEF KnownOnes
  <2> QED  BY <2>1, PageAssumption, FS_Subset
<1>1. /\ n \in Nat /\ DOMAIN s = 1..n
      /\ \A i \in 1..n : s[i] \in KnownOnes
      /\ \A k \in KnownOnes : \E i \in 1..n : s[i] = k
  BY <1>0, SetToSeqElements
<1>2. \A k \in 1..n : Register[k] = Item(byAddress[s[k]], 0, 0)
  BY <1>1 DEF Register
<1>3. DOMAIN Register = 1..n
  BY <1>1 DEF Register
<1> HIDE DEF n, s
<1>4. \A k \in 1..n : Register[k] \in AnItem /\ Register[k].name = byAddress[s[k]] /\ byAddress[s[k]] \in Heard
  <2> SUFFICES ASSUME NEW k \in 1..n
               PROVE  Register[k] \in AnItem /\ Register[k].name = byAddress[s[k]] /\ byAddress[s[k]] \in Heard
    OBVIOUS
  <2>1. byAddress[s[k]] \in Heard
    BY <1>1, TypesApart DEF BookTyped, KnownOnes
  <2>2. byAddress[s[k]] \in AnyNick
    BY <2>1 DEF Heard
  <2>3. /\ Item(byAddress[s[k]], 0, 0) \in AnItem
        /\ Item(byAddress[s[k]], 0, 0).name = byAddress[s[k]]
    BY <2>2, NameOnly
  <2> QED  BY <1>2, <2>1, <2>3
<1>5. Register \in Seq(AnItem)
  <2>1. Register = [k \in 1..n |-> Register[k]]
    BY <1>3 DEF Register
  <2>2. Register \in [1..n -> AnItem]
    BY <2>1, <1>4
  <2> QED  BY <2>2, <1>1, FunctionIsSeq
<1>6. \A i \in ToSet(Register) : i.name \in Heard
  BY <1>3, <1>4 DEF ToSet
<1>7. ASSUME NEW a \in Peer, Known(a) PROVE \E i \in ToSet(Register) : i.name = byAddress[a]
  <2>1. PICK k \in 1..n : s[k] = a
    BY <1>1, <1>7 DEF Known, KnownOnes
  <2>2. Register[k] \in ToSet(Register)
    BY <1>3 DEF ToSet
  <2> QED  BY <1>4, <2>1, <2>2
<1> QED  BY <1>5, <1>6, <1>7

LEMMA ServeGetUsersTypes ==
    ASSUME TypeInv, NEW p \in Page, ServeGetUsers(p)
    PROVE  TypeInv'
<1> DEFINE r == Request(p)
<1>1. /\ Served(p, "getUsers", <<Result(r, Register)>>)
      /\ UNCHANGED <<Unserved, subscribers, process, talks>>
  BY DEF ServeGetUsers, Register, KnownOnes
<1>2. r \in Asking /\ r.method = "getUsers"
  BY <1>1, ArgumentOf
<1> HIDE DEF r
<1>3. Result(r, Register) \in Sent /\ SoundMessage(Result(r, Register))
  BY <1>2, RegisterFacts, Values, SoundUsers
<1> QED  BY <1>1, <1>3, OneSent, SameStays, ServeTypes DEF process, talks

LEMMA ServeAddConversationTypes ==
    ASSUME TypeInv, NEW p \in Page, NEW c \in ConvId, ServeAddConversation(p, c)
    PROVE  TypeInv'
<1> DEFINE r == Request(p)
           x == r.arg.name
           m == Note("newConversation", <<Item(x, c, 0)>>)
<1>1. /\ Served(p, "addConversation", <<m, Result(r, <<>>)>>)
      /\ convs' = [convs EXCEPT ![c] = x]
      /\ partner' = [partner EXCEPT ![c] = byName[x]]
      /\ UNCHANGED <<Unserved, subscribers, nickname, book, running, texts, handled, left, improvised>>
  BY DEF ServeAddConversation
<1>2. r \in Asking /\ r.method = "addConversation" /\ x \in AnyNick
  <2>1. r \in Asking /\ r.method = "addConversation" /\ SoundCall(r)
    BY <1>1, ArgumentOf
  <2> QED  BY <2>1 DEF SoundCall, Heard
<1> HIDE DEF r, x
<1>3. m \in Sent /\ SoundMessage(m)
  <2>1. c \in Talk
    BY DEF Talk
  <2>2. Item(x, c, 0) \in AnItem /\ Item(x, c, 0).name = x /\ Item(x, c, 0).conv = c
    BY <1>2, <2>1, Values
  <2>3. <<Item(x, c, 0)>> \in Seq(AnItem) /\ ToSet(<<Item(x, c, 0)>>) = {Item(x, c, 0)}
    BY <2>2, ShortFacts
  <2>4. "newConversation" \in Stream
    BY PageAssumption
  <2>5. \A i \in ToSet(<<Item(x, c, 0)>>) : i.name \in AnyNick \cup {Undefined} /\ i.conv \in Talk \cup {Undefined}
    BY <1>2, <2>1, <2>2, <2>3
  <2>6. SoundMessage(m)
    BY <2>5, SoundTalks
  <2> QED  BY <2>3, <2>4, <2>6, Values
<1> HIDE DEF m
<1>4. Result(r, <<>>) \in Sent /\ SoundMessage(Result(r, <<>>))
  BY <1>2, Values, ShortFacts, SoundSilence
<1>5. ProcessTyped' /\ partner' \in [Talk -> Peer \cup {Nobody}]
  BY <1>1, <1>2, TypesApart DEF ProcessTyped, HistoryTyped, book
<1>6. HistoryTyped'
  BY <1>1, <1>5, TypesApart DEF HistoryTyped, Unserved
<1>7. subscribers' \in [Stream -> SUBSET Page]
  BY <1>1, SameStays
<1> QED  BY <1>1, <1>3, <1>4, <1>5, <1>6, <1>7, TwoSent, ServeTypes

LEMMA ServeLeaveConversationTypes ==
    ASSUME TypeInv, NEW p \in Page, ServeLeaveConversation(p)
    PROVE  TypeInv'
<1> DEFINE r == Request(p)
           c == r.arg.conv
           m == Note("leaveConversation", <<Item(Null, c, 0)>>)
<1>1. /\ Served(p, "leaveConversation", <<m, Result(r, <<>>)>>)
      /\ convs' = [convs EXCEPT ![c] = Absent]
      /\ UNCHANGED <<Unserved, subscribers, nickname, book, running, talks>>
  BY DEF ServeLeaveConversation
<1>2. r \in Asking /\ r.method = "leaveConversation" /\ c \in Talk \cup {0, Undefined}
  BY <1>1, ArgumentOf
<1> HIDE DEF r, c
<1>3. m \in Sent /\ SoundMessage(m)
  <2>1. Item(Null, c, 0) \in AnItem
    BY <1>2, Values
  <2>2. <<Item(Null, c, 0)>> \in Seq(AnItem) /\ "leaveConversation" \in Stream
    BY <2>1, ShortFacts, PageAssumption
  <2> QED  BY <2>2, Values, SoundSilence
<1> HIDE DEF m
<1>4. Result(r, <<>>) \in Sent /\ SoundMessage(Result(r, <<>>))
  BY <1>2, Values, ShortFacts, SoundSilence
<1>5. ProcessTyped'
  BY <1>1, TypesApart DEF ProcessTyped, book
<1> QED  BY <1>1, <1>3, <1>4, <1>5, TwoSent, SameStays, ServeTypes DEF talks

LEMMA ServeFailingTypes ==
    ASSUME TypeInv, NEW p \in Page, ServeFailing(p)
    PROVE  TypeInv'
<1> DEFINE r == Request(p)
<1>1. /\ \E method : Served(p, method, <<Failure(r)>>)
      /\ UNCHANGED <<Unserved, subscribers, process, talks>>
  BY DEF ServeFailing
<1>2. r \in Asking
  BY <1>1, ArgumentOf
<1> HIDE DEF r
<1>3. Failure(r) \in Sent /\ SoundMessage(Failure(r))
  BY <1>2, Values, SoundSilence
<1> QED  BY <1>1, <1>3, OneSent, SameStays, ServeTypes DEF process, talks

LEMMA SendTypes ==
    ASSUME TypeInv, NEW t \in Thread, SendNext(t)
    PROVE  TypeInv'
<1> DEFINE x == Head(outbox[t])
<1>1. /\ outbox[t] # <<>>
      /\ outbox' = [outbox EXCEPT ![t] = Tail(@)]
      /\ messages' \in [Page -> Seq(Sent)]
      /\ \A p \in Page : ToSet(messages'[p]) \subseteq ToSet(messages[p]) \cup {x}
      /\ UNCHANGED <<client, requests, subscribers, process, pages, history, counts>>
  BY SendShape
<1>2. /\ ToSet(outbox[t]) = {x} \cup ToSet(Tail(outbox[t]))
      /\ outbox' \in [Thread -> Seq(Sent)]
      /\ \A u \in Thread : ToSet(outbox'[u]) \subseteq ToSet(outbox[u])
  BY <1>1, OutboxShrinks
<1> HIDE DEF x
<1>3. RpcTyped'
  BY <1>1, <1>2, RpcOf DEF RpcTyped, client
<1>4. SoundWire'
  <2>1. Grows
    BY <1>1, SameGrows DEF process, book, history, talks
  <2>2. \A p \in Page : \A m \in ToSet(messages'[p]) :
           m \in ToSet(messages[p]) \/ \E u \in Thread : m \in ToSet(outbox[u])
    BY <1>1, <1>2
  <2>3. requests' = requests /\ \A u \in Thread : \A m \in ToSet(outbox'[u]) : m \in ToSet(outbox[u])
    BY <1>1, <1>2
  <2> QED  BY <2>1, <2>2, <2>3, RpcOf, StaySound
<1>5. ProcessTyped' /\ BookTyped' /\ PagesTyped' /\ HistoryTyped'
  BY <1>1, ProcessStays DEF process, book, history, talks
<1> QED  BY <1>3, <1>4, <1>5, TypesLater

----------------------------------------------------------------------------
(* What peers send.                                                        *)

LEMMA NewsShape ==
    ASSUME TypeInv, NEW sends, News(sends)
    PROVE  /\ outbox' = [outbox EXCEPT ![Handler] = sends] /\ outbox[Handler] = <<>> /\ running
           /\ counts' \in [news : 0..MaxNews, deeds : 0..MaxDeeds]
           /\ Len(texts) + 1 <= counts'.news + counts'.deeds
           /\ Len(texts) \in Nat /\ Len(texts) + 1 \in 1..MaxNews + MaxDeeds
BY CountTypes DEF News, Free

LEMMA NameOf ==
    ASSUME TypeInv, NEW a \in Peer, Known(a)
    PROVE  byAddress[a] \in Heard /\ byAddress[a] \in AnyNick
BY TypesApart DEF BookTyped, Known, Heard

LEMMA HandleNickChangeTypes ==
    ASSUME TypeInv, NEW a \in Peer, NEW x \in AnyNick, HandleNickChange(a, x)
    PROVE  TypeInv'
<1> DEFINE m == Note("newUser", <<Item(x, 0, 0)>>)
<1>1. /\ News(<<m>>)
      /\ byName' = [byName EXCEPT ![x] = a]
      /\ byAddress' = [byAddress EXCEPT ![a] = x]
      /\ leavers' = leavers \ {x}
      /\ UNCHANGED <<Unmoved, convs, talks, misled>>
  BY DEF HandleNickChange
<1>2. byName' \in [AnyNick -> Peer \cup {Nobody}]
  BY <1>1, TypesApart DEF ProcessTyped
<1>3. Heard \subseteq Heard' /\ x \in Heard'
  <2>1. byName \in [AnyNick -> Peer \cup {Nobody}] /\ a # Nobody
    BY TypesApart, PageAssumption DEF ProcessTyped
  <2> QED  BY <1>1, <2>1 DEF Heard
<1>4. Grows
  BY <1>1, <1>3 DEF Grows, talks
<1>5. m \in Sent
  <2>1. <<Item(x, 0, 0)>> \in Seq(AnItem) /\ "newUser" \in Stream
    BY NameOnly, ShortFacts, PageAssumption
  <2> QED  BY <2>1, Values
<1>6. SoundMessage(m)'
  <2>1. ToSet(<<Item(x, 0, 0)>>) = {Item(x, 0, 0)} /\ Item(x, 0, 0).name = x
    BY NameOnly, ShortFacts
  <2>2. \A i \in ToSet(m.value) : i.name \in Heard'
    BY <2>1, <1>3 DEF Note
  <2>3. m.kind = "note" /\ m.of = "newUser"
    BY DEF Note
  <2> HIDE DEF m
  <2> QED  BY <2>2, <2>3 DEF SoundMessage, HasText, HasTalks, HasUsers, IsNote, IsResult
<1> HIDE DEF m
<1>7. /\ outbox' = [outbox EXCEPT ![Handler] = <<m>>]
      /\ counts' \in [news : 0..MaxNews, deeds : 0..MaxDeeds]
      /\ Len(texts) + 1 <= counts'.news + counts'.deeds /\ Len(texts) \in Nat
  BY <1>1, NewsShape
<1>8. RpcTyped' /\ SoundWire'
  <2>1. <<m>> \in Seq(Sent) /\ \A y \in ToSet(<<m>>) : SoundMessage(y)'
    BY <1>5, <1>6, ShortFacts
  <2> QED  BY <1>1, <1>4, <1>7, <2>1, NewsTypes DEF Unmoved
<1>9. ProcessTyped'
  BY <1>1, <1>2, TypesApart DEF ProcessTyped, Unmoved
<1>10. BookTyped'
  <2>1. byAddress \in [Peer -> Heard' \cup {Absent}]
    BY <1>3, TypesApart DEF BookTyped
  <2> QED  BY <1>1, <1>3, <2>1 DEF BookTyped
<1>11. PagesTyped'
  <2>1. PagesTyped
    BY TypesApart
  <2>2. \A p \in Page : users[p] \in Seq(Heard') /\ drawn[p] \in Seq(Heard')
    BY <2>1, <1>3, SeqSubset DEF PagesTyped
  <2>3. users \in [Page -> Seq(Heard')] /\ drawn \in [Page -> Seq(Heard')]
    BY <2>1, <2>2 DEF PagesTyped
  <2> QED  BY <1>1, <2>1, <2>3 DEF PagesTyped, Unmoved, pages, lists, talks
<1>12. HistoryTyped'
  <2>1. Len(texts) <= counts'.news + counts'.deeds
    BY <1>7
  <2> QED  BY <1>1, <1>7, <2>1, TypesApart DEF HistoryTyped, talks
<1> QED  BY <1>8, <1>9, <1>10, <1>11, <1>12, TypesLater

LEMMA HandleTextTypes ==
    ASSUME TypeInv, NEW a \in Peer, NEW c \in Talk, HandleText(a, c)
    PROVE  TypeInv'
<1>0. PICK t : t = Len(texts) + 1
  OBVIOUS
<1>1. PICK x : x = byAddress[a]
  OBVIOUS
<1> DEFINE m == Note("newMessage", <<Item(x, c, t)>>)
           made == Note("newConversation", <<Item(Undefined, Undefined, 0)>>)
<1>2. /\ Known(a)
      /\ texts' = Append(texts, c)
      /\ handled' = handled \cup {t}
      /\ \/ News(<<m>>) /\ UNCHANGED <<convs, improvised>>
         \/ /\ News(<<made, m>>)
            /\ convs' = [convs EXCEPT ![c] = x]
            /\ improvised' = improvised \cup {c}
      /\ UNCHANGED <<Unmoved, book, partner, left, leavers, misled>>
  BY <1>0, <1>1 DEF HandleText
<1>3. /\ texts' \in Seq(Talk \cup {Undefined}) /\ Len(texts') = Len(texts) + 1
      /\ t \in DOMAIN texts' /\ texts'[t] = c
      /\ handled' \subseteq 1..Len(texts')
  BY <1>0, <1>2, TextsGrow
<1>4. Grows /\ PagesTyped'
  <2>1. UNCHANGED <<byName, pages>>
    BY <1>2 DEF Unmoved, book
  <2> QED  BY <2>1, <1>2, TextsGrow
<1>5. x \in AnyNick
  BY <1>1, <1>2, NameOf
<1>6. /\ counts' \in [news : 0..MaxNews, deeds : 0..MaxDeeds]
      /\ Len(texts) + 1 <= counts'.news + counts'.deeds
      /\ t \in 1..MaxNews + MaxDeeds
  BY <1>0, <1>2, NewsShape
<1>7. m \in Sent
  <2>1. t \in 0..MaxNews + MaxDeeds
    BY <1>6
  <2>2. Item(x, c, t) \in AnItem
    BY <1>5, <2>1, Values
  <2>3. <<Item(x, c, t)>> \in Seq(AnItem) /\ "newMessage" \in Stream
    BY <2>2, ShortFacts, PageAssumption
  <2> QED  BY <2>3, Values
<1>8. SoundMessage(m)'
  <2>1. m.kind = "note" /\ m.of = "newMessage" /\ m.value[1].conv = c /\ m.value[1].text = t
    BY DEF Note, Item
  <2> HIDE DEF m
  <2> QED  BY <2>1, <1>3 DEF SoundMessage, HasText, HasTalks, HasUsers, IsNote, IsResult, Written
<1>9. made \in Sent /\ SoundMessage(made)'
  <2>1. Item(Undefined, Undefined, 0) \in AnItem
    BY Values
  <2>2. /\ Item(Undefined, Undefined, 0).name = Undefined
        /\ Item(Undefined, Undefined, 0).conv = Undefined
    BY DEF Item
  <2>3. /\ <<Item(Undefined, Undefined, 0)>> \in Seq(AnItem)
        /\ ToSet(<<Item(Undefined, Undefined, 0)>>) = {Item(Undefined, Undefined, 0)}
    BY <2>1, ShortFacts
  <2>4. SoundMessage(made)
    BY <2>2, <2>3, SoundTalks
  <2> QED  BY <1>4, <2>3, <2>4, PageAssumption, Values, SoundGrows
<1> HIDE DEF m, made
<1>10. RpcTyped' /\ SoundWire'
  <2>1. \A s \in {<<m>>, <<made, m>>} : s \in Seq(Sent) /\ \A y \in ToSet(s) : SoundMessage(y)'
    <3>1. <<m>> \in Seq(Sent) /\ \A y \in ToSet(<<m>>) : SoundMessage(y)'
      BY <1>7, <1>8, ShortFacts
    <3>2. <<made, m>> \in Seq(Sent) /\ \A y \in ToSet(<<made, m>>) : SoundMessage(y)'
      BY <1>7, <1>8, <1>9, ShortFacts
    <3> QED  BY <3>1, <3>2
  <2>2. PICK s \in {<<m>>, <<made, m>>} : outbox' = [outbox EXCEPT ![Handler] = s]
    BY <1>2, NewsShape
  <2> QED  BY <1>2, <1>4, <2>1, <2>2, NewsTypes DEF Unmoved
<1>11. ProcessTyped' /\ BookTyped'
  <2>1. ProcessTyped'
    BY <1>2, <1>5, TypesApart DEF ProcessTyped, Unmoved, book
  <2> QED  BY <2>1, <1>2, ProcessStays DEF book
<1>12. HistoryTyped'
  <2>1. improvised' \subseteq Talk
    BY <1>2, TypesApart DEF HistoryTyped
  <2> QED  BY <1>2, <1>3, <1>6, <2>1, TypesApart DEF HistoryTyped
<1> QED  BY <1>4, <1>10, <1>11, <1>12, TypesLater

LEMMA HandleLeaveTypes ==
    ASSUME TypeInv, NEW a \in Peer, HandleLeave(a)
    PROVE  TypeInv'
<1>1. PICK x : x = byAddress[a]
  OBVIOUS
<1> DEFINE m == Note("removeUser", <<Item(x, 0, 0)>>)
           d == DropTalksWith(x)
<1>2. /\ Known(a)
      /\ News(<<m, d>>)
      /\ leavers' = leavers \cup {x}
      /\ UNCHANGED <<Unmoved, book, convs, talks, misled>>
  BY <1>1 DEF HandleLeave
<1>3. x \in AnyNick
  BY <1>1, <1>2, NameOf
<1>4. Grows
  BY <1>2, SameGrows DEF book, talks
<1>5. m \in Sent /\ SoundMessage(m)
  <2>1. <<Item(x, 0, 0)>> \in Seq(AnItem) /\ "removeUser" \in Stream
    BY <1>3, NameOnly, ShortFacts, PageAssumption
  <2> QED  BY <2>1, Values, SoundSilence
<1>6. d \in Sent /\ SoundMessage(d)
  BY <1>3, Values, SoundSilence
<1> HIDE DEF m, d
<1>7. <<m, d>> \in Seq(Sent) /\ \A y \in ToSet(<<m, d>>) : SoundMessage(y)'
  BY <1>4, <1>5, <1>6, TwoSent, SoundGrows
<1>8. /\ outbox' = [outbox EXCEPT ![Handler] = <<m, d>>]
      /\ counts' \in [news : 0..MaxNews, deeds : 0..MaxDeeds]
      /\ Len(texts) + 1 <= counts'.news + counts'.deeds /\ Len(texts) \in Nat
  BY <1>2, NewsShape
<1>9. RpcTyped' /\ SoundWire'
  BY <1>2, <1>4, <1>7, <1>8, NewsTypes DEF Unmoved
<1>10. ProcessTyped' /\ BookTyped' /\ PagesTyped'
  BY <1>2, ProcessStays DEF Unmoved, book, talks
<1>11. HistoryTyped'
  <2>1. Len(texts) <= counts'.news + counts'.deeds
    BY <1>8
  <2> QED  BY <1>2, <1>3, <1>8, <2>1, TypesApart DEF HistoryTyped, talks
<1> QED  BY <1>9, <1>10, <1>11, TypesLater

LEMMA HandleInviteTypes ==
    ASSUME TypeInv, NEW a \in Peer, NEW c \in ConvId, HandleInvite(a, c)
    PROVE  TypeInv'
<1>1. PICK x : x = byAddress[a]
  OBVIOUS
<1> DEFINE m == Note("newConversation", <<Item(x, c, 0)>>)
<1>2. /\ Known(a)
      /\ News(<<m>>)
      /\ convs' = [convs EXCEPT ![c] = x]
      /\ partner' = [partner EXCEPT ![c] = a]
      /\ UNCHANGED <<Unmoved, book, texts, handled, left, improvised, leavers, misled>>
  BY <1>1 DEF HandleInvite
<1>3. x \in AnyNick /\ c \in Talk
  BY <1>1, <1>2, NameOf DEF Talk
<1>4. Grows
  BY <1>2, SameGrows DEF book
<1>5. m \in Sent /\ SoundMessage(m)
  <2>1. Item(x, c, 0) \in AnItem /\ Item(x, c, 0).name = x /\ Item(x, c, 0).conv = c
    BY <1>3, Values
  <2>2. <<Item(x, c, 0)>> \in Seq(AnItem) /\ ToSet(<<Item(x, c, 0)>>) = {Item(x, c, 0)}
    BY <2>1, ShortFacts
  <2>3. SoundMessage(m)
    BY <1>3, <2>1, <2>2, SoundTalks
  <2> QED  BY <2>2, <2>3, Values, PageAssumption
<1> HIDE DEF m
<1>6. <<m>> \in Seq(Sent) /\ \A y \in ToSet(<<m>>) : SoundMessage(y)'
  BY <1>4, <1>5, OneSent, SoundGrows
<1>7. /\ outbox' = [outbox EXCEPT ![Handler] = <<m>>]
      /\ counts' \in [news : 0..MaxNews, deeds : 0..MaxDeeds]
      /\ Len(texts) + 1 <= counts'.news + counts'.deeds /\ Len(texts) \in Nat
  BY <1>2, NewsShape
<1>8. RpcTyped' /\ SoundWire'
  BY <1>2, <1>4, <1>6, <1>7, NewsTypes DEF Unmoved
<1>9. BookTyped' /\ PagesTyped'
  BY <1>2, ProcessStays DEF Unmoved, book
<1>10. ProcessTyped'
  BY <1>2, <1>3, TypesApart DEF ProcessTyped, Unmoved, book
<1>11. HistoryTyped'
  <2>1. Len(texts) <= counts'.news + counts'.deeds
    BY <1>7
  <2>2. partner' \in [Talk -> Peer \cup {Nobody}]
    BY <1>2, <1>3, TypesApart DEF HistoryTyped
  <2> QED  BY <1>2, <1>7, <2>1, <2>2, TypesApart DEF HistoryTyped
<1> QED  BY <1>8, <1>9, <1>10, <1>11, TypesLater

LEMMA HandleLeaveConversationTypes ==
    ASSUME TypeInv, NEW a \in Peer, NEW c \in ConvId, HandleLeaveConversation(a, c)
    PROVE  TypeInv'
<1> DEFINE m == Note("leaveConversation", <<Item(Null, c, 0)>>)
<1>2. /\ News(<<m>>)
      /\ left' = left \cup {c}
      /\ UNCHANGED <<Unmoved, book, convs, texts, handled, partner, improvised, leavers, misled>>
  BY DEF HandleLeaveConversation
<1>4. Grows
  BY <1>2, SameGrows DEF book
<1>5. m \in Sent /\ SoundMessage(m)
  <2>1. c \in Talk
    BY DEF Talk
  <2>2. Item(Null, c, 0) \in AnItem
    BY <2>1, Values
  <2>3. <<Item(Null, c, 0)>> \in Seq(AnItem)
    BY <2>2, ShortFacts
  <2> QED  BY <2>3, Values, PageAssumption, SoundSilence
<1> HIDE DEF m
<1>6. <<m>> \in Seq(Sent) /\ \A y \in ToSet(<<m>>) : SoundMessage(y)'
  BY <1>4, <1>5, OneSent, SoundGrows
<1>7. /\ outbox' = [outbox EXCEPT ![Handler] = <<m>>]
      /\ counts' \in [news : 0..MaxNews, deeds : 0..MaxDeeds]
      /\ Len(texts) + 1 <= counts'.news + counts'.deeds /\ Len(texts) \in Nat
  BY <1>2, NewsShape
<1>8. RpcTyped' /\ SoundWire'
  BY <1>2, <1>4, <1>6, <1>7, NewsTypes DEF Unmoved
<1>9. BookTyped' /\ PagesTyped' /\ ProcessTyped'
  BY <1>2, ProcessStays DEF Unmoved, book
<1>11. HistoryTyped'
  <2>1. Len(texts) <= counts'.news + counts'.deeds
    BY <1>7
  <2>2. left' \subseteq ConvId
    BY <1>2, TypesApart DEF HistoryTyped
  <2> QED  BY <1>2, <1>7, <2>1, <2>2, TypesApart DEF HistoryTyped
<1> QED  BY <1>8, <1>9, <1>11, TypesLater

LEMMA DropTalksTypes ==
    ASSUME TypeInv, DropTalks
    PROVE  TypeInv'
<1>1. /\ outbox[Handler] # <<>>
      /\ outbox' = [outbox EXCEPT ![Handler] = Tail(@)]
      /\ \/ UNCHANGED <<convs, running>>
         \/ \E c \in Listed : convs' = [convs EXCEPT ![c] = Absent] /\ running' \in BOOLEAN
      /\ UNCHANGED <<client, wire, subscribers, nickname, book, pages, history, counts>>
  BY DEF DropTalks
<1>2. /\ outbox' \in [Thread -> Seq(Sent)]
      /\ \A u \in Thread : ToSet(outbox'[u]) \subseteq ToSet(outbox[u])
  BY <1>1, OutboxShrinks DEF Thread
<1>3. RpcTyped'
  BY <1>1, <1>2, RpcOf DEF RpcTyped, client, wire
<1>4. SoundWire'
  <2>1. Grows
    BY <1>1, SameGrows DEF book, history, talks
  <2>2. requests' = requests /\ messages' = messages
    BY <1>1 DEF wire
  <2> QED  BY <1>2, <2>1, <2>2, RpcOf, StaySound
<1>5. ProcessTyped'
  BY <1>1, TypesApart DEF ProcessTyped, book
<1>6. BookTyped' /\ PagesTyped' /\ HistoryTyped'
  BY <1>1, ProcessStays DEF book, history, talks
<1> QED  BY <1>3, <1>4, <1>5, <1>6, TypesLater

----------------------------------------------------------------------------
(* What the lists of a page become.                                        *)

LEMMA SliceFacts ==
    ASSUME NEW S, NEW s \in Seq(S), NEW i \in Int, NEW j \in Int, i >= 1, j <= Len(s)
    PROVE  /\ SubSeq(s, i, j) \in Seq(S)
           /\ \A k \in i..j : k \in DOMAIN s /\ s[k] \in ToSet(SubSeq(s, i, j))
<1> DEFINE n == IF i <= j THEN j - i + 1 ELSE 0
           u == SubSeq(s, i, j)
<1>1. n \in Nat /\ Len(s) \in Nat
  BY SeqFacts
<1>2. u \in [1..n -> S] /\ \A k \in 1..n : u[k] = s[i + k - 1]
  <2>1. ASSUME NEW k \in 1..n PROVE i + k - 1 \in 1..Len(s)
    BY <1>1
  <2>2. \A k \in 1..n : s[i + k - 1] \in S
    BY <2>1, SeqFacts
  <2>3. u = [k \in 1..n |-> s[i + k - 1]]
    BY <1>1
  <2> HIDE DEF u, n
  <2> QED  BY <2>2, <2>3
<1> HIDE DEF u
<1>3. u \in Seq(S) /\ DOMAIN u = 1..n
  BY <1>1, <1>2, FunctionIsSeq
<1>4. ASSUME NEW k \in i..j PROVE k \in DOMAIN s /\ s[k] \in ToSet(u)
  <2>1. k \in Int /\ k - i + 1 \in 1..n /\ i + (k - i + 1) - 1 = k
    OBVIOUS
  <2>2. u[k - i + 1] = s[k]
    BY <2>1, <1>2
  <2>3. k \in DOMAIN s
    BY <1>1, SeqFacts
  <2> QED  BY <2>1, <2>2, <2>3, <1>3 DEF ToSet
<1> QED  BY <1>3, <1>4 DEF u

\* One is removed, or the last.
LEMMA RemoveFacts ==
    ASSUME NEW S, NEW s \in Seq(S), s # <<>>
    PROVE  /\ Front(s) \in Seq(S)
           /\ \A i \in DOMAIN s :
                 /\ RemoveAt(s, i) \in Seq(S)
                 /\ \A x \in ToSet(s) : x # s[i] => x \in ToSet(RemoveAt(s, i))
<1>0. Len(s) \in Nat /\ DOMAIN s = 1..Len(s)
  BY SeqFacts
<1>1. Front(s) \in Seq(S)
  <2>1. Len(s) - 1 <= Len(s) /\ 1 \in Int /\ Len(s) - 1 \in Int
    BY <1>0
  <2> QED  BY <2>1, SliceFacts DEF Front
<1>2. ASSUME NEW i \in DOMAIN s
      PROVE  /\ RemoveAt(s, i) \in Seq(S)
             /\ \A x \in ToSet(s) : x # s[i] => x \in ToSet(RemoveAt(s, i))
  <2> DEFINE u == SubSeq(s, 1, i - 1)
             v == SubSeq(s, i + 1, Len(s))
  <2>1. i \in Int /\ 1 <= i /\ i <= Len(s)
    BY <1>0
  <2>2. u \in Seq(S) /\ \A k \in 1..i - 1 : s[k] \in ToSet(u)
    <3>1. 1 \in Int /\ i - 1 \in Int /\ i - 1 <= Len(s)
      BY <2>1, <1>0
    <3> QED  BY <3>1, SliceFacts
  <2>3. v \in Seq(S) /\ \A k \in i + 1..Len(s) : s[k] \in ToSet(v)
    <3>1. i + 1 \in Int /\ i + 1 >= 1 /\ Len(s) \in Int /\ Len(s) <= Len(s)
      BY <2>1, <1>0
    <3> QED  BY <3>1, SliceFacts
  <2> HIDE DEF u, v
  <2>4. u \o v \in Seq(S) /\ ToSet(u \o v) = ToSet(u) \cup ToSet(v)
    BY <2>2, <2>3, ConcatFacts
  <2>5. ASSUME NEW k \in DOMAIN s, s[k] # s[i] PROVE s[k] \in ToSet(u \o v)
    <3>1. k \in 1..i - 1 \/ k \in i + 1..Len(s)
      <4>1. k # i /\ k \in 1..Len(s)
        BY <2>5, <1>0
      <4> QED  BY <4>1, <2>1
    <3> QED  BY <3>1, <2>2, <2>3, <2>4
  <2>6. RemoveAt(s, i) = u \o v
    BY DEF RemoveAt, u, v
  <2>7. \A x \in ToSet(s) : x # s[i] => x \in ToSet(u \o v)
    BY <2>5 DEF ToSet
  <2> QED  BY <2>4, <2>6, <2>7
<1> QED  BY <1>1, <1>2

LEMMA ListFacts ==
    ASSUME TypeInv, NEW p \in Page
    PROVE  users[p] \in Seq(Heard) /\ drawn[p] \in Seq(Heard) /\ DOMAIN users = Page
BY TypesApart DEF PagesTyped

LEMMA AddUsersShape ==
    ASSUME TypeInv, NEW p \in Page, NEW items \in Seq(AnItem),
           \A i \in ToSet(items) : i.name \in Heard, AddUsers(p, items)
    PROVE  /\ users' \in [Page -> Seq(Heard)] /\ drawn' \in [Page -> Seq(Heard)]
           /\ \A q \in Page : q # p => users'[q] = users[q]
           /\ ToSet(users[p]) \subseteq ToSet(users'[p])
           /\ \A i \in ToSet(items) : i.name \in ToSet(users'[p])
<1> DEFINE new == [k \in DOMAIN items |-> items[k].name]
           all == users[p] \o new
           drawable == {k \in Len(users[p]) + 1..Len(all) : IsInjective(SubSeq(all, 1, k))}
           seen == IF drawable = {} THEN drawn[p] ELSE SubSeq(all, 1, Max(drawable))
<1>0. users[p] \in Seq(Heard) /\ drawn[p] \in Seq(Heard)
  BY ListFacts
<1>1. new \in Seq(Heard) /\ DOMAIN new = DOMAIN items /\ \A k \in DOMAIN items : new[k] = items[k].name
  <2>1. Len(items) \in Nat /\ DOMAIN items = 1..Len(items)
    BY SeqFacts
  <2>2. \A k \in DOMAIN items : items[k].name \in Heard
    BY SeqFacts
  <2>3. new \in [1..Len(items) -> Heard]
    BY <2>1, <2>2
  <2> QED  BY <2>1, <2>3, FunctionIsSeq
<1> HIDE DEF new
<1>2. all \in Seq(Heard) /\ ToSet(all) = ToSet(users[p]) \cup ToSet(new) /\ Len(all) \in Nat
  BY <1>0, <1>1, ConcatFacts, SeqFacts
<1>3. users' = [users EXCEPT ![p] = all] /\ drawn' = [drawn EXCEPT ![p] = seen]
  BY DEF AddUsers, new
<1> HIDE DEF all
<1>4. seen \in Seq(Heard)
  <2>1. CASE drawable = {}
    BY <2>1, <1>0
  <2>2. CASE drawable # {}
    <3>1. Len(users[p]) \in Nat
      BY <1>0, SeqFacts
    <3>2. drawable \subseteq 1..Len(all) /\ drawable \subseteq Int
      BY <3>1, <1>2
    <3>3. IsFiniteSet(1..Len(all))
      BY <1>2, FS_Interval
    <3>4. IsFiniteSet(drawable)
      <4> HIDE DEF drawable
      <4> QED  BY <3>2, <3>3, FS_Subset
    <3> HIDE DEF drawable
    <3>5. Max(drawable) \in drawable
      BY <2>2, <3>2, <3>4, Extremes
    <3>6. Max(drawable) \in 1..Len(all)
      BY <3>2, <3>5
    <3>7. Max(drawable) \in Int /\ Max(drawable) <= Len(all)
      BY <3>6, <1>2
    <3>8. SubSeq(all, 1, Max(drawable)) \in Seq(Heard)
      BY <3>7, <1>2, SliceFacts
    <3> QED  BY <2>2, <3>8
  <2> HIDE DEF drawable, seen
  <2> QED  BY <2>1, <2>2
<1> HIDE DEF drawable, seen
<1>5. users' \in [Page -> Seq(Heard)] /\ drawn' \in [Page -> Seq(Heard)]
  BY <1>2, <1>3, <1>4, TypesApart DEF PagesTyped
<1>6. users'[p] = all /\ \A q \in Page : q # p => users'[q] = users[q]
  BY <1>3, ListFacts
<1>7. \A i \in ToSet(items) : i.name \in ToSet(new)
  BY <1>1 DEF ToSet
<1> QED  BY <1>2, <1>5, <1>6, <1>7

LEMMA RemoveUserShape ==
    ASSUME TypeInv, NEW p \in Page, NEW x, RemoveUser(p, x)
    PROVE  /\ users' \in [Page -> Seq(Heard)] /\ drawn' \in [Page -> Seq(Heard)]
           /\ misled \subseteq misled' /\ misled' \subseteq misled \cup {p}
           /\ \A q \in Page : q # p => users'[q] = users[q]
           /\ p \notin misled' => \A y \in ToSet(users[p]) : y # x => y \in ToSet(users'[p])
<1> DEFINE places == {k \in DOMAIN users[p] : users[p][k] = x}
           rest == CASE users[p] = <<>> -> <<>>
                     [] places # {} -> RemoveAt(users[p], Min(places))
                     [] OTHER -> Front(users[p])
<1>0. users[p] \in Seq(Heard) /\ drawn[p] \in Seq(Heard)
  BY ListFacts
<1>1. /\ users' = [users EXCEPT ![p] = rest]
      /\ drawn' = [drawn EXCEPT ![p] = IF IsInjective(rest) THEN rest ELSE drawn[p]]
      /\ misled' = IF places = {} THEN misled \cup {p} ELSE misled
  BY DEF RemoveUser
<1>2. users[p] = <<>> => places = {}
  OBVIOUS
<1>3. CASE places # {}
  <2>1. places \subseteq Int /\ places \subseteq DOMAIN users[p] /\ IsFiniteSet(places)
    <3>1. Len(users[p]) \in Nat /\ DOMAIN users[p] = 1..Len(users[p])
      BY <1>0, SeqFacts
    <3>2. places \subseteq DOMAIN users[p] /\ places \subseteq Int
      BY <3>1
    <3>3. IsFiniteSet(1..Len(users[p]))
      BY <3>1, FS_Interval
    <3> HIDE DEF places
    <3> QED  BY <3>1, <3>2, <3>3, FS_Subset
  <2>2. Min(places) \in places
    <3> HIDE DEF places
    <3> QED  BY <2>1, <1>3, Extremes
  <2>3. PICK i \in DOMAIN users[p] : i = Min(places) /\ users[p][i] = x
    BY <2>2
  <2>4. users[p] # <<>>
    BY <1>2, <1>3
  <2>5. rest = RemoveAt(users[p], i)
    BY <1>3, <2>3, <2>4
  <2> HIDE DEF rest, places
  <2>6. rest \in Seq(Heard) /\ \A y \in ToSet(users[p]) : y # x => y \in ToSet(rest)
    BY <1>0, <2>3, <2>4, <2>5, RemoveFacts
  <2>7. users' \in [Page -> Seq(Heard)] /\ drawn' \in [Page -> Seq(Heard)]
    BY <1>1, <2>6, TypesApart DEF PagesTyped
  <2>8. users'[p] = rest /\ \A q \in Page : q # p => users'[q] = users[q]
    BY <1>1, ListFacts
  <2> QED  BY <1>1, <1>3, <2>6, <2>7, <2>8
<1>4. CASE places = {}
  <2>1. rest \in Seq(Heard)
    <3>1. CASE users[p] = <<>>
      BY <3>1
    <3>2. CASE users[p] # <<>>
      <4>1. rest = Front(users[p])
        BY <1>4, <3>2
      <4> HIDE DEF rest
      <4> QED  BY <1>0, <3>2, <4>1, RemoveFacts
    <3> QED  BY <3>1, <3>2
  <2> HIDE DEF rest, places
  <2>2. users' \in [Page -> Seq(Heard)] /\ drawn' \in [Page -> Seq(Heard)]
    BY <1>1, <2>1, TypesApart DEF PagesTyped
  <2>3. \A q \in Page : q # p => users'[q] = users[q]
    BY <1>1, ListFacts
  <2> QED  BY <1>1, <1>4, <2>2, <2>3
<1> QED  BY <1>3, <1>4

LEMMA AddTabsShape ==
    ASSUME TypeInv, NEW p \in Page, NEW items \in Seq(AnItem),
           \A i \in ToSet(items) : i.name \in AnyNick \cup {Undefined} /\ i.conv \in Talk \cup {Undefined},
           AddTabs(p, items)
    PROVE  /\ tabs' \in [Page -> Seq(TabType(Len(texts)))]
           /\ \A q \in Page : q # p => tabs'[q] = tabs[q]
           /\ ToSet(tabs[p]) \subseteq ToSet(tabs'[p])
           /\ \A y \in ToSet(tabs'[p]) : y \in ToSet(tabs[p]) \/ y.texts = <<>>
           /\ \A i \in ToSet(items) : \E y \in ToSet(tabs'[p]) : y.conv = i.conv
<1> DEFINE n == Len(texts)
           new == [k \in DOMAIN items |-> Tab(items[k].name, items[k].conv)]
<1>0. tabs[p] \in Seq(TabType(n)) /\ tabs \in [Page -> Seq(TabType(n))]
  BY TypesApart DEF PagesTyped
<1>1. /\ new \in Seq(TabType(n)) /\ DOMAIN new = DOMAIN items
      /\ \A k \in DOMAIN items : new[k].conv = items[k].conv /\ new[k].texts = <<>>
  <2>1. Len(items) \in Nat /\ DOMAIN items = 1..Len(items)
    BY SeqFacts
  <2>2. \A k \in DOMAIN items :
           items[k].name \in AnyNick \cup {Undefined} /\ items[k].conv \in Talk \cup {Undefined}
    BY SeqFacts
  <2>3. \A y \in AnyNick \cup {Undefined} : Title(y) \in AnyNick \cup {Title(Empty), Undefined}
    BY DEF Title
  <2>4. <<>> \in Seq(1..n)
    OBVIOUS
  <2>5. \A k \in DOMAIN items :
           /\ Tab(items[k].name, items[k].conv) \in TabType(n)
           /\ Tab(items[k].name, items[k].conv).conv = items[k].conv
           /\ Tab(items[k].name, items[k].conv).texts = <<>>
    BY <2>2, <2>3, <2>4 DEF Tab, TabType
  <2>6. new \in [1..Len(items) -> TabType(n)]
    BY <2>1, <2>5
  <2>7. new \in Seq(TabType(n)) /\ DOMAIN new = DOMAIN items
    <3> HIDE DEF new
    <3> QED  BY <2>1, <2>6, FunctionIsSeq
  <2> QED  BY <2>5, <2>7
<1> HIDE DEF new
<1>2. /\ tabs[p] \o new \in Seq(TabType(n))
      /\ ToSet(tabs[p] \o new) = ToSet(tabs[p]) \cup ToSet(new)
  BY <1>0, <1>1, ConcatFacts
<1>3. tabs' = [tabs EXCEPT ![p] = tabs[p] \o new]
  BY DEF AddTabs, new
<1> HIDE DEF n
<1>4. tabs' \in [Page -> Seq(TabType(n))]
  BY <1>0, <1>2, <1>3
<1>5. tabs'[p] = tabs[p] \o new /\ \A q \in Page : q # p => tabs'[q] = tabs[q]
  BY <1>0, <1>3
<1>6. \A i \in ToSet(items) : \E y \in ToSet(new) : y.conv = i.conv
  BY <1>1 DEF ToSet
<1>7. \A y \in ToSet(new) : y.texts = <<>>
  BY <1>1 DEF ToSet
<1> QED  BY <1>2, <1>4, <1>5, <1>6, <1>7 DEF n

LEMMA AddTextShape ==
    ASSUME TypeInv, NEW p \in Page, NEW c, NEW t \in 1..Len(texts), AddText(p, c, t)
    PROVE  /\ tabs' \in [Page -> Seq(TabType(Len(texts)))]
           /\ \A q \in Page : q # p => tabs'[q] = tabs[q]
           /\ DOMAIN tabs'[p] = DOMAIN tabs[p]
           /\ \A k \in DOMAIN tabs[p] :
                 /\ tabs'[p][k].conv = tabs[p][k].conv
                 /\ tabs'[p][k].texts = IF tabs[p][k].conv = c THEN Append(tabs[p][k].texts, t)
                                        ELSE tabs[p][k].texts
<1> DEFINE n == Len(texts)
           old == tabs[p]
           new == [k \in DOMAIN old |->
                     IF old[k].conv = c THEN Shows(old[k], t) ELSE old[k]]
<1>0. old \in Seq(TabType(n)) /\ tabs \in [Page -> Seq(TabType(n))]
  BY TypesApart DEF PagesTyped
<1>1. tabs' = [tabs EXCEPT ![p] = new]
  BY DEF AddText
<1> HIDE DEF n, old
<1>2. Len(old) \in Nat /\ DOMAIN old = 1..Len(old)
  BY <1>0, SeqFacts
<1>3. ASSUME NEW k \in DOMAIN old
      PROVE  /\ new[k] \in TabType(n) /\ new[k].conv = old[k].conv
             /\ new[k].texts = IF old[k].conv = c THEN Append(old[k].texts, t) ELSE old[k].texts
  <2>1. PICK y \in TabType(n) : y = old[k]
    BY <1>0, SeqFacts
  <2>2. y.texts \in Seq(1..n) /\ t \in 1..n
    BY DEF TabType, n
  <2>3. Append(y.texts, t) \in Seq(1..n)
    BY <2>2, AppendFacts
  <2>4. /\ Shows(y, t) \in TabType(n)
        /\ Shows(y, t).conv = y.conv
        /\ Shows(y, t).texts = Append(y.texts, t)
    BY <2>3 DEF TabType, Shows
  <2>5. new[k] = IF y.conv = c THEN Shows(y, t) ELSE y
    BY <2>1
  <2> QED  BY <2>1, <2>4, <2>5
<1>4. new \in Seq(TabType(n)) /\ DOMAIN new = DOMAIN old
  <2>1. new \in [1..Len(old) -> TabType(n)]
    BY <1>2, <1>3
  <2> HIDE DEF new
  <2> QED  BY <1>2, <2>1, FunctionIsSeq
<1> HIDE DEF new
<1>5. tabs' \in [Page -> Seq(TabType(n))] /\ tabs'[p] = new /\ \A q \in Page : q # p => tabs'[q] = tabs[q]
  BY <1>0, <1>1, <1>4
<1> QED  BY <1>3, <1>4, <1>5 DEF n, old

LEMMA RemoveTabsShape ==
    ASSUME TypeInv, NEW p \in Page, NEW c, RemoveTabs(p, c)
    PROVE  /\ tabs' \in [Page -> Seq(TabType(Len(texts)))]
           /\ \A q \in Page : q # p => tabs'[q] = tabs[q]
           /\ ToSet(tabs'[p]) \subseteq ToSet(tabs[p])
           /\ \A y \in ToSet(tabs[p]) : y.conv # c => y \in ToSet(tabs'[p])
<1> DEFINE n == Len(texts)
           old == tabs[p]
           own == {k \in DOMAIN old : old[k].conv = c}
           cut == {k \in own : \E j \in 0..k - 1 :
                     j \notin own /\ j + 1..k \subseteq own /\ (k - j) % 2 = 1}
           rest == DOMAIN old \ cut
           l == Cardinality(rest)
           new == [i \in 1..l |-> old[Sorted(rest)[i]]]
<1>0. old \in Seq(TabType(n)) /\ tabs \in [Page -> Seq(TabType(n))]
  BY TypesApart DEF PagesTyped
<1>1. tabs' = [tabs EXCEPT ![p] = new]
  BY DEF RemoveTabs
<1>2. \A k \in DOMAIN old : old[k].conv # c => k \in rest
  OBVIOUS
<1>3. rest \subseteq DOMAIN old
  OBVIOUS
<1> HIDE DEF n, old, rest
<1>4. rest \subseteq Int /\ IsFiniteSet(rest)
  <2>1. Len(old) \in Nat /\ DOMAIN old = 1..Len(old)
    BY <1>0, SeqFacts
  <2>2. IsFiniteSet(1..Len(old))
    BY <2>1, FS_Interval
  <2>3. rest \subseteq Int
    BY <1>3, <2>1
  <2> QED  BY <1>3, <2>1, <2>2, <2>3, FS_Subset
<1>5. /\ l \in Nat
      /\ \A i \in 1..l : Sorted(rest)[i] \in rest
      /\ \A k \in rest : \E i \in 1..l : Sorted(rest)[i] = k
  BY <1>4, SortedElements
<1>6. \A k \in rest : old[k] \in TabType(n) /\ old[k] \in ToSet(old)
  BY <1>0, <1>3, SeqFacts
<1> HIDE DEF l
<1>7. new \in Seq(TabType(n)) /\ DOMAIN new = 1..l
  <2>1. new \in [1..l -> TabType(n)]
    BY <1>5, <1>6
  <2> HIDE DEF new
  <2> QED  BY <1>5, <2>1, FunctionIsSeq
<1>8. ToSet(new) \subseteq ToSet(old)
  BY <1>5, <1>6, <1>7 DEF ToSet
<1>9. ASSUME NEW k \in DOMAIN old, old[k].conv # c PROVE old[k] \in ToSet(new)
  <2>1. PICK i \in 1..l : Sorted(rest)[i] = k
    BY <1>2, <1>5, <1>9
  <2>2. new[i] = old[k]
    BY <2>1
  <2> HIDE DEF new
  <2> QED  BY <1>7, <2>2 DEF ToSet
<1> HIDE DEF new
<1>10. tabs' \in [Page -> Seq(TabType(n))] /\ tabs'[p] = new /\ \A q \in Page : q # p => tabs'[q] = tabs[q]
  BY <1>0, <1>1, <1>7
<1>11. \A y \in ToSet(old) : y.conv # c => y \in ToSet(new)
  BY <1>9 DEF ToSet
<1> QED  BY <1>8, <1>10, <1>11 DEF n, old

----------------------------------------------------------------------------
(* What a page takes.                                                      *)

\* What TakeNote and TakeResult have in common.
Takes(p, kind, f) ==
    /\ Take(p, kind)
    /\ Head(messages[p]).of = f
    /\ UNCHANGED Untaken

LEMMA TakesEither ==
    ASSUME TypeInv, Inv, NEW p \in Page, NEW f
    PROVE  /\ TakeResult(p, f) => Takes(p, "result", f)
           /\ TakeNote(p, f) => Takes(p, "note", f) /\ UNCHANGED asking
BY TakeShape DEF TakeResult, TakeNote, Takes

LEMMA TakesTypes ==
    ASSUME TypeInv, Inv, NEW p \in Page, NEW kind, Take(p, kind), UNCHANGED Untaken,
           PagesTyped', misled' \subseteq Page
    PROVE  TypeInv'
<1>1. Grows
  BY SameGrows DEF Untaken, process, book, talks
<1>2. RpcTyped' /\ SoundWire'
  BY <1>1, TakeTypes DEF Untaken
<1>3. ProcessTyped' /\ BookTyped'
  BY ProcessStays DEF Untaken, process, book
<1>4. HistoryTyped'
  BY TypesApart DEF HistoryTyped, Untaken, talks
<1> QED  BY <1>2, <1>3, <1>4, TypesLater

\* What the message is that is taken.
LEMMA Taken ==
    ASSUME TypeInv, Inv, NEW p \in Page, NEW kind, NEW f, Takes(p, kind, f)
    PROVE  /\ Head(messages[p]) \in Sent /\ SoundMessage(Head(messages[p]))
           /\ Head(messages[p]).kind = kind /\ Head(messages[p]).of = f
           /\ Value(p) = Head(messages[p]).value /\ Value(p) \in Seq(AnItem)
           /\ messages[p] # <<>> /\ messages[p] \in Seq(Sent) /\ Tail(messages[p]) \in Seq(Sent)
           /\ ToSet(messages[p]) = {Head(messages[p])} \cup ToSet(Tail(messages[p]))
           /\ \A q \in Page : messages'[q] = IF q = p THEN Tail(messages[p]) ELSE messages[q]
           /\ open[p] = "open"
<1>1. /\ Head(messages[p]) \in Sent /\ SoundMessage(Head(messages[p]))
      /\ Head(messages[p]).kind = kind
      /\ messages[p] # <<>> /\ messages[p] \in Seq(Sent) /\ Tail(messages[p]) \in Seq(Sent)
      /\ ToSet(messages[p]) = {Head(messages[p])} \cup ToSet(Tail(messages[p]))
      /\ \A q \in Page : messages'[q] = IF q = p THEN Tail(messages[p]) ELSE messages[q]
      /\ open[p] = "open"
  BY TakeShape DEF Takes
<1>2. Head(messages[p]).of = f
  BY DEF Takes
<1> QED  BY <1>1, <1>2 DEF Value, Sent

LEMMA TakenTalks ==
    ASSUME TypeInv, Inv, NEW p \in Page, NEW kind, NEW f, Takes(p, kind, f),
           HasTalks(Head(messages[p]))
    PROVE  \A i \in ToSet(Value(p)) : i.name \in AnyNick \cup {Undefined} /\ i.conv \in Talk \cup {Undefined}
BY Taken DEF SoundMessage

LEMMA TakenUsers ==
    ASSUME TypeInv, Inv, NEW p \in Page, NEW kind, NEW f, Takes(p, kind, f),
           HasUsers(Head(messages[p]))
    PROVE  \A i \in ToSet(Value(p)) : i.name \in Heard
BY Taken DEF SoundMessage

LEMMA TakenText ==
    ASSUME TypeInv, Inv, NEW p \in Page, NEW kind, NEW f, Takes(p, kind, f),
           HasText(Head(messages[p]))
    PROVE  /\ TheItem(p).text \in 1..Len(texts) /\ texts[TheItem(p).text] = TheItem(p).conv
           /\ TheItem(p) = Head(messages[p]).value[1]
<1>1. Written(Head(messages[p]).value[1]) /\ Value(p) = Head(messages[p]).value
  BY Taken DEF SoundMessage
<1>2. DOMAIN texts = 1..Len(texts)
  BY TypesApart, SeqFacts DEF HistoryTyped
<1> QED  BY <1>1, <1>2 DEF TheItem, Written

LEMMA PagesLater ==
    ASSUME TypeInv, UNCHANGED <<texts, byName>>, asking' \subseteq Page,
           users' \in [Page -> Seq(Heard)], drawn' \in [Page -> Seq(Heard)],
           tabs' \in [Page -> Seq(TabType(Len(texts)))]
    PROVE  PagesTyped'
BY DEF PagesTyped, Heard

LEMMA PagesNow ==
    ASSUME TypeInv
    PROVE  /\ asking \subseteq Page /\ misled \subseteq Page
           /\ users \in [Page -> Seq(Heard)] /\ drawn \in [Page -> Seq(Heard)]
           /\ tabs \in [Page -> Seq(TabType(Len(texts)))]
BY TypesApart DEF PagesTyped, HistoryTyped

LEMMA TalksShown ==
    ASSUME TypeInv, Inv, NEW p \in Page,
           TakeConversations(p) \/ TakeNewConversation(p)
    PROVE  /\ \E kind, f : Takes(p, kind, f)
           /\ HasTalks(Head(messages[p]))
           /\ AddTabs(p, Value(p)) /\ UNCHANGED <<asking, lists, misled>>
           /\ Value(p) \in Seq(AnItem)
           /\ \A i \in ToSet(Value(p)) :
                 i.name \in AnyNick \cup {Undefined} /\ i.conv \in Talk \cup {Undefined}
<1>1. \/ Takes(p, "result", "getConversations")
      \/ Takes(p, "note", "newConversation")
  BY TakesEither DEF TakeConversations, TakeNewConversation
<1>2. AddTabs(p, Value(p)) /\ UNCHANGED <<asking, lists, misled>>
  BY DEF TakeConversations, TakeNewConversation, TakeNote
<1>3. HasTalks(Head(messages[p])) /\ Value(p) \in Seq(AnItem)
  BY <1>1, Taken DEF HasTalks, IsNote, IsResult
<1> QED  BY <1>1, <1>2, <1>3, TakenTalks

LEMMA UsersShown ==
    ASSUME TypeInv, Inv, NEW p \in Page, TakeUsers(p) \/ TakeNewUser(p)
    PROVE  /\ \E kind, f : Takes(p, kind, f)
           /\ HasUsers(Head(messages[p]))
           /\ AddUsers(p, Value(p)) /\ UNCHANGED <<asking, tabs, misled>>
           /\ Value(p) \in Seq(AnItem)
           /\ \A i \in ToSet(Value(p)) : i.name \in Heard
<1>1. \/ Takes(p, "result", "getUsers")
      \/ Takes(p, "note", "newUser")
  BY TakesEither DEF TakeUsers, TakeNewUser
<1>2. AddUsers(p, Value(p)) /\ UNCHANGED <<asking, tabs, misled>>
  BY DEF TakeUsers, TakeNewUser, TakeNote
<1>3. HasUsers(Head(messages[p])) /\ Value(p) \in Seq(AnItem)
  BY <1>1, Taken DEF HasUsers, IsNote, IsResult
<1> QED  BY <1>1, <1>2, <1>3, TakenUsers

LEMMA TextShown ==
    ASSUME TypeInv, Inv, NEW p \in Page, TakeOwnText(p) \/ TakeNewMessage(p)
    PROVE  /\ \E kind, f : Takes(p, kind, f)
           /\ HasText(Head(messages[p]))
           /\ AddText(p, TheItem(p).conv, TheItem(p).text) /\ UNCHANGED <<asking, lists, misled>>
           /\ TheItem(p).text \in 1..Len(texts) /\ texts[TheItem(p).text] = TheItem(p).conv
           /\ TheItem(p) = Head(messages[p]).value[1]
<1>1. \/ Takes(p, "result", "sendMessage")
      \/ Takes(p, "note", "newMessage")
  BY TakesEither DEF TakeOwnText, TakeNewMessage
<1>2. AddText(p, TheItem(p).conv, TheItem(p).text) /\ UNCHANGED <<asking, lists, misled>>
  BY DEF TakeOwnText, TakeNewMessage, TakeNote
<1>3. HasText(Head(messages[p]))
  BY <1>1, Taken DEF HasText, IsNote, IsResult
<1> QED  BY <1>1, <1>2, <1>3, TakenText

LEMMA TakingTypes ==
    ASSUME TypeInv, Inv, NEW p \in Page,
           \/ TakeSilently(p) \/ TakeNickname(p) \/ TakeOwnText(p) \/ TakeConversations(p)
           \/ TakeUsers(p) \/ TakeError(p) \/ TakeNewConversation(p) \/ TakeNewMessage(p)
           \/ TakeLeaveConversation(p) \/ TakeNewUser(p) \/ TakeRemoveUser(p)
    PROVE  TypeInv'
<1>1. ASSUME NEW kind, Take(p, kind), UNCHANGED <<Untaken, lists, misled>>,
             asking' \subseteq Page, tabs' \in [Page -> Seq(TabType(Len(texts)))]
      PROVE  TypeInv'
  BY <1>1, PagesNow, PagesLater, TakesTypes DEF lists, Untaken, process, book, talks
<1>2. CASE TakeSilently(p)
  BY <1>1, <1>2, PagesNow DEF TakeSilently, TakeResult, pages
<1>3. CASE TakeNickname(p)
  <2>1. asking' \subseteq Page
    BY <1>3, PagesNow DEF TakeNickname
  <2> QED  BY <1>1, <1>3, <2>1, PagesNow DEF TakeNickname, TakeResult
<1>4. CASE TakeError(p)
  BY <1>1, <1>4, PagesNow DEF TakeError, pages
<1>5. CASE TakeConversations(p) \/ TakeNewConversation(p)
  <2>1. tabs' \in [Page -> Seq(TabType(Len(texts)))]
    BY <1>5, TalksShown, AddTabsShape
  <2> QED  BY <1>1, <1>5, <2>1, TalksShown, PagesNow DEF Takes
<1>6. CASE TakeOwnText(p) \/ TakeNewMessage(p)
  <2>1. tabs' \in [Page -> Seq(TabType(Len(texts)))]
    BY <1>6, TextShown, AddTextShape
  <2> QED  BY <1>1, <1>6, <2>1, TextShown, PagesNow DEF Takes
<1>7. CASE TakeLeaveConversation(p)
  <2>1. RemoveTabs(p, TheItem(p).conv)
    BY <1>7 DEF TakeLeaveConversation
  <2>2. tabs' \in [Page -> Seq(TabType(Len(texts)))]
    BY <2>1, RemoveTabsShape
  <2> QED  BY <1>1, <1>7, <2>2, PagesNow DEF TakeLeaveConversation, TakeNote
<1>8. CASE TakeUsers(p) \/ TakeNewUser(p)
  <2>1. /\ users' \in [Page -> Seq(Heard)] /\ drawn' \in [Page -> Seq(Heard)]
        /\ UNCHANGED <<asking, tabs, misled>>
    BY <1>8, UsersShown, AddUsersShape
  <2>2. PICK kind, f : Takes(p, kind, f)
    BY <1>8, UsersShown
  <2>3. PagesTyped'
    BY <2>1, <2>2, PagesNow, PagesLater DEF Takes, Untaken, process, book, talks
  <2> QED  BY <2>1, <2>2, <2>3, PagesNow, TakesTypes DEF Takes
<1>9. CASE TakeRemoveUser(p)
  <2>1. TakeNote(p, "removeUser") /\ RemoveUser(p, TheItem(p).name) /\ UNCHANGED tabs
    BY <1>9 DEF TakeRemoveUser
  <2>2. users' \in [Page -> Seq(Heard)] /\ drawn' \in [Page -> Seq(Heard)] /\ misled' \subseteq Page
    BY <2>1, RemoveUserShape, PagesNow
  <2>3. PagesTyped'
    BY <2>1, <2>2, PagesNow, PagesLater DEF TakeNote, Untaken, process, book, talks
  <2> QED  BY <2>1, <2>2, <2>3, TakesTypes DEF TakeNote
<1> QED  BY <1>2, <1>3, <1>4, <1>5, <1>6, <1>7, <1>8, <1>9

LEMMA NextTypes == TypeInv /\ Inv /\ [Next]_vars => TypeInv'
<1> SUFFICES ASSUME TypeInv, Inv, [Next]_vars PROVE TypeInv'
  OBVIOUS
<1>1. CASE UNCHANGED vars
  <2>1. ProcessTyped' /\ BookTyped' /\ PagesTyped' /\ HistoryTyped'
    BY <1>1, ProcessStays DEF vars, process, book, history, talks
  <2>2. RpcTyped' /\ SoundWire'
    <3>1. RpcTyped /\ SoundWire /\ Grows
      BY <1>1, RpcOf, SameGrows DEF vars, process, book, history, talks
    <3>2. UNCHANGED <<requests, messages, outbox>>
      BY <1>1 DEF vars, rpc, wire, server
    <3> QED  BY <1>1, <3>1, <3>2, StaySound DEF RpcTyped, vars, rpc, client, wire, server
  <2> QED  BY <2>1, <2>2, TypesLater
<1>2. ASSUME NEW p \in Page,
             \/ Connect(p) \/ ClosePage(p)
             \/ \E x \in OwnNames : ChooseNickname(p, x)
             \/ \E k \in DOMAIN drawn[p] : StartConversation(p, k)
             \/ \E k \in DOMAIN tabs[p] : WriteText(p, k) \/ CloseTab(p, k)
      PROVE  TypeInv'
  BY <1>2, ConnectTypes, ClosePageTypes, ChooseNicknameTypes, StartConversationTypes,
     WriteTextTypes, CloseTabTypes
<1>3. ASSUME NEW p \in Page,
             \/ ServeSubscribe(p) \/ ServeUpdateNickname(p) \/ ServeSendMessage(p)
             \/ ServeGetConversations(p) \/ ServeGetUsers(p)
             \/ \E c \in ConvId : ServeAddConversation(p, c)
             \/ ServeLeaveConversation(p) \/ ServeFailing(p)
      PROVE  TypeInv'
  BY <1>3, ServeSubscribeTypes, ServeUpdateNicknameTypes, ServeSendMessageTypes,
     ServeGetConversationsTypes, ServeGetUsersTypes, ServeAddConversationTypes,
     ServeLeaveConversationTypes, ServeFailingTypes
<1>4. ASSUME NEW a \in Peer,
             \/ \E x \in AnyNick : HandleNickChange(a, x)
             \/ \E c \in Talk : HandleText(a, c)
             \/ HandleLeave(a)
             \/ \E c \in ConvId : HandleInvite(a, c) \/ HandleLeaveConversation(a, c)
      PROVE  TypeInv'
  BY <1>4, HandleNickChangeTypes, HandleTextTypes, HandleLeaveTypes, HandleInviteTypes,
     HandleLeaveConversationTypes
<1>5. ASSUME NEW t \in Thread, SendNext(t) PROVE TypeInv'
  BY <1>5, SendTypes
<1> QED  BY <1>1, <1>2, <1>3, <1>4, <1>5, DropTalksTypes, TakingTypes DEF Next

\* What the program keeps, sends and shows stays of its type: names on the
\* lists are those of peers, texts are in the tabs of conversations, and every
\* text, name and conversation on the wire is one that there is.
THEOREM TypeCorrect == Spec => []TypeOK
<1>1. TypeInv => TypeOK
  BY DEF TypeInv
<1> QED  BY <1>1, InitTypes, NextTypes, InvInit, InvStep, PTL DEF Spec

----------------------------------------------------------------------------
(* Conversations and their tabs.                                           *)

\* Conversations that a page ought to have a tab for.
Lasting == Listed \ (left \cup improvised)

Mentions(m, c) == \E i \in ToSet(m.value) : i.conv = c

PartnersKnown ==
    \A c \in ConvId : c \in Listed \cup left \cup improvised => partner[c] # Nobody

\* A conversation that is said to be left does not last, now or later.
LeftForGood(m) ==
    IsNote(m, "leaveConversation") =>
        /\ m.value[1].conv \notin Lasting
        /\ m.value[1].conv \in ConvId => partner[m.value[1].conv] # Nobody

LeavesAreTrue ==
    /\ \A p \in Page : \A m \in ToSet(messages[p]) : LeftForGood(m)
    /\ \A t \in Thread : \A m \in ToSet(outbox[t]) : LeftForGood(m)

\* A page that does not yet hear of a stream will ask for what there is after
\* it does.
WillAsk(p, s, f) ==
    \E i, j \in DOMAIN requests[p] :
        /\ i < j
        /\ requests[p][i].method = "subscribe" /\ requests[p][i].arg.name = s
        /\ requests[p][j].method = f

Listens(p, s, f) == p \in subscribers[s] \/ WillAsk(p, s, f)

ListenThenAsk ==
    \A p \in Page : open[p] = "open" =>
        /\ Listens(p, "newConversation", "getConversations")
        /\ Listens(p, "newUser", "getUsers")

Asked(p, f) == \E r \in ToSet(requests[p]) : r.method = f

\* There is a tab, or what will make one is under way or to be sent.
HasTab(p, c) == \E y \in ToSet(tabs[p]) : y.conv = c
TabArrives(p, c) == \E m \in ToSet(messages[p]) : HasTalks(m) /\ Mentions(m, c)
TabIsAnswered(p, c) ==
    \E m \in ToSet(outbox[p]) : IsResult(m, "getConversations") /\ Mentions(m, c)
TabIsTold(p, c) ==
    /\ p \in subscribers["newConversation"]
    /\ \E t \in Thread : \E m \in ToSet(outbox[t]) :
          IsNote(m, "newConversation") /\ Mentions(m, c)

TabComes(p, c) ==
    HasTab(p, c) \/ TabArrives(p, c) \/ TabIsAnswered(p, c) \/ TabIsTold(p, c)
      \/ Asked(p, "getConversations")

TabsCome == \A p \in Page : open[p] = "open" => \A c \in Lasting : TabComes(p, c)

TabInv == PartnersKnown /\ LeavesAreTrue /\ ListenThenAsk /\ TabsCome

\* Conversations may cease to last, and only new ones begin to.
TalksStep ==
    /\ \A c \in Lasting' : c \in Lasting \/ (c \in ConvId /\ partner[c] = Nobody)
    /\ \A c \in ConvId : partner[c] # Nobody => partner'[c] # Nobody

LEMMA SameTalks ==
    UNCHANGED <<convs, left, improvised, partner>> =>
        TalksStep /\ Lasting' = Lasting /\ (PartnersKnown => PartnersKnown')
BY DEF TalksStep, Lasting, Listed, PartnersKnown

LEMMA LeftStays ==
    ASSUME TalksStep, NEW m, LeftForGood(m)
    PROVE  LeftForGood(m)'
BY DEF TalksStep, LeftForGood, IsNote

LEMMA LeavesStay ==
    ASSUME LeavesAreTrue, TalksStep,
           \A p \in Page : \A m \in ToSet(messages'[p]) :
              \/ m \in ToSet(messages[p]) \/ \E t \in Thread : m \in ToSet(outbox[t]),
           \A t \in Thread : \A m \in ToSet(outbox'[t]) : m \in ToSet(outbox[t]) \/ LeftForGood(m)'
    PROVE  LeavesAreTrue'
<1>1. \A p \in Page : \A m \in ToSet(messages'[p]) : LeftForGood(m)'
  BY LeftStays DEF LeavesAreTrue
<1>2. \A t \in Thread : \A m \in ToSet(outbox'[t]) : LeftForGood(m)'
  BY LeftStays DEF LeavesAreTrue
<1> QED  BY <1>1, <1>2 DEF LeavesAreTrue

\* What a page listens to: calls are added, or the first is served.
LEMMA ListensCalls ==
    ASSUME TypeInv, NEW p \in Page, NEW new \in Seq(Asking),
           requests'[p] = requests[p] \o new, UNCHANGED subscribers,
           NEW s, NEW f, Listens(p, s, f)
    PROVE  Listens(p, s, f)'
<1>1. requests[p] \in Seq(Asking)
  BY RpcOf DEF RpcTyped
<1>2. \A k \in DOMAIN requests[p] : k \in DOMAIN requests'[p] /\ requests'[p][k] = requests[p][k]
  BY <1>1, ConcatFacts
<1> QED  BY <1>2 DEF Listens, WillAsk

LEMMA ListensServed ==
    ASSUME TypeInv, NEW p \in Page, NEW method, NEW sends, Served(p, method, sends),
           NEW s, NEW f, f # "subscribe", Listens(p, s, f),
           subscribers[s] \subseteq subscribers'[s],
           method = "subscribe" /\ Request(p).arg.name = s => p \in subscribers'[s]
    PROVE  Listens(p, s, f)' /\ (method # f /\ ~(p \in subscribers'[s]) => Asked(p, f)')
<1>1. /\ requests[p] \in Seq(Asking) /\ requests[p] # <<>> /\ Request(p).method = method
      /\ requests'[p] = Tail(requests[p])
  BY ServedShape, RpcOf DEF RpcTyped
<1>2. /\ Request(p) = requests[p][1]
      /\ \A k \in DOMAIN requests[p] : k # 1 =>
            k - 1 \in DOMAIN requests'[p] /\ requests'[p][k - 1] = requests[p][k]
      /\ DOMAIN requests[p] = 1..Len(requests[p]) /\ Len(requests[p]) \in Nat
  BY <1>1, TailFacts, SeqFacts DEF Request
<1>3. CASE p \in subscribers'[s]
  BY <1>3 DEF Listens
<1>4. CASE p \notin subscribers'[s]
  <2>1. PICK i \in DOMAIN requests[p], j \in DOMAIN requests[p] :
            /\ i < j
            /\ requests[p][i].method = "subscribe" /\ requests[p][i].arg.name = s
            /\ requests[p][j].method = f
    BY <1>4 DEF Listens, WillAsk
  <2>2. i # 1
    BY <1>1, <1>2, <1>4, <2>1
  <2>3. i \in Int /\ j \in Int /\ j # 1 /\ i - 1 < j - 1
    BY <1>2, <2>1
  <2>4. /\ i - 1 \in DOMAIN requests'[p] /\ requests'[p][i - 1] = requests[p][i]
        /\ j - 1 \in DOMAIN requests'[p] /\ requests'[p][j - 1] = requests[p][j]
    BY <1>2, <2>1, <2>2, <2>3
  <2>5. WillAsk(p, s, f)'
    BY <2>1, <2>3, <2>4 DEF WillAsk
  <2>6. Asked(p, f)'
    BY <2>1, <2>4 DEF Asked, ToSet
  <2> QED  BY <2>5, <2>6 DEF Listens
<1> QED  BY <1>3, <1>4

LEMMA ListensSame ==
    ASSUME NEW p \in Page, requests'[p] = requests[p], NEW s, NEW f, Listens(p, s, f),
           subscribers[s] \subseteq subscribers'[s]
    PROVE  Listens(p, s, f)'
BY DEF Listens, WillAsk

\* All that a page may call at once.
LEMMA GreetingListens ==
    ASSUME TypeInv, NEW p \in Page, NEW new \in Seq(Asking), Len(new) = 7,
           \A k \in 1..7 : new[k].method = Greeting[k].method /\ new[k].arg = Greeting[k].arg,
           requests'[p] = requests[p] \o new
    PROVE  /\ Listens(p, "newConversation", "getConversations")'
           /\ Listens(p, "newUser", "getUsers")'
           /\ Asked(p, "getConversations")' /\ Asked(p, "getUsers")'
<1>1. requests[p] \in Seq(Asking)
  BY RpcOf DEF RpcTyped
<1> DEFINE n == Len(requests[p])
<1>2. /\ n \in Nat
      /\ \A k \in 1..7 : n + k \in DOMAIN requests'[p] /\ requests'[p][n + k] = new[k]
  <2>1. DOMAIN new = 1..7
    BY SeqFacts
  <2>0. PICK s \in Seq(Asking) : s = requests[p]
    BY <1>1
  <2>2. ASSUME NEW k \in DOMAIN new
        PROVE  /\ Len(s) + k \in DOMAIN (s \o new)
               /\ (s \o new)[Len(s) + k] = new[k]
    BY ConcatFacts
  <2>3. \A k \in DOMAIN new : n + k \in DOMAIN requests'[p] /\ requests'[p][n + k] = new[k]
    BY <2>0, <2>2
  <2> QED  BY <1>1, <2>1, <2>3, SeqFacts
<1> HIDE DEF n
<1>3. /\ requests'[p][n + 1].method = "subscribe" /\ requests'[p][n + 1].arg.name = "newConversation"
      /\ requests'[p][n + 3].method = "subscribe" /\ requests'[p][n + 3].arg.name = "newUser"
      /\ requests'[p][n + 6].method = "getConversations"
      /\ requests'[p][n + 7].method = "getUsers"
  <2>1. /\ Greeting[1].method = "subscribe" /\ Greeting[1].arg.name = "newConversation"
        /\ Greeting[3].method = "subscribe" /\ Greeting[3].arg.name = "newUser"
        /\ Greeting[6].method = "getConversations"
        /\ Greeting[7].method = "getUsers"
    BY DEF Greeting, Subscription, Ask, Item
  <2>2. 1 \in 1..7 /\ 3 \in 1..7 /\ 6 \in 1..7 /\ 7 \in 1..7
    OBVIOUS
  <2> QED  BY <1>2, <2>1, <2>2, ZenonT(30)
<1>4. /\ n + 1 \in DOMAIN requests'[p] /\ n + 3 \in DOMAIN requests'[p]
      /\ n + 6 \in DOMAIN requests'[p] /\ n + 7 \in DOMAIN requests'[p]
      /\ n + 1 < n + 6 /\ n + 3 < n + 7
  BY <1>2
<1>5. WillAsk(p, "newConversation", "getConversations")'
  BY <1>3, <1>4 DEF WillAsk
<1>6. WillAsk(p, "newUser", "getUsers")'
  BY <1>3, <1>4 DEF WillAsk
<1>7. Asked(p, "getConversations")' /\ Asked(p, "getUsers")'
  BY <1>3, <1>4 DEF Asked, ToSet
<1> QED  BY <1>5, <1>6, <1>7 DEF Listens

\* What users do: calls only, but that a page may be closed.
LEMMA ActShape ==
    ASSUME TypeInv, Inv, NEW p \in Page,
           \/ Connect(p) \/ ClosePage(p)
           \/ \E x \in OwnNames : ChooseNickname(p, x)
           \/ \E k \in DOMAIN drawn[p] : StartConversation(p, k)
           \/ \E k \in DOMAIN tabs[p] : WriteText(p, k) \/ CloseTab(p, k)
    PROVE  /\ UNCHANGED <<server, process, lists, tabs, partner, left, improvised, leavers, misled, handled>>
           /\ \A q \in Page : messages'[q] = messages[q] \/ messages'[q] = <<>>
           /\ \A q \in Page : open'[q] = "open" =>
                 /\ messages'[q] = messages[q]
                 /\ open[q] = "open" \/ (q = p /\ Connect(p))
           /\ \A q \in Page : q # p => requests'[q] = requests[q]
           /\ \E new \in Seq(Asking) : requests'[p] = requests[p] \o new
<1>1. RpcTyped
  BY RpcOf
<1>2. ASSUME NEW calls \in Seq(Calling), Call(p, calls)
      PROVE  /\ \A q \in Page : q # p => requests'[q] = requests[q]
             /\ \E new \in Seq(Asking) : requests'[p] = requests[p] \o new
  <2>1. PICK new \in Seq(Asking) : requests' = [requests EXCEPT ![p] = requests[p] \o new]
    BY <1>2, CallShape
  <2> QED  BY <1>1, <2>1 DEF RpcTyped
<1>3. ASSUME NEW method \in Method, NEW arg \in AnItem, Deed(p, method, arg)
      PROVE  /\ UNCHANGED <<open, messages, server, process, pages, leavers, misled>>
             /\ \A q \in Page : q # p => requests'[q] = requests[q]
             /\ \E new \in Seq(Asking) : requests'[p] = requests[p] \o new
  <2>1. /\ Call(p, <<Ask(method, arg)>>)
        /\ UNCHANGED <<open, messages, server, process, pages, leavers, misled>>
    BY <1>3 DEF Deed
  <2>2. <<Ask(method, arg)>> \in Seq(Calling)
    BY ShortFacts DEF Ask, Calling
  <2> QED  BY <2>1, <2>2, <1>2
<1>4. CASE Connect(p)
  <2>1. Greeting \in Seq(Calling)
    BY GreetingCalls
  <2>2. /\ open' = [open EXCEPT ![p] = "open"] /\ Call(p, Greeting)
        /\ UNCHANGED <<messages, server, process, pages, history>>
    BY <1>4 DEF Connect
  <2>3. \A q \in Page : open'[q] = "open" => open[q] = "open" \/ (q = p /\ Connect(p))
    BY <1>1, <1>4, <2>2 DEF RpcTyped
  <2> QED  BY <2>1, <2>2, <2>3, <1>2 DEF pages, history, talks
<1>5. CASE ClosePage(p)
  <2>1. /\ open' = [open EXCEPT ![p] = "closed"] /\ messages' = [messages EXCEPT ![p] = <<>>]
        /\ UNCHANGED <<requests, server, process, pages, history>>
    BY <1>5 DEF ClosePage
  <2>2. \A q \in Page : messages'[q] = IF q = p THEN <<>> ELSE messages[q]
    BY <1>1, <2>1 DEF RpcTyped
  <2>3. \A q \in Page : open'[q] = "open" => open[q] = "open" /\ q # p
    BY <1>1, <2>1 DEF RpcTyped
  <2>4. requests[p] = requests[p] \o <<>> /\ <<>> \in Seq(Asking)
    BY <1>1 DEF RpcTyped
  <2> QED  BY <2>1, <2>2, <2>3, <2>4 DEF pages, history, talks
<1>6. CASE \E x \in OwnNames : ChooseNickname(p, x)
  <2>1. PICK x \in OwnNames : Deed(p, "updateNickname", Item(x, 0, 0)) /\ UNCHANGED talks
    BY <1>6 DEF ChooseNickname
  <2>2. Item(x, 0, 0) \in AnItem /\ "updateNickname" \in Method
    BY Values, PageAssumption
  <2> QED  BY <1>3, <2>1, <2>2 DEF pages, talks
<1>7. CASE \E k \in DOMAIN drawn[p] : StartConversation(p, k)
  <2>1. PICK k \in DOMAIN drawn[p] : Deed(p, "addConversation", Item(drawn[p][k], 0, 0)) /\ UNCHANGED talks
    BY <1>7 DEF StartConversation
  <2>2. drawn[p][k] \in AnyNick
    BY ListFacts, SeqFacts DEF Heard
  <2>3. Item(drawn[p][k], 0, 0) \in AnItem /\ "addConversation" \in Method
    BY <2>2, NameOnly, PageAssumption
  <2> QED  BY <1>3, <2>1, <2>3 DEF pages, talks
<1>8. CASE \E k \in DOMAIN tabs[p] : WriteText(p, k)
  <2>1. PICK k \in DOMAIN tabs[p] :
            /\ Deed(p, "sendMessage", Item(Null, tabs[p][k].conv, Len(texts) + 1))
            /\ UNCHANGED <<handled, partner, left, improvised>>
    BY <1>8 DEF WriteText
  <2>2. Item(Null, tabs[p][k].conv, Len(texts) + 1) \in AnItem
    <3>1. Len(texts) + 1 \in 1..MaxNews + MaxDeeds
      BY <2>1, CountTypes DEF Deed
    <3>2. PICK t \in 0..MaxNews + MaxDeeds : t = Len(texts) + 1
      BY <3>1
    <3>3. PICK c \in Talk \cup {0, Undefined} : c = tabs[p][k].conv
      BY TabFacts
    <3>4. Item(Null, c, t) \in AnItem
      BY Values
    <3> QED  BY <3>2, <3>3, <3>4
  <2> QED  BY <1>3, <2>1, <2>2, PageAssumption DEF pages
<1>9. CASE \E k \in DOMAIN tabs[p] : CloseTab(p, k)
  <2>1. PICK k \in DOMAIN tabs[p] : Deed(p, "leaveConversation", Item(Null, tabs[p][k].conv, 0)) /\ UNCHANGED talks
    BY <1>9 DEF CloseTab
  <2>2. Item(Null, tabs[p][k].conv, 0) \in AnItem
    <3>1. PICK c \in Talk \cup {0, Undefined} : c = tabs[p][k].conv
      BY TabFacts
    <3>2. Item(Null, c, 0) \in AnItem
      BY Values
    <3> QED  BY <3>1, <3>2
  <2> QED  BY <1>3, <2>1, <2>2, PageAssumption DEF pages, talks
<1> QED  BY <1>4, <1>5, <1>6, <1>7, <1>8, <1>9

LEMMA ConnectListens ==
    ASSUME TypeInv, Inv, NEW p \in Page, Connect(p)
    PROVE  /\ Listens(p, "newConversation", "getConversations")'
           /\ Listens(p, "newUser", "getUsers")'
           /\ Asked(p, "getConversations")' /\ Asked(p, "getUsers")'
<1>1. Call(p, Greeting)
  BY DEF Connect
<1>0. Greeting \in Seq(Calling)
  BY GreetingCalls
<1>2. PICK made \in Seq(Asking) :
         /\ Len(made) = Len(Greeting)
         /\ \A k \in DOMAIN Greeting : made[k].method = Greeting[k].method /\ made[k].arg = Greeting[k].arg
         /\ requests' = [requests EXCEPT ![p] = requests[p] \o made]
  <2>1. PICK calls : calls = Greeting
    OBVIOUS
  <2>2. calls \in Seq(Calling) /\ Call(p, calls)
    BY <1>0, <1>1, <2>1
  <2>3. \E made \in Seq(Asking) :
           /\ Len(made) = Len(calls)
           /\ \A k \in DOMAIN calls : made[k].method = calls[k].method /\ made[k].arg = calls[k].arg
           /\ requests' = [requests EXCEPT ![p] = requests[p] \o made]
           /\ nextId' \in [Page -> Nat]
           /\ callbacks' \in [Page -> Seq(Method)]
    BY <2>2, CallShape
  <2> QED  BY <2>1, <2>3
<1>3. DOMAIN Greeting = 1..7 /\ Len(Greeting) = 7
  BY GreetingCalls, SeqFacts DEF Greeting
<1>4. requests'[p] = requests[p] \o made
  BY <1>2, RpcOf DEF RpcTyped
<1> QED  BY <1>2, <1>3, <1>4, GreetingListens

LEMMA ActKeepsTabs ==
    ASSUME TypeInv, Inv, TabInv, NEW p \in Page,
           \/ Connect(p) \/ ClosePage(p)
           \/ \E x \in OwnNames : ChooseNickname(p, x)
           \/ \E k \in DOMAIN drawn[p] : StartConversation(p, k)
           \/ \E k \in DOMAIN tabs[p] : WriteText(p, k) \/ CloseTab(p, k)
    PROVE  TabInv'
<1>1. /\ UNCHANGED <<server, process, tabs, partner, left, improvised>>
      /\ \A q \in Page : messages'[q] = messages[q] \/ messages'[q] = <<>>
      /\ \A q \in Page : open'[q] = "open" =>
            /\ messages'[q] = messages[q]
            /\ open[q] = "open" \/ (q = p /\ Connect(p))
      /\ \A q \in Page : q # p => requests'[q] = requests[q]
  BY ActShape
<1>2. PICK new \in Seq(Asking) : requests'[p] = requests[p] \o new
  BY ActShape
<1>3. TalksStep /\ Lasting' = Lasting /\ PartnersKnown'
  BY <1>1, SameTalks DEF TabInv, process
<1>4. LeavesAreTrue'
  <2>1. \A q \in Page : \A m \in ToSet(messages'[q]) : m \in ToSet(messages[q])
    BY <1>1, ShortFacts
  <2>2. outbox' = outbox
    BY <1>1 DEF server
  <2> QED  BY <1>3, <2>1, <2>2, LeavesStay DEF TabInv
<1>5. ASSUME Connect(p)
      PROVE  /\ Listens(p, "newConversation", "getConversations")'
             /\ Listens(p, "newUser", "getUsers")' /\ Asked(p, "getConversations")'
  BY <1>5, ConnectListens
<1>6. ListenThenAsk'
  <2> SUFFICES ASSUME NEW q \in Page, open'[q] = "open"
               PROVE  /\ Listens(q, "newConversation", "getConversations")'
                      /\ Listens(q, "newUser", "getUsers")'
    BY DEF ListenThenAsk
  <2>1. CASE q = p /\ Connect(p)
    BY <1>5, <2>1
  <2>2. CASE open[q] = "open"
    <3>1. /\ Listens(q, "newConversation", "getConversations")
          /\ Listens(q, "newUser", "getUsers")
      BY <2>2 DEF TabInv, ListenThenAsk
    <3>2. subscribers' = subscribers
      BY <1>1 DEF server
    <3>3. CASE q = p
      BY <1>2, <3>1, <3>2, <3>3, ListensCalls
    <3>4. CASE q # p
      BY <1>1, <3>1, <3>2, <3>4, ListensSame
    <3> QED  BY <3>3, <3>4
  <2> QED  BY <1>1, <2>1, <2>2
<1>7. TabsCome'
  <2> SUFFICES ASSUME NEW q \in Page, open'[q] = "open", NEW c \in Lasting
               PROVE  TabComes(q, c)'
    BY <1>3 DEF TabsCome
  <2>1. CASE q = p /\ Connect(p)
    BY <1>5, <2>1 DEF TabComes
  <2>2. CASE open[q] = "open"
    <3>1. TabComes(q, c)
      BY <2>2 DEF TabInv, TabsCome
    <3>2. UNCHANGED <<subscribers, outbox, tabs>> /\ messages'[q] = messages[q]
      BY <1>1 DEF server
    <3>3. Asked(q, "getConversations") => Asked(q, "getConversations")'
      <4>1. ToSet(requests[q]) \subseteq ToSet(requests'[q])
        <5>1. PICK s \in Seq(Asking) : s = requests[p]
          BY RpcOf DEF RpcTyped
        <5>2. ToSet(s) \subseteq ToSet(s \o new)
          BY ConcatFacts
        <5> QED  BY <1>1, <1>2, <5>1, <5>2
      <4> QED  BY <4>1 DEF Asked
    <3>4. HasTab(q, c) => HasTab(q, c)'
      BY <3>2 DEF HasTab
    <3>5. TabArrives(q, c) => TabArrives(q, c)'
      BY <3>2 DEF TabArrives, HasTalks, IsNote, IsResult, Mentions
    <3>6. TabIsAnswered(q, c) => TabIsAnswered(q, c)'
      BY <3>2 DEF TabIsAnswered, IsResult, Mentions
    <3>7. TabIsTold(q, c) => TabIsTold(q, c)'
      BY <3>2 DEF TabIsTold, IsNote, Mentions
    <3> QED  BY <3>1, <3>3, <3>4, <3>5, <3>6, <3>7 DEF TabComes
  <2> QED  BY <1>1, <2>1, <2>2
<1> QED  BY <1>3, <1>4, <1>6, <1>7 DEF TabInv

\* A call is served.
LEMMA ServedKeepsTabs ==
    ASSUME TypeInv, TabInv, NEW p \in Page, NEW method, NEW sends \in Seq(Sent),
           Served(p, method, sends), UNCHANGED Unserved,
           \A s \in Stream : subscribers[s] \subseteq subscribers'[s],
           method = "subscribe" /\ Request(p).arg.name \in Stream =>
              p \in subscribers'[Request(p).arg.name],
           TalksStep, PartnersKnown',
           \A m \in ToSet(sends) : LeftForGood(m)',
           \A c \in Lasting' : c \in Lasting \/
              \E m \in ToSet(sends) : IsNote(m, "newConversation") /\ Mentions(m, c),
           method = "getConversations" => \A c \in Lasting' :
              \E m \in ToSet(sends) : IsResult(m, "getConversations") /\ Mentions(m, c),
           method # "getConversations" => \A m \in ToSet(sends) : ~IsResult(m, "getConversations")
    PROVE  TabInv'
<1>0. {"newConversation", "newUser"} \subseteq Stream
  BY PageAssumption
<1>1. /\ outbox[p] = <<>> /\ requests[p] # <<>> /\ Request(p).method = method
      /\ requests' = [requests EXCEPT ![p] = Tail(requests[p])]
      /\ outbox' = [outbox EXCEPT ![p] = sends]
      /\ ToSet(requests[p]) = {Request(p)} \cup ToSet(Tail(requests[p]))
  BY ServedShape
<1>2. RpcTyped /\ p \in Thread /\ UNCHANGED <<open, messages, tabs>>
  BY RpcOf, ThreadsAreApart DEF Unserved, client, pages
<1>3. /\ \A q \in Page : requests'[q] = IF q = p THEN Tail(requests[p]) ELSE requests[q]
      /\ \A t \in Thread : outbox'[t] = IF t = p THEN sends ELSE outbox[t]
  BY <1>1, <1>2 DEF RpcTyped
<1>4. LeavesAreTrue'
  <2>1. \A t \in Thread : \A m \in ToSet(outbox'[t]) : m \in ToSet(outbox[t]) \/ LeftForGood(m)'
    BY <1>3
  <2> QED  BY <1>2, <2>1, LeavesStay DEF TabInv
<1>5. ASSUME NEW q \in Page, open'[q] = "open"
      PROVE  /\ Listens(q, "newConversation", "getConversations")'
             /\ Listens(q, "newUser", "getUsers")'
             /\ q = p /\ method # "getConversations" /\ ~(p \in subscribers'["newConversation"])
                   => Asked(p, "getConversations")'
  <2>1. /\ Listens(q, "newConversation", "getConversations")
        /\ Listens(q, "newUser", "getUsers")
    BY <1>2, <1>5 DEF TabInv, ListenThenAsk
  <2>2. CASE q = p
    BY <1>0, <2>1, <2>2, ListensServed
  <2>3. CASE q # p
    BY <1>0, <1>3, <2>1, <2>3, ListensSame
  <2> QED  BY <2>2, <2>3
<1>6. ListenThenAsk'
  BY <1>5 DEF ListenThenAsk
<1>7. TabsCome'
  <2> SUFFICES ASSUME NEW q \in Page, open'[q] = "open", NEW c \in Lasting' PROVE TabComes(q, c)'
    BY DEF TabsCome
  <2>1. CASE \E m \in ToSet(sends) : IsNote(m, "newConversation") /\ Mentions(m, c)
    <3>1. PICK m \in ToSet(sends) : IsNote(m, "newConversation") /\ Mentions(m, c)
      BY <2>1
    <3>2. m \in ToSet(outbox'[p])
      BY <1>2, <1>3
    <3>3. CASE q \in subscribers'["newConversation"]
      BY <1>2, <3>1, <3>2, <3>3 DEF TabComes, TabIsTold, IsNote, Mentions
    <3>4. CASE q \notin subscribers'["newConversation"]
      <4>1. CASE q = p /\ method # "getConversations"
        BY <1>5, <3>4, <4>1 DEF TabComes
      <4>2. CASE q = p /\ method = "getConversations"
        <5>1. PICK n \in ToSet(sends) : IsResult(n, "getConversations") /\ Mentions(n, c)
          BY <4>2
        <5> QED  BY <1>2, <1>3, <4>2, <5>1 DEF TabComes, TabIsAnswered, IsResult, Mentions
      <4>3. CASE q # p
        <5>1. Listens(q, "newConversation", "getConversations")'
          BY <1>5
        <5>2. Asked(q, "getConversations")'
          BY <3>4, <5>1 DEF Listens, WillAsk, Asked, ToSet
        <5> QED  BY <5>2 DEF TabComes
      <4> QED  BY <4>1, <4>2, <4>3
    <3> QED  BY <3>3, <3>4
  <2>2. CASE c \in Lasting
    <3>1. TabComes(q, c)
      BY <1>2, <2>2 DEF TabInv, TabsCome
    <3>2. CASE HasTab(q, c) \/ TabArrives(q, c)
      BY <1>2, <3>2 DEF TabComes, HasTab, TabArrives, HasTalks, IsNote, IsResult, Mentions
    <3>3. CASE TabIsAnswered(q, c)
      <4>1. q # p /\ q \in Thread
        BY <1>1, <3>3, ShortFacts, ThreadsAreApart DEF TabIsAnswered
      <4> QED  BY <1>3, <3>3, <4>1 DEF TabComes, TabIsAnswered, IsResult, Mentions
    <3>4. CASE TabIsTold(q, c)
      <4>0. PICK t \in Thread : \E m \in ToSet(outbox[t]) : IsNote(m, "newConversation") /\ Mentions(m, c)
        BY <3>4 DEF TabIsTold
      <4>1. PICK m \in ToSet(outbox[t]) : IsNote(m, "newConversation") /\ Mentions(m, c)
        BY <4>0
      <4>2. t # p
        BY <1>1, <4>1, ShortFacts
      <4>3. m \in ToSet(outbox'[t]) /\ q \in subscribers'["newConversation"]
        BY <1>0, <1>3, <3>4, <4>2 DEF TabIsTold
      <4> QED  BY <4>1, <4>3 DEF TabComes, TabIsTold, IsNote, Mentions
    <3>5. CASE Asked(q, "getConversations")
      <4>1. CASE q # p
        BY <1>3, <3>5, <4>1 DEF TabComes, Asked
      <4>2. CASE q = p /\ method # "getConversations"
        <5>1. PICK r \in ToSet(requests[p]) : r.method = "getConversations"
          BY <3>5, <4>2 DEF Asked
        <5>2. r \in ToSet(requests'[p])
          BY <1>1, <1>3, <4>2, <5>1
        <5> QED  BY <4>2, <5>1, <5>2 DEF TabComes, Asked
      <4>3. CASE q = p /\ method = "getConversations"
        <5>1. PICK n \in ToSet(sends) : IsResult(n, "getConversations") /\ Mentions(n, c)
          BY <4>3
        <5> QED  BY <1>2, <1>3, <4>3, <5>1 DEF TabComes, TabIsAnswered, IsResult, Mentions
      <4> QED  BY <4>1, <4>2, <4>3
    <3> QED  BY <3>1, <3>2, <3>3, <3>4, <3>5 DEF TabComes
  <2> QED  BY <2>1, <2>2
<1> QED  BY <1>4, <1>6, <1>7 DEF TabInv

\* Nothing happens to the conversations.
LEMMA ServedElse ==
    ASSUME TypeInv, TabInv, NEW p \in Page, NEW method, NEW m \in Sent, Served(p, method, <<m>>),
           UNCHANGED <<Unserved, convs, talks>>,
           \A s \in Stream : subscribers[s] \subseteq subscribers'[s],
           method = "subscribe" /\ Request(p).arg.name \in Stream =>
              p \in subscribers'[Request(p).arg.name],
           m.kind # "note",
           method = "getConversations" => \A c \in Listed : Mentions(m, c),
           method = "getConversations" <=> IsResult(m, "getConversations")
    PROVE  TabInv'
<1>1. <<m>> \in Seq(Sent) /\ ToSet(<<m>>) = {m}
  BY ShortFacts
<1>2. TalksStep /\ Lasting' = Lasting /\ PartnersKnown'
  BY SameTalks DEF TabInv, talks
<1>3. LeftForGood(m)'
  BY DEF LeftForGood, IsNote
<1>4. Lasting \subseteq Listed
  BY DEF Lasting
<1> QED  BY <1>1, <1>2, <1>3, <1>4, ServedKeepsTabs

LEMMA ServingKeepsTabs ==
    ASSUME TypeInv, TabInv, NEW p \in Page,
           \/ ServeSubscribe(p) \/ ServeUpdateNickname(p) \/ ServeSendMessage(p)
           \/ ServeGetConversations(p) \/ ServeGetUsers(p)
           \/ \E c \in ConvId : ServeAddConversation(p, c)
           \/ ServeLeaveConversation(p) \/ ServeFailing(p)
    PROVE  TabInv'
<1>0. PICK r : r = Request(p)
  OBVIOUS
<1>1. ASSUME NEW method, NEW v \in Seq(AnItem), Served(p, method, <<Result(r, v)>>),
             UNCHANGED <<Unserved, convs, talks>>,
             \A s \in Stream : subscribers[s] \subseteq subscribers'[s],
             method = "subscribe" /\ r.arg.name \in Stream => p \in subscribers'[r.arg.name],
             method = "getConversations" => v = Roll
      PROVE  TabInv'
  <2>1. r \in Asking /\ r.method = method
    BY <1>0, <1>1, ArgumentOf
  <2>0. PICK m : m = Result(r, v)
    OBVIOUS
  <2>2. m \in Sent
    BY <2>0, <2>1, Values
  <2>3. method = "getConversations" => \A c \in Listed : Mentions(m, c)
    BY <1>1, <2>0, RollFacts DEF Mentions, Result
  <2>4. /\ m.kind # "note"
        /\ method = "getConversations" <=> IsResult(m, "getConversations")
    BY <2>0, <2>1 DEF Result, IsResult
  <2>5. Served(p, method, <<m>>)
    BY <1>1, <2>0
  <2> QED  BY <1>0, <1>1, <2>2, <2>3, <2>4, <2>5, ServedElse
<1>2. CASE ServeSubscribe(p)
  <2>1. /\ Served(p, "subscribe", <<Result(r, <<>>)>>)
        /\ subscribers' = [subscribers EXCEPT ![r.arg.name] = @ \cup {p}]
        /\ UNCHANGED <<Unserved, process, talks>>
    BY <1>0, <1>2 DEF ServeSubscribe, Subscribe
  <2>2. subscribers \in [Stream -> SUBSET Page] /\ <<>> \in Seq(AnItem)
    BY RpcOf, ShortFacts DEF RpcTyped
  <2>3. /\ \A s \in Stream : subscribers[s] \subseteq subscribers'[s]
        /\ r.arg.name \in Stream => p \in subscribers'[r.arg.name]
    BY <2>1, <2>2
  <2> QED  BY <1>1, <2>1, <2>2, <2>3 DEF process
<1>3. CASE ServeUpdateNickname(p)
  <2>1. PICK y \in AnyNick : Served(p, "updateNickname", <<Result(r, <<Item(y, 0, 0)>>)>>)
    <3>1. r.arg.name \in AnyNick
      <4>1. SoundCall(r) /\ r.method = "updateNickname"
        BY <1>0, <1>3, ArgumentOf DEF ServeUpdateNickname
      <4> QED  BY <4>1 DEF SoundCall, AnyNick
    <3>2. (IF byName[r.arg.name] = Nobody THEN r.arg.name ELSE Empty) \in AnyNick
      BY <3>1, Values
    <3> QED  BY <1>0, <1>3, <3>2 DEF ServeUpdateNickname
  <2>2. PICK v \in Seq(AnItem) : v = <<Item(y, 0, 0)>>
    BY NameOnly, ShortFacts
  <2>3. UNCHANGED <<Unserved, convs, talks, subscribers>>
    BY <1>3 DEF ServeUpdateNickname
  <2>4. Served(p, "updateNickname", <<Result(r, v)>>)
    BY <2>1, <2>2
  <2> QED  BY <1>1, <2>3, <2>4
<1>4. CASE ServeSendMessage(p)
  <2>1. Served(p, "sendMessage", <<Result(r, <<r.arg>>)>>) /\ UNCHANGED <<Unserved, convs, talks, subscribers>>
    BY <1>0, <1>4 DEF ServeSendMessage, process
  <2>2. PICK v \in Seq(AnItem) : v = <<r.arg>>
    <3>1. r.arg \in AnItem
      BY <1>0, <2>1, ArgumentOf
    <3> QED  BY <3>1, ShortFacts
  <2>3. Served(p, "sendMessage", <<Result(r, v)>>)
    BY <2>1, <2>2
  <2> QED  BY <1>1, <2>1, <2>3
<1>5. CASE ServeGetConversations(p)
  <2>1. Served(p, "getConversations", <<Result(r, Roll)>>) /\ UNCHANGED <<Unserved, convs, talks, subscribers>>
    BY <1>0, <1>5 DEF ServeGetConversations, Roll, process
  <2> QED  BY <1>1, <2>1, RollFacts
<1>6. CASE ServeGetUsers(p)
  <2>1. Served(p, "getUsers", <<Result(r, Register)>>) /\ UNCHANGED <<Unserved, convs, talks, subscribers>>
    BY <1>0, <1>6 DEF ServeGetUsers, Register, KnownOnes, process
  <2> QED  BY <1>1, <2>1, RegisterFacts
<1>7. CASE ServeFailing(p)
  <2>1. PICK method : /\ Served(p, method, <<Failure(r)>>) /\ UNCHANGED <<Unserved, convs, talks, subscribers>>
                      /\ method \in {"addConversation", "sendMessage", "leaveConversation"}
    BY <1>0, <1>7 DEF ServeFailing, process
  <2>0. PICK m : m = Failure(r)
    OBVIOUS
  <2>2. m \in Sent /\ m.kind = "error"
    <3>1. r \in Asking
      BY <1>0, <2>1, ArgumentOf
    <3> QED  BY <2>0, <3>1, Values DEF Failure
  <2>3. ~IsResult(m, "getConversations")
    BY <2>2 DEF IsResult
  <2>4. Served(p, method, <<m>>)
    BY <2>0, <2>1
  <2> QED  BY <2>1, <2>2, <2>3, <2>4, ServedElse
<1>8. ASSUME NEW c \in ConvId, ServeAddConversation(p, c) PROVE TabInv'
  <2>0. PICK x : x = r.arg.name
    OBVIOUS
  <2>a. PICK m : m = Note("newConversation", <<Item(x, c, 0)>>)
    OBVIOUS
  <2>1. /\ Served(p, "addConversation", <<m, Result(r, <<>>)>>)
        /\ partner[c] = Nobody
        /\ convs' = [convs EXCEPT ![c] = x]
        /\ partner' = [partner EXCEPT ![c] = byName[x]]
        /\ UNCHANGED <<Unserved, subscribers, left, improvised>>
    BY <1>0, <1>8, <2>0, <2>a DEF ServeAddConversation
  <2>2. r \in Asking /\ r.method = "addConversation" /\ x \in Heard /\ c \in Talk
    <3>1. r \in Asking /\ r.method = "addConversation" /\ SoundCall(r)
      BY <1>0, <2>1, ArgumentOf
    <3> QED  BY <2>0, <3>1 DEF SoundCall, Talk
  <2>3. x \in AnyNick /\ byName[x] # Nobody
    BY <2>2 DEF Heard
  <2>4. Item(x, c, 0) \in AnItem /\ Item(x, c, 0).conv = c
    BY <2>2, <2>3, Values
  <2>5. <<Item(x, c, 0)>> \in Seq(AnItem) /\ ToSet(<<Item(x, c, 0)>>) = {Item(x, c, 0)}
    BY <2>4, ShortFacts
  <2>6. m \in Sent /\ IsNote(m, "newConversation") /\ Mentions(m, c) /\ LeftForGood(m)'
    BY <2>a, <2>4, <2>5, Values, PageAssumption DEF IsNote, Mentions, Note, LeftForGood
  <2>7. Result(r, <<>>) \in Sent
    BY <2>2, Values, ShortFacts
  <2>8. PICK sends \in Seq(Sent) :
           /\ sends = <<m, Result(r, <<>>)>>
           /\ ToSet(sends) = {m, Result(r, <<>>)}
    <3>1. PICK n : n = Result(r, <<>>)
      OBVIOUS
    <3>2. m \in Sent /\ n \in Sent
      BY <2>6, <2>7, <3>1
    <3>3. <<m, n>> \in Seq(Sent) /\ ToSet(<<m, n>>) = {m, n}
      BY <3>2, ShortFacts
    <3> QED  BY <3>1, <3>3
  <2>9. /\ convs \in [Talk -> AnyNick \cup {Absent}] /\ partner \in [Talk -> Peer \cup {Nobody}]
        /\ ConvId \subseteq Talk
    BY TypesApart DEF ProcessTyped, HistoryTyped, Talk
  <2>10. \A d \in Listed' : d \in Listed \/ d = c
    BY <2>1, <2>9 DEF Listed
  <2>11. TalksStep /\ \A d \in Lasting' : d \in Lasting \/ d = c
    <3>1. \A d \in Lasting' : d \in Lasting \/ d = c
      BY <2>1, <2>10 DEF Lasting
    <3> QED  BY <2>1, <2>9, <3>1 DEF TalksStep
  <2>12. PartnersKnown'
    BY <2>1, <2>3, <2>9, <2>10 DEF PartnersKnown, TabInv
  <2>13. LeftForGood(Result(r, <<>>))' /\ ~IsResult(Result(r, <<>>), "getConversations") /\ ~IsResult(m, "getConversations")
    BY <2>a, <2>2 DEF LeftForGood, IsNote, IsResult, Result, Note
  <2>14. \A s \in Stream : subscribers[s] \subseteq subscribers'[s]
    BY <2>1
  <2>15. Served(p, "addConversation", sends) /\ UNCHANGED Unserved
    BY <2>1, <2>8
  <2>16. /\ \A n \in ToSet(sends) : LeftForGood(n)' /\ ~IsResult(n, "getConversations")
         /\ \A d \in Lasting' : d \in Lasting \/
               \E n \in ToSet(sends) : IsNote(n, "newConversation") /\ Mentions(n, d)
    BY <2>6, <2>8, <2>11, <2>13
  <2> QED  BY <2>11, <2>12, <2>14, <2>15, <2>16, ServedKeepsTabs
<1>9. CASE ServeLeaveConversation(p)
  <2>0. PICK c : c = r.arg.conv
    OBVIOUS
  <2>a. PICK m : m = Note("leaveConversation", <<Item(Null, c, 0)>>)
    OBVIOUS
  <2>1. /\ Served(p, "leaveConversation", <<m, Result(r, <<>>)>>)
        /\ c \in Listed
        /\ convs' = [convs EXCEPT ![c] = Absent]
        /\ UNCHANGED <<Unserved, subscribers, talks>>
    BY <1>0, <1>9, <2>0, <2>a DEF ServeLeaveConversation
  <2>2. r \in Asking /\ r.method = "leaveConversation" /\ c \in Talk \cup {0, Undefined}
    BY <1>0, <2>0, <2>1, ArgumentOf
  <2>3. <<Item(Null, c, 0)>> \in Seq(AnItem) /\ Item(Null, c, 0).conv = c
    <3>1. PICK d \in Talk \cup {0, Undefined} : d = c
      BY <2>2
    <3>2. Item(Null, d, 0) \in AnItem /\ Item(Null, d, 0).conv = d
      BY Values
    <3> QED  BY <3>1, <3>2, ShortFacts
  <2>4. Listed' = Listed \ {c}
    <3>1. convs \in [Talk -> AnyNick \cup {Absent}]
      BY TypesApart DEF ProcessTyped
    <3> QED  BY <2>1, <3>1 DEF Listed
  <2>5. TalksStep /\ PartnersKnown' /\ \A e \in Lasting' : e \in Lasting
    <3>1. \A e \in Lasting' : e \in Lasting
      BY <2>1, <2>4 DEF Lasting, talks
    <3>2. partner' = partner
      BY <2>1 DEF talks
    <3> QED  BY <2>1, <2>4, <3>1, <3>2 DEF TalksStep, PartnersKnown, TabInv, talks
  <2>6. m.kind = "note" /\ m.of = "leaveConversation" /\ m.value[1].conv = c /\ m \in Sent
    BY <2>a, <2>3, Values, PageAssumption DEF Note
  <2>7. LeftForGood(m)'
    <3>1. c \notin Lasting'
      BY <2>4 DEF Lasting
    <3>2. c \in ConvId => partner'[c] # Nobody
      BY <2>1 DEF TabInv, PartnersKnown, talks
    <3> QED  BY <2>6, <3>1, <3>2 DEF LeftForGood
  <2>8. Result(r, <<>>) \in Sent
    BY <2>2, Values, ShortFacts
  <2>9. PICK sends \in Seq(Sent) :
           /\ sends = <<m, Result(r, <<>>)>>
           /\ ToSet(sends) = {m, Result(r, <<>>)}
    <3>1. PICK n : n = Result(r, <<>>)
      OBVIOUS
    <3>2. m \in Sent /\ n \in Sent
      BY <2>6, <2>8, <3>1
    <3>3. <<m, n>> \in Seq(Sent) /\ ToSet(<<m, n>>) = {m, n}
      BY <3>2, ShortFacts
    <3> QED  BY <3>1, <3>3
  <2>10. /\ LeftForGood(Result(r, <<>>))' /\ ~IsResult(Result(r, <<>>), "getConversations")
         /\ ~IsResult(m, "getConversations")
    BY <2>2, <2>6 DEF LeftForGood, IsNote, IsResult, Result
  <2>11. \A s \in Stream : subscribers[s] \subseteq subscribers'[s]
    BY <2>1
  <2>12. Served(p, "leaveConversation", sends) /\ UNCHANGED Unserved
    BY <2>1, <2>9
  <2>13. \A n \in ToSet(sends) : LeftForGood(n)' /\ ~IsResult(n, "getConversations")
    BY <2>7, <2>9, <2>10
  <2> QED  BY <2>5, <2>11, <2>12, <2>13, ServedKeepsTabs
<1> QED  BY <1>2, <1>3, <1>4, <1>5, <1>6, <1>7, <1>8, <1>9

LEMMA InitTabs == Init => TabInv
<1> SUFFICES ASSUME Init PROVE TabInv
  OBVIOUS
<1>1. PartnersKnown
  <2>1. Listed \subseteq {Everyone} /\ left = {} /\ improvised = {}
    BY DEF Init, Listed
  <2>2. Everyone \notin ConvId
    BY PageAssumption DEF Everyone
  <2> QED  BY <2>1, <2>2 DEF PartnersKnown
<1>2. /\ messages = [p \in Page |-> <<>>] /\ outbox = [t \in Thread |-> <<>>]
      /\ \A p \in Page : open[p] = "connecting"
  BY DEF Init, RpcInit
<1>3. ToSet(<<>>) = {}
  BY ShortFacts
<1>4. LeavesAreTrue
  BY <1>2, <1>3 DEF LeavesAreTrue
<1>5. ListenThenAsk /\ TabsCome
  BY <1>2 DEF ListenThenAsk, TabsCome
<1> QED  BY <1>1, <1>4, <1>5 DEF TabInv

LEMMA SendKeepsTabs ==
    ASSUME TypeInv, TabInv, NEW t \in Thread, SendNext(t)
    PROVE  TabInv'
<1>0. PICK x : x = Head(outbox[t])
  OBVIOUS
<1>1. /\ outbox[t] # <<>>
      /\ outbox' = [outbox EXCEPT ![t] = Tail(@)]
      /\ \A p \in Page :
            messages'[p] = IF p \in Receivers(t, x) /\ open[p] = "open"
                           THEN Append(messages[p], x) ELSE messages[p]
      /\ UNCHANGED <<open, requests, subscribers, tabs, convs, left, improvised, partner>>
  BY <1>0, SendShape DEF client, process, pages, history, talks
<1>2. /\ ToSet(outbox[t]) = {x} \cup ToSet(Tail(outbox[t]))
      /\ \A u \in Thread : outbox'[u] = IF u = t THEN Tail(outbox[t]) ELSE outbox[u]
      /\ \A u \in Thread : ToSet(outbox'[u]) \subseteq ToSet(outbox[u])
  BY <1>0, <1>1, OutboxShrinks
<1>3. TalksStep /\ Lasting' = Lasting /\ PartnersKnown'
  BY <1>1, SameTalks DEF TabInv
<1>4. \A p \in Page :
         /\ ToSet(messages[p]) \subseteq ToSet(messages'[p])
         /\ ToSet(messages'[p]) \subseteq ToSet(messages[p]) \cup {x}
         /\ p \in Receivers(t, x) /\ open[p] = "open" => x \in ToSet(messages'[p])
  <2> SUFFICES ASSUME NEW p \in Page
               PROVE  /\ ToSet(messages[p]) \subseteq ToSet(messages'[p])
                      /\ ToSet(messages'[p]) \subseteq ToSet(messages[p]) \cup {x}
                      /\ p \in Receivers(t, x) /\ open[p] = "open" => x \in ToSet(messages'[p])
    OBVIOUS
  <2>1. messages[p] \in Seq(Sent) /\ x \in Sent
    BY <1>0, <1>1, OutboxShrinks, RpcOf DEF RpcTyped
  <2>2. PICK s \in Seq(Sent) : s = messages[p]
    BY <2>1
  <2>3. ToSet(Append(s, x)) = ToSet(s) \cup {x}
    BY <2>1, AppendFacts
  <2> QED  BY <1>1, <2>2, <2>3
<1>5. LeavesAreTrue'
  <2>1. \A p \in Page : \A m \in ToSet(messages'[p]) :
           m \in ToSet(messages[p]) \/ \E u \in Thread : m \in ToSet(outbox[u])
    BY <1>2, <1>4
  <2>2. \A u \in Thread : \A m \in ToSet(outbox'[u]) : m \in ToSet(outbox[u]) \/ LeftForGood(m)'
    BY <1>2
  <2> QED  BY <1>3, <2>1, <2>2, LeavesStay DEF TabInv
<1>6. ListenThenAsk'
  BY <1>1, ListensSame DEF TabInv, ListenThenAsk
<1>7. TabsCome'
  <2> SUFFICES ASSUME NEW q \in Page, open'[q] = "open", NEW c \in Lasting PROVE TabComes(q, c)'
    BY <1>3 DEF TabsCome
  <2>0. q \in Thread
    BY DEF Thread
  <2>1. TabComes(q, c) /\ open[q] = "open"
    BY <1>1 DEF TabInv, TabsCome
  <2>2. CASE HasTab(q, c) \/ TabArrives(q, c) \/ Asked(q, "getConversations")
    BY <1>1, <1>4, <2>2 DEF TabComes, HasTab, TabArrives, Asked, HasTalks, IsNote, IsResult, Mentions
  <2>3. CASE TabIsAnswered(q, c)
    <3>1. PICK m \in ToSet(outbox[q]) : IsResult(m, "getConversations") /\ Mentions(m, c)
      BY <2>3 DEF TabIsAnswered
    <3>2. CASE m \in ToSet(outbox'[q])
      BY <3>1, <3>2 DEF TabComes, TabIsAnswered, IsResult, Mentions
    <3>3. CASE m \notin ToSet(outbox'[q])
      <4>1. t = q /\ m = x
        BY <1>2, <2>0, <3>1, <3>3
      <4>2. q \in Receivers(t, x)
        BY <3>1, <4>1 DEF Receivers, IsResult
      <4>3. m \in ToSet(messages'[q])
        BY <1>4, <2>1, <4>1, <4>2
      <4> QED  BY <3>1, <4>3 DEF TabComes, TabArrives, HasTalks, IsResult, IsNote, Mentions
    <3> QED  BY <3>2, <3>3
  <2>4. CASE TabIsTold(q, c)
    <3>0. PICK u \in Thread : \E m \in ToSet(outbox[u]) : IsNote(m, "newConversation") /\ Mentions(m, c)
      BY <2>4 DEF TabIsTold
    <3>1. PICK m \in ToSet(outbox[u]) : IsNote(m, "newConversation") /\ Mentions(m, c)
      BY <3>0
    <3>4. q \in subscribers["newConversation"] /\ subscribers' = subscribers
      BY <1>1, <2>4 DEF TabIsTold
    <3>2. CASE m \in ToSet(outbox'[u])
      BY <3>1, <3>2, <3>4 DEF TabComes, TabIsTold, IsNote, Mentions
    <3>3. CASE m \notin ToSet(outbox'[u])
      <4>1. t = u /\ m = x
        BY <1>2, <3>1, <3>3
      <4>2. q \in Receivers(t, x)
        BY <3>1, <3>4, <4>1 DEF Receivers, IsNote
      <4>3. m \in ToSet(messages'[q])
        BY <1>4, <2>1, <4>1, <4>2
      <4> QED  BY <3>1, <4>3 DEF TabComes, TabArrives, HasTalks, IsResult, IsNote, Mentions
    <3> QED  BY <3>2, <3>3
  <2> QED  BY <2>1, <2>2, <2>3, <2>4 DEF TabComes
<1> QED  BY <1>3, <1>5, <1>6, <1>7 DEF TabInv

\* What threads are about to send changes, and conversations with it.
LEMMA OutboxKeepsTabs ==
    ASSUME TypeInv, TabInv, UNCHANGED <<open, requests, messages, subscribers, tabs>>,
           \A t \in Thread : \A m \in ToSet(outbox[t]) : m \in ToSet(outbox'[t]) \/ m.kind = "drop",
           \A t \in Thread : \A m \in ToSet(outbox'[t]) : m \in ToSet(outbox[t]) \/ LeftForGood(m)',
           TalksStep, PartnersKnown',
           \A c \in Lasting' : c \in Lasting \/
              \E m \in ToSet(outbox'[Handler]) : IsNote(m, "newConversation") /\ Mentions(m, c)
    PROVE  TabInv'
<1>1. LeavesAreTrue'
  BY LeavesStay DEF TabInv
<1>2. ListenThenAsk'
  BY ListensSame DEF TabInv, ListenThenAsk
<1>3. TabsCome'
  <2> SUFFICES ASSUME NEW q \in Page, open'[q] = "open", NEW c \in Lasting' PROVE TabComes(q, c)'
    BY DEF TabsCome
  <2>0. q \in Thread /\ Handler \in Thread
    BY DEF Thread
  <2>1. CASE c \in Lasting
    <3>1. TabComes(q, c)
      BY <2>1 DEF TabInv, TabsCome
    <3>2. HasTab(q, c) => HasTab(q, c)'
      BY DEF HasTab
    <3>3. TabArrives(q, c) => TabArrives(q, c)'
      BY DEF TabArrives, HasTalks, IsNote, IsResult, Mentions
    <3>4. TabIsAnswered(q, c) => TabIsAnswered(q, c)'
      BY <2>0 DEF TabIsAnswered, IsResult, Mentions
    <3>5. TabIsTold(q, c) => TabIsTold(q, c)'
      BY DEF TabIsTold, IsNote, Mentions
    <3>6. Asked(q, "getConversations") => Asked(q, "getConversations")'
      BY DEF Asked
    <3> QED  BY <3>1, <3>2, <3>3, <3>4, <3>5, <3>6 DEF TabComes
  <2>2. CASE \E m \in ToSet(outbox'[Handler]) : IsNote(m, "newConversation") /\ Mentions(m, c)
    <3>1. Listens(q, "newConversation", "getConversations")
      BY DEF TabInv, ListenThenAsk
    <3>2. CASE q \in subscribers["newConversation"]
      <4>1. TabIsTold(q, c)'
        BY <2>0, <2>2, <3>2 DEF TabIsTold, IsNote, Mentions
      <4> QED  BY <4>1 DEF TabComes
    <3>3. CASE q \notin subscribers["newConversation"]
      <4>1. Asked(q, "getConversations")
        BY <3>1, <3>3 DEF Listens, WillAsk, Asked, ToSet
      <4> QED  BY <4>1 DEF TabComes, Asked
    <3> QED  BY <3>2, <3>3
  <2> QED  BY <2>1, <2>2
<1> QED  BY <1>1, <1>2, <1>3 DEF TabInv

LEMMA NewsKeepsTabs ==
    ASSUME TypeInv, TabInv, NEW sends \in Seq(Sent), News(sends), UNCHANGED Unmoved,
           \A m \in ToSet(sends) : LeftForGood(m)', TalksStep, PartnersKnown',
           \A c \in Lasting' : c \in Lasting \/
              \E m \in ToSet(sends) : IsNote(m, "newConversation") /\ Mentions(m, c)
    PROVE  TabInv'
<1>1. outbox' = [outbox EXCEPT ![Handler] = sends] /\ outbox[Handler] = <<>>
  BY NewsShape
<1>2. \A t \in Thread : outbox'[t] = IF t = Handler THEN sends ELSE outbox[t]
  BY <1>1, RpcOf DEF RpcTyped
<1>3. ToSet(outbox[Handler]) = {} /\ Handler \in Thread
  BY <1>1, ShortFacts DEF Thread
<1>4. UNCHANGED <<open, requests, messages, subscribers, tabs>>
  BY DEF Unmoved, client, wire, pages
<1> QED  BY <1>2, <1>3, <1>4, OutboxKeepsTabs

LEMMA PeersKeepTabs ==
    ASSUME TypeInv, TabInv, NEW a \in Peer,
           \/ \E x \in AnyNick : HandleNickChange(a, x)
           \/ \E c \in Talk : HandleText(a, c)
           \/ HandleLeave(a)
           \/ \E c \in ConvId : HandleInvite(a, c) \/ HandleLeaveConversation(a, c)
    PROVE  TabInv'
<1>0. /\ convs \in [Talk -> AnyNick \cup {Absent}] /\ partner \in [Talk -> Peer \cup {Nobody}]
      /\ ConvId \subseteq Talk /\ a # Nobody
  BY TypesApart, PageAssumption DEF ProcessTyped, HistoryTyped, Talk
<1>1. ASSUME NEW x \in AnyNick, HandleNickChange(a, x) PROVE TabInv'
  <2>0. PICK m : m = Note("newUser", <<Item(x, 0, 0)>>)
    OBVIOUS
  <2>1. News(<<m>>) /\ UNCHANGED <<Unmoved, convs, talks>>
    BY <1>1, <2>0 DEF HandleNickChange
  <2>2. m \in Sent /\ LeftForGood(m)'
    <3>1. <<Item(x, 0, 0)>> \in Seq(AnItem) /\ "newUser" \in Stream
      BY NameOnly, ShortFacts, PageAssumption
    <3> QED  BY <2>0, <3>1, Values DEF LeftForGood, IsNote, Note
  <2>3. PICK sends \in Seq(Sent) : sends = <<m>> /\ ToSet(sends) = {m}
    BY <2>2, ShortFacts
  <2>4. TalksStep /\ Lasting' = Lasting /\ PartnersKnown'
    BY <2>1, SameTalks DEF TabInv, talks
  <2> QED  BY <2>1, <2>2, <2>3, <2>4, NewsKeepsTabs
<1>2. ASSUME NEW c \in Talk, HandleText(a, c) PROVE TabInv'
  <2>0. PICK m : m = Note("newMessage", <<Item(byAddress[a], c, Len(texts) + 1)>>)
    OBVIOUS
  <2>a. PICK made : made = Note("newConversation", <<Item(Undefined, Undefined, 0)>>)
    OBVIOUS
  <2>1. /\ Known(a)
        /\ c = Everyone \/ partner[c] = a
        /\ \/ News(<<m>>) /\ UNCHANGED <<convs, improvised>>
           \/ /\ News(<<made, m>>)
              /\ convs' = [convs EXCEPT ![c] = byAddress[a]]
              /\ improvised' = improvised \cup {c}
        /\ UNCHANGED <<Unmoved, partner, left>>
    BY <1>2, <2>0, <2>a DEF HandleText
  <2>2. Len(texts) + 1 \in 1..MaxNews + MaxDeeds
    BY <2>1, NewsShape
  <2>3. m \in Sent /\ LeftForGood(m)'
    <3>1. byAddress[a] \in AnyNick
      BY <2>1, NameOf
    <3>2. PICK x \in AnyNick : x = byAddress[a]
      BY <3>1
    <3>3. PICK t \in 0..MaxNews + MaxDeeds : t = Len(texts) + 1
      BY <2>2
    <3>4. Item(x, c, t) \in AnItem
      BY Values
    <3>5. <<Item(x, c, t)>> \in Seq(AnItem) /\ "newMessage" \in Stream
      BY <3>4, ShortFacts, PageAssumption
    <3>6. m = Note("newMessage", <<Item(x, c, t)>>)
      BY <2>0, <3>2, <3>3
    <3> QED  BY <3>5, <3>6, Values DEF LeftForGood, IsNote, Note
  <2>4. made \in Sent /\ LeftForGood(made)'
    <3>1. Item(Undefined, Undefined, 0) \in AnItem
      BY Values
    <3>2. <<Item(Undefined, Undefined, 0)>> \in Seq(AnItem) /\ "newConversation" \in Stream
      BY <3>1, ShortFacts, PageAssumption
    <3> QED  BY <2>a, <3>2, Values DEF LeftForGood, IsNote, Note
  <2>5. PICK sends \in Seq(Sent) : /\ News(sends) /\ \A n \in ToSet(sends) : n \in {made, m}
                                   /\ \/ UNCHANGED <<convs, improvised>>
                                      \/ /\ convs' = [convs EXCEPT ![c] = byAddress[a]]
                                         /\ improvised' = improvised \cup {c}
    <3>1. <<m>> \in Seq(Sent) /\ ToSet(<<m>>) = {m}
      BY <2>3, ShortFacts
    <3>2. <<made, m>> \in Seq(Sent) /\ ToSet(<<made, m>>) = {made, m}
      BY <2>3, <2>4, ShortFacts
    <3> QED  BY <2>1, <3>1, <3>2
  <2>6. \A d \in Talk : d \in Listed' => d \in Listed \/ d \in improvised'
    BY <1>0, <2>5 DEF Listed
  <2>7. improvised \subseteq improvised' /\ \A d \in improvised' : d \in improvised \/ d = c
    BY <2>5
  <2>8. Lasting' \subseteq Lasting
    BY <2>1, <2>6, <2>7 DEF Lasting, Listed
  <2>9. PartnersKnown'
    <3>1. \A d \in ConvId : d \in Listed' \/ d \in left' \/ d \in improvised' =>
              d \in Listed \/ d \in left \/ d \in improvised \/ d = c
      BY <1>0, <2>1, <2>6, <2>7
    <3>2. c \in ConvId => partner[c] # Nobody
      BY <1>0, <2>1, PageAssumption DEF Everyone
    <3> QED  BY <2>1, <3>1, <3>2 DEF PartnersKnown, TabInv
  <2>10. TalksStep
    BY <2>1, <2>8 DEF TalksStep
  <2> QED  BY <2>1, <2>3, <2>4, <2>5, <2>8, <2>9, <2>10, NewsKeepsTabs
<1>3. CASE HandleLeave(a)
  <2>0. PICK x : x = byAddress[a]
    OBVIOUS
  <2>a. PICK m : m = Note("removeUser", <<Item(x, 0, 0)>>)
    OBVIOUS
  <2>b. PICK d : d = DropTalksWith(x)
    OBVIOUS
  <2>1. Known(a) /\ News(<<m, d>>) /\ UNCHANGED <<Unmoved, convs, talks>>
    BY <1>3, <2>0, <2>a, <2>b DEF HandleLeave
  <2>2. x \in AnyNick
    BY <2>0, <2>1, NameOf
  <2>3. m \in Sent /\ LeftForGood(m)'
    <3>1. <<Item(x, 0, 0)>> \in Seq(AnItem) /\ "removeUser" \in Stream
      BY <2>2, NameOnly, ShortFacts, PageAssumption
    <3> QED  BY <2>a, <3>1, Values DEF LeftForGood, IsNote, Note
  <2>4. d \in Sent /\ LeftForGood(d)'
    BY <2>2, <2>b, Values DEF LeftForGood, IsNote, DropTalksWith
  <2>5. PICK sends \in Seq(Sent) : sends = <<m, d>> /\ ToSet(sends) = {m, d}
    <3>1. <<m, d>> \in Seq(Sent) /\ ToSet(<<m, d>>) = {m, d}
      BY <2>3, <2>4, ShortFacts
    <3> QED  BY <3>1
  <2>6. TalksStep /\ Lasting' = Lasting /\ PartnersKnown'
    BY <2>1, SameTalks DEF TabInv, talks
  <2> QED  BY <2>1, <2>3, <2>4, <2>5, <2>6, NewsKeepsTabs
<1>4. ASSUME NEW c \in ConvId, HandleInvite(a, c) PROVE TabInv'
  <2>0. PICK x : x = byAddress[a]
    OBVIOUS
  <2>a. PICK m : m = Note("newConversation", <<Item(x, c, 0)>>)
    OBVIOUS
  <2>1. /\ Known(a) /\ News(<<m>>) /\ partner[c] = Nobody
        /\ convs' = [convs EXCEPT ![c] = x]
        /\ partner' = [partner EXCEPT ![c] = a]
        /\ UNCHANGED <<Unmoved, left, improvised>>
    BY <1>4, <2>0, <2>a DEF HandleInvite
  <2>2. x \in AnyNick /\ c \in Talk
    BY <1>0, <2>0, <2>1, NameOf
  <2>3. m \in Sent /\ LeftForGood(m)' /\ IsNote(m, "newConversation") /\ Mentions(m, c)
    <3>1. Item(x, c, 0) \in AnItem /\ Item(x, c, 0).conv = c
      BY <2>2, Values
    <3>2. <<Item(x, c, 0)>> \in Seq(AnItem) /\ ToSet(<<Item(x, c, 0)>>) = {Item(x, c, 0)}
      BY <3>1, ShortFacts
    <3> QED  BY <2>a, <3>1, <3>2, Values, PageAssumption DEF LeftForGood, IsNote, Note, Mentions
  <2>4. PICK sends \in Seq(Sent) : sends = <<m>> /\ ToSet(sends) = {m}
    BY <2>3, ShortFacts
  <2>5. \A d \in Listed' : d \in Listed \/ d = c
    BY <1>0, <2>1 DEF Listed
  <2>6. \A d \in Lasting' : d \in Lasting \/ d = c
    BY <2>1, <2>5 DEF Lasting
  <2>7. TalksStep /\ PartnersKnown'
    BY <1>0, <2>1, <2>5, <2>6 DEF TalksStep, PartnersKnown, TabInv
  <2> QED  BY <2>1, <2>3, <2>4, <2>6, <2>7, NewsKeepsTabs
<1>5. ASSUME NEW c \in ConvId, HandleLeaveConversation(a, c) PROVE TabInv'
  <2>a. PICK m : m = Note("leaveConversation", <<Item(Null, c, 0)>>)
    OBVIOUS
  <2>1. /\ News(<<m>>) /\ partner[c] = a
        /\ left' = left \cup {c}
        /\ UNCHANGED <<Unmoved, convs, partner, improvised>>
    BY <1>5, <2>a DEF HandleLeaveConversation
  <2>2. Listed' = Listed /\ Lasting' = Lasting \ {c}
    BY <2>1 DEF Listed, Lasting
  <2>3. TalksStep /\ PartnersKnown'
    BY <1>0, <2>1, <2>2 DEF TalksStep, PartnersKnown, TabInv
  <2>4. m \in Sent /\ LeftForGood(m)'
    <3>0. c \in Talk
      BY <1>0
    <3>1. Item(Null, c, 0) \in AnItem /\ Item(Null, c, 0).conv = c
      BY <3>0, Values
    <3>2. <<Item(Null, c, 0)>> \in Seq(AnItem)
      BY <3>1, ShortFacts
    <3>3. m.value[1].conv = c /\ m.kind = "note" /\ m.of = "leaveConversation" /\ m \in Sent
      BY <2>a, <3>1, <3>2, Values, PageAssumption DEF Note
    <3> QED  BY <1>0, <2>1, <2>2, <3>3 DEF LeftForGood, IsNote
  <2>5. PICK sends \in Seq(Sent) : sends = <<m>> /\ ToSet(sends) = {m}
    BY <2>4, ShortFacts
  <2> QED  BY <2>1, <2>2, <2>3, <2>4, <2>5, NewsKeepsTabs
<1> QED  BY <1>1, <1>2, <1>3, <1>4, <1>5

LEMMA DropKeepsTabs ==
    ASSUME TypeInv, TabInv, DropTalks
    PROVE  TabInv'
<1>1. /\ outbox[Handler] # <<>> /\ Head(outbox[Handler]).kind = "drop"
      /\ outbox' = [outbox EXCEPT ![Handler] = Tail(@)]
      /\ \/ UNCHANGED convs
         \/ \E c \in Listed : convs' = [convs EXCEPT ![c] = Absent]
      /\ UNCHANGED <<open, requests, messages, subscribers, tabs, left, improvised, partner>>
  BY DEF DropTalks, client, wire, pages, history, talks
<1>2. Handler \in Thread
  BY DEF Thread
<1>3. /\ ToSet(outbox[Handler]) = {Head(outbox[Handler])} \cup ToSet(Tail(outbox[Handler]))
      /\ \A u \in Thread : outbox'[u] = IF u = Handler THEN Tail(outbox[Handler]) ELSE outbox[u]
      /\ \A u \in Thread : ToSet(outbox'[u]) \subseteq ToSet(outbox[u])
  BY <1>1, <1>2, OutboxShrinks
<1>4. Listed' \subseteq Listed
  BY <1>1, TypesApart DEF Listed, ProcessTyped
<1>5. Lasting' \subseteq Lasting
  BY <1>1, <1>4 DEF Lasting
<1>6. TalksStep /\ PartnersKnown'
  BY <1>1, <1>4, <1>5 DEF TalksStep, PartnersKnown, TabInv
<1>7. \A t \in Thread : \A m \in ToSet(outbox[t]) : m \in ToSet(outbox'[t]) \/ m.kind = "drop"
  BY <1>1, <1>3
<1>8. \A t \in Thread : \A m \in ToSet(outbox'[t]) : m \in ToSet(outbox[t]) \/ LeftForGood(m)'
  BY <1>3
<1> QED  BY <1>1, <1>5, <1>6, <1>7, <1>8, OutboxKeepsTabs

LEMMA TakeKeepsTabs ==
    ASSUME TypeInv, Inv, TabInv, NEW p \in Page, NEW kind, Take(p, kind), UNCHANGED Untaken,
           \A q \in Page : q # p => tabs'[q] = tabs[q],
           \A c \in Lasting : HasTab(p, c) => HasTab(p, c)',
           HasTalks(Head(messages[p])) =>
              \A c \in Lasting : Mentions(Head(messages[p]), c) => HasTab(p, c)'
    PROVE  TabInv'
<1>0. PICK x : x = Head(messages[p])
  OBVIOUS
<1>1. /\ \A q \in Page : messages'[q] = IF q = p THEN Tail(messages[p]) ELSE messages[q]
      /\ ToSet(messages[p]) = {x} \cup ToSet(Tail(messages[p]))
  BY <1>0, TakeShape
<1>2. UNCHANGED <<open, requests, subscribers, outbox, convs, left, improvised, partner>>
  BY DEF Untaken, server, process, talks
<1>3. TalksStep /\ Lasting' = Lasting /\ PartnersKnown'
  BY <1>2, SameTalks DEF TabInv
<1>4. LeavesAreTrue'
  <2>1. \A q \in Page : \A m \in ToSet(messages'[q]) : m \in ToSet(messages[q])
    BY <1>1
  <2> QED  BY <1>2, <1>3, <2>1, LeavesStay DEF TabInv
<1>5. ListenThenAsk'
  BY <1>2, ListensSame DEF TabInv, ListenThenAsk
<1>6. TabsCome'
  <2> SUFFICES ASSUME NEW q \in Page, open'[q] = "open", NEW c \in Lasting PROVE TabComes(q, c)'
    BY <1>3 DEF TabsCome
  <2>1. TabComes(q, c)
    BY <1>2 DEF TabInv, TabsCome
  <2>2. CASE HasTab(q, c)
    <3>1. HasTab(q, c)'
      BY <2>2 DEF HasTab
    <3> QED  BY <3>1 DEF TabComes
  <2>3. CASE TabArrives(q, c)
    <3>1. PICK m \in ToSet(messages[q]) : HasTalks(m) /\ Mentions(m, c)
      BY <2>3 DEF TabArrives
    <3>2. CASE m \in ToSet(messages'[q])
      BY <3>1, <3>2 DEF TabComes, TabArrives, HasTalks, IsResult, IsNote, Mentions
    <3>3. CASE m \notin ToSet(messages'[q])
      <4>1. q = p /\ m = x
        BY <1>1, <3>1, <3>3
      <4>2. HasTab(q, c)'
        BY <1>0, <3>1, <4>1
      <4> QED  BY <4>2 DEF TabComes
    <3> QED  BY <3>2, <3>3
  <2>4. CASE TabIsAnswered(q, c) \/ TabIsTold(q, c) \/ Asked(q, "getConversations")
    BY <1>2, <2>4 DEF TabComes, TabIsAnswered, TabIsTold, Asked, IsResult, IsNote, Mentions
  <2> QED  BY <2>1, <2>2, <2>3, <2>4 DEF TabComes
<1> QED  BY <1>3, <1>4, <1>5, <1>6 DEF TabInv

LEMMA TakingKeepsTabs ==
    ASSUME TypeInv, Inv, TabInv, NEW p \in Page,
           \/ TakeSilently(p) \/ TakeNickname(p) \/ TakeOwnText(p) \/ TakeConversations(p)
           \/ TakeUsers(p) \/ TakeError(p) \/ TakeNewConversation(p) \/ TakeNewMessage(p)
           \/ TakeLeaveConversation(p) \/ TakeNewUser(p) \/ TakeRemoveUser(p)
    PROVE  TabInv'
<1>1. CASE TakeConversations(p) \/ TakeNewConversation(p)
  <2>1. PICK kind, f : Takes(p, kind, f)
    BY <1>1, TalksShown
  <2>2. /\ AddTabs(p, Value(p)) /\ Value(p) \in Seq(AnItem)
        /\ \A i \in ToSet(Value(p)) :
              i.name \in AnyNick \cup {Undefined} /\ i.conv \in Talk \cup {Undefined}
    BY <1>1, TalksShown
  <2>3. /\ \A q \in Page : q # p => tabs'[q] = tabs[q]
        /\ ToSet(tabs[p]) \subseteq ToSet(tabs'[p])
        /\ \A i \in ToSet(Value(p)) : \E y \in ToSet(tabs'[p]) : y.conv = i.conv
    BY <2>2, AddTabsShape
  <2>4. \A c : HasTab(p, c) => HasTab(p, c)'
    BY <2>3 DEF HasTab
  <2>5. \A c : Mentions(Head(messages[p]), c) => HasTab(p, c)'
    BY <2>3 DEF HasTab, Mentions, Value
  <2> QED  BY <2>1, <2>3, <2>4, <2>5, TakeKeepsTabs DEF Takes
<1>2. CASE TakeOwnText(p) \/ TakeNewMessage(p)
  <2>1. PICK kind, f : Takes(p, kind, f)
    BY <1>2, TextShown
  <2>2. /\ \A q \in Page : q # p => tabs'[q] = tabs[q]
        /\ DOMAIN tabs'[p] = DOMAIN tabs[p]
        /\ \A k \in DOMAIN tabs[p] : tabs'[p][k].conv = tabs[p][k].conv
    BY <1>2, TextShown, AddTextShape
  <2>3. \A c : HasTab(p, c) => HasTab(p, c)'
    BY <2>2 DEF HasTab, ToSet
  <2>4. ~HasTalks(Head(messages[p]))
    <3>1. HasText(Head(messages[p]))
      BY <1>2, TextShown
    <3> QED  BY <3>1 DEF HasText, HasTalks, IsNote, IsResult
  <2> QED  BY <2>1, <2>2, <2>3, <2>4, TakeKeepsTabs DEF Takes
<1>3. CASE TakeLeaveConversation(p)
  <2>1. /\ Takes(p, "note", "leaveConversation") /\ RemoveTabs(p, TheItem(p).conv)
    BY <1>3, TakesEither DEF TakeLeaveConversation
  <2>2. PICK x : x = TheItem(p).conv
    OBVIOUS
  <2>3. x \notin Lasting
    <3>1. Head(messages[p]) \in ToSet(messages[p]) /\ IsNote(Head(messages[p]), "leaveConversation")
      BY <2>1, Taken DEF IsNote
    <3>2. LeftForGood(Head(messages[p]))
      BY <3>1 DEF TabInv, LeavesAreTrue
    <3> QED  BY <2>2, <3>1, <3>2 DEF LeftForGood, TheItem, Value
  <2>4. /\ \A q \in Page : q # p => tabs'[q] = tabs[q]
        /\ \A y \in ToSet(tabs[p]) : y.conv # x => y \in ToSet(tabs'[p])
    BY <2>1, <2>2, RemoveTabsShape
  <2>5. \A c \in Lasting : HasTab(p, c) => HasTab(p, c)'
    BY <2>3, <2>4 DEF HasTab
  <2>6. ~HasTalks(Head(messages[p]))
    BY <2>1, Taken DEF HasTalks, IsNote, IsResult
  <2> QED  BY <2>1, <2>4, <2>5, <2>6, TakeKeepsTabs DEF Takes
<1>4. ASSUME NEW kind, Take(p, kind), UNCHANGED Untaken, UNCHANGED tabs, ~HasTalks(Head(messages[p]))
      PROVE  TabInv'
  <2>1. \A c : HasTab(p, c) => HasTab(p, c)'
    BY <1>4 DEF HasTab
  <2> QED  BY <1>4, <2>1, TakeKeepsTabs
<1>5. CASE TakeSilently(p) \/ TakeNickname(p) \/ TakeUsers(p) \/ TakeNewUser(p) \/ TakeRemoveUser(p)
  <2>1. PICK f \in {"subscribe", "addConversation", "leaveConversation", "updateNickname", "getUsers",
                    "newUser", "removeUser"} :
            (TakeResult(p, f) /\ f \notin {"newUser", "removeUser"})
               \/ (TakeNote(p, f) /\ f \in {"newUser", "removeUser"})
    BY <1>5 DEF TakeSilently, TakeNickname, TakeUsers, TakeNewUser, TakeRemoveUser
  <2>2. PICK kind : Takes(p, kind, f)
    BY <2>1, TakesEither
  <2>3. ~HasTalks(Head(messages[p]))
    BY <2>1, <2>2, Taken DEF HasTalks, IsNote, IsResult
  <2>4. UNCHANGED tabs
    BY <1>5 DEF TakeSilently, TakeNickname, TakeUsers, TakeNewUser, TakeRemoveUser, pages
  <2> QED  BY <1>4, <2>2, <2>3, <2>4 DEF Takes
<1>6. CASE TakeError(p)
  <2>1. Take(p, "error") /\ UNCHANGED Untaken /\ UNCHANGED tabs
    BY <1>6 DEF TakeError, pages
  <2>2. ~HasTalks(Head(messages[p]))
    BY <2>1, TakeShape DEF HasTalks, IsNote, IsResult
  <2> QED  BY <1>4, <2>1, <2>2
<1> QED  BY <1>1, <1>2, <1>3, <1>5, <1>6

LEMMA NextTabs == TypeInv /\ Inv /\ TabInv /\ [Next]_vars => TabInv'
<1> SUFFICES ASSUME TypeInv, Inv, TabInv, [Next]_vars PROVE TabInv'
  OBVIOUS
<1>1. CASE UNCHANGED vars
  <2>1. /\ UNCHANGED <<open, requests, messages, subscribers, tabs, outbox>>
        /\ UNCHANGED <<convs, left, improvised, partner>>
    BY <1>1 DEF vars, rpc, client, wire, server, process, pages, history, talks
  <2>2. TalksStep /\ Lasting' = Lasting /\ PartnersKnown'
    BY <2>1, SameTalks DEF TabInv
  <2> QED  BY <2>1, <2>2, OutboxKeepsTabs
<1>2. ASSUME NEW p \in Page,
             \/ Connect(p) \/ ClosePage(p)
             \/ \E x \in OwnNames : ChooseNickname(p, x)
             \/ \E k \in DOMAIN drawn[p] : StartConversation(p, k)
             \/ \E k \in DOMAIN tabs[p] : WriteText(p, k) \/ CloseTab(p, k)
      PROVE  TabInv'
  BY <1>2, ActKeepsTabs
<1>3. ASSUME NEW p \in Page,
             \/ ServeSubscribe(p) \/ ServeUpdateNickname(p) \/ ServeSendMessage(p)
             \/ ServeGetConversations(p) \/ ServeGetUsers(p)
             \/ \E c \in ConvId : ServeAddConversation(p, c)
             \/ ServeLeaveConversation(p) \/ ServeFailing(p)
      PROVE  TabInv'
  BY <1>3, ServingKeepsTabs
<1>4. ASSUME NEW a \in Peer,
             \/ \E x \in AnyNick : HandleNickChange(a, x)
             \/ \E c \in Talk : HandleText(a, c)
             \/ HandleLeave(a)
             \/ \E c \in ConvId : HandleInvite(a, c) \/ HandleLeaveConversation(a, c)
      PROVE  TabInv'
  BY <1>4, PeersKeepTabs
<1>5. ASSUME NEW t \in Thread, SendNext(t) PROVE TabInv'
  BY <1>5, SendKeepsTabs
<1> QED  BY <1>1, <1>2, <1>3, <1>4, <1>5, DropKeepsTabs, TakingKeepsTabs DEF Next

\* A page that has got and shown all that was sent to it has a tab for every
\* conversation of the process that no peer left and that was not made up from
\* a message: whether it was there before the page asked for the list, was made
\* while the list was under way, or after that.
THEOREM TabsForConversations == Spec => []ConversationsHaveTabs
<1>1. TabInv => ConversationsHaveTabs
  <2> SUFFICES ASSUME TabInv, NEW p \in Page, Loaded(p), NEW c \in Listed \ (left \cup improvised)
               PROVE  \E k \in DOMAIN tabs[p] : tabs[p][k].conv = c
    BY DEF ConversationsHaveTabs
  <2>1. TabComes(p, c)
    BY DEF TabInv, TabsCome, Lasting, Loaded
  <2>2. /\ messages[p] = <<>> /\ requests[p] = <<>>
        /\ \A t \in Thread : outbox[t] = <<>>
    BY DEF Loaded, Quiet, Free
  <2>3. ToSet(<<>>) = {} /\ p \in Thread
    BY ShortFacts DEF Thread
  <2>4. HasTab(p, c)
    BY <2>1, <2>2, <2>3 DEF TabComes, TabArrives, TabIsAnswered, TabIsTold, Asked
  <2> QED  BY <2>4 DEF HasTab, ToSet
<1> QED  BY <1>1, InitTypes, NextTypes, InitTabs, NextTabs, InvInit, InvStep, PTL DEF Spec

----------------------------------------------------------------------------
(* What is served and what peers cause, in one lemma each.                 *)

TextOf(m) == m.value[1].text
Tells(m, x) == \E i \in ToSet(m.value) : i.name = x

\* Names that a page ought to list.
Present == {x \in AnyNick \ leavers : \E a \in Peer : byAddress[a] = x}

\* The outcome of a call, as for users and texts.
Outcome(p, method, m) ==
    /\ m.kind = "note" => m.of \in {"newConversation", "leaveConversation"}
    /\ m.kind = "result" => m.of = method
    /\ IsResult(m, "sendMessage") => TextOf(m) = Request(p).arg.text

LEMMA ResultOutcome ==
    ASSUME TypeInv, NEW p \in Page, NEW method, NEW m \in Sent, Served(p, method, <<m>>), Outcome(p, method, m),
           UNCHANGED <<Unserved, book, texts, handled>>,
           \A s \in Stream : subscribers[s] \subseteq subscribers'[s],
           method = "getUsers" => IsResult(m, "getUsers") /\ \A x \in Present : Tells(m, x)
    PROVE  \E f : \E sends \in Seq(Sent) :
              /\ Served(p, f, sends)
              /\ \A n \in ToSet(sends) : Outcome(p, f, n)
              /\ \A i, j \in DOMAIN sends : HasText(sends[i]) /\ HasText(sends[j]) => i = j
              /\ UNCHANGED <<Unserved, book, texts, handled>>
              /\ \A s \in Stream : subscribers[s] \subseteq subscribers'[s]
              /\ f = "getUsers" => \A x \in Present :
                    \E n \in ToSet(sends) : IsResult(n, "getUsers") /\ Tells(n, x)
<1>1. PICK sends \in Seq(Sent) : sends = <<m>> /\ ToSet(sends) = {m}
  BY ShortFacts
<1>2. DOMAIN sends = {1}
  BY <1>1
<1> QED  BY <1>1, <1>2

LEMMA NoteOutcome ==
    ASSUME TypeInv, NEW p \in Page, NEW method, NEW m \in Sent, NEW n \in Sent, Served(p, method, <<m, n>>),
           Outcome(p, method, m), Outcome(p, method, n), m.kind = "note", method # "getUsers",
           UNCHANGED <<Unserved, book, texts, handled>>,
           \A s \in Stream : subscribers[s] \subseteq subscribers'[s]
    PROVE  \E f : \E sends \in Seq(Sent) :
              /\ Served(p, f, sends)
              /\ \A l \in ToSet(sends) : Outcome(p, f, l)
              /\ \A i, j \in DOMAIN sends : HasText(sends[i]) /\ HasText(sends[j]) => i = j
              /\ UNCHANGED <<Unserved, book, texts, handled>>
              /\ \A s \in Stream : subscribers[s] \subseteq subscribers'[s]
              /\ f = "getUsers" => \A x \in Present :
                    \E l \in ToSet(sends) : IsResult(l, "getUsers") /\ Tells(l, x)
<1>1. PICK sends \in Seq(Sent) : sends = <<m, n>> /\ ToSet(sends) = {m, n}
  <2>1. <<m, n>> \in Seq(Sent) /\ ToSet(<<m, n>>) = {m, n}
    BY ShortFacts
  <2> QED  BY <2>1
<1>2. DOMAIN sends = {1, 2} /\ sends[1] = m /\ sends[2] = n
  BY <1>1
<1>3. ~HasText(m)
  BY DEF HasText, IsNote, IsResult, Outcome
<1>4. \A i, j \in DOMAIN sends : HasText(sends[i]) /\ HasText(sends[j]) => i = j
  BY <1>2, <1>3
<1>5. \A l \in ToSet(sends) : Outcome(p, method, l)
  BY <1>1
<1> QED  BY <1>1, <1>4, <1>5

LEMMA ServeShape ==
    ASSUME TypeInv, NEW p \in Page,
           \/ ServeSubscribe(p) \/ ServeUpdateNickname(p) \/ ServeSendMessage(p)
           \/ ServeGetConversations(p) \/ ServeGetUsers(p)
           \/ \E c \in ConvId : ServeAddConversation(p, c)
           \/ ServeLeaveConversation(p) \/ ServeFailing(p)
    PROVE  \E method : \E sends \in Seq(Sent) :
              /\ Served(p, method, sends)
              /\ \A m \in ToSet(sends) : Outcome(p, method, m)
              /\ \A i, j \in DOMAIN sends : HasText(sends[i]) /\ HasText(sends[j]) => i = j
              /\ UNCHANGED <<Unserved, book, texts, handled>>
              /\ \A s \in Stream : subscribers[s] \subseteq subscribers'[s]
              /\ method = "getUsers" => \A x \in Present :
                    \E m \in ToSet(sends) : IsResult(m, "getUsers") /\ Tells(m, x)
<1>0. PICK r : r = Request(p)
  OBVIOUS
<1>1. ASSUME NEW method, NEW v \in Seq(AnItem), Served(p, method, <<Result(r, v)>>),
             UNCHANGED <<Unserved, book, texts, handled>>,
             \A s \in Stream : subscribers[s] \subseteq subscribers'[s],
             method = "sendMessage" => v[1].text = r.arg.text,
             method = "getUsers" => v = Register
      PROVE  \E f : \E sends \in Seq(Sent) :
                /\ Served(p, f, sends)
                /\ \A m \in ToSet(sends) : Outcome(p, f, m)
                /\ \A i, j \in DOMAIN sends : HasText(sends[i]) /\ HasText(sends[j]) => i = j
                /\ UNCHANGED <<Unserved, book, texts, handled>>
                /\ \A s \in Stream : subscribers[s] \subseteq subscribers'[s]
                /\ f = "getUsers" => \A x \in Present :
                      \E m \in ToSet(sends) : IsResult(m, "getUsers") /\ Tells(m, x)
  <2>1. r \in Asking /\ r.method = method
    BY <1>0, <1>1, ArgumentOf
  <2>2. PICK m : m = Result(r, v)
    OBVIOUS
  <2>3. /\ m \in Sent /\ m.kind = "result" /\ m.of = method /\ m.value = v
        /\ Served(p, method, <<m>>)
    BY <1>1, <2>1, <2>2, Values DEF Result
  <2>4. Outcome(p, method, m)
    BY <1>0, <1>1, <2>3 DEF Outcome, IsResult, TextOf
  <2>5. method = "getUsers" => \A x \in Present : Tells(m, x)
    <3> SUFFICES ASSUME method = "getUsers", NEW x \in Present PROVE Tells(m, x)
      OBVIOUS
    <3>1. PICK a \in Peer : byAddress[a] = x /\ x \in AnyNick
      BY DEF Present
    <3>2. Known(a)
      BY <3>1, PageAssumption DEF Known
    <3>3. \E i \in ToSet(Register) : i.name = byAddress[a]
      BY <3>2, RegisterFacts
    <3> QED  BY <1>1, <2>3, <3>1, <3>3 DEF Tells
  <2> QED  BY <1>1, <2>3, <2>4, <2>5, ResultOutcome DEF IsResult
<1>2. CASE ServeSubscribe(p)
  <2>1. /\ Served(p, "subscribe", <<Result(r, <<>>)>>)
        /\ subscribers' = [subscribers EXCEPT ![r.arg.name] = @ \cup {p}]
        /\ UNCHANGED <<Unserved, book, texts, handled>>
    BY <1>0, <1>2 DEF ServeSubscribe, Subscribe, process, talks
  <2>2. subscribers \in [Stream -> SUBSET Page] /\ <<>> \in Seq(AnItem)
    BY RpcOf, ShortFacts DEF RpcTyped
  <2>3. \A s \in Stream : subscribers[s] \subseteq subscribers'[s]
    BY <2>1, <2>2
  <2> QED  BY <1>1, <2>1, <2>2, <2>3
<1>3. CASE ServeUpdateNickname(p)
  <2>1. PICK y \in AnyNick : Served(p, "updateNickname", <<Result(r, <<Item(y, 0, 0)>>)>>)
    <3>1. r.arg.name \in AnyNick
      <4>1. SoundCall(r) /\ r.method = "updateNickname"
        BY <1>0, <1>3, ArgumentOf DEF ServeUpdateNickname
      <4> QED  BY <4>1 DEF SoundCall, AnyNick
    <3>2. (IF byName[r.arg.name] = Nobody THEN r.arg.name ELSE Empty) \in AnyNick
      BY <3>1, Values
    <3> QED  BY <1>0, <1>3, <3>2 DEF ServeUpdateNickname
  <2>2. PICK v \in Seq(AnItem) : v = <<Item(y, 0, 0)>>
    BY NameOnly, ShortFacts
  <2>3. UNCHANGED <<Unserved, book, texts, handled, subscribers>>
    BY <1>3 DEF ServeUpdateNickname, talks
  <2>4. Served(p, "updateNickname", <<Result(r, v)>>)
    BY <2>1, <2>2
  <2> QED  BY <1>1, <2>3, <2>4
<1>4. CASE ServeSendMessage(p)
  <2>1. /\ Served(p, "sendMessage", <<Result(r, <<r.arg>>)>>)
        /\ UNCHANGED <<Unserved, book, texts, handled, subscribers>>
    BY <1>0, <1>4 DEF ServeSendMessage, process, talks
  <2>2. PICK v \in Seq(AnItem) : v = <<r.arg>>
    <3>1. r.arg \in AnItem
      BY <1>0, <2>1, ArgumentOf
    <3> QED  BY <3>1, ShortFacts
  <2>3. Served(p, "sendMessage", <<Result(r, v)>>) /\ v[1].text = r.arg.text
    BY <2>1, <2>2
  <2> QED  BY <1>1, <2>1, <2>3
<1>5. CASE ServeGetConversations(p)
  <2>1. /\ Served(p, "getConversations", <<Result(r, Roll)>>)
        /\ UNCHANGED <<Unserved, book, texts, handled, subscribers>>
    BY <1>0, <1>5 DEF ServeGetConversations, Roll, process, talks
  <2> QED  BY <1>1, <2>1, RollFacts
<1>6. CASE ServeGetUsers(p)
  <2>1. /\ Served(p, "getUsers", <<Result(r, Register)>>)
        /\ UNCHANGED <<Unserved, book, texts, handled, subscribers>>
    BY <1>0, <1>6 DEF ServeGetUsers, Register, KnownOnes, process, talks
  <2> QED  BY <1>1, <2>1, RegisterFacts
<1>7. CASE ServeFailing(p)
  <2>1. PICK method : /\ Served(p, method, <<Failure(r)>>)
                      /\ UNCHANGED <<Unserved, book, texts, handled, subscribers>>
                      /\ method \in {"addConversation", "sendMessage", "leaveConversation"}
    BY <1>0, <1>7 DEF ServeFailing, process, talks
  <2>2. PICK m : m = Failure(r)
    OBVIOUS
  <2>3. m \in Sent /\ m.kind = "error"
    <3>1. r \in Asking
      BY <1>0, <2>1, ArgumentOf
    <3> QED  BY <2>2, <3>1, Values DEF Failure
  <2>4. Served(p, method, <<m>>) /\ Outcome(p, method, m)
    BY <2>1, <2>2, <2>3 DEF Outcome, IsResult
  <2>5. \A s \in Stream : subscribers[s] \subseteq subscribers'[s]
    BY <2>1
  <2> QED  BY <2>1, <2>3, <2>4, <2>5, ResultOutcome
<1>8. CASE ServeLeaveConversation(p) \/ \E c \in ConvId : ServeAddConversation(p, c)
  <2>1. PICK method, s, x, c :
           /\ Served(p, method, <<Note(s, <<Item(x, c, 0)>>), Result(r, <<>>)>>)
           /\ \/ s = "newConversation" /\ method = "addConversation" /\ c \in ConvId /\ x = r.arg.name
              \/ s = "leaveConversation" /\ method = "leaveConversation" /\ c = r.arg.conv /\ x = Null
           /\ UNCHANGED <<Unserved, book, texts, handled, subscribers>>
    BY <1>0, <1>8 DEF ServeLeaveConversation, ServeAddConversation, talks
  <2>2. r \in Asking /\ r.method = method
    BY <1>0, <2>1, ArgumentOf
  <2>3. x \in AnyNick /\ c \in Talk \cup {0, Undefined}
    <3>1. SoundCall(r) /\ r.arg.conv \in Talk \cup {0, Undefined}
      BY <1>0, <2>1, ArgumentOf
    <3>2. method = "addConversation" => r.arg.name \in AnyNick
      BY <2>2, <3>1 DEF SoundCall, Heard
    <3> QED  BY <2>1, <3>1, <3>2, Values DEF Talk
  <2>4. <<Item(x, c, 0)>> \in Seq(AnItem)
    <3>1. PICK d \in Talk \cup {0, Undefined} : d = c
      BY <2>3
    <3>2. Item(x, d, 0) \in AnItem
      BY <2>3, Values
    <3> QED  BY <3>1, <3>2, ShortFacts
  <2>5. PICK m : m = Note(s, <<Item(x, c, 0)>>)
    OBVIOUS
  <2>6. PICK n : n = Result(r, <<>>)
    OBVIOUS
  <2>7. m \in Sent /\ m.kind = "note" /\ m.of = s
    BY <2>1, <2>4, <2>5, Values, PageAssumption DEF Note
  <2>8. n \in Sent /\ n.kind = "result" /\ n.of = method
    BY <2>2, <2>6, Values, ShortFacts DEF Result
  <2>9. Outcome(p, method, m) /\ Outcome(p, method, n)
    BY <2>1, <2>7, <2>8 DEF Outcome, IsResult
  <2>10. Served(p, method, <<m, n>>)
    BY <2>1, <2>5, <2>6
  <2>11. /\ \A t \in Stream : subscribers[t] \subseteq subscribers'[t]
         /\ method # "getUsers" /\ UNCHANGED <<Unserved, book, texts, handled>>
    BY <2>1
  <2> QED  BY <2>7, <2>8, <2>9, <2>10, <2>11, NoteOutcome
<1> QED  BY <1>2, <1>3, <1>4, <1>5, <1>6, <1>7, <1>8

\* The text t of c is new, and a peer wrote it.
Arrives(t, c) ==
    t = Len(texts) + 1 /\ texts' = Append(texts, c) /\ handled' = handled \cup {t}

LEMMA HandleShape ==
    ASSUME TypeInv, NEW a \in Peer,
           \/ \E x \in AnyNick : HandleNickChange(a, x)
           \/ \E c \in Talk : HandleText(a, c)
           \/ HandleLeave(a)
           \/ \E c \in ConvId : HandleInvite(a, c) \/ HandleLeaveConversation(a, c)
    PROVE  \E sends \in Seq(Sent) :
              /\ outbox' = [outbox EXCEPT ![Handler] = sends] /\ outbox[Handler] = <<>>
              /\ UNCHANGED <<Unmoved, misled>>
              /\ \A m \in ToSet(sends) : m.kind # "result"
              /\ \A m \in ToSet(sends) : IsNote(m, "removeUser") => m.value[1].name \in leavers'
              /\ \A x \in Present' : x \in Present \/
                    \E m \in ToSet(sends) : IsNote(m, "newUser") /\ Tells(m, x)
              /\ \A i, j \in DOMAIN sends : HasText(sends[i]) /\ HasText(sends[j]) => i = j
              /\ \/ UNCHANGED <<texts, handled>> /\ \A m \in ToSet(sends) : ~HasText(m)
                 \/ \E t, c : /\ c \in Talk /\ Arrives(t, c)
                              /\ \A m \in ToSet(sends) : HasText(m) => TextOf(m) = t
                              /\ \E m \in ToSet(sends) : HasText(m)
<1>0. PICK y : y = byAddress[a]
  OBVIOUS
<1>1. ASSUME NEW s \in Stream, NEW i \in AnItem, News(<<Note(s, <<i>>)>>), UNCHANGED <<Unmoved, misled, texts, handled>>,
             s \notin {"newMessage", "removeUser"},
             \A x \in Present' : x \in Present \/ (s = "newUser" /\ i.name = x)
      PROVE  \E sends \in Seq(Sent) :
              /\ outbox' = [outbox EXCEPT ![Handler] = sends] /\ outbox[Handler] = <<>>
              /\ UNCHANGED <<Unmoved, misled>>
              /\ \A m \in ToSet(sends) : m.kind # "result"
              /\ \A m \in ToSet(sends) : IsNote(m, "removeUser") => m.value[1].name \in leavers'
              /\ \A x \in Present' : x \in Present \/
                    \E m \in ToSet(sends) : IsNote(m, "newUser") /\ Tells(m, x)
              /\ \A j, k \in DOMAIN sends : HasText(sends[j]) /\ HasText(sends[k]) => j = k
              /\ UNCHANGED <<texts, handled>> /\ \A m \in ToSet(sends) : ~HasText(m)
  <2>1. PICK v \in Seq(AnItem) : v = <<i>> /\ ToSet(v) = {i}
    BY ShortFacts
  <2>2. PICK m : m = Note(s, v)
    OBVIOUS
  <2>3. m \in Sent /\ m.kind = "note" /\ m.of = s /\ m.value = v
    BY <2>2, Values DEF Note
  <2>4. PICK sends \in Seq(Sent) : sends = <<m>> /\ ToSet(sends) = {m}
    BY <2>3, ShortFacts
  <2>5. /\ outbox' = [outbox EXCEPT ![Handler] = sends] /\ outbox[Handler] = <<>>
        /\ DOMAIN sends = {1}
    BY <1>1, <2>1, <2>2, <2>4, NewsShape
  <2>6. ~HasText(m) /\ ~IsNote(m, "removeUser")
    BY <1>1, <2>3 DEF HasText, IsNote, IsResult
  <2>7. \A x \in Present' : x \in Present \/ (IsNote(m, "newUser") /\ Tells(m, x))
    BY <1>1, <2>1, <2>3 DEF IsNote, Tells
  <2> QED  BY <1>1, <2>3, <2>4, <2>5, <2>6, <2>7
<1>2. ASSUME NEW x \in AnyNick, HandleNickChange(a, x)
      PROVE  News(<<Note("newUser", <<Item(x, 0, 0)>>)>>) /\ UNCHANGED <<Unmoved, misled, texts, handled>>
             /\ \A z \in Present' : z \in Present \/ z = x
  <2>1. /\ News(<<Note("newUser", <<Item(x, 0, 0)>>)>>)
        /\ byAddress' = [byAddress EXCEPT ![a] = x]
        /\ leavers' = leavers \ {x}
        /\ UNCHANGED <<Unmoved, misled, texts, handled>>
    BY <1>2 DEF HandleNickChange, talks
  <2>2. byAddress \in [Peer -> Heard \cup {Absent}]
    BY TypesApart DEF BookTyped
  <2>3. \A b \in Peer : byAddress'[b] = byAddress[b] \/ byAddress'[b] = x
    BY <2>1, <2>2
  <2>4. \A z \in Present' : z \in Present \/ z = x
    BY <2>1, <2>3 DEF Present
  <2> QED  BY <2>1, <2>4
<1>3. CASE \E x \in AnyNick : HandleNickChange(a, x)
  <2>1. PICK x \in AnyNick : HandleNickChange(a, x)
    BY <1>3
  <2>2. PICK i \in AnItem : i = Item(x, 0, 0) /\ i.name = x
    BY NameOnly
  <2>3. "newUser" \in Stream
    BY PageAssumption
  <2>4. News(<<Note("newUser", <<i>>)>>) /\ UNCHANGED <<Unmoved, misled, texts, handled>>
        /\ \A z \in Present' : z \in Present \/ z = x
    BY <1>2, <2>1, <2>2
  <2> QED  BY <1>1, <2>2, <2>3, <2>4
<1>4. CASE \E c \in ConvId : HandleInvite(a, c) \/ HandleLeaveConversation(a, c)
  <2>1. PICK c \in ConvId : HandleInvite(a, c) \/ HandleLeaveConversation(a, c)
    BY <1>4
  <2>2. UNCHANGED <<Unmoved, misled, texts, handled, byAddress, leavers>>
    BY <2>1 DEF HandleInvite, HandleLeaveConversation, book
  <2>3. PICK i \in AnItem, s \in {"newConversation", "leaveConversation"} : News(<<Note(s, <<i>>)>>)
    <3>0. c \in Talk
      BY DEF Talk
    <3>1. CASE HandleInvite(a, c)
      <4>1. Known(a) /\ News(<<Note("newConversation", <<Item(y, c, 0)>>)>>)
        BY <1>0, <3>1 DEF HandleInvite
      <4>2. y \in AnyNick
        BY <1>0, <4>1, NameOf
      <4>3. Item(y, c, 0) \in AnItem
        BY <3>0, <4>2, Values
      <4> QED  BY <4>1, <4>3
    <3>2. CASE HandleLeaveConversation(a, c)
      <4>1. News(<<Note("leaveConversation", <<Item(Null, c, 0)>>)>>)
        BY <3>2 DEF HandleLeaveConversation
      <4>3. Item(Null, c, 0) \in AnItem
        BY <3>0, Values
      <4> QED  BY <4>1, <4>3
    <3> QED  BY <2>1, <3>1, <3>2
  <2>4. s \in Stream /\ s \notin {"newMessage", "removeUser"}
    BY PageAssumption
  <2>5. Present' = Present
    BY <2>2 DEF Present
  <2> QED  BY <1>1, <2>2, <2>3, <2>4, <2>5
<1>5. CASE HandleLeave(a)
  <2>1. PICK m : m = Note("removeUser", <<Item(y, 0, 0)>>)
    OBVIOUS
  <2>2. PICK d : d = DropTalksWith(y)
    OBVIOUS
  <2>3. /\ Known(a) /\ News(<<m, d>>) /\ leavers' = leavers \cup {y}
        /\ UNCHANGED <<Unmoved, misled, byAddress, texts, handled>>
    BY <1>0, <1>5, <2>1, <2>2 DEF HandleLeave, book, talks
  <2>4. y \in AnyNick
    BY <1>0, <2>3, NameOf
  <2>5. m \in Sent /\ m.kind = "note" /\ m.of = "removeUser" /\ m.value[1].name = y
    <3>1. PICK i \in AnItem : i = Item(y, 0, 0) /\ i.name = y
      BY <2>4, NameOnly
    <3>2. <<i>> \in Seq(AnItem) /\ "removeUser" \in Stream
      BY ShortFacts, PageAssumption
    <3> QED  BY <2>1, <3>1, <3>2, Values DEF Note
  <2>6. d \in Sent /\ d.kind = "drop"
    BY <2>2, <2>4, Values DEF DropTalksWith
  <2>7. PICK sends \in Seq(Sent) : sends = <<m, d>> /\ ToSet(sends) = {m, d}
    <3>1. <<m, d>> \in Seq(Sent) /\ ToSet(<<m, d>>) = {m, d}
      BY <2>5, <2>6, ShortFacts
    <3> QED  BY <3>1
  <2>8. \A n \in ToSet(sends) : ~HasText(n)
    BY <2>5, <2>6, <2>7 DEF HasText, IsNote, IsResult
  <2>9. \A i, j \in DOMAIN sends : HasText(sends[i]) /\ HasText(sends[j]) => i = j
    BY <2>8, SeqFacts
  <2>10. Present' \subseteq Present
    BY <2>3 DEF Present
  <2>11. /\ outbox' = [outbox EXCEPT ![Handler] = sends] /\ outbox[Handler] = <<>>
    BY <2>3, <2>7, NewsShape
  <2>12. /\ \A n \in ToSet(sends) : n.kind # "result"
         /\ \A n \in ToSet(sends) : IsNote(n, "removeUser") => n.value[1].name \in leavers'
    BY <2>3, <2>5, <2>6, <2>7 DEF IsNote
  <2> QED  BY <2>3, <2>8, <2>9, <2>10, <2>11, <2>12
<1>6. CASE \E c \in Talk : HandleText(a, c)
  <2>0. PICK c \in Talk : HandleText(a, c)
    BY <1>6
  <2>1. PICK t : t = Len(texts) + 1
    OBVIOUS
  <2>2. PICK m : m = Note("newMessage", <<Item(y, c, t)>>)
    OBVIOUS
  <2>3. PICK made : made = Note("newConversation", <<Item(Undefined, Undefined, 0)>>)
    OBVIOUS
  <2>4. /\ Known(a) /\ Arrives(t, c)
        /\ News(<<m>>) \/ News(<<made, m>>)
        /\ UNCHANGED <<Unmoved, misled, byAddress, leavers>>
    BY <1>0, <2>0, <2>1, <2>2, <2>3 DEF HandleText, Arrives, book
  <2>5. m \in Sent /\ m.kind = "note" /\ m.of = "newMessage" /\ TextOf(m) = t
    <3>1. y \in AnyNick
      BY <1>0, <2>4, NameOf
    <3>2. PICK u \in 0..MaxNews + MaxDeeds : u = t
      <4>1. Len(texts) + 1 \in 1..MaxNews + MaxDeeds
        BY <2>4, NewsShape
      <4> QED  BY <2>1, <4>1
    <3>3. PICK i \in AnItem : i = Item(y, c, t) /\ i.text = t
      <4>1. Item(y, c, u) \in AnItem /\ Item(y, c, u).text = u
        BY <3>1, Values
      <4> QED  BY <3>2, <4>1
    <3>4. <<i>> \in Seq(AnItem) /\ "newMessage" \in Stream
      BY ShortFacts, PageAssumption
    <3> QED  BY <2>2, <3>3, <3>4, Values DEF Note, TextOf
  <2>6. made \in Sent /\ made.kind = "note" /\ made.of = "newConversation"
    <3>1. Item(Undefined, Undefined, 0) \in AnItem
      BY Values
    <3>2. <<Item(Undefined, Undefined, 0)>> \in Seq(AnItem) /\ "newConversation" \in Stream
      BY <3>1, ShortFacts, PageAssumption
    <3> QED  BY <2>3, <3>2, Values DEF Note
  <2>7. HasText(m) /\ ~HasText(made) /\ ~IsNote(m, "removeUser") /\ ~IsNote(made, "removeUser")
    BY <2>5, <2>6 DEF HasText, IsNote, IsResult
  <2>8. PICK sends \in Seq(Sent) :
           /\ outbox' = [outbox EXCEPT ![Handler] = sends] /\ outbox[Handler] = <<>>
           /\ ToSet(sends) \subseteq {made, m} /\ m \in ToSet(sends)
           /\ \A i, j \in DOMAIN sends : HasText(sends[i]) /\ HasText(sends[j]) => i = j
    <3>1. CASE News(<<m>>)
      <4>1. <<m>> \in Seq(Sent) /\ ToSet(<<m>>) = {m} /\ DOMAIN <<m>> = {1}
        BY <2>5, ShortFacts
      <4>2. outbox' = [outbox EXCEPT ![Handler] = <<m>>] /\ outbox[Handler] = <<>>
        BY <3>1, NewsShape
      <4> QED  BY <4>1, <4>2
    <3>2. CASE News(<<made, m>>)
      <4>1. PICK sends : sends = <<made, m>>
        OBVIOUS
      <4>2. sends \in Seq(Sent) /\ ToSet(sends) = {made, m}
        BY <2>5, <2>6, <4>1, ShortFacts
      <4>3. outbox' = [outbox EXCEPT ![Handler] = sends] /\ outbox[Handler] = <<>>
        BY <3>2, <4>1, NewsShape
      <4>4. DOMAIN sends = {1, 2} /\ sends[1] = made /\ sends[2] = m
        BY <4>1
      <4>5. \A i, j \in DOMAIN sends : HasText(sends[i]) /\ HasText(sends[j]) => i = j
        BY <2>7, <4>4
      <4> QED  BY <4>2, <4>3, <4>5
    <3> QED  BY <2>4, <3>1, <3>2
  <2>9. Present' = Present
    BY <2>4 DEF Present
  <2>10. /\ \A n \in ToSet(sends) : n.kind # "result" /\ ~IsNote(n, "removeUser")
         /\ \A n \in ToSet(sends) : HasText(n) => TextOf(n) = t
         /\ \E n \in ToSet(sends) : HasText(n)
    BY <2>5, <2>6, <2>7, <2>8
  <2> QED  BY <2>0, <2>4, <2>8, <2>9, <2>10
<1> QED  BY <1>3, <1>4, <1>5, <1>6

----------------------------------------------------------------------------
(* Users and the list of them.                                             *)

Removes(m, x) == IsNote(m, "removeUser") /\ m.value[1].name = x

\* Only peers who left are removed, by the thread that heard of it.
RemovalsAreTrue ==
    \A t \in Thread : \A m \in ToSet(outbox[t]) :
        IsNote(m, "removeUser") => t = Handler /\ m.value[1].name \in leavers

\* No message after the k-th removes x.
Stays(s, k, x) == \A j \in DOMAIN s : j > k => ~Removes(s[j], x)

\* The name is listed, or what will list it is under way or to be sent.
IsInList(p, x) == x \in ToSet(users[p]) /\ Stays(messages[p], 0, x)
UserArrives(p, x) ==
    \E k \in DOMAIN messages[p] :
        HasUsers(messages[p][k]) /\ Tells(messages[p][k], x) /\ Stays(messages[p], k, x)
UserIsAnswered(p, x) == \E m \in ToSet(outbox[p]) : IsResult(m, "getUsers") /\ Tells(m, x)
UserIsTold(p, x) ==
    /\ p \in subscribers["newUser"]
    /\ \E m \in ToSet(outbox[Handler]) : IsNote(m, "newUser") /\ Tells(m, x)

UserComes(p, x) ==
    IsInList(p, x) \/ UserArrives(p, x) \/ UserIsAnswered(p, x) \/ UserIsTold(p, x)
      \/ Asked(p, "getUsers")

UsersCome ==
    \A p \in Page : open[p] = "open" /\ p \notin misled => \A x \in Present : UserComes(p, x)

UserInv == RemovalsAreTrue /\ UsersCome

LEMMA StaysTail ==
    ASSUME NEW s \in Seq(Sent), s # <<>>, NEW x
    PROVE  /\ \A k \in Nat \ {0} : Stays(s, k, x) => Stays(Tail(s), k - 1, x)
           /\ Stays(s, 0, x) => Stays(Tail(s), 0, x) /\ ~Removes(Head(s), x)
<1>1. /\ Head(s) = s[1] /\ 1 \in DOMAIN s
      /\ \A j \in DOMAIN Tail(s) : j + 1 \in DOMAIN s /\ Tail(s)[j] = s[j + 1]
      /\ \A j \in DOMAIN Tail(s) : j \in Nat
  BY TailFacts, SeqFacts
<1>2. ASSUME NEW k \in Nat \ {0}, Stays(s, k, x) PROVE Stays(Tail(s), k - 1, x)
  <2> SUFFICES ASSUME NEW j \in DOMAIN Tail(s), j > k - 1 PROVE ~Removes(Tail(s)[j], x)
    BY DEF Stays
  <2>1. j + 1 \in DOMAIN s /\ j + 1 > k /\ Tail(s)[j] = s[j + 1]
    BY <1>1
  <2> QED  BY <1>2, <2>1 DEF Stays
<1>3. ASSUME Stays(s, 0, x) PROVE Stays(Tail(s), 0, x)
  <2> SUFFICES ASSUME NEW j \in DOMAIN Tail(s), j > 0 PROVE ~Removes(Tail(s)[j], x)
    BY DEF Stays
  <2>1. j + 1 \in DOMAIN s /\ j + 1 > 0 /\ Tail(s)[j] = s[j + 1]
    BY <1>1
  <2> QED  BY <1>3, <2>1 DEF Stays
<1>4. Stays(s, 0, x) => ~Removes(Head(s), x)
  BY <1>1 DEF Stays
<1> QED  BY <1>2, <1>3, <1>4

LEMMA StaysAppend ==
    ASSUME NEW s \in Seq(Sent), NEW m \in Sent, NEW x
    PROVE  /\ \A k : Stays(s, k, x) /\ ~Removes(m, x) => Stays(Append(s, m), k, x)
           /\ Stays(Append(s, m), Len(s) + 1, x)
           /\ Len(s) + 1 \in DOMAIN Append(s, m) /\ Append(s, m)[Len(s) + 1] = m
           /\ \A k \in DOMAIN s : k \in DOMAIN Append(s, m) /\ Append(s, m)[k] = s[k]
<1> DEFINE n == Len(s)
           r == Append(s, m)
<1>1. /\ n \in Nat /\ DOMAIN s = 1..n /\ DOMAIN r = 1..n + 1
      /\ \A k \in DOMAIN s : k \in DOMAIN r /\ r[k] = s[k]
      /\ r[n + 1] = m
  BY AppendFacts, SeqFacts
<1> HIDE DEF n, r
<1>2. ASSUME NEW k, Stays(s, k, x), ~Removes(m, x) PROVE Stays(r, k, x)
  <2> SUFFICES ASSUME NEW j \in DOMAIN r, j > k PROVE ~Removes(r[j], x)
    BY DEF Stays
  <2>1. CASE j \in DOMAIN s
    BY <1>1, <1>2, <2>1 DEF Stays
  <2>2. CASE j = n + 1
    BY <1>1, <1>2, <2>2
  <2> QED  BY <1>1, <2>1, <2>2
<1>3. Stays(r, n + 1, x)
  BY <1>1 DEF Stays
<1>4. n + 1 \in DOMAIN r
  BY <1>1
<1> QED  BY <1>1, <1>2, <1>3, <1>4 DEF n, r

LEMMA InitUsers == Init => UserInv
<1> SUFFICES ASSUME Init PROVE UserInv
  OBVIOUS
<1>1. outbox = [t \in Thread |-> <<>>] /\ \A p \in Page : open[p] = "connecting"
  BY DEF Init, RpcInit
<1>2. ToSet(<<>>) = {}
  BY ShortFacts
<1> QED  BY <1>1, <1>2 DEF UserInv, RemovalsAreTrue, UsersCome

\* Nothing is taken away from what a page lists, gets or asked for.
LEMMA UserStillComes ==
    ASSUME NEW p \in Page, NEW x, UserComes(p, x),
           UNCHANGED <<messages[p], users[p]>>,
           ToSet(requests[p]) \subseteq ToSet(requests'[p]),
           \A m \in ToSet(outbox[p]) : m \in ToSet(outbox'[p]) \/ ~IsResult(m, "getUsers"),
           \A m \in ToSet(outbox[Handler]) : m \in ToSet(outbox'[Handler]) \/ ~IsNote(m, "newUser"),
           subscribers["newUser"] \subseteq subscribers'["newUser"]
    PROVE  UserComes(p, x)'
<1>1. IsInList(p, x) => IsInList(p, x)'
  BY DEF IsInList, Stays, Removes, IsNote
<1>2. UserArrives(p, x) => UserArrives(p, x)'
  BY DEF UserArrives, Stays, Removes, Tells, HasUsers, IsNote, IsResult
<1>3. UserIsAnswered(p, x) => UserIsAnswered(p, x)'
  BY DEF UserIsAnswered, Tells, IsResult
<1>4. UserIsTold(p, x) => UserIsTold(p, x)'
  BY DEF UserIsTold, Tells, IsNote
<1>5. Asked(p, "getUsers") => Asked(p, "getUsers")'
  BY DEF Asked
<1> QED  BY <1>1, <1>2, <1>3, <1>4, <1>5 DEF UserComes

LEMMA SamePresent == UNCHANGED <<byAddress, leavers>> => Present' = Present
BY DEF Present

LEMMA ActKeepsUsers ==
    ASSUME TypeInv, Inv, UserInv, NEW p \in Page,
           \/ Connect(p) \/ ClosePage(p)
           \/ \E x \in OwnNames : ChooseNickname(p, x)
           \/ \E k \in DOMAIN drawn[p] : StartConversation(p, k)
           \/ \E k \in DOMAIN tabs[p] : WriteText(p, k) \/ CloseTab(p, k)
    PROVE  UserInv'
<1>1. /\ UNCHANGED <<server, process, lists, leavers, misled>>
      /\ \A q \in Page : open'[q] = "open" =>
            /\ messages'[q] = messages[q]
            /\ open[q] = "open" \/ (q = p /\ Connect(p))
      /\ \A q \in Page : q # p => requests'[q] = requests[q]
  BY ActShape
<1>2. PICK new \in Seq(Asking) : requests'[p] = requests[p] \o new
  BY ActShape
<1>3. UNCHANGED <<subscribers, outbox, byAddress, users>> /\ Present' = Present
  BY <1>1, SamePresent DEF server, process, book, lists
<1>4. RemovalsAreTrue'
  BY <1>1, <1>3 DEF UserInv, RemovalsAreTrue, IsNote
<1>5. \A q \in Page : ToSet(requests[q]) \subseteq ToSet(requests'[q])
  <2>1. PICK s \in Seq(Asking) : s = requests[p]
    BY RpcOf DEF RpcTyped
  <2>2. ToSet(s) \subseteq ToSet(s \o new)
    BY ConcatFacts
  <2> QED  BY <1>1, <1>2, <2>1, <2>2
<1>6. UsersCome'
  <2> SUFFICES ASSUME NEW q \in Page, open'[q] = "open", q \notin misled', NEW x \in Present
               PROVE  UserComes(q, x)'
    BY <1>3 DEF UsersCome
  <2>1. CASE q = p /\ Connect(p)
    <3>1. Asked(p, "getUsers")'
      BY <2>1, ConnectListens
    <3> QED  BY <2>1, <3>1 DEF UserComes
  <2>2. CASE open[q] = "open"
    <3>1. UserComes(q, x)
      BY <1>1, <2>2 DEF UserInv, UsersCome
    <3> QED  BY <1>1, <1>3, <1>5, <3>1, UserStillComes
  <2> QED  BY <1>1, <2>1, <2>2
<1> QED  BY <1>4, <1>6 DEF UserInv

\* A call is served.
LEMMA ServedKeepsUsers ==
    ASSUME TypeInv, TabInv, UserInv, NEW p \in Page, NEW method, NEW sends \in Seq(Sent),
           Served(p, method, sends), UNCHANGED <<Unserved, byAddress>>,
           \A s \in Stream : subscribers[s] \subseteq subscribers'[s],
           \A m \in ToSet(sends) : ~IsNote(m, "removeUser"),
           method = "getUsers" => \A x \in Present :
              \E m \in ToSet(sends) : IsResult(m, "getUsers") /\ Tells(m, x)
    PROVE  UserInv'
<1>0. "newUser" \in Stream
  BY PageAssumption
<1>1. /\ outbox[p] = <<>> /\ Request(p).method = method
      /\ requests' = [requests EXCEPT ![p] = Tail(requests[p])]
      /\ outbox' = [outbox EXCEPT ![p] = sends]
      /\ ToSet(requests[p]) = {Request(p)} \cup ToSet(Tail(requests[p]))
  BY ServedShape
<1>2. /\ RpcTyped /\ p \in Thread /\ p # Handler /\ ToSet(outbox[p]) = {}
      /\ UNCHANGED <<open, messages, users, leavers, misled>>
  BY <1>1, RpcOf, ThreadsAreApart, ShortFacts DEF Unserved, client, pages, lists
<1>3. /\ \A q \in Page : requests'[q] = IF q = p THEN Tail(requests[p]) ELSE requests[q]
      /\ \A t \in Thread : outbox'[t] = IF t = p THEN sends ELSE outbox[t]
  BY <1>1, <1>2 DEF RpcTyped
<1>4. RemovalsAreTrue'
  BY <1>2, <1>3 DEF UserInv, RemovalsAreTrue, IsNote
<1>5. UsersCome'
  <2> SUFFICES ASSUME NEW q \in Page, open'[q] = "open", q \notin misled', NEW x \in Present
               PROVE  UserComes(q, x)'
    BY <1>2, SamePresent DEF UsersCome
  <2>0. q \in Thread /\ Handler \in Thread
    BY DEF Thread
  <2>1. UserComes(q, x)
    BY <1>2 DEF UserInv, UsersCome
  <2>2. CASE q = p /\ method = "getUsers"
    <3>1. PICK m \in ToSet(sends) : IsResult(m, "getUsers") /\ Tells(m, x)
      BY <2>2
    <3>2. UserIsAnswered(q, x)'
      BY <1>2, <1>3, <2>2, <3>1 DEF UserIsAnswered, Tells, IsResult
    <3> QED  BY <3>2 DEF UserComes
  <2>3. CASE ~(q = p /\ method = "getUsers")
    <3>1. /\ \A m \in ToSet(outbox[q]) : m \in ToSet(outbox'[q])
          /\ \A m \in ToSet(outbox[Handler]) : m \in ToSet(outbox'[Handler])
      BY <1>2, <1>3, <2>0
    <3>2. CASE q # p
      BY <1>0, <1>2, <1>3, <2>1, <3>1, <3>2, UserStillComes
    <3>3. CASE q = p
      <4>1. Asked(p, "getUsers") => Asked(p, "getUsers")'
        BY <1>1, <1>3, <2>3, <3>3 DEF Asked
      <4>2. IsInList(p, x) => IsInList(p, x)'
        BY <1>2 DEF IsInList, Stays, Removes, IsNote
      <4>3. UserArrives(p, x) => UserArrives(p, x)'
        BY <1>2 DEF UserArrives, Stays, Removes, Tells, HasUsers, IsNote, IsResult
      <4>4. ~UserIsAnswered(p, x)
        BY <1>2 DEF UserIsAnswered
      <4>5. UserIsTold(p, x) => UserIsTold(p, x)'
        BY <1>0, <3>1 DEF UserIsTold, Tells, IsNote
      <4> QED  BY <2>1, <3>3, <4>1, <4>2, <4>3, <4>4, <4>5 DEF UserComes
    <3> QED  BY <3>2, <3>3
  <2> QED  BY <2>2, <2>3
<1> QED  BY <1>4, <1>5 DEF UserInv

LEMMA ServingKeepsUsers ==
    ASSUME TypeInv, TabInv, UserInv, NEW p \in Page,
           \/ ServeSubscribe(p) \/ ServeUpdateNickname(p) \/ ServeSendMessage(p)
           \/ ServeGetConversations(p) \/ ServeGetUsers(p)
           \/ \E c \in ConvId : ServeAddConversation(p, c)
           \/ ServeLeaveConversation(p) \/ ServeFailing(p)
    PROVE  UserInv'
<1>1. PICK method : \E sends \in Seq(Sent) :
         /\ Served(p, method, sends)
         /\ \A m \in ToSet(sends) : Outcome(p, method, m)
         /\ UNCHANGED <<Unserved, book>>
         /\ \A s \in Stream : subscribers[s] \subseteq subscribers'[s]
         /\ method = "getUsers" => \A x \in Present :
               \E m \in ToSet(sends) : IsResult(m, "getUsers") /\ Tells(m, x)
  BY ServeShape
<1>2. PICK sends \in Seq(Sent) :
         /\ Served(p, method, sends)
         /\ \A m \in ToSet(sends) : Outcome(p, method, m)
         /\ UNCHANGED <<Unserved, book>>
         /\ \A s \in Stream : subscribers[s] \subseteq subscribers'[s]
         /\ method = "getUsers" => \A x \in Present :
               \E m \in ToSet(sends) : IsResult(m, "getUsers") /\ Tells(m, x)
  BY <1>1
<1>3. \A m \in ToSet(sends) : ~IsNote(m, "removeUser")
  BY <1>2 DEF Outcome, IsNote
<1>4. UNCHANGED byAddress
  BY <1>2 DEF book
<1> QED  BY <1>2, <1>3, <1>4, ServedKeepsUsers

\* A message is sent to those who get it.
LEMMA SendKeepsUsers ==
    ASSUME TypeInv, UserInv, NEW t \in Thread, SendNext(t)
    PROVE  UserInv'
<1>0. PICK m : m = Head(outbox[t])
  OBVIOUS
<1>1. /\ outbox[t] # <<>>
      /\ outbox' = [outbox EXCEPT ![t] = Tail(@)]
      /\ \A p \in Page :
            messages'[p] = IF p \in Receivers(t, m) /\ open[p] = "open"
                           THEN Append(messages[p], m) ELSE messages[p]
      /\ UNCHANGED <<open, requests, subscribers, users, byAddress, leavers, misled>>
  BY <1>0, SendShape DEF client, process, book, pages, lists, history
<1>2. /\ m \in Sent /\ m \in ToSet(outbox[t])
      /\ ToSet(outbox[t]) = {m} \cup ToSet(Tail(outbox[t]))
      /\ \A u \in Thread : outbox'[u] = IF u = t THEN Tail(outbox[t]) ELSE outbox[u]
      /\ \A u \in Thread : ToSet(outbox'[u]) \subseteq ToSet(outbox[u])
  BY <1>0, <1>1, OutboxShrinks
<1>3. RemovalsAreTrue'
  BY <1>1, <1>2 DEF UserInv, RemovalsAreTrue, IsNote
<1>4. UsersCome'
  <2> SUFFICES ASSUME NEW q \in Page, open'[q] = "open", q \notin misled', NEW x \in Present
               PROVE  UserComes(q, x)'
    BY <1>1, SamePresent DEF UsersCome
  <2>0. q \in Thread /\ Handler \in Thread
    BY DEF Thread
  <2>1. UserComes(q, x) /\ open[q] = "open"
    BY <1>1 DEF UserInv, UsersCome
  <2>2. ~Removes(m, x)
    BY <1>2 DEF UserInv, RemovalsAreTrue, Removes, Present
  <2>3. PICK s \in Seq(Sent) : s = messages[q]
    BY RpcOf DEF RpcTyped
  <2>4. CASE q \in Receivers(t, m)
    <3>1. messages'[q] = Append(s, m)
      BY <1>1, <2>1, <2>3, <2>4
    <3>2. /\ \A k : Stays(s, k, x) => Stays(Append(s, m), k, x)
          /\ Stays(Append(s, m), Len(s) + 1, x)
          /\ Len(s) + 1 \in DOMAIN Append(s, m) /\ Append(s, m)[Len(s) + 1] = m
          /\ \A k \in DOMAIN s : k \in DOMAIN Append(s, m) /\ Append(s, m)[k] = s[k]
      BY <1>2, <2>2, StaysAppend
    <3>3. HasUsers(m) /\ Tells(m, x) => UserArrives(q, x)'
      BY <3>1, <3>2 DEF UserArrives, HasUsers, Tells, Stays, Removes, IsNote, IsResult
    <3>4. IsInList(q, x) => IsInList(q, x)'
      BY <1>1, <2>3, <3>1, <3>2 DEF IsInList, Stays, Removes, IsNote
    <3>5. UserArrives(q, x) => UserArrives(q, x)'
      <4> SUFFICES ASSUME UserArrives(q, x) PROVE UserArrives(q, x)'
        OBVIOUS
      <4>1. PICK k \in DOMAIN s : HasUsers(s[k]) /\ Tells(s[k], x) /\ Stays(s, k, x)
        BY <2>3 DEF UserArrives
      <4>2. /\ k \in DOMAIN messages'[q] /\ messages'[q][k] = s[k]
            /\ Stays(Append(s, m), k, x)
        BY <3>1, <3>2, <4>1
      <4> QED  BY <3>1, <4>1, <4>2 DEF UserArrives, HasUsers, Tells, Stays, Removes, IsNote, IsResult
    <3>6. UserIsAnswered(q, x) => UserIsAnswered(q, x)' \/ UserArrives(q, x)'
      <4> SUFFICES ASSUME NEW n \in ToSet(outbox[q]), IsResult(n, "getUsers") /\ Tells(n, x)
                   PROVE  UserIsAnswered(q, x)' \/ UserArrives(q, x)'
        BY DEF UserIsAnswered
      <4>1. CASE n \in ToSet(outbox'[q])
        BY <4>1 DEF UserIsAnswered, IsResult, Tells
      <4>2. CASE n = m
        BY <3>3, <4>2 DEF HasUsers
      <4> QED  BY <1>2, <2>0, <4>1, <4>2
    <3>7. UserIsTold(q, x) => UserIsTold(q, x)' \/ UserArrives(q, x)'
      <4> SUFFICES ASSUME UserIsTold(q, x) PROVE UserIsTold(q, x)' \/ UserArrives(q, x)'
        OBVIOUS
      <4>1. PICK n \in ToSet(outbox[Handler]) : IsNote(n, "newUser") /\ Tells(n, x)
        BY DEF UserIsTold
      <4>2. CASE n \in ToSet(outbox'[Handler])
        BY <1>1, <4>1, <4>2 DEF UserIsTold, IsNote, Tells
      <4>3. CASE n = m
        BY <3>3, <4>1, <4>3 DEF HasUsers
      <4> QED  BY <1>2, <2>0, <4>1, <4>2, <4>3
    <3> QED  BY <1>1, <2>1, <3>4, <3>5, <3>6, <3>7 DEF UserComes, Asked
  <2>5. CASE q \notin Receivers(t, m)
    <3>1. messages'[q] = messages[q]
      BY <1>1, <2>5
    <3>2. \A n \in ToSet(outbox[q]) : n \in ToSet(outbox'[q]) \/ ~IsResult(n, "getUsers")
      <4>1. t = q => m.kind = "note"
        BY <2>5 DEF Receivers
      <4> QED  BY <1>2, <2>0, <4>1 DEF IsResult
    <3>3. CASE q \in subscribers["newUser"]
      <4>1. ~IsNote(m, "newUser")
        BY <2>5, <3>3 DEF Receivers, IsNote
      <4>2. \A n \in ToSet(outbox[Handler]) : n \in ToSet(outbox'[Handler]) \/ ~IsNote(n, "newUser")
        BY <1>2, <2>0, <4>1
      <4> QED  BY <1>1, <2>1, <3>1, <3>2, <4>2, UserStillComes
    <3>4. CASE q \notin subscribers["newUser"]
      <4>1. IsInList(q, x) => IsInList(q, x)'
        BY <1>1, <3>1 DEF IsInList, Stays, Removes, IsNote
      <4>2. UserArrives(q, x) => UserArrives(q, x)'
        BY <3>1 DEF UserArrives, Stays, Removes, Tells, HasUsers, IsNote, IsResult
      <4>3. UserIsAnswered(q, x) => UserIsAnswered(q, x)'
        BY <3>2 DEF UserIsAnswered, Tells, IsResult
      <4> QED  BY <1>1, <2>1, <3>4, <4>1, <4>2, <4>3 DEF UserComes, UserIsTold, Asked
    <3> QED  BY <3>3, <3>4
  <2> QED  BY <2>4, <2>5
<1> QED  BY <1>3, <1>4 DEF UserInv

\* A peer is heard of.
LEMMA PeersKeepUsers ==
    ASSUME TypeInv, TabInv, UserInv, NEW a \in Peer,
           \/ \E x \in AnyNick : HandleNickChange(a, x)
           \/ \E c \in Talk : HandleText(a, c)
           \/ HandleLeave(a)
           \/ \E c \in ConvId : HandleInvite(a, c) \/ HandleLeaveConversation(a, c)
    PROVE  UserInv'
<1>1. PICK sends \in Seq(Sent) :
         /\ outbox' = [outbox EXCEPT ![Handler] = sends] /\ outbox[Handler] = <<>>
         /\ UNCHANGED <<Unmoved, misled>>
         /\ \A m \in ToSet(sends) : IsNote(m, "removeUser") => m.value[1].name \in leavers'
         /\ \A x \in Present' : x \in Present \/
               \E m \in ToSet(sends) : IsNote(m, "newUser") /\ Tells(m, x)
  BY HandleShape
<1>2. UNCHANGED <<open, requests, messages, subscribers, users, misled>>
  BY <1>1 DEF Unmoved, client, wire, pages, lists
<1>3. /\ \A u \in Thread : outbox'[u] = IF u = Handler THEN sends ELSE outbox[u]
      /\ ToSet(outbox[Handler]) = {} /\ Handler \in Thread
      /\ \A q \in Page : q \in Thread /\ q # Handler
  BY <1>1, RpcOf, ShortFacts, ThreadsAreApart DEF RpcTyped, Thread
<1>4. RemovalsAreTrue'
  <2> SUFFICES ASSUME NEW u \in Thread, NEW m \in ToSet(outbox'[u]), IsNote(m, "removeUser")
               PROVE  u = Handler /\ m.value[1].name \in leavers'
    BY DEF RemovalsAreTrue, IsNote
  <2>1. CASE u = Handler
    BY <1>1, <1>3, <2>1
  <2>2. CASE u # Handler
    BY <1>3, <2>2 DEF UserInv, RemovalsAreTrue
  <2> QED  BY <2>1, <2>2
<1>5. UsersCome'
  <2> SUFFICES ASSUME NEW q \in Page, open'[q] = "open", q \notin misled', NEW x \in Present'
               PROVE  UserComes(q, x)'
    BY DEF UsersCome
  <2>1. CASE x \in Present
    <3>1. UserComes(q, x)
      BY <1>2, <2>1 DEF UserInv, UsersCome
    <3> QED  BY <1>2, <1>3, <3>1, UserStillComes
  <2>2. CASE \E m \in ToSet(sends) : IsNote(m, "newUser") /\ Tells(m, x)
    <3>1. Listens(q, "newUser", "getUsers")
      BY <1>2 DEF TabInv, ListenThenAsk
    <3>2. CASE q \in subscribers["newUser"]
      <4>1. UserIsTold(q, x)'
        BY <1>2, <1>3, <2>2, <3>2 DEF UserIsTold, IsNote, Tells
      <4> QED  BY <4>1 DEF UserComes
    <3>3. CASE q \notin subscribers["newUser"]
      <4>1. Asked(q, "getUsers")
        BY <3>1, <3>3 DEF Listens, WillAsk, Asked, ToSet
      <4> QED  BY <1>2, <4>1 DEF UserComes, Asked
    <3> QED  BY <3>2, <3>3
  <2> QED  BY <1>1, <2>1, <2>2
<1> QED  BY <1>4, <1>5 DEF UserInv

LEMMA DropKeepsUsers ==
    ASSUME TypeInv, UserInv, DropTalks
    PROVE  UserInv'
<1>1. /\ outbox[Handler] # <<>> /\ Head(outbox[Handler]).kind = "drop"
      /\ outbox' = [outbox EXCEPT ![Handler] = Tail(@)]
      /\ UNCHANGED <<open, requests, messages, subscribers, users, byAddress, leavers, misled>>
  BY DEF DropTalks, client, wire, book, pages, lists, history
<1>2. Handler \in Thread /\ \A q \in Page : q \in Thread /\ q # Handler
  BY ThreadsAreApart DEF Thread
<1>3. /\ ToSet(outbox[Handler]) = {Head(outbox[Handler])} \cup ToSet(Tail(outbox[Handler]))
      /\ \A u \in Thread : outbox'[u] = IF u = Handler THEN Tail(outbox[Handler]) ELSE outbox[u]
      /\ \A u \in Thread : ToSet(outbox'[u]) \subseteq ToSet(outbox[u])
  BY <1>1, <1>2, OutboxShrinks
<1>4. RemovalsAreTrue'
  BY <1>1, <1>3 DEF UserInv, RemovalsAreTrue, IsNote
<1>5. \A m \in ToSet(outbox[Handler]) : m \in ToSet(outbox'[Handler]) \/ ~IsNote(m, "newUser")
  BY <1>1, <1>2, <1>3 DEF IsNote
<1>6. UsersCome'
  <2> SUFFICES ASSUME NEW q \in Page, open'[q] = "open", q \notin misled', NEW x \in Present
               PROVE  UserComes(q, x)'
    BY <1>1, SamePresent DEF UsersCome
  <2>1. UserComes(q, x)
    BY <1>1 DEF UserInv, UsersCome
  <2> QED  BY <1>1, <1>2, <1>3, <1>5, <2>1, UserStillComes
<1> QED  BY <1>4, <1>6 DEF UserInv

\* A page takes a message.
LEMMA TakeKeepsUsers ==
    ASSUME TypeInv, Inv, UserInv, NEW p \in Page, NEW kind, Take(p, kind), UNCHANGED Untaken,
           misled \subseteq misled',
           \A q \in Page : q # p => users'[q] = users[q],
           p \notin misled' => \A x \in ToSet(users[p]) :
              ~Removes(Head(messages[p]), x) => x \in ToSet(users'[p]),
           HasUsers(Head(messages[p])) => \A x : Tells(Head(messages[p]), x) => x \in ToSet(users'[p])
    PROVE  UserInv'
<1>0. PICK m : m = Head(messages[p])
  OBVIOUS
<1>1. /\ \A q \in Page : messages'[q] = IF q = p THEN Tail(messages[p]) ELSE messages[q]
      /\ messages[p] # <<>>
  BY TakeShape
<1>2. UNCHANGED <<open, requests, subscribers, outbox, byAddress, leavers>>
  BY DEF Untaken, server, process, book
<1>3. RemovalsAreTrue'
  BY <1>2 DEF UserInv, RemovalsAreTrue, IsNote
<1>4. UsersCome'
  <2> SUFFICES ASSUME NEW q \in Page, open'[q] = "open", q \notin misled', NEW x \in Present
               PROVE  UserComes(q, x)'
    BY <1>2, SamePresent DEF UsersCome
  <2>1. UserComes(q, x)
    BY <1>2 DEF UserInv, UsersCome
  <2>2. CASE q # p
    BY <1>1, <1>2, <2>1, <2>2, UserStillComes
  <2>3. CASE q = p
    <3>0. PICK s \in Seq(Sent) : s = messages[p]
      BY RpcOf DEF RpcTyped
    <3>1. /\ s # <<>> /\ m = Head(s) /\ messages'[p] = Tail(s)
          /\ m = s[1] /\ \A k \in DOMAIN s : k \in Nat \ {0}
          /\ \A k \in DOMAIN s : k # 1 => k - 1 \in DOMAIN Tail(s) /\ Tail(s)[k - 1] = s[k]
      BY <1>0, <1>1, <3>0, SeqFacts, TailFacts
    <3>2. /\ \A k \in Nat \ {0} : Stays(s, k, x) => Stays(Tail(s), k - 1, x)
          /\ Stays(s, 0, x) => Stays(Tail(s), 0, x) /\ ~Removes(m, x)
      BY <3>1, StaysTail
    <3>3. CASE IsInList(p, x)
      <4>1. x \in ToSet(users[p]) /\ Stays(s, 0, x)
        BY <3>0, <3>3 DEF IsInList
      <4>2. x \in ToSet(users'[p])
        BY <1>0, <2>3, <3>2, <4>1
      <4>3. IsInList(p, x)'
        BY <3>1, <3>2, <4>1, <4>2 DEF IsInList, Stays, Removes, IsNote
      <4> QED  BY <2>3, <4>3 DEF UserComes
    <3>4. CASE UserArrives(p, x)
      <4>1. PICK k \in DOMAIN s : HasUsers(s[k]) /\ Tells(s[k], x) /\ Stays(s, k, x)
        BY <3>0, <3>4 DEF UserArrives
      <4>2. CASE k = 1
        <5>1. x \in ToSet(users'[p])
          BY <1>0, <3>1, <4>1, <4>2
        <5>2. Stays(Tail(s), 0, x)
          BY <3>2, <4>1, <4>2
        <5>3. IsInList(p, x)'
          BY <3>1, <5>1, <5>2 DEF IsInList, Stays, Removes, IsNote
        <5> QED  BY <2>3, <5>3 DEF UserComes
      <4>3. CASE k # 1
        <5>1. /\ k - 1 \in DOMAIN Tail(s) /\ Tail(s)[k - 1] = s[k]
              /\ Stays(Tail(s), k - 1, x)
          BY <3>1, <3>2, <4>1, <4>3
        <5>2. UserArrives(p, x)'
          BY <3>1, <4>1, <5>1 DEF UserArrives, Stays, Removes, Tells, HasUsers, IsNote, IsResult
        <5> QED  BY <2>3, <5>2 DEF UserComes
      <4> QED  BY <4>2, <4>3
    <3>5. CASE UserIsAnswered(p, x) \/ UserIsTold(p, x) \/ Asked(p, "getUsers")
      BY <1>2, <2>3, <3>5 DEF UserComes, UserIsAnswered, UserIsTold, Asked, Tells, IsResult, IsNote
    <3> QED  BY <2>1, <2>3, <3>3, <3>4, <3>5 DEF UserComes
  <2> QED  BY <2>2, <2>3
<1> QED  BY <1>3, <1>4 DEF UserInv

LEMMA TakingKeepsUsers ==
    ASSUME TypeInv, Inv, UserInv, NEW p \in Page,
           \/ TakeSilently(p) \/ TakeNickname(p) \/ TakeOwnText(p) \/ TakeConversations(p)
           \/ TakeUsers(p) \/ TakeError(p) \/ TakeNewConversation(p) \/ TakeNewMessage(p)
           \/ TakeLeaveConversation(p) \/ TakeNewUser(p) \/ TakeRemoveUser(p)
    PROVE  UserInv'
<1>1. CASE TakeUsers(p) \/ TakeNewUser(p)
  <2>1. PICK kind, f : Takes(p, kind, f)
    BY <1>1, UsersShown
  <2>2. /\ \A q \in Page : q # p => users'[q] = users[q]
        /\ ToSet(users[p]) \subseteq ToSet(users'[p])
        /\ \A i \in ToSet(Value(p)) : i.name \in ToSet(users'[p])
        /\ UNCHANGED misled
    BY <1>1, UsersShown, AddUsersShape
  <2>3. \A x : Tells(Head(messages[p]), x) => x \in ToSet(users'[p])
    BY <2>2 DEF Tells, Value
  <2> QED  BY <2>1, <2>2, <2>3, TakeKeepsUsers DEF Takes
<1>2. CASE TakeRemoveUser(p)
  <2>1. Takes(p, "note", "removeUser") /\ RemoveUser(p, TheItem(p).name)
    BY <1>2, TakesEither DEF TakeRemoveUser
  <2>2. /\ misled \subseteq misled'
        /\ \A q \in Page : q # p => users'[q] = users[q]
        /\ p \notin misled' => \A y \in ToSet(users[p]) : y # TheItem(p).name => y \in ToSet(users'[p])
    BY <2>1, RemoveUserShape
  <2>3. \A x : ~Removes(Head(messages[p]), x) => x # TheItem(p).name
    BY <2>1, Taken DEF Removes, IsNote, TheItem, Value
  <2>4. ~HasUsers(Head(messages[p]))
    BY <2>1, Taken DEF HasUsers, IsNote, IsResult
  <2> QED  BY <2>1, <2>2, <2>3, <2>4, TakeKeepsUsers DEF Takes
<1>3. ASSUME NEW kind, Take(p, kind), UNCHANGED <<Untaken, users, misled>>, ~HasUsers(Head(messages[p]))
      PROVE  UserInv'
  <2>1. misled \subseteq misled' /\ users' = users /\ UNCHANGED Untaken
    BY <1>3
  <2> QED  BY <1>3, <2>1, TakeKeepsUsers
<1>4. CASE TakeOwnText(p) \/ TakeNewMessage(p)
  <2>1. PICK kind, f : Takes(p, kind, f)
    BY <1>4, TextShown
  <2>2. HasText(Head(messages[p])) /\ UNCHANGED <<users, misled>>
    BY <1>4, TextShown DEF lists
  <2> QED  BY <1>3, <2>1, <2>2 DEF Takes, HasText, HasUsers, IsNote, IsResult
<1>5. CASE TakeConversations(p) \/ TakeNewConversation(p)
  <2>1. PICK kind, f : Takes(p, kind, f)
    BY <1>5, TalksShown
  <2>2. HasTalks(Head(messages[p])) /\ UNCHANGED <<users, misled>>
    BY <1>5, TalksShown DEF lists
  <2> QED  BY <1>3, <2>1, <2>2 DEF Takes, HasTalks, HasUsers, IsNote, IsResult
<1>6. CASE TakeSilently(p) \/ TakeNickname(p) \/ TakeLeaveConversation(p)
  <2>1. PICK f \in {"subscribe", "addConversation", "leaveConversation", "updateNickname"} :
            TakeResult(p, f) \/ TakeNote(p, f)
    BY <1>6 DEF TakeSilently, TakeNickname, TakeLeaveConversation
  <2>2. PICK kind : Takes(p, kind, f)
    BY <2>1, TakesEither
  <2>3. ~HasUsers(Head(messages[p]))
    BY <2>1, <2>2, Taken DEF HasUsers, IsNote, IsResult
  <2>4. UNCHANGED <<users, misled>>
    BY <1>6 DEF TakeSilently, TakeNickname, TakeLeaveConversation, pages, lists
  <2> QED  BY <1>3, <2>2, <2>3, <2>4 DEF Takes
<1>7. CASE TakeError(p)
  <2>1. Take(p, "error") /\ UNCHANGED <<Untaken, users, misled>>
    BY <1>7 DEF TakeError, pages, lists
  <2>2. ~HasUsers(Head(messages[p]))
    BY <2>1, TakeShape DEF HasUsers, IsNote, IsResult
  <2> QED  BY <1>3, <2>1, <2>2
<1> QED  BY <1>1, <1>2, <1>4, <1>5, <1>6, <1>7

LEMMA NextUsers == TypeInv /\ Inv /\ TabInv /\ UserInv /\ [Next]_vars => UserInv'
<1> SUFFICES ASSUME TypeInv, Inv, TabInv, UserInv, [Next]_vars PROVE UserInv'
  OBVIOUS
<1>1. CASE UNCHANGED vars
  <2>1. UNCHANGED <<open, requests, messages, subscribers, outbox, users, byAddress, leavers, misled>>
    BY <1>1 DEF vars, rpc, client, wire, server, process, book, pages, lists, history, talks
  <2>2. RemovalsAreTrue'
    BY <2>1 DEF UserInv, RemovalsAreTrue, IsNote
  <2>3. UsersCome'
    <3> SUFFICES ASSUME NEW q \in Page, open'[q] = "open", q \notin misled', NEW x \in Present
                 PROVE  UserComes(q, x)'
      BY <2>1, SamePresent DEF UsersCome
    <3>1. UserComes(q, x)
      BY <2>1 DEF UserInv, UsersCome
    <3> QED  BY <2>1, <3>1, UserStillComes
  <2> QED  BY <2>2, <2>3 DEF UserInv
<1>2. ASSUME NEW p \in Page,
             \/ Connect(p) \/ ClosePage(p)
             \/ \E x \in OwnNames : ChooseNickname(p, x)
             \/ \E k \in DOMAIN drawn[p] : StartConversation(p, k)
             \/ \E k \in DOMAIN tabs[p] : WriteText(p, k) \/ CloseTab(p, k)
      PROVE  UserInv'
  BY <1>2, ActKeepsUsers
<1>3. ASSUME NEW p \in Page,
             \/ ServeSubscribe(p) \/ ServeUpdateNickname(p) \/ ServeSendMessage(p)
             \/ ServeGetConversations(p) \/ ServeGetUsers(p)
             \/ \E c \in ConvId : ServeAddConversation(p, c)
             \/ ServeLeaveConversation(p) \/ ServeFailing(p)
      PROVE  UserInv'
  BY <1>3, ServingKeepsUsers
<1>4. ASSUME NEW a \in Peer,
             \/ \E x \in AnyNick : HandleNickChange(a, x)
             \/ \E c \in Talk : HandleText(a, c)
             \/ HandleLeave(a)
             \/ \E c \in ConvId : HandleInvite(a, c) \/ HandleLeaveConversation(a, c)
      PROVE  UserInv'
  BY <1>4, PeersKeepUsers
<1>5. ASSUME NEW t \in Thread, SendNext(t) PROVE UserInv'
  BY <1>5, SendKeepsUsers
<1> QED  BY <1>1, <1>2, <1>3, <1>4, <1>5, DropKeepsUsers, TakingKeepsUsers DEF Next

\* A page that has got and shown all that was sent to it lists every user of
\* the process under its present name, but for names that left: whether the
\* page heard of the name from the list it asked for, from a notification, or
\* from both, and whatever else it was told to add and to remove.
THEOREM UsersListed == Spec => []UsersAreListed
<1>1. TypeInv /\ UserInv => UsersAreListed
  <2> SUFFICES ASSUME TypeInv, UserInv, NEW p \in Page, Loaded(p), p \notin misled,
                      NEW a \in Peer, Known(a), byAddress[a] \notin leavers
               PROVE  byAddress[a] \in ToSet(users[p])
    BY DEF UsersAreListed
  <2>1. byAddress[a] \in Present
    BY NameOf DEF Present
  <2>2. UserComes(p, byAddress[a])
    BY <2>1 DEF UserInv, UsersCome, Loaded
  <2>3. /\ messages[p] = <<>> /\ requests[p] = <<>>
        /\ \A t \in Thread : outbox[t] = <<>>
    BY DEF Loaded, Quiet, Free
  <2>4. ToSet(<<>>) = {} /\ p \in Thread /\ Handler \in Thread /\ DOMAIN <<>> = {}
    BY ShortFacts DEF Thread
  <2> QED  BY <2>2, <2>3, <2>4 DEF UserComes, IsInList, UserArrives, UserIsAnswered, UserIsTold, Asked
<1> QED  BY <1>1, InitTypes, NextTypes, InitTabs, NextTabs, InitUsers, NextUsers, InvInit, InvStep, PTL DEF Spec

----------------------------------------------------------------------------
(* Sequences and the numbers of their elements.                            *)

\* Of a sequence, the number f gives each element; -1 is none.
Marks(f, s) == [k \in DOMAIN s |-> f[s[k]]]

LEMMA MarksFacts ==
    ASSUME NEW S, NEW f \in [S -> Num], NEW s \in Seq(S)
    PROVE  /\ Marks(f, s) \in Seq(Num) /\ Len(Marks(f, s)) = Len(s)
           /\ DOMAIN Marks(f, s) = DOMAIN s
           /\ \A k \in DOMAIN s : Marks(f, s)[k] = f[s[k]] /\ f[s[k]] \in Num
<1>1. /\ Len(s) \in Nat /\ DOMAIN s = 1..Len(s)
      /\ \A k \in DOMAIN s : s[k] \in S
  BY SeqFacts
<1>2. Marks(f, s) \in [1..Len(s) -> Num]
  BY <1>1 DEF Marks
<1>3. \A k \in DOMAIN s : Marks(f, s)[k] = f[s[k]]
  BY DEF Marks
<1> QED  BY <1>1, <1>2, <1>3, FunctionIsSeq

LEMMA MarksOf ==
    ASSUME NEW S, NEW f \in [S -> Num], NEW s \in Seq(S), NEW w, w = Marks(f, s)
    PROVE  /\ w \in Seq(Num) /\ Len(w) = Len(s) /\ DOMAIN w = DOMAIN s
           /\ \A k \in DOMAIN s : w[k] = f[s[k]] /\ f[s[k]] \in Num
BY MarksFacts

LEMMA LenByDomain ==
    ASSUME NEW S, NEW T, NEW s \in Seq(S), NEW t \in Seq(T), DOMAIN s = DOMAIN t
    PROVE  Len(s) = Len(t)
OBVIOUS

LEMMA MarksEqual ==
    ASSUME NEW v \in Seq(Num), NEW w \in Seq(Num), Len(v) = Len(w),
           \A k \in 1..Len(v) : v[k] = w[k]
    PROVE  v = w
OBVIOUS

LEMMA NoMarks == \A f : Marks(f, <<>>) = <<>>
<1> SUFFICES ASSUME NEW f PROVE Marks(f, <<>>) = <<>>
  OBVIOUS
<1>1. PICK g : g = [m \in {} |-> 0]
  OBVIOUS
<1>2. Marks(f, <<>>) = [k \in {} |-> f[<<>>[k]]]
  BY DEF Marks
<1>3. [k \in {} |-> f[<<>>[k]]] = <<>>
  OBVIOUS
<1> QED  BY <1>2, <1>3

LEMMA MarksTail ==
    ASSUME NEW S, NEW f \in [S -> Num], NEW s \in Seq(S), s # <<>>
    PROVE  /\ Marks(f, Tail(s)) = Tail(Marks(f, s))
           /\ Marks(f, s) # <<>> /\ Head(Marks(f, s)) = f[Head(s)]
<1>1. /\ Tail(s) \in Seq(S) /\ Len(Tail(s)) = Len(s) - 1 /\ Head(s) = s[1] /\ 1 \in DOMAIN s
      /\ \A k \in DOMAIN Tail(s) : k + 1 \in DOMAIN s /\ Tail(s)[k] = s[k + 1]
  BY TailFacts
<1>2. PICK v \in Seq(Num) : v = Marks(f, s)
  BY MarksFacts
<1>3. /\ Len(v) = Len(s) /\ Len(s) \in Nat /\ DOMAIN s = 1..Len(s)
      /\ \A k \in DOMAIN s : v[k] = f[s[k]]
  BY <1>2, MarksOf, SeqFacts
<1>4. v # <<>> /\ Head(v) = f[Head(s)]
  BY <1>1, <1>3
<1>5. PICK w \in Seq(Num) : w = Marks(f, Tail(s))
  BY <1>1, MarksFacts
<1>6. /\ Len(w) = Len(s) - 1 /\ DOMAIN Tail(s) = 1..Len(s) - 1
      /\ \A k \in DOMAIN Tail(s) : w[k] = f[Tail(s)[k]]
  <2>1. PICK t \in Seq(S) : t = Tail(s)
    BY <1>1
  <2>2. Len(t) = Len(s) - 1 /\ DOMAIN t = 1..Len(t)
    BY <1>1, <2>1, SeqFacts
  <2>3. DOMAIN w = DOMAIN t /\ Len(w) = Len(t) /\ \A k \in DOMAIN t : w[k] = f[t[k]]
    BY <1>5, <2>1, LenByDomain DEF Marks
  <2> QED  BY <2>1, <2>2, <2>3
<1>7. Tail(v) \in Seq(Num) /\ Len(Tail(v)) = Len(s) - 1
      /\ \A k \in 1..Len(s) - 1 : Tail(v)[k] = v[k + 1]
  BY <1>3, <1>4
<1>8. \A k \in 1..Len(s) - 1 : w[k] = Tail(v)[k]
  BY <1>1, <1>3, <1>6, <1>7, SMTT(30)
<1>9. w = Tail(v)
  BY <1>6, <1>7, <1>8, MarksEqual
<1> QED  BY <1>2, <1>4, <1>5, <1>9

LEMMA MarksAppend ==
    ASSUME NEW S, NEW f \in [S -> Num], NEW s \in Seq(S), NEW x \in S
    PROVE  Marks(f, Append(s, x)) = Append(Marks(f, s), f[x])
<1>1. PICK t \in Seq(S) : t = Append(s, x)
  BY AppendFacts
<1>2. /\ Len(t) = Len(s) + 1 /\ Len(s) \in Nat /\ DOMAIN s = 1..Len(s) /\ DOMAIN t = 1..Len(s) + 1
      /\ \A k \in DOMAIN s : t[k] = s[k]
      /\ t[Len(s) + 1] = x
  BY <1>1, AppendFacts, SeqFacts
<1>3. PICK v \in Seq(Num) : v = Marks(f, s)
  BY MarksFacts
<1>4. Len(v) = Len(s) /\ \A k \in DOMAIN s : v[k] = f[s[k]]
  BY <1>3, MarksOf
<1>5. PICK w \in Seq(Num) : w = Marks(f, t)
  BY MarksFacts
<1>6. Len(w) = Len(s) + 1 /\ \A k \in DOMAIN t : w[k] = f[t[k]]
  BY <1>2, <1>5, MarksOf, SMTT(30)
<1>7. f[x] \in Num
  OBVIOUS
<1>8. PICK n \in Num : n = f[x]
  BY <1>7
<1>9. /\ Append(v, n) \in Seq(Num) /\ Len(Append(v, n)) = Len(s) + 1
      /\ \A k \in 1..Len(s) : Append(v, n)[k] = v[k]
      /\ Append(v, n)[Len(s) + 1] = n
  BY <1>2, <1>4
<1>10. \A k \in 1..Len(s) + 1 : w[k] = Append(v, n)[k]
  BY <1>2, <1>4, <1>6, <1>8, <1>9, SMTT(30)
<1>11. w = Append(v, n)
  BY <1>6, <1>9, <1>10, MarksEqual
<1> QED  BY <1>1, <1>3, <1>5, <1>8, <1>11

LEMMA MarksConcat ==
    ASSUME NEW S, NEW f \in [S -> Num], NEW s \in Seq(S), NEW t \in Seq(S)
    PROVE  Marks(f, s \o t) = Marks(f, s) \o Marks(f, t)
<1>1. PICK r \in Seq(S) : r = s \o t
  BY ConcatFacts
<1>2. /\ Len(r) = Len(s) + Len(t) /\ Len(s) \in Nat /\ Len(t) \in Nat
      /\ DOMAIN s = 1..Len(s) /\ DOMAIN t = 1..Len(t) /\ DOMAIN r = 1..Len(s) + Len(t)
      /\ \A k \in DOMAIN s : r[k] = s[k]
      /\ \A k \in DOMAIN t : r[Len(s) + k] = t[k]
  BY <1>1, ConcatFacts, SeqFacts
<1>3. PICK u \in Seq(Num) : u = Marks(f, s)
  BY MarksFacts
<1>4. PICK v \in Seq(Num) : v = Marks(f, t)
  BY MarksFacts
<1>5. PICK w \in Seq(Num) : w = Marks(f, r)
  BY MarksFacts
<1>6. /\ Len(u) = Len(s) /\ \A k \in DOMAIN s : u[k] = f[s[k]]
      /\ Len(v) = Len(t) /\ \A k \in DOMAIN t : v[k] = f[t[k]]
      /\ Len(w) = Len(s) + Len(t) /\ \A k \in DOMAIN r : w[k] = f[r[k]]
  <2>1. DOMAIN u = DOMAIN s /\ Len(u) = Len(s) /\ \A k \in DOMAIN s : u[k] = f[s[k]]
    BY <1>3, LenByDomain DEF Marks
  <2>2. DOMAIN v = DOMAIN t /\ Len(v) = Len(t) /\ \A k \in DOMAIN t : v[k] = f[t[k]]
    BY <1>4, LenByDomain DEF Marks
  <2>3. DOMAIN w = DOMAIN r /\ Len(w) = Len(r) /\ \A k \in DOMAIN r : w[k] = f[r[k]]
    BY <1>5, LenByDomain DEF Marks
  <2> QED  BY <1>2, <2>1, <2>2, <2>3
<1>7. /\ u \o v \in Seq(Num) /\ Len(u \o v) = Len(s) + Len(t)
      /\ \A k \in 1..Len(s) : (u \o v)[k] = u[k]
      /\ \A k \in 1..Len(t) : (u \o v)[Len(s) + k] = v[k]
  <2>1. Len(u) = Len(s) /\ Len(v) = Len(t) /\ DOMAIN u = 1..Len(s) /\ DOMAIN v = 1..Len(t)
    BY <1>6, SeqFacts
  <2>2. /\ u \o v \in Seq(Num) /\ Len(u \o v) = Len(u) + Len(v)
        /\ \A k \in DOMAIN u : (u \o v)[k] = u[k]
        /\ \A k \in DOMAIN v : (u \o v)[Len(u) + k] = v[k]
    BY ConcatFacts
  <2> QED  BY <2>1, <2>2
<1>8. \A k \in 1..Len(s) + Len(t) : w[k] = (u \o v)[k]
  <2> SUFFICES ASSUME NEW k \in 1..Len(s) + Len(t) PROVE w[k] = (u \o v)[k]
    OBVIOUS
  <2>1. CASE k \in 1..Len(s)
    <3>1. k \in DOMAIN s /\ k \in DOMAIN r
      BY <1>2, <2>1
    <3>2. w[k] = f[r[k]] /\ r[k] = s[k] /\ (u \o v)[k] = u[k] /\ u[k] = f[s[k]]
      BY <1>2, <1>6, <1>7, <2>1, <3>1
    <3> QED  BY <3>2
  <2>2. CASE k \notin 1..Len(s)
    <3>1. PICK j \in 1..Len(t) : k = Len(s) + j
      <4>1. k - Len(s) \in 1..Len(t) /\ k = Len(s) + (k - Len(s))
        BY <1>2, <2>2
      <4> QED  BY <4>1
    <3>2. w[k] = f[r[k]] /\ r[k] = t[j] /\ (u \o v)[k] = v[j] /\ v[j] = f[t[j]]
      BY <1>2, <1>6, <1>7, <3>1
    <3> QED  BY <3>2
  <2> QED  BY <2>1, <2>2
<1>9. w = u \o v
  BY <1>6, <1>7, <1>8, MarksEqual
<1> QED  BY <1>1, <1>3, <1>4, <1>5, <1>9

\* A chain goes on: with numbers greater than all of it, and with none.
Below(s, n) == \A k \in DOMAIN s : s[k] < n

LEMMA ChainCalls ==
    ASSUME NEW a \in Seq(Num), NEW m \in Seq(Num), NEW o \in Seq(Num), NEW r \in Seq(Num),
           NEW u \in Seq(Num), NEW n \in Nat, Chain(a, m, o, r),
           Below(a, n), Below(m, n), Below(o, n), Below(r, n),
           \A k \in DOMAIN u : u[k] \in {-1, n},
           \A j, k \in DOMAIN u : u[j] = n /\ u[k] = n => j = k
    PROVE  Chain(a, m, o, r \o u)
<1>1. Ascending(u)
  <2> SUFFICES ASSUME NEW k \in DOMAIN u, u[k] # -1, NEW j \in 1..k - 1 PROVE u[j] < u[k]
    BY DEF Ascending
  <2>1. j \in DOMAIN u /\ j # k /\ u[k] = n
    BY SeqFacts
  <2>2. u[j] = -1
    BY <2>1
  <2> QED  BY <2>1, <2>2
<1>2. \A s \in Seq(Num) : Below(s, n) => Before(s, u)
  BY DEF Before, Below
<1>3. Chain(a, m, o, r \o u)
  BY <1>1, <1>2, ConcatOrder, ConcatAfter DEF Chain
<1> QED  BY <1>3

\* The outbox was empty, and gets what was the first call, once at most.
LEMMA ChainServed ==
    ASSUME NEW a \in Seq(Num), NEW m \in Seq(Num), NEW r \in Seq(Num), NEW u \in Seq(Num),
           Chain(a, m, <<>>, r), r # <<>>,
           \A k \in DOMAIN u : u[k] = -1 \/ (u[k] = Head(r) /\ u[k] \in Nat),
           \A j, k \in DOMAIN u : u[j] # -1 /\ u[k] # -1 => j = k
    PROVE  Chain(a, m, u, Tail(r))
<1>1. /\ Head(r) = r[1] /\ 1 \in DOMAIN r /\ Tail(r) \in Seq(Num)
      /\ \A k \in DOMAIN Tail(r) : k + 1 \in DOMAIN r /\ Tail(r)[k] = r[k + 1]
      /\ \A k \in DOMAIN Tail(r) : k \in Nat \ {0}
      /\ \A k \in DOMAIN r : r[k] \in Num
  BY TailFacts, SeqFacts
<1>2. Ascending(u)
  <2> SUFFICES ASSUME NEW k \in DOMAIN u, u[k] # -1, NEW j \in 1..k - 1 PROVE u[j] < u[k]
    BY DEF Ascending
  <2>1. j \in DOMAIN u /\ j # k /\ u[k] \in Nat
    BY SeqFacts
  <2>2. u[j] = -1
    BY <2>1
  <2> QED  BY <2>1, <2>2
<1>3. ASSUME NEW s \in Seq(Num), Before(s, r) PROVE Before(s, u)
  BY <1>1, <1>3 DEF Before
<1>4. Before(u, Tail(r))
  <2> SUFFICES ASSUME NEW k \in DOMAIN Tail(r), Tail(r)[k] # -1, NEW j \in DOMAIN u
               PROVE  u[j] < Tail(r)[k]
    BY DEF Before
  <2>1. /\ k + 1 \in DOMAIN r /\ Tail(r)[k] = r[k + 1] /\ r[k + 1] # -1 /\ 1 \in 1..(k + 1) - 1
        /\ r[k + 1] \in Nat
    BY <1>1 DEF Num
  <2>2. r[1] < r[k + 1]
    BY <2>1 DEF Chain, Ascending
  <2>3. CASE u[j] = -1
    BY <2>1, <2>3
  <2>4. CASE u[j] = Head(r)
    BY <1>1, <2>1, <2>2, <2>4
  <2> QED  BY <2>3, <2>4
<1>5. Chain(a, m, <<>>, Tail(r))
  <2>1. <<>> \in Seq(Num)
    OBVIOUS
  <2> QED  BY <2>1, ChainShrinks
<1>6. Before(a, u) /\ Before(m, u)
  BY <1>3 DEF Chain
<1> QED  BY <1>2, <1>4, <1>5, <1>6 DEF Chain

\* The outbox was empty, and gets a number greater than all, once at most.
LEMMA ChainNews ==
    ASSUME NEW a \in Seq(Num), NEW m \in Seq(Num), NEW u \in Seq(Num), NEW n \in Nat,
           Chain(a, m, <<>>, <<>>), Below(a, n), Below(m, n),
           \A k \in DOMAIN u : u[k] \in {-1, n},
           \A j, k \in DOMAIN u : u[j] = n /\ u[k] = n => j = k
    PROVE  Chain(a, m, u, <<>>)
<1>1. <<>> \in Seq(Num) /\ Below(<<>>, n)
  BY DEF Below
<1>2. Chain(a, m, <<>>, <<>> \o u)
  BY <1>1, ChainCalls
<1>3. <<>> \o u = u
  OBVIOUS
<1>4. Before(u, <<>>)
  BY DEF Before
<1> QED  BY <1>2, <1>3, <1>4 DEF Chain

----------------------------------------------------------------------------
(* Texts, from where they are written to the tabs.                         *)

\* The texts of a page's own calls and results, and those that peers wrote.
CallMark == [r \in Asking |-> IF r.method = "sendMessage" THEN r.arg.text ELSE -1]
OwnMark == [m \in Sent |->
    IF IsResult(m, "sendMessage") /\ TextOf(m) \in Nat THEN TextOf(m) ELSE -1]
PeerMark == [m \in Sent |->
    IF IsNote(m, "newMessage") /\ TextOf(m) \in Nat THEN TextOf(m) ELSE -1]
OwnShown == [t \in Nat |-> IF t \in handled THEN -1 ELSE t]
PeerShown == [t \in Nat |-> IF t \in handled THEN t ELSE -1]

\* The texts in each tab of a page, and in one that is yet to come.
TextLists(p) == {<<>>} \cup {y.texts : y \in ToSet(tabs[p])}

InTurn(f, g, S, m, o, r) ==
    \A s \in S : Chain(Marks(f, s), Marks(g, m), Marks(g, o), Marks(CallMark, r))

OwnInTurn(p) ==
    InTurn(OwnShown, OwnMark, TextLists(p), messages[p], outbox[p], requests[p])
PeersInTurn(p) ==
    InTurn(PeerShown, PeerMark, TextLists(p), messages[p], outbox[Handler], <<>>)

\* Notifications are of what peers wrote, results of a page's own.
Wrote(m) ==
    /\ IsResult(m, "sendMessage") => TextOf(m) \notin handled
    /\ IsNote(m, "newMessage") => TextOf(m) \in handled

WritersKnown ==
    /\ \A p \in Page : \A r \in ToSet(requests[p]) :
          r.method = "sendMessage" => r.arg.text \notin handled
    /\ \A p \in Page : \A m \in ToSet(messages[p]) : Wrote(m)
    /\ \A t \in Thread : \A m \in ToSet(outbox[t]) : Wrote(m)
    /\ \A p \in Page : \A m \in ToSet(outbox[p]) : ~IsNote(m, "newMessage")

ShownWhereWritten ==
    \A p \in Page : \A y \in ToSet(tabs[p]) : \A t \in ToSet(y.texts) : texts[t] = y.conv

TextInv ==
    /\ WritersKnown
    /\ ShownWhereWritten
    /\ \A p \in Page : OwnInTurn(p)
    /\ \A p \in Page : PeersInTurn(p)

LEMMA MarkTypes ==
    /\ CallMark \in [Asking -> Num]
    /\ OwnMark \in [Sent -> Num] /\ PeerMark \in [Sent -> Num]
    /\ OwnShown \in [Nat -> Num] /\ PeerShown \in [Nat -> Num]
<1>1. CallMark \in [Asking -> Num]
  <2>1. \A r \in Asking : r.arg.text \in 0..MaxNews + MaxDeeds
    BY DEF Asking, AnItem
  <2>2. 0..MaxNews + MaxDeeds \subseteq Num
    BY PageAssumption DEF Num
  <2>3. -1 \in Num
    BY DEF Num
  <2> QED  BY <2>1, <2>2, <2>3 DEF CallMark
<1>2. OwnMark \in [Sent -> Num] /\ PeerMark \in [Sent -> Num]
  <2>1. Nat \subseteq Num /\ -1 \in Num
    BY DEF Num
  <2>2. OwnMark \in [Sent -> Num]
    BY <2>1 DEF OwnMark
  <2>3. PeerMark \in [Sent -> Num]
    BY <2>1 DEF PeerMark
  <2> QED  BY <2>2, <2>3
<1>3. OwnShown \in [Nat -> Num] /\ PeerShown \in [Nat -> Num]
  <2>1. Nat \subseteq Num /\ -1 \in Num
    BY DEF Num
  <2>2. OwnShown \in [Nat -> Num]
    BY <2>1 DEF OwnShown
  <2>3. PeerShown \in [Nat -> Num]
    BY <2>1 DEF PeerShown
  <2> QED  BY <2>2, <2>3
<1> QED  BY <1>1, <1>2, <1>3

\* What these numbers are.
LEMMA MarkValues ==
    ASSUME TypeInv
    PROVE  /\ \A r \in Asking : SoundCall(r) =>
                 /\ r.method = "sendMessage" => CallMark[r] = r.arg.text /\ r.arg.text \in 1..Len(texts)
                 /\ r.method # "sendMessage" => CallMark[r] = -1
           /\ \A m \in Sent : SoundMessage(m) =>
                 /\ HasText(m) => TextOf(m) \in 1..Len(texts)
                 /\ OwnMark[m] = IF IsResult(m, "sendMessage") THEN TextOf(m) ELSE -1
                 /\ PeerMark[m] = IF IsNote(m, "newMessage") THEN TextOf(m) ELSE -1
<1>1. DOMAIN texts = 1..Len(texts) /\ Len(texts) \in Nat
  BY TypesApart DEF HistoryTyped
<1>2. ASSUME NEW r \in Asking, SoundCall(r)
      PROVE  /\ r.method = "sendMessage" => CallMark[r] = r.arg.text /\ r.arg.text \in 1..Len(texts)
             /\ r.method # "sendMessage" => CallMark[r] = -1
  BY <1>1, <1>2 DEF SoundCall, Written, CallMark
<1>3. ASSUME NEW m \in Sent, SoundMessage(m)
      PROVE  /\ HasText(m) => TextOf(m) \in 1..Len(texts)
             /\ OwnMark[m] = IF IsResult(m, "sendMessage") THEN TextOf(m) ELSE -1
             /\ PeerMark[m] = IF IsNote(m, "newMessage") THEN TextOf(m) ELSE -1
  <2>1. HasText(m) => TextOf(m) \in 1..Len(texts)
    BY <1>1, <1>3 DEF SoundMessage, Written, TextOf
  <2>2. HasText(m) => TextOf(m) \in Nat
    BY <1>1, <2>1
  <2> QED  BY <2>1, <2>2 DEF OwnMark, PeerMark, HasText
<1> QED  BY <1>2, <1>3

LEMMA ListsTyped ==
    ASSUME TypeInv, NEW p \in Page, NEW s \in TextLists(p)
    PROVE  s \in Seq(Nat) /\ ToSet(s) \subseteq 1..Len(texts) /\ Len(texts) \in Nat
<1>1. tabs[p] \in Seq(TabType(Len(texts))) /\ Len(texts) \in Nat
  BY TypesApart DEF PagesTyped, HistoryTyped
<1>2. PICK u \in Seq(TabType(Len(texts))) : u = tabs[p]
  BY <1>1
<1>3. \A y \in ToSet(u) : y.texts \in Seq(1..Len(texts))
  <2>1. ToSet(u) \subseteq TabType(Len(texts))
    BY SeqFacts
  <2> QED  BY <2>1 DEF TabType
<1>4. s \in Seq(1..Len(texts))
  BY <1>2, <1>3, ShortFacts DEF TextLists
<1>5. s \in Seq(Nat)
  <2>1. 1..Len(texts) \subseteq Nat
    BY <1>1
  <2> QED  BY <1>4, <2>1, SeqSubset
<1>6. ToSet(s) \subseteq 1..Len(texts)
  BY <1>4, SeqFacts
<1> QED  BY <1>1, <1>5, <1>6

\* All of these are sequences of numbers, and of texts that there are.
LEMMA TurnTypes ==
    ASSUME TypeInv, NEW p \in Page
    PROVE  /\ \A s \in TextLists(p) : Marks(OwnShown, s) \in Seq(Num) /\ Marks(PeerShown, s) \in Seq(Num)
           /\ Marks(OwnMark, messages[p]) \in Seq(Num) /\ Marks(PeerMark, messages[p]) \in Seq(Num)
           /\ Marks(OwnMark, outbox[p]) \in Seq(Num) /\ Marks(PeerMark, outbox[Handler]) \in Seq(Num)
           /\ Marks(CallMark, requests[p]) \in Seq(Num)
           /\ messages[p] \in Seq(Sent) /\ outbox[p] \in Seq(Sent) /\ outbox[Handler] \in Seq(Sent)
           /\ requests[p] \in Seq(Asking)
<1>1. /\ messages[p] \in Seq(Sent) /\ outbox[p] \in Seq(Sent) /\ outbox[Handler] \in Seq(Sent)
      /\ requests[p] \in Seq(Asking)
  BY RpcOf DEF RpcTyped, Thread
<1>2. ASSUME NEW s \in TextLists(p)
      PROVE  Marks(OwnShown, s) \in Seq(Num) /\ Marks(PeerShown, s) \in Seq(Num)
  BY ListsTyped, MarkTypes, MarksFacts
<1>3. ASSUME NEW s \in Seq(Sent) PROVE Marks(OwnMark, s) \in Seq(Num) /\ Marks(PeerMark, s) \in Seq(Num)
  BY MarkTypes, MarksFacts
<1>4. Marks(CallMark, requests[p]) \in Seq(Num)
  BY <1>1, MarkTypes, MarksFacts
<1> QED  BY <1>1, <1>2, <1>3, <1>4

LEMMA TurnsBelow ==
    ASSUME TypeInv, NEW p \in Page, NEW n \in Nat, n = Len(texts) + 1
    PROVE  /\ \A s \in TextLists(p) : Below(Marks(OwnShown, s), n) /\ Below(Marks(PeerShown, s), n)
           /\ Below(Marks(OwnMark, messages[p]), n) /\ Below(Marks(PeerMark, messages[p]), n)
           /\ Below(Marks(OwnMark, outbox[p]), n) /\ Below(Marks(PeerMark, outbox[Handler]), n)
           /\ Below(Marks(CallMark, requests[p]), n)
<1>1. Len(texts) \in Nat /\ p \in Thread /\ Handler \in Thread
  BY TypesApart DEF HistoryTyped, Thread
<1>2. ASSUME NEW s \in TextLists(p)
      PROVE  Below(Marks(OwnShown, s), n) /\ Below(Marks(PeerShown, s), n)
  <2>1. \A k \in DOMAIN s : s[k] \in 1..Len(texts)
    BY ListsTyped, SeqFacts
  <2>2. \A k \in DOMAIN s : OwnShown[s[k]] < n /\ PeerShown[s[k]] < n
    BY <1>1, <2>1 DEF OwnShown, PeerShown
  <2> QED  BY <2>2 DEF Below, Marks
<1>3. ASSUME NEW s \in Seq(Sent), \A m \in ToSet(s) : SoundMessage(m)
      PROVE  Below(Marks(OwnMark, s), n) /\ Below(Marks(PeerMark, s), n)
  <2>1. \A k \in DOMAIN s : s[k] \in Sent /\ s[k] \in ToSet(s)
    BY SeqFacts
  <2>2. \A m \in Sent : SoundMessage(m) => OwnMark[m] < n /\ PeerMark[m] < n
    BY <1>1, MarkValues DEF HasText
  <2>3. \A k \in DOMAIN s : OwnMark[s[k]] < n /\ PeerMark[s[k]] < n
    BY <1>3, <2>1, <2>2
  <2> QED  BY <2>3 DEF Below, Marks
<1>4. Below(Marks(CallMark, requests[p]), n)
  <2>1. PICK s \in Seq(Asking) : s = requests[p]
    BY TurnTypes
  <2>2. \A k \in DOMAIN s : s[k] \in Asking /\ SoundCall(s[k])
    BY <2>1, SeqFacts, RpcOf DEF SoundWire
  <2>3. \A r \in Asking : SoundCall(r) => CallMark[r] < n
    BY <1>1, MarkValues
  <2>4. \A k \in DOMAIN s : CallMark[s[k]] < n
    BY <2>2, <2>3
  <2> QED  BY <2>1, <2>4 DEF Below, Marks
<1>5. /\ \A m \in ToSet(messages[p]) : SoundMessage(m)
      /\ \A m \in ToSet(outbox[p]) : SoundMessage(m)
      /\ \A m \in ToSet(outbox[Handler]) : SoundMessage(m)
  BY <1>1, RpcOf DEF SoundWire
<1>6. messages[p] \in Seq(Sent) /\ outbox[p] \in Seq(Sent) /\ outbox[Handler] \in Seq(Sent)
  BY TurnTypes
<1> QED  BY <1>2, <1>3, <1>4, <1>5, <1>6

----------------------------------------------------------------------------
(* What does not change the turn.                                          *)

\* A text that peers write is a new one.
HandledStep == handled' = handled \/ handled' = handled \cup {Len(texts) + 1}

LEMMA ShownStays ==
    ASSUME TypeInv, HandledStep, NEW s \in Seq(Nat), ToSet(s) \subseteq 1..Len(texts)
    PROVE  /\ Marks(OwnShown, s)' = Marks(OwnShown, s)
           /\ Marks(PeerShown, s)' = Marks(PeerShown, s)
<1>1. Len(texts) \in Nat
  BY TypesApart DEF HistoryTyped
<1>2. \A t \in 1..Len(texts) : t \in handled' <=> t \in handled
  BY <1>1 DEF HandledStep
<1>3. \A k \in DOMAIN s : s[k] \in 1..Len(texts) /\ s[k] \in Nat
  BY SeqFacts
<1> QED  BY <1>2, <1>3 DEF Marks, OwnShown, PeerShown

\* A page loses the next message, or all of them.
Loses(p) ==
    \/ messages'[p] = messages[p] \/ messages'[p] = <<>>
    \/ messages[p] # <<>> /\ messages'[p] = Tail(messages[p])

LEMMA ChainLoses ==
    ASSUME NEW g \in [Sent -> Num], NEW a \in Seq(Num), NEW m \in Seq(Sent), NEW o \in Seq(Num),
           NEW r \in Seq(Num), Chain(a, Marks(g, m), o, r)
    PROVE  Chain(a, Marks(g, <<>>), o, r) /\ (m # <<>> => Chain(a, Marks(g, Tail(m)), o, r))
<1>1. PICK v \in Seq(Num) : v = Marks(g, m)
  BY MarksFacts
<1>2. Marks(g, <<>>) = <<>>
  BY NoMarks
<1>3. Chain(a, v, o, r)
  BY <1>1
<1>4. Chain(a, <<>>, o, r) /\ (v # <<>> => Chain(a, Tail(v), o, r))
  BY <1>3, ChainShrinks
<1>5. m # <<>> => v # <<>> /\ Marks(g, Tail(m)) = Tail(v)
  BY <1>1, MarksTail
<1> QED  BY <1>2, <1>4, <1>5

LEMMA ChainLost ==
    ASSUME TypeInv, NEW p \in Page, Loses(p), NEW g \in [Sent -> Num], NEW a \in Seq(Num),
           NEW o \in Seq(Num), NEW r \in Seq(Num), Chain(a, Marks(g, messages[p]), o, r)
    PROVE  Chain(a, Marks(g, messages'[p]), o, r)
<1>1. PICK m \in Seq(Sent) : m = messages[p]
  BY TurnTypes
<1>2. Chain(a, Marks(g, <<>>), o, r) /\ (m # <<>> => Chain(a, Marks(g, Tail(m)), o, r))
  BY <1>1, ChainLoses
<1> QED  BY <1>1, <1>2 DEF Loses

LEMMA OwnStays ==
    ASSUME TypeInv, TextInv, HandledStep, NEW p \in Page, TextLists(p)' \subseteq TextLists(p),
           Loses(p), UNCHANGED <<outbox[p], requests[p]>>
    PROVE  OwnInTurn(p)'
<1> SUFFICES ASSUME NEW s \in TextLists(p)'
             PROVE  Chain(Marks(OwnShown, s)', Marks(OwnMark, messages'[p]),
                          Marks(OwnMark, outbox[p]), Marks(CallMark, requests[p]))
  BY DEF OwnInTurn, InTurn
<1>1. s \in TextLists(p) /\ Marks(OwnShown, s)' = Marks(OwnShown, s)
  BY ListsTyped, ShownStays
<1>2. Chain(Marks(OwnShown, s), Marks(OwnMark, messages[p]), Marks(OwnMark, outbox[p]),
            Marks(CallMark, requests[p]))
  BY <1>1 DEF TextInv, OwnInTurn, InTurn
<1>3. Chain(Marks(OwnShown, s), Marks(OwnMark, messages'[p]), Marks(OwnMark, outbox[p]),
            Marks(CallMark, requests[p]))
  BY <1>1, <1>2, TurnTypes, MarkTypes, ChainLost
<1> QED  BY <1>1, <1>3

LEMMA PeersStay ==
    ASSUME TypeInv, TextInv, HandledStep, NEW p \in Page, TextLists(p)' \subseteq TextLists(p),
           Loses(p), UNCHANGED outbox[Handler]
    PROVE  PeersInTurn(p)'
<1> SUFFICES ASSUME NEW s \in TextLists(p)'
             PROVE  Chain(Marks(PeerShown, s)', Marks(PeerMark, messages'[p]),
                          Marks(PeerMark, outbox[Handler]), Marks(CallMark, <<>>))
  BY DEF PeersInTurn, InTurn
<1>1. s \in TextLists(p) /\ Marks(PeerShown, s)' = Marks(PeerShown, s)
  BY ListsTyped, ShownStays
<1>2. PICK r \in Seq(Num) : r = Marks(CallMark, <<>>)
  BY NoMarks, ShortFacts
<1>3. Chain(Marks(PeerShown, s), Marks(PeerMark, messages[p]), Marks(PeerMark, outbox[Handler]), r)
  BY <1>1, <1>2 DEF TextInv, PeersInTurn, InTurn
<1>4. Chain(Marks(PeerShown, s), Marks(PeerMark, messages'[p]), Marks(PeerMark, outbox[Handler]), r)
  BY <1>1, <1>3, TurnTypes, MarkTypes, ChainLost
<1> QED  BY <1>1, <1>2, <1>4

LEMMA WritersStay ==
    ASSUME TypeInv, WritersKnown, HandledStep,
           \A p \in Page : \A r \in ToSet(requests'[p]) :
              r \in ToSet(requests[p]) \/ (r.method = "sendMessage" => r.arg.text \notin handled'),
           \A p \in Page : \A m \in ToSet(messages'[p]) :
              m \in ToSet(messages[p]) \/ \E t \in Thread : m \in ToSet(outbox[t]),
           \A t \in Thread : \A m \in ToSet(outbox'[t]) : m \in ToSet(outbox[t]) \/ Wrote(m)',
           \A p \in Page : \A m \in ToSet(outbox'[p]) : m \in ToSet(outbox[p]) \/ ~IsNote(m, "newMessage")
    PROVE  WritersKnown'
<1>1. Len(texts) \in Nat /\ DOMAIN texts = 1..Len(texts)
  BY TypesApart DEF HistoryTyped
<1>2. \A t \in 1..Len(texts) : t \in handled' <=> t \in handled
  BY <1>1 DEF HandledStep
<1>3. \A m : SoundMessage(m) /\ Wrote(m) => Wrote(m)'
  BY <1>1, <1>2 DEF SoundMessage, Wrote, Written, HasText, TextOf, IsNote, IsResult
<1>4. \A r : SoundCall(r) /\ r.method = "sendMessage" /\ r.arg.text \notin handled => r.arg.text \notin handled'
  BY <1>1, <1>2 DEF SoundCall, Written
<1>5. SoundWire
  BY RpcOf
<1>6. \A p \in Page : \A r \in ToSet(requests'[p]) : r.method = "sendMessage" => r.arg.text \notin handled'
  BY <1>4, <1>5 DEF WritersKnown, SoundWire
<1>7. \A p \in Page : \A m \in ToSet(messages'[p]) : Wrote(m)'
  BY <1>3, <1>5 DEF WritersKnown, SoundWire
<1>8. \A t \in Thread : \A m \in ToSet(outbox'[t]) : Wrote(m)'
  BY <1>3, <1>5 DEF WritersKnown, SoundWire
<1>9. \A p \in Page : \A m \in ToSet(outbox'[p]) : ~IsNote(m, "newMessage")
  BY DEF WritersKnown
<1> QED  BY <1>6, <1>7, <1>8, <1>9 DEF WritersKnown, IsNote

LEMMA ShownStaysWhereWritten ==
    ASSUME TypeInv, ShownWhereWritten,
           \A t \in DOMAIN texts : t \in DOMAIN texts' /\ texts'[t] = texts[t],
           \A p \in Page : \A y \in ToSet(tabs'[p]) :
              y \in ToSet(tabs[p]) \/ \A t \in ToSet(y.texts) : t \in DOMAIN texts /\ texts[t] = y.conv
    PROVE  ShownWhereWritten'
<1>1. DOMAIN texts = 1..Len(texts)
  BY TypesApart DEF HistoryTyped
<1>2. \A p \in Page : \A y \in ToSet(tabs[p]) : \A t \in ToSet(y.texts) : t \in DOMAIN texts
  BY <1>1, ListsTyped DEF TextLists
<1> QED  BY <1>2 DEF ShownWhereWritten

LEMMA InitTexts == Init => TextInv
<1> SUFFICES ASSUME Init PROVE TextInv
  OBVIOUS
<1>1. /\ requests = [p \in Page |-> <<>>] /\ messages = [p \in Page |-> <<>>]
      /\ outbox = [t \in Thread |-> <<>>] /\ tabs = [p \in Page |-> <<>>]
  BY DEF Init, RpcInit
<1>2. ToSet(<<>>) = {}
  BY ShortFacts
<1>3. WritersKnown
  BY <1>1, <1>2, ThreadsAreApart DEF WritersKnown
<1>4. ShownWhereWritten
  BY <1>1, <1>2 DEF ShownWhereWritten
<1>5. ASSUME NEW p \in Page
      PROVE  OwnInTurn(p) /\ PeersInTurn(p)
  <2>1. TextLists(p) = {<<>>}
    BY <1>1, <1>2 DEF TextLists
  <2>2. requests[p] = <<>> /\ messages[p] = <<>> /\ outbox[p] = <<>> /\ outbox[Handler] = <<>>
    BY <1>1 DEF Thread
  <2>3. \A f : Marks(f, <<>>) = <<>>
    BY NoMarks
  <2>4. Chain(<<>>, <<>>, <<>>, <<>>)
    BY DEF Chain, Ascending, Before
  <2> QED  BY <2>1, <2>2, <2>3, <2>4 DEF OwnInTurn, PeersInTurn, InTurn
<1> QED  BY <1>3, <1>4, <1>5 DEF TextInv

----------------------------------------------------------------------------
(* What users do.                                                          *)

LEMMA ActCalls ==
    ASSUME TypeInv, Inv, NEW p \in Page,
           \/ Connect(p) \/ ClosePage(p)
           \/ \E x \in OwnNames : ChooseNickname(p, x)
           \/ \E k \in DOMAIN drawn[p] : StartConversation(p, k)
           \/ \E k \in DOMAIN tabs[p] : WriteText(p, k) \/ CloseTab(p, k)
    PROVE  \E new \in Seq(Asking) :
              /\ requests'[p] = requests[p] \o new
              /\ \/ UNCHANGED texts /\ \A k \in DOMAIN new : new[k].method # "sendMessage"
                 \/ /\ \E c \in Talk \cup {Undefined} : texts' = Append(texts, c)
                    /\ DOMAIN new = {1} /\ new[1].arg.text = Len(texts) + 1
                    /\ new[1].method = "sendMessage"
<1>1. requests \in [Page -> Seq(Asking)]
  BY RpcOf DEF RpcTyped
<1>a. ASSUME NEW calls \in Seq(Calling), Call(p, calls)
      PROVE  \E new \in Seq(Asking) :
                /\ DOMAIN new = DOMAIN calls
                /\ \A j \in DOMAIN calls : new[j].method = calls[j].method /\ new[j].arg = calls[j].arg
                /\ requests'[p] = requests[p] \o new
  <2>1. \E new \in Seq(Asking) :
           /\ Len(new) = Len(calls)
           /\ \A k \in DOMAIN calls : new[k].method = calls[k].method /\ new[k].arg = calls[k].arg
           /\ requests' = [requests EXCEPT ![p] = requests[p] \o new]
           /\ nextId' \in [Page -> Nat]
           /\ callbacks' \in [Page -> Seq(Method)]
    BY <1>a, CallShape
  <2>2. PICK new \in Seq(Asking) :
           /\ Len(new) = Len(calls)
           /\ \A k \in DOMAIN calls : new[k].method = calls[k].method /\ new[k].arg = calls[k].arg
           /\ requests' = [requests EXCEPT ![p] = requests[p] \o new]
    BY <2>1
  <2>3. DOMAIN new = DOMAIN calls
    BY <2>2, SeqFacts
  <2>4. requests'[p] = requests[p] \o new
    BY <1>1, <2>2
  <2> QED  BY <2>2, <2>3, <2>4
<1>b. \A method \in Method, arg \in AnItem :
         Ask(method, arg) \in Calling /\ Ask(method, arg).method = method /\ Ask(method, arg).arg = arg
  BY DEF Ask, Calling
<1>2. ASSUME NEW calls \in Seq(Calling), Call(p, calls), UNCHANGED texts,
             \A k \in DOMAIN calls : calls[k].method # "sendMessage"
      PROVE  \E new \in Seq(Asking) :
                /\ requests'[p] = requests[p] \o new
                /\ UNCHANGED texts /\ \A k \in DOMAIN new : new[k].method # "sendMessage"
  <2>1. PICK new \in Seq(Asking) :
           /\ DOMAIN new = DOMAIN calls
           /\ \A j \in DOMAIN calls : new[j].method = calls[j].method /\ new[j].arg = calls[j].arg
           /\ requests'[p] = requests[p] \o new
    BY <1>2, <1>a
  <2> QED  BY <1>2, <2>1
<1>3. ASSUME NEW method \in Method \ {"sendMessage"}, NEW arg \in AnItem, Deed(p, method, arg), UNCHANGED texts
      PROVE  \E new \in Seq(Asking) :
                /\ requests'[p] = requests[p] \o new
                /\ UNCHANGED texts /\ \A k \in DOMAIN new : new[k].method # "sendMessage"
  <2>1. PICK c \in Calling : c = Ask(method, arg) /\ c.method = method
    BY <1>b
  <2>2. PICK calls \in Seq(Calling) : calls = <<c>>
    BY ShortFacts
  <2>3. DOMAIN calls = {1} /\ calls[1] = c
    BY <2>2
  <2>4. Call(p, calls)
    BY <1>3, <2>1, <2>2 DEF Deed
  <2> QED  BY <1>2, <1>3, <2>1, <2>3, <2>4
<1>4. CASE Connect(p)
  <2>1. /\ Greeting \in Seq(Calling) /\ DOMAIN Greeting = 1..7
        /\ \A k \in 1..7 : Greeting[k].method # "sendMessage"
    BY GreetingCalls
  <2>2. Call(p, Greeting) /\ UNCHANGED texts
    BY <1>4 DEF Connect, history, talks
  <2> QED  BY <1>2, <2>1, <2>2
<1>5. CASE ClosePage(p)
  <2>1. UNCHANGED <<requests, texts>>
    BY <1>5 DEF ClosePage, history, talks
  <2>2. requests[p] = requests[p] \o <<>> /\ <<>> \in Seq(Asking) /\ DOMAIN <<>> = {}
    BY <1>1
  <2> QED  BY <2>1, <2>2
<1>6. CASE \E x \in OwnNames : ChooseNickname(p, x)
  <2>1. PICK x \in OwnNames : Deed(p, "updateNickname", Item(x, 0, 0)) /\ UNCHANGED texts
    BY <1>6 DEF ChooseNickname, talks
  <2>2. Item(x, 0, 0) \in AnItem /\ "updateNickname" \in Method \ {"sendMessage"}
    BY Values, PageAssumption
  <2> QED  BY <1>3, <2>1, <2>2
<1>7. CASE \E k \in DOMAIN drawn[p] : StartConversation(p, k)
  <2>1. PICK k \in DOMAIN drawn[p] : Deed(p, "addConversation", Item(drawn[p][k], 0, 0)) /\ UNCHANGED texts
    BY <1>7 DEF StartConversation, talks
  <2>2. drawn[p][k] \in AnyNick
    BY ListFacts, SeqFacts DEF Heard
  <2>3. Item(drawn[p][k], 0, 0) \in AnItem /\ "addConversation" \in Method \ {"sendMessage"}
    BY <2>2, NameOnly, PageAssumption
  <2> QED  BY <1>3, <2>1, <2>3
<1>8. CASE \E k \in DOMAIN tabs[p] : WriteText(p, k)
  <2>1. PICK k \in DOMAIN tabs[p] :
            /\ Deed(p, "sendMessage", Item(Null, tabs[p][k].conv, Len(texts) + 1))
            /\ texts' = Append(texts, tabs[p][k].conv)
    BY <1>8 DEF WriteText
  <2>2. tabs[p][k].conv \in Talk \cup {Undefined}
    BY TabFacts
  <2>3. PICK i \in AnItem : i = Item(Null, tabs[p][k].conv, Len(texts) + 1) /\ i.text = Len(texts) + 1
    <3>1. Len(texts) + 1 \in 1..MaxNews + MaxDeeds
      BY <2>1, CountTypes DEF Deed
    <3>2. PICK t \in 0..MaxNews + MaxDeeds : t = Len(texts) + 1
      BY <3>1
    <3>3. PICK c \in Talk \cup {0, Undefined} : c = tabs[p][k].conv
      BY <2>2
    <3>4. Item(Null, c, t) \in AnItem /\ Item(Null, c, t).text = t
      BY Values
    <3> QED  BY <3>2, <3>3, <3>4
  <2>4. PICK r \in Calling : r = Ask("sendMessage", i) /\ r.method = "sendMessage" /\ r.arg = i
    BY <1>b, PageAssumption
  <2>5. PICK calls \in Seq(Calling) : calls = <<r>>
    BY ShortFacts
  <2>6. DOMAIN calls = {1} /\ calls[1] = r /\ Call(p, calls)
    BY <2>1, <2>3, <2>4, <2>5 DEF Deed
  <2>7. PICK new \in Seq(Asking) :
           /\ DOMAIN new = DOMAIN calls
           /\ \A j \in DOMAIN calls : new[j].method = calls[j].method /\ new[j].arg = calls[j].arg
           /\ requests'[p] = requests[p] \o new
    BY <2>6, <1>a
  <2>8. DOMAIN new = {1}
    BY <2>6, <2>7
  <2>9. new[1].method = "sendMessage" /\ new[1].arg.text = Len(texts) + 1
    BY <2>3, <2>4, <2>6, <2>7
  <2> QED  BY <1>1, <2>1, <2>2, <2>7, <2>8, <2>9
<1>9. CASE \E k \in DOMAIN tabs[p] : CloseTab(p, k)
  <2>1. PICK k \in DOMAIN tabs[p] : Deed(p, "leaveConversation", Item(Null, tabs[p][k].conv, 0)) /\ UNCHANGED texts
    BY <1>9 DEF CloseTab, talks
  <2>2. Item(Null, tabs[p][k].conv, 0) \in AnItem
    <3>1. PICK c \in Talk \cup {0, Undefined} : c = tabs[p][k].conv
      BY TabFacts
    <3>2. Item(Null, c, 0) \in AnItem
      BY Values
    <3> QED  BY <3>1, <3>2
  <2>3. "leaveConversation" \in Method \ {"sendMessage"}
    BY PageAssumption
  <2> QED  BY <1>3, <2>1, <2>2, <2>3
<1> QED  BY <1>4, <1>5, <1>6, <1>7, <1>8, <1>9

LEMMA ActKeepsTexts ==
    ASSUME TypeInv, Inv, TextInv, NEW p \in Page,
           \/ Connect(p) \/ ClosePage(p)
           \/ \E x \in OwnNames : ChooseNickname(p, x)
           \/ \E k \in DOMAIN drawn[p] : StartConversation(p, k)
           \/ \E k \in DOMAIN tabs[p] : WriteText(p, k) \/ CloseTab(p, k)
    PROVE  TextInv'
<1>1. /\ UNCHANGED <<outbox, tabs, handled>>
      /\ \A q \in Page : messages'[q] = messages[q] \/ messages'[q] = <<>>
      /\ \A q \in Page : q # p => requests'[q] = requests[q]
  BY ActShape DEF server
<1>2. PICK new \in Seq(Asking) :
         /\ requests'[p] = requests[p] \o new
         /\ \/ UNCHANGED texts /\ \A k \in DOMAIN new : new[k].method # "sendMessage"
            \/ /\ \E c \in Talk \cup {Undefined} : texts' = Append(texts, c)
               /\ DOMAIN new = {1} /\ new[1].arg.text = Len(texts) + 1
               /\ new[1].method = "sendMessage"
  BY ActCalls
<1>3. HandledStep /\ \A q \in Page : Loses(q) /\ TextLists(q)' = TextLists(q)
  BY <1>1 DEF HandledStep, Loses, TextLists
<1>4. Len(texts) \in Nat /\ handled \subseteq 1..Len(texts)
  BY TypesApart DEF HistoryTyped
<1>5. ShownWhereWritten'
  <2>1. \A t \in DOMAIN texts : t \in DOMAIN texts' /\ texts'[t] = texts[t]
    BY <1>2, TextsGrow
  <2> QED  BY <1>1, <2>1, ShownStaysWhereWritten DEF TextInv
<1>6. WritersKnown'
  <2>1. \A r \in ToSet(new) : r.method = "sendMessage" => r.arg.text = Len(texts) + 1
    BY <1>2, SeqFacts
  <2>2. requests[p] \in Seq(Asking)
    BY TurnTypes
  <2>3. PICK s \in Seq(Asking) : s = requests[p]
    BY <2>2
  <2>4. ToSet(s \o new) = ToSet(s) \cup ToSet(new)
    BY ConcatFacts
  <2>5. \A q \in Page : \A r \in ToSet(requests'[q]) :
            r \in ToSet(requests[q]) \/ (r.method = "sendMessage" => r.arg.text \notin handled')
    <3>1. ToSet(requests'[p]) = ToSet(requests[p]) \cup ToSet(new)
      BY <1>2, <2>3, <2>4
    <3>2. Len(texts) + 1 \notin handled' /\ \A q \in Page : q # p => requests'[q] = requests[q]
      BY <1>1, <1>4
    <3> QED  BY <2>1, <3>1, <3>2
  <2>6. \A q \in Page : ToSet(messages'[q]) \subseteq ToSet(messages[q])
    BY <1>1, ShortFacts
  <2> QED  BY <1>1, <1>3, <2>5, <2>6, WritersStay DEF TextInv
<1>7. \A q \in Page : PeersInTurn(q)'
  BY <1>1, <1>3, PeersStay
<1>8. \A q \in Page : q # p => OwnInTurn(q)'
  BY <1>1, <1>3, OwnStays
<1>9. OwnInTurn(p)'
  <2> SUFFICES ASSUME NEW s \in TextLists(p)'
               PROVE  Chain(Marks(OwnShown, s)', Marks(OwnMark, messages'[p]),
                            Marks(OwnMark, outbox[p]), Marks(CallMark, requests'[p]))
    BY <1>1 DEF OwnInTurn, InTurn
  <2>1. s \in TextLists(p) /\ Marks(OwnShown, s)' = Marks(OwnShown, s)
    BY <1>3, ListsTyped, ShownStays
  <2>2. PICK n \in Nat : n = Len(texts) + 1
    BY <1>4
  <2>3. PICK a \in Seq(Num) : a = Marks(OwnShown, s) /\ Below(a, n)
    BY <2>1, <2>2, TurnTypes, TurnsBelow
  <2>4. PICK o \in Seq(Num) : o = Marks(OwnMark, outbox[p]) /\ Below(o, n)
    BY <2>2, TurnTypes, TurnsBelow
  <2>5. PICK r \in Seq(Num) : r = Marks(CallMark, requests[p]) /\ Below(r, n)
    BY <2>2, TurnTypes, TurnsBelow
  <2>6. PICK u \in Seq(Num) : u = Marks(CallMark, new)
    BY MarkTypes, MarksFacts
  <2>7. DOMAIN u = DOMAIN new /\ \A k \in DOMAIN new : u[k] = CallMark[new[k]] /\ new[k] \in Asking
    BY <2>6, SeqFacts DEF Marks
  <2>8. /\ \A k \in DOMAIN u : u[k] \in {-1, n}
        /\ \A j, k \in DOMAIN u : u[j] = n /\ u[k] = n => j = k
    <3>1. CASE \A k \in DOMAIN new : new[k].method # "sendMessage"
      <4>1. \A k \in DOMAIN u : u[k] = -1
        BY <2>7, <3>1 DEF CallMark
      <4> QED  BY <2>2, <4>1
    <3>2. CASE DOMAIN new = {1} /\ new[1].arg.text = Len(texts) + 1 /\ new[1].method = "sendMessage"
      <4>1. u[1] = n
        BY <2>2, <2>7, <3>2 DEF CallMark
      <4> QED  BY <2>7, <3>2, <4>1
    <3> QED  BY <1>2, <3>1, <3>2
  <2>9. PICK m \in Seq(Num) : m = Marks(OwnMark, messages'[p]) /\ Below(m, n)
    <3>1. CASE messages'[p] = messages[p]
      BY <2>2, <3>1, TurnTypes, TurnsBelow
    <3>2. CASE messages'[p] = <<>>
      <4>1. Marks(OwnMark, <<>>) = <<>> /\ <<>> \in Seq(Num) /\ Below(<<>>, n)
        BY NoMarks, ShortFacts DEF Below
      <4> QED  BY <3>2, <4>1
    <3> QED  BY <1>1, <3>1, <3>2
  <2>10. Chain(a, Marks(OwnMark, messages[p]), o, r)
    BY <2>1, <2>3, <2>4, <2>5 DEF TextInv, OwnInTurn, InTurn
  <2>11. Chain(a, m, o, r)
    BY <1>3, <2>9, <2>10, MarkTypes, ChainLost
  <2>12. Chain(a, m, o, r \o u)
    BY <2>3, <2>4, <2>5, <2>8, <2>9, <2>11, ChainCalls
  <2>13. Marks(CallMark, requests'[p]) = r \o u
    <3>1. PICK c \in Seq(Asking) : c = requests[p]
      BY TurnTypes
    <3>2. Marks(CallMark, c \o new) = Marks(CallMark, c) \o Marks(CallMark, new)
      BY MarkTypes, MarksConcat, ZenonT(30)
    <3> QED  BY <1>2, <2>5, <2>6, <3>1, <3>2
  <2> QED  BY <2>1, <2>3, <2>4, <2>9, <2>12, <2>13
<1> QED  BY <1>5, <1>6, <1>7, <1>8, <1>9 DEF TextInv

----------------------------------------------------------------------------
(* What the server does.                                                   *)

LEMMA ServingKeepsTexts ==
    ASSUME TypeInv, TextInv, NEW p \in Page,
           \/ ServeSubscribe(p) \/ ServeUpdateNickname(p) \/ ServeSendMessage(p)
           \/ ServeGetConversations(p) \/ ServeGetUsers(p)
           \/ \E c \in ConvId : ServeAddConversation(p, c)
           \/ ServeLeaveConversation(p) \/ ServeFailing(p)
    PROVE  TextInv'
<1>1. PICK method : \E sends \in Seq(Sent) :
         /\ Served(p, method, sends)
         /\ \A m \in ToSet(sends) : Outcome(p, method, m)
         /\ \A i, j \in DOMAIN sends : HasText(sends[i]) /\ HasText(sends[j]) => i = j
         /\ UNCHANGED <<Unserved, book, texts, handled>>
  BY ServeShape
<1>2. PICK sends \in Seq(Sent) :
         /\ Served(p, method, sends)
         /\ \A m \in ToSet(sends) : Outcome(p, method, m)
         /\ \A i, j \in DOMAIN sends : HasText(sends[i]) /\ HasText(sends[j]) => i = j
         /\ UNCHANGED <<Unserved, book, texts, handled>>
  BY <1>1
<1>3. /\ outbox[p] = <<>> /\ requests[p] # <<>> /\ Request(p).method = method
      /\ Request(p) \in Asking /\ SoundCall(Request(p))
      /\ requests' = [requests EXCEPT ![p] = Tail(requests[p])]
      /\ outbox' = [outbox EXCEPT ![p] = sends]
      /\ ToSet(requests[p]) = {Request(p)} \cup ToSet(Tail(requests[p]))
  BY <1>2, ServedShape
<1>4. /\ UNCHANGED <<messages, tabs, texts, handled>>
      /\ RpcTyped /\ p \in Thread /\ p # Handler /\ Handler \in Thread
      /\ \A q \in Page : q \in Thread
  BY <1>2, RpcOf, ThreadsAreApart DEF Unserved, pages, Thread
<1>5. /\ \A q \in Page : requests'[q] = IF q = p THEN Tail(requests[p]) ELSE requests[q]
      /\ \A t \in Thread : outbox'[t] = IF t = p THEN sends ELSE outbox[t]
  BY <1>3, <1>4 DEF RpcTyped
<1>6. HandledStep /\ \A q \in Page : Loses(q) /\ TextLists(q)' = TextLists(q)
  BY <1>4 DEF HandledStep, Loses, TextLists
<1>7. ShownWhereWritten'
  BY <1>4, ShownStaysWhereWritten DEF TextInv
<1>8. \A q \in Page : PeersInTurn(q)'
  BY <1>4, <1>5, <1>6, PeersStay
<1>9. \A q \in Page : q # p => OwnInTurn(q)'
  BY <1>4, <1>5, <1>6, OwnStays
<1>10. WritersKnown'
  <2>1. method = "sendMessage" => Request(p).arg.text \notin handled
    BY <1>3 DEF TextInv, WritersKnown
  <2>2. \A m \in ToSet(sends) : Wrote(m)' /\ ~IsNote(m, "newMessage")
    BY <1>2, <1>4, <2>1 DEF Wrote, Outcome, IsNote, IsResult, TextOf
  <2>3. \A q \in Page : ToSet(requests'[q]) \subseteq ToSet(requests[q])
    BY <1>3, <1>5
  <2>4. \A t \in Thread : \A m \in ToSet(outbox'[t]) : m \in ToSet(outbox[t]) \/ Wrote(m)'
    BY <1>5, <2>2
  <2>5. \A q \in Page : \A m \in ToSet(outbox'[q]) : m \in ToSet(outbox[q]) \/ ~IsNote(m, "newMessage")
    BY <1>4, <1>5, <2>2
  <2> QED  BY <1>4, <1>6, <2>3, <2>4, <2>5, WritersStay DEF TextInv
<1>11. OwnInTurn(p)'
  <2> SUFFICES ASSUME NEW s \in TextLists(p)'
               PROVE  Chain(Marks(OwnShown, s)', Marks(OwnMark, messages[p]),
                            Marks(OwnMark, outbox'[p]), Marks(CallMark, requests'[p]))
    BY <1>4 DEF OwnInTurn, InTurn
  <2>1. s \in TextLists(p) /\ Marks(OwnShown, s)' = Marks(OwnShown, s)
    BY <1>6, ListsTyped, ShownStays
  <2>2. PICK a \in Seq(Num) : a = Marks(OwnShown, s)
    BY <2>1, TurnTypes
  <2>3. PICK m \in Seq(Num) : m = Marks(OwnMark, messages[p])
    BY TurnTypes
  <2>4. PICK c \in Seq(Asking) : c = requests[p]
    BY TurnTypes
  <2>5. PICK r \in Seq(Num) : r = Marks(CallMark, c)
    BY MarkTypes, MarksFacts
  <2>6. r # <<>> /\ Head(r) = CallMark[Request(p)] /\ Marks(CallMark, Tail(c)) = Tail(r)
    BY <1>3, <2>4, <2>5, MarkTypes, MarksTail DEF Request
  <2>7. PICK u \in Seq(Num) : u = Marks(OwnMark, sends)
    BY MarkTypes, MarksFacts
  <2>8. /\ DOMAIN u = DOMAIN sends
        /\ \A k \in DOMAIN u : u[k] = OwnMark[sends[k]] /\ sends[k] \in Sent /\ sends[k] \in ToSet(sends)
    BY <2>7, SeqFacts DEF Marks
  <2>9. \A x \in Sent : OwnMark[x] = -1 \/ (IsResult(x, "sendMessage") /\ OwnMark[x] = TextOf(x) /\ TextOf(x) \in Nat)
    BY DEF OwnMark
  <2>10. \A x \in ToSet(sends) : IsResult(x, "sendMessage") => TextOf(x) = CallMark[Request(p)]
    BY <1>2, <1>3 DEF Outcome, IsResult, CallMark
  <2>11. \A k \in DOMAIN u : u[k] = -1 \/ (u[k] = Head(r) /\ u[k] \in Nat)
    <3> SUFFICES ASSUME NEW k \in DOMAIN u, u[k] # -1 PROVE u[k] = Head(r) /\ u[k] \in Nat
      OBVIOUS
    <3>1. PICK x \in Sent : x = sends[k] /\ x \in ToSet(sends) /\ u[k] = OwnMark[x]
      BY <2>8
    <3>2. IsResult(x, "sendMessage") /\ u[k] = TextOf(x) /\ TextOf(x) \in Nat
      BY <2>9, <3>1
    <3>3. TextOf(x) = CallMark[Request(p)]
      BY <2>10, <3>1, <3>2
    <3> QED  BY <2>6, <3>2, <3>3
  <2>12. \A j, k \in DOMAIN u : u[j] # -1 /\ u[k] # -1 => j = k
    BY <1>2, <2>8, <2>9 DEF HasText
  <2>13. Marks(OwnMark, outbox[p]) = <<>>
    BY <1>3, NoMarks
  <2>14. Chain(a, m, <<>>, r)
    BY <2>1, <2>2, <2>3, <2>4, <2>5, <2>13 DEF TextInv, OwnInTurn, InTurn
  <2>15. Chain(a, m, u, Tail(r))
    BY <2>6, <2>11, <2>12, <2>14, ChainServed
  <2> QED  BY <1>4, <1>5, <2>1, <2>2, <2>3, <2>4, <2>6, <2>7, <2>15
<1> QED  BY <1>7, <1>8, <1>9, <1>10, <1>11 DEF TextInv

\* The next of an outbox reaches the page, or does not, or is another's.
LEMMA ChainSends ==
    ASSUME NEW g \in [Sent -> Num], NEW a \in Seq(Num), NEW m \in Seq(Sent), NEW o \in Seq(Sent),
           NEW r \in Seq(Num), Chain(a, Marks(g, m), Marks(g, o), r), o # <<>>
    PROVE  /\ Chain(a, Marks(g, Append(m, Head(o))), Marks(g, Tail(o)), r)
           /\ Chain(a, Marks(g, m), Marks(g, Tail(o)), r)
<1>1. PICK v \in Seq(Num) : v = Marks(g, m)
  BY MarksFacts
<1>2. PICK w \in Seq(Num) : w = Marks(g, o)
  BY MarksFacts
<1>3. w # <<>> /\ Marks(g, Tail(o)) = Tail(w) /\ Head(w) = g[Head(o)]
  BY <1>2, MarksTail
<1>4. Head(o) \in Sent
  BY TailFacts
<1>5. Marks(g, Append(m, Head(o))) = Append(v, Head(w))
  BY <1>1, <1>3, <1>4, MarksAppend
<1>6. Chain(a, v, w, r)
  BY <1>1, <1>2
<1>7. Chain(a, Append(v, Head(w)), Tail(w), r) /\ Chain(a, v, Tail(w), r)
  BY <1>3, <1>6, ChainMoves, ChainShrinks
<1> QED  BY <1>1, <1>3, <1>5, <1>7

LEMMA ChainHears ==
    ASSUME NEW g \in [Sent -> Num], NEW a \in Seq(Num), NEW m \in Seq(Sent), NEW o \in Seq(Num),
           NEW r \in Seq(Num), Chain(a, Marks(g, m), o, r), NEW x \in Sent, g[x] = -1
    PROVE  Chain(a, Marks(g, Append(m, x)), o, r)
<1>1. PICK v \in Seq(Num) : v = Marks(g, m)
  BY MarksFacts
<1>2. Marks(g, Append(m, x)) = Append(v, -1)
  BY <1>1, MarksAppend
<1>3. Chain(a, v, o, r)
  BY <1>1
<1> QED  BY <1>2, <1>3, ChainGrows

LEMMA SendKeepsTexts ==
    ASSUME TypeInv, TextInv, NEW t \in Thread, SendNext(t)
    PROVE  TextInv'
<1>0. PICK x : x = Head(outbox[t])
  OBVIOUS
<1>1. /\ outbox[t] # <<>>
      /\ outbox' = [outbox EXCEPT ![t] = Tail(@)]
      /\ \A q \in Page :
            messages'[q] = IF q \in Receivers(t, x) /\ open[q] = "open"
                           THEN Append(messages[q], x) ELSE messages[q]
      /\ \A q \in Page : ToSet(messages'[q]) \subseteq ToSet(messages[q]) \cup {x}
      /\ UNCHANGED <<requests, tabs, texts, handled>>
  BY <1>0, SendShape DEF pages, history, talks
<1>2. /\ outbox[t] \in Seq(Sent) /\ x \in Sent /\ x \in ToSet(outbox[t])
      /\ \A u \in Thread : outbox'[u] = IF u = t THEN Tail(outbox[t]) ELSE outbox[u]
      /\ \A u \in Thread : ToSet(outbox'[u]) \subseteq ToSet(outbox[u])
  BY <1>0, <1>1, OutboxShrinks
<1>3. Handler \in Thread /\ \A q \in Page : q \in Thread /\ q # Handler
  BY ThreadsAreApart DEF Thread
<1>4. HandledStep /\ \A q \in Page : TextLists(q)' = TextLists(q)
  BY <1>1 DEF HandledStep, TextLists
<1>5. ShownWhereWritten'
  BY <1>1, ShownStaysWhereWritten DEF TextInv
<1>6. WritersKnown'
  BY <1>1, <1>2, <1>3, <1>4, WritersStay DEF TextInv
<1>7. ASSUME NEW q \in Page PROVE OwnInTurn(q)'
  <2> SUFFICES ASSUME NEW s \in TextLists(q)'
               PROVE  Chain(Marks(OwnShown, s)', Marks(OwnMark, messages'[q]),
                            Marks(OwnMark, outbox'[q]), Marks(CallMark, requests[q]))
    BY <1>1 DEF OwnInTurn, InTurn
  <2>1. s \in TextLists(q) /\ Marks(OwnShown, s)' = Marks(OwnShown, s)
    BY <1>4, ListsTyped, ShownStays
  <2>2. PICK a \in Seq(Num) : a = Marks(OwnShown, s)
    BY <2>1, TurnTypes
  <2>3. PICK r \in Seq(Num) : r = Marks(CallMark, requests[q])
    BY TurnTypes
  <2>4. PICK m \in Seq(Sent) : m = messages[q]
    BY TurnTypes
  <2>5. PICK o \in Seq(Sent) : o = outbox[q]
    BY TurnTypes
  <2>6. Chain(a, Marks(OwnMark, m), Marks(OwnMark, o), r)
    BY <2>1, <2>2, <2>3, <2>4, <2>5 DEF TextInv, OwnInTurn, InTurn
  <2>7. CASE t = q
    <3>1. /\ Chain(a, Marks(OwnMark, Append(m, Head(o))), Marks(OwnMark, Tail(o)), r)
          /\ Chain(a, Marks(OwnMark, m), Marks(OwnMark, Tail(o)), r)
      BY <1>1, <2>5, <2>6, <2>7, MarkTypes, ChainSends
    <3>2. messages'[q] = Append(m, Head(o)) \/ messages'[q] = m
      BY <1>0, <1>1, <2>4, <2>5, <2>7
    <3>3. outbox'[q] = Tail(o)
      BY <1>2, <2>5, <2>7
    <3> QED  BY <2>1, <2>2, <2>3, <3>1, <3>2, <3>3
  <2>8. CASE t # q
    <3>1. outbox'[q] = o
      BY <1>2, <1>3, <2>5, <2>8
    <3>2. CASE messages'[q] = m
      BY <2>1, <2>2, <2>3, <2>6, <3>1, <3>2
    <3>3. CASE messages'[q] = Append(m, x) /\ x.kind = "note"
      <4>1. OwnMark[x] = -1
        BY <1>2, <3>3 DEF OwnMark, IsResult
      <4>2. PICK w \in Seq(Num) : w = Marks(OwnMark, o)
        BY MarkTypes, MarksFacts
      <4>3. Chain(a, Marks(OwnMark, Append(m, x)), w, r)
        BY <1>2, <2>6, <4>1, <4>2, MarkTypes, ChainHears
      <4> QED  BY <2>1, <2>2, <2>3, <3>1, <3>3, <4>2, <4>3
    <3> QED  BY <1>1, <2>4, <2>8, <3>2, <3>3 DEF Receivers
  <2> QED  BY <2>7, <2>8
<1>8. ASSUME NEW q \in Page PROVE PeersInTurn(q)'
  <2> SUFFICES ASSUME NEW s \in TextLists(q)'
               PROVE  Chain(Marks(PeerShown, s)', Marks(PeerMark, messages'[q]),
                            Marks(PeerMark, outbox'[Handler]), Marks(CallMark, <<>>))
    BY <1>1 DEF PeersInTurn, InTurn
  <2>1. s \in TextLists(q) /\ Marks(PeerShown, s)' = Marks(PeerShown, s)
    BY <1>4, ListsTyped, ShownStays
  <2>2. PICK a \in Seq(Num) : a = Marks(PeerShown, s)
    BY <2>1, TurnTypes
  <2>3. PICK r \in Seq(Num) : r = Marks(CallMark, <<>>)
    BY NoMarks, ShortFacts
  <2>4. PICK m \in Seq(Sent) : m = messages[q]
    BY TurnTypes
  <2>5. PICK o \in Seq(Sent) : o = outbox[Handler]
    BY TurnTypes
  <2>6. Chain(a, Marks(PeerMark, m), Marks(PeerMark, o), r)
    BY <2>1, <2>2, <2>3, <2>4, <2>5 DEF TextInv, PeersInTurn, InTurn
  <2>7. CASE t = Handler
    <3>1. /\ Chain(a, Marks(PeerMark, Append(m, Head(o))), Marks(PeerMark, Tail(o)), r)
          /\ Chain(a, Marks(PeerMark, m), Marks(PeerMark, Tail(o)), r)
      BY <1>1, <2>5, <2>6, <2>7, MarkTypes, ChainSends
    <3>2. messages'[q] = Append(m, Head(o)) \/ messages'[q] = m
      BY <1>0, <1>1, <2>4, <2>5, <2>7
    <3>3. outbox'[Handler] = Tail(o)
      BY <1>2, <2>5, <2>7
    <3> QED  BY <2>1, <2>2, <2>3, <3>1, <3>2, <3>3
  <2>8. CASE t # Handler
    <3>1. outbox'[Handler] = o
      BY <1>2, <1>3, <2>5, <2>8
    <3>2. CASE messages'[q] = m
      BY <2>1, <2>2, <2>3, <2>6, <3>1, <3>2
    <3>3. CASE messages'[q] = Append(m, x)
      <4>1. PeerMark[x] = -1
        <5>1. t \in Page
          BY <2>8 DEF Thread
        <5>2. ~IsNote(x, "newMessage")
          BY <1>2, <5>1 DEF TextInv, WritersKnown
        <5> QED  BY <1>2, <5>2 DEF PeerMark
      <4>2. PICK w \in Seq(Num) : w = Marks(PeerMark, o)
        BY MarkTypes, MarksFacts
      <4>3. Chain(a, Marks(PeerMark, Append(m, x)), w, r)
        BY <1>2, <2>6, <4>1, <4>2, MarkTypes, ChainHears
      <4> QED  BY <2>1, <2>2, <2>3, <3>1, <3>3, <4>2, <4>3
    <3> QED  BY <1>1, <2>4, <3>2, <3>3
  <2> QED  BY <2>7, <2>8
<1> QED  BY <1>5, <1>6, <1>7, <1>8 DEF TextInv

LEMMA PeersKeepTexts ==
    ASSUME TypeInv, TextInv, NEW b \in Peer,
           \/ \E x \in AnyNick : HandleNickChange(b, x)
           \/ \E c \in Talk : HandleText(b, c)
           \/ HandleLeave(b)
           \/ \E c \in ConvId : HandleInvite(b, c) \/ HandleLeaveConversation(b, c)
    PROVE  TextInv'
<1>1. PICK sends \in Seq(Sent) :
         /\ outbox' = [outbox EXCEPT ![Handler] = sends] /\ outbox[Handler] = <<>>
         /\ UNCHANGED Unmoved
         /\ \A m \in ToSet(sends) : m.kind # "result"
         /\ \A i, j \in DOMAIN sends : HasText(sends[i]) /\ HasText(sends[j]) => i = j
         /\ \/ UNCHANGED <<texts, handled>> /\ \A m \in ToSet(sends) : ~HasText(m)
            \/ \E t, c : /\ c \in Talk /\ Arrives(t, c)
                         /\ \A m \in ToSet(sends) : HasText(m) => TextOf(m) = t
                         /\ \E m \in ToSet(sends) : HasText(m)
  BY HandleShape
<1>2. UNCHANGED <<requests, messages, tabs>>
  BY <1>1 DEF Unmoved, wire, pages
<1>3. PICK n \in Nat : n = Len(texts) + 1
  BY TypesApart DEF HistoryTyped
<1>4. \/ UNCHANGED <<texts, handled>> /\ \A m \in ToSet(sends) : ~HasText(m)
      \/ /\ \E c \in Talk \cup {Undefined} : texts' = Append(texts, c)
         /\ handled' = handled \cup {n}
         /\ \A m \in ToSet(sends) : HasText(m) => TextOf(m) = n
  BY <1>1, <1>3 DEF Arrives
<1>5. /\ \A u \in Thread : outbox'[u] = IF u = Handler THEN sends ELSE outbox[u]
      /\ Handler \in Thread /\ \A q \in Page : q \in Thread /\ q # Handler
  BY <1>1, RpcOf, ThreadsAreApart DEF RpcTyped, Thread
<1>6. HandledStep /\ \A q \in Page : Loses(q) /\ TextLists(q)' = TextLists(q)
  BY <1>2, <1>3, <1>4 DEF HandledStep, Loses, TextLists
<1>7. ShownWhereWritten'
  <2>1. \A t \in DOMAIN texts : t \in DOMAIN texts' /\ texts'[t] = texts[t]
    BY <1>4, TextsGrow
  <2> QED  BY <1>2, <2>1, ShownStaysWhereWritten DEF TextInv
<1>8. WritersKnown'
  <2>1. \A m \in ToSet(sends) : Wrote(m)'
    BY <1>1, <1>4 DEF Wrote, HasText, IsNote, IsResult, TextOf
  <2>2. \A t \in Thread : \A m \in ToSet(outbox'[t]) : m \in ToSet(outbox[t]) \/ Wrote(m)'
    BY <1>5, <2>1
  <2> QED  BY <1>2, <1>5, <1>6, <2>2, WritersStay DEF TextInv
<1>9. \A q \in Page : OwnInTurn(q)'
  BY <1>2, <1>5, <1>6, OwnStays
<1>10. ASSUME NEW q \in Page PROVE PeersInTurn(q)'
  <2> SUFFICES ASSUME NEW s \in TextLists(q)'
               PROVE  Chain(Marks(PeerShown, s)', Marks(PeerMark, messages[q]),
                            Marks(PeerMark, outbox'[Handler]), Marks(CallMark, <<>>))
    BY <1>2 DEF PeersInTurn, InTurn
  <2>1. s \in TextLists(q) /\ Marks(PeerShown, s)' = Marks(PeerShown, s)
    BY <1>6, ListsTyped, ShownStays
  <2>2. PICK a \in Seq(Num) : a = Marks(PeerShown, s) /\ Below(a, n)
    BY <1>3, <2>1, TurnTypes, TurnsBelow
  <2>3. PICK m \in Seq(Num) : m = Marks(PeerMark, messages[q]) /\ Below(m, n)
    BY <1>3, TurnTypes, TurnsBelow
  <2>4. Marks(CallMark, <<>>) = <<>> /\ Marks(PeerMark, outbox[Handler]) = <<>>
    BY <1>1, NoMarks
  <2>5. Chain(a, m, <<>>, <<>>)
    BY <2>1, <2>2, <2>3, <2>4 DEF TextInv, PeersInTurn, InTurn
  <2>6. PICK u \in Seq(Num) : u = Marks(PeerMark, sends)
    BY MarkTypes, MarksFacts
  <2>7. /\ DOMAIN u = DOMAIN sends
        /\ \A k \in DOMAIN u : u[k] = PeerMark[sends[k]] /\ sends[k] \in Sent /\ sends[k] \in ToSet(sends)
    BY <2>6, SeqFacts DEF Marks
  <2>8. \A x \in Sent : PeerMark[x] = -1 \/ (HasText(x) /\ PeerMark[x] = TextOf(x))
    BY DEF PeerMark, HasText
  <2>9. \A k \in DOMAIN u : u[k] \in {-1, n}
    <3> SUFFICES ASSUME NEW k \in DOMAIN u, u[k] # -1 PROVE u[k] = n
      OBVIOUS
    <3>1. PICK x \in Sent : x = sends[k] /\ x \in ToSet(sends) /\ u[k] = PeerMark[x]
      BY <2>7
    <3>2. HasText(x) /\ u[k] = TextOf(x)
      BY <2>8, <3>1
    <3> QED  BY <1>4, <3>1, <3>2
  <2>10. \A j, k \in DOMAIN u : u[j] = n /\ u[k] = n => j = k
    BY <1>1, <1>3, <2>7, <2>8
  <2>11. Chain(a, m, u, <<>>)
    BY <2>2, <2>3, <2>5, <2>9, <2>10, ChainNews
  <2> QED  BY <1>5, <2>1, <2>2, <2>3, <2>4, <2>6, <2>11
<1> QED  BY <1>7, <1>8, <1>9, <1>10 DEF TextInv

LEMMA DropKeepsTexts ==
    ASSUME TypeInv, TextInv, DropTalks
    PROVE  TextInv'
<1>1. /\ outbox[Handler] # <<>>
      /\ outbox' = [outbox EXCEPT ![Handler] = Tail(@)]
      /\ UNCHANGED <<requests, messages, tabs, texts, handled>>
  BY DEF DropTalks, wire, pages, history, talks
<1>2. Handler \in Thread /\ \A q \in Page : q \in Thread /\ q # Handler
  BY ThreadsAreApart DEF Thread
<1>3. /\ \A u \in Thread : outbox'[u] = IF u = Handler THEN Tail(outbox[Handler]) ELSE outbox[u]
      /\ \A u \in Thread : ToSet(outbox'[u]) \subseteq ToSet(outbox[u])
  BY <1>1, <1>2, OutboxShrinks
<1>4. HandledStep /\ \A q \in Page : Loses(q) /\ TextLists(q)' = TextLists(q)
  BY <1>1 DEF HandledStep, Loses, TextLists
<1>5. ShownWhereWritten'
  BY <1>1, ShownStaysWhereWritten DEF TextInv
<1>6. WritersKnown'
  BY <1>1, <1>2, <1>3, <1>4, WritersStay DEF TextInv
<1>7. \A q \in Page : OwnInTurn(q)'
  BY <1>1, <1>2, <1>3, <1>4, OwnStays
<1>8. ASSUME NEW q \in Page PROVE PeersInTurn(q)'
  <2> SUFFICES ASSUME NEW s \in TextLists(q)'
               PROVE  Chain(Marks(PeerShown, s)', Marks(PeerMark, messages[q]),
                            Marks(PeerMark, outbox'[Handler]), Marks(CallMark, <<>>))
    BY <1>1 DEF PeersInTurn, InTurn
  <2>1. s \in TextLists(q) /\ Marks(PeerShown, s)' = Marks(PeerShown, s)
    BY <1>4, ListsTyped, ShownStays
  <2>2. PICK a \in Seq(Num) : a = Marks(PeerShown, s)
    BY <2>1, TurnTypes
  <2>3. PICK r \in Seq(Num) : r = Marks(CallMark, <<>>)
    BY NoMarks, ShortFacts
  <2>4. PICK m \in Seq(Sent) : m = messages[q]
    BY TurnTypes
  <2>5. PICK o \in Seq(Sent) : o = outbox[Handler]
    BY TurnTypes
  <2>6. Chain(a, Marks(PeerMark, m), Marks(PeerMark, o), r)
    BY <2>1, <2>2, <2>3, <2>4, <2>5 DEF TextInv, PeersInTurn, InTurn
  <2>7. Chain(a, Marks(PeerMark, m), Marks(PeerMark, Tail(o)), r)
    BY <1>1, <2>5, <2>6, MarkTypes, ChainSends
  <2> QED  BY <1>2, <1>3, <2>1, <2>2, <2>3, <2>4, <2>5, <2>7
<1> QED  BY <1>5, <1>6, <1>7, <1>8 DEF TextInv

----------------------------------------------------------------------------
(* What a page takes.                                                      *)

\* No text of it.
LEMMA TakeKeepsTexts ==
    ASSUME TypeInv, Inv, TextInv, NEW p \in Page, NEW kind, Take(p, kind), UNCHANGED Untaken,
           \A q \in Page : q # p => tabs'[q] = tabs[q],
           \A y \in ToSet(tabs'[p]) : y \in ToSet(tabs[p]) \/ y.texts = <<>>
    PROVE  TextInv'
<1>1. /\ messages[p] # <<>>
      /\ \A q \in Page : messages'[q] = IF q = p THEN Tail(messages[p]) ELSE messages[q]
      /\ ToSet(messages[p]) = {Head(messages[p])} \cup ToSet(Tail(messages[p]))
  BY TakeShape
<1>2. UNCHANGED <<requests, outbox, texts, handled>>
  BY DEF Untaken, server, talks
<1>3. /\ HandledStep
      /\ \A q \in Page : Loses(q) /\ ToSet(messages'[q]) \subseteq ToSet(messages[q])
  BY <1>1, <1>2 DEF HandledStep, Loses
<1>4. \A q \in Page : TextLists(q)' \subseteq TextLists(q)
  BY DEF TextLists
<1>5. ShownWhereWritten'
  <2>1. ToSet(<<>>) = {}
    BY ShortFacts
  <2>2. \A q \in Page : \A y \in ToSet(tabs'[q]) : y \in ToSet(tabs[q]) \/ y.texts = <<>>
    OBVIOUS
  <2> QED  BY <1>2, <2>1, <2>2, ShownStaysWhereWritten DEF TextInv
<1>6. WritersKnown'
  BY <1>2, <1>3, WritersStay DEF TextInv
<1>7. \A q \in Page : OwnInTurn(q)' /\ PeersInTurn(q)'
  BY <1>2, <1>3, <1>4, OwnStays, PeersStay
<1> QED  BY <1>5, <1>6, <1>7 DEF TextInv

\* A text, and the tabs of its conversation get it.
LEMMA ChainShows ==
    ASSUME NEW f \in [Nat -> Num], NEW g \in [Sent -> Num], NEW s \in Seq(Nat), NEW m \in Seq(Sent),
           NEW o \in Seq(Num), NEW r \in Seq(Num), Chain(Marks(f, s), Marks(g, m), o, r), m # <<>>
    PROVE  /\ Chain(Marks(f, s), Marks(g, Tail(m)), o, r)
           /\ \A t \in Nat : f[t] = g[Head(m)] => Chain(Marks(f, Append(s, t)), Marks(g, Tail(m)), o, r)
<1>1. PICK a \in Seq(Num) : a = Marks(f, s)
  BY MarksFacts
<1>2. PICK v \in Seq(Num) : v = Marks(g, m)
  BY MarksFacts
<1>3. v # <<>> /\ Head(v) = g[Head(m)] /\ Marks(g, Tail(m)) = Tail(v)
  BY <1>2, MarksTail
<1>4. Chain(a, v, o, r)
  BY <1>1, <1>2
<1>5. Chain(a, Tail(v), o, r) /\ Chain(Append(a, Head(v)), Tail(v), o, r)
  BY <1>3, <1>4, ChainShrinks, ChainMoves
<1>6. \A t \in Nat : Marks(f, Append(s, t)) = Append(a, f[t])
  BY <1>1, MarksAppend
<1> QED  BY <1>1, <1>3, <1>5, <1>6

LEMMA ShowingKeepsTexts ==
    ASSUME TypeInv, Inv, TextInv, NEW p \in Page, TakeOwnText(p) \/ TakeNewMessage(p)
    PROVE  TextInv'
<1>1. PICK kind, f : Takes(p, kind, f)
  BY TextShown
<1>2. PICK x : x = Head(messages[p])
  OBVIOUS
<1>3. PICK c, t : c = TheItem(p).conv /\ t = TheItem(p).text
  OBVIOUS
<1>4. /\ HasText(x) /\ AddText(p, c, t) /\ t \in 1..Len(texts) /\ texts[t] = c /\ TextOf(x) = t
      /\ t \in Nat /\ Len(texts) \in Nat
  <2>1. HasText(x) /\ AddText(p, c, t) /\ t \in 1..Len(texts) /\ texts[t] = c /\ TextOf(x) = t
    BY <1>2, <1>3, TextShown DEF TextOf
  <2>2. Len(texts) \in Nat
    BY TypesApart DEF HistoryTyped
  <2> QED  BY <2>1, <2>2
<1>5. /\ messages[p] # <<>> /\ x \in Sent /\ x \in ToSet(messages[p])
      /\ \A q \in Page : messages'[q] = IF q = p THEN Tail(messages[p]) ELSE messages[q]
      /\ ToSet(messages[p]) = {x} \cup ToSet(Tail(messages[p]))
  BY <1>1, <1>2, Taken
<1>6. /\ \A q \in Page : q # p => tabs'[q] = tabs[q]
      /\ tabs'[p] \in Seq(TabType(Len(texts))) /\ tabs[p] \in Seq(TabType(Len(texts)))
      /\ DOMAIN tabs'[p] = DOMAIN tabs[p]
      /\ \A k \in DOMAIN tabs[p] :
            /\ tabs'[p][k].conv = tabs[p][k].conv
            /\ tabs'[p][k].texts = IF tabs[p][k].conv = c THEN Append(tabs[p][k].texts, t)
                                   ELSE tabs[p][k].texts
  <2>1. tabs' \in [Page -> Seq(TabType(Len(texts)))]
    BY <1>4, AddTextShape
  <2>2. tabs'[p] \in Seq(TabType(Len(texts))) /\ tabs[p] \in Seq(TabType(Len(texts)))
    BY <2>1, TabFacts
  <2> QED  BY <1>4, <2>2, AddTextShape
<1>7. UNCHANGED <<requests, outbox, texts, handled>>
  BY <1>1 DEF Takes, Untaken, server, talks
<1>8. /\ HandledStep
      /\ \A q \in Page : Loses(q) /\ ToSet(messages'[q]) \subseteq ToSet(messages[q])
  BY <1>5, <1>7 DEF HandledStep, Loses
<1>9. WritersKnown'
  BY <1>7, <1>8, WritersStay DEF TextInv
<1>10. \A y \in ToSet(tabs'[p]) :
          \/ \E z \in ToSet(tabs[p]) : y.conv = z.conv /\ y.texts = z.texts
          \/ \E z \in ToSet(tabs[p]) : y.conv = z.conv /\ y.conv = c /\ y.texts = Append(z.texts, t)
  BY <1>6 DEF ToSet
<1>11. ShownWhereWritten'
  <2>1. ASSUME NEW y \in ToSet(tabs'[p]), NEW u \in ToSet(y.texts) PROVE texts[u] = y.conv
    <3>1. CASE \E z \in ToSet(tabs[p]) : y.conv = z.conv /\ y.texts = z.texts
      BY <2>1, <3>1 DEF TextInv, ShownWhereWritten
    <3>2. CASE \E z \in ToSet(tabs[p]) : y.conv = z.conv /\ y.conv = c /\ y.texts = Append(z.texts, t)
      <4>1. PICK z \in ToSet(tabs[p]) : y.conv = z.conv /\ y.conv = c /\ y.texts = Append(z.texts, t)
        BY <3>2
      <4>2. PICK s \in Seq(Nat) : s = z.texts
        BY ListsTyped DEF TextLists
      <4>3. ToSet(Append(s, t)) = ToSet(s) \cup {t}
        BY <1>4, AppendFacts
      <4> QED  BY <1>4, <2>1, <4>1, <4>2, <4>3 DEF TextInv, ShownWhereWritten
    <3> QED  BY <1>10, <3>1, <3>2
  <2>2. ASSUME NEW q \in Page, q # p, NEW y \in ToSet(tabs'[q]), NEW u \in ToSet(y.texts)
        PROVE  texts[u] = y.conv
    BY <1>6, <2>2 DEF TextInv, ShownWhereWritten
  <2> QED  BY <1>7, <2>1, <2>2 DEF ShownWhereWritten
<1>12. \A q \in Page : q # p => OwnInTurn(q)' /\ PeersInTurn(q)'
  <2>1. \A q \in Page : q # p => TextLists(q)' = TextLists(q)
    BY <1>6 DEF TextLists
  <2> QED  BY <1>7, <1>8, <2>1, OwnStays, PeersStay
<1>13. \A s \in TextLists(p)' :
          s \in TextLists(p) \/ \E z \in TextLists(p) : s = Append(z, t)
  BY <1>10 DEF TextLists
<1>14. OwnShown[t] = OwnMark[x] /\ PeerShown[t] = PeerMark[x]
  <2>1. Wrote(x)
    BY <1>5 DEF TextInv, WritersKnown
  <2>2. CASE IsNote(x, "newMessage")
    BY <1>4, <1>5, <2>1, <2>2 DEF Wrote, OwnShown, PeerShown, OwnMark, PeerMark, IsNote, IsResult
  <2>3. CASE IsResult(x, "sendMessage")
    BY <1>4, <1>5, <2>1, <2>3 DEF Wrote, OwnShown, PeerShown, OwnMark, PeerMark, IsNote, IsResult
  <2> QED  BY <1>4, <2>2, <2>3 DEF HasText
<1>15. ASSUME NEW s \in TextLists(p)'
       PROVE  s \in Seq(Nat) /\ ToSet(s) \subseteq 1..Len(texts)
  <2>1. CASE s \in TextLists(p)
    BY <2>1, ListsTyped
  <2>2. CASE \E z \in TextLists(p) : s = Append(z, t)
    <3>1. PICK z \in TextLists(p) : s = Append(z, t)
      BY <2>2
    <3>2. PICK w \in Seq(Nat) : w = z /\ ToSet(w) \subseteq 1..Len(texts)
      BY ListsTyped
    <3>3. Append(w, t) \in Seq(Nat) /\ ToSet(Append(w, t)) = ToSet(w) \cup {t}
      BY <1>4, AppendFacts
    <3> QED  BY <1>4, <3>1, <3>2, <3>3
  <2> QED  BY <1>13, <2>1, <2>2
<1>16. PICK m \in Seq(Sent) : m = messages[p] /\ messages'[p] = Tail(m) /\ m # <<>> /\ x = Head(m)
  BY <1>2, <1>5, TurnTypes
<1>17. OwnInTurn(p)'
  <2> SUFFICES ASSUME NEW s \in TextLists(p)'
               PROVE  Chain(Marks(OwnShown, s)', Marks(OwnMark, messages'[p]),
                            Marks(OwnMark, outbox[p]), Marks(CallMark, requests[p]))
    BY <1>7 DEF OwnInTurn, InTurn
  <2>1. Marks(OwnShown, s)' = Marks(OwnShown, s)
    BY <1>8, <1>15, ShownStays
  <2>2. PICK o \in Seq(Num) : o = Marks(OwnMark, outbox[p])
    BY TurnTypes
  <2>3. PICK r \in Seq(Num) : r = Marks(CallMark, requests[p])
    BY TurnTypes
  <2>4. ASSUME NEW z \in TextLists(p)
        PROVE  /\ Chain(Marks(OwnShown, z), Marks(OwnMark, Tail(m)), o, r)
               /\ Chain(Marks(OwnShown, Append(z, t)), Marks(OwnMark, Tail(m)), o, r)
    <3>1. z \in Seq(Nat)
      BY ListsTyped
    <3>2. Chain(Marks(OwnShown, z), Marks(OwnMark, m), o, r)
      BY <1>16, <2>2, <2>3 DEF TextInv, OwnInTurn, InTurn
    <3> QED  BY <1>4, <1>14, <1>16, <3>1, <3>2, MarkTypes, ChainShows
  <2> QED  BY <1>13, <1>16, <2>1, <2>2, <2>3, <2>4
<1>18. PeersInTurn(p)'
  <2> SUFFICES ASSUME NEW s \in TextLists(p)'
               PROVE  Chain(Marks(PeerShown, s)', Marks(PeerMark, messages'[p]),
                            Marks(PeerMark, outbox[Handler]), Marks(CallMark, <<>>))
    BY <1>7 DEF PeersInTurn, InTurn
  <2>1. Marks(PeerShown, s)' = Marks(PeerShown, s)
    BY <1>8, <1>15, ShownStays
  <2>2. PICK o \in Seq(Num) : o = Marks(PeerMark, outbox[Handler])
    BY TurnTypes
  <2>3. PICK r \in Seq(Num) : r = Marks(CallMark, <<>>)
    BY NoMarks, ShortFacts
  <2>4. ASSUME NEW z \in TextLists(p)
        PROVE  /\ Chain(Marks(PeerShown, z), Marks(PeerMark, Tail(m)), o, r)
               /\ Chain(Marks(PeerShown, Append(z, t)), Marks(PeerMark, Tail(m)), o, r)
    <3>1. z \in Seq(Nat)
      BY ListsTyped
    <3>2. Chain(Marks(PeerShown, z), Marks(PeerMark, m), o, r)
      BY <1>16, <2>2, <2>3 DEF TextInv, PeersInTurn, InTurn
    <3> QED  BY <1>4, <1>14, <1>16, <3>1, <3>2, MarkTypes, ChainShows
  <2> QED  BY <1>13, <1>16, <2>1, <2>2, <2>3, <2>4
<1> QED  BY <1>9, <1>11, <1>12, <1>17, <1>18 DEF TextInv

LEMMA TakingKeepsTexts ==
    ASSUME TypeInv, Inv, TextInv, NEW p \in Page,
           \/ TakeSilently(p) \/ TakeNickname(p) \/ TakeOwnText(p) \/ TakeConversations(p)
           \/ TakeUsers(p) \/ TakeError(p) \/ TakeNewConversation(p) \/ TakeNewMessage(p)
           \/ TakeLeaveConversation(p) \/ TakeNewUser(p) \/ TakeRemoveUser(p)
    PROVE  TextInv'
<1>1. CASE TakeConversations(p) \/ TakeNewConversation(p)
  <2>1. PICK kind, f : Takes(p, kind, f)
    BY <1>1, TalksShown
  <2>2. /\ \A q \in Page : q # p => tabs'[q] = tabs[q]
        /\ \A y \in ToSet(tabs'[p]) : y \in ToSet(tabs[p]) \/ y.texts = <<>>
    BY <1>1, TalksShown, AddTabsShape
  <2> QED  BY <2>1, <2>2, TakeKeepsTexts DEF Takes
<1>2. CASE TakeLeaveConversation(p)
  <2>1. /\ Takes(p, "note", "leaveConversation") /\ RemoveTabs(p, TheItem(p).conv)
    BY <1>2, TakesEither DEF TakeLeaveConversation
  <2>2. PICK x : x = TheItem(p).conv
    OBVIOUS
  <2>3. /\ \A q \in Page : q # p => tabs'[q] = tabs[q]
        /\ ToSet(tabs'[p]) \subseteq ToSet(tabs[p])
    BY <2>1, <2>2, RemoveTabsShape
  <2> QED  BY <2>1, <2>3, TakeKeepsTexts DEF Takes
<1>3. ASSUME NEW kind, Take(p, kind), UNCHANGED Untaken, UNCHANGED tabs
      PROVE  TextInv'
  BY <1>3, TakeKeepsTexts
<1>4. CASE TakeSilently(p) \/ TakeNickname(p) \/ TakeUsers(p) \/ TakeNewUser(p) \/ TakeRemoveUser(p)
  <2>1. PICK f : TakeResult(p, f) \/ TakeNote(p, f)
    BY <1>4 DEF TakeSilently, TakeNickname, TakeUsers, TakeNewUser, TakeRemoveUser
  <2>2. PICK kind : Takes(p, kind, f)
    BY <2>1, TakesEither
  <2>3. UNCHANGED tabs
    BY <1>4 DEF TakeSilently, TakeNickname, TakeUsers, TakeNewUser, TakeRemoveUser, pages
  <2> QED  BY <1>3, <2>2, <2>3 DEF Takes
<1>5. CASE TakeError(p)
  BY <1>3, <1>5 DEF TakeError, pages
<1> QED  BY <1>1, <1>2, <1>4, <1>5, ShowingKeepsTexts

LEMMA NextTexts == TypeInv /\ Inv /\ TextInv /\ [Next]_vars => TextInv'
<1> SUFFICES ASSUME TypeInv, Inv, TextInv, [Next]_vars PROVE TextInv'
  OBVIOUS
<1>1. CASE UNCHANGED vars
  <2>1. UNCHANGED <<requests, messages, outbox, tabs, texts, handled>>
    BY <1>1 DEF vars, rpc, client, wire, server, pages, history, talks
  <2>2. HandledStep /\ \A q \in Page : Loses(q) /\ TextLists(q)' = TextLists(q)
    BY <2>1 DEF HandledStep, Loses, TextLists
  <2>3. \A q \in Page : OwnInTurn(q)' /\ PeersInTurn(q)'
    BY <2>1, <2>2, OwnStays, PeersStay, ThreadsAreApart
  <2>4. WritersKnown' /\ ShownWhereWritten'
    BY <2>1, <2>2, WritersStay, ShownStaysWhereWritten DEF TextInv
  <2> QED  BY <2>3, <2>4 DEF TextInv
<1>2. ASSUME NEW p \in Page,
             \/ Connect(p) \/ ClosePage(p)
             \/ \E x \in OwnNames : ChooseNickname(p, x)
             \/ \E k \in DOMAIN drawn[p] : StartConversation(p, k)
             \/ \E k \in DOMAIN tabs[p] : WriteText(p, k) \/ CloseTab(p, k)
      PROVE  TextInv'
  BY <1>2, ActKeepsTexts
<1>3. ASSUME NEW p \in Page,
             \/ ServeSubscribe(p) \/ ServeUpdateNickname(p) \/ ServeSendMessage(p)
             \/ ServeGetConversations(p) \/ ServeGetUsers(p)
             \/ \E c \in ConvId : ServeAddConversation(p, c)
             \/ ServeLeaveConversation(p) \/ ServeFailing(p)
      PROVE  TextInv'
  BY <1>3, ServingKeepsTexts
<1>4. ASSUME NEW a \in Peer,
             \/ \E x \in AnyNick : HandleNickChange(a, x)
             \/ \E c \in Talk : HandleText(a, c)
             \/ HandleLeave(a)
             \/ \E c \in ConvId : HandleInvite(a, c) \/ HandleLeaveConversation(a, c)
      PROVE  TextInv'
  BY <1>4, PeersKeepTexts
<1>5. ASSUME NEW t \in Thread, SendNext(t) PROVE TextInv'
  BY <1>5, SendKeepsTexts
<1> QED  BY <1>1, <1>2, <1>3, <1>4, <1>5, DropKeepsTexts, TakingKeepsTexts DEF Next

\* Numbers that ascend do so among the elements they stand for.
LEMMA MarksAscend ==
    ASSUME NEW f \in [Nat -> Num], NEW s \in Seq(Nat), Ascending(Marks(f, s))
    PROVE  \A i, j \in DOMAIN s : i < j /\ f[s[i]] = s[i] /\ f[s[j]] = s[j] => s[i] < s[j]
<1> SUFFICES ASSUME NEW i \in DOMAIN s, NEW j \in DOMAIN s, i < j, f[s[i]] = s[i], f[s[j]] = s[j]
             PROVE  s[i] < s[j]
  OBVIOUS
<1>1. i \in 1..j - 1 /\ s[i] \in Nat /\ s[j] \in Nat
  BY SeqFacts
<1>2. Marks(f, s)[j] = s[j] /\ Marks(f, s)[i] = s[i] /\ j \in DOMAIN Marks(f, s)
  BY DEF Marks
<1> QED  BY <1>1, <1>2 DEF Ascending

\* A tab shows only texts of its conversation, none twice, on any page:
\* results and notifications come to the page on their own ways, from a thread
\* of the page and from that of the peers, and each text comes on one of them.
THEOREM TextsAreOwn == Spec => []TextsInOwnTab
<1>1. TypeInv /\ TextInv => TextsInOwnTab
  <2> SUFFICES ASSUME TypeInv, TextInv, NEW p \in Page, NEW k \in DOMAIN tabs[p]
               PROVE  /\ IsInjective(tabs[p][k].texts)
                      /\ \A t \in ToSet(tabs[p][k].texts) : texts[t] = tabs[p][k].conv
    BY DEF TextsInOwnTab
  <2>1. tabs[p][k] \in ToSet(tabs[p])
    BY DEF ToSet
  <2>2. PICK s \in Seq(Nat) : s = tabs[p][k].texts /\ s \in TextLists(p)
    BY <2>1, ListsTyped DEF TextLists
  <2>3. /\ Ascending(Marks(OwnShown, s)) /\ Ascending(Marks(PeerShown, s))
    BY <2>2 DEF TextInv, OwnInTurn, PeersInTurn, InTurn, Chain
  <2>4. ASSUME NEW i \in DOMAIN s, NEW j \in DOMAIN s, i < j PROVE s[i] # s[j]
    <3>1. s[i] \in Nat /\ s[j] \in Nat
      BY SeqFacts
    <3>2. CASE s[i] \in handled /\ s[j] \in handled
      <4>1. PeerShown[s[i]] = s[i] /\ PeerShown[s[j]] = s[j]
        BY <3>1, <3>2 DEF PeerShown
      <4>2. s[i] < s[j]
        BY <2>3, <2>4, <4>1, MarkTypes, MarksAscend
      <4> QED  BY <3>1, <4>2
    <3>3. CASE s[i] \notin handled /\ s[j] \notin handled
      <4>1. OwnShown[s[i]] = s[i] /\ OwnShown[s[j]] = s[j]
        BY <3>1, <3>3 DEF OwnShown
      <4>2. s[i] < s[j]
        BY <2>3, <2>4, <4>1, MarkTypes, MarksAscend
      <4> QED  BY <3>1, <4>2
    <3> QED  BY <3>2, <3>3
  <2>5. IsInjective(s)
    <3>1. \A i \in DOMAIN s : i \in Nat
      BY SeqFacts
    <3>2. \A i, j \in DOMAIN s : s[i] = s[j] => i = j
      BY <2>4, <3>1
    <3> QED  BY <3>2 DEF IsInjective
  <2> QED  BY <2>1, <2>2, <2>5 DEF TextInv, ShownWhereWritten
<1> QED  BY <1>1, InitTypes, NextTypes, InitTexts, NextTexts, InvInit, InvStep, PTL DEF Spec

----------------------------------------------------------------------------
(* What peers write reaches a page that has got any of it.                 *)

Brings(m, t) == IsNote(m, "newMessage") /\ TextOf(m) = t
Announced(t) == \E m \in ToSet(outbox[Handler]) : Brings(m, t)
Comes(p, t) == \E m \in ToSet(messages[p]) : Brings(m, t)
IsTold(p, t) == p \in subscribers["newMessage"] /\ Announced(t)
Reaches(p, t) == Comes(p, t) \/ IsTold(p, t)
Shown(y, t) == t \in ToSet(y.texts)

\* The text that is announced is the last.
LastAnnounced == \A t, u \in handled : Announced(u) => t <= u

NotYetOpen == \A p \in Page : open[p] = "connecting" => messages[p] = <<>> /\ tabs[p] = <<>>

\* After a text that comes all come, and after one that a tab shows all of the
\* conversation.
NoneMissing(p) ==
    \A u \in handled :
        /\ Comes(p, u) =>
              /\ p \in subscribers["newMessage"]
              /\ \A t \in handled : u < t => Reaches(p, t)
        /\ \A y \in ToSet(tabs[p]) : Shown(y, u) =>
              /\ p \in subscribers["newMessage"]
              /\ \A t \in handled : u < t /\ texts[t] = y.conv => Shown(y, t) \/ Reaches(p, t)

MissInv ==
    /\ LastAnnounced
    /\ NotYetOpen
    /\ \A p \in Page : open[p] = "open" => NoneMissing(p)

LEMMA InitMiss == Init => MissInv
<1> SUFFICES ASSUME Init PROVE MissInv
  OBVIOUS
<1>1. handled = {} /\ open = [p \in Page |-> "connecting"] /\ messages = [p \in Page |-> <<>>]
      /\ tabs = [p \in Page |-> <<>>]
  BY DEF Init, RpcInit
<1> QED  BY <1>1 DEF MissInv, LastAnnounced, NotYetOpen, NoneMissing

\* Nothing that comes or is announced is lost, but by what a page takes.
LEMMA NoneMissingStays ==
    ASSUME TypeInv, LastAnnounced, NEW p \in Page, NoneMissing(p), UNCHANGED handled,
           \A t \in handled : texts'[t] = texts[t],
           subscribers["newMessage"] \subseteq subscribers'["newMessage"],
           \A t \in handled : Comes(p, t)' => Comes(p, t) \/ IsTold(p, t),
           \A t \in handled : Reaches(p, t) => Reaches(p, t)',
           \A y \in ToSet(tabs'[p]) :
              \/ y.texts = <<>>
              \/ \E z \in ToSet(tabs[p]) :
                    y.conv = z.conv /\ \A t \in handled : Shown(y, t) <=> Shown(z, t)
    PROVE  NoneMissing(p)'
<1> SUFFICES ASSUME NEW u \in handled
             PROVE  /\ Comes(p, u)' =>
                          /\ p \in subscribers'["newMessage"]
                          /\ \A t \in handled : u < t => Reaches(p, t)'
                    /\ \A y \in ToSet(tabs'[p]) : Shown(y, u) =>
                          /\ p \in subscribers'["newMessage"]
                          /\ \A t \in handled : u < t /\ texts'[t] = y.conv =>
                                Shown(y, t) \/ Reaches(p, t)'
  BY DEF NoneMissing, Shown
<1>1. ASSUME Comes(p, u)'
      PROVE  p \in subscribers'["newMessage"] /\ \A t \in handled : u < t => Reaches(p, t)'
  <2>1. CASE Comes(p, u)
    BY <2>1 DEF NoneMissing
  <2>2. CASE IsTold(p, u)
    <3>1. \A t \in handled : t <= u /\ t \in Int /\ u \in Int
      BY <2>2, TypesApart DEF IsTold, LastAnnounced, HistoryTyped
    <3>2. \A t \in handled : ~(u < t)
      BY <3>1
    <3> QED  BY <2>2, <3>2 DEF IsTold
  <2> QED  BY <1>1, <2>1, <2>2
<1>2. ASSUME NEW y \in ToSet(tabs'[p]), Shown(y, u)
      PROVE  /\ p \in subscribers'["newMessage"]
             /\ \A t \in handled : u < t /\ texts'[t] = y.conv => Shown(y, t) \/ Reaches(p, t)'
  <2>1. PICK z \in ToSet(tabs[p]) : y.conv = z.conv /\ \A t \in handled : Shown(y, t) <=> Shown(z, t)
    <3>1. y.texts # <<>>
      BY <1>2, ShortFacts DEF Shown
    <3> QED  BY <3>1
  <2> QED  BY <1>2, <2>1 DEF NoneMissing
<1> QED  BY <1>1, <1>2

LEMMA TabsAlike ==
    ASSUME NEW p, tabs'[p] = tabs[p]
    PROVE  \A y \in ToSet(tabs'[p]) :
              \/ y.texts = <<>>
              \/ \E z \in ToSet(tabs[p]) :
                    y.conv = z.conv /\ \A t \in handled : Shown(y, t) <=> Shown(z, t)
OBVIOUS

\* Nobody hears more or less of peers' texts, but in tabs.
LEMMA ReachStays ==
    ASSUME NEW p \in Page,
           subscribers["newMessage"] \subseteq subscribers'["newMessage"],
           \A m \in ToSet(messages'[p]) : m \in ToSet(messages[p]) \/ ~IsNote(m, "newMessage"),
           \A m \in ToSet(messages[p]) : m \in ToSet(messages'[p]) \/ ~IsNote(m, "newMessage"),
           \A m \in ToSet(outbox[Handler]) : m \in ToSet(outbox'[Handler]) \/ ~IsNote(m, "newMessage")
    PROVE  /\ \A t : Comes(p, t)' => Comes(p, t)
           /\ \A t : Reaches(p, t) => Reaches(p, t)'
BY DEF Comes, Reaches, IsTold, Announced, Brings, IsNote, TextOf

LEMMA LastStays ==
    ASSUME LastAnnounced, UNCHANGED handled,
           \A m \in ToSet(outbox'[Handler]) : m \in ToSet(outbox[Handler]) \/ ~IsNote(m, "newMessage")
    PROVE  LastAnnounced'
BY DEF LastAnnounced, Announced, Brings, IsNote, TextOf

LEMMA ActKeepsMiss ==
    ASSUME TypeInv, Inv, MissInv, NEW p \in Page,
           \/ Connect(p) \/ ClosePage(p)
           \/ \E x \in OwnNames : ChooseNickname(p, x)
           \/ \E k \in DOMAIN drawn[p] : StartConversation(p, k)
           \/ \E k \in DOMAIN tabs[p] : WriteText(p, k) \/ CloseTab(p, k)
    PROVE  MissInv'
<1>1. /\ UNCHANGED <<subscribers, outbox, tabs, handled>>
      /\ \A q \in Page : messages'[q] = messages[q] \/ messages'[q] = <<>>
      /\ \A q \in Page : open'[q] = "open" =>
            /\ messages'[q] = messages[q]
            /\ open[q] = "open" \/ (q = p /\ Connect(p))
  BY ActShape DEF server
<1>2. \A t \in handled : texts'[t] = texts[t]
  <2>1. UNCHANGED texts \/ \E c \in Talk \cup {Undefined} : texts' = Append(texts, c)
    BY ActCalls
  <2>2. \A t \in handled : t \in DOMAIN texts
    BY TypesApart DEF HistoryTyped
  <2> QED  BY <2>1, <2>2, TextsGrow
<1>3. \A q \in Page : open'[q] = "connecting" => open[q] = "connecting"
  <2>1. open \in [Page -> {"connecting", "open", "closed"}]
    BY RpcOf DEF RpcTyped
  <2>2. \/ UNCHANGED open \/ open' = [open EXCEPT ![p] = "open"] \/ open' = [open EXCEPT ![p] = "closed"]
    BY DEF Connect, ClosePage, ChooseNickname, StartConversation, WriteText, CloseTab, Deed
  <2> QED  BY <2>1, <2>2
<1>4. LastAnnounced'
  BY <1>1, LastStays DEF MissInv
<1>5. NotYetOpen'
  BY <1>1, <1>3 DEF MissInv, NotYetOpen
<1>6. ASSUME NEW q \in Page, open'[q] = "open" PROVE NoneMissing(q)'
  <2>1. messages'[q] = messages[q]
    BY <1>1, <1>6
  <2>2. CASE open[q] = "open"
    <3>1. NoneMissing(q)
      BY <2>2 DEF MissInv
    <3>2. \A t : (Comes(q, t)' => Comes(q, t)) /\ (Reaches(q, t) => Reaches(q, t)')
      BY <1>1, <2>1, ReachStays
    <3> QED  BY <1>1, <1>2, <3>1, <3>2, TabsAlike, NoneMissingStays DEF MissInv
  <2>3. CASE q = p /\ Connect(p)
    <3>1. messages'[q] = <<>> /\ tabs'[q] = <<>>
      BY <1>1, <2>1, <2>3 DEF MissInv, NotYetOpen, Connect
    <3> QED  BY <3>1, ShortFacts DEF NoneMissing, Comes
  <2> QED  BY <1>1, <1>6, <2>2, <2>3
<1> QED  BY <1>4, <1>5, <1>6 DEF MissInv

LEMMA ServingKeepsMiss ==
    ASSUME TypeInv, MissInv, NEW p \in Page,
           \/ ServeSubscribe(p) \/ ServeUpdateNickname(p) \/ ServeSendMessage(p)
           \/ ServeGetConversations(p) \/ ServeGetUsers(p)
           \/ \E c \in ConvId : ServeAddConversation(p, c)
           \/ ServeLeaveConversation(p) \/ ServeFailing(p)
    PROVE  MissInv'
<1>1. PICK method : \E sends \in Seq(Sent) :
         /\ Served(p, method, sends)
         /\ UNCHANGED <<Unserved, texts, handled>>
         /\ \A s \in Stream : subscribers[s] \subseteq subscribers'[s]
  BY ServeShape
<1>2. PICK sends \in Seq(Sent) :
         /\ Served(p, method, sends)
         /\ UNCHANGED <<Unserved, texts, handled>>
         /\ \A s \in Stream : subscribers[s] \subseteq subscribers'[s]
  BY <1>1
<1>3. UNCHANGED <<open, messages, tabs, texts, handled>>
  BY <1>2 DEF Unserved, client, pages
<1>4. outbox'[Handler] = outbox[Handler]
  <2>1. outbox' = [outbox EXCEPT ![p] = sends] /\ Handler \in Thread /\ p # Handler
    BY <1>2, ServedShape, ThreadsAreApart DEF Thread
  <2> QED  BY <2>1, RpcOf DEF RpcTyped
<1>5. subscribers["newMessage"] \subseteq subscribers'["newMessage"]
  BY <1>2, PageAssumption
<1>6. LastAnnounced' /\ NotYetOpen'
  BY <1>3, <1>4, LastStays DEF MissInv, NotYetOpen
<1>7. ASSUME NEW q \in Page, open[q] = "open" PROVE NoneMissing(q)'
  <2>1. NoneMissing(q)
    BY <1>7 DEF MissInv
  <2>2. \A t : (Comes(q, t)' => Comes(q, t)) /\ (Reaches(q, t) => Reaches(q, t)')
    BY <1>3, <1>4, <1>5, ReachStays
  <2> QED  BY <1>3, <1>5, <2>1, <2>2, TabsAlike, NoneMissingStays DEF MissInv
<1> QED  BY <1>3, <1>6, <1>7 DEF MissInv

LEMMA SendKeepsMiss ==
    ASSUME TypeInv, TextInv, MissInv, NEW t \in Thread, SendNext(t)
    PROVE  MissInv'
<1>0. PICK x : x = Head(outbox[t])
  OBVIOUS
<1>1. /\ outbox[t] # <<>>
      /\ outbox' = [outbox EXCEPT ![t] = Tail(@)]
      /\ \A q \in Page :
            messages'[q] = IF q \in Receivers(t, x) /\ open[q] = "open"
                           THEN Append(messages[q], x) ELSE messages[q]
      /\ UNCHANGED <<open, subscribers, tabs, texts, handled>>
  BY <1>0, SendShape DEF client, pages, history, talks
<1>2. /\ x \in Sent /\ x \in ToSet(outbox[t])
      /\ ToSet(outbox[t]) = {x} \cup ToSet(Tail(outbox[t]))
      /\ \A u \in Thread : outbox'[u] = IF u = t THEN Tail(outbox[t]) ELSE outbox[u]
      /\ \A u \in Thread : ToSet(outbox'[u]) \subseteq ToSet(outbox[u])
  BY <1>0, <1>1, OutboxShrinks
<1>3. Handler \in Thread /\ \A q \in Page : q \in Thread /\ q # Handler
  BY ThreadsAreApart DEF Thread
<1>4. LastAnnounced' /\ NotYetOpen'
  <2>1. \A q \in Page : open[q] = "connecting" => messages'[q] = messages[q]
    BY <1>1
  <2> QED  BY <1>1, <1>2, <1>3, <2>1, LastStays DEF MissInv, NotYetOpen
<1>5. ASSUME NEW q \in Page, open[q] = "open" PROVE NoneMissing(q)'
  <2>1. NoneMissing(q)
    BY <1>5 DEF MissInv
  <2>2. \/ messages'[q] = messages[q] /\ q \notin Receivers(t, x)
        \/ q \in Receivers(t, x) /\ ToSet(messages'[q]) = ToSet(messages[q]) \cup {x}
    <3>1. PICK m \in Seq(Sent) : m = messages[q]
      BY TurnTypes
    <3>2. ToSet(Append(m, x)) = ToSet(m) \cup {x}
      BY <1>2, AppendFacts
    <3> QED  BY <1>1, <1>5, <3>1, <3>2
  <2>3. IsNote(x, "newMessage") => t = Handler
    BY <1>2 DEF TextInv, WritersKnown, Thread
  <2>4. q \in Receivers(t, x) /\ IsNote(x, "newMessage") => q \in subscribers["newMessage"]
    BY DEF Receivers, IsNote
  <2>5. \A u : Comes(q, u)' => Comes(q, u) \/ IsTold(q, u)
    BY <1>2, <2>2, <2>3, <2>4 DEF Comes, IsTold, Announced, Brings, IsNote, TextOf
  <2>6. \A u : Comes(q, u) => Comes(q, u)'
    BY <2>2 DEF Comes, Brings, IsNote, TextOf
  <2>7. ASSUME NEW u, IsTold(q, u) PROVE Reaches(q, u)'
    <3>1. PICK m \in ToSet(outbox[Handler]) : Brings(m, u)
      BY <2>7 DEF IsTold, Announced
    <3>2. CASE m \in ToSet(outbox'[Handler])
      BY <1>1, <2>7, <3>1, <3>2 DEF IsTold, Announced, Reaches, Brings, IsNote, TextOf
    <3>3. CASE m \notin ToSet(outbox'[Handler])
      <4>1. m = x
        BY <1>2, <1>3, <3>1, <3>3
      <4>2. q \in Receivers(t, x)
        BY <2>7, <3>1, <4>1 DEF Receivers, Brings, IsNote, IsTold
      <4>3. x \in ToSet(messages'[q])
        BY <2>2, <4>2
      <4> QED  BY <3>1, <4>1, <4>3 DEF Reaches, Comes, Brings, IsNote, TextOf
    <3> QED  BY <3>2, <3>3
  <2>8. \A u : Reaches(q, u) => Reaches(q, u)'
    BY <2>6, <2>7 DEF Reaches
  <2> QED  BY <1>1, <2>1, <2>5, <2>8, TabsAlike, NoneMissingStays DEF MissInv
<1> QED  BY <1>1, <1>4, <1>5 DEF MissInv

LEMMA PeersKeepMiss ==
    ASSUME TypeInv, TextInv, MissInv, NEW b \in Peer,
           \/ \E x \in AnyNick : HandleNickChange(b, x)
           \/ \E c \in Talk : HandleText(b, c)
           \/ HandleLeave(b)
           \/ \E c \in ConvId : HandleInvite(b, c) \/ HandleLeaveConversation(b, c)
    PROVE  MissInv'
<1>1. PICK sends \in Seq(Sent) :
         /\ outbox' = [outbox EXCEPT ![Handler] = sends] /\ outbox[Handler] = <<>>
         /\ UNCHANGED Unmoved
         /\ \A m \in ToSet(sends) : m.kind # "result"
         /\ \/ UNCHANGED <<texts, handled>> /\ \A m \in ToSet(sends) : ~HasText(m)
            \/ \E t, c : /\ c \in Talk /\ Arrives(t, c)
                         /\ \A m \in ToSet(sends) : HasText(m) => TextOf(m) = t
                         /\ \E m \in ToSet(sends) : HasText(m)
  BY HandleShape
<1>2. UNCHANGED <<open, messages, subscribers, tabs>>
  BY <1>1 DEF Unmoved, client, wire, pages
<1>3. outbox'[Handler] = sends
  BY <1>1, RpcOf, ThreadsAreApart DEF RpcTyped, Thread
<1>4. \A t : ~Announced(t)
  BY <1>1, ShortFacts DEF Announced
<1>5. NotYetOpen'
  BY <1>2 DEF MissInv, NotYetOpen
<1>6. CASE UNCHANGED <<texts, handled>> /\ \A m \in ToSet(sends) : ~HasText(m)
  <2>1. LastAnnounced'
    BY <1>3, <1>6, LastStays DEF MissInv, HasText
  <2>2. ASSUME NEW q \in Page, open[q] = "open" PROVE NoneMissing(q)'
    <3>1. NoneMissing(q)
      BY <2>2 DEF MissInv
    <3>2. ToSet(outbox[Handler]) = {}
      BY <1>1, ShortFacts
    <3>3. \A t : (Comes(q, t)' => Comes(q, t)) /\ (Reaches(q, t) => Reaches(q, t)')
      BY <1>2, <3>2, ReachStays
    <3> QED  BY <1>2, <1>6, <3>1, <3>3, TabsAlike, NoneMissingStays DEF MissInv
  <2> QED  BY <1>2, <1>5, <2>1, <2>2 DEF MissInv
<1>7. ASSUME NEW n, NEW c, c \in Talk, Arrives(n, c),
             \A m \in ToSet(sends) : HasText(m) => TextOf(m) = n,
             \E m \in ToSet(sends) : HasText(m)
      PROVE  MissInv'
  <2>1. /\ n = Len(texts) + 1 /\ Len(texts) \in Nat /\ handled' = handled \cup {n}
        /\ \A t \in handled : t \in Nat /\ t < n /\ texts'[t] = texts[t]
    <3>1. n = Len(texts) + 1 /\ handled' = handled \cup {n} /\ texts' = Append(texts, c)
      BY <1>7 DEF Arrives
    <3>2. handled \subseteq 1..Len(texts) /\ Len(texts) \in Nat /\ DOMAIN texts = 1..Len(texts)
      BY TypesApart DEF HistoryTyped
    <3>3. \A t \in DOMAIN texts : texts'[t] = texts[t]
      BY <1>7, <3>1, TextsGrow
    <3>4. \A t \in handled : t \in 1..Len(texts) /\ texts'[t] = texts[t]
      BY <3>2, <3>3
    <3>5. \A t \in handled : t \in Nat /\ t < n
      <4>1. PICK len \in Nat : len = Len(texts)
        BY <3>2
      <4>2. \A t \in 1..len : t \in Nat /\ t < len + 1
        OBVIOUS
      <4> QED  BY <3>1, <3>4, <4>1, <4>2
    <3> QED  BY <3>1, <3>2, <3>4, <3>5
  <2>2. Announced(n)' /\ \A u : Announced(u)' => u = n
    <3>1. \A m \in ToSet(sends) : HasText(m) <=> IsNote(m, "newMessage")
      BY <1>1 DEF HasText, IsResult
    <3> QED  BY <1>3, <1>7, <3>1 DEF Announced, Brings, IsNote, TextOf
  <2>3. LastAnnounced'
    <3> SUFFICES ASSUME NEW t \in handled', NEW u \in handled', Announced(u)' PROVE t <= u
      BY DEF LastAnnounced
    <3>1. u = n
      BY <2>2
    <3> QED  BY <2>1, <3>1
  <2>4. ASSUME NEW q \in Page, open[q] = "open" PROVE NoneMissing(q)'
    <3>1. NoneMissing(q)
      BY <2>4 DEF MissInv
    <3>2. \A u : Comes(q, u)' <=> Comes(q, u)
      BY <1>2 DEF Comes, Brings, IsNote, TextOf
    <3>3. \A u : Reaches(q, u) => Reaches(q, u)'
      BY <1>4, <3>2 DEF Reaches, IsTold
    <3>4. q \in subscribers["newMessage"] => Reaches(q, n)'
      BY <1>2, <2>2 DEF Reaches, IsTold
    <3>5. \A u : Comes(q, u) => u \in handled
      BY DEF TextInv, WritersKnown, Wrote, Comes, Brings
    <3>6. ASSUME NEW u \in handled', Comes(q, u)'
          PROVE  /\ q \in subscribers'["newMessage"]
                 /\ \A t \in handled' : u < t => Reaches(q, t)'
      <4>1. u \in handled /\ Comes(q, u)
        BY <3>2, <3>5, <3>6
      <4>2. /\ q \in subscribers["newMessage"]
            /\ \A t \in handled : u < t => Reaches(q, t)
        BY <3>1, <4>1 DEF NoneMissing
      <4> QED  BY <1>2, <2>1, <3>3, <3>4, <4>2
    <3>7. ASSUME NEW u \in handled', NEW y \in ToSet(tabs'[q]), Shown(y, u)
          PROVE  /\ q \in subscribers'["newMessage"]
                 /\ \A t \in handled' : u < t /\ texts'[t] = y.conv => Shown(y, t) \/ Reaches(q, t)'
      <4>1. y \in ToSet(tabs[q])
        BY <1>2
      <4>2. u \in handled
        <5>1. y.texts \in TextLists(q)
          BY <4>1 DEF TextLists
        <5>2. u \in 1..Len(texts)
          BY <3>7, <5>1, ListsTyped DEF Shown
        <5> QED  BY <2>1, <5>2
      <4>3. /\ q \in subscribers["newMessage"]
            /\ \A t \in handled : u < t /\ texts[t] = y.conv => Shown(y, t) \/ Reaches(q, t)
        BY <3>1, <3>7, <4>1, <4>2 DEF NoneMissing
      <4> QED  BY <1>2, <2>1, <3>3, <3>4, <4>3
    <3> QED  BY <3>6, <3>7 DEF NoneMissing, Shown
  <2> QED  BY <1>2, <1>5, <2>3, <2>4 DEF MissInv
<1> QED  BY <1>1, <1>6, <1>7

LEMMA DropKeepsMiss ==
    ASSUME TypeInv, MissInv, DropTalks
    PROVE  MissInv'
<1>0. PICK x : x = Head(outbox[Handler])
  OBVIOUS
<1>1. /\ outbox[Handler] # <<>> /\ x.kind = "drop"
      /\ outbox' = [outbox EXCEPT ![Handler] = Tail(@)]
      /\ UNCHANGED <<open, messages, subscribers, tabs, texts, handled>>
  BY <1>0 DEF DropTalks, client, wire, pages, history, talks
<1>2. /\ ToSet(outbox[Handler]) = {x} \cup ToSet(Tail(outbox[Handler]))
      /\ outbox'[Handler] = Tail(outbox[Handler])
  BY <1>0, <1>1, ThreadsAreApart, OutboxShrinks DEF Thread
<1>3. ~IsNote(x, "newMessage")
  BY <1>1 DEF IsNote
<1>4. LastAnnounced' /\ NotYetOpen'
  BY <1>1, <1>2, LastStays DEF MissInv, NotYetOpen
<1>5. ASSUME NEW q \in Page, open[q] = "open" PROVE NoneMissing(q)'
  <2>1. NoneMissing(q)
    BY <1>5 DEF MissInv
  <2>2. \A t : (Comes(q, t)' => Comes(q, t)) /\ (Reaches(q, t) => Reaches(q, t)')
    BY <1>1, <1>2, <1>3, ReachStays
  <2> QED  BY <1>1, <2>1, <2>2, TabsAlike, NoneMissingStays DEF MissInv
<1> QED  BY <1>1, <1>4, <1>5 DEF MissInv

\* What brings no text of a peer.
LEMMA TakeKeepsMiss ==
    ASSUME TypeInv, Inv, MissInv, NEW p \in Page, NEW kind, Take(p, kind), UNCHANGED Untaken,
           ~IsNote(Head(messages[p]), "newMessage"),
           \A q \in Page : q # p => tabs'[q] = tabs[q],
           \A y \in ToSet(tabs'[p]) :
              \/ y.texts = <<>>
              \/ \E z \in ToSet(tabs[p]) :
                    y.conv = z.conv /\ \A t \in handled : Shown(y, t) <=> Shown(z, t)
    PROVE  MissInv'
<1>0. PICK x : x = Head(messages[p])
  OBVIOUS
<1>1. /\ open[p] = "open"
      /\ \A q \in Page : messages'[q] = IF q = p THEN Tail(messages[p]) ELSE messages[q]
      /\ ToSet(messages[p]) = {x} \cup ToSet(Tail(messages[p]))
  BY <1>0, TakeShape
<1>2. UNCHANGED <<open, subscribers, outbox, texts, handled>>
  BY DEF Untaken, server, talks
<1>3. LastAnnounced' /\ NotYetOpen'
  BY <1>1, <1>2, LastStays DEF MissInv, NotYetOpen
<1>4. ASSUME NEW q \in Page, open[q] = "open" PROVE NoneMissing(q)'
  <2>1. NoneMissing(q)
    BY <1>4 DEF MissInv
  <2>2. \A t : (Comes(q, t)' => Comes(q, t)) /\ (Reaches(q, t) => Reaches(q, t)')
    <3>1. \A m \in ToSet(messages'[q]) : m \in ToSet(messages[q])
      BY <1>1
    <3>2. \A m \in ToSet(messages[q]) : m \in ToSet(messages'[q]) \/ ~IsNote(m, "newMessage")
      BY <1>0, <1>1
    <3> QED  BY <1>2, <3>1, <3>2, ReachStays
  <2>3. CASE q = p
    BY <1>2, <2>1, <2>2, <2>3, NoneMissingStays DEF MissInv
  <2>4. CASE q # p
    BY <1>2, <2>1, <2>2, <2>4, TabsAlike, NoneMissingStays DEF MissInv
  <2> QED  BY <2>3, <2>4
<1> QED  BY <1>2, <1>3, <1>4 DEF MissInv

\* Of what comes, the texts of peers come in the order of writing.
LEMMA NextIsEarliest ==
    ASSUME TypeInv, TextInv, NEW p \in Page, messages[p] # <<>>,
           NEW t \in Nat, Brings(Head(messages[p]), t),
           NEW u \in Nat, NEW m \in ToSet(Tail(messages[p])), Brings(m, u)
    PROVE  t < u
<1>1. PICK s \in Seq(Sent) : s = messages[p]
  BY TurnTypes
<1>2. Ascending(Marks(PeerMark, s))
  BY <1>1 DEF TextInv, PeersInTurn, InTurn, Chain, TextLists
<1>3. PICK r \in Seq(Sent) : r = Tail(s)
  BY <1>1, TailFacts
<1>4. PICK k \in DOMAIN r : r[k] = m
  BY <1>1, <1>3, SeqFacts
<1>5. k + 1 \in DOMAIN s /\ s[k + 1] = m /\ 1 \in DOMAIN s /\ s[1] = Head(s) /\ k \in Nat \ {0}
  BY <1>1, <1>3, <1>4, TailFacts, SeqFacts
<1>6. s[1] \in Sent /\ s[k + 1] \in Sent
  BY <1>5, SeqFacts
<1>7. PeerMark[s[1]] = t /\ PeerMark[s[k + 1]] = u
  BY <1>1, <1>5, <1>6 DEF PeerMark, Brings
<1>8. k + 1 \in DOMAIN Marks(PeerMark, s) /\ Marks(PeerMark, s)[k + 1] = u /\ Marks(PeerMark, s)[1] = t
  BY <1>5, <1>7 DEF Marks
<1>9. u # -1 /\ 1 \in 1..(k + 1) - 1
  BY <1>5
<1> QED  BY <1>2, <1>8, <1>9 DEF Ascending

LEMMA ShowingKeepsMiss ==
    ASSUME TypeInv, Inv, TextInv, MissInv, NEW p \in Page, TakeOwnText(p) \/ TakeNewMessage(p)
    PROVE  MissInv'
<1>1. PICK kind, f : Takes(p, kind, f)
  BY TextShown
<1>2. PICK x : x = Head(messages[p])
  OBVIOUS
<1>3. PICK c, n : c = TheItem(p).conv /\ n = TheItem(p).text
  OBVIOUS
<1>4. /\ HasText(x) /\ AddText(p, c, n) /\ n \in 1..Len(texts) /\ texts[n] = c /\ TextOf(x) = n
      /\ n \in Nat /\ Len(texts) \in Nat
  <2>1. HasText(x) /\ AddText(p, c, n) /\ n \in 1..Len(texts) /\ texts[n] = c /\ TextOf(x) = n
    BY <1>2, <1>3, TextShown DEF TextOf
  <2>2. Len(texts) \in Nat
    BY TypesApart DEF HistoryTyped
  <2> QED  BY <2>1, <2>2
<1>5. /\ messages[p] # <<>> /\ x \in Sent /\ x \in ToSet(messages[p]) /\ open[p] = "open"
      /\ \A q \in Page : messages'[q] = IF q = p THEN Tail(messages[p]) ELSE messages[q]
      /\ ToSet(messages[p]) = {x} \cup ToSet(Tail(messages[p]))
  BY <1>1, <1>2, Taken
<1>6. /\ \A q \in Page : q # p => tabs'[q] = tabs[q]
      /\ tabs'[p] \in Seq(TabType(Len(texts))) /\ tabs[p] \in Seq(TabType(Len(texts)))
      /\ DOMAIN tabs'[p] = DOMAIN tabs[p]
      /\ \A k \in DOMAIN tabs[p] :
            /\ tabs'[p][k].conv = tabs[p][k].conv
            /\ tabs'[p][k].texts = IF tabs[p][k].conv = c THEN Append(tabs[p][k].texts, n)
                                   ELSE tabs[p][k].texts
  <2>1. tabs' \in [Page -> Seq(TabType(Len(texts)))]
    BY <1>4, AddTextShape
  <2>2. tabs'[p] \in Seq(TabType(Len(texts))) /\ tabs[p] \in Seq(TabType(Len(texts)))
    BY <2>1, TabFacts
  <2> QED  BY <1>4, <2>2, AddTextShape
<1>7. UNCHANGED <<open, subscribers, outbox, texts, handled>>
  BY <1>1 DEF Takes, Untaken, server, talks
<1>8. Wrote(x) /\ n \in Nat /\ handled \subseteq Nat
  <2>1. handled \subseteq 1..Len(texts)
    BY TypesApart DEF HistoryTyped
  <2> QED  BY <1>4, <1>5, <2>1 DEF TextInv, WritersKnown
<1>9. ASSUME NEW y \in ToSet(tabs'[p])
      PROVE  \E z \in ToSet(tabs[p]) :
                /\ y.conv = z.conv
                /\ \A t : Shown(y, t) <=> Shown(z, t) \/ (t = n /\ y.conv = c)
  <2>1. PICK k \in DOMAIN tabs[p] : y = tabs'[p][k]
    BY <1>6 DEF ToSet
  <2>2. PICK z : z = tabs[p][k]
    OBVIOUS
  <2>3. z \in ToSet(tabs[p]) /\ y.conv = z.conv
        /\ y.texts = IF z.conv = c THEN Append(z.texts, n) ELSE z.texts
    BY <1>6, <2>1, <2>2 DEF ToSet
  <2>4. PICK s \in Seq(Nat) : s = z.texts
    BY <2>3, ListsTyped DEF TextLists
  <2>5. ToSet(Append(s, n)) = ToSet(s) \cup {n}
    BY <1>4, AppendFacts
  <2> QED  BY <2>3, <2>4, <2>5 DEF Shown
<1>10. CASE ~IsNote(x, "newMessage")
  <2>1. n \notin handled
    BY <1>4, <1>8, <1>10 DEF HasText, Wrote
  <2>2. \A y \in ToSet(tabs'[p]) : \E z \in ToSet(tabs[p]) :
            y.conv = z.conv /\ \A t \in handled : Shown(y, t) <=> Shown(z, t)
    BY <1>9, <2>1
  <2> QED  BY <1>1, <1>2, <1>6, <1>10, <2>2, TakeKeepsMiss DEF Takes
<1>11. CASE IsNote(x, "newMessage")
  <2>1. LastAnnounced' /\ NotYetOpen'
    BY <1>5, <1>6, <1>7, LastStays DEF MissInv, NotYetOpen
  <2>2. ASSUME NEW q \in Page, q # p, open[q] = "open" PROVE NoneMissing(q)'
    <3>1. NoneMissing(q)
      BY <2>2 DEF MissInv
    <3>2. \A t : (Comes(q, t)' => Comes(q, t)) /\ (Reaches(q, t) => Reaches(q, t)')
      BY <1>5, <1>7, <2>2, ReachStays
    <3> QED  BY <1>6, <1>7, <2>2, <3>1, <3>2, TabsAlike, NoneMissingStays DEF MissInv
  <2>3. Brings(x, n) /\ Comes(p, n) /\ n \in handled
    BY <1>4, <1>5, <1>8, <1>11 DEF Brings, Comes, Wrote
  <2>4. NoneMissing(p)
    BY <1>5 DEF MissInv
  <2>5. \A u : Comes(p, u)' <=> \E m \in ToSet(Tail(messages[p])) : Brings(m, u)
    BY <1>5 DEF Comes, Brings, IsNote, TextOf
  <2>6. \A u : (Comes(p, u)' => Comes(p, u)) /\ (Comes(p, u) => Comes(p, u)' \/ u = n)
    BY <1>5, <2>3, <2>5 DEF Comes, Brings
  <2>7. \A u : IsTold(p, u) => IsTold(p, u)'
    BY <1>7 DEF IsTold, Announced, Brings, IsNote, TextOf
  <2>8. \A u : Reaches(p, u) => Reaches(p, u)' \/ u = n
    BY <2>6, <2>7 DEF Reaches
  <2>9. \A u \in handled : Comes(p, u)' => n < u
    BY <1>2, <1>5, <1>8, <2>3, <2>5, NextIsEarliest
  <2>10. ASSUME NEW u \in handled, Comes(p, u)'
         PROVE  /\ p \in subscribers["newMessage"]
                /\ \A t \in handled : u < t => Reaches(p, t)'
    <3>1. /\ p \in subscribers["newMessage"]
          /\ \A t \in handled : u < t => Reaches(p, t)
      BY <2>4, <2>6, <2>10 DEF NoneMissing
    <3>2. \A t \in handled : u < t => t # n
      <4>1. n < u /\ u \in Nat
        BY <1>8, <2>9, <2>10
      <4> QED  BY <1>8, <4>1
    <3> QED  BY <2>8, <3>1, <3>2
  <2>11. ASSUME NEW u \in handled, NEW y \in ToSet(tabs'[p]), Shown(y, u)
         PROVE  /\ p \in subscribers["newMessage"]
                /\ \A t \in handled : u < t /\ texts[t] = y.conv => Shown(y, t) \/ Reaches(p, t)'
    <3>1. PICK z \in ToSet(tabs[p]) :
             /\ y.conv = z.conv
             /\ \A t : Shown(y, t) <=> Shown(z, t) \/ (t = n /\ y.conv = c)
      BY <1>9
    <3>2. /\ p \in subscribers["newMessage"]
          /\ \A t \in handled : u < t /\ texts[t] = y.conv => Shown(z, t) \/ Reaches(p, t)
      <4>1. CASE Shown(z, u)
        BY <2>4, <3>1, <4>1 DEF NoneMissing
      <4>2. CASE u = n
        BY <2>3, <2>4, <4>2 DEF NoneMissing
      <4> QED  BY <2>11, <3>1, <4>1, <4>2
    <3>3. \A t \in handled : t = n /\ texts[t] = y.conv => Shown(y, t)
      BY <1>4, <3>1
    <3> QED  BY <2>8, <3>1, <3>2, <3>3
  <2>12. NoneMissing(p)'
    BY <1>7, <2>10, <2>11 DEF NoneMissing, Shown
  <2> QED  BY <1>7, <2>1, <2>2, <2>12 DEF MissInv
<1> QED  BY <1>10, <1>11

LEMMA TakingKeepsMiss ==
    ASSUME TypeInv, Inv, TextInv, MissInv, NEW p \in Page,
           \/ TakeSilently(p) \/ TakeNickname(p) \/ TakeOwnText(p) \/ TakeConversations(p)
           \/ TakeUsers(p) \/ TakeError(p) \/ TakeNewConversation(p) \/ TakeNewMessage(p)
           \/ TakeLeaveConversation(p) \/ TakeNewUser(p) \/ TakeRemoveUser(p)
    PROVE  MissInv'
<1>1. CASE TakeConversations(p) \/ TakeNewConversation(p)
  <2>1. PICK kind, f : Takes(p, kind, f)
    BY <1>1, TalksShown
  <2>2. /\ \A q \in Page : q # p => tabs'[q] = tabs[q]
        /\ \A y \in ToSet(tabs'[p]) : y \in ToSet(tabs[p]) \/ y.texts = <<>>
    BY <1>1, TalksShown, AddTabsShape
  <2>3. ~IsNote(Head(messages[p]), "newMessage")
    BY <1>1, TalksShown DEF HasTalks, IsNote, IsResult
  <2> QED  BY <2>1, <2>2, <2>3, TakeKeepsMiss DEF Takes
<1>2. CASE TakeLeaveConversation(p)
  <2>1. /\ Takes(p, "note", "leaveConversation") /\ RemoveTabs(p, TheItem(p).conv)
    BY <1>2, TakesEither DEF TakeLeaveConversation
  <2>2. PICK x : x = TheItem(p).conv
    OBVIOUS
  <2>3. /\ \A q \in Page : q # p => tabs'[q] = tabs[q]
        /\ ToSet(tabs'[p]) \subseteq ToSet(tabs[p])
    BY <2>1, <2>2, RemoveTabsShape
  <2>4. ~IsNote(Head(messages[p]), "newMessage")
    BY <2>1 DEF Takes, IsNote
  <2> QED  BY <2>1, <2>3, <2>4, TakeKeepsMiss DEF Takes
<1>3. ASSUME NEW kind, Take(p, kind), UNCHANGED Untaken, UNCHANGED tabs,
             ~IsNote(Head(messages[p]), "newMessage")
      PROVE  MissInv'
  BY <1>3, TabsAlike, TakeKeepsMiss
<1>4. CASE TakeSilently(p) \/ TakeNickname(p) \/ TakeUsers(p) \/ TakeNewUser(p) \/ TakeRemoveUser(p)
  <2>1. PICK f : TakeResult(p, f) \/ (TakeNote(p, f) /\ f # "newMessage")
    BY <1>4 DEF TakeSilently, TakeNickname, TakeUsers, TakeNewUser, TakeRemoveUser
  <2>2. PICK kind : Takes(p, kind, f) /\ (kind = "result" \/ f # "newMessage")
    BY <2>1, TakesEither
  <2>3. UNCHANGED tabs
    BY <1>4 DEF TakeSilently, TakeNickname, TakeUsers, TakeNewUser, TakeRemoveUser, pages
  <2>4. ~IsNote(Head(messages[p]), "newMessage")
    BY <2>2 DEF Takes, Take, IsNote
  <2> QED  BY <1>3, <2>2, <2>3, <2>4 DEF Takes
<1>5. CASE TakeError(p)
  BY <1>3, <1>5 DEF TakeError, Take, IsNote, pages
<1> QED  BY <1>1, <1>2, <1>4, <1>5, ShowingKeepsMiss

LEMMA NextMiss == TypeInv /\ Inv /\ TextInv /\ MissInv /\ [Next]_vars => MissInv'
<1> SUFFICES ASSUME TypeInv, Inv, TextInv, MissInv, [Next]_vars PROVE MissInv'
  OBVIOUS
<1>1. CASE UNCHANGED vars
  <2>1. UNCHANGED <<open, messages, subscribers, outbox, tabs, texts, handled>>
    BY <1>1 DEF vars, rpc, client, wire, server, pages, history, talks
  <2>2. LastAnnounced' /\ NotYetOpen'
    BY <2>1, LastStays DEF MissInv, NotYetOpen
  <2>3. ASSUME NEW q \in Page, open[q] = "open" PROVE NoneMissing(q)'
    <3>1. NoneMissing(q)
      BY <2>3 DEF MissInv
    <3>2. \A t : (Comes(q, t)' => Comes(q, t)) /\ (Reaches(q, t) => Reaches(q, t)')
      BY <2>1, ReachStays
    <3> QED  BY <2>1, <3>1, <3>2, TabsAlike, NoneMissingStays DEF MissInv
  <2> QED  BY <2>1, <2>2, <2>3 DEF MissInv
<1>2. ASSUME NEW p \in Page,
             \/ Connect(p) \/ ClosePage(p)
             \/ \E x \in OwnNames : ChooseNickname(p, x)
             \/ \E k \in DOMAIN drawn[p] : StartConversation(p, k)
             \/ \E k \in DOMAIN tabs[p] : WriteText(p, k) \/ CloseTab(p, k)
      PROVE  MissInv'
  BY <1>2, ActKeepsMiss
<1>3. ASSUME NEW p \in Page,
             \/ ServeSubscribe(p) \/ ServeUpdateNickname(p) \/ ServeSendMessage(p)
             \/ ServeGetConversations(p) \/ ServeGetUsers(p)
             \/ \E c \in ConvId : ServeAddConversation(p, c)
             \/ ServeLeaveConversation(p) \/ ServeFailing(p)
      PROVE  MissInv'
  BY <1>3, ServingKeepsMiss
<1>4. ASSUME NEW a \in Peer,
             \/ \E x \in AnyNick : HandleNickChange(a, x)
             \/ \E c \in Talk : HandleText(a, c)
             \/ HandleLeave(a)
             \/ \E c \in ConvId : HandleInvite(a, c) \/ HandleLeaveConversation(a, c)
      PROVE  MissInv'
  BY <1>4, PeersKeepMiss
<1>5. ASSUME NEW t \in Thread, SendNext(t) PROVE MissInv'
  BY <1>5, SendKeepsMiss
<1> QED  BY <1>1, <1>2, <1>3, <1>4, <1>5, DropKeepsMiss, TakingKeepsMiss DEF Next

\* On a page that is loaded and waits for nothing, a tab shows what peers
\* wrote in the order of writing, and all of its conversation that was written
\* after the first it shows: a page that hears of one text stays subscribed, so
\* that all that follow are on their way to it.
THEOREM NoTextIsMissed == Spec => []TabsMissNothing
<1>1. TypeInv /\ TextInv /\ MissInv => TabsMissNothing
  <2> SUFFICES ASSUME TypeInv, TextInv, MissInv, NEW p \in Page, Loaded(p),
                      NEW k \in DOMAIN tabs[p], NEW shown, shown = tabs[p][k].texts
               PROVE  /\ \A i, j \in DOMAIN shown :
                            i < j /\ {shown[i], shown[j]} \subseteq handled => shown[i] < shown[j]
                      /\ \A t \in ToSet(shown) \cap handled : \A u \in handled :
                            t < u /\ texts[u] = tabs[p][k].conv => u \in ToSet(shown)
    BY DEF TabsMissNothing
  <2>1. tabs[p][k] \in ToSet(tabs[p])
    BY DEF ToSet
  <2>2. PICK s \in Seq(Nat) : s = shown /\ s \in TextLists(p)
    BY <2>1, ListsTyped DEF TextLists
  <2>3. Ascending(Marks(PeerShown, s))
    BY <2>2 DEF TextInv, PeersInTurn, InTurn, Chain
  <2>4. ASSUME NEW i \in DOMAIN s, NEW j \in DOMAIN s, i < j, s[i] \in handled, s[j] \in handled
        PROVE  s[i] < s[j]
    <3>1. s[i] \in Nat /\ s[j] \in Nat
      BY SeqFacts
    <3>2. PeerShown[s[i]] = s[i] /\ PeerShown[s[j]] = s[j]
      BY <2>4, <3>1 DEF PeerShown
    <3> QED  BY <2>3, <2>4, <3>2, MarkTypes, MarksAscend
  <2>5. \A u : ~Reaches(p, u)
    <3>1. messages[p] = <<>> /\ outbox[Handler] = <<>>
      BY DEF Loaded, Quiet, Free, Thread
    <3> QED  BY <3>1, ShortFacts DEF Reaches, Comes, IsTold, Announced
  <2>6. NoneMissing(p)
    BY DEF MissInv, Loaded
  <2>7. ASSUME NEW t \in ToSet(shown) \cap handled, NEW u \in handled,
               t < u, texts[u] = tabs[p][k].conv
        PROVE  u \in ToSet(shown)
    BY <2>1, <2>5, <2>6, <2>7 DEF NoneMissing, Shown
  <2> QED  BY <2>2, <2>4, <2>7
<1> QED  BY <1>1, InitTypes, NextTypes, InitTexts, NextTexts, InitMiss, NextMiss,
            InvInit, InvStep, PTL DEF Spec
=============================================================================
