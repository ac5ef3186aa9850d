------------------------------ MODULE Flooding ------------------------------
(***************************************************************************)
(* The multi-hop layer below Transport: ReceiverThread drops what a node   *)
(* has handled before and calls the handlers for the rest, one of them,    *)
(* BroadcastHandler, sends every packet on that is for another node.       *)
(*                                                                         *)
(* A node hears the nodes in its range, and itself: the multicast group    *)
(* loops back.  A datagram can be lost on its way to one node and reach    *)
(* another; datagrams overtake each other.                                 *)
(***************************************************************************)
EXTENDS Nonce, Sequences

CONSTANTS
    Node,
    Everyone,       \* BROADCAST_ADDRESS, the destination of an announce
    Range,          \* the pairs <<n, m>> where m hears n
    Moments,        \* the milliseconds at which nodes may build packets
    MaxPackets,     \* bound: packets built
    MaxLoss,        \* bound: datagrams lost
    MaxCopies       \* bound: datagrams with one packet that wait at a node

ASSUME FloodingAssumption ==
    /\ Everyone \notin Node
    /\ Range \subseteq Node \X Node
    /\ Moments \subseteq Nat
    /\ MaxPackets \in Nat
    /\ MaxLoss \in Nat
    /\ MaxCopies \in Nat \ {0}

VARIABLES
    clock,      \* System.currentTimeMillis, the same on all nodes
    built,      \* packets in the order in which they were built
    copies,     \* copies[n][i]: datagrams with packet i under way to node n
    handled,    \* handledPackets[n]
    handlings,  \* history: whether n called its handlers for packet i never,
                \* once, or twice and more (0, 1, 2)
    losses      \* datagrams lost so far

vars == <<clock, built, copies, handled, handlings, losses>>

Packets == 1..MaxPackets

Init ==
    /\ clock \in Moments
    /\ built = <<>>
    /\ copies = [n \in Node |-> [i \in Packets |-> 0]]
    /\ handled = [n \in Node |-> {}]
    /\ handlings = [n \in Node |-> [i \in Packets |-> 0]]
    /\ losses = 0

----------------------------------------------------------------------------

\* Seeded fault: packets identified by their destination.
FaultyHashCode(p) == <<p.dest, NonceHash(p.nonce)>>

\* RawPacket.hashCode, up to what the address adds for the source.
HashCode(p) == <<p.source, NonceHash(p.nonce)>>

\* Seeded fault: a relayed packet is not remembered.
ForgetfulRemember(n, i) ==
    handled' = IF built[i].dest = n
               THEN [handled EXCEPT ![n] = @ \cup {HashCode(built[i])}]
               ELSE handled

\* "handledPackets.add", after the handlers are done.
Remember(n, i) ==
    handled' = [handled EXCEPT ![n] = @ \cup {HashCode(built[i])}]

\* Seeded fault: nodes relay only what is for everyone.
FaultyRelays(n, i) == built[i].dest = Everyone

\* BroadcastHandler: whatever is not for this node is sent on.
Relays(n, i) == built[i].dest # n

\* SocketImpl.send(RawPacket): one more datagram to every node that hears n
\* and has room for it in its receive buffer.
Heard(c, n, i) ==
    [m \in Node |->
        IF <<n, m>> \in Range /\ c[m][i] < MaxCopies
        THEN [c[m] EXCEPT ![i] = @ + 1]
        ELSE c[m]]

\* One datagram with packet i less on its way to n.
Taken(n, i) == [copies EXCEPT ![n][i] = @ - 1]

\* Seeded fault: a node takes its own packets.
FaultyFresh(n, i) == HashCode(built[i]) \notin handled[n]

\* ReceiverThread drops its own packets and those with a hash it has handled.
Fresh(n, i) == built[i].source # n /\ HashCode(built[i]) \notin handled[n]

----------------------------------------------------------------------------

Tick ==
    /\ \E t \in Moments : t > clock /\ clock' = t
    /\ UNCHANGED <<built, copies, handled, handlings, losses>>

\* Node n builds a packet for d, or for everyone, and sends it.  A duplicate
\* for retransmission is a packet of its own: it has a nonce of its own.
Send(n, d) ==
    /\ Len(built) < MaxPackets
    /\ built' = Append(built, [source |-> n, dest |-> d, nonce |-> clock])
    /\ copies' = Heard(copies, n, Len(built) + 1)
    /\ UNCHANGED <<clock, handled, handlings, losses>>

\* A datagram reaches the handlers of n.
Handle(n, i) ==
    /\ copies[n][i] > 0
    /\ Fresh(n, i)
    /\ Remember(n, i)
    /\ handlings' = [handlings EXCEPT ![n][i] = IF @ = 0 THEN 1 ELSE 2]
    /\ copies' = IF Relays(n, i) THEN Heard(Taken(n, i), n, i) ELSE Taken(n, i)
    /\ UNCHANGED <<clock, built, losses>>

\* A datagram is dropped as a copy.
Drop(n, i) ==
    /\ copies[n][i] > 0
    /\ ~Fresh(n, i)
    /\ copies' = Taken(n, i)
    /\ UNCHANGED <<clock, built, handled, handlings, losses>>

Lose(n, i) ==
    /\ losses < MaxLoss
    /\ copies[n][i] > 0
    /\ losses' = losses + 1
    /\ copies' = Taken(n, i)
    /\ UNCHANGED <<clock, built, handled, handlings>>

Next ==
    \/ Tick
    \/ \E n \in Node : \E d \in Node \cup {Everyone} : n # d /\ Send(n, d)
    \/ \E n \in Node : \E i \in Packets : Handle(n, i) \/ Drop(n, i) \/ Lose(n, i)

Spec == Init /\ [][Next]_vars

\* The receiver threads run.
Fairness ==
    \A n \in Node : WF_vars(\E i \in Packets : Handle(n, i) \/ Drop(n, i))

FairSpec == Spec /\ Fairness

----------------------------------------------------------------------------

BuiltPacket == [source : Node, dest : Node \cup {Everyone}, nonce : Moments]
HashCodes == Node \X {NonceHash(t) : t \in Moments}

\* The types, and that packets not yet built are nowhere.
TypeOK ==
    /\ clock \in Moments
    /\ built \in Seq(BuiltPacket)
    /\ Len(built) <= MaxPackets
    /\ copies \in [Node -> [Packets -> Nat]]
    /\ handled \in [Node -> SUBSET HashCodes]
    /\ handlings \in [Node -> [Packets -> 0..2]]
    /\ losses \in 0..MaxLoss
    /\ \A n \in Node : \A i \in Packets :
          i > Len(built) => copies[n][i] = 0 /\ handlings[n][i] = 0

\* However many datagrams of a packet reach a node, by whatever routes, its
\* handlers see the packet at most once, and never at its source: Transport
\* need not expect two copies of a datagram.
HandledOnce ==
    \A n \in Node : \A i \in DOMAIN built :
        handlings[n][i] <= IF built[i].source = n THEN 0 ELSE 1

Network == INSTANCE OnceNetwork
    WITH sources <- [i \in DOMAIN built |-> built[i].source], times <- handlings

\* To the handlers, the flooded network is one that carries a packet straight to
\* every node, in any order, and to none of them twice: what Transport takes its
\* channels to be.
ImplementsOnceNetwork == Network!Spec

Airborne(i) == \E n \in Node : copies[n][i] > 0

\* A packet whose source built no other with the same hash.
Distinct(i) == \A j \in DOMAIN built : HashCode(built[j]) = HashCode(built[i]) => j = i

\* S has the source of packet i, and whoever hears a node of S that relays it.
Spreads(S, i) ==
    /\ built[i].source \in S
    /\ \A r \in Range : r[1] \in S /\ r[1] # built[i].dest => r[2] \in S

\* The nodes there is a path to from the source of packet i, over nodes that
\* relay it: those in every set that it spreads over.
Within(i) ==
    {m \in Node \ {built[i].source} : \A S \in SUBSET Node : Spreads(S, i) => m \in S}

\* Flooding reaches every node there is a path to, over any number of hops,
\* when no datagram is lost and the hash tells the packet from the others.
FloodReachesAll ==
    losses = 0 => \A i \in DOMAIN built :
        Distinct(i) /\ ~Airborne(i) => \A n \in Within(i) : handlings[n][i] = 1

\* Flooding a packet comes to an end, in a network with cycles too.
FloodingEnds == \A i \in Packets : Airborne(i) ~> ~Airborne(i)

\* A node drops, of the packets of others, only what it has handled: every
\* packet has an "ID: A nonce that is unique per source ip address".
OnlyCopiesAreDropped ==
    [][\A n \in Node : \A i \in DOMAIN built :
          Drop(n, i) => built[i].source = n \/ handlings[n][i] > 0]_vars
=============================================================================
