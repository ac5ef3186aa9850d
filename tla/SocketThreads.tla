---------------------------- MODULE SocketThreads ----------------------------
(***************************************************************************)
(* Numbering and retransmission in one SocketImpl, thread by thread, for   *)
(* packets to one other node.  In Transport a handler is one step; here a  *)
(* step is one access to a map the threads share.  Data is sent by threads *)
(* of the application, SYNs and SYN-ACKs by the receiver thread, which     *)
(* also handles the ACKs, and each packet is sent again by the thread of   *)
(* its own java.util.Timer.  newSequenceNumber and sendAndRetry take no    *)
(* lock.                                                                   *)
(*                                                                         *)
(* Each map operation is taken to be atomic, and no send to throw.         *)
(***************************************************************************)
EXTENDS Integers, FiniteSets

CONSTANTS
    DataPacket,         \* packets that threads of the application send
    SyncPacket,         \* SYNs and SYN-ACKs, sent by the receiver thread
    MaxRetransmit,      \* MAX_RETRANSMIT_COUNT, 5 in the program
    Absent              \* no entry in a map

ASSUME SocketThreadsAssumption ==
    /\ IsFiniteSet(DataPacket) /\ IsFiniteSet(SyncPacket)
    /\ DataPacket \cap SyncPacket = {}
    /\ MaxRetransmit \in Nat \ {0}
    /\ Absent \notin Nat

VARIABLES
    counter,        \* lastUsedSequenceNumber of the other node, or Absent
    unacked,        \* sentButNoAck of the other node, or Absent
    member,         \* whether it is in the network
    stage,          \* what the thread that works on a packet does next
    number,         \* the sequence number read for a packet, -1 before
    tries           \* the tries left for a packet, the next timer's retries

vars == <<counter, unacked, member, stage, number, tries>>
maps == <<counter, unacked, member>>

Packet == DataPacket \cup SyncPacket

\* newSequenceNumber, sendAndRetry, the timer and removeFromNetwork.
Numbering == {"look", "start", "read", "write"}
Sending == {"transmit", "check", "create", "record"}
GivingUp == {"forget", "renumber", "leave"}

Init ==
    /\ counter = Absent
    /\ unacked = Absent
    /\ member = FALSE
    /\ stage = [p \in Packet |-> "new"]
    /\ number = [p \in Packet |-> -1]
    /\ tries = [p \in Packet |-> MaxRetransmit]

\* The thread working on p finds its next step to be s, and takes it to t.
At(p, s, t) == stage[p] = s /\ stage' = [stage EXCEPT ![p] = t]

\* The receiver thread is in the middle of sending p, or has died of it.
OnReceiver(p) ==
    /\ p \in SyncPacket
    /\ stage[p] \in Numbering \cup Sending \cup {"failed"}
    /\ tries[p] = MaxRetransmit

ReceiverIsFree == ~ \E p \in Packet : OnReceiver(p)

----------------------------------------------------------------------------
\* SocketImpl.send looks for the destination in the network; a SYN or a
\* SYN-ACK is sent to anyone.
Begin(p) ==
    /\ IF p \in SyncPacket THEN ReceiverIsFree ELSE member
    /\ At(p, "new", "look")
    /\ UNCHANGED <<maps, number, tries>>

\* newSequenceNumber: containsKey,
Look(p) ==
    /\ At(p, "look", IF counter = Absent THEN "start" ELSE "read")
    /\ UNCHANGED <<maps, number, tries>>

\* put of 0,
Start(p) ==
    /\ At(p, "start", "read")
    /\ counter' = 0
    /\ UNCHANGED <<unacked, member, number, tries>>

\* get, which throws when the entry has gone,
Read(p) ==
    /\ At(p, "read", IF counter = Absent THEN "failed" ELSE "write")
    /\ number' = [number EXCEPT ![p] = IF counter = Absent THEN @ ELSE counter]
    /\ UNCHANGED <<maps, tries>>

\* Seeded fault: put of the entry plus one, whatever has become of it.
FaultyWritten(p) == IF counter = Absent THEN 0 ELSE counter + 1

Written(p) == number[p] + 1

\* and put of the result plus one.
Write(p) ==
    /\ At(p, "write", "transmit")
    /\ counter' = Written(p)
    /\ UNCHANGED <<unacked, member, number, tries>>

\* sendAndRetry: the packet goes out,
Transmit(p) ==
    /\ At(p, "transmit", "check")
    /\ UNCHANGED <<maps, number, tries>>

\* there may be no set of unacknowledged numbers,
Check(p) ==
    /\ At(p, "check", IF unacked = Absent THEN "create" ELSE "record")
    /\ UNCHANGED <<maps, number, tries>>

\* so that a new one is put,
Create(p) ==
    /\ At(p, "create", "record")
    /\ unacked' = {}
    /\ UNCHANGED <<counter, member, number, tries>>

\* Seeded fault: only the first try is followed by a timer.
FaultyRecorded(p) == IF tries[p] = MaxRetransmit THEN "waiting" ELSE "done"

Recorded(p) == "waiting"

\* the number is added and a timer set; or get returns null, which throws.
Record(p) ==
    /\ At(p, "record", IF unacked = Absent THEN "failed" ELSE Recorded(p))
    /\ unacked' = IF unacked = Absent THEN unacked ELSE unacked \cup {number[p]}
    /\ UNCHANGED <<counter, member, number, tries>>

----------------------------------------------------------------------------
\* AckAwaitTimerTask.run: under the lock it finds the number or not; without
\* it the packet is sent again, or its receiver given up.

IsUnacked(p) == unacked # Absent /\ number[p] \in unacked

\* Seeded fault: the last timer does nothing.
FaultyAfterTimer(p) == IF tries[p] > 1 /\ IsUnacked(p) THEN "transmit" ELSE "done"

\* Seeded fault: one try too many.
LateAfterTimer(p) ==
    IF ~IsUnacked(p) THEN "done" ELSE IF tries[p] > 0 THEN "transmit" ELSE "forget"

AfterTimer(p) ==
    IF ~IsUnacked(p) THEN "done" ELSE IF tries[p] > 1 THEN "transmit" ELSE "forget"

Wake(p) ==
    /\ At(p, "waiting", AfterTimer(p))
    /\ tries' = [tries EXCEPT ![p] = IF IsUnacked(p) THEN @ - 1 ELSE @]
    /\ UNCHANGED <<maps, number>>

\* removeFromNetwork: three maps, one after the other.
Forget(p) ==
    /\ At(p, "forget", "renumber")
    /\ unacked' = Absent
    /\ UNCHANGED <<counter, member, number, tries>>

Renumber(p) ==
    /\ At(p, "renumber", "leave")
    /\ counter' = Absent
    /\ UNCHANGED <<unacked, member, number, tries>>

Leave(p) ==
    /\ At(p, "leave", "gone")
    /\ member' = FALSE
    /\ UNCHANGED <<counter, unacked, number, tries>>

----------------------------------------------------------------------------
\* The receiver thread.  An ACK of a packet that was sent comes at any time,
\* or never if it is lost, and again for each copy that was sent.

IsSent(p) ==
    \/ stage[p] \notin {"new", "transmit", "failed"} \cup Numbering
    \/ tries[p] < MaxRetransmit
    \/ stage[p] = "failed" /\ number[p] # -1

\* AcknowledgementHandler; an ACK that finds no number has no effect.
ReceiveAck(p) ==
    /\ ReceiverIsFree
    /\ IsSent(p) /\ IsUnacked(p)
    /\ unacked' = unacked \ {number[p]}
    /\ UNCHANGED <<counter, member, stage, number, tries>>

\* addToNetwork, at the end of a handshake; on a member it has no effect.
Join ==
    /\ ReceiverIsFree
    /\ ~member
    /\ member' = TRUE
    /\ UNCHANGED <<counter, unacked, stage, number, tries>>

----------------------------------------------------------------------------

NextNumber(p) == Look(p) \/ Start(p) \/ Read(p) \/ Write(p)
SendAndRetry(p) == Transmit(p) \/ Check(p) \/ Create(p) \/ Record(p)
GiveUp(p) == Forget(p) \/ Renumber(p) \/ Leave(p)
Run(p) == NextNumber(p) \/ SendAndRetry(p) \/ Wake(p) \/ GiveUp(p)

Next ==
    \/ \E p \in Packet : Begin(p) \/ Run(p) \/ ReceiveAck(p)
    \/ Join

Spec == Init /\ [][Next]_vars

\* A thread that has begun goes on, and a timer that is set runs.  Nobody
\* need send or answer.
FairSpec == Spec /\ \A p \in Packet : WF_vars(Run(p))

----------------------------------------------------------------------------

TypeOK ==
    /\ counter \in Nat \cup {Absent}
    /\ unacked \in (SUBSET Nat) \cup {Absent}
    /\ member \in BOOLEAN
    /\ stage \in [Packet -> Numbering \cup Sending \cup GivingUp \cup
                            {"new", "waiting", "failed", "done", "gone"}]
    /\ number \in [Packet -> Nat \cup {-1}]
    /\ tries \in [Packet -> 0..MaxRetransmit]

GivenUp == \E p \in Packet : stage[p] \in {"renumber", "leave", "gone"}

\* However the threads read and write the counter over one another, they
\* never skip a number while the other node is not given up: it would wait
\* for that number for ever, and take no later one.  (Two packets may get
\* one number.)
NumbersHaveNoGaps ==
    ~GivenUp => \A p \in Packet :
        \A s \in 0..number[p] : \E q \in Packet : number[q] = s

\* Every number in sentButNoAck has a thread, or a timer that is set, that
\* has still to look at it, whatever other threads put, take out or throw
\* away the set in between: the number is sent again or its receiver given
\* up.
WaitingHasTimer ==
    unacked # Absent => \A s \in unacked : \E p \in Packet :
        number[p] = s /\ stage[p] \in Sending \cup {"waiting", "forget"}

\* A number does not stay in sentButNoAck for ever, not even when its ACK
\* was there before it, or came between the timer's look and the next send.
EveryWaitEnds ==
    \A s \in 0..Cardinality(Packet) - 1 :
        (unacked # Absent /\ s \in unacked) ~> ~(unacked # Absent /\ s \in unacked)
=============================================================================
