--------------------------- MODULE PureFunctions ---------------------------
(***************************************************************************)
(* The pure functions of the program, on inputs that grow step by step.    *)
(*                                                                         *)
(* Two senders count; what SeqNum says of the Java ints of their packets   *)
(* must be true of the counters, from every int the counting starts with.  *)
(* Or the clock of a source runs through stretches in which the higher     *)
(* bytes of its nonces change; what Nonce makes of them must differ.  Or a *)
(* user adds characters and emoticons to a message; what Emoticons shows   *)
(* must be what a reader sees.                                             *)
(***************************************************************************)
EXTENDS SeqNum, Nonce, Emoticons

CONSTANTS
    MaxCount,   \* bound: how far either counter goes
    Starts,     \* where the clock may start
    Stretch,    \* bound: milliseconds from a start
    Window,     \* milliseconds in which packets must be told apart
    MaxPieces,  \* bound: characters and emoticons in a message
    Keys,       \* the characters that may be typed
    Buttons     \* the emoticons that may be clicked

\* Two packets of one source that it builds 1800 milliseconds apart can have
\* the same hash.
ASSUME PureFunctionsAssumption ==
    /\ MaxCount \in Nat
    /\ Starts \subseteq Nat
    /\ Stretch \in Nat
    /\ Window \in Nat /\ Window <= 1800
    /\ MaxPieces \in Nat
    /\ Keys \subseteq Char
    /\ Buttons \subseteq Code

VARIABLES
    growing,        \* what grows: numbers, the clock or a message
    count, number,  \* how far the two senders have counted, and their ints
    start, clock,   \* of the source
    field, pieces   \* what is in the field of a tab, and of how many pieces

numbers == <<count, number>>
time == <<start, clock>>
writing == <<field, pieces>>
vars == <<growing, numbers, time, writing>>

Sender == 1..2

Init ==
    /\ count = [s \in Sender |-> 0]
    /\ field = <<>> /\ pieces = 0
    /\ \/ /\ growing = "numbers"
          /\ \E x \in SeqNums : number = [s \in Sender |-> x]
          /\ start = 0
       \/ /\ growing = "clock"
          /\ number = [s \in Sender |-> 0]
          /\ start \in Starts
       \/ /\ growing = "message"
          /\ number = [s \in Sender |-> 0]
          /\ start = 0
    /\ clock = start

Count(s) ==
    /\ growing = "numbers"
    /\ count[s] < MaxCount
    /\ count' = [count EXCEPT ![s] = @ + 1]
    /\ number' = [number EXCEPT ![s] = Succ(@)]
    /\ UNCHANGED <<growing, time, writing>>

Tick ==
    /\ growing = "clock"
    /\ clock < start + Stretch
    /\ clock' = clock + 1
    /\ UNCHANGED <<growing, numbers, start, writing>>

AddPiece ==
    /\ growing = "message"
    /\ pieces < MaxPieces
    /\ pieces' = pieces + 1
    /\ UNCHANGED <<growing, numbers, time>>

Type(key) == AddPiece /\ field' = Append(field, key)

Click(c) == AddPiece /\ field' = AddEmoticon(field, c)

Next ==
    \/ \E s \in Sender : Count(s)
    \/ Tick
    \/ \E key \in Keys : Type(key)
    \/ \E c \in Buttons : Click(c)

Spec == Init /\ [][Next]_vars

\* The number of packets between two that are less than half the circle
\* apart is what Util.differenceWithWrapAround says, wherever the wrap-around
\* lies, and RawPacket.compareTo puts them in the order of numbering, of two
\* with the same number each below the other.
ComparisonFollowsCounting ==
    count[1] - count[2] \in -HalfRange..HalfRange - 1 =>
        /\ DifferenceWithWrapAround(number[1], number[2]) = count[1] - count[2]
        /\ CompareTo(number[1], number[2]) = 1 <=> count[1] > count[2]

\* Packets a node makes at different milliseconds, less than Window apart,
\* have different hashes (RawPacket.hashCode), so that ReceiverThread takes
\* none for a copy of another.
HashTellsApart ==
    growing = "clock" =>
        \A d \in 1..Window - 1 : NonceHash(clock) # NonceHash(clock + d)

\* The parts of parseMessage, found by cutting at sorted indices, are those
\* that a reader sees from the left: put one after another they are the
\* message, nothing lost and nothing twice; every code that occurs is one of
\* them, shown as a picture, and what lies between the pictures is one text.
PartsAreAsRead ==
    LET parts == ParseMessage(field)
        end[k \in 0..Len(parts)] ==
            IF k = 0 THEN 0 ELSE end[k - 1] + Len(parts[k].value)
    IN  /\ end[Len(parts)] = Len(field)
        /\ \A k \in DOMAIN parts :
              /\ parts[k].value = SubSeq(field, end[k - 1] + 1, end[k])
              /\ parts[k].value # <<>>
              /\ \/ parts[k].type = "emoticon" /\ parts[k].value \in Code
                 \/ /\ parts[k].type = "text"
                    /\ k < Len(parts) => parts[k + 1].type = "emoticon"
        /\ \A c \in Code, i \in 0..Len(field) : Occurs(c, field, i) =>
              \E k \in DOMAIN parts :
                  end[k - 1] = i /\ parts[k] = [type |-> "emoticon", value |-> c]

\* An emoticon that is added with its button is shown as that picture, after
\* all that was there, whatever was typed before it.
ButtonAddsOnePicture ==
    [][\A c \in Buttons : Click(c) =>
          ParseMessage(field') = Append(ParseMessage(field), Part(c))]_vars
=============================================================================
