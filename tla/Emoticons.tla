----------------------------- MODULE Emoticons -----------------------------
(***************************************************************************)
(* parseMessage and getEmoticon of app.js: a message is cut wherever the   *)
(* code of an emoticon begins or ends, and each part that is a code is     *)
(* shown as a picture.  The search goes on one character after a find, so  *)
(* that it finds every place where a code occurs, codes inside others      *)
(* included.                                                               *)
(*                                                                         *)
(* Messages and codes are sequences of characters; places are counted from *)
(* 0, as in the program.                                                   *)
(***************************************************************************)
EXTENDS Integers, Sequences, FiniteSets

CONSTANTS
    Char,           \* characters
    Code,           \* codes of EMOTICONS
    Left, Right     \* the parentheses

\* No code has a parenthesis but at its ends.  For codes that may overlap the
\* program has no rule which one counts.
ASSUME CodesAssumption ==
    /\ Code \subseteq Seq(Char)
    /\ Left # Right
    /\ \A c \in Code :
          /\ Len(c) >= 2
          /\ c[1] = Left
          /\ c[Len(c)] = Right
          /\ \A k \in 2..Len(c) - 1 : c[k] \notin {Left, Right}

Occurs(c, message, i) ==
    /\ i + Len(c) <= Len(message)
    /\ \A k \in 1..Len(c) : message[i + k] = c[k]

\* Seeded fault: no cut after a code.
FaultyIndices(message) ==
    {0, Len(message)} \cup {i \in 0..Len(message) : \E c \in Code : Occurs(c, message, i)}

\* Seeded fault: a code is only looked for in what follows the last find.
HastyIndices(message) ==
    {0, Len(message)} \cup
    {i \in 0..Len(message) : \E c \in Code :
        \/ Occurs(c, message, i) /\ \A j \in 0..i - 1 : ~Occurs(c, message, j)
        \/ i >= Len(c) /\ Occurs(c, message, i - Len(c))
              /\ \A j \in 0..i - Len(c) - 1 : ~Occurs(c, message, j)}

\* Where a message is cut.
Indices(message) ==
    {0, Len(message)} \cup
    {i \in 0..Len(message) : \E c \in Code :
        \/ Occurs(c, message, i)
        \/ i >= Len(c) /\ Occurs(c, message, i - Len(c))}

\* From one cut to the next.
Cuts(message) ==
    LET indices == Indices(message)
    IN  {lr \in indices \X indices :
            /\ lr[1] < lr[2]
            /\ \A i \in indices : i <= lr[1] \/ lr[2] <= i}

Part(str) == [type |-> IF str \in Code THEN "emoticon" ELSE "text", value |-> str]

\* The k-th cut from the left.
Nth(cuts, k) == CHOOSE lr \in cuts : Cardinality({ab \in cuts : ab[1] <= lr[1]}) = k

ParseMessage(message) ==
    LET cuts == Cuts(message)
    IN  [k \in 1..Cardinality(cuts) |->
            LET lr == Nth(cuts, k) IN Part(SubSeq(message, lr[1] + 1, lr[2]))]

\* addEmoticon, for what is in the field of a tab.
AddEmoticon(field, c) == field \o c
=============================================================================
