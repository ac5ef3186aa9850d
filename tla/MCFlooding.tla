----------------------------- MODULE MCFlooding -----------------------------
(***************************************************************************)
(* A network for Flooding: the diamond of the four devices the program was *)
(* written for, where a and d do not hear each other.                      *)
(***************************************************************************)
EXTENDS Flooding

CONSTANTS a, b, c, d

Four == {a, b, c, d}

BothWays(R) == R \cup {<<r[2], r[1]>> : r \in R}

Diamond == {<<n, n>> : n \in Four} \cup BothWays({<<a, b>>, <<a, c>>, <<b, d>>, <<c, d>>})

\* Two milliseconds, and a third whose nonce has the hash of the first.
Clocks == {0, 1, 8191}
OneMillisecond == {0}
=============================================================================
