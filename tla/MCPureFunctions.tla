-------------------------- MODULE MCPureFunctions --------------------------
(***************************************************************************)
(* The emoticons of the program, for PureFunctions, and the inputs it      *)
(* begins with.                                                            *)
(***************************************************************************)
EXTENDS PureFunctions

\* Bytes of the clock about to carry into, or change sign in, the next one.
ByteBoundaries == {0, 30900, 65400, 8388608 - 900, 1398000000}

Characters == {"(", ")", "o", "^", ".", "\\", "=", "@", "-", "n", "d", "/", "O", ",", "_", "T", "0"}

\* EMOTICONS, in the order of the program.
Codes == {
    <<"(", "o", "^", ".", "^", "o", ")">>,
    <<"(", "=", "@", "=", ")">>,
    <<"(", "^", "o", "^", ")">>,
    <<"(", "\\", "-", ".", "-", ")">>,
    <<"(", "n", "o", "d", ")">>,
    <<"(", "\\", "^", ".", "^", "/", ")">>,
    <<"(", "-", ".", "-", ")">>,
    <<"(", "^", "o", "^", "\\", ")">>,
    <<"(", "O", ".", ")">>,
    <<"(", "o", "^", "o", ")">>,
    <<"(", "\\", ",", "/", ")">>,
    <<"(", "=", "_", "=", ")">>,
    <<"(", "^", ".", "^", ")">>,
    <<"(", "T", "0", "T", ")">>,
    <<"(", "\\", "^", "o", "^", ")">> }

\* What is typed, enough for the shortest code, and what is clicked: codes
\* that begin or end alike.
SomeKeys == {"(", "O", ".", ")"}
SomeButtons == {c \in Codes : c[2] \in {"o", "O"}}
=============================================================================
