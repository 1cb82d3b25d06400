------------------------------ MODULE MCChatNet ------------------------------
(* Instances of ChatNet for TLC. *)
EXTENDS ChatNet, TLC

\* Connections are interchangeable (safety only).
Symmetry == Permutations(Conns)

\* Three servers in a row; the one in the middle accepts on both sides.
Row == {<<"a", "b">>, <<"c", "b">>}
\* Two servers, one link.
Pair == {<<"a", "b">>}
\* One chat client at either end of the row.
Homes == [c \in Clients |-> IF c = "ca" THEN "a" ELSE "c"]

\* m1, m2: broadcasts of ca; m3: ca to cc; m4: a broadcast of cc; bad: malformed.
Authors == [m \in Messages |-> IF m = "m4" THEN "cc" ELSE "ca"]
Receivers == [m \in Messages |-> IF m = "m3" THEN "cc" ELSE "all"]
=============================================================================
