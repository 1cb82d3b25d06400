------------------------------ MODULE ByteStream ------------------------------
(***************************************************************************)
(* What the output queue of a client promises (src/buffer_queue.c): the    *)
(* socket gets the bytes that were queued, in order, each once.  Byte n of *)
(* the stream is the n-th byte ever queued, counting from 0.               *)
(***************************************************************************)
EXTENDS Naturals, Sequences

VARIABLES
    put,  \* how many bytes have been queued
    got   \* the bytes the socket has taken

vars == <<put, got>>

\* The bytes from position a up to position b.
Bytes(a, b) == [i \in 1..(b - a) |-> a + i - 1]

Init == put = 0 /\ got = <<>>

Put == put' \in Nat /\ put' >= put /\ UNCHANGED got

Take ==
    /\ \E b \in (Len(got) + 1)..put : got' = got \o Bytes(Len(got), b)
    /\ UNCHANGED put

Next == Put \/ Take

Spec == Init /\ [][Next]_vars
=============================================================================
