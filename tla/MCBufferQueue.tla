---------------------------- MODULE MCBufferQueue ----------------------------
(* Instances of BufferQueue for TLC. *)
EXTENDS BufferQueue

\* [len] [cmd] [NUL] [data], the data empty or not, and a line of the console.
ChatMessages == {<<1, 1, 1, 2>>, <<1, 1, 1, 0>>, <<1, 0, 1, 1>>, <<2>>}
=============================================================================
