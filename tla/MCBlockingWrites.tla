--------------------------- MODULE MCBlockingWrites ---------------------------
(* Instances of BlockingWrites for TLC. *)
EXTENDS BlockingWrites

CONSTANTS s1, s2, s3, c1, c2

\* A chain of three servers, a chat client at both ends.
Chain == {{s1, s2}, {s2, s3}}

ChainHome == [c \in Clients |-> IF c = c1 THEN s1 ELSE s3]
=============================================================================
