------------------------------ MODULE MCHopSizes ------------------------------
(* Instances of HopSizes for TLC, with the limits of the code.               *)
EXTENDS HopSizes

Names == [s \in 1..Last |-> 14 + s]

\* Both limits and what is next to them, a size that gets a digit on its way, and
\* sizes that the first, the second and no reader on a way of three drops.
AllSizes == {19, 20, 21, 97, 4130, 4133, 4134, 4140, 4145, 4191, 4192, 4193}
=============================================================================
