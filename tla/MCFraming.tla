------------------------------ MODULE MCFraming ------------------------------
(* Instances of Framing for TLC: numbers have up to three characters, and    *)
(* messages three to five bytes.                                             *)
EXTENDS Framing

Good(h, n) == [head |-> h, number |-> n, len |-> h + n, good |-> TRUE]

AllKinds ==
    { Good(2, 3), Good(2, 5), Good(3, 4),
      [Good(2, 4) EXCEPT !.good = FALSE],
      Good(2, 2), Good(2, 9),
      [head |-> 2, number |-> -1, len |-> 4, good |-> TRUE],
      [head |-> 5, number |-> 3, len |-> 8, good |-> TRUE] }
=============================================================================
