-------------------------------- MODULE MCPbft --------------------------------
EXTENDS Pbft

Scenario(n, b, i, d, v, s, r) ==
  [size |-> n, byzantine |-> b, interval |-> i, duplicates |-> d,
   views |-> v, seqs |-> s, requests |-> r]

(* Two requests, a checkpoint over both and a view change with four        *)
(* correct members; one request with checkpoints that are duplicated; four *)
(* and five members of which the first equivocates.                        *)
FourAndFive ==
  { Scenario(4, 0, 2, FALSE, 1, 2, 2), Scenario(4, 0, 1, TRUE, 1, 1, 1),
    Scenario(4, 1, 1, FALSE, 1, 1, 1), Scenario(5, 1, 1, FALSE, 1, 1, 1) }
=============================================================================
