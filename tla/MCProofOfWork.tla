---------------------------- MODULE MCProofOfWork ----------------------------
EXTENDS ProofOfWork

Scenario(r, n, b, l, s, m) ==
  [rule |-> r, peers |-> n, parasites |-> b, lead |-> l, submits |-> s, mines |-> m]

(* A branch is at most as long as there are transactions: two peers with   *)
(* branches of three blocks under each rule and with one parasite; three   *)
(* peers, of which none or two are parasites, with two transactions that   *)
(* several of them mine.                                                   *)
TwoAndThree ==
  { Scenario("Bitcoin", 2, 0, 1, 3, 4), Scenario("Ethereum", 2, 0, 1, 3, 4),
    Scenario("Bitcoin", 2, 1, 2, 3, 4), Scenario("Bitcoin", 3, 0, 1, 2, 3),
    Scenario("Bitcoin", 3, 2, 2, 2, 3) }
=============================================================================
