--------------------------- MODULE MCTcpCoordinator ---------------------------
EXTENDS TcpCoordinator

Scenario(r, n, e, t, m, x) ==
  [requested |-> r, total |-> n, experiments |-> e, time |-> t,
   messages |-> m, restarts |-> x]

(* Two experiments of two processes that exchange messages, and of three   *)
(* processes; a process too many; two experiments with a timer next to     *)
(* peers that stop by themselves, where a starter of the first may still   *)
(* be at work in the second; a follower that is restarted, where the peers *)
(* stop the run and where a timer does.                                    *)
Small ==
  { Scenario(<<1, 1>>, 2, 2, FALSE, 1, 0), Scenario(<<1, 1, 1>>, 3, 2, FALSE, 0, 0),
    Scenario(<<1, 1, 2>>, 2, 1, FALSE, 1, 0), Scenario(<<2, 1>>, 3, 2, TRUE, 0, 0),
    Scenario(<<1, 1>>, 2, 1, FALSE, 0, 1), Scenario(<<1, 1>>, 2, 1, TRUE, 0, 1) }
=============================================================================
