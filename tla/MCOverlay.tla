------------------------------ MODULE MCOverlay ------------------------------
EXTENDS Overlay

Shape(t, n, h, w, l) == [type |-> t, n |-> n, h |-> h, w |-> w, list |-> l]
Plain(t, n) == Shape(t, n, 1, 1, <<>>)
Run(c, b, r, p) == [cfg |-> c, backend |-> b, random |-> r, protocol |-> p]

(* Four peers: 0 and 1 know each other, 1 knows 2, 2 knows 3, 3 knows 0.   *)
List == [p \in 0 .. 3 |-> {(p + 1) % 4} \cup IF p = 1 THEN {0} ELSE {}]

Shapes ==
  { Plain(t, n) : t \in {"complete", "star", "chain", "ring", "unidirectionalRing"},
                  n \in 2 .. 6 }
    \cup { Shape(t, d[1] * d[2], d[1], d[2], <<>>) :
             t \in {"grid", "torus"}, d \in {<<1, 3>>, <<2, 2>>, <<2, 3>>, <<3, 3>>} }
    \cup { Shape("userList", 4, 1, 1, List) }

(* All shapes with fixed ids in all backends, BoostMQ with shuffled ids    *)
(* too, and lookups among up to eight peers.                               *)
AllConfigs ==
  { Run(c, b, FALSE, p) : c \in Shapes \cup {Plain("complete", 7), Plain("complete", 8)},
                          b \in {"abstract", "boostmq", "tcp"}, p \in {"kademlia", "chord"} }
    \cup { Run(c, "boostmq", TRUE, "kademlia") : c \in { d \in Shapes : d.n <= 4 } }

(* Rings, chains and stars with random identifiers in the simulator *)
RandomIds ==
  { Run(Plain(t, n), "abstract", TRUE, "chord") :
      t \in {"star", "chain", "ring"}, n \in 3 .. 4 }
=============================================================================
