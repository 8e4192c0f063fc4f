--------------------------- MODULE MCNetworkClient ---------------------------
EXTENDS NetworkClient

(* Two peers, of which only peer 0 has a neighbour. *)
OneWay == [p \in Peers |-> IF p = 0 THEN {1} ELSE {}]

Never == {FALSE}
Maybe == BOOLEAN
=============================================================================
