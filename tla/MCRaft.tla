-------------------------------- MODULE MCRaft --------------------------------
EXTENDS Raft

CONSTANTS p0, p1, p2

(* Three requests of one leader; two, or one of each of two peers, through *)
(* a change of leader; elections over two terms while a follower has a     *)
(* request to forward.                                                     *)
OneLeader == [term |-> 0, requests |-> [p \in Peers |-> IF p = p0 THEN 3 ELSE 0]]
Requests2 == [term |-> 1, requests |-> [p \in Peers |-> IF p = p0 THEN 2 ELSE 0]]
Mixed == [term |-> 1, requests |-> [p \in Peers |-> IF p = p2 THEN 0 ELSE 1]]
Elections2 == [term |-> 2, requests |-> [p \in Peers |-> IF p = p1 THEN 1 ELSE 0]]

Scenarios == {OneLeader, Requests2, Mixed, Elections2}
=============================================================================
