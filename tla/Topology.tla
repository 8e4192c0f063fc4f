------------------------------- MODULE Topology -------------------------------
(***************************************************************************)
(* The initial topologies as the three backends build them: Network        *)
(* (abstract), TopologyPlanner (boostmq) and ProcessCoordinator (tcp).     *)
(*                                                                         *)
(* A configuration cfg has the fields type, n (initialPeers), h and w      *)
(* (height and width) and list (the adjacency of userList).  Positions and *)
(* ids are both 0 .. n-1; order[k] is the id at position k, the identity   *)
(* unless "identifiers" is "random".                                       *)
(***************************************************************************)
EXTENDS Integers, FiniteSets

Peers(cfg) == 0 .. cfg.n - 1

(* Mutant of Wrapped: the last row and column are not connected back. *)
Unwrapped(h, w) ==
  { <<i * w + j, i * w + j + 1>> : i \in 0 .. h - 1, j \in 0 .. w - 2 }
    \cup { <<i * w + j, (i + 1) * w + j>> : i \in 0 .. h - 2, j \in 0 .. w - 1 }

(* The loops of torus: to the right and down, around the edges *)
Wrapped(h, w) ==
  { <<i * w + j, (i * w) + ((j + 1) % w)>> : i \in 0 .. h - 1, j \in 0 .. w - 1 }
    \cup { <<i * w + j, ((i + 1) % h) * w + j>> : i \in 0 .. h - 1, j \in 0 .. w - 1 }

(* The loops of grid *)
Grid(h, w) ==
  { <<i * w + j, i * w + j + 1>> : i \in 0 .. h - 1, j \in 0 .. w - 2 }
    \cup { <<i * w + j, (i + 1) * w + j>> : i \in 0 .. h - 2, j \in 0 .. w - 1 }

Chain(n) == { <<i, i + 1>> : i \in 0 .. n - 2 }

(* The pairs of positions a type connects in both directions *)
Pairs(type, n, h, w) ==
  CASE type = "complete" -> { e \in (0 .. n - 1) \X (0 .. n - 1) : e[1] < e[2] }
    [] type = "star" -> { <<0, i>> : i \in 1 .. n - 1 }
    [] type = "grid" -> Grid(h, w)
    [] type = "torus" -> Wrapped(h, w)
    [] type = "chain" -> Chain(n)
    [] type = "ring" -> Chain(n) \cup { <<n - 1, 0>> }
    [] OTHER -> {}

(* The pairs a type connects in one direction *)
Arcs(cfg) ==
  CASE cfg.type = "unidirectionalRing" -> Chain(cfg.n) \cup { <<cfg.n - 1, 0>> }
    [] cfg.type = "userList" -> { e \in Peers(cfg) \X Peers(cfg) : e[2] \in cfg.list[e[1]] }
    [] OTHER -> {}

Inverse2(E) == { <<e[2], e[1]>> : e \in E }
WithoutLoops(E) == { e \in E : e[1] # e[2] }

(* The neighbours of every id, when the edges E of positions are numbered  *)
(* by order                                                                *)
Numbered(cfg, E, order) ==
  [p \in Peers(cfg) |-> { order[e[2]] : e \in { d \in E : order[d[1]] = p } }]

(***************************************************************************)
(* Network::initNetwork.  userList adds the numbers of the list, not the   *)
(* ids at those positions; ring and unidirectionalRing of one peer have no *)
(* edge; a peer of a torus of width or height 1 is its own neighbour.      *)
(***************************************************************************)
AbstractNeighbors(cfg, order) ==
  LET E == Pairs(cfg.type, cfg.n, cfg.h, cfg.w)
      both == E \cup Inverse2(E) IN
  CASE cfg.type = "userList" ->
         [p \in Peers(cfg) |-> UNION { cfg.list[k] : k \in { i \in Peers(cfg) : order[i] = p } }]
    [] cfg.n = 1 /\ cfg.type \in {"ring", "unidirectionalRing"} -> [p \in Peers(cfg) |-> {}]
    [] OTHER -> Numbered(cfg, both \cup Arcs(cfg), order)

(* createInitialChannels: the peers p has an outbound channel to.  The     *)
(* neighbour, an id, is used as a position.                                *)
AbstractChannels(cfg, order) ==
  [p \in Peers(cfg) |-> { order[b] : b \in AbstractNeighbors(cfg, order)[p] }]

(* The neighbours unicastTo really reaches *)
AbstractLinks(cfg, order) ==
  [p \in Peers(cfg) |->
     AbstractNeighbors(cfg, order)[p] \cap AbstractChannels(cfg, order)[p]]

(***************************************************************************)
(* buildTopology of TopologyPlanner.                                       *)
(***************************************************************************)
Types == {"complete", "star", "grid", "torus", "chain", "ring",
          "unidirectionalRing", "userList"}

(* What it does not throw on *)
Accepted(cfg) ==
  /\ cfg.n > 0 /\ cfg.type \in Types
  /\ cfg.type \in {"grid", "torus"} => cfg.h > 0 /\ cfg.w > 0 /\ cfg.h * cfg.w = cfg.n
  /\ cfg.type = "torus" => cfg.h >= 2 /\ cfg.w >= 2
  /\ cfg.type = "userList" =>
       \A p \in Peers(cfg) : cfg.list[p] \subseteq Peers(cfg) \ {p}

PlannedNeighbors(cfg, order) ==
  LET E == WithoutLoops(Pairs(cfg.type, cfg.n, cfg.h, cfg.w)) IN
  Numbered(cfg, E \cup Inverse2(E) \cup Arcs(cfg), order)

(***************************************************************************)
(* buildTopology of the TCP backend: other dimensions than the peers fill  *)
(* become one row.  sendAssignmentToProcess calls it for every process, so *)
(* each process numbers its peers by a shuffle of its own: shuffle[p] is   *)
(* the one peer p got its neighbours from.                                 *)
(***************************************************************************)
TcpNeighbors(cfg, shuffle) ==
  LET fits == cfg.h * cfg.w = cfg.n
      E == WithoutLoops(Pairs(cfg.type, cfg.n, IF fits THEN cfg.h ELSE 1,
                                               IF fits THEN cfg.w ELSE cfg.n)) IN
  [p \in Peers(cfg) |->
     Numbered(cfg, E \cup Inverse2(E) \cup Arcs(cfg), shuffle[p])[p]]

(***************************************************************************)
(* What README.md says of the types, as a relation between positions.      *)
(***************************************************************************)
Apart(a, b, size) == (a - b) % size \in {1, size - 1}

Documented(cfg, i, j) ==
  LET ri == i \div cfg.w  ci == i % cfg.w  rj == j \div cfg.w  cj == j % cfg.w IN
  CASE cfg.type = "complete" -> i # j
    [] cfg.type = "star" -> i # j /\ 0 \in {i, j}
    [] cfg.type = "grid" -> (ri = rj /\ ci - cj \in {1, -1}) \/ (ci = cj /\ ri - rj \in {1, -1})
    [] cfg.type = "torus" -> i # j /\ ((ri = rj /\ Apart(ci, cj, cfg.w))
                                       \/ (ci = cj /\ Apart(ri, rj, cfg.h)))
    [] cfg.type = "chain" -> i - j \in {1, -1}
    [] cfg.type = "ring" -> i # j /\ Apart(i, j, cfg.n)
    [] cfg.type = "unidirectionalRing" -> i # j /\ (j - i) % cfg.n = 1
    [] OTHER -> j \in cfg.list[i]
=============================================================================
