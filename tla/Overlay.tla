-------------------------------- MODULE Overlay --------------------------------
(***************************************************************************)
(* KademliaPeer and LinearChordPeer route lookups over a topology that one *)
(* of the backends has built.  A lookup changes nothing but itself, so one *)
(* lookup per behaviour stands for all; rounds and channel delays only     *)
(* decide when it moves.  Kademlia draws its finger of a group at random   *)
(* when performComputation first runs; a lookup visits no peer twice       *)
(* (LookupsEnd), so the model draws the finger when the lookup needs it.   *)
(***************************************************************************)
EXTENDS Topology, FiniteSetsExt

CONSTANTS
  Configs,  \* [cfg, backend, random, protocol] to explore
  MaxHops,  \* bound: the hops a lookup is followed for
  None      \* NO_PEER_ID

ASSUME OverlayAssumption ==
  /\ MaxHops \in Nat
  /\ None \notin Int
  /\ \A c \in Configs :
       /\ c.backend \in {"abstract", "boostmq", "tcp"} /\ c.random \in BOOLEAN
       /\ c.protocol \in {"kademlia", "chord"}

VARIABLES
  config,
  order,   \* order[p]: the numbering peer p got its neighbours from
  phase,   \* "start", "rejected", "built"
  nbrs,    \* the neighbours of every peer
  links,   \* those it can send to
  lookup

vars == <<config, order, phase, nbrs, links, lookup>>

cfg == config.cfg
All == Peers(cfg)

(***************************************************************************)
(* Ids as bits and on the ring.                                            *)
(***************************************************************************)
(* s_binaryIdSize *)
IdSize == CHOOSE b \in 1 .. cfg.n + 1 :
            2 ^ b >= cfg.n /\ \A c \in 1 .. b - 1 : 2 ^ c < cfg.n

Bit(x, k) == (x \div 2 ^ k) % 2

(* The bits in which two ids differ *)
Differing(a, b) == { k \in 0 .. IdSize - 1 : Bit(a, k) # Bit(b, k) }

(* firstDifferentBit, counted from the lowest bit, or None *)
Group(a, b) == IF a = b THEN None ELSE Max(Differing(a, b))

xorDistance(a, b) == MapThenSumSet(LAMBDA k : 2 ^ k, Differing(a, b))

(* The way from a to b clockwise: the index of an id on the ring is the id *)
Clockwise(a, b) == (b + cfg.n - a) % cfg.n

(***************************************************************************)
(* Routing: the next hop of peer p for target t, or None.                  *)
(***************************************************************************)
(* The element of S with the least distance D *)
Least(S, D) == CHOOSE q \in S : \A r \in S : D[q] <= D[r]

(* selectFingerForGroup, and rebuildFingerTable: the finger of a group is  *)
(* any neighbour in it                                                     *)
Fingers(p, g) == { q \in nbrs[p] \ {p} : Group(p, q) = g }

selectClosestByDistance(p, t) ==
  LET closer == { q \in nbrs[p] : xorDistance(q, t) < xorDistance(p, t) } IN
  IF closer = {} THEN None ELSE Least(closer, [q \in All |-> xorDistance(q, t)])

(* Mutant of findRoute: any finger will do. *)
findAnyRoute(p, t) == nbrs[p] \ {p}

(* findRoute: the peers the lookup may go to next *)
findRoute(p, t) ==
  LET F == Fingers(p, Group(p, t)) IN
  IF F # {} THEN F ELSE {selectClosestByDistance(p, t)}

(* buildFingerTable of LinearChordPeer, from the skip to the peer *)
FingerTable(p) ==
  [s \in { 2 ^ k : k \in { j \in 0 .. IdSize : 2 ^ j <= cfg.n - 1 } } |-> (p + s) % cfg.n]

(* Mutant of selectFinger: the longest finger, past the target as well. *)
selectLongestFinger(p, t) ==
  LET table == FingerTable(p)
      useful == { s \in DOMAIN table : table[s] \in nbrs[p] } IN
  IF useful = {} THEN None ELSE table[Max(useful)]

selectFinger(p, t) ==
  LET table == FingerTable(p)
      useful == { s \in DOMAIN table : table[s] \in nbrs[p] /\ s <= Clockwise(p, t) } IN
  IF useful = {} THEN None ELSE table[Max(useful)]

(* chooseClockwiseNeighbor: the next one on the ring, past the target if   *)
(* there is none before it                                                 *)
chooseClockwiseNeighbor(p, t) ==
  LET others == nbrs[p] \ {p}
      before == { q \in others : Clockwise(p, q) <= Clockwise(p, t) } IN
  IF others = {} THEN None
  ELSE Least(IF before # {} THEN before ELSE others, [q \in All |-> Clockwise(p, q)])

(* The choices of the next hop; None is no hop *)
NextHops(p, t) ==
  IF config.protocol = "kademlia" THEN findRoute(p, t)
  ELSE LET f == selectFinger(p, t) IN
       {IF f # None THEN f ELSE chooseClockwiseNeighbor(p, t)}

(***************************************************************************)
(* Steps.                                                                  *)
(***************************************************************************)
Identity == [k \in All |-> k]
Shuffles == { f \in [All -> All] : \A i, j \in All : i # j => f[i] # f[j] }

Init ==
  /\ config \in Configs
  /\ order \in IF ~config.random THEN { [p \in All |-> Identity] }
               ELSE IF config.backend = "tcp" THEN [All -> Shuffles]
               ELSE { [p \in All |-> f] : f \in Shuffles }
  /\ phase = "start"
  /\ nbrs = [p \in All |-> {}]
  /\ links = nbrs
  /\ lookup = None

(* The backend builds the topology. *)
InitNetwork ==
  /\ phase = "start"
  /\ IF config.backend = "boostmq" /\ ~Accepted(cfg)
     THEN phase' = "rejected" /\ UNCHANGED <<nbrs, links>>
     ELSE /\ phase' = "built"
          /\ nbrs' = CASE config.backend = "abstract" -> AbstractNeighbors(cfg, order[0])
                       [] config.backend = "boostmq" -> PlannedNeighbors(cfg, order[0])
                       [] config.backend = "tcp" -> TcpNeighbors(cfg, order)
          /\ links' = IF config.backend = "abstract" THEN AbstractLinks(cfg, order[0])
                      ELSE nbrs'
  /\ UNCHANGED <<config, order, lookup>>

(* Peer p, which has the lookup l, sends it on: a lookup without a next    *)
(* hop, or with one p cannot send to, is gone.                             *)
Forward(p, l) ==
  \E q \in NextHops(p, l.target) :
    lookup' = IF q \in links[p] \ {p} THEN [l EXCEPT !.at = q, !.hops = @ + 1]
              ELSE [l EXCEPT !.state = "gone"]

Satisfied(l) == [l EXCEPT !.state = "satisfied"]

(* endOfRound picks a peer, which submits a lookup for any target;         *)
(* pickRandomTarget of LinearChord avoids the peer itself.                 *)
SubmitLookup(p, t) ==
  /\ phase = "built" /\ lookup = None
  /\ config.protocol = "chord" /\ cfg.n > 1 => t # p
  /\ LET l == [at |-> p, target |-> t, hops |-> 0, state |-> "flying"] IN
     IF t = p THEN lookup' = Satisfied(l)
     ELSE Forward(p, l)
  /\ UNCHANGED <<config, order, phase, nbrs, links>>

(* handleLookup of the peer the lookup has reached *)
HandleLookup ==
  /\ lookup # None
  /\ lookup.state = "flying" /\ lookup.hops < MaxHops
  /\ IF lookup.at = lookup.target
     THEN lookup' = Satisfied(lookup)
     ELSE Forward(lookup.at, lookup)
  /\ UNCHANGED <<config, order, phase, nbrs, links>>

Next ==
  \/ InitNetwork
  \/ \E p, t \in All : SubmitLookup(p, t)
  \/ HandleLookup

Spec == Init /\ [][Next]_vars

(* The round engine keeps stepping the peers: a lookup in flight is        *)
(* handled.                                                                *)
FairSpec == Spec /\ WF_vars(HandleLookup)

(***************************************************************************)
(* Properties.                                                             *)
(***************************************************************************)
(* Neighbours are peers of the topology, and so are the places a lookup    *)
(* gets to (addNeighbor, handleLookup).                                    *)
TypeOK ==
  /\ config \in Configs /\ phase \in {"start", "rejected", "built"}
  /\ nbrs \in [All -> SUBSET All] /\ links \in [All -> SUBSET All]
  /\ lookup # None =>
       /\ lookup.at \in All /\ lookup.target \in All /\ lookup.hops \in 0 .. MaxHops
       /\ lookup.state \in {"flying", "satisfied", "gone"}

(* The graph of E, numbered by f, is the one README.md describes. *)
IsDocumented(E, f) ==
  \A i, j \in All : f[j] \in E[f[i]] <=> Documented(cfg, i, j)

(* Every backend builds the documented topology out of a configuration     *)
(* that BoostMQ's preflight accepts, and its peers can send to all their   *)
(* neighbours (initNetwork, createInitialChannels, buildTopology).         *)
TopologyAsDocumented ==
  phase = "built" /\ Accepted(cfg) =>
    /\ IsDocumented(nbrs, order[0])
    /\ links = nbrs

(* With random identifiers the links of the simulator are those of the     *)
(* type under the new numbering (initNetwork: shuffling "forces the        *)
(* algorithm to work with arbitrary ID assignments").                      *)
ShuffledTopology ==
  phase = "built" => \E f \in Shuffles : IsDocumented(links, f)

(* Where a lookup must find its target: every peer knows every other, or,  *)
(* for the ring of LinearChord, its successor.                             *)
Navigable ==
  cfg.type \in IF config.protocol = "chord"
               THEN {"complete", "ring", "unidirectionalRing"} ELSE {"complete"}

(* In a complete graph of n peers a lookup needs at most as many hops as   *)
(* an id has bits.                                                         *)
LogarithmicHops ==
  lookup # None /\ cfg.type = "complete" /\ links = nbrs => lookup.hops <= IdSize

(* Where the topology allows it every lookup reaches its target; on other  *)
(* topologies those of Kademlia end, at the target or where no neighbour   *)
(* is closer.                                                              *)
LookupsEnd ==
  /\ lookup # None /\ Navigable ~> lookup # None /\ lookup.state = "satisfied"
  /\ lookup # None /\ config.protocol = "kademlia"
       ~> lookup # None /\ lookup.state \in {"satisfied", "gone"}
=============================================================================
