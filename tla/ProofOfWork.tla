----------------------------- MODULE ProofOfWork -----------------------------
(***************************************************************************)
(* BitcoinPeer and EthereumPeer on the PoW ledger, and the ParasiteFault.  *)
(*                                                                         *)
(* ledger[p] is the PoW object of peer p: the blocks it has heard of with  *)
(* the parent and the recorded height of each, the _children lists in      *)
(* their order, and the best tip.  A miner names exactly one parent, so    *)
(* the recorded blocks are a forest, of which only the tree of the genesis *)
(* block has a full ancestry.  The parasite flag of a block is only        *)
(* reported and is left out, so registering a known block changes nothing. *)
(*                                                                         *)
(* A hash is written <<miner, transaction, number>>.  The code has the     *)
(* round in the last place; a peer mines at most once per round and the    *)
(* number of the block stands for that round.                              *)
(*                                                                         *)
(* One performComputation is any number of Receive steps followed by at    *)
(* most one SubmitTransaction and one MineBlock of the peer.  Peers share  *)
(* nothing but messages and a message sent in a round arrives in a later   *)
(* one, so the steps of different peers interleave freely.  mail[p] is     *)
(* every message sent to p; it arrives late, in any order, more than once  *)
(* or never.  A broadcast reaches everyone: the peers do not relay.        *)
(***************************************************************************)
EXTENDS Naturals, Sequences, FiniteSets, TLC, SequencesExt

CONSTANT Scenarios  \* the configurations to explore, each with its bounds

(* rule selects PoWBitcoin or PoWEthereum, the first parasites of the      *)
(* peers get a ParasiteFault with leadThreshold lead; submits and mines    *)
(* bound the transactions and the blocks of all peers together.            *)
ASSUME ProofOfWorkAssumption ==
  Scenarios \subseteq [rule : {"Bitcoin", "Ethereum"}, peers : Nat \ {0},
                       parasites : Nat, lead : Nat, submits : Nat, mines : Nat]

VARIABLES
  config,
  ledger,
  queue,      \* queue[p]: the transactions p may put into a block
  known,      \* known[p]: _knownTransactions
  mail,
  submitted,  \* submitted[p]: _localSubmitted
  mined,      \* mined[p]: minedBlocks
  hidden,     \* hidden[p]: the blocks in the _privateChain of p's fault
  public      \* public[p]: its _publicHeight

vars == <<config, ledger, queue, known, mail, submitted, mined, hidden, public>>

Peers == 1 .. config.peers
Parasites == 1 .. config.parasites
Honest == Peers \ Parasites

Genesis == <<>>

NewLedger ==
  [parent |-> <<>>, height |-> (Genesis :> 0), children |-> (Genesis :> <<>>),
   best |-> Genesis]

Init ==
  /\ config \in Scenarios
  /\ ledger = [p \in Peers |-> NewLedger]
  /\ queue = [p \in Peers |-> <<>>]
  /\ known = [p \in Peers |-> {}]
  /\ mail = [p \in Peers |-> {}]
  /\ submitted = [p \in Peers |-> 0]
  /\ mined = [p \in Peers |-> 0]
  /\ hidden = [p \in Peers |-> {}]
  /\ public = [p \in Peers |-> 0]

-----------------------------------------------------------------------------
(* The ledger *)

Blocks(l) == DOMAIN l.height

(* The hashes on the way from h up to the first block that is not known.   *)
Ancestors(l, h) ==
  LET up[i \in 0 .. Cardinality(Blocks(l))] ==
        IF i = 0 THEN {h}
        ELSE up[i - 1] \cup { l.parent[b] : b \in up[i - 1] \cap DOMAIN l.parent }
  IN  up[Cardinality(Blocks(l))]

isAncestor(l, a, h) == a # h /\ a \in Ancestors(l, h)

hasFullAncestry(l, h) == Ancestors(l, h) \subseteq Blocks(l)

subtreeSize(l, h) == Cardinality({ b \in Blocks(l) : h \in Ancestors(l, b) })

(* The order of the hash strings: digits come before "GENESIS".            *)
hashLess(g, h) ==
  g # Genesis /\ (h = Genesis \/ \E i \in 1 .. 3 : g[i] < h[i] /\ \A j \in 1 .. i - 1 : g[j] = h[j])

higherOrLess(l, candidate, incumbent) ==
  \/ l.height[candidate] > l.height[incumbent]
  \/ l.height[candidate] = l.height[incumbent] /\ hashLess(candidate, incumbent)

heavierOrHigher(l, candidate, incumbent) ==
  LET w == subtreeSize(l, candidate)
      v == subtreeSize(l, incumbent)
  IN  w > v \/ (w = v /\ higherOrLess(l, candidate, incumbent))

(* Mutant of preferCandidate: Ethereum's rule without the test for a       *)
(* descendant.                                                             *)
preferCandidateByWeight(l, candidate, incumbent) ==
  IF config.rule = "Bitcoin"
    THEN higherOrLess(l, candidate, incumbent)
    ELSE heavierOrHigher(l, candidate, incumbent)

preferCandidate(l, candidate, incumbent) ==
  IF config.rule = "Bitcoin"
    THEN higherOrLess(l, candidate, incumbent)
    ELSE \/ isAncestor(l, incumbent, candidate)
         \/ /\ ~ isAncestor(l, candidate, incumbent)
            /\ heavierOrHigher(l, candidate, incumbent)

recomputeHeight(l, h) ==
  [l EXCEPT !.height[h] = IF l.parent[h] \in Blocks(l) THEN l.height[l.parent[h]] + 1 ELSE 0]

maybePromoteBest(l, h) ==
  IF hasFullAncestry(l, h) /\ h # l.best /\ preferCandidate(l, h, l.best)
    THEN [l EXCEPT !.best = h]
    ELSE l

(* The queue of propagateUpdates holds the subtree level by level.         *)
BreadthFirst(l, root) ==
  LET level[i \in 0 .. Cardinality(Blocks(l))] ==
        IF i = 0 THEN <<root>>
        ELSE FlattenSeq([j \in DOMAIN level[i - 1] |-> l.children[level[i - 1][j]]])
  IN  FlattenSeq([i \in 1 .. Cardinality(Blocks(l)) |-> level[i - 1]])

(* Mutant of propagateUpdates: an orphan is not looked at again when its   *)
(* parent arrives.                                                         *)
propagateToRoot(l, root) == maybePromoteBest(recomputeHeight(l, root), root)

(* The tip has a full ancestry ever after it was promoted, so              *)
(* ensureBestValid finds nothing to do.                                    *)
propagateUpdates(l, root) ==
  FoldLeft(LAMBDA m, h : maybePromoteBest(recomputeHeight(m, h), h), l, BreadthFirst(l, root))

childrenOf(l, h) == IF h \in DOMAIN l.children THEN l.children[h] ELSE <<>>

registerBlock(l, h, parent) ==
  IF h \in Blocks(l) THEN l
  ELSE propagateUpdates(
         [l EXCEPT !.parent = (h :> parent) @@ @,
                   !.height = (h :> 0) @@ @,
                   !.children = (parent :> Append(childrenOf(l, parent), h)) @@ (h :> childrenOf(l, h)) @@ @],
         h)

-----------------------------------------------------------------------------
(* The peers *)

Total(n) == FoldLeft(LAMBDA x, y : x + y, 0, [p \in Peers |-> n[p]])

TransactionMessage(tx) == [type |-> "transaction", transaction |-> tx]
BlockMessage(h, parent, tx) == [type |-> "block", hash |-> h, parent |-> parent, transaction |-> tx]

Sent(messages, to) == [p \in Peers |-> IF p \in to THEN mail[p] \cup messages ELSE mail[p]]

(* The branch of runProtocolStep under guardSubmit; a transaction is its   *)
(* submitter and that peer's count.                                        *)
SubmitTransaction(p) ==
  /\ Total(submitted) < config.submits
  /\ LET tx == <<p, submitted[p] + 1>>
     IN  /\ submitted' = [submitted EXCEPT ![p] = @ + 1]
         /\ queue' = [queue EXCEPT ![p] = Append(@, tx)]
         /\ known' = [known EXCEPT ![p] = @ \cup {tx}]
         /\ mail' = Sent({TransactionMessage(tx)}, Peers \ {p})
  /\ UNCHANGED <<config, ledger, mined, hidden, public>>

ReceiveTransaction(p, m) ==
  /\ m.type = "transaction"
  /\ m.transaction \notin known[p]
  /\ known' = [known EXCEPT ![p] = @ \cup {m.transaction}]
  /\ queue' = [queue EXCEPT ![p] = Append(@, m.transaction)]
  /\ UNCHANGED ledger

(* Mutant of ReceiveBlock: the transaction stays in the queue.             *)
ReceiveBlockKeeps(p, m) ==
  /\ m.type = "block"
  /\ ledger' = [ledger EXCEPT ![p] = registerBlock(@, m.hash, m.parent)]
  /\ known' = [known EXCEPT ![p] = @ \cup {m.transaction}]
  /\ UNCHANGED queue

ReceiveBlock(p, m) ==
  /\ m.type = "block"
  /\ ledger' = [ledger EXCEPT ![p] = registerBlock(@, m.hash, m.parent)]
  /\ known' = [known EXCEPT ![p] = @ \cup {m.transaction}]
  /\ queue' = [queue EXCEPT ![p] = RemoveFirst(@, m.transaction)]

Receive(p) ==
  /\ \E m \in mail[p] : ReceiveTransaction(p, m) \/ ReceiveBlock(p, m)
  /\ UNCHANGED <<config, mail, submitted, mined, hidden, public>>

(* Highest first, the smaller hash among equals.                           *)
Foremost(l, messages) ==
  CHOOSE m \in messages : \A n \in messages \ {m} : higherOrLess(l, m.hash, n.hash)

(* selectPrivateParents, or the tip where there is no private chain.       *)
ParentForNextBlock(p) ==
  IF hidden[p] = {} THEN ledger[p].best ELSE Foremost(ledger[p], hidden[p]).hash

(* The branch of runProtocolStep under guardMine: the first transaction of *)
(* the queue goes into a block.                                            *)
NextBlock(p) ==
  BlockMessage(<<p, Head(queue[p])[2], mined[p] + 1>>, ParentForNextBlock(p), Head(queue[p]))

WithNextBlock(p) == registerBlock(ledger[p], NextBlock(p).hash, NextBlock(p).parent)

Mine(p) ==
  /\ queue[p] # <<>>
  /\ Total(mined) < config.mines
  /\ mined' = [mined EXCEPT ![p] = @ + 1]
  /\ queue' = [queue EXCEPT ![p] = Tail(@)]
  /\ ledger' = [ledger EXCEPT ![p] = WithNextBlock(p)]
  /\ UNCHANGED <<config, known, submitted>>

MineBlock(p) ==
  /\ p \in Honest
  /\ Mine(p)
  /\ mail' = Sent({NextBlock(p)}, Peers \ {p})
  /\ UNCHANGED <<hidden, public>>

(* ParasiteFault::onSend: the block joins the private chain, which is      *)
(* released when it is lead blocks higher than the public one.  Nothing    *)
(* calls onReceive, so a fault learns neither the private blocks of its    *)
(* collaborators nor the public ones of the others: the first stay plain   *)
(* blocks of the ledger, and the public height is that of its own last     *)
(* release.                                                                *)
PrivateChain(p) == hidden[p] \cup {NextBlock(p)}
PrivateHeight(p) == LET l == WithNextBlock(p) IN l.height[Foremost(l, PrivateChain(p)).hash]

lead == IF config.lead > 1 THEN config.lead ELSE 1

WithholdBlock(p) ==
  /\ p \in Parasites
  /\ Mine(p)
  /\ PrivateHeight(p) < public[p] + lead
  /\ hidden' = [hidden EXCEPT ![p] = PrivateChain(p)]
  /\ mail' = Sent({NextBlock(p)}, Parasites \ {p})
  /\ UNCHANGED public

(* Mutant of ReleaseChain: only the newest block of the private chain is   *)
(* released.                                                               *)
ReleaseTip(p) ==
  /\ p \in Parasites
  /\ Mine(p)
  /\ PrivateHeight(p) >= public[p] + lead
  /\ hidden' = [hidden EXCEPT ![p] = {}]
  /\ public' = [public EXCEPT ![p] = PrivateHeight(p)]
  /\ mail' = Sent({NextBlock(p)}, Peers \ {p})

ReleaseChain(p) ==
  /\ p \in Parasites
  /\ Mine(p)
  /\ PrivateHeight(p) >= public[p] + lead
  /\ hidden' = [hidden EXCEPT ![p] = {}]
  /\ public' = [public EXCEPT ![p] = PrivateHeight(p)]
  /\ mail' = Sent(PrivateChain(p), Peers \ {p})

Next ==
  \E p \in Peers :
    SubmitTransaction(p) \/ Receive(p) \/ MineBlock(p) \/ WithholdBlock(p) \/ ReleaseChain(p)

Spec == Init /\ [][Next]_vars

-----------------------------------------------------------------------------
(* endOfRound of the last round: the ledgers of all peers merged.          *)

AllBlocks == UNION { Blocks(ledger[p]) : p \in Peers }

Merged ==
  [ parent |-> [h \in AllBlocks \ {Genesis} |->
                  ledger[CHOOSE p \in Peers : h \in Blocks(ledger[p])].parent[h]],
    height |-> [h \in AllBlocks |-> 0] ]

(* The length of the only path from the genesis block to each block.       *)
computedHeight == LET l == Merged IN [h \in AllBlocks |-> Cardinality(Ancestors(l, h)) - 1]

minedBlocks == Cardinality(AllBlocks) - 1

(* The chain that continues with the heaviest child at every fork.         *)
ghostPath ==
  LET l == Merged
      childrenIn(h) == { c \in DOMAIN l.parent : l.parent[c] = h }
      heavier(c, d) == subtreeSize(l, c) > subtreeSize(l, d)
                         \/ (subtreeSize(l, c) = subtreeSize(l, d) /\ hashLess(c, d))
      at[i \in 0 .. minedBlocks] ==
        IF i = 0 THEN Genesis
        ELSE IF childrenIn(at[i - 1]) = {} THEN at[i - 1]
        ELSE CHOOSE c \in childrenIn(at[i - 1]) : \A d \in childrenIn(at[i - 1]) \ {c} : heavier(c, d)
  IN  at

longestChain ==
  IF config.rule = "Bitcoin"
    THEN Max(Range(computedHeight))
    ELSE computedHeight[ghostPath[minedBlocks]]

SeenByAll == { h \in AllBlocks : \A p \in Peers : h \in Blocks(ledger[p]) }

(* Mutant of commonRoot: of equally high blocks the one with the larger    *)
(* hash.                                                                   *)
commonRootOfLarger ==
  LET height == computedHeight
  IN  CHOOSE h \in SeenByAll : \A g \in SeenByAll \ {h} :
        height[g] < height[h] \/ (height[g] = height[h] /\ hashLess(g, h))

commonRoot ==
  LET height == computedHeight
  IN  CHOOSE h \in SeenByAll : \A g \in SeenByAll \ {h} :
        height[g] < height[h] \/ (height[g] = height[h] /\ hashLess(h, g))

forkPoints ==
  LET parent == Merged.parent
  IN  Cardinality({ h \in AllBlocks : \E c, d \in DOMAIN parent : c # d /\ parent[c] = h /\ parent[d] = h })

-----------------------------------------------------------------------------
(* Properties *)

(* The containers of a peer fit together: the tip is a recorded block,     *)
(* every recorded block has its list of children, and only known           *)
(* transactions are queued (PoW, _knownTransactions).                      *)
TypeOK ==
  /\ config \in Scenarios
  /\ \A p \in Peers :
       /\ ledger[p].best \in Blocks(ledger[p])
       /\ Blocks(ledger[p]) = DOMAIN ledger[p].parent \cup {Genesis}
       /\ Blocks(ledger[p]) \subseteq DOMAIN ledger[p].children
       /\ ToSet(queue[p]) \subseteq known[p]
       /\ mined[p] \in Nat /\ submitted[p] \in Nat /\ public[p] \in Nat
       /\ hidden[p] # {} => p \in Parasites

(* The distance of a connected block from the genesis block.               *)
Depth(l, h) == Cardinality(Ancestors(l, h)) - 1

(* The longest-chain rule (PoWBitcoin::preferCandidate, propagateUpdates), *)
(* with its tie-break "to keep behaviour stable across peers": the tip a   *)
(* Bitcoin peer mines on is connected to the genesis block, and no other   *)
(* connected block it knows is further from the genesis block, or as far   *)
(* with a smaller hash. Blocks and parents may arrive in any order, so two *)
(* peers that know the same blocks mine on the same tip.                   *)
LongestChain ==
  config.rule = "Bitcoin" =>
    \A p \in Peers :
      LET l == ledger[p]
          Before(h) == \/ Depth(l, h) > Depth(l, l.best)
                       \/ Depth(l, h) = Depth(l, l.best) /\ hashLess(h, l.best)
      IN  /\ hasFullAncestry(l, l.best)
          /\ \A h \in Blocks(l) : hasFullAncestry(l, h) => ~Before(h)

(* Under either rule a peer mines at the end of a branch: the tip is       *)
(* connected to the genesis block and no known block has it as its parent, *)
(* also after a whole subtree was adopted at once (propagateUpdates).      *)
TipIsALeaf ==
  \A p \in Peers :
    LET l == ledger[p]
    IN  hasFullAncestry(l, l.best) /\ l.children[l.best] = <<>>

BlocksSent == UNION { { m \in mail[p] : m.type = "block" } : p \in Peers }

(* No branch holds a transaction twice: a miner never takes from its queue *)
(* what a block it knows already holds (checkInStrm), although several     *)
(* peers queue the same transaction and mine it on different branches.     *)
BranchSpendsOnce ==
  LET l == Merged
  IN  \A m, n \in BlocksSent :
        m.transaction = n.transaction /\ m # n => ~ isAncestor(l, m.hash, n.hash)

(* "Release everything in height order so honest peers see a coherent      *)
(* alternative chain" (tryRelease), for a parasite without collaborators:  *)
(* the parent of every block sent to an honest peer was sent to it too, or *)
(* is its own.                                                             *)
CoherentRelease ==
  config.parasites <= 1 =>
    \A p \in Honest : \A m \in mail[p] :
      m.type = "block" =>
        \/ m.parent = Genesis \/ m.parent[1] = p
        \/ \E n \in mail[p] : n.type = "block" /\ n.hash = m.parent

(* The figures endOfRound reports agree with the ledgers they are computed *)
(* from: the longest chain of the merged ledgers is the one some Bitcoin   *)
(* peer mines on, when everyone knows the same blocks the common root is   *)
(* everyone's tip, and no fork is reported exactly when all blocks are on  *)
(* one chain.                                                              *)
ReportMatchesLedgers ==
  /\ (forkPoints = 0) <=> (minedBlocks = longestChain)
  /\ config.rule = "Bitcoin" =>
       /\ \E p \in Peers : longestChain = ledger[p].height[ledger[p].best]
       /\ SeenByAll = AllBlocks => \A p \in Peers : commonRoot = ledger[p].best
=============================================================================
