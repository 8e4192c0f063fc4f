--------------------------------- MODULE Pbft ---------------------------------
(***************************************************************************)
(* PBFTPeer: a leader orders requests in three phases, replicas whose      *)
(* timer runs out move to the next view, and an EquivocateFault makes a    *)
(* replica send one version of a message to every second member and        *)
(* another version to the rest.                                            *)
(*                                                                         *)
(* pbft[p] is the PBFTConsensus object of replica p.  msgs is every        *)
(* message multicast or stored by its sender; to is the set of replicas    *)
(* whose _receivedMessages may hold it.  A message is delivered late,      *)
(* twice or never: an action that needs messages may happen once they were *)
(* sent, and a run of performComputation before they arrive changes        *)
(* nothing.  For the same reason the pruning of old log entries, which     *)
(* are never looked up again, is left out, and the consecutive runPhase    *)
(* calls of one round are consecutive actions.  A timer may run out in any *)
(* round.                                                                  *)
(*                                                                         *)
(* Of _unhandledRequests only the own request is kept: a leader submits    *)
(* one when the queue is empty, so it stays in front of everything that    *)
(* arrives later, and any request of another replica may arrive first, or  *)
(* arrive after it was confirmed.                                          *)
(***************************************************************************)
EXTENDS Naturals, Sequences, FiniteSets

CONSTANTS
  Scenarios,  \* the configurations to explore, each with its bounds
  None        \* no request

(* size and byzantine are the numbers of members and of faulty ones,       *)
(* interval the checkpointInterval, and duplicates says whether channels   *)
(* may duplicate a packet; views, seqs and requests bound the views, the   *)
(* requests a replica confirms and the requests it submits.                *)
ASSUME PbftAssumption ==
  Scenarios \subseteq [size : Nat \ {0}, byzantine : Nat, interval : Nat \ {0},
                       duplicates : BOOLEAN, views : Nat, seqs : Nat, requests : Nat]

VARIABLES
  config,  \* the scenario of this behaviour
  pbft,
  msgs

vars == <<config, pbft, msgs>>

Members == 0 .. config.size - 1

(* initParameters: the first byzantine_count peers get an EquivocateFault, *)
(* whose quorumA and quorumB alternate.                                    *)
Faulty == 0 .. config.byzantine - 1
QuorumA == { p \in Members : p % 2 = 0 }
QuorumB == Members \ QuorumA

Init ==
  /\ config \in Scenarios
  /\ pbft = [p \in Members |->
              [ view |-> 0, phase |-> "PrePrepare", confirmed |-> <<>>,
                own |-> None, nextId |-> 0, lastStable |-> 0, anchor |-> 0 ]]
  /\ msgs = {}

f == (config.size - 1) \div 3

(* Mutant of Quorum: 2f messages are enough. *)
QuorumTooSmall(S) == Cardinality(S) >= 2 * f

(* The tests "> quorum()" *)
Quorum(S) == Cardinality(S) > 2 * f

leaderFor(v) == v % config.size

nextSeq(s) == Len(s.confirmed)
-----------------------------------------------------------------------------
(* The messages that carry a proposal, and the two versions of one. *)
Proposal(type, p, v, n, req) ==
  [type |-> type, from |-> p, view |-> v, seq |-> n, req |-> req]

Checkpoint(p, s) ==
  [type |-> "checkpoint", from |-> p, view |-> s.view, seq |-> nextSeq(s),
   digest |-> [state |-> [i \in 1 .. nextSeq(s) |-> s.confirmed[i].req],
               flip |-> FALSE]]

Version(m, flip) ==
  IF m.type = "checkpoint" THEN [m EXCEPT !.digest.flip = flip]
                           ELSE [m EXCEPT !.req.flip = flip]

To(m, S) == [msg |-> m, to |-> S]

(* multicast, with EquivocateFault::onSend, and the copy of the original   *)
(* message that the sender puts into its own log.                          *)
multicast(p, m) ==
  IF p \in Faulty /\ m.type \in {"pre-prepare", "prepare", "commit", "checkpoint"}
  THEN { To(m, {p}), To(Version(m, FALSE), QuorumA \ {p}),
         To(Version(m, TRUE), QuorumB \ {p}) }
  ELSE { To(m, Members) }

(* The messages of a type with key [n][v] that the log of p may hold.      *)
Log(p, type, n, v) ==
  { m \in { e.msg : e \in { g \in msgs : p \in g.to } } :
      m.type = type /\ m.seq = n /\ m.view = v }

(* Mutant of Senders: the digests are not compared. *)
SendersOfAnything(p, type, n, v, req) == { m.from : m \in Log(p, type, n, v) }

(* The senders of matching prepares or commits: countPrepares and          *)
(* countCommits.                                                           *)
Senders(p, type, n, v, req) ==
  { m.from : m \in { g \in Log(p, type, n, v) : g.req = req } }

hasPrePrepare(p, v, n, req) ==
  \E m \in Log(p, "pre-prepare", n, v) : m.req = req /\ m.from = leaderFor(v)

isPrepared(p, v, n, req) ==
  hasPrePrepare(p, v, n, req) /\ Quorum(Senders(p, "prepare", n, v, req))

isCommitted(p, v, n, req) == Quorum(Senders(p, "commit", n, v, req))

(* stableCheckpointReady: matching digests of the current view.  The tally *)
(* counts messages, so that copies of one make a quorum.                   *)
stableCheckpointReady(p, s) ==
  \E d \in { m.digest : m \in Log(p, "checkpoint", nextSeq(s), s.view) } :
    \/ config.duplicates
    \/ Quorum({ m.from : m \in { g \in Log(p, "checkpoint", nextSeq(s), s.view) :
                                   g.digest = d } })

(* maybeStableCheckpoint, which every runPhase calls first: the object it  *)
(* may leave, depending on the checkpoints that have arrived.              *)
maybeStableCheckpoint(p) ==
  LET s == pbft[p] IN
  {s} \cup (IF nextSeq(s) % config.interval = 0 /\ stableCheckpointReady(p, s)
            THEN { [s EXCEPT !.lastStable = nextSeq(s)] } ELSE {})
-----------------------------------------------------------------------------
(* The object of p becomes s and it has sent and stored M, within the      *)
(* bounds.                                                                 *)
Becomes(p, s, M) ==
  /\ s.view <= config.views /\ nextSeq(s) <= config.seqs /\ s.nextId <= config.requests
  /\ pbft' = [pbft EXCEPT ![p] = s]
  /\ msgs' = msgs \cup M
  /\ UNCHANGED config

(* The requests that replicas other than p have submitted. *)
Foreign(p) ==
  { r \in { [by |-> q, id |-> i, flip |-> FALSE] :
              q \in Members \ {p}, i \in 0 .. config.requests - 1 } :
      r.id < pbft[r.by].nextId }

(* The front of _unhandledRequests, submitRequest included: the object and *)
(* the request the leader proposes.                                        *)
Front(p, s) ==
  IF s.own # None THEN { <<s, s.own>> }
  ELSE { <<s, r>> : r \in Foreign(p) }
       \cup { LET r == [by |-> p, id |-> s.nextId, flip |-> FALSE] IN
              << [s EXCEPT !.own = r, !.nextId = @ + 1], r >> }

(* Mutant of Propose: the leader sends a prepare, too. *)
ProposeAndPrepare(p) ==
  /\ pbft[p].phase = "PrePrepare" /\ p = leaderFor(pbft[p].view)
  /\ nextSeq(pbft[p]) < config.seqs
  /\ \E s \in maybeStableCheckpoint(p) :
       \E q \in Front(p, s) :
         Becomes(p, [q[1] EXCEPT !.phase = "Prepare"],
                 multicast(p, Proposal("pre-prepare", p, s.view, nextSeq(s), q[2]))
                 \cup multicast(p, Proposal("prepare", p, s.view, nextSeq(s), q[2])))

(* PBFTPrePreparePhase, the leader *)
Propose(p) ==
  /\ pbft[p].phase = "PrePrepare" /\ p = leaderFor(pbft[p].view)
  /\ nextSeq(pbft[p]) < config.seqs
  /\ \E s \in maybeStableCheckpoint(p) :
       \E q \in Front(p, s) :
         Becomes(p, [q[1] EXCEPT !.phase = "Prepare"],
                 multicast(p, Proposal("pre-prepare", p, s.view, nextSeq(s), q[2])))

(* PBFTPrePreparePhase, a follower that has a pre-prepare of the leader *)
SendPrepare(p) ==
  /\ pbft[p].phase = "PrePrepare" /\ p # leaderFor(pbft[p].view)
  /\ \E s \in maybeStableCheckpoint(p) :
       \E pp \in Log(p, "pre-prepare", nextSeq(s), s.view) :
         /\ pp.from = leaderFor(s.view)
         /\ Becomes(p, [s EXCEPT !.phase = "Prepare"],
                    multicast(p, [pp EXCEPT !.type = "prepare", !.from = p]))

(* PBFTPreparePhase: the pre-prepare may be of any replica, as long as the *)
(* leader sent the same one.                                               *)
SendCommit(p) ==
  /\ pbft[p].phase = "Prepare"
  /\ \E s \in maybeStableCheckpoint(p) :
       \E pp \in Log(p, "pre-prepare", nextSeq(s), s.view) :
         /\ isPrepared(p, s.view, nextSeq(s), pp.req)
         /\ Becomes(p, [s EXCEPT !.phase = "Commit"],
                    multicast(p, [pp EXCEPT !.type = "commit", !.from = p]))

(* sendCheckpoint *)
sendCheckpoint(p, s) ==
  IF nextSeq(s) % config.interval = 0 THEN multicast(p, Checkpoint(p, s)) ELSE {}

(* PBFTCommitPhase; the request leaves the queue if it is there unaltered. *)
Decide(p) ==
  /\ pbft[p].phase = "Commit"
  /\ \E s \in maybeStableCheckpoint(p) :
       \E pp \in Log(p, "pre-prepare", nextSeq(s), s.view) :
         /\ pp.from = leaderFor(s.view)
         /\ isCommitted(p, s.view, nextSeq(s), pp.req)
         /\ LET t == [s EXCEPT !.confirmed = Append(@, [req |-> pp.req, view |-> s.view]),
                               !.own = IF @ = pp.req THEN None ELSE @,
                               !.phase = "PrePrepare"] IN
            Becomes(p, t, sendCheckpoint(p, t))
-----------------------------------------------------------------------------
(* The pre-prepares of sequence number n that p may find prepared in view  *)
(* v, as preparedProof holds them.                                         *)
Proofs(p, n, v) ==
  { [seq |-> n, view |-> v, req |-> m.req] :
      m \in { g \in Log(p, "pre-prepare", n, v) : isPrepared(p, v, n, g.req) } }

(* The choices of at most one element of G[n] for each n. *)
Selections(G, N) ==
  { S \in SUBSET UNION { G[n] : n \in N } : \A x, y \in S : x.seq = y.seq => x = y }

(* requestViewChange, when the timer has run out in any phase *)
requestViewChange(p) ==
  /\ pbft[p].view < config.views
  /\ \E s \in maybeStableCheckpoint(p) :
    LET N == (s.lastStable + 1) .. (nextSeq(s) - 1) IN
    \E proof \in Selections([n \in N |-> Proofs(p, n, s.view)], N) :
      Becomes(p, [s EXCEPT !.view = @ + 1, !.anchor = s.lastStable,
                           !.phase = "ViewChange"],
              multicast(p, [type |-> "viewChange", from |-> p, view |-> s.view,
                            seq |-> s.lastStable, proof |-> proof]))

(* The view-change messages for the view of s at its anchor. *)
ViewChanges(p, s) == Log(p, "viewChange", s.anchor, s.view - 1)

(* The preparedProof of the new view, from the view changes Q. *)
BestProofs(Q, s) ==
  LET all == { x \in UNION { m.proof : m \in Q } : x.seq > s.lastStable } IN
  { S \in Selections([n \in 1 .. config.seqs |-> { x \in all : x.seq = n }], 1 .. config.seqs) :
      \A x \in all : \E y \in S : y.seq = x.seq /\ y.view >= x.view }

(* PBFTViewChangePhase; the new leader announces the view. *)
EnterNewView(p) ==
  /\ pbft[p].phase = "ViewChange"
  /\ \E s \in maybeStableCheckpoint(p) :
       \E Q \in SUBSET ViewChanges(p, s) :
         /\ Quorum({ m.from : m \in Q })
         /\ IF p = leaderFor(s.view)
            THEN \E proof \in BestProofs(Q, s) :
                   Becomes(p, [s EXCEPT !.phase = "NewView"],
                           multicast(p, [type |-> "newView", from |-> p, view |-> s.view,
                                         seq |-> s.anchor, proof |-> proof]))
            ELSE Becomes(p, [s EXCEPT !.phase = "NewView"], {})

(* PBFTNewViewPhase: every replica issues the pre-prepares of the new view *)
(* under its own name.                                                     *)
InstallView(p) ==
  /\ pbft[p].phase = "NewView"
  /\ Quorum({ m.from : m \in ViewChanges(p, pbft[p]) })
  /\ \E s \in maybeStableCheckpoint(p) :
       \E nv \in Log(p, "newView", s.anchor, s.view) :
         /\ nv.from = leaderFor(s.view)
         /\ Becomes(p, [s EXCEPT !.phase = "PrePrepare"],
                    UNION { multicast(p, Proposal("pre-prepare", p, s.view, x.seq, x.req)) :
                              x \in nv.proof })

(* A run in which the phase finds nothing to do. *)
OnlyCheckpoint(p) == \E s \in maybeStableCheckpoint(p) : Becomes(p, s, {})

Next ==
  \E p \in Members :
    \/ Propose(p) \/ SendPrepare(p) \/ SendCommit(p) \/ Decide(p)
    \/ requestViewChange(p) \/ EnterNewView(p) \/ InstallView(p)
    \/ OnlyCheckpoint(p)

Spec == Init /\ [][Next]_vars
-----------------------------------------------------------------------------
Honest == Members \ Faulty

Requests == [by : Members, id : 0 .. config.requests - 1, flip : BOOLEAN]

(* The objects have the shape PBFTConsensus declares.                      *)
TypeOK ==
  \A p \in Members : LET s == pbft[p] IN
    /\ s.view \in 0 .. config.views
    /\ s.phase \in {"PrePrepare", "Prepare", "Commit", "ViewChange", "NewView"}
    /\ s.confirmed \in Seq([req : Requests, view : 0 .. config.views])
    /\ s.own \in Requests \cup {None} /\ s.nextId \in 0 .. config.requests
    /\ s.lastStable \in 0 .. nextSeq(s) /\ s.anchor \in 0 .. s.lastStable

(* Requests p and q have both confirmed. *)
Common(p, q) == 1 .. (IF nextSeq(pbft[p]) < nextSeq(pbft[q]) THEN nextSeq(pbft[p])
                                                             ELSE nextSeq(pbft[q]))

Sent == { e.msg : e \in msgs }

(* Correct replicas send commits for one request only at a sequence number *)
(* of a view: two versions of a proposal cannot both be prepared.  That    *)
(* takes two quorums of the size - 1 followers that share a correct one,   *)
(* which they do with n = 3f + 1 members, or one more, and f faulty ones.  *)
PreparedOnce ==
  config.size + config.byzantine <= 4 * f + 2 =>
    \A g, h \in Sent :
      /\ g.type = "commit" /\ h.type = "commit" /\ g.seq = h.seq /\ g.view = h.view
      /\ g.from \in Honest /\ h.from \in Honest
      => g.req = h.req

(* Where the followers must all prepare (with one, two or four members),   *)
(* correct replicas confirm the same requests in the same order, also      *)
(* across view changes.  A new view takes over nothing about the sequence  *)
(* number that was being decided, so this rests on the replica that has    *)
(* already decided: it never prepares that number again.  Already with     *)
(* five members it is false.                                               *)
Agreement ==
  config.size <= 2 * f + 2 /\ config.byzantine <= 2 * f =>
    \A p, q \in Honest : \A i \in Common(p, q) :
      pbft[p].confirmed[i].req = pbft[q].confirmed[i].req

(* Unless packets are duplicated, a replica's stable checkpoint is backed  *)
(* by enough correct replicas that have confirmed as many requests and the *)
(* same ones.  Whether the replica itself confirmed those requests is not  *)
(* compared: that is left to Agreement.                                    *)
StableIsShared ==
  \A p \in Honest : LET n == pbft[p].lastStable IN
    n > 0 /\ ~config.duplicates =>
      \E Q \in SUBSET Honest :
        /\ Cardinality(Q) + config.byzantine > 2 * f
        /\ \A q \in Q : nextSeq(pbft[q]) >= n
        /\ \A q, r \in Q : \A i \in 1 .. n :
             pbft[q].confirmed[i].req = pbft[r].confirmed[i].req

(* No correct replica confirms a request nobody submitted and, where the   *)
(* members that may get the altered version of a proposal are one short of *)
(* a quorum without its sender, none confirms an altered one: the          *)
(* faultyConfirmed that endOfRound reports comes from faulty replicas.     *)
(* With six members, of which one equivocates, it need not.                *)
OnlySubmitted ==
  \A p \in Honest : \A i \in 1 .. nextSeq(pbft[p]) :
    LET r == pbft[p].confirmed[i].req IN
    /\ r.id < pbft[r.by].nextId
    /\ config.byzantine <= 2 * f /\ Cardinality(QuorumB \cup Faulty) <= 2 * f + 1
       => ~r.flip
=============================================================================
