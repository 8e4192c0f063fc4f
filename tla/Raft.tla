--------------------------------- MODULE Raft ---------------------------------
(***************************************************************************)
(* RaftPeer: a leader replicates client requests one at a time; followers  *)
(* forward theirs to the leader and elect a new one when their timer runs  *)
(* out.  Requests are committed as a set: there is no log.                 *)
(*                                                                         *)
(* raft[p] is the RaftConsensus object of peer p; sent is every message it *)
(* has put on a channel.  A channel delivers each of them any number of    *)
(* times, in any order, or never (drop, duplicate, reorder and delay of    *)
(* Channel).  A timer may run out in any round, which covers every         *)
(* timeout, jitter and delay, and a crashed peer, which keeps its memory,  *)
(* is one that takes no steps for a while.                                 *)
(*                                                                         *)
(* A handler is an operator that takes the object s of peer p to what the  *)
(* handler leaves, the messages it sends included.  _candidate is never    *)
(* read; rounds and _confirmedTrans only serve the metrics.                *)
(***************************************************************************)
EXTENDS Naturals, Sequences, FiniteSets

CONSTANTS
  Peers,        \* the members of the committee
  FirstLeader,  \* the peer with id 0, which starts as the leader
  None,         \* NO_PEER_ID, and the key of no request
  Bounds        \* bounds to explore: the last term and, per peer, the requests

(* A request is identified by its submitter and the submitter's counter.   *)
Keys == UNION { {p} \X (0 .. b.requests[p] - 1) : p \in Peers, b \in Bounds }

ASSUME RaftAssumption ==
  /\ IsFiniteSet(Peers)
  /\ FirstLeader \in Peers
  /\ None \notin Peers /\ None \notin Peers \X Nat
  /\ Bounds \subseteq [term : Nat, requests : [Peers -> Nat]]

VARIABLES
  raft,
  bound  \* the bounds this behaviour stays within

vars == <<raft, bound>>

Init ==
  /\ bound \in Bounds
  /\ raft = [p \in Peers |->
           [ term |-> 0, leader |-> FirstLeader, votes |-> {},
             known |-> {}, committed |-> {}, deferred |-> <<>>, pending |-> <<>>,
             inFlight |-> None, replies |-> {}, nextId |-> 0, sent |-> {} ]]

(* The messages; to is the set of their addressees. *)
Elect(t) == [type |-> "elect", to |-> Peers, term |-> t]
Vote(o, t) == [type |-> "vote", to |-> {o}, term |-> t]
Replicate(k, t) == [type |-> "request", to |-> Peers, key |-> k, term |-> t]
Respond(o, k) == [type |-> "respondRequest", to |-> {o}, key |-> k]
Commit(k, t) == [type |-> "commit", to |-> Peers, key |-> k, term |-> t]
Forward(o, r) == [type |-> "Request", to |-> {o}, req |-> r]

(* A request as the queues of clients hold it: fwd is its "forwardedTo".   *)
Request(k, o) == [key |-> k, fwd |-> o]

(* Mutant of hasQuorum: half of the members are enough. *)
hasHalf(S) == 2 * Cardinality(S) >= Cardinality(Peers) - 1

(* hasQuorum, of the members other than the one that counts *)
hasQuorum(S) == Cardinality(S) > Cardinality(Peers) \div 2

(* Mutant of enqueueDeferred: a known request is queued again. *)
enqueueAgain(s, r) ==
  [s EXCEPT !.known = @ \cup {r.key}, !.deferred = Append(@, r)]

(* enqueueDeferred: every request is queued once in the life of a peer.    *)
enqueueDeferred(s, r) ==
  IF r.key \in s.known THEN s
  ELSE [s EXCEPT !.known = @ \cup {r.key}, !.deferred = Append(@, r)]

(* The elements of q at the positions L, in their order: the i-th of them  *)
(* is at the position up to which there are i positions of L.              *)
Kept(q, L) ==
  [i \in 1 .. Cardinality(L) |->
     q[CHOOSE j \in L : Cardinality({ h \in L : h <= j }) = i]]

(* tryForwardDeferredRequests: the leader takes the deferred requests for  *)
(* replication; a follower forwards those the leader has not got from it   *)
(* and keeps them until they are committed.                                *)
tryForwardDeferredRequests(p, s) ==
  LET live == Kept(s.deferred, { i \in 1 .. Len(s.deferred) :
                                   s.deferred[i].key \notin s.committed }) IN
  IF s.leader = p
  THEN [s EXCEPT !.deferred = <<>>,
                 !.pending = @ \o [i \in 1 .. Len(live) |-> live[i].key]]
  ELSE IF s.leader # None
  THEN [s EXCEPT
          !.deferred = [i \in 1 .. Len(live) |-> Request(live[i].key, s.leader)],
          !.sent = @ \cup { Forward(s.leader, live[i]) :
                              i \in { j \in 1 .. Len(live) : live[j].fwd # s.leader } }]
  ELSE [s EXCEPT !.deferred = live]

(* The loop of tryStartReplication: the first pending request that is not  *)
(* committed goes to the members, whatever is in flight.                   *)
startNext(s) ==
  LET live == { i \in 1 .. Len(s.pending) : s.pending[i] \notin s.committed } IN
  IF live = {} THEN [s EXCEPT !.pending = <<>>]
  ELSE LET i == CHOOSE j \in live : \A h \in live : j <= h IN
       [s EXCEPT !.pending = SubSeq(@, i + 1, Len(@)),
                 !.inFlight = s.pending[i],
                 !.replies = {},
                 !.sent = @ \cup {Replicate(s.pending[i], s.term)}]

(* A new request of p. *)
submit(p, s) ==
  enqueueDeferred([s EXCEPT !.nextId = @ + 1], Request(<<p, s.nextId>>, None))

(* tryStartReplication: a leader that has nothing pending submits a        *)
(* request of its own, which calls tryStartReplication in turn, and then   *)
(* runs the loop.                                                          *)
tryStartReplication(p, s) ==
  IF s.leader # p \/ s.inFlight # None THEN s
  ELSE IF s.pending # <<>> THEN startNext(s)
  ELSE startNext(startNext(tryForwardDeferredRequests(p, submit(p, s))))

(* onClientRequest, once the request has its key *)
onClientRequest(p, s) == tryStartReplication(p, tryForwardDeferredRequests(p, s))

(* resetReplicationState *)
resetReplicationState(s, requeueInFlight) ==
  [s EXCEPT
     !.pending = IF /\ s.inFlight # None /\ requeueInFlight
                    /\ s.inFlight \notin s.committed
                 THEN <<s.inFlight>> \o @ ELSE @,
     !.inFlight = None,
     !.replies = {}]

(* applyCommit: the replies to k are forgotten, k may stay in flight.      *)
applyCommit(s, k) ==
  [s EXCEPT
     !.committed = @ \cup {k},
     !.replies = IF s.inFlight = k THEN {} ELSE @,
     !.deferred = Kept(@, { i \in 1 .. Len(@) : s.deferred[i].key # k }),
     !.pending = Kept(@, { i \in 1 .. Len(@) : s.pending[i] # k })]

(* handleRequest: a request of a leader that is not behind is followed;    *)
(* every request is answered.                                              *)
handleRequest(o, s, m) ==
  LET changed == IF s.leader # o THEN resetReplicationState(s, FALSE) ELSE s
      follower == [changed EXCEPT !.term = m.term, !.leader = o, !.votes = {}]
      t == enqueueDeferred(IF s.term <= m.term THEN follower ELSE s,
                           Request(m.key, None)) IN
  [t EXCEPT !.sent = @ \cup {Respond(o, m.key)}]

(* confirmRequest *)
confirmRequest(p, s, k) ==
  LET t == applyCommit(s, k) IN
  tryStartReplication(p, [t EXCEPT !.sent = @ \cup {Commit(k, t.term)},
                                   !.inFlight = None])

(* Mutant of Awaited: the answer may be to any request. *)
AnyAnswer(p, s, m) == s.leader = p /\ s.inFlight # None

(* The early returns of handleRespond are not taken. *)
Awaited(p, s, m) == s.leader = p /\ s.inFlight # None /\ m.key = s.inFlight

(* handleRespond: the last answer of a quorum commits the request.         *)
handleRespond(p, o, s, m) ==
  LET t == [s EXCEPT !.replies = @ \cup {o}] IN
  IF ~Awaited(p, s, m) \/ o \in s.replies THEN s
  ELSE IF hasQuorum(t.replies) THEN confirmRequest(p, t, s.inFlight)
  ELSE t

(* handleVote: neither the term of the vote nor whether p is still a       *)
(* candidate is looked at.                                                 *)
handleVote(p, o, s) ==
  LET t == [s EXCEPT !.votes = @ \cup {o}]
      elected == resetReplicationState([t EXCEPT !.leader = p, !.votes = {}], TRUE) IN
  IF s.leader = p \/ o \in s.votes THEN s
  ELSE IF hasQuorum(t.votes)
  THEN tryStartReplication(p, tryForwardDeferredRequests(p, elected))
  ELSE t

(* Mutant of NewTerm: a second candidate of the term gets a vote too. *)
SameTerm(s, m) == m.term >= s.term

(* The early return of handleElect is not taken. *)
NewTerm(s, m) == m.term > s.term

(* handleElect: the first candidate of a new term gets the vote.           *)
handleElect(o, s, m) ==
  LET t == resetReplicationState(s, TRUE) IN
  IF ~NewTerm(s, m) THEN s
  ELSE [t EXCEPT !.term = m.term, !.leader = None, !.votes = {},
                 !.sent = @ \cup {Vote(o, m.term)}]

(* handleCommit: the term is adopted, the leader is not.                   *)
handleCommit(s, m) ==
  applyCommit([s EXCEPT !.term = IF m.term > @ THEN m.term ELSE @], m.key)

(* maybeStartElection, when the timer has run out *)
maybeStartElection(s) ==
  LET t == resetReplicationState(s, TRUE) IN
  [t EXCEPT !.leader = None, !.term = @ + 1, !.votes = {},
            !.sent = @ \cup {Elect(s.term + 1)}]

(* tick, with the outcome of the submission draw and of the timer          *)
tick(p, s, submits, expired) ==
  LET t == IF submits THEN onClientRequest(p, submit(p, s)) ELSE s
      u == IF expired THEN maybeStartElection(t) ELSE t IN
  tryForwardDeferredRequests(p, u)
-----------------------------------------------------------------------------
(* The object of p becomes s, within the bounds. *)
Becomes(p, s) ==
  /\ s.term <= bound.term /\ s.nextId <= bound.requests[p]
  /\ raft' = [raft EXCEPT ![p] = s]
  /\ UNCHANGED bound

(* The messages of a type that the channel from o may deliver to p.        *)
Inbox(p, o, type) == { m \in raft[o].sent : m.type = type /\ p \in m.to }

(* One iteration of the loop of performComputation for each message type.  *)
ReceiveRequest(p, o) ==
  \E m \in Inbox(p, o, "request") : Becomes(p, handleRequest(o, raft[p], m))

ReceiveRespond(p, o) ==
  \E m \in Inbox(p, o, "respondRequest") :
    Becomes(p, handleRespond(p, o, raft[p], m))

ReceiveVote(p, o) ==
  \E m \in Inbox(p, o, "vote") : Becomes(p, handleVote(p, o, raft[p]))

ReceiveElect(p, o) ==
  \E m \in Inbox(p, o, "elect") : Becomes(p, handleElect(o, raft[p], m))

ReceiveCommit(p, o) ==
  \E m \in Inbox(p, o, "commit") : Becomes(p, handleCommit(raft[p], m))

ReceiveForward(p, o) ==
  \E m \in Inbox(p, o, "Request") :
    Becomes(p, onClientRequest(p, enqueueDeferred(raft[p], m.req)))

(* The rest of performComputation. *)
Tick(p) ==
  \E submits, expired \in BOOLEAN : Becomes(p, tick(p, raft[p], submits, expired))

Next ==
  \E p \in Peers :
    \/ Tick(p)
    \/ \E o \in Peers \ {p} :
         \/ ReceiveRequest(p, o) \/ ReceiveRespond(p, o) \/ ReceiveVote(p, o)
         \/ ReceiveElect(p, o) \/ ReceiveCommit(p, o) \/ ReceiveForward(p, o)

Spec == Init /\ [][Next]_vars
-----------------------------------------------------------------------------
Requests == [key : Keys, fwd : Peers \cup {None}]

Terms == 0 .. bound.term

Messages ==
  { Elect(t) : t \in Terms }
  \cup { Vote(o, t) : o \in Peers, t \in Terms }
  \cup { Replicate(k, t) : k \in Keys, t \in Terms }
  \cup { Respond(o, k) : o \in Peers, k \in Keys }
  \cup { Commit(k, t) : k \in Keys, t \in Terms }
  \cup { Forward(o, r) : o \in Peers, r \in Requests }

(* The objects have the shape RaftConsensus declares.                      *)
TypeOK ==
  \A p \in Peers : LET s == raft[p] IN
    /\ s.term \in Terms /\ s.leader \in Peers \cup {None}
    /\ s.votes \subseteq Peers \ {p} /\ s.replies \subseteq Peers \ {p}
    /\ s.known \subseteq Keys /\ s.committed \subseteq Keys
    /\ s.deferred \in Seq(Requests) /\ s.pending \in Seq(Keys)
    /\ s.inFlight \in Keys \cup {None}
    /\ s.nextId \in 0 .. bound.requests[p]
    /\ s.sent \subseteq Messages

Majority(S) == 2 * Cardinality(S) > Cardinality(Peers)

(* A peer treats a request as committed only if a majority of the members, *)
(* not counting the leader that committed it, has got it: whatever leaders *)
(* come and go, late answers included, a majority remembers the request.   *)
CommittedByMajority ==
  \A p \in Peers : \A k \in raft[p].committed :
    \E l \in Peers :
      /\ \E m \in raft[l].sent : m.type = "commit" /\ m.key = k
      /\ Majority({ o \in Peers \ {l} : k \in raft[o].known })

(* Except for the first leader, a peer replicates requests in a term only  *)
(* after a majority of the members has voted for it in this or an earlier  *)
(* term, although handleVote looks neither at the term nor at whether the  *)
(* peer is still a candidate.                                              *)
LeadersAreElected ==
  \A p \in Peers \ {FirstLeader} : \A m \in raft[p].sent :
    m.type = "request" =>
      Majority({ o \in Peers \ {p} :
                   \E v \in raft[o].sent :
                     v.type = "vote" /\ v.to = {p} /\ v.term <= m.term })

(* A peer supports one candidate in a term: it votes for one peer, and for *)
(* none in a term in which it is a candidate.                              *)
OneVotePerTerm ==
  \A p \in Peers : \A m, n \in raft[p].sent :
    /\ m.type = "vote" /\ n.type \in {"vote", "elect"} /\ m.term = n.term
    => m = n

(* Only requests that were submitted circulate, and a request is queued at *)
(* most once at each peer: in deferred, in pending or in flight.           *)
QueuedOnce ==
  \A p \in Peers : LET s == raft[p] IN
    /\ \A k \in s.known : k[2] < raft[k[1]].nextId
    /\ \A i, j \in 1 .. Len(s.deferred) : s.deferred[i].key = s.deferred[j].key => i = j
    /\ \A i, j \in 1 .. Len(s.pending) : s.pending[i] = s.pending[j] => i = j
    /\ \A i \in 1 .. Len(s.deferred) : \A j \in 1 .. Len(s.pending) :
         s.deferred[i].key # s.pending[j]
    /\ \A j \in 1 .. Len(s.pending) : s.pending[j] # s.inFlight
    /\ \A i \in 1 .. Len(s.deferred) : s.deferred[i].key # s.inFlight
=============================================================================
