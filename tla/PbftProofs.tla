------------------------------ MODULE PbftProofs ------------------------------
(***************************************************************************)
(* Proofs about Pbft, for every number of members, of faulty ones, of      *)
(* views and of requests.                                                  *)
(***************************************************************************)
EXTENDS Pbft, FiniteSetTheorems, SequenceTheorems, TLAPS

(* The shape of the objects and messages, without the bounds of a run.     *)
Req == [by : Nat, id : Nat, flip : BOOLEAN]
Entry == [req : Req, view : Nat]
Proof == [seq : Nat, view : Nat, req : Req]
Phases == {"PrePrepare", "Prepare", "Commit", "ViewChange", "NewView"}

Object ==
  [ view : Nat, phase : Phases, confirmed : Seq(Entry), own : Req \cup {None},
    nextId : Nat, lastStable : Nat, anchor : Nat ]

Carriers == {"pre-prepare", "prepare", "commit"}
ProposalMsg == [type : Carriers, from : Nat, view : Nat, seq : Nat, req : Req]
CheckpointMsg ==
  [type : {"checkpoint"}, from : Nat, view : Nat, seq : Nat,
   digest : [state : Seq(Req), flip : BOOLEAN]]
ViewMsg ==
  [type : {"viewChange", "newView"}, from : Nat, view : Nat, seq : Nat,
   proof : SUBSET Proof]
Msg == ProposalMsg \cup CheckpointMsg \cup ViewMsg
Envelope == [msg : Msg, to : SUBSET Nat]

(* The fields a message has, by its type. *)
LEMMA MsgFields ==
  ASSUME NEW m \in Msg
  PROVE  /\ m.type \in {"pre-prepare", "prepare", "commit", "checkpoint", "viewChange", "newView"}
         /\ m.from \in Nat /\ m.view \in Nat /\ m.seq \in Nat
         /\ m.type \in Carriers => m \in ProposalMsg /\ m.req \in Req
         /\ m.type = "checkpoint" => m \in CheckpointMsg
         /\ m.type \in {"viewChange", "newView"} => m.proof \subseteq Proof
  BY DEF Msg, ProposalMsg, CheckpointMsg, ViewMsg, Carriers

(* What the tests of the code count. *)
LEMMA Sizes ==
  ASSUME config \in Scenarios
  PROVE  /\ config.size \in Nat \ {0} /\ config.byzantine \in Nat /\ f \in Nat
         /\ IsFiniteSet(Members) /\ Cardinality(Members) = config.size
         /\ IsFiniteSet(Faulty) /\ Cardinality(Faulty) = config.byzantine
         /\ Members \subseteq Nat /\ Honest = Members \ Faulty
<1>1. config.size \in Nat \ {0} /\ config.byzantine \in Nat
  BY PbftAssumption
<1>2. f \in Nat
  BY <1>1 DEF f
<1>3. IsFiniteSet(Members) /\ Cardinality(Members) = config.size
  <2>1. Members = 0 .. (config.size - 1) /\ config.size - 1 \in Int
    BY <1>1 DEF Members
  <2>2. IsFiniteSet(Members) /\ Cardinality(Members) =
          IF 0 > config.size - 1 THEN 0 ELSE (config.size - 1) - 0 + 1
    BY <2>1, FS_Interval
  <2> QED
    BY <1>1, <2>2
<1>4. IsFiniteSet(Faulty) /\ Cardinality(Faulty) = config.byzantine
  <2>1. Faulty = 0 .. (config.byzantine - 1) /\ config.byzantine - 1 \in Int
    BY <1>1 DEF Faulty
  <2>2. IsFiniteSet(Faulty) /\ Cardinality(Faulty) =
          IF 0 > config.byzantine - 1 THEN 0 ELSE (config.byzantine - 1) - 0 + 1
    BY <2>1, FS_Interval
  <2> QED
    BY <1>1, <2>2
<1>5. Members \subseteq Nat
  BY <1>1 DEF Members
<1> QED
  BY <1>1, <1>2, <1>3, <1>4, <1>5 DEF Honest

(* The leader of a view is one of the members ... *)
LEMMA LeaderIsMember ==
  ASSUME config \in Scenarios, NEW v \in Nat
  PROVE  leaderFor(v) \in Members
<1>1. config.size \in Nat \ {0}
  BY PbftAssumption
<1> QED
  BY <1>1 DEF leaderFor, Members

(* ... and the others are its followers. *)
LEMMA Followers ==
  ASSUME config \in Scenarios, NEW v \in Nat
  PROVE  /\ IsFiniteSet(Members \ {leaderFor(v)})
         /\ Cardinality(Members \ {leaderFor(v)}) = config.size - 1
  BY Sizes, LeaderIsMember, FS_RemoveElement

(* More members than there are faulty ones include a correct one. *)
LEMMA CorrectOne ==
  ASSUME config \in Scenarios, NEW S \in SUBSET Members,
         Cardinality(S) > config.byzantine
  PROVE  \E h \in S : h \in Honest
<1> SUFFICES ASSUME S \cap Honest = {} PROVE FALSE
  OBVIOUS
<1>1. S \subseteq Faulty
  BY Sizes
<1>2. Cardinality(S) <= Cardinality(Faulty)
  BY <1>1, Sizes, FS_Subset
<1>3. Cardinality(S) \in Nat
  BY Sizes, FS_Subset, FS_CardinalityType
<1> QED
  BY <1>2, <1>3, Sizes
-----------------------------------------------------------------------------
(* A quorum of followers has prepared r as number n of view v: the correct *)
(* ones among them have sent the prepare.                                  *)
Backed(G, n, v, r) ==
  \E S \in SUBSET (Members \ {leaderFor(v)}) :
    /\ Quorum(S)
    /\ \A h \in S \cap Honest : Proposal("prepare", h, v, n, r) \in G

(* s will send no prepare with number n in view v: the view is over, or    *)
(* the number is decided or being decided.                                 *)
Past(s, n, v) ==
  \/ v < s.view
  \/ /\ v = s.view
     /\ \/ n < nextSeq(s) /\ s.phase \in {"PrePrepare", "Prepare", "Commit"}
        \/ n = nextSeq(s) /\ s.phase \in {"Prepare", "Commit"}

TypesOK ==
  /\ config \in Scenarios
  /\ pbft \in [Members -> Object]
  /\ msgs \subseteq Envelope
  /\ \A g \in Sent : g.from \in Members

(* Leaders send no prepares; a correct follower sends one at a sequence    *)
(* number of a view, and the leader, if correct, has proposed it.          *)
PrepareOK ==
  \A g \in Sent : g.type = "prepare" =>
    /\ g.from # leaderFor(g.view)
    /\ g.from \in Honest =>
         /\ Past(pbft[g.from], g.seq, g.view)
         /\ \A h \in Sent :
              h.type = "prepare" /\ h.from = g.from /\ h.seq = g.seq /\ h.view = g.view
              => h.req = g.req
         /\ leaderFor(g.view) \in Honest =>
              \E h \in Sent : h = Proposal("pre-prepare", leaderFor(g.view), g.view, g.seq, g.req)

(* Correct replicas commit, and all take over into the next view, only     *)
(* what a quorum has prepared.                                             *)
CommitOK ==
  \A g \in Sent :
    g.type = "commit" /\ g.from \in Honest => Backed(Sent, g.seq, g.view, g.req)

ProofOK ==
  \A g \in Sent : g.type \in {"viewChange", "newView"} =>
    \A x \in g.proof : /\ Backed(Sent, x.seq, x.view, x.req)
                       /\ g.type = "viewChange" => x.view = g.view
                       /\ g.type = "newView" => x.view + 1 = g.view

(* Every request in circulation was submitted. *)
Submitted(r) == r.by \in Members /\ r.id < pbft[r.by].nextId

RequestOK ==
  /\ \A g \in Sent :
       /\ g.type \in Carriers => Submitted(g.req)
       /\ g.type \in {"viewChange", "newView"} => \A x \in g.proof : Submitted(x.req)
  /\ \A p \in Members :
       /\ pbft[p].own # None =>
            pbft[p].own.by = p /\ pbft[p].own.id < pbft[p].nextId /\ ~pbft[p].own.flip
       /\ \A i \in 1 .. nextSeq(pbft[p]) : Submitted(pbft[p].confirmed[i].req)

(* The altered version of a proposal goes to QuorumB, and comes from a     *)
(* faulty replica, where those who may get it are too few.                 *)
Few == config.byzantine <= 2 * f /\ Cardinality(QuorumB \cup Faulty) <= 2 * f + 1

FlipOK ==
  Few =>
    /\ \A e \in msgs : e.msg.type = "pre-prepare" /\ e.msg.req.flip =>
         e.msg.from \in Faulty /\ e.to \subseteq QuorumB
    /\ \A g \in Sent : g.type = "prepare" /\ g.from \in Honest /\ g.req.flip =>
         g.from \in QuorumB /\ leaderFor(g.view) \in Faulty

(* What a correct replica confirms, a quorum has prepared. *)
ConfirmedOK ==
  \A p \in Honest : \A i \in 1 .. nextSeq(pbft[p]) :
    /\ pbft[p].confirmed[i].view <= pbft[p].view
    /\ config.byzantine <= 2 * f =>
         Backed(Sent, i - 1, pbft[p].confirmed[i].view, pbft[p].confirmed[i].req)

(* A correct replica that has decided prepares the number in no later      *)
(* view, and as the leader of a later one proposes what it has decided,    *)
(* where every quorum contains all followers.                              *)
Tight == config.size <= 2 * f + 2 /\ config.byzantine <= 2 * f

DecidedOK ==
  /\ \A g \in Sent : g.type = "pre-prepare" /\ g.from \in Honest =>
       g.view <= pbft[g.from].view
  /\ \A p \in Honest : \A i \in 1 .. nextSeq(pbft[p]) : \A g \in Sent :
       g.from = p /\ g.seq = i - 1 =>
         /\ g.type = "prepare" => g.view <= pbft[p].confirmed[i].view
         /\ Tight /\ g.type = "pre-prepare" =>
              g.view <= pbft[p].confirmed[i].view \/ g.req = pbft[p].confirmed[i].req

(* A checkpoint of a correct replica shows what the replica has confirmed. *)
CheckpointOK ==
  \A g \in Sent : g.type = "checkpoint" /\ g.from \in Honest =>
    /\ g.seq <= nextSeq(pbft[g.from])
    /\ \A i \in 1 .. g.seq : g.digest.state[i] = pbft[g.from].confirmed[i].req

(* Enough correct replicas have confirmed n requests, and the same ones.   *)
Shared(n) ==
  n > 0 /\ ~config.duplicates =>
    \E Q \in SUBSET Honest :
      /\ Cardinality(Q) + config.byzantine > 2 * f
      /\ \A q \in Q : nextSeq(pbft[q]) >= n
      /\ \A q, r \in Q : \A i \in 1 .. n :
           pbft[q].confirmed[i].req = pbft[r].confirmed[i].req

StableOK == \A p \in Members : Shared(pbft[p].lastStable)

(* The inductive invariant. *)
IndInv ==
  /\ TypesOK /\ PrepareOK /\ CommitOK /\ ProofOK /\ RequestOK /\ FlipOK
  /\ ConfirmedOK /\ DecidedOK /\ CheckpointOK /\ StableOK
-----------------------------------------------------------------------------
(* Two quorums of followers share a correct one, which prepares once.      *)
LEMMA BackedOnce ==
  ASSUME TypesOK, PrepareOK, config.size + config.byzantine <= 4 * f + 2,
         NEW n, NEW v \in Nat, NEW r1, NEW r2,
         Backed(Sent, n, v, r1), Backed(Sent, n, v, r2)
  PROVE  r1 = r2
<1> DEFINE F == Members \ {leaderFor(v)}
<1>1. config \in Scenarios
  BY DEF TypesOK
<1>2. PICK S \in SUBSET F :
        Quorum(S) /\ \A h \in S \cap Honest : Proposal("prepare", h, v, n, r1) \in Sent
  BY DEF Backed
<1>3. PICK T \in SUBSET F :
        Quorum(T) /\ \A h \in T \cap Honest : Proposal("prepare", h, v, n, r2) \in Sent
  BY DEF Backed
<1>4. IsFiniteSet(F) /\ Cardinality(F) = config.size - 1
  BY <1>1, Followers
<1> HIDE DEF F
<1>5. /\ IsFiniteSet(S) /\ IsFiniteSet(T) /\ IsFiniteSet(S \cup T)
      /\ IsFiniteSet(S \cap T)
      /\ Cardinality(S \cup T) <= Cardinality(F)
      /\ Cardinality(S \cup T) = Cardinality(S) + Cardinality(T) - Cardinality(S \cap T)
  <2>1. IsFiniteSet(S) /\ IsFiniteSet(T) /\ IsFiniteSet(S \cap T)
    BY <1>4, FS_Subset
  <2>2. S \cup T \in SUBSET F
    OBVIOUS
  <2> QED
    BY <1>4, <2>1, <2>2, FS_Subset, FS_Union
<1>6. /\ Cardinality(S) \in Nat /\ Cardinality(T) \in Nat /\ Cardinality(F) \in Nat
      /\ Cardinality(S \cap T) \in Nat /\ Cardinality(S \cup T) \in Nat
  BY <1>4, <1>5, FS_CardinalityType
<1>7. Cardinality(S) > 2 * f /\ Cardinality(T) > 2 * f
  BY <1>2, <1>3 DEF Quorum
<1>8. Cardinality(S \cap T) > config.byzantine
  <2>1. config.size \in Nat /\ config.byzantine \in Nat /\ f \in Nat
    BY <1>1, Sizes
  <2> QED
    BY <1>4, <1>5, <1>6, <1>7, <2>1
<1>9. PICK h \in S \cap T : h \in Honest
  <2>1. S \cap T \in SUBSET Members
    BY DEF F
  <2> QED
    BY <1>1, <1>8, <2>1, CorrectOne
<1>10. /\ Proposal("prepare", h, v, n, r1) \in Sent
       /\ Proposal("prepare", h, v, n, r2) \in Sent
  BY <1>2, <1>3, <1>9
<1> QED
  BY <1>9, <1>10 DEF PrepareOK, Proposal

(* Where every quorum contains all followers, the correct followers have   *)
(* prepared what is backed, and there is one.                              *)
LEMMA BackedByAll ==
  ASSUME TypesOK, Tight, NEW n, NEW v \in Nat, NEW r, Backed(Sent, n, v, r)
  PROVE  /\ \A h \in Honest \ {leaderFor(v)} : Proposal("prepare", h, v, n, r) \in Sent
         /\ \E h \in Honest \ {leaderFor(v)} : TRUE
<1> DEFINE F == Members \ {leaderFor(v)}
<1>1. config \in Scenarios
  BY DEF TypesOK
<1>2. PICK S \in SUBSET F :
        Quorum(S) /\ \A h \in S \cap Honest : Proposal("prepare", h, v, n, r) \in Sent
  BY DEF Backed
<1>3. IsFiniteSet(F) /\ Cardinality(F) = config.size - 1
  BY <1>1, Followers
<1>4. config.size \in Nat /\ config.byzantine \in Nat /\ f \in Nat
  BY <1>1, Sizes
<1>5. IsFiniteSet(S) /\ Cardinality(S) \in Nat
  BY <1>3, FS_Subset, FS_CardinalityType
<1>6. Cardinality(S) > 2 * f
  BY <1>2 DEF Quorum
<1>7. S = F
  <2>1. Cardinality(S) >= Cardinality(F)
    BY <1>3, <1>4, <1>5, <1>6 DEF Tight
  <2>2. Cardinality(S) <= Cardinality(F)
    BY <1>3, FS_Subset
  <2>3. Cardinality(S) = Cardinality(F)
    BY <1>3, <1>4, <1>5, <2>1, <2>2
  <2> QED
    BY <1>3, <2>3, FS_Subset
<1>8. PICK h \in S : h \in Honest
  <2>1. Cardinality(S) > config.byzantine
    BY <1>4, <1>5, <1>6 DEF Tight
  <2> QED
    BY <1>1, <2>1, CorrectOne
<1>9. Honest \subseteq Members
  BY DEF Honest
<1> QED
  BY <1>2, <1>7, <1>8, <1>9

(* Where those who may get the altered version are too few, nothing        *)
(* altered is backed.                                                      *)
LEMMA BackedUnaltered ==
  ASSUME TypesOK, FlipOK, Few, NEW n, NEW v \in Nat, NEW r, Backed(Sent, n, v, r)
  PROVE  r.flip # TRUE
<1> SUFFICES ASSUME r.flip = TRUE PROVE FALSE
  OBVIOUS
<1> DEFINE X == QuorumB \cup Faulty
           l == leaderFor(v)
<1>1. config \in Scenarios
  BY DEF TypesOK
<1>2. PICK S \in SUBSET (Members \ {l}) :
        Quorum(S) /\ \A h \in S \cap Honest : Proposal("prepare", h, v, n, r) \in Sent
  BY DEF Backed
<1>3. \A h \in S \cap Honest : h \in QuorumB /\ l \in Faulty
  BY <1>2 DEF FlipOK, Proposal
<1>4. config.byzantine \in Nat /\ f \in Nat /\ IsFiniteSet(Members) /\ IsFiniteSet(Faulty)
  BY <1>1, Sizes
<1>5. IsFiniteSet(X) /\ IsFiniteSet(S) /\ Cardinality(S) \in Nat
      /\ Cardinality(S) > 2 * f /\ Cardinality(X) \in Nat
  <2>1. IsFiniteSet(QuorumB)
    BY <1>4, FS_Subset DEF QuorumB
  <2>2. IsFiniteSet(X)
    BY <1>4, <2>1, FS_Union
  <2>3. IsFiniteSet(S)
    BY <1>2, <1>4, FS_Subset
  <2> QED
    BY <1>2, <2>2, <2>3, FS_CardinalityType DEF Quorum
<1>6. PICK h \in S : h \in Honest
  <2>1. Cardinality(S) > config.byzantine
    BY <1>4, <1>5 DEF Few
  <2> QED
    BY <1>1, <2>1, CorrectOne
<1>7. l \in X /\ S \subseteq X \ {l}
  <2>1. l \in Faulty
    BY <1>3, <1>6
  <2>2. \A q \in S : q \in Faulty \/ q \in QuorumB
    BY <1>3 DEF Honest
  <2> QED
    BY <2>1, <2>2
<1> HIDE DEF X, l
<1>8. Cardinality(S) <= Cardinality(X \ {l}) /\ Cardinality(X \ {l}) = Cardinality(X) - 1
  <2>1. IsFiniteSet(X \ {l}) /\ Cardinality(X \ {l}) = Cardinality(X) - 1
    BY <1>5, <1>7, FS_RemoveElement
  <2> QED
    BY <1>7, <2>1, FS_Subset
<1>9. Cardinality(X) <= 2 * f + 1
  BY DEF Few, X
<1> QED
  BY <1>4, <1>5, <1>8, <1>9

(* Once a correct replica has decided, no quorum prepares anything else in *)
(* that view or a later one.                                               *)
LEMMA Locked ==
  ASSUME IndInv, Tight, NEW p \in Honest, NEW i \in 1 .. nextSeq(pbft[p]),
         NEW v \in Nat, NEW r, v >= pbft[p].confirmed[i].view, Backed(Sent, i - 1, v, r)
  PROVE  r = pbft[p].confirmed[i].req
<1> DEFINE c == pbft[p].confirmed[i]
<1>1. TypesOK /\ PrepareOK /\ ConfirmedOK /\ DecidedOK
  BY DEF IndInv
<1>2. c \in Entry /\ c.view \in Nat
  <2>1. pbft[p] \in Object
    BY <1>1 DEF TypesOK, Honest
  <2>2. pbft[p].confirmed \in Seq(Entry) /\ i \in 1 .. Len(pbft[p].confirmed)
    BY <2>1 DEF Object, nextSeq
  <2>3. c \in Entry
    BY <2>2, ElementOfSeq
  <2> QED
    BY <2>3 DEF Entry
<1>3. CASE v = c.view
  <2>1. Backed(Sent, i - 1, c.view, c.req)
    BY <1>1 DEF ConfirmedOK, Tight
  <2>2. config.size + config.byzantine <= 4 * f + 2
    <3>1. config.size \in Nat /\ config.byzantine \in Nat /\ f \in Nat
      BY <1>1, Sizes DEF TypesOK
    <3> QED
      BY <3>1 DEF Tight
  <2> QED
    BY <1>1, <1>3, <2>1, <2>2, BackedOnce
<1>4. CASE v > c.view
  <2> DEFINE l == leaderFor(v)
             P(h) == Proposal("prepare", h, v, i - 1, r)
  <2>1. (\A h \in Honest \ {l} : P(h) \in Sent) /\ \E h \in Honest \ {l} : TRUE
    BY <1>1, BackedByAll
  <2>2. \A h : /\ P(h).type = "prepare" /\ P(h).from = h /\ P(h).seq = i - 1
               /\ P(h).view = v /\ P(h).req = r
    BY DEF Proposal
  <2> HIDE DEF P
  <2>3. p = l
    <3> SUFFICES ASSUME p # l PROVE FALSE
      OBVIOUS
    <3>1. P(p) \in Sent
      BY <2>1
    <3>2. v <= c.view
      BY <1>1, <2>2, <3>1 DEF DecidedOK
    <3> QED
      BY <1>2, <1>4, <3>2
  <2>4. PICK h \in Honest \ {l} : P(h) \in Sent
    BY <2>1
  <2>5. PICK g \in Sent : g = Proposal("pre-prepare", p, v, i - 1, r)
    BY <1>1, <2>2, <2>3, <2>4 DEF PrepareOK
  <2>6. /\ g.type = "pre-prepare" /\ g.from = p /\ g.seq = i - 1
        /\ g.view = v /\ g.req = r
    BY <2>5 DEF Proposal
  <2>7. g.view <= c.view \/ g.req = c.req
    BY <1>1, <2>6 DEF DecidedOK
  <2> QED
    BY <1>2, <1>4, <2>6, <2>7
<1>5. v = c.view \/ v > c.view
  BY <1>2
<1> QED
  BY <1>3, <1>4, <1>5
-----------------------------------------------------------------------------
(* What a log holds was sent. *)
LEMMA LogIsSent ==
  ASSUME NEW p, NEW type, NEW n, NEW v, NEW m \in Log(p, type, n, v)
  PROVE  /\ m \in Sent /\ m.type = type /\ m.seq = n /\ m.view = v
         /\ \E e \in msgs : e.msg = m /\ p \in e.to
  BY DEF Log, Sent

(* What is prepared at a replica, correct or not, is backed.               *)
LEMMA PreparedIsBacked ==
  ASSUME TypesOK, PrepareOK, NEW p, NEW v \in Nat, NEW n \in Nat, NEW r \in Req,
         isPrepared(p, v, n, r)
  PROVE  Backed(Sent, n, v, r)
<1> DEFINE S == Senders(p, "prepare", n, v, r)
<1>1. Quorum(S)
  BY DEF isPrepared
<1>2. ASSUME NEW h \in S
      PROVE  h \in Members /\ h # leaderFor(v) /\ Proposal("prepare", h, v, n, r) \in Sent
  <2>1. PICK m \in Log(p, "prepare", n, v) : m.req = r /\ m.from = h
    BY DEF Senders
  <2>2. m \in Sent /\ m.type = "prepare" /\ m.seq = n /\ m.view = v
    BY LogIsSent
  <2>3. m \in Msg /\ h \in Members
    BY <2>1, <2>2 DEF TypesOK, Sent, Envelope
  <2>4. m \in ProposalMsg
    BY <2>2, <2>3, MsgFields DEF Carriers
  <2>5. m = Proposal("prepare", h, v, n, r)
    BY <2>1, <2>2, <2>4 DEF Proposal, ProposalMsg
  <2>6. h # leaderFor(v)
    BY <2>1, <2>2 DEF PrepareOK
  <2> QED
    BY <2>2, <2>3, <2>5, <2>6
<1> HIDE DEF S
<1>3. S \in SUBSET (Members \ {leaderFor(v)})
  BY <1>2
<1>4. \A h \in S \cap Honest : Proposal("prepare", h, v, n, r) \in Sent
  BY <1>2
<1> QED
  BY <1>1, <1>3, <1>4 DEF Backed

(* What is committed at a replica is backed, too: a correct replica has    *)
(* sent one of the commits.                                                *)
LEMMA CommittedIsBacked ==
  ASSUME TypesOK, CommitOK, config.byzantine <= 2 * f,
         NEW p, NEW v \in Nat, NEW n \in Nat, NEW r, isCommitted(p, v, n, r)
  PROVE  Backed(Sent, n, v, r)
<1> DEFINE S == Senders(p, "commit", n, v, r)
<1>0. config \in Scenarios
  BY DEF TypesOK
<1>1. Cardinality(S) > 2 * f
  BY DEF isCommitted, Quorum
<1>2. ASSUME NEW h \in S
      PROVE  /\ h \in Members
             /\ \E m \in Sent : /\ m.type = "commit" /\ m.seq = n /\ m.view = v
                                /\ m.req = r /\ m.from = h
  <2>1. PICK m \in Log(p, "commit", n, v) : m.req = r /\ m.from = h
    BY DEF Senders
  <2>2. m \in Sent /\ m.type = "commit" /\ m.seq = n /\ m.view = v
    BY LogIsSent
  <2>3. h \in Members
    BY <2>1, <2>2 DEF TypesOK
  <2> QED
    BY <2>1, <2>2, <2>3
<1> HIDE DEF S
<1>3. S \in SUBSET Members
  BY <1>2
<1>4. Cardinality(S) > config.byzantine
  <2>1. Cardinality(S) \in Nat /\ config.byzantine \in Nat /\ f \in Nat
    BY <1>0, <1>3, Sizes, FS_Subset, FS_CardinalityType
  <2> QED
    BY <1>1, <2>1
<1>5. PICK h \in S : h \in Honest
  BY <1>0, <1>3, <1>4, CorrectOne
<1>6. PICK m \in Sent : /\ m.type = "commit" /\ m.seq = n /\ m.view = v
                        /\ m.req = r /\ m.from = h
  BY <1>2
<1> QED
  BY <1>5, <1>6 DEF CommitOK

(* A replica finds n stable only if n is shared. *)
LEMMA ReadyIsShared ==
  ASSUME TypesOK, CheckpointOK, NEW p, NEW s \in Object, stableCheckpointReady(p, s)
  PROVE  Shared(nextSeq(s))
<1> DEFINE n == nextSeq(s)
           L == Log(p, "checkpoint", n, s.view)
<1>0. config \in Scenarios
  BY DEF TypesOK
<1> SUFFICES ASSUME n > 0, ~config.duplicates PROVE Shared(n)
  BY DEF Shared
<1>1. PICK d \in { m.digest : m \in L } :
        Quorum({ m.from : m \in { g \in L : g.digest = d } })
  BY DEF stableCheckpointReady
<1> DEFINE S == { m.from : m \in { g \in L : g.digest = d } }
           Q == S \cap Honest
<1>2. \A q \in S : q \in Members /\ \E m \in Sent : /\ m.type = "checkpoint" /\ m.seq = n
                                                    /\ m.digest = d /\ m.from = q
  <2> SUFFICES ASSUME NEW q \in S
               PROVE  q \in Members /\ \E m \in Sent : /\ m.type = "checkpoint" /\ m.seq = n
                                                       /\ m.digest = d /\ m.from = q
    OBVIOUS
  <2>1. PICK m \in L : m.digest = d /\ m.from = q
    OBVIOUS
  <2>2. m \in Sent /\ m.type = "checkpoint" /\ m.seq = n
    BY LogIsSent
  <2>3. q \in Members
    BY <2>1, <2>2 DEF TypesOK
  <2> QED
    BY <2>1, <2>2, <2>3
<1>3. Cardinality(S) > 2 * f
  BY <1>1 DEF Quorum
<1> HIDE DEF S, L, n
<1>4. \A q \in Q : /\ nextSeq(pbft[q]) >= n
                   /\ \A i \in 1 .. n : pbft[q].confirmed[i].req = d.state[i]
  <2> SUFFICES ASSUME NEW q \in Q
               PROVE  /\ nextSeq(pbft[q]) >= n
                      /\ \A i \in 1 .. n : pbft[q].confirmed[i].req = d.state[i]
    OBVIOUS
  <2>1. PICK m \in Sent : m.type = "checkpoint" /\ m.seq = n /\ m.digest = d /\ m.from = q
    BY <1>2
  <2>2. /\ m.seq <= nextSeq(pbft[m.from])
        /\ \A i \in 1 .. m.seq : m.digest.state[i] = pbft[m.from].confirmed[i].req
    BY <2>1 DEF CheckpointOK
  <2>3. n \in Nat /\ nextSeq(pbft[q]) \in Nat
    <3>1. s.confirmed \in Seq(Entry) /\ pbft[q].confirmed \in Seq(Entry)
      BY DEF TypesOK, Object, Honest
    <3> QED
      BY <3>1, LenProperties DEF nextSeq, n
  <2>4. nextSeq(pbft[q]) >= n
    BY <2>1, <2>2, <2>3
  <2>5. \A i \in 1 .. n : pbft[q].confirmed[i].req = d.state[i]
    BY <2>1, <2>2
  <2> QED
    BY <2>4, <2>5
<1>5. Cardinality(Q) + config.byzantine > 2 * f
  <2>1. IsFiniteSet(Members) /\ IsFiniteSet(Faulty) /\ config.byzantine \in Nat /\ f \in Nat
        /\ Cardinality(Faulty) = config.byzantine
    BY <1>0, Sizes
  <2>2. IsFiniteSet(S) /\ IsFiniteSet(Q)
    BY <1>2, <2>1, FS_Subset
  <2>3. S \subseteq Q \cup Faulty
    BY <1>2 DEF Honest
  <2>4. /\ IsFiniteSet(Q \cup Faulty) /\ Cardinality(S) <= Cardinality(Q \cup Faulty)
        /\ Cardinality(Q \cup Faulty) =
             Cardinality(Q) + Cardinality(Faulty) - Cardinality(Q \cap Faulty)
    BY <2>1, <2>2, <2>3, FS_Union, FS_Subset
  <2>5. /\ Cardinality(Q) \in Nat /\ Cardinality(S) \in Nat
        /\ Cardinality(Q \cup Faulty) \in Nat /\ Cardinality(Q \cap Faulty) \in Nat
    <3>1. IsFiniteSet(Q \cap Faulty)
      BY <2>2, FS_Subset
    <3> QED
      BY <2>2, <2>4, <3>1, FS_CardinalityType
  <2> HIDE DEF Q
  <2> QED
    BY <1>3, <2>1, <2>4, <2>5
<1>6. Q \in SUBSET Honest
  OBVIOUS
<1> HIDE DEF Q
<1>7. \A q, r \in Q : \A i \in 1 .. n : pbft[q].confirmed[i].req = pbft[r].confirmed[i].req
  BY <1>4
<1> QED
  BY <1>4, <1>5, <1>6, <1>7 DEF Shared

(* maybeStableCheckpoint changes the stable checkpoint only.               *)
LEMMA MaybeStable ==
  ASSUME IndInv, NEW p \in Members, NEW s \in maybeStableCheckpoint(p)
  PROVE  /\ s \in Object
         /\ s.view = pbft[p].view /\ s.phase = pbft[p].phase
         /\ s.confirmed = pbft[p].confirmed /\ s.own = pbft[p].own
         /\ s.nextId = pbft[p].nextId /\ s.anchor = pbft[p].anchor
         /\ Shared(s.lastStable)
<1> DEFINE o == pbft[p]
<1>1. o \in Object /\ Shared(o.lastStable)
  BY DEF IndInv, TypesOK, StableOK
<1>2. CASE s = o
  BY <1>1, <1>2
<1>3. CASE s # o
  <2>1. s = [o EXCEPT !.lastStable = nextSeq(o)] /\ stableCheckpointReady(p, o)
    BY <1>3 DEF maybeStableCheckpoint
  <2>2. Shared(nextSeq(o))
    BY <1>1, <2>1, ReadyIsShared DEF IndInv
  <2>3. nextSeq(o) \in Nat
    BY <1>1, LenProperties DEF Object, nextSeq
  <2>4. /\ s \in Object
        /\ s.view = o.view /\ s.phase = o.phase
        /\ s.confirmed = o.confirmed /\ s.own = o.own
        /\ s.nextId = o.nextId /\ s.anchor = o.anchor /\ s.lastStable = nextSeq(o)
    BY <1>1, <2>1, <2>3 DEF Object
  <2> QED
    BY <2>2, <2>4
<1> QED
  BY <1>2, <1>3

(* What multicast puts on the channels and into the log of the sender.     *)
LEMMA Multicast ==
  ASSUME config \in Scenarios, NEW p \in Members, NEW m \in Msg, m.from = p,
         NEW e \in multicast(p, m)
  PROVE  /\ e \in Envelope
         /\ e.msg.type = m.type /\ e.msg.from = p /\ e.msg.view = m.view /\ e.msg.seq = m.seq
         /\ p \in Honest \/ m.type \in {"viewChange", "newView"} => e.msg = m
         /\ m.type \in Carriers => e.msg.req.by = m.req.by /\ e.msg.req.id = m.req.id
         /\ m.type = "pre-prepare" /\ ~m.req.flip /\ e.msg.req.flip =>
              p \in Faulty /\ e.to \subseteq QuorumB
<1>1. Members \subseteq Nat /\ QuorumA \subseteq Nat /\ QuorumB \subseteq Nat
  BY Sizes DEF QuorumA, QuorumB
<1>2. ASSUME NEW S \in SUBSET Nat, e = To(m, S)
      PROVE  e \in Envelope /\ e.msg = m /\ e.to = S
  BY <1>2 DEF To, Envelope
<1>3. CASE e = To(m, Members) \/ e = To(m, {p})
  <2>1. e \in Envelope /\ e.msg = m
    BY <1>1, <1>2, <1>3
  <2> QED
    BY <2>1
<1>4. ASSUME NEW b \in BOOLEAN, NEW S \in SUBSET Nat, e = To(Version(m, b), S),
             p \in Faulty, m.type \in {"pre-prepare", "prepare", "commit", "checkpoint"}
      PROVE  /\ e \in Envelope
             /\ e.msg.type = m.type /\ e.msg.from = p /\ e.msg.view = m.view
             /\ e.msg.seq = m.seq /\ e.to = S
             /\ m.type \in Carriers =>
                  e.msg.req.by = m.req.by /\ e.msg.req.id = m.req.id /\ e.msg.req.flip = b
  <2>1. e.msg = Version(m, b) /\ e.to = S
    BY <1>4 DEF To
  <2>2. CASE m.type = "checkpoint"
    <3>1. m \in CheckpointMsg
      BY <2>2, MsgFields
    <3>2. e.msg = [m EXCEPT !.digest.flip = b]
      BY <2>1, <2>2 DEF Version
    <3>3. e.msg \in CheckpointMsg /\ e.msg.type = m.type /\ e.msg.from = m.from
          /\ e.msg.view = m.view /\ e.msg.seq = m.seq
      BY <3>1, <3>2 DEF CheckpointMsg
    <3> QED
      BY <1>4, <2>1, <2>2, <3>3 DEF Msg, Envelope, To, Carriers
  <2>3. CASE m.type \in Carriers
    <3>1. m \in ProposalMsg
      BY <2>3, MsgFields
    <3>2. e.msg = [m EXCEPT !.req.flip = b]
      BY <2>1, <2>3 DEF Version, Carriers
    <3>3. e.msg \in ProposalMsg /\ e.msg.type = m.type /\ e.msg.from = m.from
          /\ e.msg.view = m.view /\ e.msg.seq = m.seq
          /\ e.msg.req.by = m.req.by /\ e.msg.req.id = m.req.id /\ e.msg.req.flip = b
      BY <3>1, <3>2 DEF ProposalMsg, Req
    <3> QED
      BY <1>4, <2>1, <3>3 DEF Msg, Envelope, To
  <2> QED
    BY <1>4, <2>2, <2>3 DEF Carriers
<1>5. CASE /\ p \in Faulty /\ m.type \in {"pre-prepare", "prepare", "commit", "checkpoint"}
           /\ \/ e = To(Version(m, FALSE), QuorumA \ {p})
              \/ e = To(Version(m, TRUE), QuorumB \ {p})
  <2>1. p \notin Honest /\ QuorumA \ {p} \in SUBSET Nat /\ QuorumB \ {p} \in SUBSET Nat
    BY <1>1, <1>5 DEF Honest
  <2>2. CASE e = To(Version(m, FALSE), QuorumA \ {p})
    BY <1>4, <1>5, <2>1, <2>2 DEF Carriers
  <2>3. CASE e = To(Version(m, TRUE), QuorumB \ {p})
    <3>1. /\ e \in Envelope
          /\ e.msg.type = m.type /\ e.msg.from = p /\ e.msg.view = m.view
          /\ e.msg.seq = m.seq /\ e.to = QuorumB \ {p}
          /\ m.type \in Carriers => e.msg.req.by = m.req.by /\ e.msg.req.id = m.req.id
      BY <1>4, <1>5, <2>1, <2>3
    <3> QED
      BY <1>5, <2>1, <3>1
  <2> QED
    BY <1>5, <2>2, <2>3
<1> QED
  BY <1>3, <1>5 DEF multicast
-----------------------------------------------------------------------------
(* What a step of p has to satisfy to keep the invariant, when the object  *)
(* of p becomes t and M is sent: the object grows ...                      *)
Grown(p, t) ==
  /\ t \in Object
  /\ pbft[p].view <= t.view /\ pbft[p].nextId <= t.nextId
  /\ nextSeq(pbft[p]) <= nextSeq(t)
  /\ \A i \in 1 .. nextSeq(pbft[p]) : t.confirmed[i] = pbft[p].confirmed[i]
  /\ \A n, v \in Nat : Past(pbft[p], n, v) => Past(t, n, v)
  /\ t.own # None => t.own.by = p /\ t.own.id < t.nextId /\ ~t.own.flip
  /\ Shared(t.lastStable)

SubmittedAfter(p, t, r) ==
  r.by \in Members /\ r.id < IF r.by = p THEN t.nextId ELSE pbft[r.by].nextId

(* ... it confirms what is backed in its view ...                          *)
Confirms(p, t) ==
  \A i \in (nextSeq(pbft[p]) + 1) .. nextSeq(t) :
    /\ t.confirmed[i].view = pbft[p].view
    /\ SubmittedAfter(p, t, t.confirmed[i].req)
    /\ config.byzantine <= 2 * f =>
         Backed(Sent, i - 1, pbft[p].view, t.confirmed[i].req)

(* ... and what it sends is in order. *)
FreshPrePrepare(p, t, e) ==
  /\ e.msg.view <= t.view
  /\ p \in Honest =>
       \/ e.msg.seq >= nextSeq(t)
       \/ /\ e.msg.view = pbft[p].view
          /\ \E v \in Nat : v + 1 = e.msg.view /\ Backed(Sent, e.msg.seq, v, e.msg.req)
  /\ Few /\ e.msg.req.flip => p \in Faulty /\ e.to \subseteq QuorumB

FreshPrepare(p, t, g) ==
  /\ p # leaderFor(g.view)
  /\ p \in Honest =>
       /\ ~Past(pbft[p], g.seq, g.view) /\ Past(t, g.seq, g.view) /\ g.seq >= nextSeq(t)
       /\ leaderFor(g.view) \in Honest =>
            \E h \in Sent : h = Proposal("pre-prepare", leaderFor(g.view), g.view, g.seq, g.req)
       /\ Few /\ g.req.flip => p \in QuorumB /\ leaderFor(g.view) \in Faulty

FreshProof(p, t, g) ==
  \A x \in g.proof : /\ SubmittedAfter(p, t, x.req)
                     /\ Backed(Sent, x.seq, x.view, x.req)
                     /\ g.type = "viewChange" => x.view = g.view
                     /\ g.type = "newView" => x.view + 1 = g.view

FreshCheckpoint(t, g) ==
  /\ g.seq <= nextSeq(t)
  /\ \A i \in 1 .. g.seq : g.digest.state[i] = t.confirmed[i].req

Fresh(p, t, e) ==
  /\ e \in Envelope /\ e.msg.from = p
  /\ e.msg.type \in Carriers => SubmittedAfter(p, t, e.msg.req)
  /\ e.msg.type = "pre-prepare" => FreshPrePrepare(p, t, e)
  /\ e.msg.type = "prepare" => FreshPrepare(p, t, e.msg)
  /\ e.msg.type = "commit" /\ p \in Honest =>
       Backed(Sent, e.msg.seq, e.msg.view, e.msg.req)
  /\ e.msg.type \in {"viewChange", "newView"} => FreshProof(p, t, e.msg)
  /\ e.msg.type = "checkpoint" /\ p \in Honest => FreshCheckpoint(t, e.msg)

Good(p, t, M) ==
  /\ Grown(p, t) /\ Confirms(p, t)
  /\ \A e \in M : Fresh(p, t, e)
  /\ p \in Honest =>
       \A d, e \in M : d.msg.type = "prepare" /\ e.msg.type = "prepare" => d.msg = e.msg

(* A step that is good in this sense keeps the inductive invariant. *)
LEMMA GoodStep ==
  ASSUME IndInv, NEW p \in Members, NEW t, NEW M, Good(p, t, M),
         config' = config, pbft' = [pbft EXCEPT ![p] = t], msgs' = msgs \cup M
  PROVE  IndInv'
<1> DEFINE s == pbft[p]
           New == { e.msg : e \in M }
<1>1. /\ TypesOK /\ PrepareOK /\ CommitOK /\ ProofOK /\ RequestOK /\ FlipOK
      /\ ConfirmedOK /\ DecidedOK /\ CheckpointOK /\ StableOK
      /\ Grown(p, t) /\ Confirms(p, t) /\ \A e \in M : Fresh(p, t, e)
  BY DEF IndInv, Good
<1>2. /\ pbft \in [Members -> Object] /\ t \in Object
      /\ pbft' \in [Members -> Object] /\ pbft'[p] = t
      /\ \A q \in Members \ {p} : pbft'[q] = pbft[q]
  BY <1>1 DEF TypesOK, Grown
<1>3. Sent' = Sent \cup New
  BY DEF Sent
<1>4. /\ Members' = Members /\ Honest' = Honest /\ Faulty' = Faulty /\ QuorumB' = QuorumB
      /\ f' = f /\ Few' = Few /\ Tight' = Tight /\ \A v : leaderFor(v)' = leaderFor(v)
  BY DEF Members, Honest, Faulty, QuorumA, QuorumB, f, Few, Tight, leaderFor
<1>5. \A g \in New : \E e \in M : e.msg = g /\ Fresh(p, t, e)
  BY <1>1
<1>6. \A q \in Members :
        /\ pbft[q].view \in Nat /\ pbft'[q].view \in Nat /\ pbft[q].view <= pbft'[q].view
        /\ pbft[q].nextId \in Nat /\ pbft'[q].nextId \in Nat /\ pbft[q].nextId <= pbft'[q].nextId
        /\ nextSeq(pbft[q]) \in Nat /\ nextSeq(pbft'[q]) \in Nat
        /\ nextSeq(pbft[q]) <= nextSeq(pbft'[q])
        /\ \A i \in 1 .. nextSeq(pbft[q]) : pbft'[q].confirmed[i] = pbft[q].confirmed[i]
        /\ \A n, v \in Nat : Past(pbft[q], n, v) => Past(pbft'[q], n, v)
  <2> SUFFICES ASSUME NEW q \in Members
               PROVE  /\ pbft[q].view \in Nat /\ pbft'[q].view \in Nat
                      /\ pbft[q].view <= pbft'[q].view
                      /\ pbft[q].nextId \in Nat /\ pbft'[q].nextId \in Nat
                      /\ pbft[q].nextId <= pbft'[q].nextId
                      /\ nextSeq(pbft[q]) \in Nat /\ nextSeq(pbft'[q]) \in Nat
                      /\ nextSeq(pbft[q]) <= nextSeq(pbft'[q])
                      /\ \A i \in 1 .. nextSeq(pbft[q]) :
                           pbft'[q].confirmed[i] = pbft[q].confirmed[i]
                      /\ \A n, v \in Nat : Past(pbft[q], n, v) => Past(pbft'[q], n, v)
    OBVIOUS
  <2>1. /\ pbft[q].view \in Nat /\ pbft'[q].view \in Nat
        /\ pbft[q].nextId \in Nat /\ pbft'[q].nextId \in Nat
        /\ pbft[q].confirmed \in Seq(Entry) /\ pbft'[q].confirmed \in Seq(Entry)
    BY <1>2 DEF Object
  <2>2. nextSeq(pbft[q]) \in Nat /\ nextSeq(pbft'[q]) \in Nat
    BY <2>1, LenProperties DEF nextSeq
  <2>3. CASE q = p
    BY <1>1, <1>2, <2>1, <2>2, <2>3 DEF Grown
  <2>4. CASE q # p
    <3>1. pbft'[q] = pbft[q]
      BY <1>2, <2>4
    <3> QED
      BY <2>1, <2>2, <3>1
  <2> QED
    BY <2>3, <2>4
<1>7. \A n, v, r : Backed(Sent, n, v, r) => Backed(Sent', n, v, r)
  BY <1>3 DEF Backed
<1>8. \A r : r.by \in Members /\ r.id \in Nat /\ r.id < pbft[r.by].nextId =>
             r.by \in Members /\ r.id < pbft'[r.by].nextId
  BY <1>6
<1>9. \A r : SubmittedAfter(p, t, r) => r.by \in Members /\ r.id < pbft'[r.by].nextId
  BY <1>2 DEF SubmittedAfter
<1>10. \A g \in Sent : g \in Msg /\ g.from \in Members
  BY <1>1 DEF TypesOK, Sent, Envelope
<1>11. \A g \in New : g \in Msg /\ g.from = p
  BY <1>5 DEF Fresh, Envelope
<1>h. Honest \subseteq Members
  BY DEF Honest
<1> HIDE DEF New
<1>12. TypesOK'
  <2>1. msgs' \subseteq Envelope
    BY <1>1 DEF TypesOK, Fresh
  <2>2. \A g \in Sent' : g.from \in Members
    BY <1>3, <1>10, <1>11
  <2>3. config' \in Scenarios
    BY <1>1 DEF TypesOK
  <2> QED
    BY <1>2, <1>4, <2>1, <2>2, <2>3 DEF TypesOK
<1>13. PrepareOK'
  <2> SUFFICES ASSUME NEW g \in Sent', g.type = "prepare"
               PROVE  /\ g.from # leaderFor(g.view)
                      /\ g.from \in Honest =>
                         /\ Past(pbft'[g.from], g.seq, g.view)
                         /\ \A h \in Sent' :
                              h.type = "prepare" /\ h.from = g.from /\ h.seq = g.seq
                              /\ h.view = g.view => h.req = g.req
                         /\ leaderFor(g.view) \in Honest =>
                              \E h \in Sent' : h = Proposal("pre-prepare", leaderFor(g.view),
                                                            g.view, g.seq, g.req)
    BY <1>4 DEF PrepareOK, leaderFor
  <2>0. \A x \in New : x.type = "prepare" => FreshPrepare(p, t, x)
    BY <1>5 DEF Fresh
  <2>1. g.from # leaderFor(g.view)
    BY <1>1, <1>3, <1>11, <2>0 DEF PrepareOK, FreshPrepare
  <2>2. ASSUME g.from \in Honest
        PROVE  /\ Past(pbft'[g.from], g.seq, g.view)
               /\ leaderFor(g.view) \in Honest =>
                    \E h \in Sent' : h = Proposal("pre-prepare", leaderFor(g.view),
                                                  g.view, g.seq, g.req)
    <3>1. CASE g \in Sent
      <4>1. g.seq \in Nat /\ g.view \in Nat
        BY <1>10, <3>1, MsgFields
      <4>2. Past(pbft[g.from], g.seq, g.view)
        BY <1>1, <2>2, <3>1 DEF PrepareOK
      <4>3. leaderFor(g.view) \in Honest =>
              \E h \in Sent : h = Proposal("pre-prepare", leaderFor(g.view), g.view, g.seq, g.req)
        BY <1>1, <2>2, <3>1 DEF PrepareOK
      <4> QED
        BY <1>3, <1>6, <1>h, <2>2, <4>1, <4>2, <4>3
    <3>2. CASE g \in New
      <4>1. g.from = p /\ FreshPrepare(p, t, g)
        BY <1>11, <2>0, <3>2
      <4> QED
        BY <1>2, <1>3, <2>2, <4>1 DEF FreshPrepare
    <3> QED
      BY <1>3, <3>1, <3>2
  <2>3. ASSUME g.from \in Honest, NEW h \in Sent', h.type = "prepare", h.from = g.from,
               h.seq = g.seq, h.view = g.view
        PROVE  h.req = g.req
    <3>1. CASE g \in Sent /\ h \in Sent
      BY <1>1, <2>3, <3>1 DEF PrepareOK
    <3>2. CASE g \in New /\ h \in New
      <4>1. p \in Honest
        BY <1>11, <2>3, <3>2
      <4>2. g = h
        BY <2>3, <3>2, <4>1 DEF New, Good
      <4> QED
        BY <4>2
    <3>3. ASSUME NEW a \in Sent, NEW b \in New, a.type = "prepare", b.type = "prepare",
                 a.from = b.from, a.seq = b.seq, a.view = b.view, b.from \in Honest
          PROVE  FALSE
      <4>1. b.from = p /\ FreshPrepare(p, t, b)
        BY <1>11, <2>0, <3>3
      <4>2. ~Past(pbft[p], b.seq, b.view)
        BY <3>3, <4>1 DEF FreshPrepare
      <4>3. Past(pbft[p], b.seq, b.view)
        BY <1>1, <3>3, <4>1 DEF PrepareOK
      <4> QED
        BY <4>2, <4>3
    <3> QED
      BY <1>3, <2>3, <3>1, <3>2, <3>3
  <2> QED
    BY <2>1, <2>2, <2>3
<1>14. CommitOK'
  <2> SUFFICES ASSUME NEW g \in Sent', g.type = "commit", g.from \in Honest
               PROVE  Backed(Sent', g.seq, g.view, g.req)
    BY <1>4 DEF CommitOK, Backed, Quorum, leaderFor
  <2>1. Backed(Sent, g.seq, g.view, g.req)
    <3>1. CASE g \in Sent
      BY <1>1, <3>1 DEF CommitOK
    <3>2. CASE g \in New
      BY <1>5, <1>11, <3>2 DEF Fresh
    <3> QED
      BY <1>3, <3>1, <3>2
  <2> QED
    BY <1>7, <2>1
<1>15. ProofOK'
  <2> SUFFICES ASSUME NEW g \in Sent', g.type \in {"viewChange", "newView"}, NEW x \in g.proof
               PROVE  /\ Backed(Sent', x.seq, x.view, x.req)
                      /\ g.type = "viewChange" => x.view = g.view
                      /\ g.type = "newView" => x.view + 1 = g.view
    BY <1>4 DEF ProofOK, Backed, Quorum, leaderFor
  <2>1. /\ Backed(Sent, x.seq, x.view, x.req)
        /\ g.type = "viewChange" => x.view = g.view
        /\ g.type = "newView" => x.view + 1 = g.view
    <3>1. CASE g \in Sent
      BY <1>1, <3>1 DEF ProofOK
    <3>2. CASE g \in New
      BY <1>5, <3>2 DEF Fresh, FreshProof
    <3> QED
      BY <1>3, <3>1, <3>2
  <2> QED
    BY <1>7, <2>1
<1>16. RequestOK'
  <2>1. ASSUME NEW g \in Sent'
        PROVE  /\ g.type \in Carriers => g.req.by \in Members /\ g.req.id < pbft'[g.req.by].nextId
               /\ g.type \in {"viewChange", "newView"} =>
                    \A x \in g.proof : x.req.by \in Members /\ x.req.id < pbft'[x.req.by].nextId
    <3>1. CASE g \in Sent
      <4>1. g \in Msg
        BY <1>10, <3>1
      <4>2. ASSUME g.type \in Carriers
            PROVE  g.req.by \in Members /\ g.req.id < pbft'[g.req.by].nextId
        <5>1. g.req.id \in Nat
          BY <4>1, <4>2, MsgFields DEF Req
        <5>2. g.req.by \in Members /\ g.req.id < pbft[g.req.by].nextId
          BY <1>1, <3>1, <4>2 DEF RequestOK, Submitted
        <5> QED
          BY <1>8, <5>1, <5>2
      <4>3. ASSUME g.type \in {"viewChange", "newView"}, NEW x \in g.proof
            PROVE  x.req.by \in Members /\ x.req.id < pbft'[x.req.by].nextId
        <5>1. x \in Proof
          BY <4>1, <4>3, MsgFields
        <5>2. x.req.id \in Nat
          BY <5>1 DEF Proof, Req
        <5>3. x.req.by \in Members /\ x.req.id < pbft[x.req.by].nextId
          BY <1>1, <3>1, <4>3 DEF RequestOK, Submitted
        <5> QED
          BY <1>8, <5>2, <5>3
      <4> QED
        BY <4>2, <4>3
    <3>2. CASE g \in New
      <4>1. /\ g.type \in Carriers => SubmittedAfter(p, t, g.req)
            /\ g.type \in {"viewChange", "newView"} => \A x \in g.proof : SubmittedAfter(p, t, x.req)
        BY <1>5, <3>2 DEF Fresh, FreshProof
      <4> QED
        BY <1>9, <4>1
    <3> QED
      BY <1>3, <3>1, <3>2
  <2>2. ASSUME NEW q \in Members
        PROVE  pbft'[q].own # None =>
                 pbft'[q].own.by = q /\ pbft'[q].own.id < pbft'[q].nextId /\ ~pbft'[q].own.flip
    <3>1. CASE q = p
      BY <1>1, <1>2, <3>1 DEF Grown
    <3>2. CASE q # p
      BY <1>1, <1>2, <3>2 DEF RequestOK
    <3> QED
      BY <3>1, <3>2
  <2>3. ASSUME NEW q \in Members, NEW i \in 1 .. nextSeq(pbft'[q])
        PROVE  /\ pbft'[q].confirmed[i].req.by \in Members
               /\ pbft'[q].confirmed[i].req.id < pbft'[pbft'[q].confirmed[i].req.by].nextId
    <3>1. CASE i \in 1 .. nextSeq(pbft[q])
      <4> DEFINE r == pbft[q].confirmed[i].req
      <4>1. pbft'[q].confirmed[i].req = r
        BY <1>6, <3>1
      <4>2. r.id \in Nat
        <5>1. pbft[q].confirmed \in Seq(Entry)
          BY <1>2 DEF Object
        <5>2. pbft[q].confirmed[i] \in Entry
          BY <3>1, <5>1, ElementOfSeq DEF nextSeq
        <5> QED
          BY <5>2 DEF Entry, Req
      <4>3. r.by \in Members /\ r.id < pbft[r.by].nextId
        BY <1>1, <3>1 DEF RequestOK, Submitted
      <4> QED
        BY <1>8, <4>1, <4>2, <4>3
    <3>2. CASE i \notin 1 .. nextSeq(pbft[q])
      <4>1. q = p
        BY <1>2, <3>2
      <4>2. i \in (nextSeq(pbft[p]) + 1) .. nextSeq(t)
        BY <1>2, <1>6, <3>2, <4>1
      <4>3. SubmittedAfter(p, t, t.confirmed[i].req)
        BY <1>1, <4>2 DEF Confirms
      <4> QED
        BY <1>2, <1>9, <4>1, <4>3
    <3> QED
      BY <3>1, <3>2
  <2> QED
    BY <1>4, <2>1, <2>2, <2>3 DEF RequestOK, Submitted
<1>17. FlipOK'
  <2> SUFFICES ASSUME Few
               PROVE  /\ \A e \in msgs' : e.msg.type = "pre-prepare" /\ e.msg.req.flip =>
                           e.msg.from \in Faulty /\ e.to \subseteq QuorumB
                      /\ \A g \in Sent' : g.type = "prepare" /\ g.from \in Honest /\ g.req.flip =>
                           g.from \in QuorumB /\ leaderFor(g.view) \in Faulty
    BY <1>4 DEF FlipOK, leaderFor
  <2>1. ASSUME NEW e \in msgs', e.msg.type = "pre-prepare", e.msg.req.flip
        PROVE  e.msg.from \in Faulty /\ e.to \subseteq QuorumB
    <3>1. CASE e \in msgs
      BY <1>1, <2>1, <3>1 DEF FlipOK
    <3>2. CASE e \in M
      BY <1>1, <2>1, <3>2 DEF Fresh, FreshPrePrepare
    <3> QED
      BY <3>1, <3>2
  <2>2. ASSUME NEW g \in Sent', g.type = "prepare", g.from \in Honest, g.req.flip
        PROVE  g.from \in QuorumB /\ leaderFor(g.view) \in Faulty
    <3>1. CASE g \in Sent
      BY <1>1, <2>2, <3>1 DEF FlipOK
    <3>2. CASE g \in New
      <4>1. g.from = p /\ FreshPrepare(p, t, g)
        BY <1>5, <1>11, <2>2, <3>2 DEF Fresh
      <4> QED
        BY <2>2, <4>1 DEF FreshPrepare
    <3> QED
      BY <1>3, <3>1, <3>2
  <2> QED
    BY <2>1, <2>2
<1>18. ConfirmedOK'
  <2> SUFFICES ASSUME NEW q \in Honest, NEW i \in 1 .. nextSeq(pbft'[q])
               PROVE  /\ pbft'[q].confirmed[i].view <= pbft'[q].view
                      /\ config.byzantine <= 2 * f =>
                           Backed(Sent', i - 1, pbft'[q].confirmed[i].view,
                                  pbft'[q].confirmed[i].req)
    BY <1>4 DEF ConfirmedOK, Backed, Quorum, leaderFor
  <2>0. q \in Members
    BY <1>h
  <2>1. CASE i \in 1 .. nextSeq(pbft[q])
    <3>1. pbft'[q].confirmed[i] = pbft[q].confirmed[i]
      BY <1>6, <2>0, <2>1
    <3>2. pbft[q].confirmed[i].view <= pbft[q].view
      BY <1>1, <2>1 DEF ConfirmedOK
    <3>3. config.byzantine <= 2 * f =>
            Backed(Sent, i - 1, pbft[q].confirmed[i].view, pbft[q].confirmed[i].req)
      BY <1>1, <2>1 DEF ConfirmedOK
    <3>4. pbft[q].confirmed[i].view \in Nat
      <4>1. pbft[q].confirmed \in Seq(Entry)
        BY <1>2, <2>0 DEF Object
      <4>2. pbft[q].confirmed[i] \in Entry
        BY <2>1, <4>1, ElementOfSeq DEF nextSeq
      <4> QED
        BY <4>2 DEF Entry
    <3>5. pbft[q].confirmed[i].view <= pbft'[q].view
      BY <1>6, <2>0, <3>2, <3>4
    <3> QED
      BY <1>7, <3>1, <3>3, <3>5
  <2>2. CASE i \notin 1 .. nextSeq(pbft[q])
    <3>1. q = p
      BY <1>2, <2>0, <2>2
    <3>2. i \in (nextSeq(pbft[p]) + 1) .. nextSeq(t)
      BY <1>2, <1>6, <2>2, <3>1
    <3>3. /\ t.confirmed[i].view = pbft[p].view
          /\ config.byzantine <= 2 * f =>
               Backed(Sent, i - 1, pbft[p].view, t.confirmed[i].req)
      BY <1>1, <3>2 DEF Confirms
    <3> QED
      BY <1>2, <1>6, <1>7, <3>1, <3>3
  <2> QED
    BY <2>1, <2>2
<1>19. DecidedOK'
  <2>0. \A x \in New : x.type = "prepare" => FreshPrepare(p, t, x)
    BY <1>5 DEF Fresh
  <2>e. \A x \in New : x.type = "pre-prepare" => \E e \in M : e.msg = x /\ FreshPrePrepare(p, t, e)
    BY <1>5 DEF Fresh
  <2>1. ASSUME NEW g \in Sent', g.type = "pre-prepare", g.from \in Honest
        PROVE  g.view <= pbft'[g.from].view
    <3>1. CASE g \in Sent
      <4>1. g.view <= pbft[g.from].view /\ g.view \in Nat /\ g.from \in Members
        BY <1>1, <1>10, <2>1, <3>1, MsgFields DEF DecidedOK
      <4> QED
        BY <1>6, <4>1
    <3>2. CASE g \in New
      BY <1>2, <1>11, <2>1, <2>e, <3>2 DEF FreshPrePrepare
    <3> QED
      BY <1>3, <3>1, <3>2
  <2>2. ASSUME NEW q \in Honest, NEW i \in 1 .. nextSeq(pbft'[q]), NEW g \in Sent',
               g.from = q, g.seq = i - 1
        PROVE  /\ g.type = "prepare" => g.view <= pbft'[q].confirmed[i].view
               /\ Tight /\ g.type = "pre-prepare" =>
                    g.view <= pbft'[q].confirmed[i].view \/ g.req = pbft'[q].confirmed[i].req
    <3>0. q \in Members /\ g \in Msg /\ g.view \in Nat /\ g.seq \in Nat /\ i \in Nat
      BY <1>3, <1>6, <1>10, <1>11, <1>h, MsgFields
    <3>1. CASE g \in Sent /\ i \in 1 .. nextSeq(pbft[q])
      <4>1. pbft'[q].confirmed[i] = pbft[q].confirmed[i]
        BY <1>6, <3>0, <3>1
      <4> QED
        BY <1>1, <2>2, <3>1, <4>1 DEF DecidedOK
    <3>2. ASSUME i \notin 1 .. nextSeq(pbft[q])
          PROVE  q = p /\ pbft'[q].confirmed[i].view = pbft[p].view
      <4>1. q = p
        BY <1>2, <3>0, <3>2
      <4>2. i \in (nextSeq(pbft[p]) + 1) .. nextSeq(t)
        BY <1>2, <1>6, <3>2, <4>1
      <4> QED
        BY <1>1, <1>2, <4>1, <4>2 DEF Confirms
    <3>3. CASE g \in Sent /\ i \notin 1 .. nextSeq(pbft[q])
      <4>1. q = p /\ pbft'[q].confirmed[i].view = pbft[p].view
        BY <3>2, <3>3
      <4>2. g.type = "pre-prepare" => g.view <= pbft[p].view
        BY <1>1, <2>2, <3>3, <4>1 DEF DecidedOK
      <4>3. g.type = "prepare" => Past(pbft[p], g.seq, g.view)
        BY <1>1, <2>2, <3>3, <4>1 DEF PrepareOK
      <4>4. g.type = "prepare" => g.view <= pbft[p].view
        BY <1>6, <3>0, <4>3 DEF Past
      <4> QED
        BY <4>1, <4>2, <4>4
    <3>4. CASE g \in New
      <4>1. q = p /\ p \in Honest
        BY <1>11, <2>2, <3>4
      <4>2. ~(g.seq >= nextSeq(t))
        BY <1>2, <1>6, <2>2, <3>0, <4>1
      <4>3. g.type # "prepare"
        BY <2>0, <3>4, <4>1, <4>2 DEF FreshPrepare
      <4>4. ASSUME Tight, g.type = "pre-prepare"
            PROVE  g.view <= pbft'[q].confirmed[i].view \/ g.req = pbft'[q].confirmed[i].req
        <5>1. /\ g.view = pbft[p].view
              /\ \E v \in Nat : v + 1 = g.view /\ Backed(Sent, g.seq, v, g.req)
          BY <2>e, <3>4, <4>1, <4>2, <4>4 DEF FreshPrePrepare
        <5>2. PICK v \in Nat : v + 1 = g.view /\ Backed(Sent, i - 1, v, g.req)
          BY <2>2, <5>1
        <5>3. CASE i \in 1 .. nextSeq(pbft[q])
          <6>1. pbft'[q].confirmed[i] = pbft[q].confirmed[i]
            BY <1>6, <3>0, <5>3
          <6>2. pbft[q].confirmed[i].view \in Nat
            <7>1. pbft[q].confirmed \in Seq(Entry)
              BY <1>2, <3>0 DEF Object
            <7>2. pbft[q].confirmed[i] \in Entry
              BY <5>3, <7>1, ElementOfSeq DEF nextSeq
            <7> QED
              BY <7>2 DEF Entry
          <6>3. CASE v >= pbft[q].confirmed[i].view
            <7>1. g.req = pbft[q].confirmed[i].req
              BY <4>4, <5>2, <5>3, <6>3, Locked
            <7> QED
              BY <6>1, <7>1
          <6>4. CASE ~(v >= pbft[q].confirmed[i].view)
            BY <5>2, <6>1, <6>2, <6>4
          <6> QED
            BY <6>3, <6>4
        <5>4. CASE i \notin 1 .. nextSeq(pbft[q])
          BY <1>6, <3>2, <5>1, <5>4
        <5> QED
          BY <5>3, <5>4
      <4> QED
        BY <4>3, <4>4
    <3> QED
      BY <1>3, <3>1, <3>3, <3>4
  <2> QED
    BY <1>4, <2>1, <2>2 DEF DecidedOK
<1>20. CheckpointOK'
  <2> SUFFICES ASSUME NEW g \in Sent', g.type = "checkpoint", g.from \in Honest
               PROVE  /\ g.seq <= nextSeq(pbft'[g.from])
                      /\ \A i \in 1 .. g.seq :
                           g.digest.state[i] = pbft'[g.from].confirmed[i].req
    BY <1>4 DEF CheckpointOK
  <2>1. CASE g \in Sent
    <3>1. g.seq \in Nat /\ g.from \in Members
      BY <1>10, <2>1, MsgFields
    <3>2. /\ g.seq <= nextSeq(pbft[g.from])
          /\ \A i \in 1 .. g.seq : g.digest.state[i] = pbft[g.from].confirmed[i].req
      BY <1>1, <2>1 DEF CheckpointOK
    <3> QED
      BY <1>6, <3>1, <3>2
  <2>2. CASE g \in New
    <3>1. g.from = p /\ FreshCheckpoint(t, g)
      BY <1>5, <1>11, <2>2 DEF Fresh
    <3> QED
      BY <1>2, <1>h, <3>1 DEF FreshCheckpoint
  <2> QED
    BY <1>3, <2>1, <2>2
<1>21. StableOK'
  <2> SUFFICES ASSUME NEW q \in Members PROVE (Shared(pbft[q].lastStable))'
    BY <1>4 DEF StableOK
  <2> DEFINE n == pbft'[q].lastStable
  <2>1. Shared(n) /\ n \in Nat
    <3>1. CASE q = p
      BY <1>1, <1>2, <3>1 DEF Grown, Object
    <3>2. CASE q # p
      BY <1>1, <1>2, <3>2 DEF StableOK, Object
    <3> QED
      BY <3>1, <3>2
  <2> HIDE DEF n
  <2> SUFFICES ASSUME n > 0, ~config.duplicates
               PROVE  \E Q \in SUBSET Honest :
                        /\ Cardinality(Q) + config.byzantine > 2 * f
                        /\ \A a \in Q : nextSeq(pbft'[a]) >= n
                        /\ \A a, b \in Q : \A i \in 1 .. n :
                             pbft'[a].confirmed[i].req = pbft'[b].confirmed[i].req
    BY <1>4 DEF Shared, n
  <2>2. PICK Q \in SUBSET Honest :
          /\ Cardinality(Q) + config.byzantine > 2 * f
          /\ \A a \in Q : nextSeq(pbft[a]) >= n
          /\ \A a, b \in Q : \A i \in 1 .. n :
               pbft[a].confirmed[i].req = pbft[b].confirmed[i].req
    BY <2>1 DEF Shared
  <2>3. \A a \in Q : a \in Members
    BY <1>h
  <2>4. \A a \in Q : /\ nextSeq(pbft'[a]) >= n
                     /\ \A i \in 1 .. n : pbft'[a].confirmed[i] = pbft[a].confirmed[i]
    BY <1>6, <2>1, <2>2, <2>3
  <2> QED
    BY <2>2, <2>4
<1> QED
  BY <1>12, <1>13, <1>14, <1>15, <1>16, <1>17, <1>18, <1>19, <1>20, <1>21 DEF IndInv
-----------------------------------------------------------------------------
(* Nothing is sent and nothing confirmed at the start. *)
LEMMA InitIndInv ==
  ASSUME Init
  PROVE  IndInv
<1>1. config \in Scenarios /\ msgs = {} /\ Sent = {}
  BY DEF Init, Sent
<1>2. \A p \in Members :
        /\ pbft[p] \in Object
        /\ pbft[p].confirmed = <<>> /\ pbft[p].own = None /\ pbft[p].lastStable = 0
  <2> SUFFICES ASSUME NEW p \in Members
               PROVE  /\ pbft[p] \in Object
                      /\ pbft[p].confirmed = <<>> /\ pbft[p].own = None
                      /\ pbft[p].lastStable = 0
    OBVIOUS
  <2>1. pbft[p] = [ view |-> 0, phase |-> "PrePrepare", confirmed |-> <<>>,
                    own |-> None, nextId |-> 0, lastStable |-> 0, anchor |-> 0 ]
    BY DEF Init
  <2>2. <<>> \in Seq(Entry)
    OBVIOUS
  <2> QED
    BY <2>1, <2>2 DEF Object, Phases
<1>3. \A p \in Members : nextSeq(pbft[p]) = 0
  BY <1>2, EmptySeq DEF nextSeq
<1>4. TypesOK
  BY <1>1, <1>2 DEF TypesOK, Init
<1>5. PrepareOK /\ CommitOK /\ ProofOK /\ FlipOK /\ CheckpointOK
  BY <1>1 DEF PrepareOK, CommitOK, ProofOK, FlipOK, CheckpointOK
<1>6. RequestOK
  BY <1>1, <1>2, <1>3 DEF RequestOK
<1>7. ConfirmedOK /\ DecidedOK
  BY <1>1, <1>3 DEF ConfirmedOK, DecidedOK, Honest
<1>8. StableOK
  BY <1>2 DEF StableOK, Shared
<1> QED
  BY <1>4, <1>5, <1>6, <1>7, <1>8 DEF IndInv

(* A step that confirms nothing moves to a later phase or view. *)
LEMMA Moves ==
  ASSUME IndInv, NEW p \in Members, NEW s \in maybeStableCheckpoint(p), NEW t \in Object,
         t.confirmed = s.confirmed, t.lastStable = s.lastStable, s.nextId <= t.nextId,
         t.own = s.own \/ (t.own.by = p /\ t.own.id < t.nextId /\ ~t.own.flip),
         \/ t.view = s.view + 1
         \/ /\ t.view = s.view
            /\ \/ t.phase = s.phase \/ s.phase \in {"ViewChange", "NewView"}
               \/ s.phase = "PrePrepare" /\ t.phase = "Prepare"
               \/ s.phase = "Prepare" /\ t.phase = "Commit"
  PROVE  Grown(p, t) /\ Confirms(p, t)
<1> DEFINE o == pbft[p]
<1>1. /\ s \in Object
      /\ s.view = o.view /\ s.phase = o.phase /\ s.confirmed = o.confirmed
      /\ s.own = o.own /\ s.nextId = o.nextId
      /\ Shared(s.lastStable)
  BY MaybeStable
<1>2. s.view \in Nat /\ s.nextId \in Nat /\ t.nextId \in Nat /\ t.view \in Nat
  BY <1>1 DEF Object
<1>3. nextSeq(t) = nextSeq(o) /\ nextSeq(o) \in Nat
  <2>1. s.confirmed \in Seq(Entry)
    BY <1>1 DEF Object
  <2> QED
    BY <1>1, <2>1, LenProperties DEF nextSeq
<1>4. \A n, v \in Nat : Past(o, n, v) => Past(t, n, v)
  BY <1>1, <1>2, <1>3 DEF Past
<1>5. t.own # None => t.own.by = p /\ t.own.id < t.nextId /\ ~t.own.flip
  <2>1. CASE t.own = s.own
    <3>1. o.own # None => o.own.by = p /\ o.own.id < o.nextId /\ ~o.own.flip
      BY DEF IndInv, RequestOK
    <3>2. o.own # None => o.own.id \in Nat
      BY <1>1 DEF Object, Req
    <3> QED
      BY <1>1, <1>2, <2>1, <3>1, <3>2
  <2> QED
    BY <2>1
<1>6. Grown(p, t)
  BY <1>1, <1>2, <1>3, <1>4, <1>5 DEF Grown
<1>7. Confirms(p, t)
  BY <1>3 DEF Confirms
<1> QED
  BY <1>6, <1>7

(* A proposal a replica has in its log. *)
LEMMA InLog ==
  ASSUME IndInv, NEW p, NEW n \in Nat, NEW v \in Nat, NEW pp \in Log(p, "pre-prepare", n, v)
  PROVE  /\ pp \in Sent /\ pp \in ProposalMsg /\ pp.req \in Req /\ Submitted(pp.req)
         /\ pp.view = v /\ pp.seq = n
         /\ pp = Proposal("pre-prepare", pp.from, v, n, pp.req)
<1>1. pp \in Sent /\ pp.type = "pre-prepare" /\ pp.seq = n /\ pp.view = v
  BY LogIsSent
<1>2. pp \in Msg
  BY <1>1 DEF IndInv, TypesOK, Sent, Envelope
<1>3. pp \in ProposalMsg /\ pp.req \in Req
  BY <1>1, <1>2, MsgFields DEF Carriers
<1>4. Submitted(pp.req)
  BY <1>1 DEF IndInv, RequestOK, Carriers
<1>5. pp = Proposal("pre-prepare", pp.from, v, n, pp.req)
  BY <1>1, <1>3 DEF ProposalMsg, Proposal
<1> QED
  BY <1>1, <1>3, <1>4, <1>5

(* What was submitted before a step was submitted after it. *)
LEMMA StillSubmitted ==
  ASSUME IndInv, NEW p \in Members, NEW t, Grown(p, t), NEW r \in Req, Submitted(r)
  PROVE  SubmittedAfter(p, t, r)
<1>1. pbft[p].nextId \in Nat /\ t.nextId \in Nat /\ pbft[p].nextId <= t.nextId /\ r.id \in Nat
  BY DEF IndInv, TypesOK, Grown, Object, Req
<1> QED
  BY <1>1 DEF Submitted, SubmittedAfter
-----------------------------------------------------------------------------
(* The leader proposes the front of its queue. *)
LEMMA ProposeStep ==
  ASSUME IndInv, NEW p \in Members, Propose(p)
  PROVE  IndInv'
<1>1. PICK s \in maybeStableCheckpoint(p) : \E q \in Front(p, s) :
        Becomes(p, [q[1] EXCEPT !.phase = "Prepare"],
                multicast(p, Proposal("pre-prepare", p, s.view, nextSeq(s), q[2])))
  BY DEF Propose
<1>2. PICK q \in Front(p, s) :
        Becomes(p, [q[1] EXCEPT !.phase = "Prepare"],
                multicast(p, Proposal("pre-prepare", p, s.view, nextSeq(s), q[2])))
  BY <1>1
<1>3. pbft[p].phase = "PrePrepare" /\ config \in Scenarios /\ Members \subseteq Nat
  BY Sizes DEF Propose, IndInv, TypesOK
<1>4. /\ s \in Object /\ s.view = pbft[p].view /\ s.phase = pbft[p].phase
      /\ s.confirmed = pbft[p].confirmed /\ s.own = pbft[p].own
      /\ s.nextId = pbft[p].nextId
  BY MaybeStable
<1> DEFINE t == [q[1] EXCEPT !.phase = "Prepare"]
           r == q[2]
           m == Proposal("pre-prepare", p, s.view, nextSeq(s), r)
<1>5. /\ r \in Req /\ ~r.flip /\ SubmittedAfter(p, t, r)
      /\ t \in Object /\ t.view = s.view /\ t.phase = "Prepare"
      /\ t.confirmed = s.confirmed /\ t.lastStable = s.lastStable /\ s.nextId <= t.nextId
      /\ t.own = s.own \/ (t.own.by = p /\ t.own.id < t.nextId /\ ~t.own.flip)
  <2>1. CASE s.own # None
    <3>1. q[1] = s /\ q[2] = s.own
      BY <2>1 DEF Front
    <3>2. t \in Object /\ t = [s EXCEPT !.phase = "Prepare"]
      BY <1>4, <3>1 DEF Object, Phases
    <3>3. /\ t.view = s.view /\ t.phase = "Prepare" /\ t.confirmed = s.confirmed
          /\ t.lastStable = s.lastStable /\ s.nextId = t.nextId /\ t.own = s.own
          /\ s.nextId \in Nat
      BY <1>4, <3>2 DEF Object
    <3>4. s.own \in Req /\ s.own.by = p /\ s.own.id < s.nextId /\ ~s.own.flip
      BY <1>4, <2>1 DEF IndInv, RequestOK, Object
    <3>5. SubmittedAfter(p, t, s.own)
      BY <3>3, <3>4 DEF SubmittedAfter
    <3> HIDE DEF t
    <3> QED
      BY <3>1, <3>2, <3>3, <3>4, <3>5
  <2>2. CASE s.own = None /\ q \in { <<s, x>> : x \in Foreign(p) }
    <3>1. q[1] = s /\ q[2] \in Foreign(p)
      BY <2>2
    <3>2. t \in Object /\ t = [s EXCEPT !.phase = "Prepare"]
      BY <1>4, <3>1 DEF Object, Phases
    <3>3. /\ t.view = s.view /\ t.phase = "Prepare" /\ t.confirmed = s.confirmed
          /\ t.lastStable = s.lastStable /\ s.nextId = t.nextId /\ t.own = s.own
          /\ s.nextId \in Nat
      BY <1>4, <3>2 DEF Object
    <3>4. PICK a \in Members \ {p}, i \in 0 .. config.requests - 1 :
            r = [by |-> a, id |-> i, flip |-> FALSE] /\ r.id < pbft[r.by].nextId
      <4> HIDE DEF r
      <4>1. r \in Foreign(p)
        BY <3>1 DEF r
      <4>2. /\ r \in { [by |-> a, id |-> i, flip |-> FALSE] :
                         a \in Members \ {p}, i \in 0 .. config.requests - 1 }
            /\ r.id < pbft[r.by].nextId
        BY <4>1 DEF Foreign
      <4> QED
        BY <4>2
    <3>5. r \in Req /\ ~r.flip /\ r.by = a /\ r.id < pbft[a].nextId
      <4>1. config.requests \in Nat
        BY <1>3, PbftAssumption
      <4>2. i \in Nat /\ a \in Nat
        BY <1>3, <4>1
      <4> QED
        BY <3>4, <4>2 DEF Req
    <3>6. SubmittedAfter(p, t, r)
      BY <3>5 DEF SubmittedAfter
    <3> HIDE DEF t
    <3> QED
      BY <3>2, <3>3, <3>5, <3>6
  <2>3. CASE /\ s.own = None
             /\ q = << [s EXCEPT !.own = [by |-> p, id |-> s.nextId, flip |-> FALSE],
                                 !.nextId = @ + 1],
                       [by |-> p, id |-> s.nextId, flip |-> FALSE] >>
    <3> DEFINE x == [by |-> p, id |-> s.nextId, flip |-> FALSE]
               u == [s EXCEPT !.own = x, !.nextId = @ + 1]
    <3>1. q[1] = u /\ q[2] = x
      BY <2>3
    <3>2. s.nextId \in Nat /\ p \in Nat
      BY <1>3, <1>4 DEF Object
    <3>3. x \in Req /\ x.by = p /\ x.id = s.nextId /\ x.flip = FALSE
      BY <3>2 DEF Req
    <3> HIDE DEF x
    <3>4. /\ u \in Object /\ u.view = s.view /\ u.confirmed = s.confirmed
          /\ u.lastStable = s.lastStable /\ u.own = x /\ u.nextId = s.nextId + 1
      <4> DEFINE w == [s EXCEPT !.own = x]
      <4>1. w \in Object /\ w.view = s.view /\ w.confirmed = s.confirmed
            /\ w.lastStable = s.lastStable /\ w.own = x /\ w.nextId = s.nextId
        BY <1>4, <3>3 DEF Object
      <4>2. u = [w EXCEPT !.nextId = s.nextId + 1]
        BY <1>4 DEF Object
      <4> HIDE DEF w, u
      <4> QED
        BY <3>2, <4>1, <4>2 DEF Object
    <3> HIDE DEF u
    <3>5. /\ t \in Object /\ t.view = u.view /\ t.phase = "Prepare"
          /\ t.confirmed = u.confirmed /\ t.lastStable = u.lastStable
          /\ t.own = u.own /\ t.nextId = u.nextId
      BY <3>1, <3>4 DEF Object, Phases
    <3> HIDE DEF t
    <3>6. SubmittedAfter(p, t, x)
      BY <3>2, <3>3, <3>4, <3>5 DEF SubmittedAfter
    <3> QED
      BY <3>1, <3>2, <3>3, <3>4, <3>5, <3>6
  <2> QED
    BY <2>1, <2>2, <2>3 DEF Front
<1>6. PICK M : M = multicast(p, m)
  OBVIOUS
<1>7. Becomes(p, t, M)
  BY <1>2, <1>6
<1> HIDE DEF t, r
<1>8. Grown(p, t) /\ Confirms(p, t)
  BY <1>3, <1>4, <1>5, Moves
<1>9. s.view \in Nat /\ nextSeq(s) \in Nat /\ nextSeq(t) = nextSeq(s)
  <2>1. s.view \in Nat /\ s.confirmed \in Seq(Entry)
    BY <1>4 DEF Object
  <2> QED
    BY <1>5, <2>1, LenProperties DEF nextSeq
<1>10. m \in Msg /\ m.from = p /\ m.type = "pre-prepare" /\ m.view = s.view /\ m.seq = nextSeq(s)
       /\ m.req = r
  <2>1. m \in ProposalMsg
    BY <1>3, <1>5, <1>9 DEF Proposal, ProposalMsg, Carriers
  <2> QED
    BY <2>1 DEF Proposal, Msg
<1> HIDE DEF m
<1>11. ASSUME NEW e \in M
       PROVE  Fresh(p, t, e) /\ e.msg.type = "pre-prepare"
  <2>1. /\ e \in Envelope
        /\ e.msg.type = "pre-prepare" /\ e.msg.from = p /\ e.msg.view = s.view
        /\ e.msg.seq = nextSeq(s)
        /\ e.msg.req.by = r.by /\ e.msg.req.id = r.id
        /\ e.msg.req.flip => p \in Faulty /\ e.to \subseteq QuorumB
    <3>1. e \in multicast(p, m)
      BY <1>6
    <3> QED
      BY <1>3, <1>5, <1>10, <3>1, Multicast DEF Carriers
  <2>2. SubmittedAfter(p, t, e.msg.req)
    BY <1>5, <2>1 DEF SubmittedAfter
  <2>3. FreshPrePrepare(p, t, e)
    BY <1>5, <1>9, <2>1 DEF FreshPrePrepare
  <2> QED
    BY <2>1, <2>2, <2>3 DEF Fresh
<1>12. Good(p, t, M)
  BY <1>8, <1>11 DEF Good
<1> QED
  BY <1>7, <1>12, GoodStep DEF Becomes

(* A follower prepares what the leader has sent it, once. *)
LEMMA SendPrepareStep ==
  ASSUME IndInv, NEW p \in Members, SendPrepare(p)
  PROVE  IndInv'
<1>1. PICK s \in maybeStableCheckpoint(p) :
        \E pp \in Log(p, "pre-prepare", nextSeq(s), s.view) :
          /\ pp.from = leaderFor(s.view)
          /\ Becomes(p, [s EXCEPT !.phase = "Prepare"],
                     multicast(p, [pp EXCEPT !.type = "prepare", !.from = p]))
  BY DEF SendPrepare
<1>2. PICK pp \in Log(p, "pre-prepare", nextSeq(s), s.view) :
          /\ pp.from = leaderFor(s.view)
          /\ Becomes(p, [s EXCEPT !.phase = "Prepare"],
                     multicast(p, [pp EXCEPT !.type = "prepare", !.from = p]))
  BY <1>1
<1>3. /\ pbft[p].phase = "PrePrepare" /\ p # leaderFor(pbft[p].view)
      /\ config \in Scenarios
  BY DEF SendPrepare, IndInv, TypesOK
<1>4. /\ s \in Object /\ s.view = pbft[p].view /\ s.phase = pbft[p].phase
      /\ s.confirmed = pbft[p].confirmed
  BY MaybeStable
<1>5. s.view \in Nat /\ nextSeq(s) \in Nat /\ nextSeq(pbft[p]) = nextSeq(s)
  <2>1. s.view \in Nat /\ s.confirmed \in Seq(Entry)
    BY <1>4 DEF Object
  <2> QED
    BY <1>4, <2>1, LenProperties DEF nextSeq
<1> DEFINE t == [s EXCEPT !.phase = "Prepare"]
           m == Proposal("prepare", p, s.view, nextSeq(s), pp.req)
<1>6. /\ pp \in Sent /\ pp.req \in Req /\ Submitted(pp.req)
      /\ pp = Proposal("pre-prepare", pp.from, s.view, nextSeq(s), pp.req)
      /\ [pp EXCEPT !.type = "prepare", !.from = p] = m /\ m \in Msg
  <2>1. /\ pp \in Sent /\ pp \in ProposalMsg /\ pp.req \in Req /\ Submitted(pp.req)
        /\ pp.view = s.view /\ pp.seq = nextSeq(s)
        /\ pp = Proposal("pre-prepare", pp.from, s.view, nextSeq(s), pp.req)
    BY <1>5, InLog
  <2> DEFINE c == [pp EXCEPT !.type = "prepare", !.from = p]
  <2>2. p \in Nat
    BY <1>3, Sizes
  <2>3. /\ c \in ProposalMsg /\ c.type = "prepare" /\ c.from = p /\ c.view = s.view
        /\ c.seq = nextSeq(s) /\ c.req = pp.req
    BY <2>1, <2>2 DEF ProposalMsg, Carriers
  <2> HIDE DEF c
  <2>4. c = m /\ c \in Msg
    BY <2>3 DEF ProposalMsg, Proposal, Msg
  <2> QED
    BY <2>1, <2>4 DEF c
<1>7. PICK M : M = multicast(p, m)
  OBVIOUS
<1>8. Becomes(p, t, M)
  BY <1>2, <1>6, <1>7
<1>9. /\ t \in Object /\ t.view = s.view /\ t.phase = "Prepare" /\ t.confirmed = s.confirmed
      /\ t.lastStable = s.lastStable /\ t.own = s.own /\ t.nextId = s.nextId
      /\ s.nextId \in Nat
  BY <1>4 DEF Object, Phases
<1> HIDE DEF t
<1>10. Grown(p, t) /\ Confirms(p, t)
  BY <1>3, <1>4, <1>9, Moves
<1>11. nextSeq(t) = nextSeq(s)
  BY <1>9 DEF nextSeq
<1>12. /\ m.from = p /\ m.type = "prepare" /\ m.view = s.view /\ m.seq = nextSeq(s)
       /\ m.req = pp.req
  BY DEF Proposal
<1> HIDE DEF m
<1>13. ~Past(pbft[p], nextSeq(s), s.view) /\ Past(t, nextSeq(s), s.view)
  BY <1>3, <1>4, <1>5, <1>9, <1>11 DEF Past
<1>14. Few /\ pp.req.flip => p \in QuorumB /\ leaderFor(s.view) \in Faulty
  <2>1. PICK d \in msgs : d.msg = pp /\ p \in d.to
    BY LogIsSent
  <2>2. pp.type = "pre-prepare"
    BY <1>6, LogIsSent
  <2> QED
    BY <1>2, <2>1, <2>2 DEF IndInv, FlipOK
<1>15. ASSUME NEW e \in M
       PROVE  Fresh(p, t, e) /\ (p \in Honest => e.msg = m)
  <2>1. /\ e \in Envelope
        /\ e.msg.type = "prepare" /\ e.msg.from = p /\ e.msg.view = s.view
        /\ e.msg.seq = nextSeq(s)
        /\ e.msg.req.by = pp.req.by /\ e.msg.req.id = pp.req.id
        /\ p \in Honest => e.msg = m
    <3>1. e \in multicast(p, m) /\ m \in Msg /\ m.from = p
      BY <1>6, <1>7, <1>12
    <3>2. /\ e \in Envelope
          /\ e.msg.type = m.type /\ e.msg.from = p /\ e.msg.view = m.view /\ e.msg.seq = m.seq
          /\ p \in Honest => e.msg = m
          /\ m.type \in Carriers => e.msg.req.by = m.req.by /\ e.msg.req.id = m.req.id
      BY <1>3, <3>1, Multicast
    <3> QED
      BY <1>12, <3>2 DEF Carriers
  <2>2. SubmittedAfter(p, t, e.msg.req)
    <3>1. SubmittedAfter(p, t, pp.req)
      BY <1>6, <1>10, StillSubmitted
    <3> QED
      BY <2>1, <3>1 DEF SubmittedAfter
  <2>3. FreshPrepare(p, t, e.msg)
    <3>1. p # leaderFor(e.msg.view)
      BY <1>3, <1>4, <2>1
    <3>2. ASSUME p \in Honest
          PROVE  /\ ~Past(pbft[p], e.msg.seq, e.msg.view) /\ Past(t, e.msg.seq, e.msg.view)
                 /\ e.msg.seq >= nextSeq(t)
      BY <1>5, <1>11, <1>13, <2>1
    <3>3. p \in Honest =>
            \E h \in Sent : h = Proposal("pre-prepare", leaderFor(e.msg.view), e.msg.view,
                                         e.msg.seq, e.msg.req)
      BY <1>2, <1>6, <1>12, <2>1
    <3>4. p \in Honest /\ Few /\ e.msg.req.flip => p \in QuorumB /\ leaderFor(e.msg.view) \in Faulty
      BY <1>12, <1>14, <2>1
    <3> QED
      BY <3>1, <3>2, <3>3, <3>4 DEF FreshPrepare
  <2> QED
    BY <2>1, <2>2, <2>3 DEF Fresh
<1>16. Good(p, t, M)
  BY <1>10, <1>15 DEF Good
<1> QED
  BY <1>8, <1>16, GoodStep DEF Becomes

(* A replica commits what is prepared, hence backed. *)
LEMMA SendCommitStep ==
  ASSUME IndInv, NEW p \in Members, SendCommit(p)
  PROVE  IndInv'
<1>1. PICK s \in maybeStableCheckpoint(p) :
        \E pp \in Log(p, "pre-prepare", nextSeq(s), s.view) :
          /\ isPrepared(p, s.view, nextSeq(s), pp.req)
          /\ Becomes(p, [s EXCEPT !.phase = "Commit"],
                     multicast(p, [pp EXCEPT !.type = "commit", !.from = p]))
  BY DEF SendCommit
<1>2. PICK pp \in Log(p, "pre-prepare", nextSeq(s), s.view) :
          /\ isPrepared(p, s.view, nextSeq(s), pp.req)
          /\ Becomes(p, [s EXCEPT !.phase = "Commit"],
                     multicast(p, [pp EXCEPT !.type = "commit", !.from = p]))
  BY <1>1
<1>3. pbft[p].phase = "Prepare" /\ config \in Scenarios
  BY DEF SendCommit, IndInv, TypesOK
<1>4. s \in Object /\ s.view = pbft[p].view /\ s.phase = pbft[p].phase
  BY MaybeStable
<1>5. s.view \in Nat /\ nextSeq(s) \in Nat
  <2>1. s.view \in Nat /\ s.confirmed \in Seq(Entry)
    BY <1>4 DEF Object
  <2> QED
    BY <2>1, LenProperties DEF nextSeq
<1> DEFINE t == [s EXCEPT !.phase = "Commit"]
           m == Proposal("commit", p, s.view, nextSeq(s), pp.req)
<1>6. /\ pp.req \in Req /\ Submitted(pp.req)
      /\ [pp EXCEPT !.type = "commit", !.from = p] = m /\ m \in Msg
  <2>1. /\ pp \in Sent /\ pp \in ProposalMsg /\ pp.req \in Req /\ Submitted(pp.req)
        /\ pp.view = s.view /\ pp.seq = nextSeq(s)
        /\ pp = Proposal("pre-prepare", pp.from, s.view, nextSeq(s), pp.req)
    BY <1>5, InLog
  <2> DEFINE c == [pp EXCEPT !.type = "commit", !.from = p]
  <2>2. p \in Nat
    BY <1>3, Sizes
  <2>3. /\ c \in ProposalMsg /\ c.type = "commit" /\ c.from = p /\ c.view = s.view
        /\ c.seq = nextSeq(s) /\ c.req = pp.req
    BY <2>1, <2>2 DEF ProposalMsg, Carriers
  <2> HIDE DEF c
  <2>4. c = m /\ c \in Msg
    BY <2>3 DEF ProposalMsg, Proposal, Msg
  <2> QED
    BY <2>1, <2>4 DEF c
<1>7. PICK M : M = multicast(p, m)
  OBVIOUS
<1>8. Becomes(p, t, M)
  BY <1>2, <1>6, <1>7
<1>9. /\ t \in Object /\ t.view = s.view /\ t.phase = "Commit" /\ t.confirmed = s.confirmed
      /\ t.lastStable = s.lastStable /\ t.own = s.own /\ t.nextId = s.nextId
      /\ s.nextId \in Nat
  BY <1>4 DEF Object, Phases
<1> HIDE DEF t
<1>10. Grown(p, t) /\ Confirms(p, t)
  BY <1>3, <1>4, <1>9, Moves
<1>11. /\ m.from = p /\ m.type = "commit" /\ m.view = s.view /\ m.seq = nextSeq(s)
       /\ m.req = pp.req
  BY DEF Proposal
<1>12. Backed(Sent, nextSeq(s), s.view, pp.req)
  BY <1>2, <1>5, <1>6, PreparedIsBacked DEF IndInv
<1> HIDE DEF m
<1>13. ASSUME NEW e \in M
       PROVE  Fresh(p, t, e) /\ e.msg.type = "commit"
  <2>1. /\ e \in Envelope /\ e.msg.type = "commit" /\ e.msg.from = p
        /\ e.msg.req.by = pp.req.by /\ e.msg.req.id = pp.req.id
        /\ p \in Honest => e.msg = m
    <3>1. e \in multicast(p, m) /\ m \in Msg /\ m.from = p
      BY <1>6, <1>7, <1>11
    <3>2. /\ e \in Envelope
          /\ e.msg.type = m.type /\ e.msg.from = p /\ e.msg.view = m.view /\ e.msg.seq = m.seq
          /\ p \in Honest => e.msg = m
          /\ m.type \in Carriers => e.msg.req.by = m.req.by /\ e.msg.req.id = m.req.id
      BY <1>3, <3>1, Multicast
    <3> QED
      BY <1>11, <3>2 DEF Carriers
  <2>2. SubmittedAfter(p, t, e.msg.req)
    <3>1. SubmittedAfter(p, t, pp.req)
      BY <1>6, <1>10, StillSubmitted
    <3> QED
      BY <2>1, <3>1 DEF SubmittedAfter
  <2> QED
    BY <1>11, <1>12, <2>1, <2>2 DEF Fresh
<1>14. Good(p, t, M)
  BY <1>10, <1>13 DEF Good
<1> QED
  BY <1>8, <1>14, GoodStep DEF Becomes

(* The checkpoint a replica sends is a message that shows its state. *)
LEMMA CheckpointShows ==
  ASSUME NEW p \in Nat, NEW t \in Object
  PROVE  /\ Checkpoint(p, t) \in Msg
         /\ Checkpoint(p, t).from = p /\ Checkpoint(p, t).type = "checkpoint"
         /\ FreshCheckpoint(t, Checkpoint(p, t))
<1> DEFINE n == nextSeq(t)
           st == [i \in 1 .. n |-> t.confirmed[i].req]
<1>1. t.confirmed \in Seq(Entry) /\ t.view \in Nat
  BY DEF Object
<1>2. n \in Nat
  BY <1>1, LenProperties DEF nextSeq
<1>3. \A i \in 1 .. n : t.confirmed[i].req \in Req
  <2>1. \A i \in 1 .. n : t.confirmed[i] \in Entry
    BY <1>1, ElementOfSeq DEF nextSeq
  <2> QED
    BY <2>1 DEF Entry
<1> HIDE DEF n
<1>4. st \in Seq(Req) /\ \A i \in 1 .. n : st[i] = t.confirmed[i].req
  BY <1>2, <1>3
<1>5. Checkpoint(p, t) = [type |-> "checkpoint", from |-> p, view |-> t.view, seq |-> n,
                          digest |-> [state |-> st, flip |-> FALSE]]
  BY DEF Checkpoint, n
<1> HIDE DEF st
<1>6. Checkpoint(p, t) \in CheckpointMsg
  BY <1>1, <1>2, <1>4, <1>5 DEF CheckpointMsg
<1>7. FreshCheckpoint(t, Checkpoint(p, t))
  BY <1>2, <1>4, <1>5 DEF FreshCheckpoint, n
<1> QED
  BY <1>5, <1>6, <1>7 DEF Msg

(* A replica confirms what is committed, hence backed. *)
LEMMA DecideStep ==
  ASSUME IndInv, NEW p \in Members, Decide(p)
  PROVE  IndInv'
<1>1. PICK s \in maybeStableCheckpoint(p) :
        \E pp \in Log(p, "pre-prepare", nextSeq(s), s.view) :
          /\ isCommitted(p, s.view, nextSeq(s), pp.req)
          /\ LET t == [s EXCEPT !.confirmed = Append(@, [req |-> pp.req, view |-> s.view]),
                                !.own = IF @ = pp.req THEN None ELSE @,
                                !.phase = "PrePrepare"] IN
             Becomes(p, t, sendCheckpoint(p, t))
  BY DEF Decide
<1>2. PICK pp \in Log(p, "pre-prepare", nextSeq(s), s.view) :
          /\ isCommitted(p, s.view, nextSeq(s), pp.req)
          /\ LET t == [s EXCEPT !.confirmed = Append(@, [req |-> pp.req, view |-> s.view]),
                                !.own = IF @ = pp.req THEN None ELSE @,
                                !.phase = "PrePrepare"] IN
             Becomes(p, t, sendCheckpoint(p, t))
  BY <1>1
<1>3. pbft[p].phase = "Commit" /\ config \in Scenarios /\ p \in Nat
  BY Sizes DEF Decide, IndInv, TypesOK
<1>4. /\ s \in Object /\ s.view = pbft[p].view /\ s.phase = pbft[p].phase
      /\ s.confirmed = pbft[p].confirmed /\ s.own = pbft[p].own
      /\ s.nextId = pbft[p].nextId /\ Shared(s.lastStable)
  BY MaybeStable
<1>5. /\ s.view \in Nat /\ s.nextId \in Nat /\ s.confirmed \in Seq(Entry)
      /\ nextSeq(s) \in Nat /\ nextSeq(pbft[p]) = nextSeq(s)
  <2>1. s.view \in Nat /\ s.nextId \in Nat /\ s.confirmed \in Seq(Entry)
    BY <1>4 DEF Object
  <2> QED
    BY <1>4, <2>1, LenProperties DEF nextSeq
<1>6. pp.req \in Req /\ Submitted(pp.req)
  BY <1>5, InLog
<1> DEFINE c == [req |-> pp.req, view |-> s.view]
           o == IF s.own = pp.req THEN None ELSE s.own
           t == [s EXCEPT !.confirmed = Append(@, c),
                          !.own = IF @ = pp.req THEN None ELSE @,
                          !.phase = "PrePrepare"]
<1>7. c \in Entry /\ c.req = pp.req /\ c.view = s.view
  BY <1>5, <1>6 DEF Entry
<1>8. PICK M : M = sendCheckpoint(p, t)
  OBVIOUS
<1>9. Becomes(p, t, M)
  BY <1>2, <1>8
<1> HIDE DEF c
<1>10. Append(s.confirmed, c) \in Seq(Entry) /\ s.own \in Req \cup {None} /\ o \in Req \cup {None}
  BY <1>4, <1>5, <1>7, AppendProperties DEF Object
<1>11. /\ t \in Object /\ t.view = s.view /\ t.phase = "PrePrepare"
       /\ t.confirmed = Append(s.confirmed, c)
       /\ t.lastStable = s.lastStable /\ t.own = o /\ t.nextId = s.nextId
  <2>1. t = [s EXCEPT !.confirmed = Append(s.confirmed, c), !.own = o, !.phase = "PrePrepare"]
    BY <1>4 DEF Object
  <2> HIDE DEF o, t
  <2>2. PICK a : a = Append(s.confirmed, c)
    OBVIOUS
  <2> QED
    BY <1>4, <1>10, <2>1, <2>2 DEF Object, Phases
<1> HIDE DEF t
<1>12. /\ nextSeq(t) = nextSeq(s) + 1
       /\ \A i \in 1 .. nextSeq(s) : t.confirmed[i] = s.confirmed[i]
       /\ t.confirmed[nextSeq(s) + 1] = c
  BY <1>5, <1>7, <1>11, AppendProperties DEF nextSeq
<1>13. Grown(p, t)
  <2>1. \A n, v \in Nat : Past(pbft[p], n, v) => Past(t, n, v)
    BY <1>3, <1>4, <1>5, <1>11, <1>12 DEF Past
  <2>2. t.own # None => t.own.by = p /\ t.own.id < t.nextId /\ ~t.own.flip
    <3>1. s.own # None => s.own.by = p /\ s.own.id < s.nextId /\ ~s.own.flip
      BY <1>4 DEF IndInv, RequestOK
    <3> QED
      BY <1>11, <3>1
  <2>3. /\ pbft[p].view <= t.view /\ pbft[p].nextId <= t.nextId
        /\ nextSeq(pbft[p]) <= nextSeq(t)
    BY <1>4, <1>5, <1>11, <1>12
  <2>4. \A i \in 1 .. nextSeq(pbft[p]) : t.confirmed[i] = pbft[p].confirmed[i]
    BY <1>4, <1>5, <1>12
  <2>5. t \in Object /\ Shared(t.lastStable)
    BY <1>4, <1>11
  <2> QED
    BY <2>1, <2>2, <2>3, <2>4, <2>5 DEF Grown
<1>14. SubmittedAfter(p, t, pp.req)
  BY <1>6, <1>13, StillSubmitted
<1>15. Confirms(p, t)
  <2> SUFFICES ASSUME NEW i \in (nextSeq(pbft[p]) + 1) .. nextSeq(t)
               PROVE  /\ t.confirmed[i].view = pbft[p].view
                      /\ SubmittedAfter(p, t, t.confirmed[i].req)
                      /\ config.byzantine <= 2 * f =>
                           Backed(Sent, i - 1, pbft[p].view, t.confirmed[i].req)
    BY DEF Confirms
  <2>1. i = nextSeq(s) + 1 /\ i - 1 = nextSeq(s)
    BY <1>5, <1>12
  <2>2. t.confirmed[i] = c
    BY <1>12, <2>1
  <2>3. config.byzantine <= 2 * f => Backed(Sent, nextSeq(s), s.view, pp.req)
    BY <1>2, <1>5, CommittedIsBacked DEF IndInv
  <2> QED
    BY <1>4, <1>7, <1>14, <2>1, <2>2, <2>3
<1>16. ASSUME NEW e \in M
       PROVE  Fresh(p, t, e) /\ e.msg.type = "checkpoint"
  <2>1. PICK m : m = Checkpoint(p, t)
    OBVIOUS
  <2>2. m \in Msg /\ m.from = p /\ m.type = "checkpoint" /\ FreshCheckpoint(t, m)
    BY <1>3, <1>11, <2>1, CheckpointShows
  <2>3. e \in multicast(p, m)
    BY <1>8, <2>1 DEF sendCheckpoint
  <2>4. /\ e \in Envelope /\ e.msg.type = m.type /\ e.msg.from = p
        /\ p \in Honest => e.msg = m
    BY <1>3, <2>2, <2>3, Multicast
  <2> QED
    BY <2>2, <2>4 DEF Fresh, Carriers
<1>17. Good(p, t, M)
  BY <1>13, <1>15, <1>16 DEF Good
<1> QED
  BY <1>9, <1>17, GoodStep DEF Becomes

(* The message that opens a view carries prepared requests. *)
LEMMA ViewMessage ==
  ASSUME IndInv, NEW p \in Members, NEW t, Grown(p, t), NEW m \in Msg, m.from = p,
         m.type \in {"viewChange", "newView"},
         \A x \in m.proof : /\ Submitted(x.req) /\ Backed(Sent, x.seq, x.view, x.req)
                            /\ m.type = "viewChange" => x.view = m.view
                            /\ m.type = "newView" => x.view + 1 = m.view,
         NEW e \in multicast(p, m)
  PROVE  Fresh(p, t, e) /\ e.msg.type \in {"viewChange", "newView"}
<1>1. e \in Envelope /\ e.msg = m
  BY Multicast DEF IndInv, TypesOK
<1>2. \A x \in m.proof : x.req \in Req
  BY MsgFields DEF Proof
<1>3. \A x \in m.proof : SubmittedAfter(p, t, x.req)
  <2> SUFFICES ASSUME NEW x \in m.proof PROVE SubmittedAfter(p, t, x.req)
    OBVIOUS
  <2>1. PICK r : r = x.req
    OBVIOUS
  <2> QED
    BY <1>2, <2>1, StillSubmitted
<1> QED
  BY <1>1, <1>3 DEF Fresh, FreshProof, Carriers

(* The proofs a replica takes into a view change are prepared requests. *)
LEMMA ViewChangeStep ==
  ASSUME IndInv, NEW p \in Members, requestViewChange(p)
  PROVE  IndInv'
<1> DEFINE N(s) == (s.lastStable + 1) .. (nextSeq(s) - 1)
<1>1. PICK s \in maybeStableCheckpoint(p) :
        \E proof \in Selections([n \in N(s) |-> Proofs(p, n, s.view)], N(s)) :
          Becomes(p, [s EXCEPT !.view = @ + 1, !.anchor = s.lastStable,
                               !.phase = "ViewChange"],
                  multicast(p, [type |-> "viewChange", from |-> p, view |-> s.view,
                                seq |-> s.lastStable, proof |-> proof]))
  BY DEF requestViewChange
<1>2. PICK proof \in Selections([n \in N(s) |-> Proofs(p, n, s.view)], N(s)) :
        Becomes(p, [s EXCEPT !.view = @ + 1, !.anchor = s.lastStable,
                             !.phase = "ViewChange"],
                multicast(p, [type |-> "viewChange", from |-> p, view |-> s.view,
                              seq |-> s.lastStable, proof |-> proof]))
  BY <1>1
<1>3. s \in Object /\ s.view \in Nat /\ s.lastStable \in Nat /\ s.nextId \in Nat /\ p \in Nat
      /\ nextSeq(s) \in Nat
  <2>1. s \in Object
    BY MaybeStable
  <2>2. s.view \in Nat /\ s.lastStable \in Nat /\ s.nextId \in Nat /\ s.confirmed \in Seq(Entry)
    BY <2>1 DEF Object
  <2>3. p \in Nat
    BY Sizes DEF IndInv, TypesOK
  <2> QED
    BY <2>1, <2>2, <2>3, LenProperties DEF nextSeq
<1> DEFINE t == [s EXCEPT !.view = @ + 1, !.anchor = s.lastStable, !.phase = "ViewChange"]
           m == [type |-> "viewChange", from |-> p, view |-> s.view,
                 seq |-> s.lastStable, proof |-> proof]
<1>4. PICK M : M = multicast(p, m)
  OBVIOUS
<1>5. Becomes(p, t, M)
  BY <1>2, <1>4
<1>6. /\ t \in Object /\ t.view = s.view + 1 /\ t.confirmed = s.confirmed
      /\ t.lastStable = s.lastStable /\ t.own = s.own /\ t.nextId = s.nextId
  <2>1. PICK w \in Nat : w = s.view + 1
    BY <1>3
  <2>2. t = [s EXCEPT !.view = w, !.anchor = s.lastStable, !.phase = "ViewChange"]
    BY <1>3, <2>1 DEF Object
  <2> HIDE DEF t
  <2>3. /\ t \in Object /\ t.view = w /\ t.confirmed = s.confirmed
        /\ t.lastStable = s.lastStable /\ t.own = s.own /\ t.nextId = s.nextId
    BY <1>3, <2>2 DEF Object, Phases
  <2> QED
    BY <2>1, <2>3
<1> HIDE DEF t
<1>7. Grown(p, t) /\ Confirms(p, t)
  BY <1>3, <1>6, Moves
<1>8. ASSUME NEW x \in proof
      PROVE  /\ x \in Proof /\ x.view = s.view
             /\ Submitted(x.req) /\ Backed(Sent, x.seq, x.view, x.req)
  <2>1. PICK n \in N(s) : x \in Proofs(p, n, s.view)
    BY <1>2 DEF Selections
  <2>2. n \in Nat
    BY <1>3, <2>1
  <2>3. PICK g \in Log(p, "pre-prepare", n, s.view) :
          isPrepared(p, s.view, n, g.req) /\ x = [seq |-> n, view |-> s.view, req |-> g.req]
    BY <2>1 DEF Proofs
  <2>4. g.req \in Req /\ Submitted(g.req)
    BY <1>3, <2>2, InLog
  <2>5. PICK r : r = g.req
    OBVIOUS
  <2>6. Backed(Sent, n, s.view, r)
    BY <1>3, <2>2, <2>3, <2>4, <2>5, PreparedIsBacked DEF IndInv
  <2> QED
    BY <1>3, <2>2, <2>3, <2>4, <2>5, <2>6 DEF Proof
<1>9. /\ m \in Msg /\ m.from = p /\ m.type = "viewChange" /\ m.view = s.view /\ m.proof = proof
  <2>1. proof \in SUBSET Proof
    BY <1>8
  <2>2. m \in ViewMsg
    BY <1>3, <2>1 DEF ViewMsg
  <2> QED
    BY <2>2 DEF Msg
<1> HIDE DEF m
<1>10. \A e \in M : Fresh(p, t, e) /\ e.msg.type \in {"viewChange", "newView"}
  BY <1>4, <1>7, <1>8, <1>9, ViewMessage
<1>11. Good(p, t, M)
  BY <1>7, <1>10 DEF Good
<1> QED
  BY <1>5, <1>11, GoodStep DEF Becomes

(* The new leader hands on what the view changes carry. *)
LEMMA EnterNewViewStep ==
  ASSUME IndInv, NEW p \in Members, EnterNewView(p)
  PROVE  IndInv'
<1> DEFINE T(s) == [s EXCEPT !.phase = "NewView"]
           m(s, proof) == [type |-> "newView", from |-> p, view |-> s.view,
                           seq |-> s.anchor, proof |-> proof]
<1>0. PICK s \in maybeStableCheckpoint(p) : \E Q \in SUBSET ViewChanges(p, s) :
        \/ \E proof \in BestProofs(Q, s) : Becomes(p, T(s), multicast(p, m(s, proof)))
        \/ Becomes(p, T(s), {})
  BY DEF EnterNewView
<1>1. PICK Q \in SUBSET ViewChanges(p, s) :
        \/ \E proof \in BestProofs(Q, s) : Becomes(p, T(s), multicast(p, m(s, proof)))
        \/ Becomes(p, T(s), {})
  BY <1>0
<1>2. pbft[p].phase = "ViewChange" /\ p \in Nat
  BY Sizes DEF EnterNewView, IndInv, TypesOK
<1>3. /\ s \in Object /\ s.phase = pbft[p].phase
      /\ s.view \in Nat /\ s.anchor \in Nat /\ s.nextId \in Nat
  <2>1. s \in Object /\ s.phase = pbft[p].phase
    BY MaybeStable
  <2> QED
    BY <2>1 DEF Object
<1> DEFINE t == T(s)
<1>4. /\ t \in Object /\ t.view = s.view /\ t.confirmed = s.confirmed
      /\ t.lastStable = s.lastStable /\ t.own = s.own /\ t.nextId = s.nextId
  BY <1>3 DEF Object, Phases
<1>5. Grown(p, t) /\ Confirms(p, t)
  <2> HIDE DEF t
  <2> QED
    BY <1>2, <1>3, <1>4, Moves
<1>6. CASE Becomes(p, t, {})
  <2> HIDE DEF t
  <2>1. Good(p, t, {})
    BY <1>5 DEF Good
  <2> QED
    BY <1>6, <2>1, GoodStep DEF Becomes
<1>7. ASSUME NEW proof \in BestProofs(Q, s), Becomes(p, t, multicast(p, m(s, proof)))
      PROVE  IndInv'
  <2> DEFINE c == m(s, proof)
  <2>1. PICK M : M = multicast(p, c)
    OBVIOUS
  <2>2. Becomes(p, t, M)
    BY <1>7, <2>1
  <2> HIDE DEF t
  <2>3. ASSUME NEW x \in proof
        PROVE  /\ x \in Proof /\ x.view + 1 = s.view
               /\ Submitted(x.req) /\ Backed(Sent, x.seq, x.view, x.req)
    <3>1. PICK g \in Q : x \in g.proof
      <4> DEFINE all == { y \in UNION { g.proof : g \in Q } : y.seq > s.lastStable }
                 G == [n \in 1 .. config.seqs |-> { y \in all : y.seq = n }]
      <4>0. proof \in Selections(G, 1 .. config.seqs)
        BY <1>7 DEF BestProofs
      <4>1. x \in UNION { g.proof : g \in Q }
        <5>1. PICK n \in 1 .. config.seqs : x \in G[n]
          <6> HIDE DEF G
          <6> QED
            BY <4>0 DEF Selections
        <5>2. G[n] = { y \in all : y.seq = n }
          OBVIOUS
        <5> HIDE DEF G
        <5> QED
          BY <5>1, <5>2
      <4> HIDE DEF all, G
      <4> QED
        BY <4>1
    <3>2. g \in Sent /\ g.type = "viewChange" /\ g.view = s.view - 1
      <4>1. g \in Log(p, "viewChange", s.anchor, s.view - 1)
        BY DEF ViewChanges
      <4> QED
        BY <4>1, LogIsSent
    <3>3. g \in Msg
      BY <3>2 DEF IndInv, TypesOK, Sent, Envelope
    <3>4. x \in Proof
      BY <3>1, <3>2, <3>3, MsgFields
    <3>5. x.view = g.view /\ Backed(Sent, x.seq, x.view, x.req)
      BY <3>1, <3>2 DEF IndInv, ProofOK
    <3>6. Submitted(x.req)
      BY <3>1, <3>2 DEF IndInv, RequestOK
    <3>7. x.view + 1 = s.view
      BY <1>3, <3>2, <3>5
    <3> QED
      BY <3>4, <3>5, <3>6, <3>7
  <2>4. c \in Msg /\ c.from = p /\ c.type = "newView" /\ c.view = s.view /\ c.proof = proof
    <3>1. proof \in SUBSET Proof
      BY <2>3
    <3>2. c \in ViewMsg
      BY <1>2, <1>3, <3>1 DEF ViewMsg
    <3> QED
      BY <3>2 DEF Msg
  <2> HIDE DEF c
  <2>5. \A e \in M : Fresh(p, t, e) /\ e.msg.type \in {"viewChange", "newView"}
    BY <1>5, <2>1, <2>3, <2>4, ViewMessage
  <2>6. Good(p, t, M)
    BY <1>5, <2>5 DEF Good
  <2> QED
    BY <2>2, <2>6, GoodStep DEF Becomes
<1> QED
  BY <1>1, <1>6, <1>7

(* The pre-prepares of a new view repeat what was prepared in the last one. *)
LEMMA InstallViewStep ==
  ASSUME IndInv, NEW p \in Members, InstallView(p)
  PROVE  IndInv'
<1>0. PICK s \in maybeStableCheckpoint(p) : \E nv \in Log(p, "newView", s.anchor, s.view) :
        Becomes(p, [s EXCEPT !.phase = "PrePrepare"],
                UNION { multicast(p, Proposal("pre-prepare", p, s.view, x.seq, x.req)) :
                          x \in nv.proof })
  BY DEF InstallView
<1>1. PICK nv \in Log(p, "newView", s.anchor, s.view) :
        Becomes(p, [s EXCEPT !.phase = "PrePrepare"],
                UNION { multicast(p, Proposal("pre-prepare", p, s.view, x.seq, x.req)) :
                          x \in nv.proof })
  BY <1>0
<1>2. pbft[p].phase = "NewView" /\ p \in Nat /\ config \in Scenarios
  BY Sizes DEF InstallView, IndInv, TypesOK
<1>3. /\ s \in Object /\ s.phase = pbft[p].phase /\ s.view = pbft[p].view
      /\ s.view \in Nat /\ s.nextId \in Nat
  <2>1. s \in Object /\ s.phase = pbft[p].phase /\ s.view = pbft[p].view
    BY MaybeStable
  <2> QED
    BY <2>1 DEF Object
<1> DEFINE t == [s EXCEPT !.phase = "PrePrepare"]
<1>4. PICK M : M = UNION { multicast(p, Proposal("pre-prepare", p, s.view, x.seq, x.req)) :
                             x \in nv.proof }
  OBVIOUS
<1>5. Becomes(p, t, M)
  BY <1>1, <1>4
<1>6. /\ t \in Object /\ t.view = s.view /\ t.confirmed = s.confirmed
      /\ t.lastStable = s.lastStable /\ t.own = s.own /\ t.nextId = s.nextId
  BY <1>3 DEF Object, Phases
<1> HIDE DEF t
<1>7. Grown(p, t) /\ Confirms(p, t)
  BY <1>2, <1>3, <1>6, Moves
<1>8. ASSUME NEW e \in M
      PROVE  Fresh(p, t, e) /\ e.msg.type = "pre-prepare"
  <2>1. PICK x \in nv.proof : e \in multicast(p, Proposal("pre-prepare", p, s.view, x.seq, x.req))
    BY <1>4
  <2>2. nv \in Sent /\ nv.type = "newView" /\ nv.view = s.view
    BY LogIsSent
  <2>3. nv \in Msg
    BY <2>2 DEF IndInv, TypesOK, Sent, Envelope
  <2>4. x \in Proof /\ x.view \in Nat /\ x.seq \in Nat /\ x.req \in Req
    <3>1. x \in Proof
      BY <2>2, <2>3, MsgFields
    <3> QED
      BY <3>1 DEF Proof
  <2>5. Backed(Sent, x.seq, x.view, x.req) /\ x.view + 1 = s.view
    BY <2>2 DEF IndInv, ProofOK
  <2>6. Submitted(x.req)
    BY <2>2 DEF IndInv, RequestOK
  <2>7. Few => ~x.req.flip
    <3> SUFFICES ASSUME Few PROVE ~x.req.flip
      OBVIOUS
    <3>1. x.req.flip # TRUE
      BY <2>4, <2>5, BackedUnaltered DEF IndInv
    <3> QED
      BY <2>4, <3>1 DEF Req
  <2> DEFINE m == Proposal("pre-prepare", p, s.view, x.seq, x.req)
  <2>8. /\ m \in Msg /\ m.from = p /\ m.type = "pre-prepare" /\ m.view = s.view
        /\ m.seq = x.seq /\ m.req = x.req
    <3>1. m \in ProposalMsg
      BY <1>2, <1>3, <2>4 DEF Proposal, ProposalMsg, Carriers
    <3> QED
      BY <3>1 DEF Proposal, Msg
  <2>9. e \in multicast(p, m)
    BY <2>1
  <2> HIDE DEF m
  <2>10. /\ e \in Envelope
         /\ e.msg.type = m.type /\ e.msg.from = p /\ e.msg.view = m.view /\ e.msg.seq = m.seq
         /\ p \in Honest => e.msg = m
         /\ m.type \in Carriers => e.msg.req.by = m.req.by /\ e.msg.req.id = m.req.id
         /\ m.type = "pre-prepare" /\ ~m.req.flip /\ e.msg.req.flip =>
              p \in Faulty /\ e.to \subseteq QuorumB
    BY <1>2, <2>8, <2>9, Multicast
  <2>11. SubmittedAfter(p, t, e.msg.req)
    <3>1. PICK r : r = x.req
      OBVIOUS
    <3>2. SubmittedAfter(p, t, r)
      BY <1>7, <2>4, <2>6, <3>1, StillSubmitted
    <3>3. e.msg.req.by = r.by /\ e.msg.req.id = r.id
      BY <2>8, <2>10, <3>1 DEF Carriers
    <3> QED
      BY <3>2, <3>3 DEF SubmittedAfter
  <2>12. FreshPrePrepare(p, t, e)
    <3>1. e.msg.view <= t.view /\ e.msg.view = pbft[p].view
      BY <1>3, <1>6, <2>8, <2>10
    <3>2. p \in Honest =>
            \E v \in Nat : v + 1 = e.msg.view /\ Backed(Sent, e.msg.seq, v, e.msg.req)
      BY <2>4, <2>5, <2>8, <2>10
    <3>3. Few /\ e.msg.req.flip => p \in Faulty /\ e.to \subseteq QuorumB
      BY <2>7, <2>8, <2>10
    <3> QED
      BY <3>1, <3>2, <3>3 DEF FreshPrePrepare
  <2> QED
    BY <2>8, <2>10, <2>11, <2>12 DEF Fresh
<1>9. Good(p, t, M)
  BY <1>7, <1>8 DEF Good
<1> QED
  BY <1>5, <1>9, GoodStep DEF Becomes

(* A run that only finds a checkpoint stable. *)
LEMMA OnlyCheckpointStep ==
  ASSUME IndInv, NEW p \in Members, OnlyCheckpoint(p)
  PROVE  IndInv'
<1>1. PICK s \in maybeStableCheckpoint(p) : Becomes(p, s, {})
  BY DEF OnlyCheckpoint
<1>2. s \in Object /\ s.nextId \in Nat
  <2>1. s \in Object
    BY MaybeStable
  <2> QED
    BY <2>1 DEF Object
<1>3. Grown(p, s) /\ Confirms(p, s)
  BY <1>2, Moves
<1>4. Good(p, s, {})
  BY <1>3 DEF Good
<1> QED
  BY <1>1, <1>4, GoodStep DEF Becomes
-----------------------------------------------------------------------------
(* Every step of the system keeps the inductive invariant. *)
LEMMA StepIndInv ==
  ASSUME IndInv, [Next]_vars
  PROVE  IndInv'
<1>1. CASE Next
  <2>1. PICK p \in Members :
          \/ Propose(p) \/ SendPrepare(p) \/ SendCommit(p) \/ Decide(p)
          \/ requestViewChange(p) \/ EnterNewView(p) \/ InstallView(p)
          \/ OnlyCheckpoint(p)
    BY <1>1 DEF Next
  <2> QED
    BY <2>1, ProposeStep, SendPrepareStep, SendCommitStep, DecideStep, ViewChangeStep,
       EnterNewViewStep, InstallViewStep, OnlyCheckpointStep
<1>2. CASE UNCHANGED vars
  <2>1. Sent' = Sent
    BY <1>2 DEF Sent, vars
  <2>2. config' = config /\ pbft' = pbft /\ msgs' = msgs
    BY <1>2 DEF vars
  <2> QED
    BY <2>1, <2>2 DEF IndInv, TypesOK, PrepareOK, CommitOK, ProofOK, RequestOK, FlipOK,
       ConfirmedOK, DecidedOK, CheckpointOK, StableOK, Shared, Submitted, Backed, Quorum,
       Few, Tight, Members, Honest, Faulty, QuorumA, QuorumB, f, leaderFor
<1> QED
  BY <1>1, <1>2

(* The inductive invariant holds in every state: what a correct replica    *)
(* prepares it prepares once, and what is committed, confirmed or taken    *)
(* over into a new view a quorum of followers has prepared.                *)
THEOREM InvariantTheorem == Spec => []IndInv
<1>1. Init => IndInv
  BY InitIndInv
<1>2. IndInv /\ [Next]_vars => IndInv'
  BY StepIndInv
<1> QED
  BY <1>1, <1>2, PTL DEF Spec

(* Correct replicas send commits for one request at a sequence number of a *)
(* view: two quorums of the followers share a correct one, which prepares  *)
(* once, whatever version the equivocating leader sent to whom.            *)
THEOREM PreparedOnceTheorem == Spec => []PreparedOnce
<1>1. IndInv => PreparedOnce
  <2> SUFFICES ASSUME IndInv, config.size + config.byzantine <= 4 * f + 2,
                      NEW g \in Sent, NEW h \in Sent,
                      g.type = "commit", h.type = "commit", g.seq = h.seq, g.view = h.view,
                      g.from \in Honest, h.from \in Honest
               PROVE  g.req = h.req
    BY DEF PreparedOnce
  <2>1. g \in Msg
    BY DEF IndInv, TypesOK, Sent, Envelope
  <2>2. g.view \in Nat
    BY <2>1, MsgFields
  <2>3. Backed(Sent, g.seq, g.view, g.req) /\ Backed(Sent, g.seq, g.view, h.req)
    BY DEF IndInv, CommitOK
  <2> QED
    BY <2>2, <2>3, BackedOnce DEF IndInv
<1> QED
  BY <1>1, InvariantTheorem, PTL

(* With up to four members correct replicas confirm the same requests in   *)
(* the same order, across any number of view changes, though a view change *)
(* says nothing of the number that is being decided.                       *)
THEOREM AgreementTheorem == Spec => []Agreement
<1>1. IndInv => Agreement
  <2> SUFFICES ASSUME IndInv, Tight, NEW p \in Honest, NEW q \in Honest, NEW i \in Common(p, q)
               PROVE  pbft[p].confirmed[i].req = pbft[q].confirmed[i].req
    BY DEF Agreement, Tight
  <2>1. \A a \in Honest : nextSeq(pbft[a]) \in Nat /\ pbft[a].confirmed \in Seq(Entry)
    <3>1. \A a \in Honest : pbft[a].confirmed \in Seq(Entry)
      BY DEF IndInv, TypesOK, Honest, Object
    <3> QED
      BY <3>1, LenProperties DEF nextSeq
  <2>2. i \in 1 .. nextSeq(pbft[p]) /\ i \in 1 .. nextSeq(pbft[q])
    BY <2>1 DEF Common
  <2>3. ASSUME NEW a \in Honest, i \in 1 .. nextSeq(pbft[a])
        PROVE  /\ pbft[a].confirmed[i].view \in Nat
               /\ Backed(Sent, i - 1, pbft[a].confirmed[i].view, pbft[a].confirmed[i].req)
    <3>1. pbft[a].confirmed[i] \in Entry
      BY <2>1, <2>3, ElementOfSeq DEF nextSeq
    <3> QED
      BY <2>3, <3>1 DEF Entry, IndInv, ConfirmedOK, Tight
  <2>4. ASSUME NEW a \in Honest, NEW c \in Honest,
               i \in 1 .. nextSeq(pbft[a]), i \in 1 .. nextSeq(pbft[c]),
               pbft[c].confirmed[i].view >= pbft[a].confirmed[i].view
        PROVE  pbft[c].confirmed[i].req = pbft[a].confirmed[i].req
    <3>0. PICK r : r = pbft[c].confirmed[i].req
      OBVIOUS
    <3>1. PICK v \in Nat : v = pbft[c].confirmed[i].view /\ r = pbft[c].confirmed[i].req
      BY <2>3, <2>4, <3>0
    <3>2. Backed(Sent, i - 1, v, r)
      BY <2>3, <2>4, <3>1
    <3>3. r = pbft[a].confirmed[i].req
      BY <2>4, <3>1, <3>2, Locked
    <3> QED
      BY <3>1, <3>3
  <2>5. \/ pbft[q].confirmed[i].view >= pbft[p].confirmed[i].view
        \/ pbft[p].confirmed[i].view >= pbft[q].confirmed[i].view
    BY <2>2, <2>3
  <2> QED
    BY <2>2, <2>4, <2>5
<1> QED
  BY <1>1, InvariantTheorem, PTL

(* Unless packets are duplicated, behind a stable checkpoint stand enough  *)
(* correct replicas that have confirmed those requests, the same ones.     *)
THEOREM StableTheorem == Spec => []StableIsShared
<1>1. IndInv => StableIsShared
  BY DEF IndInv, StableOK, Shared, StableIsShared, Honest
<1> QED
  BY <1>1, InvariantTheorem, PTL

(* Correct replicas confirm submitted requests and, where the members that *)
(* may get an altered proposal are too few, none that was altered.         *)
THEOREM OnlySubmittedTheorem == Spec => []OnlySubmitted
<1>1. IndInv => OnlySubmitted
  <2> SUFFICES ASSUME IndInv, NEW p \in Honest, NEW i \in 1 .. nextSeq(pbft[p])
               PROVE  /\ pbft[p].confirmed[i].req.id < pbft[pbft[p].confirmed[i].req.by].nextId
                      /\ Few => ~pbft[p].confirmed[i].req.flip
    BY DEF OnlySubmitted, Few
  <2>1. pbft[p].confirmed[i].req.id < pbft[pbft[p].confirmed[i].req.by].nextId
    BY DEF IndInv, RequestOK, Submitted, Honest
  <2>2. ASSUME Few PROVE ~pbft[p].confirmed[i].req.flip
    <3>1. pbft[p].confirmed \in Seq(Entry)
      BY DEF IndInv, TypesOK, Honest, Object
    <3>2. pbft[p].confirmed[i] \in Entry
      BY <3>1, ElementOfSeq DEF nextSeq
    <3>3. PICK c \in Entry : c = pbft[p].confirmed[i]
      BY <3>2
    <3>4. c.view \in Nat /\ c.req \in Req
      BY DEF Entry
    <3>5. Backed(Sent, i - 1, c.view, c.req)
      BY <2>2, <3>3 DEF IndInv, ConfirmedOK, Few
    <3>6. c.req.flip # TRUE
      BY <2>2, <3>4, <3>5, BackedUnaltered DEF IndInv
    <3> QED
      BY <3>3, <3>4, <3>6 DEF Req
  <2> QED
    BY <2>1, <2>2
<1> QED
  BY <1>1, InvariantTheorem, PTL
=============================================================================
