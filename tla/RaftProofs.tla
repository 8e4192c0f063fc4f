------------------------------ MODULE RaftProofs ------------------------------
(***************************************************************************)
(* Proofs about Raft, for every committee, any number of terms and         *)
(* requests, and channels that lose, repeat, delay and reorder.            *)
(***************************************************************************)
EXTENDS Raft, FiniteSetTheorems, SequenceTheorems, TLAPS

(* The rank of a position numbers the positions of a finite set.           *)
LEMMA RankOnto ==
  ASSUME NEW n \in Nat, NEW L \in SUBSET (1 .. n),
         NEW i \in 1 .. Cardinality(L)
  PROVE  \E j \in L : Cardinality({ h \in L : h <= j }) = i
<1> DEFINE Up(j) == { h \in L : h <= j }
           rank == [j \in L |-> Cardinality(Up(j))]
           T == 1 .. Cardinality(L)
<1>1. IsFiniteSet(L) /\ Cardinality(L) \in Nat
  <2>1. IsFiniteSet(1 .. n)
    BY FS_Interval
  <2> QED
    BY <2>1, FS_Subset, FS_CardinalityType
<1>2. ASSUME NEW j \in L
      PROVE  /\ IsFiniteSet(Up(j)) /\ j \in Up(j)
             /\ Cardinality(Up(j)) \in T
  <2>1. IsFiniteSet(Up(j)) /\ Cardinality(Up(j)) <= Cardinality(L)
    BY <1>1, FS_Subset
  <2>2. j \in Up(j)
    OBVIOUS
  <2>3. Cardinality(Up(j)) \in Nat /\ Cardinality(Up(j)) # 0
    BY <2>1, <2>2, FS_CardinalityType, FS_EmptySet
  <2> QED
    BY <1>1, <2>1, <2>2, <2>3
<1>3. ASSUME NEW j \in L, NEW k \in L, j < k
      PROVE  Cardinality(Up(j)) # Cardinality(Up(k))
  <2>0. \A h \in L : h \in Nat
    OBVIOUS
  <2>1. Up(j) \in SUBSET Up(k)
    <3> SUFFICES ASSUME NEW h \in L, h <= j PROVE h <= k
      OBVIOUS
    <3> QED
      BY <1>3, <2>0
  <2>2. k \in Up(k) /\ k \notin Up(j)
    BY <1>3
  <2> QED
    BY <1>2, <2>1, <2>2, FS_Subset
<1>4. \A j, k \in L : Cardinality(Up(j)) = Cardinality(Up(k)) => j = k
  <2> SUFFICES ASSUME NEW j \in L, NEW k \in L,
                      Cardinality(Up(j)) = Cardinality(Up(k)), j # k
               PROVE  FALSE
    OBVIOUS
  <2>1. j < k \/ k < j
    OBVIOUS
  <2> QED
    BY <1>3, <2>1
<1> HIDE DEF Up
<1>5. rank \in Injection(L, T)
  BY <1>2, <1>4 DEF Injection, IsInjective
<1>6. IsFiniteSet(T) /\ Cardinality(T) = Cardinality(L)
  BY <1>1, FS_Interval
<1> HIDE DEF rank, T
<1>7. rank \in Surjection(L, T)
  BY <1>5, <1>6, FS_Injection
<1>8. \E j \in L : rank[j] = i
  BY <1>7 DEF Surjection, T
<1> QED
  BY <1>8 DEF rank, Up

(* Kept takes elements at different positions of L. *)
LEMMA KeptElements ==
  ASSUME NEW S, NEW q \in Seq(S), NEW L \in SUBSET (1 .. Len(q))
  PROVE  /\ Kept(q, L) \in Seq(S)
         /\ \E g \in [1 .. Len(Kept(q, L)) -> L] :
              /\ \A i \in 1 .. Len(Kept(q, L)) : Kept(q, L)[i] = q[g[i]]
              /\ \A i, j \in 1 .. Len(Kept(q, L)) : g[i] = g[j] => i = j
<1> DEFINE n == Cardinality(L)
           g == [i \in 1 .. n |-> CHOOSE j \in L : Cardinality({ h \in L : h <= j }) = i]
           k == Kept(q, L)
<1>1. Len(q) \in Nat
  BY LenProperties
<1>2. n \in Nat
  <2>1. IsFiniteSet(1 .. Len(q))
    BY <1>1, FS_Interval
  <2> QED
    BY <2>1, FS_Subset, FS_CardinalityType
<1>3. \A i \in 1 .. n : g[i] \in L /\ Cardinality({ h \in L : h <= g[i] }) = i
  <2> SUFFICES ASSUME NEW i \in 1 .. n
               PROVE  g[i] \in L /\ Cardinality({ h \in L : h <= g[i] }) = i
    OBVIOUS
  <2>1. \E j \in L : Cardinality({ h \in L : h <= j }) = i
    BY <1>1, RankOnto
  <2> QED
    BY <2>1
<1>4. k = [i \in 1 .. n |-> q[g[i]]]
  BY DEF Kept
<1> HIDE DEF g
<1>5. \A i \in 1 .. n : q[g[i]] \in S
  BY <1>1, <1>3, ElementOfSeq
<1>6. k \in Seq(S) /\ Len(k) = n
  <2>1. k \in [1 .. n -> S]
    BY <1>4, <1>5
  <2>2. k \in Seq(S)
    BY <1>2, <2>1, SeqDef
  <2> QED
    BY <1>2, <2>1, <2>2, LenProperties
<1>7. g \in [1 .. n -> L] /\ \A i, j \in 1 .. n : g[i] = g[j] => i = j
  <2>1. g \in [1 .. n -> L]
    BY <1>3 DEF g
  <2> QED
    BY <1>3, <2>1
<1>8. \A i \in 1 .. n : k[i] = q[g[i]]
  BY <1>4
<1> QED
  BY <1>6, <1>7, <1>8

(* A non-empty set of positions has a first one. *)
LEMMA FirstPosition ==
  ASSUME NEW n \in Nat, NEW L \in SUBSET (1 .. n), L # {}
  PROVE  \E j \in L : \A h \in L : j <= h
<1>1. IsFiniteSet(L) /\ Cardinality(L) \in Nat /\ Cardinality(L) # 0
  <2>1. IsFiniteSet(1 .. n)
    BY FS_Interval
  <2>2. IsFiniteSet(L)
    BY <2>1, FS_Subset
  <2> QED
    BY <2>2, FS_CardinalityType, FS_EmptySet
<1>2. PICK j \in L : Cardinality({ h \in L : h <= j }) = 1
  <2>1. 1 \in 1 .. Cardinality(L)
    BY <1>1
  <2> QED
    BY <2>1, RankOnto
<1>3. IsFiniteSet({ h \in L : h <= j })
  BY <1>1, FS_Subset
<1>4. PICK x : { h \in L : h <= j } = {x}
  BY <1>2, <1>3, FS_Singleton
<1>5. ASSUME NEW h \in L PROVE j <= h
  <2>1. h \in Nat /\ j \in Nat
    OBVIOUS
  <2>2. CASE h <= j
    <3>1. h = x /\ j = x
      BY <1>4, <2>1, <2>2
    <3> QED
      BY <2>1, <3>1
  <2>3. CASE ~(h <= j)
    BY <2>1, <2>3
  <2> QED
    BY <2>2, <2>3
<1> QED
  BY <1>5

NoRepeat(a) == \A i, j \in 1 .. Len(a) : a[i] = a[j] => i = j

(* A concatenation has the elements of both, and repeats none of them if   *)
(* neither does and they have none in common.                              *)
LEMMA Concatenated ==
  ASSUME NEW S, NEW a \in Seq(S), NEW b \in Seq(S)
  PROVE  /\ a \o b \in Seq(S) /\ Len(a \o b) \in Nat
         /\ \A j \in 1 .. Len(a \o b) :
              \/ \E i \in 1 .. Len(a) : (a \o b)[j] = a[i]
              \/ \E i \in 1 .. Len(b) : (a \o b)[j] = b[i]
         /\ /\ NoRepeat(a) /\ NoRepeat(b)
            /\ \A i \in 1 .. Len(a) : \A j \in 1 .. Len(b) : a[i] # b[j]
            => NoRepeat(a \o b)
<1> DEFINE c == a \o b
           m == Len(a)
           n == Len(b)
<1>1. m \in Nat /\ n \in Nat
  BY LenProperties
<1>2. /\ c \in Seq(S) /\ Len(c) = m + n
      /\ \A i \in 1 .. m + n : c[i] = IF i <= m THEN a[i] ELSE b[i - m]
  BY ConcatProperties
<1> HIDE DEF c, m, n
<1>3. \A j \in 1 .. m + n : \/ j \in 1 .. m /\ c[j] = a[j]
                            \/ j - m \in 1 .. n /\ c[j] = b[j - m]
  BY <1>1, <1>2
<1>4. \A j \in 1 .. Len(c) : \/ \E i \in 1 .. m : c[j] = a[i]
                             \/ \E i \in 1 .. n : c[j] = b[i]
  BY <1>2, <1>3
<1>5. ASSUME NoRepeat(a), NoRepeat(b),
             \A i \in 1 .. m : \A j \in 1 .. n : a[i] # b[j]
      PROVE  NoRepeat(c)
  <2> SUFFICES ASSUME NEW i \in 1 .. m + n, NEW j \in 1 .. m + n, c[i] = c[j]
               PROVE  i = j
    BY <1>2 DEF NoRepeat
  <2>0. /\ \A x, y \in 1 .. m : a[x] = a[y] => x = y
        /\ \A x, y \in 1 .. n : b[x] = b[y] => x = y
    BY <1>5 DEF NoRepeat, m, n
  <2>1. CASE i \in 1 .. m /\ c[i] = a[i]
    BY <1>3, <1>5, <2>0, <2>1
  <2>2. CASE i - m \in 1 .. n /\ c[i] = b[i - m]
    <3>1. j - m \in 1 .. n /\ c[j] = b[j - m]
      BY <1>3, <1>5, <2>2
    <3>2. i - m = j - m
      BY <2>0, <2>2, <3>1
    <3> QED
      BY <1>1, <3>2
  <2> QED
    BY <1>3, <2>1, <2>2
<1>6. c \in Seq(S) /\ Len(c) \in Nat
  BY <1>1, <1>2
<1> QED
  BY <1>4, <1>5, <1>6, Zenon DEF c, m, n
-----------------------------------------------------------------------------
(* The shape of the objects and messages, without the bounds of a run.     *)
Key == Peers \X Nat
Req == [key : Key, fwd : Peers \cup {None}]

Msg ==
  { Elect(t) : t \in Nat }
  \cup { Vote(o, t) : o \in Peers, t \in Nat }
  \cup { Replicate(k, t) : k \in Key, t \in Nat }
  \cup { Respond(o, k) : o \in Peers, k \in Key }
  \cup { Commit(k, t) : k \in Key, t \in Nat }
  \cup { Forward(o, r) : o \in Peers, r \in Req }

Object ==
  [ term : Nat, leader : Peers \cup {None}, votes : SUBSET Peers,
    known : SUBSET Key, committed : SUBSET Key, deferred : Seq(Req),
    pending : Seq(Key), inFlight : Key \cup {None}, replies : SUBSET Peers,
    nextId : Nat, sent : SUBSET Msg ]

(* A request is queued at most once: the part of QueuedOnce that is about  *)
(* one object.                                                             *)
Distinct(s) ==
  /\ \A i, j \in 1 .. Len(s.deferred) : s.deferred[i].key = s.deferred[j].key => i = j
  /\ \A i, j \in 1 .. Len(s.pending) : s.pending[i] = s.pending[j] => i = j
  /\ \A i \in 1 .. Len(s.deferred) : \A j \in 1 .. Len(s.pending) :
       s.deferred[i].key # s.pending[j]
  /\ \A j \in 1 .. Len(s.pending) : s.pending[j] # s.inFlight
  /\ \A i \in 1 .. Len(s.deferred) : s.deferred[i].key # s.inFlight

(* What is queued, in flight or sent is known. *)
AllKnown(s) ==
  /\ \A i \in 1 .. Len(s.deferred) : s.deferred[i].key \in s.known
  /\ \A j \in 1 .. Len(s.pending) : s.pending[j] \in s.known
  /\ s.inFlight # None => s.inFlight \in s.known
  /\ \A m \in s.sent :
       /\ m.type \in {"request", "respondRequest"} => m.key \in s.known
       /\ m.type = "Request" => m.req.key \in s.known

QueuesOK(s) == Distinct(s) /\ AllKnown(s)

(* The fields of a message by its type. *)
LEMMA MsgFields ==
  ASSUME NEW m \in Msg
  PROVE  /\ m.type \in {"elect", "vote", "request", "respondRequest", "commit", "Request"}
         /\ m.type \in {"elect", "vote", "request", "commit"} => m.term \in Nat
         /\ m.type \in {"request", "respondRequest", "commit"} => m.key \in Key
         /\ m.type = "vote" => \E o \in Peers : m = Vote(o, m.term)
         /\ m.type = "elect" => m = Elect(m.term)
         /\ m.type = "Request" => m.req \in Req
  BY DEF Msg, Elect, Vote, Replicate, Respond, Commit, Forward

(* The messages are messages. *)
LEMMA Constructors ==
  /\ \A t \in Nat : Elect(t) \in Msg /\ Elect(t).type = "elect" /\ Elect(t).term = t
  /\ \A o \in Peers, t \in Nat :
       /\ Vote(o, t) \in Msg /\ Vote(o, t).type = "vote"
       /\ Vote(o, t).to = {o} /\ Vote(o, t).term = t
  /\ \A o \in Peers, k \in Key :
       /\ Respond(o, k) \in Msg
       /\ Respond(o, k).type = "respondRequest" /\ Respond(o, k).key = k
  /\ \A k \in Key, t \in Nat :
       Commit(k, t) \in Msg /\ Commit(k, t).type = "commit" /\ Commit(k, t).key = k
<1>1. /\ \A t \in Nat : Elect(t) \in Msg
      /\ \A o \in Peers, t \in Nat : Vote(o, t) \in Msg
      /\ \A o \in Peers, k \in Key : Respond(o, k) \in Msg
      /\ \A k \in Key, t \in Nat : Commit(k, t) \in Msg
  BY DEF Msg
<1>2. /\ \A t : Elect(t).type = "elect" /\ Elect(t).term = t
      /\ \A o, t : Vote(o, t).type = "vote" /\ Vote(o, t).to = {o} /\ Vote(o, t).term = t
      /\ \A o, k : Respond(o, k).type = "respondRequest" /\ Respond(o, k).key = k
      /\ \A k, t : Commit(k, t).type = "commit" /\ Commit(k, t).key = k
  BY DEF Elect, Vote, Respond, Commit
<1> QED
  BY <1>1, <1>2

(* Distinct is about the queues only. *)
LEMMA SameQueues ==
  ASSUME NEW s, NEW t, Distinct(s),
         t.deferred = s.deferred, t.pending = s.pending, t.inFlight = s.inFlight
  PROVE  Distinct(t)
  BY DEF Distinct

(* What p may do to its object without a message: requests are submitted,  *)
(* forwarded and, by a leader, replicated.                                 *)
Grows(p, s, t) ==
  /\ t \in Object
  /\ t.term = s.term /\ t.leader = s.leader /\ t.votes = s.votes
  /\ t.committed = s.committed
  /\ s.nextId <= t.nextId
  /\ s.known \subseteq t.known
  /\ \A k \in t.known \ s.known : k[1] = p /\ k[2] < t.nextId
  /\ s.sent \subseteq t.sent
  /\ \A m \in t.sent \ s.sent :
       \/ m.type = "Request"
       \/ m.type = "request" /\ s.leader = p /\ m.term = s.term
  /\ t.replies = {} \/ (t.replies = s.replies /\ t.inFlight = s.inFlight)
  /\ QueuesOK(s) => QueuesOK(t)

(* An object grows out of itself ... *)
LEMMA GrowsRefl ==
  ASSUME NEW p \in Peers, NEW s \in Object PROVE Grows(p, s, s)
  BY DEF Grows, Object

(* ... and growing twice is growing. *)
LEMMA GrowsTrans ==
  ASSUME NEW p \in Peers, NEW s \in Object, NEW t, NEW u,
         Grows(p, s, t), Grows(p, t, u)
  PROVE  Grows(p, s, u)
<1>1. s.nextId \in Nat /\ t.nextId \in Nat /\ u.nextId \in Nat /\ u \in Object
      /\ t.known \subseteq Key /\ u.known \subseteq Key
  BY DEF Grows, Object
<1>2. \A k \in u.known \ s.known : k[1] = p /\ k[2] < u.nextId
  <2> SUFFICES ASSUME NEW k \in u.known, k \notin s.known
               PROVE  k[1] = p /\ k[2] < u.nextId
    OBVIOUS
  <2>1. k[2] \in Nat
    BY <1>1 DEF Key
  <2>2. CASE k \in t.known
    BY <1>1, <2>1, <2>2 DEF Grows
  <2>3. CASE k \notin t.known
    BY <2>3 DEF Grows
  <2> QED
    BY <2>2, <2>3
<1>3. \A m \in u.sent \ s.sent :
        \/ m.type = "Request"
        \/ m.type = "request" /\ s.leader = p /\ m.term = s.term
  BY DEF Grows
<1> QED
  BY <1>1, <1>2, <1>3 DEF Grows

(* enqueueDeferred: a request that was not known is queued.                *)
LEMMA EnqueueDeferred ==
  ASSUME NEW s \in Object, NEW r \in Req
  PROVE  LET t == enqueueDeferred(s, r) IN
         /\ t \in Object
         /\ t.term = s.term /\ t.leader = s.leader /\ t.votes = s.votes
         /\ t.committed = s.committed /\ t.nextId = s.nextId /\ t.sent = s.sent
         /\ t.replies = s.replies /\ t.inFlight = s.inFlight
         /\ t.known = s.known \cup {r.key}
         /\ QueuesOK(s) => QueuesOK(t)
<1> DEFINE t == enqueueDeferred(s, r)
<1>1. CASE r.key \in s.known
  <2>1. t = s /\ s.known = s.known \cup {r.key}
    BY <1>1 DEF enqueueDeferred
  <2> QED
    BY <2>1
<1>2. CASE r.key \notin s.known
  <2>1. t = [s EXCEPT !.known = @ \cup {r.key}, !.deferred = Append(@, r)]
    BY <1>2 DEF enqueueDeferred
  <2> HIDE DEF t
  <2>2. r.key \in Key /\ s.deferred \in Seq(Req) /\ s.known \subseteq Key
        /\ Len(s.deferred) \in Nat
    BY LenProperties DEF Req, Object
  <2>3. /\ Append(s.deferred, r) \in Seq(Req)
        /\ Len(Append(s.deferred, r)) = Len(s.deferred) + 1
        /\ \A i \in 1 .. Len(s.deferred) : Append(s.deferred, r)[i] = s.deferred[i]
        /\ Append(s.deferred, r)[Len(s.deferred) + 1] = r
    BY <2>2, AppendProperties
  <2>4. /\ t \in Object
        /\ t.term = s.term /\ t.leader = s.leader /\ t.votes = s.votes
        /\ t.committed = s.committed /\ t.nextId = s.nextId /\ t.sent = s.sent
        /\ t.replies = s.replies /\ t.inFlight = s.inFlight /\ t.pending = s.pending
        /\ t.known = s.known \cup {r.key} /\ t.deferred = Append(s.deferred, r)
    BY <2>1, <2>2, <2>3 DEF Object
  <2>5. ASSUME QueuesOK(s) PROVE QueuesOK(t)
    <3>1. r.key # None
      BY <2>2, RaftAssumption DEF Key
    <3>2. AllKnown(t)
      BY <2>2, <2>3, <2>4, <2>5 DEF QueuesOK, AllKnown
    <3>3. Distinct(t)
      BY <1>2, <2>2, <2>3, <2>4, <2>5, <3>1 DEF QueuesOK, AllKnown, Distinct
    <3> QED
      BY <3>2, <3>3 DEF QueuesOK
  <2> QED
    BY <2>4, <2>5 DEF t
<1> QED
  BY <1>1, <1>2

(* submit: the next request of p is queued. *)
LEMMA Submit ==
  ASSUME NEW p \in Peers, NEW s \in Object
  PROVE  Grows(p, s, submit(p, s))
<1> DEFINE t == [s EXCEPT !.nextId = @ + 1]
           r == Request(<<p, s.nextId>>, None)
           u == enqueueDeferred(t, r)
<1>1. s.nextId \in Nat /\ r \in Req /\ r.key = <<p, s.nextId>>
  BY DEF Object, Req, Key, Request
<1>2. /\ t \in Object /\ t.nextId = s.nextId + 1
      /\ t.term = s.term /\ t.leader = s.leader /\ t.votes = s.votes
      /\ t.committed = s.committed /\ t.sent = s.sent
      /\ t.replies = s.replies /\ t.inFlight = s.inFlight /\ t.known = s.known
      /\ t.deferred = s.deferred /\ t.pending = s.pending
  BY DEF Object
<1>3. QueuesOK(s) => QueuesOK(t)
  BY <1>2 DEF QueuesOK, Distinct, AllKnown
<1> HIDE DEF t, r
<1>4. /\ u \in Object
      /\ u.term = t.term /\ u.leader = t.leader /\ u.votes = t.votes
      /\ u.committed = t.committed /\ u.nextId = t.nextId /\ u.sent = t.sent
      /\ u.replies = t.replies /\ u.inFlight = t.inFlight
      /\ u.known = t.known \cup {r.key}
      /\ QueuesOK(t) => QueuesOK(u)
  BY <1>1, <1>2, EnqueueDeferred
<1>5. submit(p, s) = u
  BY DEF submit, t, r
<1> HIDE DEF u
<1>6. \A k \in u.known \ s.known : k[1] = p /\ k[2] < u.nextId
  <2> SUFFICES ASSUME NEW k \in u.known, k \notin s.known
               PROVE  k[1] = p /\ k[2] < u.nextId
    OBVIOUS
  <2>1. k = <<p, s.nextId>>
    BY <1>1, <1>2, <1>4
  <2> QED
    BY <1>1, <1>2, <1>4, <2>1
<1>7. s.nextId <= u.nextId
  BY <1>1, <1>2, <1>4
<1>8. Grows(p, s, u)
  BY <1>2, <1>3, <1>4, <1>6, <1>7 DEF Grows
<1> QED
  BY <1>5, <1>8

(* The requests of q at the positions L keep what Distinct says of q. *)
LEMMA KeptReq ==
  ASSUME NEW q \in Seq(Req), NEW L \in SUBSET (1 .. Len(q))
  PROVE  LET k == Kept(q, L) IN
         /\ k \in Seq(Req) /\ Len(k) \in Nat
         /\ \A i \in 1 .. Len(k) : k[i] \in Req /\ \E h \in L : k[i] = q[h]
         /\ (\A i, j \in 1 .. Len(q) : q[i].key = q[j].key => i = j) =>
              \A i, j \in 1 .. Len(k) : k[i].key = k[j].key => i = j
<1> DEFINE k == Kept(q, L)
<1>1. k \in Seq(Req)
  BY KeptElements
<1>2. PICK g \in [1 .. Len(k) -> L] :
        /\ \A i \in 1 .. Len(k) : k[i] = q[g[i]]
        /\ \A i, j \in 1 .. Len(k) : g[i] = g[j] => i = j
  BY KeptElements
<1> HIDE DEF k
<1>3. \A i \in 1 .. Len(k) : g[i] \in L /\ g[i] \in 1 .. Len(q)
  BY <1>2
<1>4. Len(k) \in Nat /\ \A i \in 1 .. Len(k) : k[i] \in Req
  BY <1>1, LenProperties, ElementOfSeq
<1>5. ASSUME \A i, j \in 1 .. Len(q) : q[i].key = q[j].key => i = j
      PROVE  \A i, j \in 1 .. Len(k) : k[i].key = k[j].key => i = j
  BY <1>2, <1>3, <1>5
<1>6. \A i \in 1 .. Len(k) : \E h \in L : k[i] = q[h]
  BY <1>2, <1>3
<1> QED
  BY <1>1, <1>4, <1>5, <1>6 DEF k

(* The same for the keys of the pending requests. *)
LEMMA KeptKey ==
  ASSUME NEW q \in Seq(Key), NEW L \in SUBSET (1 .. Len(q))
  PROVE  LET k == Kept(q, L) IN
         /\ k \in Seq(Key) /\ Len(k) \in Nat
         /\ \A i \in 1 .. Len(k) : k[i] \in Key /\ \E h \in L : k[i] = q[h]
         /\ (\A i, j \in 1 .. Len(q) : q[i] = q[j] => i = j) =>
              \A i, j \in 1 .. Len(k) : k[i] = k[j] => i = j
<1> DEFINE k == Kept(q, L)
<1>1. k \in Seq(Key)
  BY KeptElements
<1>2. PICK g \in [1 .. Len(k) -> L] :
        /\ \A i \in 1 .. Len(k) : k[i] = q[g[i]]
        /\ \A i, j \in 1 .. Len(k) : g[i] = g[j] => i = j
  BY KeptElements
<1> HIDE DEF k
<1>3. \A i \in 1 .. Len(k) : g[i] \in L /\ g[i] \in 1 .. Len(q)
  BY <1>2
<1>4. Len(k) \in Nat /\ \A i \in 1 .. Len(k) : k[i] \in Key
  BY <1>1, LenProperties, ElementOfSeq
<1>5. ASSUME \A i, j \in 1 .. Len(q) : q[i] = q[j] => i = j
      PROVE  \A i, j \in 1 .. Len(k) : k[i] = k[j] => i = j
  BY <1>2, <1>3, <1>5
<1>6. \A i \in 1 .. Len(k) : \E h \in L : k[i] = q[h]
  BY <1>2, <1>3
<1> QED
  BY <1>1, <1>4, <1>5, <1>6 DEF k

(* tryForwardDeferredRequests moves, forwards or keeps deferred requests.  *)
LEMMA TryForward ==
  ASSUME NEW p \in Peers, NEW s \in Object
  PROVE  Grows(p, s, tryForwardDeferredRequests(p, s))
<1> DEFINE L == { i \in 1 .. Len(s.deferred) : s.deferred[i].key \notin s.committed }
           live == Kept(s.deferred, L)
           D == 1 .. Len(live)
           keys == [i \in D |-> live[i].key]
           fwds == [i \in D |-> Request(live[i].key, s.leader)]
           t == tryForwardDeferredRequests(p, s)
<1>1. /\ s.deferred \in Seq(Req) /\ s.pending \in Seq(Key) /\ s.sent \subseteq Msg
      /\ s.nextId \in Nat /\ s.leader \in Peers \cup {None}
      /\ Len(s.deferred) \in Nat /\ Len(s.pending) \in Nat
  BY LenProperties DEF Object
<1>2. L \in SUBSET (1 .. Len(s.deferred))
  OBVIOUS
<1>t. t = IF s.leader = p
          THEN [s EXCEPT !.deferred = <<>>, !.pending = @ \o keys]
          ELSE IF s.leader # None
          THEN [s EXCEPT !.deferred = fwds,
                         !.sent = @ \cup { Forward(s.leader, live[i]) :
                                    i \in { j \in D : live[j].fwd # s.leader } }]
          ELSE [s EXCEPT !.deferred = live]
  BY Zenon DEF tryForwardDeferredRequests
<1> HIDE DEF L, t
<1>3. /\ live \in Seq(Req) /\ Len(live) \in Nat
      /\ \A i \in D : live[i] \in Req /\ \E h \in L : live[i] = s.deferred[h]
      /\ (\A i, j \in 1 .. Len(s.deferred) : s.deferred[i].key = s.deferred[j].key => i = j) =>
              \A i, j \in D : live[i].key = live[j].key => i = j
  BY <1>1, <1>2, KeptReq
<1> HIDE DEF live
<1>4. \A i \in D : \E h \in 1 .. Len(s.deferred) : live[i] = s.deferred[h]
  BY <1>2, <1>3
<1>5. \A i \in D : live[i].key \in Key
  BY <1>3 DEF Req
<1>6. CASE s.leader = p
  <2> DEFINE new == s.pending \o keys
  <2>1. keys \in Seq(Key) /\ Len(keys) = Len(live) /\ \A i \in D : keys[i] = live[i].key
    <3>1. keys \in [1 .. Len(live) -> Key]
      BY <1>5
    <3>2. keys \in Seq(Key)
      BY <1>3, <3>1, SeqDef
    <3> QED
      BY <1>3, <3>1, <3>2, LenProperties
  <2> HIDE DEF keys
  <2>2. \A i \in 1 .. Len(keys) : \E h \in 1 .. Len(s.deferred) : keys[i] = s.deferred[h].key
    BY <1>4, <2>1
  <2>3. /\ new \in Seq(Key)
        /\ \A j \in 1 .. Len(new) : \/ \E i \in 1 .. Len(s.pending) : new[j] = s.pending[i]
                                    \/ \E i \in 1 .. Len(keys) : new[j] = keys[i]
    BY <1>1, <2>1, Concatenated
  <2>4. t = [s EXCEPT !.deferred = <<>>, !.pending = new]
    BY <1>t, <1>6
  <2>5. ASSUME QueuesOK(s)
        PROVE  NoRepeat(new)
    <3>1. NoRepeat(keys)
      BY <1>3, <2>1, <2>5 DEF QueuesOK, Distinct, NoRepeat
    <3>2. \A i \in 1 .. Len(s.pending) : \A j \in 1 .. Len(keys) : s.pending[i] # keys[j]
      BY <2>2, <2>5 DEF QueuesOK, Distinct
    <3>3. NoRepeat(s.pending)
      BY <2>5 DEF QueuesOK, Distinct, NoRepeat
    <3> QED
      BY <1>1, <2>1, <3>1, <3>2, <3>3, Concatenated
  <2> HIDE DEF new
  <2>6. /\ t \in Object /\ t.deferred = <<>> /\ t.pending = new
        /\ t.term = s.term /\ t.leader = s.leader /\ t.votes = s.votes
        /\ t.committed = s.committed /\ t.nextId = s.nextId /\ t.sent = s.sent
        /\ t.replies = s.replies /\ t.inFlight = s.inFlight /\ t.known = s.known
    <3>1. <<>> \in Seq(Req)
      OBVIOUS
    <3> QED
      BY <2>3, <2>4, <3>1 DEF Object
  <2>7. \A j \in 1 .. Len(new) :
          \/ \E i \in 1 .. Len(s.pending) : new[j] = s.pending[i]
          \/ \E h \in 1 .. Len(s.deferred) : new[j] = s.deferred[h].key
    BY <2>2, <2>3
  <2>8. ASSUME QueuesOK(s) PROVE QueuesOK(t)
    <3>0. Len(t.deferred) = 0
      BY <2>6
    <3>1. \A j \in 1 .. Len(new) : new[j] \in s.known /\ new[j] # s.inFlight
      BY <2>7, <2>8 DEF QueuesOK, AllKnown, Distinct
    <3>2. AllKnown(t)
      BY <2>6, <2>8, <3>0, <3>1 DEF QueuesOK, AllKnown
    <3>3. Distinct(t)
      BY <2>5, <2>6, <2>8, <3>0, <3>1 DEF Distinct, NoRepeat
    <3> QED
      BY <3>2, <3>3 DEF QueuesOK
  <2> QED
    BY <1>1, <2>6, <2>8 DEF Grows, t
<1>7. CASE s.leader # p /\ s.leader # None
  <2> DEFINE out == { Forward(s.leader, live[i]) : i \in { j \in D : live[j].fwd # s.leader } }
  <2>1. fwds \in Seq(Req) /\ Len(fwds) = Len(live) /\ \A i \in D : fwds[i].key = live[i].key
    <3>1. fwds \in [1 .. Len(live) -> Req] /\ \A i \in D : fwds[i].key = live[i].key
      BY <1>1, <1>5, <1>7 DEF Request, Req
    <3>2. fwds \in Seq(Req)
      BY <1>3, <3>1, SeqDef
    <3> QED
      BY <1>3, <3>1, <3>2, LenProperties
  <2>2. t = [s EXCEPT !.deferred = fwds, !.sent = @ \cup out]
    BY <1>t, <1>7
  <2>3. /\ out \subseteq Msg
        /\ \A m \in out : m.type = "Request" /\ \E i \in D : m.req.key = live[i].key
    <3> SUFFICES ASSUME NEW m \in out
                 PROVE  m \in Msg /\ m.type = "Request" /\ \E i \in D : m.req.key = live[i].key
      OBVIOUS
    <3>1. PICK i \in D : m = Forward(s.leader, live[i])
      OBVIOUS
    <3>2. live[i] \in Req /\ s.leader \in Peers
      BY <1>1, <1>3, <1>7
    <3>3. m.type = "Request" /\ m.req = live[i]
      BY <3>1 DEF Forward
    <3>4. m \in Msg
      BY <3>1, <3>2 DEF Msg
    <3> QED
      BY <3>3, <3>4
  <2> HIDE DEF fwds, out
  <2>4. /\ t \in Object /\ t.deferred = fwds /\ t.pending = s.pending
        /\ t.term = s.term /\ t.leader = s.leader /\ t.votes = s.votes
        /\ t.committed = s.committed /\ t.nextId = s.nextId /\ t.sent = s.sent \cup out
        /\ t.replies = s.replies /\ t.inFlight = s.inFlight /\ t.known = s.known
    BY <2>1, <2>2, <2>3 DEF Object
  <2>5. ASSUME QueuesOK(s) PROVE QueuesOK(t)
    <3>1. AllKnown(t)
      <4>1. \A m \in out : m.req.key \in s.known /\ m.type = "Request"
        BY <1>4, <2>3, <2>5 DEF QueuesOK, AllKnown
      <4> QED
        BY <1>4, <2>1, <2>4, <2>5, <4>1 DEF QueuesOK, AllKnown
    <3>2. \A i, j \in 1 .. Len(fwds) : fwds[i].key = fwds[j].key => i = j
      BY <1>3, <2>1, <2>5 DEF QueuesOK, Distinct
    <3>3. \A i \in 1 .. Len(fwds) : \E h \in 1 .. Len(s.deferred) :
            fwds[i].key = s.deferred[h].key
      BY <1>4, <2>1
    <3>4. Distinct(t)
      BY <2>4, <2>5, <3>2, <3>3 DEF QueuesOK, Distinct
    <3> QED
      BY <3>1, <3>4 DEF QueuesOK
  <2> QED
    BY <1>1, <2>3, <2>4, <2>5 DEF Grows, t
<1>8. CASE s.leader # p /\ s.leader = None
  <2>1. t = [s EXCEPT !.deferred = live]
    BY <1>t, <1>8
  <2>2. /\ t \in Object /\ t.deferred = live /\ t.pending = s.pending
        /\ t.term = s.term /\ t.leader = s.leader /\ t.votes = s.votes
        /\ t.committed = s.committed /\ t.nextId = s.nextId /\ t.sent = s.sent
        /\ t.replies = s.replies /\ t.inFlight = s.inFlight /\ t.known = s.known
    BY <1>3, <2>1 DEF Object
  <2>3. ASSUME QueuesOK(s) PROVE QueuesOK(t)
    <3>1. AllKnown(t)
      BY <1>4, <2>2, <2>3 DEF QueuesOK, AllKnown
    <3>2. Distinct(t)
      <4>1. \A i, j \in 1 .. Len(live) : live[i].key = live[j].key => i = j
        BY <1>3, <2>3 DEF QueuesOK, Distinct
      <4>2. \A i \in 1 .. Len(live) :
              /\ live[i].key # s.inFlight
              /\ \A j \in 1 .. Len(s.pending) : live[i].key # s.pending[j]
        BY <1>4, <2>3 DEF QueuesOK, Distinct
      <4>3. \A i, j \in 1 .. Len(s.pending) : s.pending[i] = s.pending[j] => i = j
        BY <2>3 DEF QueuesOK, Distinct
      <4>4. \A j \in 1 .. Len(s.pending) : s.pending[j] # s.inFlight
        BY <2>3 DEF QueuesOK, Distinct
      <4> QED
        BY <2>2, <4>1, <4>2, <4>3, <4>4 DEF Distinct
    <3> QED
      BY <3>1, <3>2 DEF QueuesOK
  <2> QED
    BY <1>1, <2>2, <2>3 DEF Grows, t
<1> QED
  BY <1>6, <1>7, <1>8 DEF t

(* startNext, by a leader: a pending request goes to the members.          *)
LEMMA StartNext ==
  ASSUME NEW p \in Peers, NEW s \in Object, s.leader = p
  PROVE  Grows(p, s, startNext(s))
<1> DEFINE live == { i \in 1 .. Len(s.pending) : s.pending[i] \notin s.committed }
           n == CHOOSE j \in live : \A h \in live : j <= h
           t == startNext(s)
<1>1. /\ s.pending \in Seq(Key) /\ Len(s.pending) \in Nat /\ s.sent \subseteq Msg
      /\ s.nextId \in Nat /\ s.term \in Nat
  BY LenProperties DEF Object
<1>2. CASE live = {}
  <2>1. t = [s EXCEPT !.pending = <<>>]
    BY <1>2 DEF startNext
  <2> HIDE DEF t
  <2>2. /\ t \in Object /\ t.deferred = s.deferred /\ t.pending = <<>>
        /\ t.term = s.term /\ t.leader = s.leader /\ t.votes = s.votes
        /\ t.committed = s.committed /\ t.nextId = s.nextId /\ t.sent = s.sent
        /\ t.replies = s.replies /\ t.inFlight = s.inFlight /\ t.known = s.known
    <3>1. <<>> \in Seq(Key)
      OBVIOUS
    <3> QED
      BY <2>1, <3>1 DEF Object
  <2>3. Len(t.pending) = 0
    BY <2>2
  <2>4. QueuesOK(s) => QueuesOK(t)
    BY <2>2, <2>3 DEF QueuesOK, Distinct, AllKnown
  <2> QED
    BY <1>1, <2>2, <2>4 DEF Grows, t
<1>3. CASE live # {}
  <2> DEFINE rest == SubSeq(s.pending, n + 1, Len(s.pending))
             k == s.pending[n]
  <2>1. n \in live
    <3>1. \E j \in live : \A h \in live : j <= h
      BY <1>1, <1>3, FirstPosition
    <3> QED
      BY <3>1
  <2>2. t = [s EXCEPT !.pending = rest, !.inFlight = k, !.replies = {},
                      !.sent = @ \cup {Replicate(k, s.term)}]
    BY <1>3 DEF startNext
  <2>3. n \in 1 .. Len(s.pending)
    BY <2>1
  <2> HIDE DEF live, n, t
  <2>4. k \in Key
    BY <1>1, <2>3, ElementOfSeq
  <2>5. /\ rest \in Seq(Key) /\ Len(rest) = Len(s.pending) - n
        /\ \A i \in 1 .. Len(rest) : n + i \in 1 .. Len(s.pending) /\ rest[i] = s.pending[n + i]
    <3>1. CASE n = Len(s.pending)
      <4>1. rest = <<>>
        BY <1>1, <2>3, <3>1
      <4> QED
        BY <1>1, <3>1, <4>1
    <3>2. CASE n < Len(s.pending)
      BY <1>1, <2>3, <3>2, SubSeqProperties
    <3> QED
      BY <1>1, <2>3, <3>1, <3>2
  <2>6. Replicate(k, s.term) \in Msg /\ Replicate(k, s.term).type = "request"
        /\ Replicate(k, s.term).term = s.term /\ Replicate(k, s.term).key = k
    BY <1>1, <2>4 DEF Msg, Replicate
  <2> HIDE DEF rest, k
  <2>7. /\ t \in Object /\ t.deferred = s.deferred /\ t.pending = rest
        /\ t.term = s.term /\ t.leader = s.leader /\ t.votes = s.votes
        /\ t.committed = s.committed /\ t.nextId = s.nextId
        /\ t.sent = s.sent \cup {Replicate(k, s.term)}
        /\ t.replies = {} /\ t.inFlight = k /\ t.known = s.known
    BY <2>2, <2>4, <2>5, <2>6 DEF Object
  <2>8. ASSUME QueuesOK(s) PROVE QueuesOK(t)
    <3>1. AllKnown(t)
      BY <2>3, <2>5, <2>6, <2>7, <2>8 DEF QueuesOK, AllKnown, k
    <3>2. \A i, j \in 1 .. Len(s.pending) : s.pending[i] = s.pending[j] => i = j
      BY <2>8 DEF QueuesOK, Distinct
    <3>3. \A i, j \in 1 .. Len(rest) : rest[i] = rest[j] => i = j
      BY <1>1, <2>3, <2>5, <3>2
    <3>4. \A i \in 1 .. Len(rest) : rest[i] # k
      BY <1>1, <2>3, <2>5, <3>2 DEF k
    <3>0. \A i \in 1 .. Len(s.deferred) : \A j \in 1 .. Len(s.pending) :
            s.deferred[i].key # s.pending[j]
      BY <2>8 DEF QueuesOK, Distinct
    <3>5. \A i \in 1 .. Len(s.deferred) :
            /\ s.deferred[i].key # k
            /\ \A j \in 1 .. Len(rest) : s.deferred[i].key # rest[j]
      BY <2>3, <2>5, <3>0 DEF k
    <3>6. \A i, j \in 1 .. Len(s.deferred) : s.deferred[i].key = s.deferred[j].key => i = j
      BY <2>8 DEF QueuesOK, Distinct
    <3>7. Distinct(t)
      BY <2>7, <3>3, <3>4, <3>5, <3>6 DEF Distinct
    <3> QED
      BY <3>1, <3>7 DEF QueuesOK
  <2> QED
    BY <1>1, <2>6, <2>7, <2>8 DEF Grows, t
<1> QED
  BY <1>2, <1>3

(* tryStartReplication *)
LEMMA TryStart ==
  ASSUME NEW p \in Peers, NEW s \in Object
  PROVE  Grows(p, s, tryStartReplication(p, s))
<1>1. CASE s.leader # p \/ s.inFlight # None
  BY <1>1, GrowsRefl DEF tryStartReplication
<1>2. CASE s.leader = p /\ s.inFlight = None /\ s.pending # <<>>
  BY <1>2, StartNext DEF tryStartReplication
<1>3. CASE s.leader = p /\ s.inFlight = None /\ s.pending = <<>>
  <2> DEFINE a == submit(p, s)
             b == tryForwardDeferredRequests(p, a)
             c == startNext(b)
             d == startNext(c)
  <2>1. tryStartReplication(p, s) = d
    BY <1>3 DEF tryStartReplication
  <2>2. Grows(p, s, a)
    BY Submit
  <2> HIDE DEF a
  <2>3. a \in Object /\ a.leader = p
    BY <1>3, <2>2 DEF Grows
  <2>4. Grows(p, a, b)
    BY <2>3, TryForward
  <2> HIDE DEF b
  <2>5. b \in Object /\ b.leader = p
    BY <2>3, <2>4 DEF Grows
  <2>6. Grows(p, b, c)
    BY <2>5, StartNext
  <2> HIDE DEF c
  <2>7. c \in Object /\ c.leader = p
    BY <2>5, <2>6 DEF Grows
  <2>8. Grows(p, c, d)
    BY <2>7, StartNext
  <2> HIDE DEF d
  <2>9. Grows(p, s, b)
    BY <2>2, <2>4, GrowsTrans
  <2>10. Grows(p, s, c)
    BY <2>6, <2>9, GrowsTrans
  <2>11. Grows(p, s, d)
    BY <2>8, <2>10, GrowsTrans
  <2> QED
    BY <2>1, <2>11
<1> QED
  BY <1>1, <1>2, <1>3

(* onClientRequest *)
LEMMA OnClientRequest ==
  ASSUME NEW p \in Peers, NEW s \in Object
  PROVE  Grows(p, s, onClientRequest(p, s))
<1> DEFINE t == tryForwardDeferredRequests(p, s)
<1>1. Grows(p, s, t)
  BY TryForward
<1>2. onClientRequest(p, s) = tryStartReplication(p, t)
  BY DEF onClientRequest
<1> HIDE DEF t
<1>3. t \in Object
  BY <1>1 DEF Grows
<1>4. Grows(p, t, tryStartReplication(p, t))
  BY <1>3, TryStart
<1> QED
  BY <1>1, <1>2, <1>4, GrowsTrans

(* resetReplicationState: what was in flight is dropped or pending again.  *)
LEMMA ResetReplication ==
  ASSUME NEW s \in Object, NEW requeue \in BOOLEAN
  PROVE  LET t == resetReplicationState(s, requeue) IN
         /\ t \in Object
         /\ t.term = s.term /\ t.leader = s.leader /\ t.votes = s.votes
         /\ t.committed = s.committed /\ t.nextId = s.nextId /\ t.sent = s.sent
         /\ t.known = s.known /\ t.inFlight = None /\ t.replies = {}
         /\ QueuesOK(s) => QueuesOK(t)
<1> DEFINE again == s.inFlight # None /\ requeue /\ s.inFlight \notin s.committed
           front == <<s.inFlight>> \o s.pending
           new == IF again THEN front ELSE s.pending
           t == resetReplicationState(s, requeue)
<1>1. s.pending \in Seq(Key) /\ s.deferred \in Seq(Req) /\ s.inFlight \in Key \cup {None}
      /\ s.sent \subseteq Msg
  BY DEF Object
<1>2. \A i \in 1 .. Len(s.deferred) : s.deferred[i].key # None
  <2>1. \A i \in 1 .. Len(s.deferred) : s.deferred[i] \in Req
    BY <1>1, ElementOfSeq
  <2> QED
    BY <2>1, RaftAssumption DEF Req, Key
<1>3. t = [s EXCEPT !.pending = new, !.inFlight = None, !.replies = {}]
  BY DEF resetReplicationState
<1>4. ASSUME again
      PROVE  /\ front \in Seq(Key)
             /\ \A j \in 1 .. Len(front) :
                  front[j] = s.inFlight \/ \E i \in 1 .. Len(s.pending) : front[j] = s.pending[i]
             /\ QueuesOK(s) => NoRepeat(front)
  <2> DEFINE one == <<s.inFlight>>
  <2>1. one \in Seq(Key) /\ Len(one) = 1 /\ one[1] = s.inFlight
    BY <1>1, <1>4
  <2> HIDE DEF one
  <2>2. front = one \o s.pending
    BY DEF one
  <2> HIDE DEF front
  <2>3. front \in Seq(Key)
        /\ \A j \in 1 .. Len(front) :
             \/ \E i \in 1 .. Len(one) : front[j] = one[i]
             \/ \E i \in 1 .. Len(s.pending) : front[j] = s.pending[i]
    <3> DEFINE c == one \o s.pending
    <3>0. one \in Seq(Key) /\ s.pending \in Seq(Key)
      BY <1>1, <2>1
    <3>1. /\ c \in Seq(Key)
          /\ \A j \in 1 .. Len(c) :
               \/ \E i \in 1 .. Len(one) : c[j] = one[i]
               \/ \E i \in 1 .. Len(s.pending) : c[j] = s.pending[i]
      BY <3>0, Concatenated
    <3> HIDE DEF c
    <3>2. front = c
      BY <2>2 DEF c
    <3> QED
      BY <3>1, <3>2
  <2>4. \A i \in 1 .. Len(one) : i = 1 /\ one[i] = s.inFlight
    BY <2>1
  <2>5. ASSUME QueuesOK(s) PROVE NoRepeat(front)
    <3>1. NoRepeat(s.pending)
      BY <2>5 DEF QueuesOK, Distinct, NoRepeat
    <3>2. NoRepeat(one)
      BY <2>4 DEF NoRepeat
    <3>3. \A i \in 1 .. Len(one) : \A j \in 1 .. Len(s.pending) : one[i] # s.pending[j]
      BY <2>4, <2>5 DEF QueuesOK, Distinct
    <3> QED
      BY <1>1, <2>1, <2>2, <3>1, <3>2, <3>3, Concatenated
  <2> QED
    BY <2>3, <2>4, <2>5
<1> HIDE DEF front, again
<1>5. /\ new \in Seq(Key)
      /\ \A j \in 1 .. Len(new) :
           \/ again /\ new[j] = s.inFlight
           \/ \E i \in 1 .. Len(s.pending) : new[j] = s.pending[i]
  BY <1>1, <1>4
<1>6. QueuesOK(s) => NoRepeat(new)
  BY <1>4 DEF QueuesOK, Distinct, NoRepeat
<1> HIDE DEF new, t
<1>7. /\ t \in Object /\ t.deferred = s.deferred /\ t.pending = new
      /\ t.term = s.term /\ t.leader = s.leader /\ t.votes = s.votes
      /\ t.committed = s.committed /\ t.nextId = s.nextId /\ t.sent = s.sent
      /\ t.replies = {} /\ t.inFlight = None /\ t.known = s.known
  BY <1>3, <1>5 DEF Object
<1>8. ASSUME QueuesOK(s) PROVE QueuesOK(t)
  <2>1. again => s.inFlight # None
    BY DEF again
  <2>2. \A j \in 1 .. Len(new) : new[j] \in s.known
    BY <1>5, <1>8, <2>1 DEF QueuesOK, AllKnown
  <2>3. AllKnown(t)
    BY <1>7, <1>8, <2>2 DEF QueuesOK, AllKnown
  <2>4. \A j \in 1 .. Len(new) : new[j] # None
    <3>1. \A j \in 1 .. Len(new) : new[j] \in Key
      BY <1>5, ElementOfSeq
    <3> QED
      BY <3>1, RaftAssumption DEF Key
  <2>5. \A i \in 1 .. Len(s.deferred) : \A j \in 1 .. Len(new) : s.deferred[i].key # new[j]
    BY <1>5, <1>8 DEF QueuesOK, Distinct
  <2>6. NoRepeat(new)
    BY <1>6, <1>8
  <2>7. \A i, j \in 1 .. Len(s.deferred) : s.deferred[i].key = s.deferred[j].key => i = j
    BY <1>8 DEF QueuesOK, Distinct
  <2>8. Distinct(t)
    BY <1>2, <1>7, <2>4, <2>5, <2>6, <2>7 DEF Distinct, NoRepeat
  <2> QED
    BY <2>3, <2>8 DEF QueuesOK
<1> QED
  BY <1>7, <1>8 DEF t

(* applyCommit: a committed request leaves the queues.                     *)
LEMMA ApplyCommit ==
  ASSUME NEW s \in Object, NEW k \in Key
  PROVE  LET t == applyCommit(s, k) IN
         /\ t \in Object
         /\ t.term = s.term /\ t.leader = s.leader /\ t.votes = s.votes
         /\ t.committed = s.committed \cup {k} /\ t.nextId = s.nextId
         /\ t.sent = s.sent /\ t.known = s.known /\ t.inFlight = s.inFlight
         /\ t.replies = {} \/ t.replies = s.replies
         /\ QueuesOK(s) => QueuesOK(t)
<1> DEFINE P == { i \in 1 .. Len(s.pending) : s.pending[i] # k }
           D == { i \in 1 .. Len(s.deferred) : s.deferred[i].key # k }
           pend == Kept(s.pending, P)
           defd == Kept(s.deferred, D)
           r == IF s.inFlight = k THEN {} ELSE s.replies
           t == applyCommit(s, k)
<1>1. s.pending \in Seq(Key) /\ s.deferred \in Seq(Req) /\ s.replies \subseteq Peers
      /\ s.committed \subseteq Key
  BY DEF Object
<1>2. P \in SUBSET (1 .. Len(s.pending)) /\ D \in SUBSET (1 .. Len(s.deferred))
  OBVIOUS
<1>3. t = [s EXCEPT !.committed = @ \cup {k}, !.replies = r,
                    !.deferred = defd, !.pending = pend]
  BY DEF applyCommit
<1> HIDE DEF P, D, t
<1>4. /\ pend \in Seq(Key) /\ Len(pend) \in Nat
      /\ \A i \in 1 .. Len(pend) : pend[i] \in Key /\ \E h \in P : pend[i] = s.pending[h]
      /\ (\A i, j \in 1 .. Len(s.pending) : s.pending[i] = s.pending[j] => i = j) =>
           \A i, j \in 1 .. Len(pend) : pend[i] = pend[j] => i = j
  BY <1>1, <1>2, KeptKey
<1>5. /\ defd \in Seq(Req) /\ Len(defd) \in Nat
      /\ \A i \in 1 .. Len(defd) : defd[i] \in Req /\ \E h \in D : defd[i] = s.deferred[h]
      /\ (\A i, j \in 1 .. Len(s.deferred) : s.deferred[i].key = s.deferred[j].key => i = j) =>
           \A i, j \in 1 .. Len(defd) : defd[i].key = defd[j].key => i = j
  BY <1>1, <1>2, KeptReq
<1> HIDE DEF pend, defd
<1>6. r \subseteq Peers /\ (r = {} \/ r = s.replies)
  BY <1>1
<1> HIDE DEF r
<1>7. /\ t \in Object /\ t.deferred = defd /\ t.pending = pend
      /\ t.term = s.term /\ t.leader = s.leader /\ t.votes = s.votes
      /\ t.committed = s.committed \cup {k} /\ t.nextId = s.nextId
      /\ t.sent = s.sent
      /\ t.replies = r /\ t.inFlight = s.inFlight /\ t.known = s.known
  BY <1>1, <1>3, <1>4, <1>5, <1>6 DEF Object
<1>8. /\ \A i \in 1 .. Len(pend) : \E h \in 1 .. Len(s.pending) : pend[i] = s.pending[h]
      /\ \A i \in 1 .. Len(defd) : \E h \in 1 .. Len(s.deferred) : defd[i] = s.deferred[h]
  BY <1>2, <1>4, <1>5
<1>9. ASSUME QueuesOK(s) PROVE QueuesOK(t)
  <2>1. AllKnown(t)
    BY <1>7, <1>8, <1>9 DEF QueuesOK, AllKnown
  <2>2. \A i, j \in 1 .. Len(pend) : pend[i] = pend[j] => i = j
    BY <1>4, <1>9 DEF QueuesOK, Distinct
  <2>3. \A i, j \in 1 .. Len(defd) : defd[i].key = defd[j].key => i = j
    BY <1>5, <1>9 DEF QueuesOK, Distinct
  <2>4. \A i \in 1 .. Len(defd) : \A j \in 1 .. Len(pend) : defd[i].key # pend[j]
    BY <1>8, <1>9 DEF QueuesOK, Distinct
  <2>5. \A i \in 1 .. Len(defd) : defd[i].key # s.inFlight
    BY <1>8, <1>9 DEF QueuesOK, Distinct
  <2>6. \A i \in 1 .. Len(pend) : pend[i] # s.inFlight
    BY <1>8, <1>9 DEF QueuesOK, Distinct
  <2>7. Distinct(t)
    BY <1>7, <2>2, <2>3, <2>4, <2>5, <2>6 DEF Distinct
  <2> QED
    BY <2>1, <2>7 DEF QueuesOK
<1> QED
  BY <1>6, <1>7, <1>9 DEF t
-----------------------------------------------------------------------------
(* o has voted for p in term n or before. *)
Voted(o, p, n) ==
  \E v \in raft[o].sent : v.type = "vote" /\ v.to = {p} /\ v.term <= n

Elected(p, n) == Majority({ o \in Peers \ {p} : Voted(o, p, n) })

Remembered(p, k) == Majority({ o \in Peers \ {p} : k \in raft[o].known })

CommitSent(S, k) == \E m \in S : m.type = "commit" /\ m.key = k

(* What t, the object of p or what a handler has made of it so far, has to *)
(* satisfy, given the objects of the other peers: it is what the object    *)
(* was, or more ...                                                        *)
Extends(p, t) ==
  /\ t \in Object /\ QueuesOK(t)
  /\ raft[p].term <= t.term /\ raft[p].nextId <= t.nextId
  /\ raft[p].known \subseteq t.known /\ raft[p].sent \subseteq t.sent

(* ... it knows only requests that were submitted ...                      *)
KnownOK(p, t) ==
  \A k \in t.known : k[2] < IF k[1] = p THEN t.nextId ELSE raft[k[1]].nextId

(* ... it has supported one candidate in each term so far, none of them in *)
(* a term the candidate has not reached ...                                *)
BallotsOK(p, t) ==
  /\ \A m \in t.sent : m.type \in {"vote", "elect"} => m.term <= t.term
  /\ \A m, n \in t.sent :
       /\ m.type = "vote" /\ n.type \in {"vote", "elect"} /\ m.term = n.term
       => m = n
  /\ \A m \in t.sent : m.type = "vote" =>
       \E c \in Peers \ {p} : m.to = {c} /\ m.term <= raft[c].term

(* ... the votes it counts were cast, and it leads and replicates once     *)
(* elected ...                                                             *)
LeaderOK(p, t) ==
  /\ \A o \in t.votes : o # p /\ Voted(o, p, t.term)
  /\ t.leader = p /\ p # FirstLeader => Elected(p, t.term)
  /\ \A m \in t.sent : m.type = "request" /\ p # FirstLeader => Elected(p, m.term)

(* ... and the answers it counts came from peers that know what is in      *)
(* flight, a majority of which know what it commits.                       *)
CommitOK(p, t) ==
  /\ \A o \in t.replies : o # p /\ t.inFlight \in raft[o].known
  /\ \A m \in t.sent : m.type = "commit" => Remembered(p, m.key)
  /\ \A k \in t.committed :
       CommitSent(t.sent, k) \/ \E l \in Peers \ {p} : CommitSent(raft[l].sent, k)

Valid(p, t) ==
  Extends(p, t) /\ KnownOK(p, t) /\ BallotsOK(p, t) /\ LeaderOK(p, t) /\ CommitOK(p, t)

(* The inductive invariant. *)
IndInv ==
  /\ raft \in [Peers -> Object]
  /\ \A p \in Peers : Valid(p, raft[p])

(* A majority stays one when more peers join the set. *)
LEMMA MajorityMonotone ==
  ASSUME NEW S \in SUBSET Peers, NEW T \in SUBSET Peers, S \subseteq T, Majority(S)
  PROVE  Majority(T)
<1>1. IsFiniteSet(Peers)
  BY RaftAssumption
<1>2. IsFiniteSet(T) /\ IsFiniteSet(S)
  BY <1>1, FS_Subset
<1>3. Cardinality(S) <= Cardinality(T)
  BY <1>2, FS_Subset
<1>4. Cardinality(S) \in Nat /\ Cardinality(T) \in Nat /\ Cardinality(Peers) \in Nat
  BY <1>1, <1>2, FS_CardinalityType
<1> QED
  BY <1>3, <1>4 DEF Majority

(* A quorum is a majority. *)
LEMMA QuorumIsMajority ==
  ASSUME NEW S \in SUBSET Peers, hasQuorum(S)
  PROVE  Majority(S)
<1>1. IsFiniteSet(Peers)
  BY RaftAssumption
<1>2. Cardinality(S) \in Nat /\ Cardinality(Peers) \in Nat
  BY <1>1, FS_Subset, FS_CardinalityType
<1> QED
  BY <1>2 DEF hasQuorum, Majority

(* A leader stays elected while peers cast further votes. *)
LEMMA ElectedMonotone ==
  ASSUME NEW p \in Peers, NEW m \in Nat, NEW n \in Nat, m <= n,
         raft \in [Peers -> Object]
  PROVE  /\ \A o \in Peers : Voted(o, p, m) => Voted(o, p, n)
         /\ Elected(p, m) => Elected(p, n)
<1>1. ASSUME NEW o \in Peers, Voted(o, p, m) PROVE Voted(o, p, n)
  <2>1. PICK v \in raft[o].sent : v.type = "vote" /\ v.to = {p} /\ v.term <= m
    BY <1>1 DEF Voted
  <2>2. v.term \in Nat
    <3>1. v \in Msg
      BY DEF Object
    <3> QED
      BY <2>1, <3>1, MsgFields
  <2>3. v.term <= n
    BY <2>1, <2>2
  <2> QED
    BY <2>1, <2>3 DEF Voted
<1>2. { o \in Peers \ {p} : Voted(o, p, m) } \subseteq { o \in Peers \ {p} : Voted(o, p, n) }
  BY <1>1
<1>3. Elected(p, m) => Elected(p, n)
  BY <1>2, MajorityMonotone DEF Elected
<1> QED
  BY <1>1, <1>3

(* Submitting, forwarding and replicating keep an object valid.            *)
LEMMA GrowsValid ==
  ASSUME NEW p \in Peers, NEW s, NEW t, raft \in [Peers -> Object],
         Valid(p, s), Grows(p, s, t)
  PROVE  Valid(p, t)
<1>1. /\ s \in Object /\ t \in Object /\ raft[p] \in Object
      /\ s.nextId \in Nat /\ t.nextId \in Nat /\ raft[p].nextId \in Nat
      /\ s.known \subseteq Key
  BY DEF Valid, Extends, Grows, Object
<1>2. Extends(p, t)
  BY <1>1 DEF Valid, Extends, Grows
<1>3. KnownOK(p, t)
  <2> SUFFICES ASSUME NEW k \in t.known
               PROVE  k[2] < IF k[1] = p THEN t.nextId ELSE raft[k[1]].nextId
    BY DEF KnownOK
  <2>1. CASE k \in s.known
    <3>1. k[2] \in Nat
      BY <1>1, <2>1 DEF Key
    <3>2. k[2] < IF k[1] = p THEN s.nextId ELSE raft[k[1]].nextId
      BY <2>1 DEF Valid, KnownOK
    <3> QED
      BY <1>1, <3>1, <3>2 DEF Grows
  <2>2. CASE k \notin s.known
    BY <2>2 DEF Grows
  <2> QED
    BY <2>1, <2>2
<1>4. \A m \in t.sent : m.type \in {"vote", "elect", "commit"} => m \in s.sent
  BY DEF Grows
<1>5. BallotsOK(p, t)
  <2>1. t.term = s.term
    BY DEF Grows
  <2> QED
    BY <1>4, <2>1 DEF Valid, BallotsOK
<1>6. LeaderOK(p, t)
  <2>1. t.term = s.term /\ t.votes = s.votes /\ t.leader = s.leader
    BY DEF Grows
  <2>2. ASSUME NEW m \in t.sent, m.type = "request", p # FirstLeader
        PROVE  Elected(p, m.term)
    <3>1. CASE m \in s.sent
      BY <2>2, <3>1 DEF Valid, LeaderOK
    <3>2. CASE m \notin s.sent
      BY <2>2, <3>2 DEF Valid, LeaderOK, Grows
    <3> QED
      BY <3>1, <3>2
  <2> QED
    BY <2>1, <2>2 DEF Valid, LeaderOK
<1>7. CommitOK(p, t)
  <2>1. t.committed = s.committed /\ s.sent \subseteq t.sent
    BY DEF Grows
  <2>2. \A o \in t.replies : o # p /\ t.inFlight \in raft[o].known
    BY DEF Valid, CommitOK, Grows
  <2>3. \A k : CommitSent(s.sent, k) => CommitSent(t.sent, k)
    BY <2>1 DEF CommitSent
  <2> QED
    BY <1>4, <2>1, <2>2, <2>3 DEF Valid, CommitOK
<1> QED
  BY <1>2, <1>3, <1>5, <1>6, <1>7 DEF Valid

(* So does forgetting what is in flight. *)
LEMMA ResetValid ==
  ASSUME NEW p \in Peers, NEW s, NEW requeue \in BOOLEAN, Valid(p, s)
  PROVE  Valid(p, resetReplicationState(s, requeue))
<1> DEFINE t == resetReplicationState(s, requeue)
<1>1. s \in Object /\ QueuesOK(s)
  BY DEF Valid, Extends
<1>2. /\ t \in Object
      /\ t.term = s.term /\ t.leader = s.leader /\ t.votes = s.votes
      /\ t.committed = s.committed /\ t.nextId = s.nextId /\ t.sent = s.sent
      /\ t.known = s.known /\ t.inFlight = None /\ t.replies = {}
      /\ QueuesOK(t)
  BY <1>1, ResetReplication
<1> HIDE DEF t
<1>3. Extends(p, t) /\ KnownOK(p, t)
  BY <1>2 DEF Valid, Extends, KnownOK
<1>4. BallotsOK(p, t) /\ LeaderOK(p, t)
  BY <1>2 DEF Valid, BallotsOK, LeaderOK
<1>5. CommitOK(p, t)
  BY <1>2 DEF Valid, CommitOK
<1>6. Valid(p, t)
  BY <1>3, <1>4, <1>5 DEF Valid
<1> QED
  BY <1>6 DEF t

(* So does queueing a request that was submitted. *)
LEMMA EnqueueValid ==
  ASSUME NEW p \in Peers, NEW s, NEW r \in Req, Valid(p, s),
         r.key[2] < IF r.key[1] = p THEN s.nextId ELSE raft[r.key[1]].nextId
  PROVE  Valid(p, enqueueDeferred(s, r))
<1> DEFINE t == enqueueDeferred(s, r)
<1>1. s \in Object /\ QueuesOK(s)
  BY DEF Valid, Extends
<1>2. /\ t \in Object
      /\ t.term = s.term /\ t.leader = s.leader /\ t.votes = s.votes
      /\ t.committed = s.committed /\ t.nextId = s.nextId /\ t.sent = s.sent
      /\ t.replies = s.replies /\ t.inFlight = s.inFlight
      /\ t.known = s.known \cup {r.key}
      /\ QueuesOK(t)
  BY <1>1, EnqueueDeferred
<1> HIDE DEF t
<1>3. Extends(p, t)
  BY <1>2 DEF Valid, Extends
<1>4. KnownOK(p, t)
  BY <1>2 DEF Valid, KnownOK
<1>5. BallotsOK(p, t) /\ LeaderOK(p, t)
  BY <1>2 DEF Valid, BallotsOK, LeaderOK
<1>6. CommitOK(p, t)
  BY <1>2 DEF Valid, CommitOK
<1>7. Valid(p, t)
  BY <1>3, <1>4, <1>5, <1>6 DEF Valid
<1> QED
  BY <1>7 DEF t

(* Leaving the leadership to somebody else, or to nobody, in this term or  *)
(* a later one keeps an object valid, with a vote or a candidacy if the    *)
(* term is new.                                                            *)
LEMMA StepDownValid ==
  ASSUME NEW p \in Peers, NEW s, NEW n \in Nat, NEW l \in Peers \cup {None}, NEW B \in SUBSET Msg,
         raft \in [Peers -> Object], Valid(p, s), s.term <= n, l # p,
         \A m \in B : /\ s.term < n /\ m.term = n
                      /\ \/ m.type = "elect"
                         \/ /\ m.type = "vote"
                            /\ \E c \in Peers \ {p} : m.to = {c} /\ n <= raft[c].term,
         \A m1, m2 \in B : m1 = m2
  PROVE  Valid(p, [s EXCEPT !.term = n, !.leader = l, !.votes = {}, !.sent = @ \cup B])
<1> DEFINE t == [s EXCEPT !.term = n, !.leader = l, !.votes = {}, !.sent = @ \cup B]
<1>1. /\ s \in Object /\ QueuesOK(s) /\ s.term \in Nat /\ raft[p] \in Object
      /\ raft[p].term \in Nat /\ s.sent \subseteq Msg
  BY DEF Valid, Extends, Object
<1>2. /\ t \in Object
      /\ t.term = n /\ t.leader = l /\ t.votes = {} /\ t.sent = s.sent \cup B
      /\ t.committed = s.committed /\ t.nextId = s.nextId
      /\ t.known = s.known /\ t.inFlight = s.inFlight /\ t.replies = s.replies
      /\ t.deferred = s.deferred /\ t.pending = s.pending
  BY <1>1 DEF Object
<1> HIDE DEF t
<1>3. QueuesOK(t)
  BY <1>1, <1>2 DEF QueuesOK, Distinct, AllKnown
<1>4. Extends(p, t)
  BY <1>1, <1>2, <1>3 DEF Valid, Extends
<1>5. KnownOK(p, t)
  BY <1>2 DEF Valid, KnownOK
<1>6. \A m \in s.sent : m.type \in {"vote", "elect"} => m.term \in Nat /\ m.term <= s.term
  BY <1>1, MsgFields DEF Valid, BallotsOK
<1>7. BallotsOK(p, t)
  <2>1. ASSUME NEW m \in t.sent, m.type \in {"vote", "elect"} PROVE m.term <= t.term
    <3>1. CASE m \in s.sent
      <4>1. m.term \in Nat /\ m.term <= s.term
        BY <1>6, <2>1, <3>1
      <4> QED
        BY <1>1, <1>2, <4>1
    <3>2. CASE m \in B
      BY <1>2, <3>2
    <3> QED
      BY <1>2, <3>1, <3>2
  <2>2. ASSUME NEW m \in t.sent, NEW q \in t.sent,
               m.type = "vote", q.type \in {"vote", "elect"}, m.term = q.term
        PROVE  m = q
    <3>1. CASE m \in s.sent /\ q \in s.sent
      BY <2>2, <3>1 DEF Valid, BallotsOK
    <3>2. ASSUME NEW a \in s.sent, NEW b \in B, a.term = b.term, a.type \in {"vote", "elect"}
          PROVE  FALSE
      <4>1. a.term \in Nat /\ a.term <= s.term
        BY <1>6, <3>2
      <4>2. s.term < n /\ b.term = n
        OBVIOUS
      <4> QED
        BY <1>1, <3>2, <4>1, <4>2
    <3>3. CASE m \in B /\ q \in B
      BY <3>3
    <3> QED
      BY <1>2, <2>2, <3>1, <3>2, <3>3
  <2>3. ASSUME NEW m \in t.sent, m.type = "vote"
        PROVE  \E c \in Peers \ {p} : m.to = {c} /\ m.term <= raft[c].term
    <3>1. CASE m \in s.sent
      BY <2>3, <3>1 DEF Valid, BallotsOK
    <3>2. CASE m \in B
      BY <2>3, <3>2
    <3> QED
      BY <1>2, <3>1, <3>2
  <2> QED
    BY <2>1, <2>2, <2>3 DEF BallotsOK
<1>8. LeaderOK(p, t)
  <2>1. \A m \in t.sent : m.type = "request" => m \in s.sent
    BY <1>2
  <2> QED
    BY <1>2, <2>1 DEF Valid, LeaderOK
<1>9. CommitOK(p, t)
  <2>1. \A m \in t.sent : m.type = "commit" => m \in s.sent
    BY <1>2
  <2>2. \A k : CommitSent(s.sent, k) => CommitSent(t.sent, k)
    BY <1>2 DEF CommitSent
  <2> QED
    BY <1>2, <2>1, <2>2 DEF Valid, CommitOK
<1>10. Valid(p, t)
  BY <1>4, <1>5, <1>7, <1>8, <1>9 DEF Valid
<1> QED
  BY <1>10 DEF t
-----------------------------------------------------------------------------
(* handleRequest *)
LEMMA RequestValid ==
  ASSUME IndInv, NEW p \in Peers, NEW o \in Peers \ {p},
         NEW m \in Inbox(p, o, "request")
  PROVE  Valid(p, handleRequest(o, raft[p], m))
<1> DEFINE s == raft[p]
           r == Request(m.key, None)
           a == IF s.leader # o THEN resetReplicationState(s, FALSE) ELSE s
           b == [a EXCEPT !.term = m.term, !.leader = o, !.votes = {}]
           c == IF s.term <= m.term THEN b ELSE s
           d == enqueueDeferred(c, r)
           t == [d EXCEPT !.sent = @ \cup {Respond(o, m.key)}]
<1>0. raft \in [Peers -> Object] /\ s \in Object /\ s.term \in Nat
  BY DEF IndInv, Object
<1>1. m \in raft[o].sent /\ m.type = "request" /\ m \in Msg
  BY <1>0 DEF Inbox, Object
<1>2. m.term \in Nat /\ m.key \in Key
  BY <1>1, MsgFields
<1>3. m.key[2] < raft[m.key[1]].nextId
  <2>1. m.key \in raft[o].known
    BY <1>1 DEF IndInv, Valid, Extends, QueuesOK, AllKnown
  <2>2. m.key[2] < IF m.key[1] = o THEN raft[o].nextId ELSE raft[m.key[1]].nextId
    BY <2>1 DEF IndInv, Valid, KnownOK
  <2> QED
    BY <2>2
<1>4. r \in Req /\ r.key = m.key
  BY <1>2 DEF Req, Request
<1>5. Valid(p, s)
  BY DEF IndInv
<1>6. Valid(p, a) /\ a.term = s.term /\ a.nextId = s.nextId /\ a \in Object
  <2>1. CASE s.leader # o
    <3>1. /\ resetReplicationState(s, FALSE).term = s.term
          /\ resetReplicationState(s, FALSE).nextId = s.nextId
          /\ resetReplicationState(s, FALSE) \in Object
      BY <1>0, ResetReplication
    <3> QED
      BY <1>5, <2>1, <3>1, ResetValid
  <2>2. CASE s.leader = o
    BY <1>0, <1>5, <2>2
  <2> QED
    BY <2>1, <2>2
<1> HIDE DEF a
<1>7. ASSUME s.term <= m.term PROVE Valid(p, b) /\ b.nextId = s.nextId
  <2>1. Valid(p, [a EXCEPT !.term = m.term, !.leader = o, !.votes = {}, !.sent = @ \cup {}])
    BY <1>0, <1>2, <1>6, <1>7, StepDownValid
  <2>2. [a EXCEPT !.term = m.term, !.leader = o, !.votes = {}, !.sent = @ \cup {}] = b
    BY <1>6 DEF Object
  <2>3. b.nextId = s.nextId
    BY <1>6 DEF Object
  <2> QED
    BY <2>1, <2>2, <2>3
<1> HIDE DEF b
<1>8. Valid(p, c) /\ c.nextId = s.nextId
  BY <1>5, <1>7
<1> HIDE DEF c
<1>9. Valid(p, d)
  <2>1. r.key[2] < IF r.key[1] = p THEN c.nextId ELSE raft[r.key[1]].nextId
    BY <1>3, <1>4, <1>8
  <2> QED
    BY <1>4, <1>8, <2>1, EnqueueValid
<1>10. m.key \in d.known
  <2>1. c \in Object
    BY <1>8 DEF Valid, Extends
  <2> QED
    BY <1>4, <2>1, EnqueueDeferred
<1> HIDE DEF d, r
<1>11. d \in Object /\ d.sent \subseteq Msg
  BY <1>9 DEF Valid, Extends, Object
<1>12. Respond(o, m.key) \in Msg /\ Respond(o, m.key).type = "respondRequest"
       /\ Respond(o, m.key).key = m.key
  BY <1>2, Constructors
<1>13. /\ t \in Object
       /\ t.term = d.term /\ t.leader = d.leader /\ t.votes = d.votes
       /\ t.committed = d.committed /\ t.nextId = d.nextId
       /\ t.sent = d.sent \cup {Respond(o, m.key)}
       /\ t.known = d.known /\ t.inFlight = d.inFlight /\ t.replies = d.replies
       /\ t.deferred = d.deferred /\ t.pending = d.pending
  BY <1>11, <1>12 DEF Object
<1>14. handleRequest(o, raft[p], m) = t
  BY DEF handleRequest, t, d, c, b, a, r
<1> HIDE DEF t
<1>15. QueuesOK(t)
  <2>1. QueuesOK(d)
    BY <1>9 DEF Valid, Extends
  <2>2. Distinct(t)
    BY <1>13, <2>1, SameQueues DEF QueuesOK
  <2>3. AllKnown(t)
    BY <1>10, <1>12, <1>13, <2>1 DEF QueuesOK, AllKnown
  <2> QED
    BY <2>2, <2>3 DEF QueuesOK
<1>16. Extends(p, t) /\ KnownOK(p, t)
  BY <1>9, <1>13, <1>15 DEF Valid, Extends, KnownOK
<1>17. \A x \in t.sent : x \in d.sent \/ x.type = "respondRequest"
  BY <1>12, <1>13
<1>18. BallotsOK(p, t)
  BY <1>9, <1>13, <1>17 DEF Valid, BallotsOK
<1>19. LeaderOK(p, t)
  BY <1>9, <1>13, <1>17 DEF Valid, LeaderOK
<1>20. CommitOK(p, t)
  <2>1. \A k : CommitSent(d.sent, k) => CommitSent(t.sent, k)
    BY <1>13 DEF CommitSent
  <2> QED
    BY <1>9, <1>13, <1>17, <2>1 DEF Valid, CommitOK
<1> QED
  BY <1>14, <1>16, <1>18, <1>19, <1>20 DEF Valid

(* confirmRequest, when a majority of the others knows the request         *)
LEMMA ConfirmValid ==
  ASSUME NEW p \in Peers, NEW s, NEW k \in Key, raft \in [Peers -> Object],
         Valid(p, s), s.inFlight = k, Remembered(p, k)
  PROVE  Valid(p, confirmRequest(p, s, k))
<1> DEFINE a == applyCommit(s, k)
           c == Commit(k, a.term)
           b == [a EXCEPT !.sent = @ \cup {c}, !.inFlight = None]
<1>1. s \in Object /\ QueuesOK(s)
  BY DEF Valid, Extends
<1>2. /\ a \in Object
      /\ a.term = s.term /\ a.leader = s.leader /\ a.votes = s.votes
      /\ a.committed = s.committed \cup {k} /\ a.nextId = s.nextId
      /\ a.sent = s.sent /\ a.known = s.known /\ a.inFlight = s.inFlight
      /\ QueuesOK(a)
  BY <1>1, ApplyCommit
<1>r. a.replies = {}
  BY <1>1 DEF applyCommit, Object
<1>3. confirmRequest(p, s, k) = tryStartReplication(p, b)
  BY DEF confirmRequest
<1> HIDE DEF a
<1>4. c \in Msg /\ c.type = "commit" /\ c.key = k
  BY <1>2, Constructors DEF Object
<1> HIDE DEF c
<1>5. /\ b \in Object
      /\ b.term = s.term /\ b.leader = s.leader /\ b.votes = s.votes
      /\ b.committed = s.committed \cup {k} /\ b.nextId = s.nextId
      /\ b.sent = s.sent \cup {c} /\ b.known = s.known /\ b.inFlight = None
      /\ b.replies = a.replies /\ b.deferred = a.deferred /\ b.pending = a.pending
  BY <1>2, <1>4 DEF Object
<1> HIDE DEF b
<1>6. QueuesOK(b)
  <2>1. AllKnown(b)
    BY <1>2, <1>4, <1>5 DEF QueuesOK, AllKnown
  <2>2. /\ \A i \in 1 .. Len(b.deferred) : b.deferred[i].key # None
        /\ \A i \in 1 .. Len(b.pending) : b.pending[i] # None
    <3>1. b.deferred \in Seq(Req) /\ b.pending \in Seq(Key)
      BY <1>5 DEF Object
    <3>2. \A i \in 1 .. Len(b.deferred) : b.deferred[i] \in Req
      BY <3>1, ElementOfSeq
    <3>3. \A i \in 1 .. Len(b.pending) : b.pending[i] \in Key
      BY <3>1, ElementOfSeq
    <3> QED
      BY <3>2, <3>3, RaftAssumption DEF Req, Key
  <2>3. Distinct(b)
    BY <1>2, <1>5, <2>2 DEF QueuesOK, Distinct
  <2> QED
    BY <2>1, <2>3 DEF QueuesOK
<1>7. Extends(p, b) /\ KnownOK(p, b)
  BY <1>5, <1>6 DEF Valid, Extends, KnownOK
<1>8. \A m \in b.sent : m \in s.sent \/ m = c
  BY <1>5
<1>9. BallotsOK(p, b)
  BY <1>4, <1>5, <1>8 DEF Valid, BallotsOK
<1>10. LeaderOK(p, b)
  BY <1>4, <1>5, <1>8 DEF Valid, LeaderOK
<1>11. CommitOK(p, b)
  <2>1. b.replies = {}
    BY <1>5, <1>r
  <2>2. \A x : CommitSent(s.sent, x) => CommitSent(b.sent, x)
    BY <1>5 DEF CommitSent
  <2>3. CommitSent(b.sent, k)
    BY <1>4, <1>5 DEF CommitSent
  <2>4. \A m \in b.sent : m.type = "commit" => Remembered(p, m.key)
    BY <1>4, <1>8 DEF Valid, CommitOK
  <2> QED
    BY <1>5, <2>1, <2>2, <2>3, <2>4 DEF Valid, CommitOK
<1>12. Valid(p, b)
  BY <1>7, <1>9, <1>10, <1>11 DEF Valid
<1>13. Grows(p, b, tryStartReplication(p, b))
  BY <1>5, TryStart
<1> QED
  BY <1>3, <1>12, <1>13, GrowsValid

(* handleRespond *)
LEMMA RespondValid ==
  ASSUME IndInv, NEW p \in Peers, NEW o \in Peers \ {p},
         NEW m \in Inbox(p, o, "respondRequest")
  PROVE  Valid(p, handleRespond(p, o, raft[p], m))
<1> DEFINE s == raft[p]
           t == [s EXCEPT !.replies = @ \cup {o}]
<1>0. raft \in [Peers -> Object] /\ s \in Object /\ Valid(p, s)
  BY DEF IndInv
<1>1. CASE ~Awaited(p, s, m) \/ o \in s.replies
  BY <1>0, <1>1 DEF handleRespond
<1>2. CASE Awaited(p, s, m) /\ o \notin s.replies
  <2>1. m \in raft[o].sent /\ m.type = "respondRequest"
    BY <1>0 DEF Inbox
  <2>2. s.inFlight \in raft[o].known
    <3>1. m.key \in raft[o].known
      BY <2>1 DEF IndInv, Valid, Extends, QueuesOK, AllKnown
    <3> QED
      BY <1>2, <3>1 DEF Awaited
  <2>3. s.inFlight \in Key
    BY <1>0, <1>2 DEF Awaited, Object
  <2>4. /\ t \in Object
        /\ t.term = s.term /\ t.leader = s.leader /\ t.votes = s.votes
        /\ t.committed = s.committed /\ t.nextId = s.nextId
        /\ t.sent = s.sent /\ t.known = s.known /\ t.inFlight = s.inFlight
        /\ t.replies = s.replies \cup {o} /\ t.deferred = s.deferred /\ t.pending = s.pending
    BY <1>0 DEF Object
  <2>5. handleRespond(p, o, s, m) =
          IF hasQuorum(t.replies) THEN confirmRequest(p, t, s.inFlight) ELSE t
    BY <1>2 DEF handleRespond
  <2> HIDE DEF t
  <2>6. QueuesOK(t)
    <3>1. QueuesOK(s)
      BY <1>0 DEF Valid, Extends
    <3>2. Distinct(t)
      BY <2>4, <3>1, SameQueues DEF QueuesOK
    <3>3. AllKnown(t)
      BY <2>4, <3>1 DEF QueuesOK, AllKnown
    <3> QED
      BY <3>2, <3>3 DEF QueuesOK
  <2>7. Extends(p, t) /\ KnownOK(p, t)
    BY <1>0, <2>4, <2>6 DEF Valid, Extends, KnownOK
  <2>8. BallotsOK(p, t) /\ LeaderOK(p, t)
    BY <1>0, <2>4 DEF Valid, BallotsOK, LeaderOK
  <2>9. CommitOK(p, t)
    BY <1>0, <2>2, <2>4 DEF Valid, CommitOK
  <2>10. Valid(p, t)
    BY <2>7, <2>8, <2>9 DEF Valid
  <2>11. ASSUME hasQuorum(t.replies) PROVE Valid(p, confirmRequest(p, t, s.inFlight))
    <3> DEFINE S == { q \in Peers \ {p} : s.inFlight \in raft[q].known }
    <3>1. t.replies \subseteq S /\ t.replies \subseteq Peers
      BY <2>4, <2>9 DEF CommitOK, Object
    <3>2. Majority(S)
      BY <2>11, <3>1, QuorumIsMajority, MajorityMonotone
    <3>3. Remembered(p, s.inFlight)
      BY <3>2 DEF Remembered
    <3> QED
      BY <1>0, <2>3, <2>4, <2>10, <3>3, ConfirmValid
  <2> QED
    BY <2>5, <2>10, <2>11
<1> QED
  BY <1>1, <1>2

(* handleVote *)
LEMMA VoteValid ==
  ASSUME IndInv, NEW p \in Peers, NEW o \in Peers \ {p}, NEW m \in Inbox(p, o, "vote")
  PROVE  Valid(p, handleVote(p, o, raft[p]))
<1> DEFINE s == raft[p]
           t == [s EXCEPT !.votes = @ \cup {o}]
           e == [t EXCEPT !.leader = p, !.votes = {}]
           u == resetReplicationState(e, TRUE)
           v == tryForwardDeferredRequests(p, u)
           w == tryStartReplication(p, v)
<1>0. raft \in [Peers -> Object] /\ s \in Object /\ Valid(p, s) /\ s.term \in Nat
  BY DEF IndInv, Object
<1>1. CASE s.leader = p \/ o \in s.votes
  BY <1>0, <1>1 DEF handleVote
<1>2. CASE s.leader # p /\ o \notin s.votes
  <2>1. m \in raft[o].sent /\ m.type = "vote" /\ p \in m.to
    BY <1>0 DEF Inbox
  <2>2. Voted(o, p, s.term)
    <3>1. PICK c \in Peers \ {o} : m.to = {c} /\ m.term <= raft[c].term
      BY <2>1 DEF IndInv, Valid, BallotsOK
    <3>2. c = p
      BY <2>1, <3>1
    <3> QED
      BY <2>1, <3>1, <3>2 DEF Voted
  <2>3. /\ t \in Object
        /\ t.term = s.term /\ t.leader = s.leader /\ t.votes = s.votes \cup {o}
        /\ t.committed = s.committed /\ t.nextId = s.nextId
        /\ t.sent = s.sent /\ t.known = s.known /\ t.inFlight = s.inFlight
        /\ t.replies = s.replies /\ t.deferred = s.deferred /\ t.pending = s.pending
    BY <1>0 DEF Object
  <2>4. handleVote(p, o, s) = IF hasQuorum(t.votes) THEN w ELSE t
    BY <1>2 DEF handleVote
  <2>5. /\ e \in Object
        /\ e.term = s.term /\ e.leader = p /\ e.votes = {}
        /\ e.committed = s.committed /\ e.nextId = s.nextId
        /\ e.sent = s.sent /\ e.known = s.known /\ e.inFlight = s.inFlight
        /\ e.replies = s.replies /\ e.deferred = s.deferred /\ e.pending = s.pending
    BY <1>0 DEF Object
  <2> HIDE DEF t, e
  <2>6. QueuesOK(t) /\ QueuesOK(e)
    <3>1. QueuesOK(s)
      BY <1>0 DEF Valid, Extends
    <3>2. Distinct(t) /\ Distinct(e)
      BY <2>3, <2>5, <3>1, SameQueues DEF QueuesOK
    <3>3. AllKnown(t) /\ AllKnown(e)
      BY <2>3, <2>5, <3>1 DEF QueuesOK, AllKnown
    <3> QED
      BY <3>2, <3>3 DEF QueuesOK
  <2>7. Valid(p, t)
    <3>1. Extends(p, t) /\ KnownOK(p, t)
      BY <1>0, <2>3, <2>6 DEF Valid, Extends, KnownOK
    <3>2. BallotsOK(p, t)
      BY <1>0, <2>3 DEF Valid, BallotsOK
    <3>3. LeaderOK(p, t)
      BY <1>0, <1>2, <2>2, <2>3 DEF Valid, LeaderOK
    <3>4. CommitOK(p, t)
      BY <1>0, <2>3 DEF Valid, CommitOK
    <3> QED
      BY <3>1, <3>2, <3>3, <3>4 DEF Valid
  <2>8. ASSUME hasQuorum(t.votes) PROVE Valid(p, w)
    <3> DEFINE S == { q \in Peers \ {p} : Voted(q, p, s.term) }
    <3>1. t.votes \subseteq S /\ t.votes \subseteq Peers
      BY <2>3, <2>7 DEF Valid, LeaderOK, Object
    <3>2. Majority(S)
      BY <2>8, <3>1, QuorumIsMajority, MajorityMonotone
    <3>3. Elected(p, s.term)
      BY <3>2 DEF Elected
    <3>4. Valid(p, e)
      <4>1. Extends(p, e) /\ KnownOK(p, e)
        BY <1>0, <2>5, <2>6 DEF Valid, Extends, KnownOK
      <4>2. BallotsOK(p, e)
        BY <1>0, <2>5 DEF Valid, BallotsOK
      <4>3. LeaderOK(p, e)
        BY <1>0, <2>5, <3>3 DEF Valid, LeaderOK
      <4>4. CommitOK(p, e)
        BY <1>0, <2>5 DEF Valid, CommitOK
      <4> QED
        BY <4>1, <4>2, <4>3, <4>4 DEF Valid
    <3>5. Valid(p, u) /\ u \in Object
      BY <3>4, ResetValid DEF Valid, Extends
    <3> HIDE DEF u
    <3>6. Valid(p, v) /\ v \in Object
      <4>1. Grows(p, u, v)
        BY <3>5, TryForward
      <4> HIDE DEF v
      <4> QED
        BY <1>0, <3>5, <4>1, GrowsValid DEF Grows
    <3> HIDE DEF v
    <3>7. Grows(p, v, w)
      BY <3>6, TryStart
    <3> HIDE DEF w
    <3> QED
      BY <1>0, <3>6, <3>7, GrowsValid
  <2> HIDE DEF w
  <2> QED
    BY <2>4, <2>7, <2>8
<1> QED
  BY <1>1, <1>2

(* handleElect *)
LEMMA ElectValid ==
  ASSUME IndInv, NEW p \in Peers, NEW o \in Peers \ {p}, NEW m \in Inbox(p, o, "elect")
  PROVE  Valid(p, handleElect(o, raft[p], m))
<1> DEFINE s == raft[p]
           a == resetReplicationState(s, TRUE)
           b == [a EXCEPT !.term = m.term, !.leader = None, !.votes = {},
                          !.sent = @ \cup {Vote(o, m.term)}]
<1>0. raft \in [Peers -> Object] /\ s \in Object /\ Valid(p, s) /\ s.term \in Nat
  BY DEF IndInv, Object
<1>1. CASE ~NewTerm(s, m)
  BY <1>0, <1>1 DEF handleElect
<1>2. CASE NewTerm(s, m)
  <2>1. m \in raft[o].sent /\ m.type = "elect" /\ m \in Msg
    BY <1>0 DEF Inbox, Object
  <2>2. m.term \in Nat /\ m.term <= raft[o].term
    BY <2>1, MsgFields DEF IndInv, Valid, BallotsOK
  <2>3. handleElect(o, s, m) = b
    BY <1>2 DEF handleElect
  <2>4. Valid(p, a) /\ a.term = s.term
    BY <1>0, ResetValid, ResetReplication
  <2> HIDE DEF a
  <2>5. a.term < m.term /\ a.term <= m.term
    BY <1>0, <1>2, <2>2, <2>4 DEF NewTerm
  <2>6. /\ Vote(o, m.term) \in Msg /\ Vote(o, m.term).type = "vote"
        /\ Vote(o, m.term).to = {o} /\ Vote(o, m.term).term = m.term
    BY <2>2, Constructors
  <2>7. None # p
    BY RaftAssumption
  <2>8. Valid(p, b)
    <3> DEFINE B == {Vote(o, m.term)}
    <3>1. B \in SUBSET Msg
      BY <2>6
    <3>2. \A x \in B : /\ a.term < m.term /\ x.term = m.term
                       /\ \/ x.type = "elect"
                          \/ /\ x.type = "vote"
                             /\ \E c \in Peers \ {p} : x.to = {c} /\ m.term <= raft[c].term
      BY <2>2, <2>5, <2>6
    <3>3. \A x, y \in B : x = y
      OBVIOUS
    <3> HIDE DEF B
    <3>4. Valid(p, [a EXCEPT !.term = m.term, !.leader = None, !.votes = {},
                             !.sent = @ \cup B])
      BY <1>0, <2>2, <2>4, <2>5, <2>7, <3>1, <3>2, <3>3, StepDownValid
    <3> QED
      BY <3>4 DEF B
  <2> QED
    BY <2>3, <2>8
<1> QED
  BY <1>1, <1>2

(* handleCommit *)
LEMMA CommitValid ==
  ASSUME IndInv, NEW p \in Peers, NEW o \in Peers \ {p}, NEW m \in Inbox(p, o, "commit")
  PROVE  Valid(p, handleCommit(raft[p], m))
<1> DEFINE s == raft[p]
           n == IF m.term > s.term THEN m.term ELSE s.term
           a == [s EXCEPT !.term = n]
           t == applyCommit(a, m.key)
<1>0. raft \in [Peers -> Object] /\ s \in Object /\ Valid(p, s) /\ s.term \in Nat
  BY DEF IndInv, Object
<1>1. m \in raft[o].sent /\ m.type = "commit" /\ m \in Msg
  BY <1>0 DEF Inbox, Object
<1>2. m.term \in Nat /\ m.key \in Key
  BY <1>1, MsgFields
<1>3. n \in Nat /\ s.term <= n
  BY <1>0, <1>2
<1>4. handleCommit(s, m) = t
  BY DEF handleCommit
<1> HIDE DEF n
<1>5. /\ a \in Object
      /\ a.term = n /\ a.leader = s.leader /\ a.votes = s.votes
      /\ a.committed = s.committed /\ a.nextId = s.nextId
      /\ a.sent = s.sent /\ a.known = s.known /\ a.inFlight = s.inFlight
      /\ a.replies = s.replies /\ a.deferred = s.deferred /\ a.pending = s.pending
  BY <1>0, <1>3 DEF Object
<1> HIDE DEF a
<1>6. QueuesOK(a)
  <2>1. QueuesOK(s)
    BY <1>0 DEF Valid, Extends
  <2>2. Distinct(a)
    BY <1>5, <2>1, SameQueues DEF QueuesOK
  <2>3. AllKnown(a)
    BY <1>5, <2>1 DEF QueuesOK, AllKnown
  <2> QED
    BY <2>2, <2>3 DEF QueuesOK
<1>7. /\ t \in Object
      /\ t.term = n /\ t.leader = s.leader /\ t.votes = s.votes
      /\ t.committed = s.committed \cup {m.key} /\ t.nextId = s.nextId
      /\ t.sent = s.sent /\ t.known = s.known /\ t.inFlight = s.inFlight
      /\ t.replies = {} \/ t.replies = s.replies
      /\ QueuesOK(t)
  BY <1>2, <1>5, <1>6, ApplyCommit
<1> HIDE DEF t
<1>8. Extends(p, t) /\ KnownOK(p, t)
  BY <1>0, <1>3, <1>7 DEF Valid, Extends, KnownOK
<1>9. BallotsOK(p, t)
  <2>1. \A x \in s.sent : x.type \in {"vote", "elect"} => x.term \in Nat /\ x.term <= s.term
    <3>1. s.sent \subseteq Msg
      BY <1>0 DEF Object
    <3> QED
      BY <1>0, <3>1, MsgFields DEF Valid, BallotsOK
  <2>2. \A x \in s.sent : x.type \in {"vote", "elect"} => x.term <= n
    BY <1>0, <1>3, <2>1
  <2> QED
    BY <1>0, <1>7, <2>2 DEF Valid, BallotsOK
<1>10. LeaderOK(p, t)
  <2>1. /\ \A q \in Peers : Voted(q, p, s.term) => Voted(q, p, n)
        /\ Elected(p, s.term) => Elected(p, n)
    BY <1>0, <1>3, ElectedMonotone
  <2>2. s.votes \subseteq Peers
    BY <1>0 DEF Object
  <2> QED
    BY <1>0, <1>7, <2>1, <2>2 DEF Valid, LeaderOK
<1>11. CommitOK(p, t)
  <2>1. \E l \in Peers \ {p} : CommitSent(raft[l].sent, m.key)
    BY <1>1 DEF CommitSent
  <2>2. \A x \in t.replies : x # p /\ t.inFlight \in raft[x].known
    BY <1>0, <1>7 DEF Valid, CommitOK
  <2> QED
    BY <1>0, <1>7, <2>1, <2>2 DEF Valid, CommitOK
<1>12. Valid(p, t)
  BY <1>8, <1>9, <1>10, <1>11 DEF Valid
<1> QED
  BY <1>4, <1>12

(* A forwarded request *)
LEMMA ForwardValid ==
  ASSUME IndInv, NEW p \in Peers, NEW o \in Peers \ {p}, NEW m \in Inbox(p, o, "Request")
  PROVE  Valid(p, onClientRequest(p, enqueueDeferred(raft[p], m.req)))
<1> DEFINE t == enqueueDeferred(raft[p], m.req)
           k == m.req.key
<1>0. raft \in [Peers -> Object] /\ Valid(p, raft[p])
  BY DEF IndInv
<1>1. m \in raft[o].sent /\ m.type = "Request" /\ m \in Msg
  BY <1>0 DEF Inbox, Object
<1>2. m.req \in Req
  BY <1>1, MsgFields
<1>3. k[2] < raft[k[1]].nextId
  <2>1. k \in raft[o].known
    BY <1>1 DEF IndInv, Valid, Extends, QueuesOK, AllKnown
  <2>2. k[2] < IF k[1] = o THEN raft[o].nextId ELSE raft[k[1]].nextId
    BY <2>1 DEF IndInv, Valid, KnownOK
  <2> QED
    BY <2>2
<1>4. k[2] < IF k[1] = p THEN raft[p].nextId ELSE raft[k[1]].nextId
  BY <1>3
<1>5. Valid(p, t)
  BY <1>0, <1>2, <1>4, EnqueueValid
<1> HIDE DEF t
<1>6. t \in Object
  BY <1>5 DEF Valid, Extends
<1>7. Grows(p, t, onClientRequest(p, t))
  BY <1>6, OnClientRequest
<1>8. Valid(p, onClientRequest(p, t))
  BY <1>0, <1>5, <1>7, GrowsValid
<1> QED
  BY <1>8 DEF t

(* tick *)
LEMMA TickValid ==
  ASSUME IndInv, NEW p \in Peers, NEW submits \in BOOLEAN, NEW expired \in BOOLEAN
  PROVE  Valid(p, tick(p, raft[p], submits, expired))
<1> DEFINE s == raft[p]
           a == submit(p, s)
           b == onClientRequest(p, a)
           t == IF submits THEN b ELSE s
           c == maybeStartElection(t)
           u == IF expired THEN c ELSE t
           v == tryForwardDeferredRequests(p, u)
<1>0. raft \in [Peers -> Object] /\ s \in Object /\ Valid(p, s)
  BY DEF IndInv
<1>1. tick(p, s, submits, expired) = v
  BY DEF tick
<1>2. Valid(p, b)
  <2>1. Grows(p, s, a)
    BY <1>0, Submit
  <2> HIDE DEF a
  <2>2. Valid(p, a) /\ a \in Object
    BY <1>0, <2>1, GrowsValid DEF Grows
  <2>3. Grows(p, a, b)
    BY <2>2, OnClientRequest
  <2> HIDE DEF b
  <2> QED
    BY <1>0, <2>2, <2>3, GrowsValid
<1> HIDE DEF b
<1>3. Valid(p, t)
  BY <1>0, <1>2
<1> HIDE DEF t
<1>4. Valid(p, c)
  <2> DEFINE r == resetReplicationState(t, TRUE)
             n == t.term + 1
             B == {Elect(n)}
  <2>1. t \in Object /\ t.term \in Nat
    BY <1>3 DEF Valid, Extends, Object
  <2>2. Valid(p, r) /\ r.term = t.term
    BY <1>3, <2>1, ResetValid, ResetReplication
  <2>3. c = [r EXCEPT !.leader = None, !.term = @ + 1, !.votes = {}, !.sent = @ \cup B]
    BY DEF maybeStartElection
  <2> HIDE DEF r
  <2>4. r \in Object
    BY <2>2 DEF Valid, Extends
  <2>5. c = [r EXCEPT !.term = n, !.leader = None, !.votes = {}, !.sent = @ \cup B]
    BY <2>2, <2>3, <2>4 DEF Object
  <2>6. n \in Nat /\ r.term < n /\ r.term <= n
    BY <2>1, <2>2
  <2>7. B \in SUBSET Msg /\ \A x \in B : x.type = "elect" /\ x.term = n
    BY <2>6, Constructors
  <2>8. \A x, y \in B : x = y
    OBVIOUS
  <2>9. None # p
    BY RaftAssumption
  <2> HIDE DEF B, n
  <2>10. Valid(p, [r EXCEPT !.term = n, !.leader = None, !.votes = {}, !.sent = @ \cup B])
    BY <1>0, <2>2, <2>6, <2>7, <2>8, <2>9, StepDownValid
  <2> HIDE DEF c
  <2> QED
    BY <2>5, <2>10
<1> HIDE DEF c
<1>5. Valid(p, u) /\ u \in Object
  BY <1>3, <1>4 DEF Valid, Extends
<1> HIDE DEF u
<1>6. Grows(p, u, v)
  BY <1>5, TryForward
<1> HIDE DEF v
<1> QED
  BY <1>0, <1>1, <1>5, <1>6, GrowsValid
-----------------------------------------------------------------------------
(* A valid object of one peer leaves those of the others valid.            *)
LEMMA BecomesValid ==
  ASSUME IndInv, NEW p \in Peers, NEW t, Valid(p, t),
         raft' = [raft EXCEPT ![p] = t]
  PROVE  IndInv'
<1> DEFINE NowVoted(o, q, n) ==
             \E v \in raft'[o].sent : v.type = "vote" /\ v.to = {q} /\ v.term <= n
<1>1. raft \in [Peers -> Object] /\ t \in Object
  BY DEF IndInv, Valid, Extends
<1>2. /\ raft' \in [Peers -> Object] /\ raft'[p] = t
      /\ \A q \in Peers \ {p} : raft'[q] = raft[q]
  BY <1>1
<1>3. \A q \in Peers :
        /\ raft[q].term <= raft'[q].term /\ raft[q].nextId <= raft'[q].nextId
        /\ raft[q].term \in Nat /\ raft'[q].term \in Nat
        /\ raft[q].nextId \in Nat /\ raft'[q].nextId \in Nat
        /\ raft[q].known \subseteq raft'[q].known /\ raft[q].sent \subseteq raft'[q].sent
        /\ raft'[q].sent \subseteq Msg /\ raft'[q].known \subseteq Key
  <2> SUFFICES ASSUME NEW q \in Peers
               PROVE  /\ raft[q].term <= raft'[q].term /\ raft[q].nextId <= raft'[q].nextId
                      /\ raft[q].term \in Nat /\ raft'[q].term \in Nat
                      /\ raft[q].nextId \in Nat /\ raft'[q].nextId \in Nat
                      /\ raft[q].known \subseteq raft'[q].known
                      /\ raft[q].sent \subseteq raft'[q].sent
                      /\ raft'[q].sent \subseteq Msg /\ raft'[q].known \subseteq Key
    OBVIOUS
  <2>1. /\ raft[q].term \in Nat /\ raft'[q].term \in Nat
        /\ raft[q].nextId \in Nat /\ raft'[q].nextId \in Nat
        /\ raft'[q].sent \subseteq Msg /\ raft'[q].known \subseteq Key
    BY <1>1, <1>2 DEF Object
  <2>2. CASE q = p
    BY <1>2, <2>1, <2>2 DEF Valid, Extends
  <2>3. CASE q # p
    BY <1>2, <2>1, <2>3
  <2> QED
    BY <2>2, <2>3
<1>4. \A o, q \in Peers : \A n : Voted(o, q, n) => NowVoted(o, q, n)
  BY <1>3 DEF Voted
<1>5. \A q \in Peers : \A n :
        Elected(q, n) => Majority({ o \in Peers \ {q} : NowVoted(o, q, n) })
  <2> SUFFICES ASSUME NEW q \in Peers, NEW n, Elected(q, n)
               PROVE  Majority({ o \in Peers \ {q} : NowVoted(o, q, n) })
    OBVIOUS
  <2>1. { o \in Peers \ {q} : Voted(o, q, n) } \subseteq { o \in Peers \ {q} : NowVoted(o, q, n) }
    BY <1>4
  <2> QED
    BY <2>1, MajorityMonotone DEF Elected
<1>6. \A q \in Peers : \A k :
        Remembered(q, k) => Majority({ o \in Peers \ {q} : k \in raft'[o].known })
  <2> SUFFICES ASSUME NEW q \in Peers, NEW k, Remembered(q, k)
               PROVE  Majority({ o \in Peers \ {q} : k \in raft'[o].known })
    OBVIOUS
  <2>1. { o \in Peers \ {q} : k \in raft[o].known }
          \subseteq { o \in Peers \ {q} : k \in raft'[o].known }
    BY <1>3
  <2> QED
    BY <2>1, MajorityMonotone DEF Remembered
<1>7. ASSUME NEW q \in Peers PROVE Valid(q, raft[q])'
  <2> DEFINE u == raft'[q]
             P == Peers \ {q}
  <2>1. /\ u \in Object /\ QueuesOK(u)
        /\ \A k \in u.known : k[2] < IF k[1] = q THEN u.nextId ELSE raft[k[1]].nextId
        /\ BallotsOK(q, u) /\ LeaderOK(q, u) /\ CommitOK(q, u)
    <3>1. Valid(q, u)
      <4>1. CASE q = p
        BY <1>2, <4>1
      <4>2. CASE q # p
        BY <1>2, <4>2 DEF IndInv
      <4> QED
        BY <4>1, <4>2
    <3> QED
      BY <3>1 DEF Valid, Extends, KnownOK
  <2>2. Extends(q, raft[q])'
    BY <1>3, <2>1 DEF Extends
  <2>3. KnownOK(q, raft[q])'
    <3> SUFFICES ASSUME NEW k \in u.known
                 PROVE  k[2] < IF k[1] = q THEN u.nextId ELSE raft'[k[1]].nextId
      BY DEF KnownOK
    <3>1. k[1] \in Peers /\ k[2] \in Nat
      BY <1>3 DEF Key
    <3> QED
      BY <1>3, <2>1, <3>1
  <2>4. BallotsOK(q, raft[q])'
    <3>1. ASSUME NEW m \in u.sent, m.type = "vote"
          PROVE  \E c \in P : m.to = {c} /\ m.term <= raft'[c].term
      <4>1. PICK c \in P : m.to = {c} /\ m.term <= raft[c].term
        BY <2>1, <3>1 DEF BallotsOK
      <4>2. m.term \in Nat
        <5>1. m \in Msg
          BY <1>3
        <5> QED
          BY <3>1, <5>1, MsgFields
      <4>3. m.term <= raft'[c].term
        BY <1>3, <4>1, <4>2
      <4> QED
        BY <4>1, <4>3
    <3> QED
      BY <2>1, <3>1 DEF BallotsOK
  <2>5. LeaderOK(q, raft[q])'
    <3> HIDE DEF NowVoted
    <3>1. \A o \in u.votes : o # q /\ NowVoted(o, q, u.term)
      <4>1. u.votes \subseteq Peers
        BY <2>1 DEF Object
      <4>2. \A o \in u.votes : o # q /\ Voted(o, q, u.term)
        BY <2>1 DEF LeaderOK
      <4> QED
        BY <1>4, <4>1, <4>2
    <3>2. u.leader = q /\ q # FirstLeader =>
            Majority({ o \in Peers \ {q} : NowVoted(o, q, u.term) })
      BY <1>5, <2>1 DEF LeaderOK
    <3>3. \A m \in u.sent : m.type = "request" /\ q # FirstLeader =>
            Majority({ o \in Peers \ {q} : NowVoted(o, q, m.term) })
      BY <1>5, <2>1 DEF LeaderOK
    <3> QED
      BY <3>1, <3>2, <3>3 DEF LeaderOK, Elected, Voted, NowVoted, Majority
  <2>6. CommitOK(q, raft[q])'
    <3>1. \A o \in u.replies : o # q /\ u.inFlight \in raft'[o].known
      <4>1. u.replies \subseteq Peers
        BY <2>1 DEF Object
      <4> QED
        BY <1>3, <2>1, <4>1 DEF CommitOK
    <3>2. \A m \in u.sent : m.type = "commit" =>
            Majority({ o \in Peers \ {q} : m.key \in raft'[o].known })
      BY <1>6, <2>1 DEF CommitOK
    <3>3. \A k \in u.committed :
            CommitSent(u.sent, k) \/ \E l \in P : CommitSent(raft'[l].sent, k)
      BY <1>3, <2>1 DEF CommitOK, CommitSent
    <3> QED
      BY <3>1, <3>2, <3>3 DEF CommitOK, CommitSent, Remembered, Majority
  <2> QED
    BY <2>2, <2>3, <2>4, <2>5, <2>6 DEF Valid
<1> QED
  BY <1>2, <1>7 DEF IndInv

(* The peers start with empty queues and no votes. *)
LEMMA InitIndInv == Init => IndInv
<1> SUFFICES ASSUME Init PROVE IndInv
  OBVIOUS
<1>1. raft \in [Peers -> Object]
  <2>1. <<>> \in Seq(Req) /\ <<>> \in Seq(Key)
    OBVIOUS
  <2> QED
    BY <2>1, RaftAssumption DEF Init, Object
<1>2. ASSUME NEW p \in Peers PROVE Valid(p, raft[p])
  <2>1. /\ raft[p].votes = {} /\ raft[p].known = {} /\ raft[p].committed = {}
        /\ raft[p].deferred = <<>> /\ raft[p].pending = <<>> /\ raft[p].inFlight = None
        /\ raft[p].replies = {} /\ raft[p].sent = {} /\ raft[p].leader = FirstLeader
        /\ raft[p].term = 0 /\ raft[p].nextId = 0
    BY DEF Init
  <2>2. Len(raft[p].deferred) = 0 /\ Len(raft[p].pending) = 0
    BY <2>1
  <2>3. QueuesOK(raft[p])
    BY <2>1, <2>2 DEF QueuesOK, Distinct, AllKnown
  <2>4. Extends(p, raft[p])
    BY <1>1, <2>1, <2>3 DEF Extends
  <2>5. KnownOK(p, raft[p]) /\ BallotsOK(p, raft[p]) /\ CommitOK(p, raft[p])
    BY <2>1 DEF KnownOK, BallotsOK, CommitOK
  <2>6. LeaderOK(p, raft[p])
    BY <2>1 DEF LeaderOK
  <2> QED
    BY <2>4, <2>5, <2>6 DEF Valid
<1> QED
  BY <1>1, <1>2 DEF IndInv

(* Every step of the system keeps the inductive invariant. *)
LEMMA StepIndInv == IndInv /\ [Next]_vars => IndInv'
<1> SUFFICES ASSUME IndInv, [Next]_vars PROVE IndInv'
  OBVIOUS
<1>1. CASE UNCHANGED vars
  <2> DEFINE p == FirstLeader
  <2>1. p \in Peers
    BY RaftAssumption
  <2>2. raft' = [raft EXCEPT ![p] = raft[p]] /\ Valid(p, raft[p])
    BY <1>1, <2>1 DEF vars, IndInv
  <2> QED
    BY <2>1, <2>2, BecomesValid
<1>2. CASE Next
  <2>1. PICK p \in Peers : \/ Tick(p)
                           \/ \E o \in Peers \ {p} :
                                \/ ReceiveRequest(p, o) \/ ReceiveRespond(p, o)
                                \/ ReceiveVote(p, o) \/ ReceiveElect(p, o)
                                \/ ReceiveCommit(p, o) \/ ReceiveForward(p, o)
    BY <1>2 DEF Next
  <2>2. CASE Tick(p)
    BY <2>2, TickValid, BecomesValid DEF Tick, Becomes
  <2>3. ASSUME NEW o \in Peers \ {p}, ReceiveRequest(p, o) PROVE IndInv'
    BY <2>3, RequestValid, BecomesValid DEF ReceiveRequest, Becomes
  <2>4. ASSUME NEW o \in Peers \ {p}, ReceiveRespond(p, o) PROVE IndInv'
    BY <2>4, RespondValid, BecomesValid DEF ReceiveRespond, Becomes
  <2>5. ASSUME NEW o \in Peers \ {p}, ReceiveVote(p, o) PROVE IndInv'
    BY <2>5, VoteValid, BecomesValid DEF ReceiveVote, Becomes
  <2>6. ASSUME NEW o \in Peers \ {p}, ReceiveElect(p, o) PROVE IndInv'
    BY <2>6, ElectValid, BecomesValid DEF ReceiveElect, Becomes
  <2>7. ASSUME NEW o \in Peers \ {p}, ReceiveCommit(p, o) PROVE IndInv'
    BY <2>7, CommitValid, BecomesValid DEF ReceiveCommit, Becomes
  <2>8. ASSUME NEW o \in Peers \ {p}, ReceiveForward(p, o) PROVE IndInv'
    BY <2>8, ForwardValid, BecomesValid DEF ReceiveForward, Becomes
  <2> QED
    BY <2>1, <2>2, <2>3, <2>4, <2>5, <2>6, <2>7, <2>8
<1> QED
  BY <1>1, <1>2

(* The inductive invariant holds in every reachable state.                 *)
THEOREM InvariantTheorem == Spec => []IndInv
  BY InitIndInv, StepIndInv, PTL DEF Spec

(* handleElect and maybeStartElection: a peer supports one candidate in a  *)
(* term, whatever the channels do to the messages.                         *)
THEOREM OneVoteTheorem == Spec => []OneVotePerTerm
<1>1. IndInv => OneVotePerTerm
  BY DEF IndInv, Valid, BallotsOK, OneVotePerTerm
<1> QED
  BY <1>1, InvariantTheorem, PTL

(* handleVote counts votes without looking at their term, and still a peer *)
(* other than the first leader replicates requests in a term only after a  *)
(* majority has voted for it in this term or before.                       *)
THEOREM ElectionTheorem == Spec => []LeadersAreElected
<1>1. IndInv => LeadersAreElected
  BY DEF IndInv, Valid, LeaderOK, LeadersAreElected, Elected, Voted
<1> QED
  BY <1>1, InvariantTheorem, PTL

(* handleRespond, confirmRequest and handleCommit: what a peer treats as   *)
(* committed is known to a majority of the members other than the one that *)
(* committed it.                                                           *)
THEOREM CommitTheorem == Spec => []CommittedByMajority
<1>1. IndInv => CommittedByMajority
  <2> SUFFICES ASSUME IndInv, NEW p \in Peers, NEW k \in raft[p].committed
               PROVE  \E l \in Peers :
                        /\ \E m \in raft[l].sent : m.type = "commit" /\ m.key = k
                        /\ Majority({ o \in Peers \ {l} : k \in raft[o].known })
    BY DEF CommittedByMajority
  <2>1. PICK l \in Peers : CommitSent(raft[l].sent, k)
    BY DEF IndInv, Valid, CommitOK
  <2>2. Remembered(l, k)
    BY <2>1 DEF IndInv, Valid, CommitOK, CommitSent
  <2> QED
    BY <2>1, <2>2 DEF CommitSent, Remembered
<1> QED
  BY <1>1, InvariantTheorem, PTL

(* enqueueDeferred and the moves between the queues: every request a peer  *)
(* knows was submitted, and it is queued there at most once.               *)
THEOREM QueuedOnceTheorem == Spec => []QueuedOnce
<1>1. IndInv => QueuedOnce
  <2> SUFFICES ASSUME IndInv, NEW p \in Peers
               PROVE  /\ \A k \in raft[p].known : k[2] < raft[k[1]].nextId
                      /\ Distinct(raft[p])
    BY DEF QueuedOnce, Distinct
  <2>1. Distinct(raft[p])
    BY DEF IndInv, Valid, Extends, QueuesOK
  <2>2. \A k \in raft[p].known : k[2] < raft[k[1]].nextId
    BY DEF IndInv, Valid, KnownOK
  <2> QED
    BY <2>1, <2>2
<1> QED
  BY <1>1, InvariantTheorem, PTL
=============================================================================
