------------------------- MODULE TcpCoordinatorProofs -------------------------
(***************************************************************************)
(* Proofs about TcpCoordinator, for every set of scenarios: any number of  *)
(* processes, of peers, of experiments, of messages and of restarts.       *)
(***************************************************************************)
EXTENDS TcpCoordinator, SequenceTheorems, FiniteSetTheorems,
        WellFoundedInduction, TLAPS

(***************************************************************************)
(* The division of the ids.                                                *)
(***************************************************************************)
(* A set of numbers that is not empty has a least one. *)
LEMMA LeastNatural ==
  ASSUME NEW T \in SUBSET Nat, T # {}
  PROVE  \E x \in T : \A y \in T : x <= y
<1> DEFINE R == {ss \in Nat \X Nat : ss[1] < ss[2]}
<1>1. IsWellFoundedOn(R, Nat)
  BY NatLessThanWellFounded DEF OpToRel
<1>2. PICK x \in T : \A y \in T : ~ (<<y, x>> \in R)
  <2> HIDE DEF R
  <2> QED BY <1>1, WFMin
<1>3. ASSUME NEW y \in T PROVE x <= y
  <2>1. x \in Nat /\ y \in Nat
    OBVIOUS
  <2>2. <<y, x>> \notin R
    BY <1>2
  <2>3. <<y, x>> \in Nat \X Nat /\ <<y, x>>[1] = y /\ <<y, x>>[2] = x
    BY <2>1
  <2>4. ~ (y < x)
    BY <2>2, <2>3
  <2> QED
    BY <2>1, <2>4
<1> QED
  BY <1>3

(* f adds up the first numbers of r. *)
RunningSum(f, r, n) ==
  /\ f \in [0 .. n -> Nat]
  /\ f[0] = 0
  /\ \A i \in 1 .. n : f[i] = f[i - 1] + r[i]

(* Running sums exist: the least length without one would be a successor.  *)
LEMMA RunningSumExists ==
  ASSUME NEW n \in Nat, NEW r \in [1 .. n -> Nat]
  PROVE  \E f : RunningSum(f, r, n)
<1> DEFINE Bad == { k \in 0 .. n : ~ \E f : RunningSum(f, r, k) }
<1>0. n \in 0 .. n
  OBVIOUS
<1> SUFFICES ASSUME Bad # {} PROVE FALSE
  BY <1>0
<1>1. PICK k \in Bad : \A j \in Bad : k <= j
  <2>1. Bad \in SUBSET Nat
    OBVIOUS
  <2> HIDE DEF Bad
  <2> QED BY <2>1, LeastNatural
<1>2. k # 0
  <2>1. RunningSum([i \in 0 .. 0 |-> 0], r, 0)
    BY DEF RunningSum
  <2> QED BY <2>1, <1>1
<1>3. PICK f : RunningSum(f, r, k - 1)
  BY <1>1, <1>2
<1>4. RunningSum([i \in 0 .. k |-> IF i = k THEN f[k - 1] + r[k] ELSE f[i]], r, k)
  <2> DEFINE g == [i \in 0 .. k |-> IF i = k THEN f[k - 1] + r[k] ELSE f[i]]
  <2>1. k \in 1 .. n /\ r[k] \in Nat /\ k - 1 \in 0 .. k - 1
    BY <1>1, <1>2
  <2>2. /\ f \in [0 .. k - 1 -> Nat] /\ f[0] = 0
        /\ \A i \in 1 .. k - 1 : f[i] = f[i - 1] + r[i]
    BY <1>3 DEF RunningSum
  <2>3. f[k - 1] + r[k] \in Nat
    BY <2>1, <2>2
  <2>4. g \in [0 .. k -> Nat]
    BY <2>1, <2>2, <2>3
  <2>5. g[0] = 0
    BY <2>1, <2>2
  <2>6. ASSUME NEW i \in 1 .. k PROVE g[i] = g[i - 1] + r[i]
    <3>1. CASE i = k
      BY <3>1, <2>1
    <3>2. CASE i # k
      <4>1. i \in 1 .. k - 1 /\ i - 1 \in 0 .. k /\ i - 1 # k /\ i \in 0 .. k
        BY <3>2, <2>1
      <4> QED BY <4>1, <2>2, <3>2
    <3> QED BY <3>1, <3>2
  <2> QED
    BY <2>4, <2>5, <2>6 DEF RunningSum
<1> QED
  BY <1>4, <1>1

(* Two running sums of the same numbers agree as far as both go. *)
LEMMA RunningSumUnique ==
  ASSUME NEW n \in Nat, NEW k \in Nat, n <= k, NEW r, NEW s, NEW f, NEW g,
         RunningSum(f, r, n), RunningSum(g, s, k),
         \A i \in 1 .. n : r[i] = s[i]
  PROVE  \A i \in 0 .. n : f[i] = g[i]
<1> DEFINE Bad == { i \in 0 .. n : f[i] # g[i] }
<1> SUFFICES ASSUME Bad # {} PROVE FALSE
  OBVIOUS
<1>1. PICK i \in Bad : \A j \in Bad : i <= j
  <2>1. Bad \in SUBSET Nat
    OBVIOUS
  <2> HIDE DEF Bad
  <2> QED BY <2>1, LeastNatural
<1>2. i \in 1 .. n
  BY DEF RunningSum
<1>3. f[i - 1] = g[i - 1]
  BY <1>1, <1>2
<1>4. f[i] = f[i - 1] + r[i] /\ g[i] = g[i - 1] + s[i] /\ r[i] = s[i]
  BY <1>2 DEF RunningSum
<1> QED
  BY <1>1, <1>3, <1>4

(* A running sum of positive numbers grows. *)
LEMMA RunningSumGrows ==
  ASSUME NEW n \in Nat, NEW r, NEW f, RunningSum(f, r, n),
         \A i \in 1 .. n : r[i] \in Nat \ {0}
  PROVE  \A i \in 0 .. n : \A j \in 0 .. i : f[j] <= f[i]
<1> DEFINE Bad == { i \in 0 .. n : \E j \in 0 .. i : ~ (f[j] <= f[i]) }
<1> SUFFICES ASSUME Bad # {} PROVE FALSE
  OBVIOUS
<1>1. PICK i \in Bad : \A k \in Bad : i <= k
  <2>1. Bad \in SUBSET Nat
    OBVIOUS
  <2> HIDE DEF Bad
  <2> QED BY <2>1, LeastNatural
<1>2. PICK j \in 0 .. i : ~ (f[j] <= f[i])
  BY <1>1
<1>3. i \in 0 .. n /\ f[i] \in Nat /\ f[j] \in Nat
  BY DEF RunningSum
<1>4. i # j
  BY <1>2, <1>3
<1>5. i - 1 \in 0 .. n /\ j \in 0 .. i - 1 /\ i \in 1 .. n
  BY <1>3, <1>4
<1>6. i - 1 \notin Bad
  BY <1>1, <1>5, <1>3
<1>7. f[j] <= f[i - 1]
  BY <1>6, <1>5
<1>8. f[i] = f[i - 1] + r[i] /\ r[i] \in Nat /\ f[i - 1] \in Nat
  BY <1>5 DEF RunningSum
<1> QED
  BY <1>2, <1>3, <1>7, <1>8

(* What nextId stands for: the sum of what the processes asked for. *)
LEMMA NextIdSums ==
  ASSUME scenario \in Scenarios, NEW o \in Seq(Procs)
  PROVE  /\ RunningSum(nextId(o), [i \in 1 .. Len(o) |-> scenario.requested[o[i]]], Len(o))
         /\ \A i \in 1 .. Len(o) : scenario.requested[o[i]] \in Nat \ {0}
<1> DEFINE r == [i \in 1 .. Len(o) |-> scenario.requested[o[i]]]
<1>1. scenario.requested \in Seq(Nat \ {0})
  BY TcpAssumption
<1>2. \A i \in 1 .. Len(o) : scenario.requested[o[i]] \in Nat \ {0}
  BY <1>1 DEF Procs
<1>3. Len(o) \in Nat /\ r \in [1 .. Len(o) -> Nat]
  BY <1>2
<1>4. PICK f : RunningSum(f, r, Len(o))
  <2> HIDE DEF r
  <2> QED BY <1>3, RunningSumExists
<1>5. f = [i \in 0 .. Len(o) |->
             IF i = 0 THEN 0 ELSE f[i - 1] + scenario.requested[o[i]]]
  <2>1. /\ f \in [0 .. Len(o) -> Nat] /\ f[0] = 0
        /\ \A i \in 1 .. Len(o) : f[i] = f[i - 1] + scenario.requested[o[i]]
    BY <1>3, <1>4 DEF RunningSum
  <2> QED BY <2>1, <1>3
<1>6. nextId(o) = [i \in 0 .. Len(o) |->
                     IF i = 0 THEN 0 ELSE nextId(o)[i - 1] + scenario.requested[o[i]]]
  BY <1>5 DEF nextId
<1> DEFINE g == nextId(o)
<1> HIDE DEF g
<1>7. /\ g = [i \in 0 .. Len(o) |-> IF i = 0 THEN 0 ELSE g[i - 1] + r[i]]
  BY <1>6, <1>3 DEF g
<1> HIDE DEF r
<1>8. \A i \in 0 .. Len(o) : g[i] = f[i]
  <2> DEFINE Bad == { i \in 0 .. Len(o) : g[i] # f[i] }
  <2> SUFFICES ASSUME Bad # {} PROVE FALSE
    OBVIOUS
  <2>1. PICK i \in Bad : \A j \in Bad : i <= j
    <3>1. Bad \in SUBSET Nat
      BY <1>3
    <3> HIDE DEF Bad
    <3> QED BY <3>1, LeastNatural
  <2>2. i \in 0 .. Len(o) /\ i \in Nat
    BY <1>3
  <2>3. g[i] = IF i = 0 THEN 0 ELSE g[i - 1] + r[i]
    BY <1>7, <2>2, <1>3
  <2>4. i # 0
    BY <2>3, <2>2, <1>4, <2>1 DEF RunningSum
  <2>5. i \in 1 .. Len(o) /\ i - 1 \in 0 .. Len(o) /\ i - 1 < i
    BY <2>2, <2>4, <1>3
  <2>6. g[i - 1] = f[i - 1]
    BY <2>1, <2>5, <2>2
  <2>7. f[i] = f[i - 1] + r[i]
    BY <1>4, <2>5 DEF RunningSum
  <2> QED
    BY <2>3, <2>4, <2>6, <2>7, <2>1
<1>9. g = f
  BY <1>7, <1>8, <1>4, <1>3 DEF RunningSum
<1> QED
  BY <1>9, <1>4, <1>2 DEF g, r

(* nextId starts at 0 and grows with every process. *)
LEMMA NextIdGrows ==
  ASSUME scenario \in Scenarios, NEW o \in Seq(Procs)
  PROVE  /\ nextId(o) \in [0 .. Len(o) -> Nat]
         /\ nextId(o)[0] = 0
         /\ \A i \in 1 .. Len(o) : nextId(o)[i - 1] < nextId(o)[i]
         /\ \A i \in 0 .. Len(o) : \A j \in 0 .. i : nextId(o)[j] <= nextId(o)[i]
         /\ Requested(o) \in Nat
<1> DEFINE r == [i \in 1 .. Len(o) |-> scenario.requested[o[i]]]
<1>1. Len(o) \in Nat
  OBVIOUS
<1>2. RunningSum(nextId(o), r, Len(o)) /\ \A i \in 1 .. Len(o) : r[i] \in Nat \ {0}
  BY NextIdSums
<1> HIDE DEF r
<1>3. \A i \in 0 .. Len(o) : \A j \in 0 .. i : nextId(o)[j] <= nextId(o)[i]
  BY <1>1, <1>2, RunningSumGrows
<1>4. nextId(o) \in [0 .. Len(o) -> Nat] /\ nextId(o)[0] = 0
  BY <1>2 DEF RunningSum
<1>5. ASSUME NEW i \in 1 .. Len(o) PROVE nextId(o)[i - 1] < nextId(o)[i]
  <2>1. nextId(o)[i] = nextId(o)[i - 1] + r[i] /\ r[i] \in Nat \ {0}
    BY <1>2 DEF RunningSum
  <2>2. nextId(o)[i - 1] \in Nat
    BY <1>4, <1>1
  <2> QED BY <2>1, <2>2
<1> QED
  BY <1>1, <1>3, <1>4, <1>5 DEF Requested

(* One more registration changes nothing for those before it. *)
LEMMA NextIdAppend ==
  ASSUME scenario \in Scenarios, NEW o \in Seq(Procs), NEW q \in Procs
  PROVE  \A i \in 0 .. Len(o) : nextId(Append(o, q))[i] = nextId(o)[i]
<1> DEFINE u == Append(o, q)
           r == [i \in 1 .. Len(o) |-> scenario.requested[o[i]]]
           s == [i \in 1 .. Len(u) |-> scenario.requested[u[i]]]
<1>1. u \in Seq(Procs) /\ Len(o) \in Nat /\ Len(u) = Len(o) + 1
      /\ \A i \in 1 .. Len(o) : u[i] = o[i]
  OBVIOUS
<1>2. RunningSum(nextId(o), r, Len(o))
  BY NextIdSums
<1>3. RunningSum(nextId(u), s, Len(u))
  BY <1>1, NextIdSums
<1>4. \A i \in 1 .. Len(o) : r[i] = s[i]
  BY <1>1
<1>5. Len(u) \in Nat /\ Len(o) <= Len(u)
  BY <1>1
<1> HIDE DEF r, s, u
<1>6. \A i \in 0 .. Len(o) : nextId(o)[i] = nextId(u)[i]
  BY <1>1, <1>2, <1>3, <1>4, <1>5, RunningSumUnique
<1> QED
  BY <1>6 DEF u

(* No id is given to two processes. *)
LEMMA AssignedOnce ==
  ASSUME scenario \in Scenarios, NEW o \in Seq(Procs), NEW p, NEW q,
         NEW id \in Assigned(o, p), id \in Assigned(o, q)
  PROVE  p = q
<1>1. PICK i \in 1 .. Len(o) : o[i] = p /\ nextId(o)[i - 1] <= id /\ id < nextId(o)[i]
  BY DEF Assigned
<1>2. PICK j \in 1 .. Len(o) : o[j] = q /\ nextId(o)[j - 1] <= id /\ id < nextId(o)[j]
  BY DEF Assigned
<1>3. id \in Nat /\ Len(o) \in Nat
  <2>1. scenario.total \in Nat
    BY TcpAssumption
  <2> QED BY <2>1 DEF Assigned, Ids
<1>4. \A k \in 0 .. Len(o) : nextId(o)[k] \in Nat
  BY NextIdGrows
<1>5. ASSUME NEW k \in 1 .. Len(o), NEW h \in 1 .. Len(o), k < h,
             id < nextId(o)[k], nextId(o)[h - 1] <= id
      PROVE  FALSE
  <2>1. k \in 0 .. h - 1 /\ h - 1 \in 0 .. Len(o) /\ k \in 0 .. Len(o)
    BY <1>5, <1>3
  <2>2. nextId(o)[k] <= nextId(o)[h - 1]
    BY <2>1, NextIdGrows
  <2>3. nextId(o)[k] \in Nat /\ nextId(o)[h - 1] \in Nat
    BY <2>1, <1>4
  <2> QED BY <1>5, <2>2, <2>3, <1>3
<1>6. ~ (i < j) /\ ~ (j < i)
  BY <1>1, <1>2, <1>5
<1>7. i = j
  BY <1>6, <1>3
<1> QED
  BY <1>1, <1>2, <1>7

(* Once enough peers are requested, every id is given to somebody. *)
LEMMA AssignedAll ==
  ASSUME scenario \in Scenarios, NEW o \in Seq(Procs),
         Requested(o) >= scenario.total, NEW id \in Ids
  PROVE  \E q \in ToSet(o) : id \in Assigned(o, q)
<1>1. scenario.total \in Nat /\ id \in Nat /\ id < scenario.total /\ Len(o) \in Nat
  <2>1. scenario.total \in Nat
    BY TcpAssumption
  <2> QED BY <2>1 DEF Ids
<1>2. \A k \in 0 .. Len(o) : nextId(o)[k] \in Nat
  BY NextIdGrows
<1> DEFINE Above == { k \in 0 .. Len(o) : id < nextId(o)[k] }
<1>3. Len(o) \in Above
  <2>1. Len(o) \in 0 .. Len(o)
    BY <1>1
  <2>2. nextId(o)[Len(o)] \in Nat /\ nextId(o)[Len(o)] >= scenario.total
    BY <2>1, <1>2 DEF Requested
  <2> QED BY <2>1, <2>2, <1>1
<1>4. PICK i \in Above : \A j \in Above : i <= j
  <2>1. Above \in SUBSET Nat /\ Above # {}
    BY <1>3, <1>1
  <2> HIDE DEF Above
  <2> QED BY <2>1, LeastNatural
<1>5. i # 0
  <2>1. nextId(o)[0] = 0
    BY NextIdGrows
  <2> QED BY <2>1, <1>1, <1>4
<1>6. i \in 1 .. Len(o) /\ i - 1 \in 0 .. Len(o) /\ i - 1 \notin Above
  BY <1>4, <1>5, <1>1
<1>7. nextId(o)[i - 1] <= id
  BY <1>6, <1>2, <1>1
<1>8. o[i] \in ToSet(o) /\ id \in Assigned(o, o[i])
  BY <1>4, <1>6, <1>7 DEF ToSet, Assigned
<1> QED
  BY <1>8

(* The ids of p *)
Share(r, p) == { id \in DOMAIN r : r[id] = p }

(* The table of hosts names registered processes, and gives every process  *)
(* the ids assigned to it.                                                 *)
LEMMA RangesOfOrder ==
  ASSUME scenario \in Scenarios, NEW o \in Seq(Procs),
         Requested(o) >= scenario.total
  PROVE  /\ peerRanges(o) \in [Ids -> ToSet(o)]
         /\ \A p : Assigned(o, p) = Share(peerRanges(o), p)
<1>1. ASSUME NEW id \in Ids
      PROVE  peerRanges(o)[id] \in ToSet(o) /\ id \in Assigned(o, peerRanges(o)[id])
  <2>1. \E q \in ToSet(o) : id \in Assigned(o, q)
    BY AssignedAll
  <2>2. peerRanges(o)[id] = CHOOSE q \in ToSet(o) : id \in Assigned(o, q)
    BY DEF peerRanges
  <2> QED BY <2>1, <2>2
<1>2. DOMAIN peerRanges(o) = Ids
  BY DEF peerRanges
<1>3. peerRanges(o) \in [Ids -> ToSet(o)]
  BY <1>1 DEF peerRanges
<1>4. ASSUME NEW p PROVE Assigned(o, p) = Share(peerRanges(o), p)
  <2>1. ASSUME NEW id \in Assigned(o, p) PROVE id \in Share(peerRanges(o), p)
    <3>1. id \in Ids
      BY DEF Assigned
    <3>2. peerRanges(o)[id] = p
      BY <3>1, <1>1, AssignedOnce
    <3> QED BY <3>1, <3>2, <1>2 DEF Share
  <2>2. ASSUME NEW id \in Share(peerRanges(o), p) PROVE id \in Assigned(o, p)
    BY <1>1, <1>2 DEF Share
  <2> QED BY <2>1, <2>2
<1> QED
  BY <1>3, <1>4

(* A process that registers when all ids are given changes nothing. *)
LEMMA LateRegistration ==
  ASSUME scenario \in Scenarios, NEW o \in Seq(Procs), NEW q \in Procs,
         Requested(o) >= scenario.total
  PROVE  /\ Requested(Append(o, q)) >= scenario.total
         /\ peerRanges(Append(o, q)) = peerRanges(o)
<1> DEFINE u == Append(o, q)
<1>1. u \in Seq(Procs) /\ Len(o) \in Nat /\ Len(u) = Len(o) + 1
      /\ \A i \in 1 .. Len(o) : u[i] = o[i]
  OBVIOUS
<1>2. \A i \in 0 .. Len(o) : nextId(u)[i] = nextId(o)[i]
  BY NextIdAppend
<1>3. scenario.total \in Nat
  BY TcpAssumption
<1> HIDE DEF u
<1>4. Requested(u) >= scenario.total
  <2>1. Len(o) \in 0 .. Len(o) + 1 /\ Len(u) \in 0 .. Len(u) /\ Len(o) \in 0 .. Len(o)
    BY <1>1
  <2>2. nextId(u)[Len(o)] <= nextId(u)[Len(u)]
    BY <2>1, <1>1, NextIdGrows
  <2>3. nextId(u)[Len(o)] >= scenario.total
    BY <1>2, <2>1 DEF Requested
  <2>4. nextId(u)[Len(o)] \in Nat /\ nextId(u)[Len(u)] \in Nat
    BY <2>1, <1>1, NextIdGrows
  <2> QED BY <2>2, <2>3, <2>4, <1>3 DEF Requested
<1>5. ASSUME NEW id \in Ids PROVE peerRanges(u)[id] = peerRanges(o)[id]
  <2>1. PICK p \in ToSet(o) : id \in Assigned(o, p)
    BY AssignedAll
  <2>2. id \in Assigned(u, p)
    <3>1. PICK i \in 1 .. Len(o) : o[i] = p /\ nextId(o)[i - 1] <= id /\ id < nextId(o)[i]
      BY <2>1 DEF Assigned
    <3>2. i \in 1 .. Len(u) /\ i \in 0 .. Len(o) /\ i - 1 \in 0 .. Len(o)
      BY <1>1
    <3> QED BY <3>1, <3>2, <1>1, <1>2 DEF Assigned
  <2>3. id \in Share(peerRanges(o), p) /\ id \in Share(peerRanges(u), p)
    BY <2>1, <2>2, <1>1, <1>4, RangesOfOrder
  <2> QED BY <2>3 DEF Share
<1>6. peerRanges(u) = [id \in Ids |-> peerRanges(u)[id]]
      /\ peerRanges(o) = [id \in Ids |-> peerRanges(o)[id]]
  BY DEF peerRanges
<1>7. peerRanges(u) = peerRanges(o)
  BY <1>5, <1>6
<1> QED
  BY <1>4, <1>7 DEF u

(* The process that registers first gets at least one id. *)
LEMMA FirstIsServed ==
  ASSUME scenario \in Scenarios, NEW o \in Seq(Procs), o # <<>>
  PROVE  0 \in Assigned(o, o[1])
<1>1. scenario.total \in Nat \ {0} /\ Len(o) \in Nat /\ 1 \in 1 .. Len(o)
  BY TcpAssumption
<1>2. 0 \in Ids
  BY <1>1 DEF Ids
<1>3. nextId(o)[1 - 1] < nextId(o)[1] /\ nextId(o)[0] = 0
  BY <1>1, NextIdGrows
<1> QED
  BY <1>1, <1>2, <1>3 DEF Assigned

(***************************************************************************)
(* The inductive invariant.                                                *)
(***************************************************************************)
Phase == {"idle", "configured", "built", "waiting", "running", "joining", "exited"}
Hosting == {"built", "waiting", "running"}

ProcState ==
  [exp : 0 .. scenario.experiments, phase : Phase, up : BOOLEAN,
   assignmentsReady : BOOLEAN, start : BOOLEAN, stop : BOOLEAN,
   local : SUBSET Ids, allPeers : SUBSET Ids, ranges : {<<>>} \cup [Ids -> Procs],
   interfaces : SUBSET Ids, inbound : SUBSET Message, sent : Nat]

LeadState ==
  [order : Seq(Procs), assigned : [Procs -> SUBSET Ids], ready : SUBSET Procs,
   completed : SUBSET Ids,
   starters : [Starters -> [at : {"none", "gate", "loop", "timer"}, left : Seq(Procs)]],
   active : BOOLEAN, timer : {"off", "sleeping", "ended"}, timerExp : Nat,
   stopping : SUBSET {"main", "handler", "timer"}]

HistState ==
  [missed : SUBSET (Procs \X Nat), finished : SUBSET (Nat \X Ids), elapsed : SUBSET Nat,
   restarted : SUBSET Procs, surplus : SUBSET Procs, late : SUBSET Nat,
   cut : BOOLEAN]

Types ==
  /\ scenario \in Scenarios
  /\ proc \in [Procs -> ProcState]
  /\ lead \in LeadState
  /\ chan \in [Procs \X Procs -> Seq(Message)]
  /\ hist \in HistState

(* What is on its way from q to p *)
Wire(q, p) == ToSet(chan[<<q, p>>])

(* The leader has distributed the ids of its experiment. *)
Distributed == proc[Leader].ranges # <<>>

(* Experiment e has a table of hosts, which no longer changes. *)
Known(e) == e <= proc[Leader].exp /\ (e = proc[Leader].exp => Distributed)

(* q is past markReady in experiment e. *)
Passed(q, e) ==
  \/ q \in hist.restarted
  \/ proc[q].exp > e
  \/ proc[q].exp = e /\ proc[q].phase \notin {"configured", "built"}

(* Experiment e may start: T[e] is its table of hosts. *)
Open(T, e) == Known(e) /\ \A id \in Ids : Passed(T[e][id], e)

(* Experiment e may end: its time is over, or all peers asked for it, or   *)
(* the experiment before left a timer behind.                              *)
Due(e) ==
  \/ e \in hist.elapsed
  \/ \A id \in Ids : <<e, id>> \in hist.finished
  \/ e - 1 \in hist.late

(* A message m from q to p: who sends what, and what is true once it is    *)
(* on its way                                                              *)
MsgOK(T, q, p, m) ==
  /\ m.exp > 0
  /\ m.type \in {"assignment", "start", "stop"} => q = Leader /\ p # Leader
  /\ m.type \in {"register", "ready", "peerDone"} => p = Leader /\ q # Leader
  /\ m.type = "assignment" =>
       Known(m.exp) /\ m.ranges = T[m.exp] /\ m.peers = Share(T[m.exp], p)
  /\ m.type = "ready" => Known(m.exp) /\ Passed(q, m.exp)
  /\ m.type = "start" => Open(T, m.exp)
  /\ m.type = "stop" => Due(m.exp)
  /\ m.type = "peerDone" => <<m.exp, m.id>> \in hist.finished

(* p has its assignment; then it is the one of its experiment. *)
Held(p) ==
  \/ proc[p].phase = "configured" /\ proc[p].assignmentsReady
  \/ proc[p].phase \in Hosting

HolderOK(T, p) ==
  /\ Known(proc[p].exp) /\ proc[p].ranges = T[proc[p].exp]
  /\ proc[p].local = Share(T[proc[p].exp], p)
  /\ proc[p].phase \in Hosting =>
       proc[p].interfaces = proc[p].local /\ proc[p].local # {}

PhaseOK(p) ==
  /\ proc[p].phase \notin Hosting \cup {"exited"} => proc[p].interfaces = {}
  /\ proc[p].phase \notin {"idle", "exited"} => proc[p].exp > 0
  /\ proc[p].phase = "running" => proc[p].start

ProcOK(T, p) ==
  /\ PhaseOK(p)
  /\ \A m \in proc[p].inbound : m.exp = proc[p].exp /\ m.to \in proc[p].interfaces
  /\ Held(p) => HolderOK(T, p)
  /\ proc[p].start => Open(T, proc[p].exp)
  /\ proc[p].stop => Due(proc[p].exp)

(* The records of the leader *)
Registrations ==
  /\ IsInjective(lead.order)
  /\ lead.ready \subseteq ToSet(lead.order)
  /\ proc[Leader].exp = 0 => lead.order = <<>>
  /\ proc[Leader].exp > 0 => lead.order # <<>> /\ lead.order[1] = Leader
  /\ Distributed <=> Requested(lead.order) >= scenario.total
  /\ Distributed => proc[Leader].ranges = peerRanges(lead.order)
  /\ \A q \in Procs : lead.assigned[q] # {} => Distributed

(* The threads of the leader: who broadcasts a start has an open gate      *)
(* behind it, who broadcasts a stop a reason; a timer is the one of the    *)
(* experiment, or was left behind by the experiment before.                *)
Threads(T) ==
  /\ "main" \in lead.stopping => proc[Leader].phase = "running"
  /\ lead.starters["main"].at # "none" => proc[Leader].phase = "waiting"
  /\ \A t \in Starters : lead.starters[t].at \in {"loop", "timer"} =>
       proc[Leader].exp > 0 /\ Open(T, proc[Leader].exp)
  /\ lead.stopping # {} => proc[Leader].exp > 0 /\ Due(proc[Leader].exp)
  /\ "timer" \in lead.stopping => lead.timer # "off"
  /\ lead.timer # "off" =>
       /\ proc[Leader].exp > 0
       /\ lead.timerExp = proc[Leader].exp \/ proc[Leader].exp - 1 \in hist.late
       /\ proc[Leader].phase = "idle" => proc[Leader].exp \in hist.late

LeadOK(T) ==
  /\ Registrations /\ Threads(T)
  /\ Distributed => T[proc[Leader].exp] = proc[Leader].ranges
  /\ \A q \in lead.ready : Passed(q, proc[Leader].exp)
  /\ \A id \in lead.completed : <<proc[Leader].exp, id>> \in hist.finished
  /\ Leader \notin hist.restarted

(* T gives every experiment its table of hosts. *)
InvFor(T) ==
  /\ Types
  /\ \A q, p \in Procs : \A m \in Wire(q, p) : MsgOK(T, q, p, m)
  /\ \A p \in Procs : ProcOK(T, p)
  /\ LeadOK(T)

Table == [Nat -> [Ids -> Procs]]
Inv == \E T \in Table : InvFor(T)

(***************************************************************************)
(* Facts about the state that every step uses.                             *)
(***************************************************************************)
(* There is a leader, and a peer. *)
LEMMA ScenarioFacts ==
  ASSUME scenario \in Scenarios
  PROVE  /\ Leader \in Procs /\ Procs \subseteq Nat
         /\ scenario.total \in Nat \ {0} /\ 0 \in Ids /\ Ids \subseteq Nat
         /\ scenario.experiments \in Nat /\ scenario.time \in BOOLEAN
         /\ scenario.messages \in Nat /\ scenario.restarts \in Nat
<1>1. /\ scenario.requested \in Seq(Nat \ {0}) /\ scenario.requested # <<>>
      /\ scenario.total \in Nat \ {0}
      /\ scenario.experiments \in Nat /\ scenario.time \in BOOLEAN
      /\ scenario.messages \in Nat /\ scenario.restarts \in Nat
  BY TcpAssumption
<1>2. Leader \in Procs /\ Procs \subseteq Nat
  BY <1>1 DEF Leader, Procs
<1> QED
  BY <1>1, <1>2 DEF Ids

(* A table of hosts is not the empty one. *)
LEMMA TableNotEmpty ==
  ASSUME scenario \in Scenarios, NEW S, NEW r \in [Ids -> S]
  PROVE  r # <<>>
<1>1. 0 \in DOMAIN r
  BY ScenarioFacts
<1>2. 0 \notin DOMAIN <<>>
  OBVIOUS
<1> QED BY <1>1, <1>2

(* The configuration files do not change. *)
LEMMA ScenarioFixed ==
  ASSUME scenario' = scenario
  PROVE  /\ Procs' = Procs /\ Ids' = Ids /\ Message' = Message
         /\ \A o : Requested(o)' = Requested(o)
         /\ \A o : peerRanges(o)' = peerRanges(o)
<1>1. Procs' = Procs /\ Ids' = Ids
  BY DEF Procs, Ids
<1>2. Message' = Message
  BY <1>1 DEF Message
<1>3. ASSUME NEW o PROVE nextId(o)' = nextId(o)
  BY DEF nextId
<1>4. ASSUME NEW o PROVE Requested(o)' = Requested(o)
  BY <1>3 DEF Requested
<1>5. ASSUME NEW o, NEW q PROVE Assigned(o, q)' = Assigned(o, q)
  BY <1>1, <1>3 DEF Assigned
<1>6. ASSUME NEW o PROVE peerRanges(o)' = peerRanges(o)
  BY <1>1, <1>5 DEF peerRanges
<1> QED
  BY <1>1, <1>2, <1>4, <1>6

(* What a message of each type carries *)
LEMMA MessageFacts ==
  ASSUME NEW m \in Message
  PROVE  /\ m.exp \in Nat
         /\ m.type \in {"register", "ready", "start", "stop", "peerDone", "message",
                        "assignment"}
         /\ m.type = "peerDone" => m.id \in Ids
         /\ m.type = "message" => m.to \in Ids
         /\ m.type = "assignment" => m.peers \subseteq Ids /\ m.ranges \in [Ids -> Procs]
  BY DEF Message

(* The messages that are made *)
LEMMA MessagesMade ==
  ASSUME NEW e \in Nat
  PROVE  /\ \A t \in {"register", "ready", "start", "stop"} :
              [type |-> t, exp |-> e] \in Message
         /\ \A id \in Ids : [type |-> "peerDone", exp |-> e, id |-> id] \in Message
         /\ \A id \in Ids : [type |-> "message", exp |-> e, to |-> id] \in Message
         /\ \A s \in SUBSET Ids, r \in [Ids -> Procs] :
              [type |-> "assignment", exp |-> e, peers |-> s, ranges |-> r] \in Message
  BY DEF Message

(* What a queue holds after an append, and after its head is taken *)
LEMMA ToSetAppend ==
  ASSUME NEW S, NEW s \in Seq(S), NEW m \in S
  PROVE  Append(s, m) \in Seq(S) /\ ToSet(Append(s, m)) = ToSet(s) \cup {m}
<1> DEFINE u == Append(s, m)
<1>1. /\ u \in Seq(S) /\ DOMAIN s = 1 .. Len(s) /\ DOMAIN u = 1 .. Len(s) + 1
      /\ Len(s) \in Nat /\ \A i \in 1 .. Len(s) : u[i] = s[i]
      /\ u[Len(s) + 1] = m
  OBVIOUS
<1> HIDE DEF u
<1>2. ToSet(u) \subseteq ToSet(s) \cup {m}
  BY <1>1 DEF ToSet
<1>3. ToSet(s) \subseteq ToSet(u)
  BY <1>1 DEF ToSet
<1>4. m \in ToSet(u)
  BY <1>1 DEF ToSet
<1> QED BY <1>1, <1>2, <1>3, <1>4 DEF u

(* The rest of a queue holds nothing new. *)
LEMMA ToSetTail ==
  ASSUME NEW S, NEW s \in Seq(S), s # <<>>
  PROVE  /\ Tail(s) \in Seq(S) /\ Head(s) \in S /\ Head(s) \in ToSet(s)
         /\ ToSet(Tail(s)) \subseteq ToSet(s)
  BY DEF ToSet

(* A message in a queue has the type of the queue. *)
LEMMA ToSetType ==
  ASSUME NEW S, NEW s \in Seq(S)
  PROVE  ToSet(s) \subseteq S
  BY DEF ToSet

(* new is what the connections of old hold after p has sent M[q] to some   *)
(* processes q of S.                                                       *)
Adds(old, new, p, S, M) ==
  /\ new \in [Procs \X Procs -> Seq(Message)]
  /\ \A q, r \in Procs :
       /\ new[<<q, r>>] \in {old[<<q, r>>], Append(old[<<q, r>>], M[r])}
       /\ q # p \/ r \notin S => new[<<q, r>>] = old[<<q, r>>]
       /\ \A m \in ToSet(new[<<q, r>>]) :
            m \in ToSet(old[<<q, r>>]) \/ (q = p /\ r \in S /\ m = M[r])

(* What sendEach leaves on the connections *)
LEMMA SentFacts ==
  ASSUME NEW ch \in [Procs \X Procs -> Seq(Message)], NEW p \in Procs,
         NEW S \in SUBSET Procs, NEW M, \A q \in S : M[q] \in Message
  PROVE  Adds(ch, sendEach(ch, p, S, M), p, S, M)
<1>1. ASSUME NEW q \in Procs, NEW r \in Procs
      PROVE  sendEach(ch, p, S, M)[<<q, r>>] =
               IF q = p /\ r \in S /\ proc[r].phase # "exited"
               THEN Append(ch[<<q, r>>], M[r]) ELSE ch[<<q, r>>]
  BY DEF sendEach
<1>2. ASSUME NEW q \in Procs, NEW r \in Procs
      PROVE  /\ ch[<<q, r>>] \in Seq(Message)
             /\ sendEach(ch, p, S, M)[<<q, r>>] \in Seq(Message)
  <2>1. ch[<<q, r>>] \in Seq(Message)
    OBVIOUS
  <2>2. r \in S => Append(ch[<<q, r>>], M[r]) \in Seq(Message)
    BY <2>1, ToSetAppend
  <2> QED BY <1>1, <2>1, <2>2
<1>3. sendEach(ch, p, S, M) \in [Procs \X Procs -> Seq(Message)]
  <2>1. \A c \in Procs \X Procs : sendEach(ch, p, S, M)[c] \in Seq(Message)
    BY <1>2
  <2>2. sendEach(ch, p, S, M) = [c \in Procs \X Procs |-> sendEach(ch, p, S, M)[c]]
    BY DEF sendEach
  <2> QED BY <2>1, <2>2
<1>4. ASSUME NEW q \in Procs, NEW r \in Procs,
             NEW m \in ToSet(sendEach(ch, p, S, M)[<<q, r>>])
      PROVE  m \in ToSet(ch[<<q, r>>]) \/ (q = p /\ r \in S /\ m = M[r])
  <2>1. CASE q = p /\ r \in S /\ proc[r].phase # "exited"
    <3>1. ToSet(Append(ch[<<q, r>>], M[r])) = ToSet(ch[<<q, r>>]) \cup {M[r]}
      BY <1>2, <2>1, ToSetAppend
    <3> QED BY <3>1, <1>1, <2>1
  <2>2. CASE ~(q = p /\ r \in S /\ proc[r].phase # "exited")
    BY <2>2, <1>1
  <2> QED BY <2>1, <2>2
<1> QED
  BY <1>1, <1>3, <1>4 DEF Adds

(***************************************************************************)
(* What a step leaves as it was.                                           *)
(***************************************************************************)
(* Nothing that once was true of an experiment is taken back. *)
Grow(T, U) ==
  /\ scenario' = scenario
  /\ T \in Table /\ U \in Table
  /\ \A e \in Nat : Known(e) => Known(e)' /\ U[e] = T[e]
  /\ \A q \in Procs, e \in Nat : Passed(q, e) => Passed(q, e)'
  /\ hist.finished \subseteq hist'.finished /\ hist.elapsed \subseteq hist'.elapsed
  /\ hist.restarted \subseteq hist'.restarted /\ hist.late \subseteq hist'.late

(* Then what is true of an experiment stays true. *)
LEMMA ExperimentStable ==
  ASSUME NEW T, NEW U, Grow(T, U), NEW e \in Nat
  PROVE  /\ Open(T, e) => Open(U, e)'
         /\ Due(e) => (Due(e))'
<1>1. Ids' = Ids /\ scenario' = scenario
  BY ScenarioFixed DEF Grow
<1>2. ASSUME Open(T, e) PROVE Open(U, e)'
  <2>1. Known(e)' /\ U[e] = T[e]
    BY <1>2 DEF Open, Grow
  <2>2. ASSUME NEW id \in Ids PROVE Passed(U[e][id], e)'
    <3>1. T[e][id] \in Procs
      BY DEF Grow, Table
    <3>2. Passed(T[e][id], e)
      BY <1>2 DEF Open
    <3>3. \A q \in Procs : Passed(q, e) => Passed(q, e)'
      BY DEF Grow
    <3> QED BY <3>1, <3>2, <3>3, <2>1
  <2> QED BY <2>1, <2>2, <1>1 DEF Open
<1>3. Due(e) => Due(e)'
  BY <1>1 DEF Due, Grow
<1> QED BY <1>2, <1>3

(* A message that was in order stays in order. *)
LEMMA MsgStable ==
  ASSUME NEW T, NEW U, Grow(T, U), NEW q \in Procs, NEW p \in Procs,
         NEW m \in Message, MsgOK(T, q, p, m)
  PROVE  MsgOK(U, q, p, m)'
<1>1. m.exp \in Nat
  BY MessageFacts
<1>2. /\ Open(T, m.exp) => Open(U, m.exp)'
      /\ Due(m.exp) => (Due(m.exp))'
  BY <1>1, ExperimentStable
<1>3. Known(m.exp) => Known(m.exp)' /\ U[m.exp] = T[m.exp]
  BY <1>1 DEF Grow
<1>4. Passed(q, m.exp) => Passed(q, m.exp)'
  BY <1>1 DEF Grow
<1>5. hist.finished \subseteq hist'.finished
  BY DEF Grow
<1> QED
  BY <1>2, <1>3, <1>4, <1>5 DEF MsgOK

(* So does a process that does nothing. *)
LEMMA ProcStable ==
  ASSUME NEW T, NEW U, Grow(T, U), NEW p \in Procs, proc[p].exp \in Nat,
         proc'[p] = proc[p], ProcOK(T, p)
  PROVE  ProcOK(U, p)'
<1>0. PICK e \in Nat : e = proc[p].exp /\ e = proc'[p].exp
  OBVIOUS
<1>1. /\ Open(T, e) => Open(U, e)'
      /\ Due(e) => (Due(e))'
  BY ExperimentStable
<1>2. Known(e) => Known(e)' /\ U[e] = T[e]
  BY DEF Grow
<1>3. PhaseOK(p)'
  BY DEF PhaseOK, ProcOK
<1>4. Held(p)' => HolderOK(U, p)'
  BY <1>0, <1>2 DEF Held, HolderOK, ProcOK
<1>5. proc'[p].start => Open(U, e)'
  BY <1>0, <1>1 DEF ProcOK
<1>6. proc'[p].stop => (Due(e))'
  BY <1>0, <1>1 DEF ProcOK
<1>7. \A m \in proc'[p].inbound : m.exp = proc'[p].exp /\ m.to \in proc'[p].interfaces
  BY DEF ProcOK
<1> QED
  BY <1>0, <1>3, <1>4, <1>5, <1>6, <1>7 DEF ProcOK

(* Processes only advance. *)
LEMMA PassedStable ==
  ASSUME NEW p \in Procs, \A x \in Procs : x # p => proc'[x] = proc[x],
         proc[p].exp \in Nat, proc'[p].exp \in Nat,
         hist.restarted \subseteq hist'.restarted,
         \/ /\ proc'[p].exp = proc[p].exp
            /\ proc'[p].phase \in {"configured", "built"} =>
                 proc[p].phase \in {"configured", "built"}
         \/ proc'[p].exp > proc[p].exp
         \/ p \in hist'.restarted
  PROVE  \A q \in Procs, e \in Nat : Passed(q, e) => Passed(q, e)'
<1> SUFFICES ASSUME NEW q \in Procs, NEW e \in Nat, Passed(q, e) PROVE Passed(q, e)'
  OBVIOUS
<1>1. CASE q # p
  BY <1>1 DEF Passed
<1>2. CASE q = p
  BY <1>2 DEF Passed
<1> QED BY <1>1, <1>2

(* A step that leaves the experiment of the leader and its table as they   *)
(* are                                                                     *)
LEMMA GrowSame ==
  ASSUME NEW T \in Table, scenario' = scenario,
         proc'[Leader].exp = proc[Leader].exp,
         proc'[Leader].ranges = proc[Leader].ranges,
         \A q \in Procs, e \in Nat : Passed(q, e) => Passed(q, e)',
         hist.finished \subseteq hist'.finished, hist.elapsed \subseteq hist'.elapsed,
         hist.restarted \subseteq hist'.restarted, hist.late \subseteq hist'.late
  PROVE  Grow(T, T)
<1>1. \A e \in Nat : Known(e) => Known(e)'
  BY DEF Known, Distributed
<1> QED BY <1>1 DEF Grow

(* The threads of the leader go on as they were, or end. *)
Undisturbed ==
  /\ lead'.stopping \subseteq lead.stopping
  /\ \A t \in Starters : lead'.starters[t].at \in {"loop", "timer"} =>
       lead.starters[t].at \in {"loop", "timer"}
  /\ \/ lead'.timer = "off" /\ "timer" \notin lead'.stopping
     \/ lead'.timer = lead.timer /\ lead'.timerExp = lead.timerExp
  /\ "main" \in lead'.stopping => proc'[Leader].phase = "running"
  /\ lead'.starters["main"].at # "none" => proc'[Leader].phase = "waiting"
  /\ lead'.timer # "off" /\ proc'[Leader].phase = "idle" => proc[Leader].phase = "idle"

(* Then they are in order. *)
LEMMA ThreadsStable ==
  ASSUME NEW T, NEW U, Grow(T, U), LeadOK(T), proc[Leader].exp \in Nat,
         proc'[Leader].exp = proc[Leader].exp, Undisturbed
  PROVE  Threads(U)'
<1>0. PICK e \in Nat : e = proc[Leader].exp /\ e = proc'[Leader].exp
  OBVIOUS
<1>1. /\ Open(T, e) => Open(U, e)'
      /\ Due(e) => (Due(e))'
  BY ExperimentStable
<1>2. hist.late \subseteq hist'.late
  BY DEF Grow
<1>3. ASSUME NEW t \in Starters, lead'.starters[t].at \in {"loop", "timer"}
      PROVE  e > 0 /\ Open(U, e)'
  BY <1>0, <1>1, <1>3 DEF Threads, LeadOK, Undisturbed
<1>4. lead'.stopping # {} => e > 0 /\ (Due(e))'
  BY <1>0, <1>1 DEF Threads, LeadOK, Undisturbed
<1>5. lead'.timer # "off" =>
        /\ e > 0
        /\ lead'.timerExp = e \/ e - 1 \in hist'.late
        /\ proc'[Leader].phase = "idle" => e \in hist'.late
  BY <1>0, <1>2 DEF Threads, LeadOK, Undisturbed
<1>6. "timer" \in lead'.stopping => lead'.timer # "off"
  BY DEF Threads, LeadOK, Undisturbed
<1> QED BY <1>0, <1>3, <1>4, <1>5, <1>6 DEF Threads, Undisturbed

(* The records of a leader nobody registers with *)
LEMMA LeadStable ==
  ASSUME NEW T, NEW U, Grow(T, U), scenario \in Scenarios, LeadOK(T),
         lead'.order = lead.order, lead'.ready = lead.ready,
         lead'.assigned = lead.assigned,
         Leader \notin hist'.restarted, lead.ready \subseteq Procs,
         proc[Leader].exp \in Nat,
         proc'[Leader].exp = proc[Leader].exp,
         proc'[Leader].ranges = proc[Leader].ranges,
         \A id \in lead'.completed : <<proc[Leader].exp, id>> \in hist'.finished,
         Threads(U)'
  PROVE  LeadOK(U)'
<1>0. PICK e \in Nat : e = proc[Leader].exp /\ e = proc'[Leader].exp
  OBVIOUS
<1>1. /\ Procs' = Procs /\ Ids' = Ids /\ scenario' = scenario
      /\ \A o : Requested(o)' = Requested(o)
      /\ \A o : peerRanges(o)' = peerRanges(o)
  BY ScenarioFixed DEF Grow
<1>2. Distributed' <=> Distributed
  BY DEF Distributed
<1>3. Registrations'
  BY <1>1, <1>2 DEF Registrations, LeadOK
<1>5. Distributed' => U[e] = proc'[Leader].ranges
  <2>1. Distributed => Known(e)
    BY <1>0 DEF Known
  <2>2. Known(e) => U[e] = T[e]
    BY DEF Grow
  <2> QED BY <1>0, <1>2, <2>1, <2>2 DEF LeadOK
<1>6. \A q \in lead'.ready : Passed(q, e)'
  <2>1. \A q \in Procs : Passed(q, e) => Passed(q, e)'
    BY DEF Grow
  <2>2. \A q \in lead.ready : Passed(q, e)
    BY <1>0 DEF LeadOK
  <2> QED BY <2>1, <2>2
<1> QED
  BY <1>0, <1>3, <1>5, <1>6 DEF LeadOK

(* How the parts of a step are put together: only p does something. *)
LEMMA StepFrom ==
  ASSUME NEW T \in Table, NEW U, InvFor(T), Grow(T, U), Types', NEW p \in Procs,
         \A x \in Procs : x # p => proc'[x] = proc[x],
         ProcOK(U, p)',
         \A q, r \in Procs : \A m \in Wire(q, r)' :
           m \in Wire(q, r) \/ MsgOK(U, q, r, m)',
         LeadOK(U)'
  PROVE  InvFor(U)'
<1>1. Procs' = Procs
  BY ScenarioFixed DEF Grow
<1>2. ASSUME NEW q \in Procs, NEW r \in Procs, NEW m \in Wire(q, r)' PROVE MsgOK(U, q, r, m)'
  <2>1. CASE m \in Wire(q, r)
    <3>1. chan[<<q, r>>] \in Seq(Message)
      BY DEF InvFor, Types
    <3>2. m \in Message
      BY <2>1, <3>1, ToSetType DEF Wire
    <3>3. MsgOK(T, q, r, m)
      BY <2>1 DEF InvFor
    <3> QED BY <3>2, <3>3, MsgStable
  <2> QED BY <2>1
<1>3. ASSUME NEW x \in Procs PROVE ProcOK(U, x)'
  <2>1. CASE x # p
    <3>1. proc[x].exp \in Nat
      <4>1. proc[x] \in ProcState
        BY DEF InvFor, Types
      <4> QED BY <4>1, ScenarioFacts DEF ProcState
    <3>2. ProcOK(T, x) /\ proc'[x] = proc[x]
      BY <2>1 DEF InvFor
    <3> QED BY <3>1, <3>2, ProcStable
  <2> QED BY <2>1
<1> QED
  BY <1>1, <1>2, <1>3 DEF InvFor

(* The types, where p is left in state s *)
LEMMA TypesFrom ==
  ASSUME Types, scenario' = scenario, NEW p \in Procs, NEW s \in ProcState,
         proc' = [proc EXCEPT ![p] = s],
         lead' \in LeadState, chan' \in [Procs \X Procs -> Seq(Message)],
         hist' \in HistState
  PROVE  /\ Types' /\ proc'[p] = s
         /\ \A x \in Procs : x # p => proc'[x] = proc[x]
<1>1. Procs' = Procs /\ Ids' = Ids /\ Message' = Message
  BY ScenarioFixed
<1>2. ProcState' = ProcState
  BY <1>1 DEF ProcState
<1>3. LeadState' = LeadState /\ HistState' = HistState
  BY <1>1 DEF LeadState, HistState
<1>4. proc' \in [Procs -> ProcState]
  BY DEF Types
<1>5. proc'[p] = s /\ \A x \in Procs : x # p => proc'[x] = proc[x]
  BY DEF Types
<1> QED
  BY <1>1, <1>2, <1>3, <1>4, <1>5 DEF Types

(* What a step starts from *)
LEMMA Setting ==
  ASSUME NEW T, InvFor(T)
  PROVE  /\ Types /\ scenario \in Scenarios /\ Leader \in Procs
         /\ \A x \in Procs : /\ proc[x] \in ProcState /\ proc[x].exp \in Nat
                             /\ ProcOK(T, x)
         /\ proc[Leader].exp \in Nat
         /\ lead \in LeadState /\ hist \in HistState /\ lead.ready \subseteq Procs
         /\ chan \in [Procs \X Procs -> Seq(Message)]
         /\ \A q, r \in Procs : \A m \in Wire(q, r) : m \in Message /\ MsgOK(T, q, r, m)
         /\ LeadOK(T) /\ Leader \notin hist.restarted
<1>1. /\ Types /\ scenario \in Scenarios /\ lead \in LeadState /\ hist \in HistState
      /\ chan \in [Procs \X Procs -> Seq(Message)]
  BY DEF InvFor, Types
<1>2. ASSUME NEW x \in Procs
      PROVE  proc[x] \in ProcState /\ proc[x].exp \in Nat /\ ProcOK(T, x)
  <2>1. proc[x] \in ProcState
    BY <1>1 DEF Types
  <2> QED BY <1>1, <2>1, ScenarioFacts DEF ProcState, InvFor
<1>3. Leader \in Procs
  BY <1>1, ScenarioFacts
<1>4. ASSUME NEW q \in Procs, NEW r \in Procs, NEW m \in Wire(q, r)
      PROVE  m \in Message /\ MsgOK(T, q, r, m)
  <2>1. chan[<<q, r>>] \in Seq(Message)
    BY <1>1
  <2> QED BY <2>1, ToSetType DEF Wire, InvFor
<1>5. lead.ready \subseteq Procs
  BY <1>1 DEF LeadState
<1> QED
  BY <1>1, <1>2, <1>3, <1>4, <1>5 DEF InvFor, LeadOK

(* A step that leaves p in state s, and the experiment and the table of    *)
(* the leader as they are                                                  *)
LEMMA LocalGrow ==
  ASSUME NEW T \in Table, InvFor(T), NEW p \in Procs, NEW s \in ProcState,
         scenario' = scenario, proc' = [proc EXCEPT ![p] = s],
         lead' \in LeadState, chan' \in [Procs \X Procs -> Seq(Message)],
         hist' \in HistState,
         hist.finished \subseteq hist'.finished, hist.elapsed \subseteq hist'.elapsed,
         hist.restarted \subseteq hist'.restarted, hist.late \subseteq hist'.late,
         \/ /\ s.exp = proc[p].exp
            /\ s.phase \in {"configured", "built"} =>
                 proc[p].phase \in {"configured", "built"}
         \/ s.exp > proc[p].exp
         \/ p \in hist'.restarted,
         p = Leader => s.exp = proc[p].exp /\ s.ranges = proc[p].ranges
  PROVE  /\ Types' /\ Grow(T, T)
         /\ proc'[p] = s /\ \A x \in Procs : x # p => proc'[x] = proc[x]
         /\ proc'[Leader].exp = proc[Leader].exp
         /\ proc'[Leader].ranges = proc[Leader].ranges
<1>1. Types /\ Leader \in Procs /\ proc[p].exp \in Nat /\ scenario \in Scenarios
  BY Setting
<1>2. /\ Types' /\ proc'[p] = s
      /\ \A x \in Procs : x # p => proc'[x] = proc[x]
  BY <1>1, TypesFrom
<1>3. s.exp \in Nat
  BY <1>1, ScenarioFacts DEF ProcState
<1>4. \A q \in Procs, e \in Nat : Passed(q, e) => Passed(q, e)'
  BY <1>1, <1>2, <1>3, PassedStable
<1>5. proc'[Leader].exp = proc[Leader].exp /\ proc'[Leader].ranges = proc[Leader].ranges
  BY <1>1, <1>2
<1> QED BY <1>2, <1>4, <1>5, GrowSame

(* What is to be shown of p itself when it stays in its experiment *)
LEMMA ProcFrom ==
  ASSUME NEW T, NEW U, Grow(T, U), NEW p \in Procs, proc[p].exp \in Nat, ProcOK(T, p),
         proc'[p].exp = proc[p].exp, PhaseOK(p)',
         \A m \in proc'[p].inbound :
           m.exp = proc[p].exp /\ m.to \in proc'[p].interfaces,
         Held(p)' => /\ Held(p)
                     /\ proc'[p].ranges = proc[p].ranges /\ proc'[p].local = proc[p].local
                     /\ proc'[p].phase \in Hosting =>
                          proc'[p].interfaces = proc'[p].local /\ proc'[p].local # {},
         proc'[p].start => proc[p].start \/ Open(U, proc[p].exp)',
         proc'[p].stop => proc[p].stop \/ (Due(proc[p].exp))'
  PROVE  ProcOK(U, p)'
<1>0. PICK e \in Nat : e = proc[p].exp /\ e = proc'[p].exp
  OBVIOUS
<1>1. /\ Open(T, e) => Open(U, e)'
      /\ Due(e) => (Due(e))'
  BY ExperimentStable
<1>2. Known(e) => Known(e)' /\ U[e] = T[e]
  BY DEF Grow
<1>3. Held(p)' => HolderOK(U, p)'
  BY <1>0, <1>2 DEF HolderOK, ProcOK
<1>4. proc'[p].start => Open(U, e)'
  BY <1>0, <1>1 DEF ProcOK
<1>5. proc'[p].stop => (Due(e))'
  BY <1>0, <1>1 DEF ProcOK
<1> QED
  BY <1>0, <1>3, <1>4, <1>5 DEF ProcOK

(* A step that leaves the records of the leader as they are *)
LEMMA LocalStep ==
  ASSUME NEW T \in Table, InvFor(T), NEW p \in Procs, Types', Grow(T, T),
         \A x \in Procs : x # p => proc'[x] = proc[x],
         proc'[Leader].exp = proc[Leader].exp,
         proc'[Leader].ranges = proc[Leader].ranges,
         lead' = lead, Leader \notin hist'.restarted,
         ProcOK(T, p)',
         \A q, r \in Procs : \A m \in Wire(q, r)' :
           m \in Wire(q, r) \/ MsgOK(T, q, r, m)',
         p = Leader =>
           /\ "main" \in lead.stopping => proc'[p].phase = "running"
           /\ lead.starters["main"].at # "none" => proc'[p].phase = "waiting"
           /\ proc'[p].phase = "idle" => proc[p].phase = "idle" \/ lead.timer = "off"
  PROVE  InvFor(T)'
<1>1. /\ Leader \in Procs /\ scenario \in Scenarios /\ LeadOK(T)
      /\ lead.ready \subseteq Procs /\ proc[Leader].exp \in Nat
      /\ chan \in [Procs \X Procs -> Seq(Message)]
  BY Setting
<1>2. Undisturbed
  <2>1. CASE p = Leader
    BY <2>1 DEF Undisturbed
  <2>2. CASE p # Leader
    <3>1. proc'[Leader] = proc[Leader]
      BY <2>2, <1>1
    <3> QED BY <3>1, <1>1 DEF Undisturbed, LeadOK, Threads
  <2> QED BY <2>1, <2>2
<1>3. LeadOK(T)'
  <2>1. Threads(T)'
    BY <1>1, <1>2, ThreadsStable
  <2>2. \A id \in lead'.completed : <<proc[Leader].exp, id>> \in hist'.finished
    BY <1>1 DEF LeadOK, Grow
  <2> QED BY <1>1, <2>1, <2>2, LeadStable
<1> QED
  BY <1>3, StepFrom

(***************************************************************************)
(* The steps of the main threads.                                          *)
(***************************************************************************)
(* A leader that has its assignment hosts a peer. *)
LEMMA LeaderHosts ==
  ASSUME NEW T \in Table, InvFor(T), Held(Leader)
  PROVE  proc[Leader].local # {}
<1>1. /\ scenario \in Scenarios /\ LeadOK(T) /\ ProcOK(T, Leader)
      /\ lead.order \in Seq(Procs) /\ proc[Leader].exp \in Nat
  BY Setting DEF LeadState
<1>2. HolderOK(T, Leader) /\ proc[Leader].exp > 0
  BY <1>1 DEF ProcOK, PhaseOK, Held, Hosting
<1>3. Distributed
  BY <1>2 DEF HolderOK, Known
<1>4. /\ lead.order # <<>> /\ lead.order[1] = Leader
      /\ Requested(lead.order) >= scenario.total
      /\ proc[Leader].ranges = peerRanges(lead.order)
  BY <1>1, <1>2, <1>3 DEF LeadOK, Registrations
<1>5. 0 \in Assigned(lead.order, Leader)
  BY <1>1, <1>4, FirstIsServed
<1>6. 0 \in Share(proc[Leader].ranges, Leader)
  BY <1>1, <1>4, <1>5, RangesOfOrder
<1> QED
  BY <1>2, <1>6 DEF HolderOK

(* waitForStartSignal returns. *)
LEMMA BeginStep ==
  ASSUME NEW T \in Table, InvFor(T), NEW p \in Procs, Begin(p)
  PROVE  InvFor(T)'
<1>0. /\ proc[p] \in ProcState /\ proc[p].exp \in Nat /\ ProcOK(T, p) /\ Leader \in Procs
      /\ lead \in LeadState /\ hist \in HistState /\ Leader \notin hist.restarted
      /\ chan \in [Procs \X Procs -> Seq(Message)] /\ LeadOK(T)
  BY Setting
<1>1. PICK s : s = [proc[p] EXCEPT !.phase = "running"]
  OBVIOUS
<1>2. /\ proc[p].phase = "waiting" /\ proc[p].start /\ proc' = [proc EXCEPT ![p] = s]
      /\ scenario' = scenario /\ lead' = lead /\ chan' = chan /\ hist' = hist
  BY <1>1 DEF Begin
<1>3. /\ s \in ProcState /\ s.phase = "running"
      /\ s.exp = proc[p].exp /\ s.start = proc[p].start /\ s.stop = proc[p].stop
      /\ s.local = proc[p].local /\ s.ranges = proc[p].ranges
      /\ s.interfaces = proc[p].interfaces /\ s.inbound = proc[p].inbound
  BY <1>0, <1>1 DEF ProcState, Phase
<1>4. /\ Types' /\ Grow(T, T)
      /\ proc'[p] = s /\ \A x \in Procs : x # p => proc'[x] = proc[x]
      /\ proc'[Leader].exp = proc[Leader].exp
      /\ proc'[Leader].ranges = proc[Leader].ranges
  BY <1>0, <1>2, <1>3, LocalGrow
<1>5. ProcOK(T, p)'
  <2>1. PhaseOK(p)'
    BY <1>0, <1>2, <1>3, <1>4 DEF PhaseOK, ProcOK, Hosting
  <2>2. Held(p) /\ HolderOK(T, p)
    BY <1>0, <1>2 DEF Held, Hosting, ProcOK
  <2>3. /\ proc'[p].ranges = proc[p].ranges /\ proc'[p].local = proc[p].local
        /\ proc'[p].interfaces = proc'[p].local /\ proc'[p].local # {}
    BY <1>2, <1>3, <1>4, <2>2 DEF HolderOK, Hosting
  <2>4. \A m \in proc'[p].inbound : m.exp = proc[p].exp /\ m.to \in proc'[p].interfaces
    BY <1>0, <1>3, <1>4 DEF ProcOK
  <2> QED BY <1>0, <1>2, <1>3, <1>4, <2>1, <2>2, <2>3, <2>4, ProcFrom
<1>6. \A q, r \in Procs : Wire(q, r)' = Wire(q, r)
  BY <1>2 DEF Wire
<1>7. p = Leader => lead.starters["main"].at = "none"
  BY <1>0, <1>2 DEF Begin
<1> QED
  BY <1>0, <1>2, <1>3, <1>4, <1>5, <1>6, <1>7, LocalStep

(* receive drains the queue of a peer. *)
LEMMA ReceiveStep ==
  ASSUME NEW T \in Table, InvFor(T), NEW p \in Procs, NEW id \in Ids, Receive(p, id)
  PROVE  InvFor(T)'
<1>0. /\ proc[p] \in ProcState /\ proc[p].exp \in Nat /\ ProcOK(T, p) /\ Leader \in Procs
      /\ lead \in LeadState /\ hist \in HistState /\ Leader \notin hist.restarted
      /\ chan \in [Procs \X Procs -> Seq(Message)] /\ LeadOK(T)
  BY Setting
<1>1. PICK s : s = [proc[p] EXCEPT !.inbound = { m \in @ : m.to # id }]
  OBVIOUS
<1>2. /\ proc[p].phase = "running" /\ proc' = [proc EXCEPT ![p] = s]
      /\ scenario' = scenario /\ lead' = lead /\ chan' = chan /\ hist' = hist
  BY <1>1 DEF Receive
<1>3. /\ s \in ProcState /\ s.phase = proc[p].phase
      /\ s.exp = proc[p].exp /\ s.start = proc[p].start /\ s.stop = proc[p].stop
      /\ s.local = proc[p].local /\ s.ranges = proc[p].ranges
      /\ s.interfaces = proc[p].interfaces /\ s.inbound \subseteq proc[p].inbound
  BY <1>0, <1>1 DEF ProcState
<1>4. /\ Types' /\ Grow(T, T)
      /\ proc'[p] = s /\ \A x \in Procs : x # p => proc'[x] = proc[x]
      /\ proc'[Leader].exp = proc[Leader].exp
      /\ proc'[Leader].ranges = proc[Leader].ranges
  BY <1>0, <1>2, <1>3, LocalGrow
<1>5. ProcOK(T, p)'
  <2>1. PhaseOK(p)'
    BY <1>0, <1>2, <1>3, <1>4 DEF PhaseOK, ProcOK, Hosting
  <2>2. Held(p) /\ HolderOK(T, p)
    BY <1>0, <1>2 DEF Held, Hosting, ProcOK
  <2>3. /\ proc'[p].ranges = proc[p].ranges /\ proc'[p].local = proc[p].local
        /\ proc'[p].interfaces = proc'[p].local /\ proc'[p].local # {}
    BY <1>2, <1>3, <1>4, <2>2 DEF HolderOK, Hosting
  <2>4. \A m \in proc'[p].inbound : m.exp = proc[p].exp /\ m.to \in proc'[p].interfaces
    BY <1>0, <1>3, <1>4 DEF ProcOK
  <2> QED BY <1>0, <1>2, <1>3, <1>4, <2>1, <2>2, <2>3, <2>4, ProcFrom
<1>6. \A q, r \in Procs : Wire(q, r)' = Wire(q, r)
  BY <1>2 DEF Wire
<1>7. p = Leader => lead.starters["main"].at = "none"
  BY <1>0, <1>2 DEF LeadOK, Threads
<1> QED
  BY <1>0, <1>2, <1>3, <1>4, <1>5, <1>6, <1>7, LocalStep

(* What sendJson adds to the connections *)
LEMMA SendJsonFacts ==
  ASSUME NEW p \in Procs, NEW S \in SUBSET Procs, NEW m \in Message,
         chan \in [Procs \X Procs -> Seq(Message)], chan' = sendJson(chan, p, S, m)
  PROVE  /\ chan' \in [Procs \X Procs -> Seq(Message)]
         /\ \A q, r \in Procs : \A x \in Wire(q, r)' :
              x \in Wire(q, r) \/ (q = p /\ r \in S /\ x = m)
<1> DEFINE M == [q \in S |-> m]
<1>1. \A q \in S : M[q] \in Message /\ M[q] = m
  OBVIOUS
<1>2. chan' = sendEach(chan, p, S, M)
  BY DEF sendJson
<1> HIDE DEF M
<1>3. /\ chan' \in [Procs \X Procs -> Seq(Message)]
      /\ \A q, r \in Procs :
           \A x \in ToSet(chan'[<<q, r>>]) :
             x \in ToSet(chan[<<q, r>>]) \/ (q = p /\ r \in S /\ x = M[r])
  <2>1. \A q \in S : M[q] \in Message
    BY <1>1
  <2>2. Adds(chan, chan', p, S, M)
    BY <1>2, <2>1, SentFacts
  <2> QED BY <2>2 DEF Adds
<1>5. \A q, r \in Procs : \A x \in Wire(q, r)' :
        x \in Wire(q, r) \/ (q = p /\ r \in S /\ x = m)
  <2> SUFFICES ASSUME NEW q \in Procs, NEW r \in Procs, NEW x \in Wire(q, r)'
               PROVE  x \in Wire(q, r) \/ (q = p /\ r \in S /\ x = m)
    OBVIOUS
  <2>1. x \in ToSet(chan[<<q, r>>]) \/ (q = p /\ r \in S /\ x = M[r])
    BY <1>3 DEF Wire
  <2> QED BY <1>1, <2>1 DEF Wire
<1> QED BY <1>3, <1>5

(* unicast *)
LEMMA UnicastStep ==
  ASSUME NEW T \in Table, InvFor(T), NEW p \in Procs, NEW id \in Ids, Unicast(p, id)
  PROVE  InvFor(T)'
<1>0. /\ proc[p] \in ProcState /\ proc[p].exp \in Nat /\ ProcOK(T, p) /\ Leader \in Procs
      /\ lead \in LeadState /\ hist \in HistState /\ Leader \notin hist.restarted
      /\ chan \in [Procs \X Procs -> Seq(Message)] /\ LeadOK(T)
  BY Setting
<1>1. PICK m : m = [type |-> "message", exp |-> proc[p].exp, to |-> id]
  OBVIOUS
<1>2. m \in Message /\ m.type = "message" /\ m.exp = proc[p].exp /\ m.to = id
  BY <1>0, <1>1, MessagesMade
<1>3. PICK s : s = IF id \in proc[p].interfaces
                   THEN [proc[p] EXCEPT !.sent = @ + 1, !.inbound = @ \cup {m}]
                   ELSE [proc[p] EXCEPT !.sent = @ + 1]
  OBVIOUS
<1>4. Held(p) /\ HolderOK(T, p) /\ proc[p].phase = "running"
  BY <1>0 DEF Unicast, Held, Hosting, ProcOK
<1>5. proc[p].ranges[id] \in Procs
  BY <1>0, <1>4 DEF HolderOK, Table
<1>6. /\ scenario' = scenario /\ lead' = lead /\ hist' = hist
      /\ proc' = [proc EXCEPT ![p] = s]
      /\ chan' = chan \/ chan' = sendJson(chan, p, {proc[p].ranges[id]}, m)
  <2>1. [proc[p] EXCEPT !.sent = @ + 1].interfaces = proc[p].interfaces
        /\ [proc[p] EXCEPT !.sent = @ + 1].ranges = proc[p].ranges
    BY <1>0 DEF ProcState
  <2>2. [[proc[p] EXCEPT !.sent = @ + 1] EXCEPT !.inbound = @ \cup {m}]
        = [proc[p] EXCEPT !.sent = @ + 1, !.inbound = @ \cup {m}]
    BY <1>0 DEF ProcState
  <2> QED BY <1>1, <1>3, <2>1, <2>2 DEF Unicast
<1>7. /\ s \in ProcState /\ s.phase = proc[p].phase
      /\ s.exp = proc[p].exp /\ s.start = proc[p].start /\ s.stop = proc[p].stop
      /\ s.local = proc[p].local /\ s.ranges = proc[p].ranges
      /\ s.interfaces = proc[p].interfaces
      /\ \A x \in s.inbound : x \in proc[p].inbound \/ (x = m /\ id \in s.interfaces)
  <2>1. CASE id \in proc[p].interfaces
    <3>1. s = [proc[p] EXCEPT !.sent = @ + 1, !.inbound = @ \cup {m}]
      BY <1>3, <2>1
    <3>2. s \in ProcState /\ s.inbound = proc[p].inbound \cup {m}
      <4>1. proc[p].inbound \cup {m} \in SUBSET Message /\ proc[p].sent + 1 \in Nat
        BY <1>0, <1>2 DEF ProcState
      <4>2. s = [proc[p] EXCEPT !.sent = proc[p].sent + 1,
                                !.inbound = proc[p].inbound \cup {m}]
        BY <3>1
      <4> QED BY <1>0, <4>1, <4>2 DEF ProcState
    <3>3. /\ s.phase = proc[p].phase
          /\ s.exp = proc[p].exp /\ s.start = proc[p].start /\ s.stop = proc[p].stop
          /\ s.local = proc[p].local /\ s.ranges = proc[p].ranges
          /\ s.interfaces = proc[p].interfaces
      BY <1>0, <3>1 DEF ProcState
    <3> QED BY <2>1, <3>2, <3>3
  <2>2. CASE id \notin proc[p].interfaces
    <3>1. s = [proc[p] EXCEPT !.sent = @ + 1]
      BY <1>3, <2>2
    <3> QED BY <1>0, <3>1 DEF ProcState
  <2> QED BY <2>1, <2>2
<1>8. /\ chan' \in [Procs \X Procs -> Seq(Message)]
      /\ \A q, r \in Procs : \A x \in Wire(q, r)' : x \in Wire(q, r) \/ x = m
  <2>1. CASE chan' = chan
    BY <1>0, <2>1 DEF Wire
  <2>2. CASE chan' = sendJson(chan, p, {proc[p].ranges[id]}, m)
    <3>1. PICK S : S = {proc[p].ranges[id]}
      OBVIOUS
    <3>2. S \in SUBSET Procs /\ chan' = sendJson(chan, p, S, m)
      BY <1>5, <2>2, <3>1
    <3>3. /\ chan' \in [Procs \X Procs -> Seq(Message)]
          /\ \A q, r \in Procs : \A x \in Wire(q, r)' :
               x \in Wire(q, r) \/ (q = p /\ r \in S /\ x = m)
      BY <1>0, <1>2, <3>2, SendJsonFacts
    <3> QED BY <1>0, <1>2, <3>3
  <2> QED BY <1>6, <2>1, <2>2
<1>9. /\ Types' /\ Grow(T, T)
      /\ proc'[p] = s /\ \A x \in Procs : x # p => proc'[x] = proc[x]
      /\ proc'[Leader].exp = proc[Leader].exp
      /\ proc'[Leader].ranges = proc[Leader].ranges
  BY <1>0, <1>6, <1>7, <1>8, LocalGrow
<1>10. ProcOK(T, p)'
  <2>1. PhaseOK(p)'
    BY <1>0, <1>7, <1>9 DEF PhaseOK, ProcOK
  <2>2. /\ proc'[p].ranges = proc[p].ranges /\ proc'[p].local = proc[p].local
        /\ proc'[p].interfaces = proc'[p].local /\ proc'[p].local # {}
    BY <1>4, <1>7, <1>9 DEF HolderOK, Hosting
  <2>3. \A x \in proc'[p].inbound : x.exp = proc[p].exp /\ x.to \in proc'[p].interfaces
    BY <1>0, <1>2, <1>7, <1>9 DEF ProcOK
  <2> QED BY <1>0, <1>4, <1>7, <1>9, <2>1, <2>2, <2>3, ProcFrom
<1>11. \A q, r \in Procs : MsgOK(T, q, r, m)'
  <2>1. proc[p].exp > 0
    BY <1>0, <1>4 DEF ProcOK, PhaseOK
  <2> QED BY <1>2, <2>1 DEF MsgOK
<1>12. p = Leader => lead.starters["main"].at = "none"
  BY <1>0, <1>4 DEF LeadOK, Threads
<1> QED
  BY <1>0, <1>4, <1>6, <1>7, <1>8, <1>9, <1>10, <1>11, <1>12, LocalStep

(* A process that holds nothing *)
LEMMA BlankProc ==
  ASSUME NEW U, NEW p, proc'[p].interfaces = {}, proc'[p].inbound = {},
         ~proc'[p].start, ~proc'[p].stop,
         proc'[p].phase \notin Hosting,
         proc'[p].phase = "configured" => ~proc'[p].assignmentsReady,
         proc'[p].phase \notin {"idle", "exited"} => proc'[p].exp > 0
  PROVE  ProcOK(U, p)'
<1>1. PhaseOK(p)'
  BY DEF PhaseOK, Hosting
<1>2. ~Held(p)'
  BY DEF Held
<1> QED BY <1>1, <1>2 DEF ProcOK

(* waitForAssignments returns. *)
LEMMA TakeAssignmentsStep ==
  ASSUME NEW T \in Table, InvFor(T), NEW p \in Procs, TakeAssignments(p)
  PROVE  InvFor(T)'
<1>0. /\ proc[p] \in ProcState /\ proc[p].exp \in Nat /\ ProcOK(T, p) /\ Leader \in Procs
      /\ lead \in LeadState /\ hist \in HistState /\ Leader \notin hist.restarted
      /\ chan \in [Procs \X Procs -> Seq(Message)] /\ LeadOK(T)
  BY Setting
<1>1. /\ proc[p].phase = "configured" /\ proc[p].assignmentsReady
      /\ scenario' = scenario /\ lead' = lead /\ chan' = chan
      /\ Held(p) /\ HolderOK(T, p) /\ proc[p].exp > 0
  BY <1>0 DEF TakeAssignments, Held, ProcOK, PhaseOK
<1>2. \A q, r \in Procs : Wire(q, r)' = Wire(q, r)
  BY <1>1 DEF Wire
<1>4. p = Leader => "main" \notin lead.stopping /\ lead.starters["main"].at = "none"
  BY <1>0, <1>1 DEF LeadOK, Threads
<1>5. CASE proc[p].local = {}
  <2>1. p # Leader
    BY <1>1, <1>5, LeaderHosts
  <2>2. PICK s : s = [cleanupExperiment(proc[p]) EXCEPT !.phase = "idle"]
    OBVIOUS
  <2>3. /\ proc' = [proc EXCEPT ![p] = s]
        /\ hist' = [hist EXCEPT !.surplus = @ \cup {p}]
    BY <1>5, <2>2 DEF TakeAssignments
  <2>4. /\ s \in ProcState /\ s.phase = "idle" /\ s.exp = proc[p].exp
        /\ s.interfaces = {} /\ s.inbound = {} /\ s.start = FALSE /\ s.stop = FALSE
    BY <1>0, <2>2 DEF ProcState, Phase, cleanupExperiment
  <2>5. /\ hist' \in HistState /\ hist'.finished = hist.finished
        /\ hist'.elapsed = hist.elapsed /\ hist'.restarted = hist.restarted
        /\ hist'.late = hist.late
    BY <1>0, <2>3 DEF HistState
  <2>6. /\ Types' /\ Grow(T, T)
        /\ proc'[p] = s /\ \A x \in Procs : x # p => proc'[x] = proc[x]
        /\ proc'[Leader].exp = proc[Leader].exp
        /\ proc'[Leader].ranges = proc[Leader].ranges
    BY <1>0, <1>1, <2>1, <2>3, <2>4, <2>5, LocalGrow
  <2>7. ProcOK(T, p)'
    BY <2>4, <2>6, BlankProc DEF Hosting
  <2> QED
    BY <1>0, <1>1, <1>2, <2>1, <2>5, <2>6, <2>7, LocalStep
<1>6. CASE proc[p].local # {}
  <2>2. PICK s : s = [proc[p] EXCEPT !.interfaces = proc[p].local, !.phase = "built"]
    OBVIOUS
  <2>3. proc' = [proc EXCEPT ![p] = s] /\ hist' = hist
    BY <1>6, <2>2 DEF TakeAssignments
  <2>4. /\ s \in ProcState /\ s.phase = "built" /\ s.exp = proc[p].exp
        /\ s.start = proc[p].start /\ s.stop = proc[p].stop
        /\ s.local = proc[p].local /\ s.ranges = proc[p].ranges
        /\ s.interfaces = proc[p].local /\ s.inbound = proc[p].inbound
    BY <1>0, <2>2 DEF ProcState, Phase
  <2>5. /\ Types' /\ Grow(T, T)
        /\ proc'[p] = s /\ \A x \in Procs : x # p => proc'[x] = proc[x]
        /\ proc'[Leader].exp = proc[Leader].exp
        /\ proc'[Leader].ranges = proc[Leader].ranges
    BY <1>0, <1>1, <2>3, <2>4, LocalGrow
  <2>6. ProcOK(T, p)'
    <3>1. PhaseOK(p)'
      BY <1>1, <2>4, <2>5 DEF PhaseOK, Hosting
    <3>2. \A m \in proc'[p].inbound : m.exp = proc[p].exp /\ m.to \in proc'[p].interfaces
      BY <1>0, <1>1, <2>4, <2>5 DEF ProcOK, PhaseOK, Hosting
    <3> QED BY <1>0, <1>1, <1>6, <2>4, <2>5, <3>1, <3>2, ProcFrom
  <2> QED
    BY <1>0, <1>1, <1>2, <1>4, <2>3, <2>4, <2>5, <2>6, LocalStep
<1> QED BY <1>5, <1>6

(* What is left on the connections when one message is taken *)
LEMMA TailFacts ==
  ASSUME NEW q \in Procs, NEW p \in Procs, Leader \in Procs,
         chan \in [Procs \X Procs -> Seq(Message)], chan[<<q, p>>] # <<>>,
         chan' = [chan EXCEPT ![<<q, p>>] = Tail(@)]
  PROVE  /\ chan' \in [Procs \X Procs -> Seq(Message)]
         /\ \A x, r \in Procs : Wire(x, r)' \subseteq Wire(x, r)
<1>1. ASSUME NEW x \in Procs, NEW r \in Procs
      PROVE  /\ chan'[<<x, r>>] \in Seq(Message) /\ Wire(x, r)' \subseteq Wire(x, r)
  <2>1. chan[<<x, r>>] \in Seq(Message)
    OBVIOUS
  <2>2. CASE x = q /\ r = p
    <3>1. chan'[<<x, r>>] = Tail(chan[<<x, r>>]) /\ chan[<<x, r>>] # <<>>
      BY <2>2
    <3> QED BY <2>1, <3>1, ToSetTail DEF Wire
  <2>3. CASE ~(x = q /\ r = p)
    <3>1. chan'[<<x, r>>] = chan[<<x, r>>]
      BY <2>3
    <3> QED BY <2>1, <3>1 DEF Wire
  <2> QED BY <2>2, <2>3
<1>2. chan' \in [Procs \X Procs -> Seq(Message)]
  <2>1. \A c \in Procs \X Procs : chan'[c] \in Seq(Message)
    BY <1>1
  <2>2. chan' = [c \in Procs \X Procs |-> chan'[c]]
    OBVIOUS
  <2> QED BY <2>1, <2>2
<1> QED BY <1>1, <1>2

(* A message is lost or dropped. *)
LEMMA DropStep ==
  ASSUME NEW T \in Table, InvFor(T), NEW q \in Procs, NEW p \in Procs,
         chan[<<q, p>>] # <<>>, chan' = [chan EXCEPT ![<<q, p>>] = Tail(@)],
         scenario' = scenario, proc' = proc, lead' = lead, hist' \in HistState,
         hist'.finished = hist.finished, hist'.elapsed = hist.elapsed,
         hist'.restarted = hist.restarted, hist'.late = hist.late
  PROVE  InvFor(T)'
<1>0. /\ proc[p] \in ProcState /\ proc[p].exp \in Nat /\ ProcOK(T, p) /\ Leader \in Procs
      /\ lead \in LeadState /\ hist \in HistState /\ Leader \notin hist.restarted
      /\ chan \in [Procs \X Procs -> Seq(Message)] /\ LeadOK(T) /\ Types
  BY Setting
<1>1. proc' = [proc EXCEPT ![p] = proc[p]]
  BY DEF Types, InvFor
<1>2. /\ chan' \in [Procs \X Procs -> Seq(Message)]
      /\ \A x, r \in Procs : Wire(x, r)' \subseteq Wire(x, r)
  BY <1>0, TailFacts
<1>3. chan' \in [Procs \X Procs -> Seq(Message)]
  BY <1>2
<1>4. /\ Types' /\ Grow(T, T)
      /\ \A x \in Procs : x # p => proc'[x] = proc[x]
      /\ proc'[Leader].exp = proc[Leader].exp
      /\ proc'[Leader].ranges = proc[Leader].ranges
  BY <1>0, <1>1, <1>3, LocalGrow
<1>5. ProcOK(T, p)'
  BY <1>0, <1>4, ProcStable
<1>8. /\ "main" \in lead.stopping => proc[Leader].phase = "running"
      /\ lead.starters["main"].at # "none" => proc[Leader].phase = "waiting"
  BY <1>0 DEF LeadOK, Threads
<1> QED
  BY <1>0, <1>2, <1>4, <1>5, <1>8, LocalStep

(* A registration that the leader does not hear of is only counted. *)
LEMMA MissedFacts ==
  ASSUME hist \in HistState, NEW q \in Procs, NEW e \in Nat,
         hist' = [hist EXCEPT !.missed = @ \cup {<<q, e>>}]
  PROVE  /\ hist' \in HistState /\ hist'.finished = hist.finished
         /\ hist'.elapsed = hist.elapsed /\ hist'.restarted = hist.restarted
         /\ hist'.late = hist.late
<1>1. PICK M : M = hist.missed \cup {<<q, e>>}
  OBVIOUS
<1>2. M \in SUBSET (Procs \X Nat)
  BY <1>1 DEF HistState
<1>3. hist' = [hist EXCEPT !.missed = M]
  BY <1>1
<1> QED BY <1>2, <1>3 DEF HistState

(* sendJson gives up. *)
LEMMA ExpireStep ==
  ASSUME NEW T \in Table, InvFor(T), NEW q \in Procs, NEW p \in Procs, Expire(q, p)
  PROVE  InvFor(T)'
<1>0. hist \in HistState /\ chan \in [Procs \X Procs -> Seq(Message)]
  BY Setting
<1>1. /\ chan[<<q, p>>] # <<>> /\ chan' = [chan EXCEPT ![<<q, p>>] = Tail(@)]
      /\ scenario' = scenario /\ proc' = proc /\ lead' = lead
      /\ hist' = [hist EXCEPT !.missed = @ \cup {<<q, Head(chan[<<q, p>>]).exp>>}]
  BY DEF Expire
<1>2. Head(chan[<<q, p>>]).exp \in Nat
  <2>1. Head(chan[<<q, p>>]) \in Message
    BY <1>0, <1>1, ToSetTail
  <2> QED BY <2>1, MessageFacts
<1>3. /\ hist' \in HistState /\ hist'.finished = hist.finished
      /\ hist'.elapsed = hist.elapsed /\ hist'.restarted = hist.restarted
      /\ hist'.late = hist.late
  BY <1>0, <1>1, <1>2, MissedFacts
<1> QED BY <1>1, <1>3, DropStep

(* The connections to a process that is gone *)
LEMMA ClearedFacts ==
  ASSUME NEW p, chan \in [Procs \X Procs -> Seq(Message)],
         chan' = connectionsClosed(p)
  PROVE  /\ chan' \in [Procs \X Procs -> Seq(Message)]
         /\ \A q, r \in Procs : Wire(q, r)' \subseteq Wire(q, r)
<1>1. ASSUME NEW q \in Procs, NEW r \in Procs
      PROVE  chan'[<<q, r>>] = IF r = p THEN <<>> ELSE chan[<<q, r>>]
  BY DEF connectionsClosed
<1>2. chan' \in [Procs \X Procs -> Seq(Message)]
  BY DEF connectionsClosed
<1>3. \A q, r \in Procs : Wire(q, r)' \subseteq Wire(q, r)
  <2> SUFFICES ASSUME NEW q \in Procs, NEW r \in Procs
               PROVE  Wire(q, r)' \subseteq Wire(q, r)
    OBVIOUS
  <2>1. CASE r = p
    <3>1. chan'[<<q, r>>] = <<>>
      BY <1>1, <2>1
    <3>2. ToSet(<<>>) = {}
      BY DEF ToSet
    <3> QED BY <3>1, <3>2 DEF Wire
  <2>2. CASE r # p
    BY <1>1, <2>2 DEF Wire
  <2> QED BY <2>1, <2>2
<1> QED BY <1>2, <1>3

(* A follower dies and is started again. *)
LEMMA RestartStep ==
  ASSUME NEW T \in Table, InvFor(T), NEW p \in Procs, Restart(p)
  PROVE  InvFor(T)'
<1>0. /\ proc[p] \in ProcState /\ Leader \in Procs /\ scenario \in Scenarios
      /\ lead \in LeadState /\ hist \in HistState /\ Leader \notin hist.restarted
      /\ chan \in [Procs \X Procs -> Seq(Message)] /\ LeadOK(T)
  BY Setting
<1>1. PICK s : s = Fresh
  OBVIOUS
<1>2. /\ p # Leader /\ proc' = [proc EXCEPT ![p] = s]
      /\ scenario' = scenario /\ lead' = lead
      /\ hist' = [hist EXCEPT !.restarted = @ \cup {p}]
      /\ chan' = connectionsClosed(p)
  BY <1>1 DEF Restart
<1>3. /\ s \in ProcState /\ s.phase = "idle" /\ s.start = FALSE /\ s.stop = FALSE
      /\ s.interfaces = {} /\ s.inbound = {}
  BY <1>0, <1>1, ScenarioFacts DEF ProcState, Phase, Fresh
<1>4. /\ hist' \in HistState /\ hist'.finished = hist.finished
      /\ hist'.elapsed = hist.elapsed /\ hist'.restarted = hist.restarted \cup {p}
      /\ hist'.late = hist.late
  BY <1>0, <1>2 DEF HistState
<1>5. /\ chan' \in [Procs \X Procs -> Seq(Message)]
      /\ \A q, r \in Procs : Wire(q, r)' \subseteq Wire(q, r)
  BY <1>0, <1>2, ClearedFacts
<1>6. /\ Types' /\ Grow(T, T)
      /\ proc'[p] = s /\ \A x \in Procs : x # p => proc'[x] = proc[x]
      /\ proc'[Leader].exp = proc[Leader].exp
      /\ proc'[Leader].ranges = proc[Leader].ranges
  BY <1>0, <1>2, <1>3, <1>4, <1>5, LocalGrow
<1>7. ProcOK(T, p)'
  BY <1>3, <1>6, BlankProc DEF Hosting
<1> QED
  BY <1>0, <1>2, <1>4, <1>5, <1>6, <1>7, LocalStep

(* What sendJson adds when p sends to the leader *)
LEMMA ToLeaderFacts ==
  ASSUME NEW p \in Procs, NEW m \in Message, Leader \in Procs,
         chan \in [Procs \X Procs -> Seq(Message)],
         chan' = sendJson(chan, p, {Leader}, m)
  PROVE  /\ chan' \in [Procs \X Procs -> Seq(Message)]
         /\ \A q, r \in Procs : \A x \in Wire(q, r)' :
              x \in Wire(q, r) \/ (q = p /\ r = Leader /\ x = m)
<1>1. PICK S : S = {Leader}
  OBVIOUS
<1>2. S \in SUBSET Procs /\ chan' = sendJson(chan, p, S, m)
  BY <1>1
<1>3. /\ chan' \in [Procs \X Procs -> Seq(Message)]
      /\ \A q, r \in Procs : \A x \in Wire(q, r)' :
           x \in Wire(q, r) \/ (q = p /\ r \in S /\ x = m)
  BY <1>2, SendJsonFacts
<1>4. \A q, r \in Procs : \A x \in Wire(q, r)' :
        x \in Wire(q, r) \/ (q = p /\ r = Leader /\ x = m)
  BY <1>1, <1>3
<1> QED BY <1>3, <1>4

(* configureProcess of a follower *)
LEMMA FollowerConfigures ==
  ASSUME NEW T \in Table, InvFor(T), NEW p \in Procs, p # Leader, ConfigureProcess(p)
  PROVE  InvFor(T)'
<1>0. /\ proc[p] \in ProcState /\ proc[p].exp \in Nat /\ Leader \in Procs
      /\ scenario \in Scenarios
      /\ lead \in LeadState /\ hist \in HistState /\ Leader \notin hist.restarted
      /\ chan \in [Procs \X Procs -> Seq(Message)] /\ LeadOK(T)
  BY Setting
<1>1. PICK s : s = Reconfigured(proc[p])
  OBVIOUS
<1>2. proc[p].exp + 1 \in 0 .. scenario.experiments /\ proc[p].exp + 1 \in Nat \ {0}
  BY <1>0, ScenarioFacts DEF ConfigureProcess
<1>3. /\ s \in ProcState /\ s.phase = "configured" /\ s.exp = proc[p].exp + 1
      /\ s.start = FALSE /\ s.stop = FALSE /\ s.assignmentsReady = FALSE
      /\ s.interfaces = {} /\ s.inbound = {}
  BY <1>0, <1>1, <1>2 DEF ProcState, Phase, Fresh, Reconfigured
<1>4. PICK m : m = [type |-> "register", exp |-> s.exp]
  OBVIOUS
<1>5. m \in Message /\ m.type = "register" /\ m.exp > 0
  <2>1. s.exp \in Nat /\ s.exp > 0
    BY <1>2, <1>3
  <2> QED BY <1>4, <2>1, MessagesMade
<1>6. /\ proc' = [proc EXCEPT ![p] = s] /\ scenario' = scenario /\ lead' = lead
      /\ chan' = sendJson(chan, p, {Leader}, m)
      /\ hist' = hist
         \/ hist' = [hist EXCEPT !.missed = @ \cup {<<p, proc[p].exp + 1>>}]
  BY <1>1, <1>4 DEF ConfigureProcess
<1>7. /\ hist' \in HistState /\ hist'.finished = hist.finished
      /\ hist'.elapsed = hist.elapsed /\ hist'.restarted = hist.restarted
      /\ hist'.late = hist.late
  <2>1. CASE hist' = hist
    BY <1>0, <2>1
  <2>2. CASE hist' = [hist EXCEPT !.missed = @ \cup {<<p, proc[p].exp + 1>>}]
    <3>1. PICK e \in Nat : e = proc[p].exp + 1
      BY <1>2
    <3>2. hist' = [hist EXCEPT !.missed = @ \cup {<<p, e>>}]
      BY <2>2, <3>1
    <3> QED BY <1>0, <3>2, MissedFacts
  <2> QED BY <1>6, <2>1, <2>2
<1>8. /\ chan' \in [Procs \X Procs -> Seq(Message)]
      /\ \A q, r \in Procs : \A x \in Wire(q, r)' :
           x \in Wire(q, r) \/ (q = p /\ r = Leader /\ x = m)
  BY <1>0, <1>5, <1>6, ToLeaderFacts
<1>9. /\ Types' /\ Grow(T, T)
      /\ proc'[p] = s /\ \A x \in Procs : x # p => proc'[x] = proc[x]
      /\ proc'[Leader].exp = proc[Leader].exp
      /\ proc'[Leader].ranges = proc[Leader].ranges
  <2>1. s.exp > proc[p].exp
    BY <1>0, <1>3
  <2> QED BY <1>0, <1>3, <1>6, <1>7, <1>8, <2>1, LocalGrow
<1>10. ProcOK(T, p)'
  BY <1>0, <1>3, <1>9, BlankProc DEF Hosting
<1>11. MsgOK(T, p, Leader, m)'
  BY <1>5 DEF MsgOK
<1>12. \A q, r \in Procs : \A x \in Wire(q, r)' : x \in Wire(q, r) \/ MsgOK(T, q, r, x)'
  BY <1>8, <1>11
<1> QED
  BY <1>0, <1>6, <1>7, <1>8, <1>9, <1>10, <1>12, LocalStep

(* markReady of a follower *)
LEMMA FollowerReady ==
  ASSUME NEW T \in Table, InvFor(T), NEW p \in Procs, p # Leader, MarkReady(p)
  PROVE  InvFor(T)'
<1>0. /\ proc[p] \in ProcState /\ proc[p].exp \in Nat /\ ProcOK(T, p) /\ Leader \in Procs
      /\ proc[Leader].exp \in Nat
      /\ lead \in LeadState /\ hist \in HistState /\ Leader \notin hist.restarted
      /\ chan \in [Procs \X Procs -> Seq(Message)] /\ LeadOK(T)
      /\ scenario \in Scenarios
      /\ \A x \in Wire(p, Leader) : x \in Message /\ MsgOK(T, p, Leader, x)
  BY Setting
<1>1. PICK s : s = [proc[p] EXCEPT !.phase = "waiting"]
  OBVIOUS
<1>2. PICK m : m = [type |-> "ready", exp |-> proc[p].exp]
  OBVIOUS
<1>3. /\ proc[p].phase = "built" /\ proc' = [proc EXCEPT ![p] = s]
      /\ chan' = sendJson(chan, p, {Leader}, m)
      /\ scenario' = scenario /\ lead' = lead /\ hist' = hist
  BY <1>1, <1>2 DEF MarkReady, Msg
<1>4. /\ s \in ProcState /\ s.phase = "waiting" /\ s.exp = proc[p].exp
      /\ s.start = proc[p].start /\ s.stop = proc[p].stop
      /\ s.local = proc[p].local /\ s.ranges = proc[p].ranges
      /\ s.interfaces = proc[p].interfaces /\ s.inbound = proc[p].inbound
  BY <1>0, <1>1 DEF ProcState, Phase
<1>5. m \in Message /\ m.type = "ready" /\ m.exp = proc[p].exp
  BY <1>0, <1>2, MessagesMade
<1>6. /\ chan' \in [Procs \X Procs -> Seq(Message)]
      /\ \A q, r \in Procs : \A x \in Wire(q, r)' :
           x \in Wire(q, r) \/ (q = p /\ r = Leader /\ x = m)
  BY <1>0, <1>3, <1>5, ToLeaderFacts
<1>7. /\ Types' /\ Grow(T, T)
      /\ proc'[p] = s /\ \A x \in Procs : x # p => proc'[x] = proc[x]
      /\ proc'[Leader].exp = proc[Leader].exp
      /\ proc'[Leader].ranges = proc[Leader].ranges
  BY <1>0, <1>3, <1>4, <1>6, LocalGrow
<1>8. Held(p) /\ HolderOK(T, p) /\ proc[p].exp > 0
  BY <1>0, <1>3 DEF Held, Hosting, ProcOK, PhaseOK
<1>9. /\ proc[p].interfaces = proc[p].local /\ proc[p].local # {}
      /\ Known(proc[p].exp) /\ proc[p].local = Share(T[proc[p].exp], p)
  BY <1>3, <1>8 DEF HolderOK, Hosting
<1>10. ProcOK(T, p)'
  <2>1. PhaseOK(p)'
    BY <1>4, <1>7, <1>8 DEF PhaseOK, Hosting
  <2>2. \A x \in proc'[p].inbound : x.exp = proc[p].exp /\ x.to \in proc'[p].interfaces
    BY <1>0, <1>4, <1>7 DEF ProcOK
  <2> QED BY <1>0, <1>4, <1>7, <1>8, <1>9, <2>1, <2>2, ProcFrom
<1>11. MsgOK(T, p, Leader, m)'
  <2>1. Known(proc[p].exp)'
    <3>1. PICK e \in Nat : e = proc[p].exp /\ e = proc'[p].exp
      BY <1>0, <1>4, <1>7
    <3>2. Known(e)'
      BY <1>9, <3>1, <1>7 DEF Grow
    <3> QED BY <3>1, <3>2
  <2>2. PICK e : e = proc[p].exp
    OBVIOUS
  <2>3. Passed(p, e)' /\ Known(e)'
    BY <1>4, <1>7, <2>1, <2>2 DEF Passed
  <2> QED BY <1>5, <1>8, <2>2, <2>3 DEF MsgOK
<1>12. \A q, r \in Procs : \A x \in Wire(q, r)' : x \in Wire(q, r) \/ MsgOK(T, q, r, x)'
  BY <1>6, <1>11
<1> QED
  BY <1>0, <1>3, <1>7, <1>10, <1>12, LocalStep

(* What is recorded when a peer asks for the stop *)
LEMMA FinishedFacts ==
  ASSUME hist \in HistState, NEW e \in Nat, NEW id \in Ids,
         hist' = [hist EXCEPT !.finished = @ \cup {<<e, id>>}]
  PROVE  /\ hist' \in HistState /\ hist'.elapsed = hist.elapsed
         /\ hist'.restarted = hist.restarted
         /\ hist'.late = hist.late
         /\ hist'.finished = hist.finished \cup {<<e, id>>}
<1>1. PICK F : F = hist.finished \cup {<<e, id>>}
  OBVIOUS
<1>2. F \in SUBSET (Nat \X Ids)
  BY <1>1 DEF HistState
<1>3. hist' = [hist EXCEPT !.finished = F]
  BY <1>1
<1> QED BY <1>1, <1>2, <1>3 DEF HistState

(* notifyPeerStopped of a follower *)
LEMMA FollowerPeerStops ==
  ASSUME NEW T \in Table, InvFor(T), NEW p \in Procs, NEW id \in Ids, p # Leader,
         RequestStop(p, id)
  PROVE  InvFor(T)'
<1>0. /\ proc[p] \in ProcState /\ proc[p].exp \in Nat /\ ProcOK(T, p) /\ Leader \in Procs
      /\ lead \in LeadState /\ hist \in HistState /\ Leader \notin hist.restarted
      /\ chan \in [Procs \X Procs -> Seq(Message)] /\ Types
  BY Setting
<1>1. PICK m : m = [type |-> "peerDone", exp |-> proc[p].exp, id |-> id]
  OBVIOUS
<1>2. /\ proc[p].phase = "running" /\ chan' = sendJson(chan, p, {Leader}, m)
      /\ scenario' = scenario /\ proc' = proc /\ lead' = lead
      /\ hist' = [hist EXCEPT !.finished = @ \cup {<<proc[p].exp, id>>}]
  BY <1>1 DEF RequestStop
<1>3. m \in Message /\ m.type = "peerDone" /\ m.exp = proc[p].exp /\ m.id = id
  BY <1>0, <1>1, MessagesMade
<1>4. /\ chan' \in [Procs \X Procs -> Seq(Message)]
      /\ \A q, r \in Procs : \A x \in Wire(q, r)' :
           x \in Wire(q, r) \/ (q = p /\ r = Leader /\ x = m)
  BY <1>0, <1>2, <1>3, ToLeaderFacts
<1>5. /\ hist' \in HistState /\ hist'.elapsed = hist.elapsed
      /\ hist'.restarted = hist.restarted
      /\ hist'.late = hist.late
      /\ hist'.finished = hist.finished \cup {<<proc[p].exp, id>>}
  BY <1>0, <1>2, FinishedFacts
<1>6. proc' = [proc EXCEPT ![p] = proc[p]]
  BY <1>0, <1>2 DEF Types
<1>7. /\ Types' /\ Grow(T, T)
      /\ \A x \in Procs : x # p => proc'[x] = proc[x]
      /\ proc'[Leader].exp = proc[Leader].exp
      /\ proc'[Leader].ranges = proc[Leader].ranges
  BY <1>0, <1>2, <1>4, <1>5, <1>6, LocalGrow
<1>8. ProcOK(T, p)'
  BY <1>0, <1>2, <1>7, ProcStable
<1>9. MsgOK(T, p, Leader, m)'
  <2>1. proc[p].exp > 0
    BY <1>0, <1>2 DEF ProcOK, PhaseOK
  <2> QED BY <1>3, <1>5, <2>1 DEF MsgOK
<1>10. \A q, r \in Procs : \A x \in Wire(q, r)' : x \in Wire(q, r) \/ MsgOK(T, q, r, x)'
  BY <1>4, <1>9
<1> QED
  BY <1>0, <1>2, <1>4, <1>5, <1>7, <1>8, <1>10, LocalStep

(* The end of a process: what it was doing stays as it is. *)
LEMMA ExitedProc ==
  ASSUME NEW T, NEW U, Grow(T, U), NEW p \in Procs, proc[p] \in ProcState,
         proc[p].exp \in Nat, ProcOK(T, p), proc'[p] = Exited(proc[p])
  PROVE  ProcOK(U, p)'
<1>1. /\ proc'[p].phase = "exited" /\ proc'[p].exp = proc[p].exp
      /\ proc'[p].interfaces = proc[p].interfaces /\ proc'[p].inbound = proc[p].inbound
      /\ proc'[p].start = proc[p].start /\ proc'[p].stop = proc[p].stop
  BY DEF ProcState, Exited
<1>2. PhaseOK(p)'
  BY <1>1 DEF PhaseOK
<1>3. ~Held(p)'
  BY <1>1 DEF Held, Hosting
<1>4. \A m \in proc'[p].inbound : m.exp = proc[p].exp /\ m.to \in proc'[p].interfaces
  BY <1>1 DEF ProcOK
<1> QED BY <1>1, <1>2, <1>3, <1>4, ProcFrom

(* The end of an experiment: what becomes of the process itself *)
LEMMA EndedProc ==
  ASSUME NEW T, NEW U, Grow(T, U), NEW p \in Procs, proc[p].exp \in Nat, ProcOK(T, p),
         NEW f, proc'[p].exp = proc[p].exp, f = proc'[p].phase,
         f \in {"joining", "idle"},
         proc'[p].interfaces = {}, proc'[p].inbound = {},
         f = "joining" => proc[p].exp > 0,
         proc'[p].start => proc[p].start, proc'[p].stop => proc[p].stop
  PROVE  ProcOK(U, p)'
<1>1. PhaseOK(p)'
  BY DEF PhaseOK, Hosting
<1>2. ~Held(p)'
  BY DEF Held, Hosting
<1> QED BY <1>1, <1>2, ProcFrom

(* Nothing waits for a process that hosts no peer. *)
LEMMA NothingWaits ==
  ASSUME NEW T, NEW p \in Procs, ProcOK(T, p), proc[p].phase \notin Hosting \cup {"exited"}
  PROVE  proc[p].interfaces = {} /\ proc[p].inbound = {}
  BY DEF ProcOK, PhaseOK

(* A follower leaves the loop. *)
LEMMA FollowerFinishes ==
  ASSUME NEW T \in Table, InvFor(T), NEW p \in Procs, p # Leader, Finish(p)
  PROVE  InvFor(T)'
<1>0. /\ proc[p] \in ProcState /\ proc[p].exp \in Nat /\ ProcOK(T, p) /\ Leader \in Procs
      /\ lead \in LeadState /\ hist \in HistState /\ Leader \notin hist.restarted
      /\ chan \in [Procs \X Procs -> Seq(Message)]
  BY Setting
<1>1. PICK s : s = [cleanupExperiment(proc[p]) EXCEPT !.phase = "idle"]
  OBVIOUS
<1>2. /\ proc[p].phase = "running" /\ proc' = [proc EXCEPT ![p] = s]
      /\ scenario' = scenario /\ lead' = lead /\ chan' = chan /\ hist' = hist
  BY <1>1 DEF Finish
<1>3. /\ s \in ProcState /\ s.phase = "idle" /\ s.exp = proc[p].exp
      /\ s.interfaces = {} /\ s.inbound = {} /\ s.start = FALSE /\ s.stop = FALSE
  BY <1>0, <1>1 DEF ProcState, Phase, cleanupExperiment
<1>4. /\ Types' /\ Grow(T, T)
      /\ proc'[p] = s /\ \A x \in Procs : x # p => proc'[x] = proc[x]
      /\ proc'[Leader].exp = proc[Leader].exp
      /\ proc'[Leader].ranges = proc[Leader].ranges
  BY <1>0, <1>2, <1>3, LocalGrow
<1>5. ProcOK(T, p)'
  <2>1. proc[p].exp > 0
    BY <1>0, <1>2 DEF ProcOK, PhaseOK
  <2> QED BY <1>0, <1>3, <1>4, <2>1, EndedProc
<1>6. \A q, r \in Procs : Wire(q, r)' = Wire(q, r)
  BY <1>2 DEF Wire
<1> QED
  BY <1>0, <1>2, <1>4, <1>5, <1>6, LocalStep

(* A follower exits. *)
LEMMA FollowerExits ==
  ASSUME NEW T \in Table, InvFor(T), NEW p \in Procs, p # Leader, Shutdown(p)
  PROVE  InvFor(T)'
<1>0. /\ proc[p] \in ProcState /\ proc[p].exp \in Nat /\ ProcOK(T, p) /\ Leader \in Procs
      /\ lead \in LeadState /\ hist \in HistState /\ Leader \notin hist.restarted
      /\ chan \in [Procs \X Procs -> Seq(Message)]
  BY Setting
<1>1. PICK s : s = Exited(proc[p])
  OBVIOUS
<1>2. /\ proc[p].phase = "idle" /\ proc' = [proc EXCEPT ![p] = s]
      /\ scenario' = scenario /\ lead' = lead /\ hist' = hist
      /\ chan' = connectionsClosed(p)
  BY <1>1 DEF Shutdown
<1>3. s \in ProcState /\ s.phase = "exited" /\ s.exp = proc[p].exp
  BY <1>0, <1>1 DEF ProcState, Phase, Exited
<1>4. /\ chan' \in [Procs \X Procs -> Seq(Message)]
      /\ \A q, r \in Procs : Wire(q, r)' \subseteq Wire(q, r)
  BY <1>0, <1>2, ClearedFacts
<1>5. /\ Types' /\ Grow(T, T)
      /\ proc'[p] = s /\ \A x \in Procs : x # p => proc'[x] = proc[x]
      /\ proc'[Leader].exp = proc[Leader].exp
      /\ proc'[Leader].ranges = proc[Leader].ranges
  BY <1>0, <1>2, <1>3, <1>4, LocalGrow
<1>6. ProcOK(T, p)'
  BY <1>0, <1>1, <1>5, ExitedProc
<1> QED
  BY <1>0, <1>2, <1>4, <1>5, <1>6, LocalStep

(***************************************************************************)
(* The steps of the threads that read the connections.                     *)
(***************************************************************************)
(* What a handler of a follower does to the message of each type *)
LEMMA HandlesFacts ==
  ASSUME NEW s, NEW m \in Message
  PROVE  /\ m.type = "assignment" => followerHandles(s, m) = handleAssignment(s, m)
         /\ m.type = "start" => followerHandles(s, m) = [s EXCEPT !.start = TRUE]
         /\ m.type = "stop" => followerHandles(s, m) = [s EXCEPT !.stop = TRUE]
         /\ m.type = "message" /\ m.to \in s.interfaces =>
              followerHandles(s, m) = [s EXCEPT !.inbound = @ \cup {m}]
         /\ m.type \notin {"assignment", "start", "stop"}
            /\ ~(m.type = "message" /\ m.to \in s.interfaces) => followerHandles(s, m) = s
<1>1. m.type = "assignment" => followerHandles(s, m) = handleAssignment(s, m)
  BY DEF followerHandles
<1>2. m.type = "start" => followerHandles(s, m) = [s EXCEPT !.start = TRUE]
  BY DEF followerHandles
<1>3. m.type = "stop" => followerHandles(s, m) = [s EXCEPT !.stop = TRUE]
  BY DEF followerHandles
<1>4. m.type = "message" /\ m.to \in s.interfaces =>
        followerHandles(s, m) = [s EXCEPT !.inbound = @ \cup {m}]
  BY DEF followerHandles
<1>5. m.type \notin {"assignment", "start", "stop"}
      /\ ~(m.type = "message" /\ m.to \in s.interfaces) => followerHandles(s, m) = s
  BY DEF followerHandles
<1> QED BY <1>1, <1>2, <1>3, <1>4, <1>5

(* The message at the head of a connection *)
LEMMA HeadFacts ==
  ASSUME NEW T, InvFor(T), NEW q \in Procs, NEW p \in Procs, chan[<<q, p>>] # <<>>
  PROVE  /\ Head(chan[<<q, p>>]) \in Message
         /\ Head(chan[<<q, p>>]) \in Wire(q, p)
         /\ MsgOK(T, q, p, Head(chan[<<q, p>>]))
<1>1. chan[<<q, p>>] \in Seq(Message)
  BY Setting
<1>2. Head(chan[<<q, p>>]) \in Message /\ Head(chan[<<q, p>>]) \in Wire(q, p)
  BY <1>1, ToSetTail DEF Wire
<1> QED BY <1>2, Setting

(* A handler that changes its own process only: what it makes of the       *)
(* process                                                                 *)
LEMMA HandledProc ==
  ASSUME NEW T \in Table, InvFor(T), NEW q \in Procs, NEW p \in Procs, NEW m \in Message,
         MsgOK(T, q, p, m), m.exp = proc[p].exp,
         NEW s, s = followerHandles(proc[p], m)
  PROVE  /\ s \in ProcState /\ s.exp = proc[p].exp /\ s.phase = proc[p].phase
         /\ s.interfaces = proc[p].interfaces
         /\ m.type = "assignment" \/ (s.ranges = proc[p].ranges /\ s.local = proc[p].local
                                      /\ s.assignmentsReady = proc[p].assignmentsReady)
         /\ m.type = "assignment" =>
              s.ranges = m.ranges /\ s.local = m.peers /\ s.inbound = proc[p].inbound
         /\ m.type = "start" \/ s.start = proc[p].start
         /\ m.type = "stop" \/ s.stop = proc[p].stop
         /\ \A x \in s.inbound :
              x \in proc[p].inbound \/ (x.exp = proc[p].exp /\ x.to \in s.interfaces)
         /\ p = Leader => s.ranges = proc[p].ranges
<1>0. proc[p] \in ProcState
  BY Setting
<1>1. m.type = "assignment" => p # Leader
  BY DEF MsgOK
<1>2. CASE m.type = "assignment"
  <2>1. s = [proc[p] EXCEPT !.local = m.peers, !.allPeers = m.peers, !.ranges = m.ranges,
                            !.assignmentsReady = TRUE]
    BY <1>2, HandlesFacts DEF handleAssignment
  <2>2. m.peers \subseteq Ids /\ m.ranges \in [Ids -> Procs]
    BY <1>2, MessageFacts
  <2> QED BY <1>0, <1>1, <1>2, <2>1, <2>2 DEF ProcState
<1>3. CASE m.type = "start"
  <2>1. s = [proc[p] EXCEPT !.start = TRUE]
    BY <1>3, HandlesFacts
  <2> QED BY <1>0, <1>3, <2>1 DEF ProcState
<1>4. CASE m.type = "stop"
  <2>1. s = [proc[p] EXCEPT !.stop = TRUE]
    BY <1>4, HandlesFacts
  <2> QED BY <1>0, <1>4, <2>1 DEF ProcState
<1>5. CASE m.type = "message" /\ m.to \in proc[p].interfaces
  <2>1. PICK I : I = proc[p].inbound \cup {m}
    OBVIOUS
  <2>2. s = [proc[p] EXCEPT !.inbound = I]
    BY <1>5, <2>1, HandlesFacts
  <2>3. I \in SUBSET Message
    BY <1>0, <2>1 DEF ProcState
  <2>4. /\ s \in ProcState /\ s.exp = proc[p].exp /\ s.phase = proc[p].phase
        /\ s.interfaces = proc[p].interfaces
        /\ s.ranges = proc[p].ranges /\ s.local = proc[p].local
        /\ s.assignmentsReady = proc[p].assignmentsReady
        /\ s.start = proc[p].start /\ s.stop = proc[p].stop /\ s.inbound = I
    BY <1>0, <2>2, <2>3 DEF ProcState
  <2> QED BY <1>5, <2>1, <2>4
<1>6. CASE /\ m.type \notin {"assignment", "start", "stop"}
           /\ ~(m.type = "message" /\ m.to \in proc[p].interfaces)
  <2>1. s = proc[p]
    BY <1>6, HandlesFacts
  <2> QED BY <1>0, <1>6, <2>1
<1> QED BY <1>2, <1>3, <1>4, <1>5, <1>6

(* A handler that changes its own process only: what holds afterwards *)
LEMMA HandlerKeeps ==
  ASSUME NEW T \in Table, InvFor(T), Grow(T, T), NEW q \in Procs, NEW p \in Procs,
         NEW m \in Message, MsgOK(T, q, p, m), m.exp = proc[p].exp,
         proc'[p] = followerHandles(proc[p], m)
  PROVE  ProcOK(T, p)'
<1>0. proc[p] \in ProcState /\ proc[p].exp \in Nat /\ ProcOK(T, p)
  BY Setting
<1>1. PICK s : s = followerHandles(proc[p], m) /\ s = proc'[p]
  OBVIOUS
<1>2. /\ s \in ProcState /\ s.exp = proc[p].exp /\ s.phase = proc[p].phase
      /\ s.interfaces = proc[p].interfaces
      /\ m.type = "assignment" \/ (s.ranges = proc[p].ranges /\ s.local = proc[p].local
                                   /\ s.assignmentsReady = proc[p].assignmentsReady)
      /\ m.type = "assignment" =>
           s.ranges = m.ranges /\ s.local = m.peers /\ s.inbound = proc[p].inbound
      /\ m.type = "start" \/ s.start = proc[p].start
      /\ m.type = "stop" \/ s.stop = proc[p].stop
      /\ \A x \in s.inbound :
           x \in proc[p].inbound \/ (x.exp = proc[p].exp /\ x.to \in s.interfaces)
  BY <1>1, HandledProc
<1>3. PICK e \in Nat : e = proc[p].exp /\ e = proc'[p].exp
  BY <1>0, <1>1, <1>2
<1>4. /\ Open(T, e) => Open(T, e)'
      /\ Due(e) => (Due(e))'
  BY ExperimentStable
<1>5. Known(e) => Known(e)'
  BY DEF Grow
<1>6. PhaseOK(p)'
  <2>1. PhaseOK(p)
    BY <1>0 DEF ProcOK
  <2>2. s.start = proc[p].start \/ s.start
    <3>1. m.type = "start" => s = [proc[p] EXCEPT !.start = TRUE]
      BY <1>1, HandlesFacts
    <3> QED BY <1>0, <1>2, <3>1 DEF ProcState
  <2> QED BY <1>1, <1>2, <2>1, <2>2 DEF PhaseOK
<1>7. \A x \in proc'[p].inbound : x.exp = proc'[p].exp /\ x.to \in proc'[p].interfaces
  BY <1>0, <1>1, <1>2 DEF ProcOK
<1>8. proc'[p].start => Open(T, e)'
  BY <1>0, <1>1, <1>2, <1>3, <1>4 DEF ProcOK, MsgOK
<1>9. proc'[p].stop => (Due(e))'
  BY <1>0, <1>1, <1>2, <1>3, <1>4 DEF ProcOK, MsgOK
<1>10. ASSUME Held(p)' PROVE HolderOK(T, p)'
  <2>1. CASE m.type = "assignment"
    <3>1. Known(e) /\ m.ranges = T[e] /\ m.peers = Share(T[e], p)
      BY <1>3, <2>1 DEF MsgOK
    <3>2. proc[p].phase \in Hosting =>
            proc[p].interfaces = Share(T[e], p) /\ Share(T[e], p) # {}
      BY <1>0, <1>3 DEF ProcOK, Held, HolderOK
    <3> QED BY <1>1, <1>2, <1>3, <1>5, <2>1, <3>1, <3>2 DEF HolderOK
  <2>2. CASE m.type # "assignment"
    <3>1. Held(p) /\ HolderOK(T, p)
      BY <1>0, <1>1, <1>2, <1>10, <2>2 DEF Held, ProcOK
    <3> QED BY <1>1, <1>2, <1>3, <1>5, <2>2, <3>1 DEF HolderOK
  <2> QED BY <2>1, <2>2
<1> QED
  BY <1>3, <1>6, <1>7, <1>8, <1>9, <1>10 DEF ProcOK

(* p takes the message m from q, which changes p only. *)
Reads(q, p, m) ==
  /\ chan[<<q, p>>] # <<>> /\ chan' = [chan EXCEPT ![<<q, p>>] = Tail(@)]
  /\ m = Head(chan[<<q, p>>]) /\ m.exp = proc[p].exp
  /\ proc' = [proc EXCEPT ![p] = followerHandles(proc[p], m)]
  /\ scenario' = scenario /\ lead' = lead /\ hist' = hist

(* A message is handled by its own process only. *)
LEMMA LocalRead ==
  ASSUME NEW T \in Table, InvFor(T), NEW q \in Procs, NEW p \in Procs, NEW m,
         Reads(q, p, m)
  PROVE  InvFor(T)'
<1> USE DEF Reads
<1>0. /\ Leader \in Procs /\ LeadOK(T)
      /\ lead \in LeadState /\ hist \in HistState /\ Leader \notin hist.restarted
      /\ chan \in [Procs \X Procs -> Seq(Message)]
  BY Setting
<1>1. m \in Message /\ MsgOK(T, q, p, m)
  BY HeadFacts
<1>2. PICK s : s = followerHandles(proc[p], m)
  OBVIOUS
<1>3. /\ s \in ProcState /\ s.exp = proc[p].exp /\ s.phase = proc[p].phase
      /\ m.type = "start" \/ s.start = proc[p].start
      /\ p = Leader => s.ranges = proc[p].ranges
  BY <1>1, <1>2, HandledProc
<1>4. /\ chan' \in [Procs \X Procs -> Seq(Message)]
      /\ \A x, r \in Procs : Wire(x, r)' \subseteq Wire(x, r)
  BY <1>0, TailFacts
<1>5. /\ chan' \in [Procs \X Procs -> Seq(Message)] /\ proc' = [proc EXCEPT ![p] = s]
      /\ lead' \in LeadState /\ hist' \in HistState
      /\ hist.finished \subseteq hist'.finished /\ hist.elapsed \subseteq hist'.elapsed
      /\ hist.restarted \subseteq hist'.restarted /\ hist.late \subseteq hist'.late
  BY <1>0, <1>2, <1>4
<1>6. /\ Types' /\ Grow(T, T)
      /\ proc'[p] = s /\ \A x \in Procs : x # p => proc'[x] = proc[x]
      /\ proc'[Leader].exp = proc[Leader].exp
      /\ proc'[Leader].ranges = proc[Leader].ranges
  <2>1. s \in ProcState /\ (p = Leader => s.exp = proc[p].exp /\ s.ranges = proc[p].ranges)
    BY <1>3
  <2>2. \/ /\ s.exp = proc[p].exp
           /\ s.phase \in {"configured", "built"} =>
                proc[p].phase \in {"configured", "built"}
        \/ s.exp > proc[p].exp
        \/ p \in hist'.restarted
    BY <1>3
  <2> QED BY <1>5, <2>1, <2>2, LocalGrow
<1>7. ProcOK(T, p)'
  BY <1>1, <1>2, <1>6, HandlerKeeps
<1>9. p = Leader =>
        /\ "main" \in lead.stopping => proc'[p].phase = "running"
        /\ lead.starters["main"].at # "none" => proc'[p].phase = "waiting"
  BY <1>0, <1>3, <1>6 DEF LeadOK, Threads
<1> QED
  BY <1>0, <1>3, <1>4, <1>6, <1>7, <1>9, LocalStep

(***************************************************************************)
(* The steps of the leader that end an experiment.                         *)
(***************************************************************************)
(* A step of the leader that leaves the registrations and the ready marks  *)
(* as they are                                                             *)
LEMMA LeaderStep ==
  ASSUME NEW T \in Table, InvFor(T), Types', Grow(T, T),
         \A x \in Procs : x # Leader => proc'[x] = proc[x],
         proc'[Leader].exp = proc[Leader].exp,
         proc'[Leader].ranges = proc[Leader].ranges,
         lead'.order = lead.order, lead'.ready = lead.ready,
         lead'.assigned = lead.assigned, hist'.restarted = hist.restarted,
         ProcOK(T, Leader)', Threads(T)',
         \A id \in lead'.completed : <<proc[Leader].exp, id>> \in hist'.finished,
         \A q, r \in Procs : \A m \in Wire(q, r)' :
           m \in Wire(q, r) \/ MsgOK(T, q, r, m)'
  PROVE  InvFor(T)'
<1>1. /\ Leader \in Procs /\ scenario \in Scenarios /\ LeadOK(T)
      /\ lead.ready \subseteq Procs /\ proc[Leader].exp \in Nat
      /\ chan \in [Procs \X Procs -> Seq(Message)] /\ Leader \notin hist.restarted
  BY Setting
<1>2. scenario' = scenario
  BY DEF Grow
<1>3. LeadOK(T)'
  BY <1>1, LeadStable
<1> QED BY <1>1, <1>3, StepFrom

(* The leader leaves the loop. *)
LEMMA LeaderFinishes ==
  ASSUME NEW T \in Table, InvFor(T), Finish(Leader)
  PROVE  InvFor(T)'
<1>0. /\ proc[Leader] \in ProcState /\ proc[Leader].exp \in Nat /\ ProcOK(T, Leader)
      /\ Leader \in Procs /\ LeadOK(T)
      /\ lead \in LeadState /\ hist \in HistState /\ Leader \notin hist.restarted
      /\ chan \in [Procs \X Procs -> Seq(Message)]
  BY Setting
<1>1. PICK f \in {"joining", "idle"} : f = IF lead.timer # "off" THEN "joining" ELSE "idle"
  OBVIOUS
<1> DEFINE s == [cleanupExperiment(proc[Leader]) EXCEPT !.phase = f]
<1>2. /\ proc[Leader].phase = "running" /\ proc' = [proc EXCEPT ![Leader] = s]
      /\ "main" \notin lead.stopping
      /\ lead' = [lead EXCEPT !.completed = {}, !.active = @ /\ ~(lead.timer # "off")]
      /\ scenario' = scenario /\ chan' = chan /\ hist' = hist
  BY <1>1 DEF Finish
<1>3. /\ s \in ProcState /\ s.phase = f /\ s.exp = proc[Leader].exp
      /\ s.ranges = proc[Leader].ranges
      /\ s.interfaces = {} /\ s.inbound = {} /\ s.start = FALSE /\ s.stop = FALSE
  BY <1>0, <1>1 DEF ProcState, Phase, cleanupExperiment
<1>4. /\ lead' \in LeadState /\ lead'.order = lead.order /\ lead'.ready = lead.ready
      /\ lead'.assigned = lead.assigned /\ lead'.completed = {}
      /\ lead'.timer = lead.timer /\ lead'.stopping = lead.stopping
      /\ lead'.timerExp = lead.timerExp /\ lead'.starters = lead.starters
  BY <1>0, <1>2 DEF LeadState
<1> HIDE DEF s
<1>5. /\ Types' /\ Grow(T, T)
      /\ proc'[Leader] = s /\ \A x \in Procs : x # Leader => proc'[x] = proc[x]
      /\ proc'[Leader].exp = proc[Leader].exp
      /\ proc'[Leader].ranges = proc[Leader].ranges
  BY <1>0, <1>2, <1>3, <1>4, LocalGrow
<1>6. ProcOK(T, Leader)'
  <2>1. proc[Leader].exp > 0
    BY <1>0, <1>2 DEF ProcOK, PhaseOK
  <2> QED BY <1>0, <1>3, <1>5, <2>1, EndedProc
<1>7. Threads(T)'
  <2>1. Undisturbed
    BY <1>0, <1>1, <1>2, <1>3, <1>4, <1>5 DEF Undisturbed, LeadOK, Threads
  <2> QED BY <1>0, <1>5, <2>1, ThreadsStable
<1>8. \A q, r \in Procs : Wire(q, r)' = Wire(q, r)
  BY <1>2 DEF Wire
<1> QED
  BY <1>2, <1>3, <1>4, <1>5, <1>6, <1>7, <1>8, LeaderStep

(* The leader joins its timer. *)
LEMMA LeaderJoins ==
  ASSUME NEW T \in Table, InvFor(T), Join
  PROVE  InvFor(T)'
<1>0. /\ proc[Leader] \in ProcState /\ proc[Leader].exp \in Nat /\ ProcOK(T, Leader)
      /\ Leader \in Procs /\ LeadOK(T)
      /\ lead \in LeadState /\ hist \in HistState /\ Leader \notin hist.restarted
      /\ chan \in [Procs \X Procs -> Seq(Message)]
  BY Setting
<1>1. PICK s : s = [proc[Leader] EXCEPT !.phase = "idle"]
  OBVIOUS
<1>2. /\ proc[Leader].phase = "joining" /\ proc' = [proc EXCEPT ![Leader] = s]
      /\ "timer" \notin lead.stopping /\ lead' = [lead EXCEPT !.timer = "off"]
      /\ scenario' = scenario /\ chan' = chan /\ hist' = hist
  BY <1>1 DEF Join
<1>3. /\ s \in ProcState /\ s.phase = "idle" /\ s.exp = proc[Leader].exp
      /\ s.ranges = proc[Leader].ranges
      /\ s.interfaces = proc[Leader].interfaces /\ s.inbound = proc[Leader].inbound
      /\ s.start = proc[Leader].start /\ s.stop = proc[Leader].stop
  BY <1>0, <1>1 DEF ProcState, Phase
<1>4. /\ lead' \in LeadState /\ lead'.order = lead.order /\ lead'.ready = lead.ready
      /\ lead'.assigned = lead.assigned /\ lead'.completed = lead.completed
      /\ lead'.timer = "off" /\ lead'.stopping = lead.stopping
      /\ lead'.starters = lead.starters
  BY <1>0, <1>2 DEF LeadState
<1>5. /\ Types' /\ Grow(T, T)
      /\ proc'[Leader] = s /\ \A x \in Procs : x # Leader => proc'[x] = proc[x]
      /\ proc'[Leader].exp = proc[Leader].exp
      /\ proc'[Leader].ranges = proc[Leader].ranges
  BY <1>0, <1>2, <1>3, <1>4, LocalGrow
<1>6. ProcOK(T, Leader)'
  <2>1. proc[Leader].interfaces = {} /\ proc[Leader].inbound = {}
    BY <1>0, <1>2, NothingWaits DEF Hosting
  <2> QED BY <1>0, <1>3, <1>5, <2>1, EndedProc
<1>7. Threads(T)'
  <2>1. "main" \notin lead.stopping /\ lead.starters["main"].at = "none"
    BY <1>0, <1>2 DEF LeadOK, Threads
  <2>2. Undisturbed
    BY <1>2, <1>4, <2>1 DEF Undisturbed
  <2> QED BY <1>0, <1>5, <2>2, ThreadsStable
<1>8. \A q, r \in Procs : Wire(q, r)' = Wire(q, r)
  BY <1>2 DEF Wire
<1>11. \A id \in lead'.completed : <<proc[Leader].exp, id>> \in hist'.finished
  BY <1>0, <1>2, <1>4 DEF LeadOK
<1> QED
  BY <1>2, <1>4, <1>5, <1>6, <1>7, <1>8, <1>11, LeaderStep

(* The leader exits. *)
LEMMA LeaderExits ==
  ASSUME NEW T \in Table, InvFor(T), Shutdown(Leader)
  PROVE  InvFor(T)'
<1>0. /\ proc[Leader] \in ProcState /\ proc[Leader].exp \in Nat /\ ProcOK(T, Leader)
      /\ Leader \in Procs /\ LeadOK(T)
      /\ lead \in LeadState /\ hist \in HistState /\ Leader \notin hist.restarted
      /\ chan \in [Procs \X Procs -> Seq(Message)]
      /\ \A x \in Procs : proc[x].exp \in Nat
  BY Setting
<1>1. PICK s : s = Exited(proc[Leader])
  OBVIOUS
<1>2. /\ proc[Leader].phase = "idle" /\ proc' = [proc EXCEPT ![Leader] = s]
      /\ lead' = threadsCut(lead) /\ scenario' = scenario
      /\ chan' = connectionsClosed(Leader)
  BY <1>1 DEF Shutdown
<1>3. /\ s \in ProcState /\ s.phase = "exited" /\ s.exp = proc[Leader].exp
      /\ s.ranges = proc[Leader].ranges
  BY <1>0, <1>1 DEF ProcState, Phase, Exited
<1>4. /\ lead' \in LeadState /\ lead'.order = lead.order /\ lead'.ready = lead.ready
      /\ lead'.assigned = lead.assigned /\ lead'.completed = lead.completed
      /\ lead'.timer = lead.timer /\ lead'.timerExp = lead.timerExp
      /\ lead'.stopping = lead.stopping \cap {"timer"}
      /\ \A t \in Starters : lead'.starters[t].at = "none"
  <2>1. [t \in Starters |-> Outside] \in
          [Starters -> [at : {"none", "gate", "loop", "timer"}, left : Seq(Procs)]]
    BY DEF Outside
  <2> QED BY <1>0, <1>2, <2>1 DEF LeadState, threadsCut, Outside
<1>5. /\ hist' \in HistState /\ hist'.finished = hist.finished
      /\ hist'.elapsed = hist.elapsed /\ hist'.restarted = hist.restarted
      /\ hist'.late = hist.late
  <2>1. PICK M : M = hist.missed \cup { <<q, proc[q].exp>> : q \in Unheard }
    OBVIOUS
  <2>2. M \in SUBSET (Procs \X Nat)
    <3>1. hist.missed \in SUBSET (Procs \X Nat)
      BY <1>0 DEF HistState
    <3>2. \A q \in Unheard : <<q, proc[q].exp>> \in Procs \X Nat
      <4>1. Unheard \subseteq Procs
        BY DEF Unheard
      <4> QED BY <1>0, <4>1
    <3> QED BY <2>1, <3>1, <3>2
  <2>3. PICK b \in BOOLEAN : b = ~mutexFree
    OBVIOUS
  <2>4. hist' = [hist EXCEPT !.cut = b, !.missed = M]
    BY <2>1, <2>3 DEF Shutdown
  <2> QED BY <1>0, <2>2, <2>4 DEF HistState
<1>6. /\ chan' \in [Procs \X Procs -> Seq(Message)]
      /\ \A q, r \in Procs : Wire(q, r)' \subseteq Wire(q, r)
  BY <1>0, <1>2, ClearedFacts
<1>7. /\ Types' /\ Grow(T, T)
      /\ proc'[Leader] = s /\ \A x \in Procs : x # Leader => proc'[x] = proc[x]
      /\ proc'[Leader].exp = proc[Leader].exp
      /\ proc'[Leader].ranges = proc[Leader].ranges
  BY <1>0, <1>2, <1>3, <1>4, <1>5, <1>6, LocalGrow
<1>8. ProcOK(T, Leader)'
  BY <1>0, <1>1, <1>7, ExitedProc
<1>9. Threads(T)'
  <2>1. "main" \in Starters
    BY DEF Starters
  <2>2. Undisturbed
    BY <1>3, <1>4, <1>7, <2>1 DEF Undisturbed
  <2> QED BY <1>0, <1>7, <2>2, ThreadsStable
<1>11. \A id \in lead'.completed : <<proc[Leader].exp, id>> \in hist'.finished
  BY <1>0, <1>4, <1>5 DEF LeadOK
<1> QED
  BY <1>4, <1>5, <1>6, <1>7, <1>8, <1>9, <1>11, LeaderStep

(* The time of an experiment is over. *)
LEMMA TimerStep ==
  ASSUME NEW T \in Table, InvFor(T), TimerExpires
  PROVE  InvFor(T)'
<1>0. /\ proc[Leader] \in ProcState /\ proc[Leader].exp \in Nat /\ ProcOK(T, Leader)
      /\ Leader \in Procs /\ LeadOK(T)
      /\ lead \in LeadState /\ hist \in HistState /\ Leader \notin hist.restarted
      /\ chan \in [Procs \X Procs -> Seq(Message)]
  BY Setting
<1>1. PICK s : s = [proc[Leader] EXCEPT !.stop = TRUE]
  OBVIOUS
<1>2. /\ lead.timer = "sleeping" /\ proc' = [proc EXCEPT ![Leader] = s]
      /\ \/ lead' = [lead EXCEPT !.timer = "ended"]
         \/ lead' = [[lead EXCEPT !.timer = "ended"] EXCEPT !.stopping = @ \cup {"timer"}]
      /\ hist' = [hist EXCEPT !.elapsed = @ \cup {lead.timerExp}]
      /\ scenario' = scenario /\ chan' = chan
  BY <1>1 DEF TimerExpires, beginStop
<1>3. /\ s \in ProcState /\ s.phase = proc[Leader].phase /\ s.exp = proc[Leader].exp
      /\ s.ranges = proc[Leader].ranges /\ s.local = proc[Leader].local
      /\ s.assignmentsReady = proc[Leader].assignmentsReady
      /\ s.interfaces = proc[Leader].interfaces /\ s.inbound = proc[Leader].inbound
      /\ s.start = proc[Leader].start /\ s.stop = TRUE
  BY <1>0, <1>1 DEF ProcState
<1>4. /\ lead' \in LeadState /\ lead'.order = lead.order /\ lead'.ready = lead.ready
      /\ lead'.assigned = lead.assigned /\ lead'.completed = lead.completed
      /\ lead'.starters = lead.starters /\ lead'.timerExp = lead.timerExp
      /\ lead'.timer = "ended" /\ lead'.stopping \subseteq lead.stopping \cup {"timer"}
  <2>1. CASE lead' = [lead EXCEPT !.timer = "ended"]
    BY <1>0, <2>1 DEF LeadState
  <2>2. CASE lead' = [[lead EXCEPT !.timer = "ended"]
                        EXCEPT !.stopping = @ \cup {"timer"}]
    BY <1>0, <2>2 DEF LeadState
  <2> QED BY <1>2, <2>1, <2>2
<1>5. /\ hist' \in HistState /\ hist'.finished = hist.finished
      /\ hist'.elapsed = hist.elapsed \cup {lead.timerExp}
      /\ hist'.restarted = hist.restarted
      /\ hist'.late = hist.late
  <2>1. lead.timerExp \in Nat
    BY <1>0 DEF LeadState
  <2> QED BY <1>0, <1>2, <2>1 DEF HistState
<1>6. /\ Types' /\ Grow(T, T)
      /\ proc'[Leader] = s /\ \A x \in Procs : x # Leader => proc'[x] = proc[x]
      /\ proc'[Leader].exp = proc[Leader].exp
      /\ proc'[Leader].ranges = proc[Leader].ranges
  BY <1>0, <1>2, <1>3, <1>4, <1>5, LocalGrow
<1>7. (Due(proc[Leader].exp))'
  <2>1. lead.timerExp = proc[Leader].exp \/ proc[Leader].exp - 1 \in hist.late
    BY <1>0, <1>2 DEF LeadOK, Threads
  <2> QED BY <1>5, <1>6, <2>1 DEF Due
<1>8. ProcOK(T, Leader)'
  <2>1. PhaseOK(Leader)'
    BY <1>0, <1>3, <1>6 DEF PhaseOK, ProcOK
  <2>2. \A m \in proc'[Leader].inbound :
          m.exp = proc[Leader].exp /\ m.to \in proc'[Leader].interfaces
    BY <1>0, <1>3, <1>6 DEF ProcOK
  <2>3. Held(Leader)' => Held(Leader) /\ HolderOK(T, Leader)
    BY <1>0, <1>3, <1>6 DEF Held, ProcOK
  <2>5. HolderOK(T, Leader) /\ proc'[Leader].phase \in Hosting =>
          proc'[Leader].interfaces = proc'[Leader].local /\ proc'[Leader].local # {}
    BY <1>3, <1>6 DEF HolderOK
  <2>6. PICK e : e = proc[Leader].exp /\ e = proc'[Leader].exp
    BY <1>6
  <2>7. Due(e)'
    BY <1>6, <1>7, <2>6
  <2> QED BY <1>0, <1>3, <1>6, <2>1, <2>2, <2>3, <2>5, <2>6, <2>7, ProcFrom
<1>9. Threads(T)'
  <2>1. PICK e \in Nat : e = proc[Leader].exp /\ e = proc'[Leader].exp
    BY <1>0, <1>6
  <2>2. Due(e)'
    BY <1>6, <1>7, <2>1
  <2>3. Open(T, e) => Open(T, e)'
    BY <1>6, ExperimentStable
  <2>4. /\ "main" \in lead'.stopping => proc'[Leader].phase = "running"
        /\ lead'.starters["main"].at # "none" => proc'[Leader].phase = "waiting"
    BY <1>0, <1>3, <1>4, <1>6 DEF LeadOK, Threads
  <2>5. /\ lead'.timerExp = e \/ e - 1 \in hist'.late
        /\ proc'[Leader].phase = "idle" => e \in hist'.late
    BY <1>0, <1>2, <1>3, <1>4, <1>5, <1>6, <2>1 DEF LeadOK, Threads
  <2>6. \A t \in Starters : lead'.starters[t].at \in {"loop", "timer"} => Open(T, e)'
    BY <1>0, <1>4, <2>1, <2>3 DEF LeadOK, Threads
  <2>7. e > 0
    BY <1>0, <1>2, <2>1 DEF LeadOK, Threads
  <2> QED BY <1>4, <2>1, <2>2, <2>4, <2>5, <2>6, <2>7 DEF Threads
<1>10. \A q, r \in Procs : Wire(q, r)' = Wire(q, r)
  BY <1>2 DEF Wire
<1>13. \A id \in lead'.completed : <<proc[Leader].exp, id>> \in hist'.finished
  BY <1>0, <1>4, <1>5 DEF LeadOK
<1> QED
  BY <1>4, <1>5, <1>6, <1>8, <1>9, <1>10, <1>13, LeaderStep

(* The leader keeps what it holds when only its stop signal changes. *)
LEMMA StopSignalled ==
  ASSUME NEW T, Grow(T, T), NEW p \in Procs, proc[p].exp \in Nat, ProcOK(T, p),
         NEW s, s = proc'[p], s.exp = proc[p].exp, s.phase = proc[p].phase,
         s.ranges = proc[p].ranges, s.local = proc[p].local,
         s.assignmentsReady = proc[p].assignmentsReady,
         s.interfaces = proc[p].interfaces, s.inbound = proc[p].inbound,
         s.start = proc[p].start,
         s.stop => proc[p].stop \/ (Due(proc[p].exp))'
  PROVE  ProcOK(T, p)'
<1>1. PhaseOK(p)'
  BY DEF PhaseOK, ProcOK
<1>2. \A m \in proc'[p].inbound : m.exp = proc[p].exp /\ m.to \in proc'[p].interfaces
  BY DEF ProcOK
<1>3. Held(p)' => Held(p) /\ HolderOK(T, p)
  BY DEF Held, ProcOK
<1>4. HolderOK(T, p) /\ proc'[p].phase \in Hosting =>
        proc'[p].interfaces = proc'[p].local /\ proc'[p].local # {}
  BY DEF HolderOK
<1> QED BY <1>1, <1>2, <1>3, <1>4, ProcFrom

(* The stop is sent. *)
LEMMA BroadcastStopStep ==
  ASSUME NEW T \in Table, InvFor(T), BroadcastStop
  PROVE  InvFor(T)'
<1>0. /\ proc[Leader] \in ProcState /\ proc[Leader].exp \in Nat /\ ProcOK(T, Leader)
      /\ Leader \in Procs /\ LeadOK(T)
      /\ lead \in LeadState /\ hist \in HistState /\ Leader \notin hist.restarted
      /\ chan \in [Procs \X Procs -> Seq(Message)]
  BY Setting
<1>1. PICK s : s = [proc[Leader] EXCEPT !.stop = TRUE]
  OBVIOUS
<1>2. PICK m : m = [type |-> "stop", exp |-> proc[Leader].exp]
  OBVIOUS
<1>3. PICK S : S = ToSet(lead.order) \ {Leader}
  OBVIOUS
<1>4. PICK t \in lead.stopping :
        /\ proc' = [proc EXCEPT ![Leader] = s]
        /\ lead' = [lead EXCEPT !.stopping = @ \ {t}]
        /\ chan' = sendJson(chan, Leader, S, m)
        /\ scenario' = scenario /\ hist' = hist
  BY <1>1, <1>2, <1>3 DEF BroadcastStop, Msg
<1>5. /\ s \in ProcState /\ s.phase = proc[Leader].phase /\ s.exp = proc[Leader].exp
      /\ s.ranges = proc[Leader].ranges /\ s.local = proc[Leader].local
      /\ s.assignmentsReady = proc[Leader].assignmentsReady
      /\ s.interfaces = proc[Leader].interfaces /\ s.inbound = proc[Leader].inbound
      /\ s.start = proc[Leader].start /\ s.stop = TRUE
  BY <1>0, <1>1 DEF ProcState
<1>6. /\ lead' \in LeadState /\ lead'.order = lead.order /\ lead'.ready = lead.ready
      /\ lead'.assigned = lead.assigned /\ lead'.completed = lead.completed
      /\ lead'.timer = lead.timer /\ lead'.stopping \subseteq lead.stopping
      /\ lead'.timerExp = lead.timerExp /\ lead'.starters = lead.starters
  BY <1>0, <1>4 DEF LeadState
<1>7. m \in Message /\ m.type = "stop" /\ m.exp = proc[Leader].exp
  BY <1>0, <1>2, MessagesMade
<1>8. /\ chan' \in [Procs \X Procs -> Seq(Message)]
      /\ \A q, r \in Procs : \A x \in Wire(q, r)' :
           x \in Wire(q, r) \/ (q = Leader /\ r \in S /\ x = m)
  <2>1. S \in SUBSET Procs /\ Leader \notin S
    <3>1. lead.order \in Seq(Procs)
      BY <1>0 DEF LeadState
    <3> QED BY <1>3, <3>1, ToSetType
  <2>2. /\ chan' \in [Procs \X Procs -> Seq(Message)]
        /\ \A q, r \in Procs : \A x \in Wire(q, r)' :
             x \in Wire(q, r) \/ (q = Leader /\ r \in S /\ x = m)
    BY <1>0, <1>4, <1>7, <2>1, SendJsonFacts
  <2> QED BY <1>0, <2>1, <2>2
<1>9. /\ Types' /\ Grow(T, T)
      /\ proc'[Leader] = s /\ \A x \in Procs : x # Leader => proc'[x] = proc[x]
      /\ proc'[Leader].exp = proc[Leader].exp
      /\ proc'[Leader].ranges = proc[Leader].ranges
  <2>1. chan' \in [Procs \X Procs -> Seq(Message)]
    BY <1>8
  <2> QED BY <1>0, <1>4, <1>5, <1>6, <2>1, LocalGrow
<1>10. PICK e \in Nat : e = proc[Leader].exp /\ e = proc'[Leader].exp
  BY <1>0, <1>9
<1>11. e > 0 /\ (Due(e))'
  <2>1. e > 0 /\ (Due(e))
    BY <1>0, <1>4, <1>10 DEF LeadOK, Threads
  <2> QED BY <1>9, <2>1, ExperimentStable
<1>12. ProcOK(T, Leader)'
  BY <1>0, <1>5, <1>9, <1>10, <1>11, StopSignalled
<1>13. Threads(T)'
  <2>1. Undisturbed
    BY <1>0, <1>5, <1>6, <1>9 DEF Undisturbed, LeadOK, Threads
  <2> QED BY <1>0, <1>9, <2>1, ThreadsStable
<1>14. \A q, r \in Procs : \A x \in Wire(q, r)' : x \in Wire(q, r) \/ MsgOK(T, q, r, x)'
  <2>1. \A r \in S : MsgOK(T, Leader, r, m)'
    BY <1>3, <1>7, <1>10, <1>11 DEF MsgOK
  <2> QED BY <1>8, <2>1
<1>16. \A id \in lead'.completed : <<proc[Leader].exp, id>> \in hist'.finished
  BY <1>0, <1>4, <1>6 DEF LeadOK
<1> QED
  BY <1>4, <1>6, <1>8, <1>9, <1>12, <1>13, <1>14, <1>16, LeaderStep

(* All peers of the leader's experiment are done. *)
LEMMA CompletedAll ==
  ASSUME scenario \in Scenarios, NEW C \in SUBSET Ids, Cardinality(C) >= scenario.total
  PROVE  C = Ids
<1>1. scenario.total \in Nat \ {0}
  BY ScenarioFacts
<1>2. IsFiniteSet(Ids) /\ Cardinality(Ids) = scenario.total
  <2>1. PICK n \in Nat : n = scenario.total - 1
    BY <1>1
  <2>2. 0 \in Int /\ n \in Int /\ ~(0 > n) /\ n - 0 + 1 = scenario.total /\ Ids = 0 .. n
    BY <1>1, <2>1 DEF Ids
  <2>3. IsFiniteSet(0 .. n) /\ Cardinality(0 .. n) = IF 0 > n THEN 0 ELSE n - 0 + 1
    BY <2>2, FS_Interval
  <2> QED BY <2>2, <2>3
<1>3. IsFiniteSet(C) /\ Cardinality(C) <= Cardinality(Ids)
      /\ (Cardinality(C) = Cardinality(Ids) => C = Ids)
  BY <1>2, FS_Subset
<1>4. Cardinality(C) \in Nat
  BY <1>3, FS_CardinalityType
<1> QED BY <1>1, <1>2, <1>3, <1>4

(* A peer is done: what the leader records *)
LEMMA PeerDoneFacts ==
  ASSUME scenario \in Scenarios, lead \in LeadState, proc[Leader] \in ProcState,
         NEW id \in Ids, NEW t \in {"main", "handler"}, NEW r, r = peerDone(id, t)
  PROVE  /\ r.s \in ProcState /\ r.l \in LeadState
         /\ r.s.phase = proc[Leader].phase /\ r.s.exp = proc[Leader].exp
         /\ r.s.ranges = proc[Leader].ranges /\ r.s.local = proc[Leader].local
         /\ r.s.assignmentsReady = proc[Leader].assignmentsReady
         /\ r.s.interfaces = proc[Leader].interfaces
         /\ r.s.inbound = proc[Leader].inbound /\ r.s.start = proc[Leader].start
         /\ r.l.order = lead.order /\ r.l.ready = lead.ready
         /\ r.l.assigned = lead.assigned /\ r.l.timer = lead.timer
         /\ r.l.timerExp = lead.timerExp /\ r.l.starters = lead.starters
         /\ r.l.completed = lead.completed \cup {id}
         /\ r.l.stopping \subseteq lead.stopping \cup {t}
         /\ \/ r.l.completed = Ids
            \/ r.l.stopping = lead.stopping /\ r.s = proc[Leader]
<1>1. PICK C : C = lead.completed \cup {id}
  OBVIOUS
<1>2. PICK l : l = [lead EXCEPT !.completed = C]
  OBVIOUS
<1>3. /\ C \in SUBSET Ids /\ l \in LeadState /\ l.completed = C
      /\ l.order = lead.order /\ l.ready = lead.ready
      /\ l.assigned = lead.assigned /\ l.timer = lead.timer /\ l.stopping = lead.stopping
      /\ l.timerExp = lead.timerExp /\ l.starters = lead.starters
  BY <1>1, <1>2 DEF LeadState
<1>4. r = IF Cardinality(C) >= scenario.total THEN beginStop(proc[Leader], l, t)
          ELSE [s |-> proc[Leader], l |-> l]
  BY <1>1, <1>2, <1>3 DEF peerDone
<1>5. CASE Cardinality(C) >= scenario.total
  <2>1. C = Ids
    BY <1>3, <1>5, CompletedAll
  <2>2. /\ r.s = [proc[Leader] EXCEPT !.stop = TRUE]
        /\ r.l = IF proc[Leader].stop THEN l ELSE [l EXCEPT !.stopping = @ \cup {t}]
    BY <1>4, <1>5 DEF beginStop
  <2>3. /\ r.l \in LeadState /\ r.l.completed = C
        /\ r.l.order = l.order /\ r.l.ready = l.ready
        /\ r.l.assigned = l.assigned /\ r.l.timer = l.timer
        /\ r.l.timerExp = l.timerExp /\ r.l.starters = l.starters
        /\ r.l.stopping \subseteq l.stopping \cup {t}
    <3>1. CASE r.l = l
      BY <1>3, <3>1
    <3>2. CASE r.l = [l EXCEPT !.stopping = @ \cup {t}]
      BY <1>3, <3>2 DEF LeadState
    <3> QED BY <2>2, <3>1, <3>2
  <2>4. /\ r.s \in ProcState
        /\ r.s.phase = proc[Leader].phase /\ r.s.exp = proc[Leader].exp
        /\ r.s.ranges = proc[Leader].ranges /\ r.s.local = proc[Leader].local
        /\ r.s.assignmentsReady = proc[Leader].assignmentsReady
        /\ r.s.interfaces = proc[Leader].interfaces
        /\ r.s.inbound = proc[Leader].inbound /\ r.s.start = proc[Leader].start
    BY <2>2 DEF ProcState
  <2> QED BY <1>1, <1>3, <2>1, <2>3, <2>4
<1>6. CASE ~(Cardinality(C) >= scenario.total)
  <2>1. r.s = proc[Leader] /\ r.l = l
    BY <1>4, <1>6
  <2> QED BY <1>1, <1>3, <2>1
<1> QED BY <1>5, <1>6

(* A peer is done: what holds afterwards *)
LEMMA PeerDoneStep ==
  ASSUME NEW T \in Table, InvFor(T), NEW id \in Ids, NEW t \in {"main", "handler"},
         NEW r, r = peerDone(id, t), proc' = [proc EXCEPT ![Leader] = r.s], lead' = r.l,
         scenario' = scenario, hist' \in HistState,
         hist.finished \subseteq hist'.finished, hist'.elapsed = hist.elapsed,
         hist'.restarted = hist.restarted, hist'.late = hist.late,
         <<proc[Leader].exp, id>> \in hist'.finished,
         chan' \in [Procs \X Procs -> Seq(Message)],
         \A x, y \in Procs : Wire(x, y)' \subseteq Wire(x, y),
         t = "main" => proc[Leader].phase = "running", proc[Leader].exp > 0
  PROVE  InvFor(T)'
<1>0. /\ proc[Leader] \in ProcState /\ proc[Leader].exp \in Nat /\ ProcOK(T, Leader)
      /\ Leader \in Procs /\ LeadOK(T) /\ scenario \in Scenarios
      /\ lead \in LeadState
  BY Setting
<1>1. PICK s : s = r.s
  OBVIOUS
<1>2. /\ s \in ProcState /\ lead' \in LeadState
      /\ s.phase = proc[Leader].phase /\ s.exp = proc[Leader].exp
      /\ s.ranges = proc[Leader].ranges /\ s.local = proc[Leader].local
      /\ s.assignmentsReady = proc[Leader].assignmentsReady
      /\ s.interfaces = proc[Leader].interfaces
      /\ s.inbound = proc[Leader].inbound /\ s.start = proc[Leader].start
      /\ lead'.order = lead.order /\ lead'.ready = lead.ready
      /\ lead'.assigned = lead.assigned /\ lead'.timer = lead.timer
      /\ lead'.timerExp = lead.timerExp /\ lead'.starters = lead.starters
      /\ lead'.completed = lead.completed \cup {id}
      /\ lead'.stopping \subseteq lead.stopping \cup {t}
      /\ \/ lead'.completed = Ids
         \/ lead'.stopping = lead.stopping /\ s = proc[Leader]
  <2>1. /\ r.s \in ProcState /\ r.l \in LeadState
        /\ r.s.phase = proc[Leader].phase /\ r.s.exp = proc[Leader].exp
        /\ r.s.ranges = proc[Leader].ranges /\ r.s.local = proc[Leader].local
        /\ r.s.assignmentsReady = proc[Leader].assignmentsReady
        /\ r.s.interfaces = proc[Leader].interfaces
        /\ r.s.inbound = proc[Leader].inbound /\ r.s.start = proc[Leader].start
        /\ r.l.order = lead.order /\ r.l.ready = lead.ready
        /\ r.l.assigned = lead.assigned /\ r.l.timer = lead.timer
        /\ r.l.timerExp = lead.timerExp /\ r.l.starters = lead.starters
        /\ r.l.completed = lead.completed \cup {id}
        /\ r.l.stopping \subseteq lead.stopping \cup {t}
        /\ \/ r.l.completed = Ids
           \/ r.l.stopping = lead.stopping /\ r.s = proc[Leader]
    BY <1>0, PeerDoneFacts
  <2> QED BY <1>1, <2>1
<1>3. /\ Types' /\ Grow(T, T)
      /\ proc'[Leader] = s /\ \A x \in Procs : x # Leader => proc'[x] = proc[x]
      /\ proc'[Leader].exp = proc[Leader].exp
      /\ proc'[Leader].ranges = proc[Leader].ranges
  <2>1. /\ proc' = [proc EXCEPT ![Leader] = s] /\ hist.elapsed \subseteq hist'.elapsed
        /\ hist.restarted \subseteq hist'.restarted /\ hist.late \subseteq hist'.late
    BY <1>1
  <2> QED BY <1>0, <1>2, <2>1, LocalGrow
<1>4. PICK e \in Nat : e = proc[Leader].exp /\ e = proc'[Leader].exp
  BY <1>0, <1>3
<1>5. \A x \in lead'.completed : <<e, x>> \in hist'.finished
  BY <1>0, <1>2, <1>4 DEF LeadOK
<1>6. \/ Due(e)'
      \/ lead'.stopping = lead.stopping /\ s = proc[Leader]
  <2>1. Ids' = Ids
    BY ScenarioFixed
  <2> QED BY <1>2, <1>5, <2>1 DEF Due
<1>7. ProcOK(T, Leader)'
  BY <1>0, <1>2, <1>3, <1>4, <1>6, StopSignalled
<1>8. Threads(T)'
  <2>1. /\ Open(T, e) => Open(T, e)'
        /\ Due(e) => (Due(e))'
    BY <1>3, ExperimentStable
  <2>2. lead'.stopping # {} => e > 0 /\ (Due(e))'
    <3>1. lead.stopping # {} => Due(e)
      BY <1>0, <1>4 DEF LeadOK, Threads
    <3> QED BY <1>4, <1>6, <2>1, <3>1
  <2>3. /\ "main" \in lead'.stopping => proc'[Leader].phase = "running"
        /\ lead'.starters["main"].at # "none" => proc'[Leader].phase = "waiting"
        /\ "timer" \in lead'.stopping => lead'.timer # "off"
    BY <1>0, <1>2, <1>3 DEF LeadOK, Threads
  <2>4. \A x \in Starters : lead'.starters[x].at \in {"loop", "timer"} =>
          e > 0 /\ Open(T, e)'
    BY <1>0, <1>2, <1>4, <2>1 DEF LeadOK, Threads
  <2>5. lead'.timer # "off" =>
          /\ e > 0 /\ (lead'.timerExp = e \/ e - 1 \in hist'.late)
          /\ proc'[Leader].phase = "idle" => e \in hist'.late
    BY <1>0, <1>2, <1>3, <1>4 DEF LeadOK, Threads
  <2> QED BY <1>4, <2>2, <2>3, <2>4, <2>5 DEF Threads
<1> QED
  BY <1>2, <1>3, <1>4, <1>5, <1>7, <1>8, LeaderStep

(* notifyPeerStopped of the leader *)
LEMMA LeaderPeerStops ==
  ASSUME NEW T \in Table, InvFor(T), NEW id \in Ids, RequestStop(Leader, id)
  PROVE  InvFor(T)'
<1>0. /\ proc[Leader].exp \in Nat /\ ProcOK(T, Leader) /\ Leader \in Procs
      /\ hist \in HistState /\ chan \in [Procs \X Procs -> Seq(Message)]
  BY Setting
<1>1. PICK r : r = peerDone(id, "main")
  OBVIOUS
<1>2. /\ proc[Leader].phase = "running" /\ proc' = [proc EXCEPT ![Leader] = r.s]
      /\ lead' = r.l /\ chan' = chan /\ scenario' = scenario
      /\ hist' = [hist EXCEPT !.finished = @ \cup {<<proc[Leader].exp, id>>}]
  BY <1>1 DEF RequestStop
<1>3. /\ hist' \in HistState /\ hist'.elapsed = hist.elapsed
      /\ hist'.restarted = hist.restarted
      /\ hist'.late = hist.late
      /\ hist'.finished = hist.finished \cup {<<proc[Leader].exp, id>>}
  BY <1>0, <1>2, FinishedFacts
<1>4. \A x, y \in Procs : Wire(x, y)' = Wire(x, y)
  BY <1>2 DEF Wire
<1>6. proc[Leader].exp > 0
  BY <1>0, <1>2 DEF ProcOK, PhaseOK
<1> QED
  BY <1>0, <1>1, <1>2, <1>3, <1>4, <1>6, PeerDoneStep

(* Where a thread of the leader may be *)
Place == [at : {"none", "gate", "loop", "timer"}, left : Seq(Procs)]

(* The records of a leader that puts thread t before the gate *)
LEMMA GateFacts ==
  ASSUME lead \in LeadState, NEW t \in Starters, NEW R \in SUBSET Procs,
         lead' = [lead EXCEPT !.ready = R, !.starters[t].at = "gate"]
  PROVE  /\ lead' \in LeadState /\ lead'.order = lead.order /\ lead'.ready = R
         /\ lead'.assigned = lead.assigned /\ lead'.completed = lead.completed
         /\ lead'.timer = lead.timer /\ lead'.stopping = lead.stopping
         /\ lead'.timerExp = lead.timerExp /\ lead'.starters[t].at = "gate"
         /\ \A x \in Starters : x # t => lead'.starters[x] = lead.starters[x]
<1>1. lead.starters \in [Starters -> Place]
  BY DEF LeadState, Place
<1>2. PICK w : w = [lead.starters[t] EXCEPT !.at = "gate"]
  OBVIOUS
<1>3. w \in Place /\ w.at = "gate"
  BY <1>1, <1>2 DEF Place
<1>4. PICK f : f = [lead.starters EXCEPT ![t] = w]
  OBVIOUS
<1>5. /\ f \in [Starters -> Place] /\ f[t].at = "gate"
      /\ \A x \in Starters : x # t => f[x] = lead.starters[x]
  BY <1>1, <1>3, <1>4
<1>6. lead' = [lead EXCEPT !.ready = R, !.starters = f]
  BY <1>2, <1>4
<1> QED BY <1>5, <1>6 DEF LeadState, Place

(***************************************************************************)
(* The steps of the leader that start an experiment.                       *)
(***************************************************************************)
(* The records of a leader that marks processes as ready *)
LEMMA LeadMarks ==
  ASSUME NEW T, NEW U, Grow(T, U), scenario \in Scenarios, LeadOK(T),
         lead'.order = lead.order, lead'.assigned = lead.assigned,
         lead'.ready \subseteq ToSet(lead.order),
         \A q \in lead'.ready : q \in Procs /\ Passed(q, proc[Leader].exp)',
         Leader \notin hist'.restarted, proc[Leader].exp \in Nat,
         proc'[Leader].exp = proc[Leader].exp,
         proc'[Leader].ranges = proc[Leader].ranges,
         \A id \in lead'.completed : <<proc[Leader].exp, id>> \in hist'.finished,
         Threads(U)'
  PROVE  LeadOK(U)'
<1>0. PICK e \in Nat : e = proc[Leader].exp /\ e = proc'[Leader].exp
  OBVIOUS
<1>1. /\ Procs' = Procs /\ Ids' = Ids /\ scenario' = scenario
      /\ \A o : Requested(o)' = Requested(o)
      /\ \A o : peerRanges(o)' = peerRanges(o)
  BY ScenarioFixed DEF Grow
<1>2. Distributed' <=> Distributed
  BY DEF Distributed
<1>3. Registrations'
  BY <1>1, <1>2 DEF Registrations, LeadOK
<1>5. Distributed' => U[e] = proc'[Leader].ranges
  <2>1. Distributed => Known(e)
    BY <1>0 DEF Known
  <2>2. Known(e) => U[e] = T[e]
    BY DEF Grow
  <2> QED BY <1>0, <1>2, <2>1, <2>2 DEF LeadOK
<1>6. \A q \in lead'.ready : Passed(q, e)'
  BY <1>0
<1> QED
  BY <1>0, <1>3, <1>5, <1>6 DEF LeadOK

(* markReady of the leader, up to the gate *)
LEMMA LeaderReady ==
  ASSUME NEW T \in Table, InvFor(T), MarkReady(Leader)
  PROVE  InvFor(T)'
<1>0. /\ proc[Leader] \in ProcState /\ proc[Leader].exp \in Nat /\ ProcOK(T, Leader)
      /\ Leader \in Procs /\ LeadOK(T) /\ scenario \in Scenarios
      /\ lead \in LeadState /\ hist \in HistState /\ Leader \notin hist.restarted
      /\ chan \in [Procs \X Procs -> Seq(Message)]
      /\ \A q, r \in Procs : \A m \in Wire(q, r) : m \in Message /\ MsgOK(T, q, r, m)
  BY Setting
<1>1. PICK s : s = [proc[Leader] EXCEPT !.phase = "waiting"]
  OBVIOUS
<1>2. /\ proc[Leader].phase = "built" /\ proc' = [proc EXCEPT ![Leader] = s]
      /\ lead' = [lead EXCEPT !.ready = @ \cup {Leader}, !.starters["main"].at = "gate"]
      /\ scenario' = scenario /\ chan' = chan /\ hist' = hist
  BY <1>1 DEF MarkReady
<1>3. /\ s \in ProcState /\ s.phase = "waiting" /\ s.exp = proc[Leader].exp
      /\ s.ranges = proc[Leader].ranges /\ s.local = proc[Leader].local
      /\ s.interfaces = proc[Leader].interfaces /\ s.inbound = proc[Leader].inbound
      /\ s.start = proc[Leader].start /\ s.stop = proc[Leader].stop
  BY <1>0, <1>1 DEF ProcState, Phase
<1>4. /\ lead' \in LeadState /\ lead'.order = lead.order
      /\ lead'.ready = lead.ready \cup {Leader}
      /\ lead'.assigned = lead.assigned /\ lead'.completed = lead.completed
      /\ lead'.timer = lead.timer /\ lead'.stopping = lead.stopping
      /\ lead'.timerExp = lead.timerExp /\ lead'.starters["main"].at = "gate"
      /\ \A t \in Starters : t # "main" => lead'.starters[t] = lead.starters[t]
  <2>1. PICK R : R = lead.ready \cup {Leader}
    OBVIOUS
  <2>2. /\ lead' = [lead EXCEPT !.ready = R, !.starters["main"].at = "gate"]
        /\ R \in SUBSET Procs /\ "main" \in Starters
    BY <1>0, <1>2, <2>1 DEF LeadState, Starters
  <2> QED BY <1>0, <2>1, <2>2, GateFacts
<1>5. /\ Types' /\ Grow(T, T)
      /\ proc'[Leader] = s /\ \A x \in Procs : x # Leader => proc'[x] = proc[x]
      /\ proc'[Leader].exp = proc[Leader].exp
      /\ proc'[Leader].ranges = proc[Leader].ranges
  BY <1>0, <1>2, <1>3, <1>4, LocalGrow
<1>6. Held(Leader) /\ HolderOK(T, Leader) /\ proc[Leader].exp > 0
  BY <1>0, <1>2 DEF Held, Hosting, ProcOK, PhaseOK
<1>7. ProcOK(T, Leader)'
  <2>1. PhaseOK(Leader)'
    BY <1>3, <1>5, <1>6 DEF PhaseOK, Hosting
  <2>2. \A x \in proc'[Leader].inbound :
          x.exp = proc[Leader].exp /\ x.to \in proc'[Leader].interfaces
    BY <1>0, <1>3, <1>5 DEF ProcOK
  <2>3. proc'[Leader].interfaces = proc'[Leader].local /\ proc'[Leader].local # {}
    BY <1>2, <1>3, <1>5, <1>6 DEF HolderOK, Hosting
  <2> QED BY <1>0, <1>3, <1>5, <1>6, <2>1, <2>2, <2>3, ProcFrom
<1>8. Threads(T)'
  <2>1. "main" \notin lead.stopping
    BY <1>0, <1>2 DEF LeadOK, Threads
  <2>2. Undisturbed
    BY <1>3, <1>4, <1>5, <2>1 DEF Undisturbed
  <2> QED BY <1>0, <1>5, <2>2, ThreadsStable
<1>9. LeadOK(T)'
  <2>1. Leader \in ToSet(lead.order)
    <3>1. lead.order \in Seq(Procs) /\ lead.order # <<>> /\ lead.order[1] = Leader
      BY <1>0, <1>6 DEF LeadOK, Registrations, LeadState
    <3>2. 1 \in DOMAIN lead.order
      BY <3>1
    <3> QED BY <3>1, <3>2 DEF ToSet
  <2>2. lead'.ready \subseteq ToSet(lead.order)
    BY <1>0, <1>4, <2>1 DEF LeadOK, Registrations
  <2>3. PICK e \in Nat : e = proc[Leader].exp /\ e = proc'[Leader].exp
    BY <1>0, <1>5
  <2>4. Passed(Leader, e)'
    BY <1>3, <1>5, <2>3 DEF Passed
  <2>5. \A q \in lead.ready : q \in Procs /\ Passed(q, e)'
    <3>1. \A q \in lead.ready : q \in Procs /\ Passed(q, e)
      BY <1>0, <2>3 DEF LeadOK, LeadState
    <3> QED BY <1>5, <3>1 DEF Grow
  <2>6. \A q \in lead'.ready : q \in Procs /\ Passed(q, e)'
    BY <1>0, <1>4, <2>4, <2>5
  <2>7. \A id \in lead'.completed : <<proc[Leader].exp, id>> \in hist'.finished
    BY <1>0, <1>2, <1>4 DEF LeadOK
  <2> QED BY <1>0, <1>2, <1>4, <1>5, <1>8, <2>2, <2>3, <2>6, <2>7, LeadMarks
<1>11. \A q, r \in Procs : Wire(q, r)' = Wire(q, r)
  BY <1>2 DEF Wire
<1> QED
  BY <1>0, <1>5, <1>7, <1>9, <1>11, StepFrom

(* Once the gate is open, every process that hosts a peer is ready. *)
LEMMA GateOpens ==
  ASSUME NEW T \in Table, InvFor(T), mayStart(lead)
  PROVE  proc[Leader].exp > 0 /\ Open(T, proc[Leader].exp)
<1>0. /\ LeadOK(T) /\ scenario \in Scenarios /\ lead.order \in Seq(Procs)
      /\ proc[Leader].exp \in Nat
  BY Setting DEF LeadState
<1>1. PICK e \in Nat : e = proc[Leader].exp
  BY <1>0
<1>2. Requested(lead.order) >= scenario.total /\ ToSet(lead.order) \subseteq lead.ready
  BY DEF mayStart
<1>3. Distributed /\ T[e] = peerRanges(lead.order)
  BY <1>0, <1>1, <1>2 DEF LeadOK, Registrations
<1>4. peerRanges(lead.order) \in [Ids -> ToSet(lead.order)]
  BY <1>0, <1>2, RangesOfOrder
<1>5. ASSUME NEW id \in Ids PROVE Passed(T[e][id], e)
  <2>1. T[e][id] \in lead.ready
    BY <1>2, <1>3, <1>4
  <2> QED BY <1>0, <1>1, <2>1 DEF LeadOK
<1>6. Known(e)
  BY <1>1, <1>3 DEF Known
<1>7. e > 0
  <2>1. 0 \in Ids
    BY <1>0, ScenarioFacts
  <2>2. peerRanges(lead.order)[0] \in ToSet(lead.order)
    BY <1>4, <2>1
  <2>3. lead.order # <<>>
    BY <2>2 DEF ToSet
  <2> QED BY <1>0, <1>1, <2>3 DEF LeadOK, Registrations
<1> QED BY <1>1, <1>5, <1>6, <1>7 DEF Open

(* The leader's experiment has begun, and may start. *)
Opened(T) == proc[Leader].exp > 0 /\ Open(T, proc[Leader].exp)

(* Thread t of the leader moves inside broadcastStartIfReady: all it may    *)
(* send is the start of an experiment that may start.                      *)
Moved(T, t) ==
  /\ scenario' = scenario /\ hist' = hist
  /\ lead' \in LeadState /\ lead'.order = lead.order /\ lead'.ready = lead.ready
  /\ lead'.assigned = lead.assigned /\ lead'.completed = lead.completed
  /\ lead'.stopping = lead.stopping /\ lead'.timer = lead.timer
  /\ lead'.timerExp = lead.timerExp
  /\ \A x \in Starters : x # t => lead'.starters[x] = lead.starters[x]
  /\ lead.starters[t].at # "none"
  /\ lead'.starters[t].at \in {"loop", "timer"} => Opened(T)
  /\ chan' \in [Procs \X Procs -> Seq(Message)]
  /\ \A q, r \in Procs : \A x \in Wire(q, r)' :
       \/ x \in Wire(q, r)
       \/ q = Leader /\ r # Leader /\ x = Msg("start", Leader) /\ Opened(T)

(* It leaves the coordinator in state s.                                   *)
LEMMA StarterStep ==
  ASSUME NEW T \in Table, InvFor(T), NEW t \in Starters, NEW s,
         s = proc[Leader] \/ (s = [proc[Leader] EXCEPT !.start = TRUE] /\ Opened(T)),
         proc' = [proc EXCEPT ![Leader] = s], Moved(T, t)
  PROVE  InvFor(T)'
<1> USE DEF Moved
<1>0. /\ proc[Leader] \in ProcState /\ proc[Leader].exp \in Nat /\ ProcOK(T, Leader)
      /\ Leader \in Procs /\ LeadOK(T)
      /\ hist \in HistState /\ Leader \notin hist.restarted
  BY Setting
<1>1. /\ s \in ProcState /\ s.phase = proc[Leader].phase /\ s.exp = proc[Leader].exp
      /\ s.ranges = proc[Leader].ranges /\ s.local = proc[Leader].local
      /\ s.assignmentsReady = proc[Leader].assignmentsReady
      /\ s.interfaces = proc[Leader].interfaces /\ s.inbound = proc[Leader].inbound
      /\ s.stop = proc[Leader].stop
      /\ s.start = proc[Leader].start \/ (s.start /\ Opened(T))
  <2>1. CASE s = proc[Leader]
    BY <1>0, <2>1
  <2>2. CASE s = [proc[Leader] EXCEPT !.start = TRUE] /\ Opened(T)
    BY <1>0, <2>2 DEF ProcState
  <2> QED BY <2>1, <2>2
<1>2. /\ Types' /\ Grow(T, T)
      /\ proc'[Leader] = s /\ \A x \in Procs : x # Leader => proc'[x] = proc[x]
      /\ proc'[Leader].exp = proc[Leader].exp
      /\ proc'[Leader].ranges = proc[Leader].ranges
  BY <1>0, <1>1, LocalGrow
<1>3. PICK e \in Nat : e = proc[Leader].exp /\ e = proc'[Leader].exp
  BY <1>0, <1>2
<1>4. /\ Open(T, e) => Open(T, e)'
      /\ Due(e) => (Due(e))'
  BY <1>2, ExperimentStable
<1>5. Opened(T) => e > 0 /\ Open(T, e)'
  BY <1>3, <1>4 DEF Opened
<1>6. ProcOK(T, Leader)'
  <2>1. PhaseOK(Leader)'
    BY <1>0, <1>1, <1>2 DEF PhaseOK, ProcOK
  <2>2. \A x \in proc'[Leader].inbound :
          x.exp = proc[Leader].exp /\ x.to \in proc'[Leader].interfaces
    BY <1>0, <1>1, <1>2 DEF ProcOK
  <2>3. Held(Leader)' => Held(Leader) /\ HolderOK(T, Leader)
    BY <1>0, <1>1, <1>2 DEF Held, ProcOK
  <2>4. HolderOK(T, Leader) /\ proc'[Leader].phase \in Hosting =>
          proc'[Leader].interfaces = proc'[Leader].local /\ proc'[Leader].local # {}
    BY <1>1, <1>2 DEF HolderOK
  <2> QED BY <1>0, <1>1, <1>2, <1>3, <1>5, <2>1, <2>2, <2>3, <2>4, ProcFrom
<1>7. Threads(T)'
  <2>1. /\ "main" \in lead'.stopping => proc'[Leader].phase = "running"
        /\ "timer" \in lead'.stopping => lead'.timer # "off"
        /\ lead'.starters["main"].at # "none" => proc'[Leader].phase = "waiting"
    <3>1. "main" \in Starters
      BY DEF Starters
    <3> QED BY <1>0, <1>1, <1>2, <3>1 DEF LeadOK, Threads
  <2>2. lead'.stopping # {} => e > 0 /\ (Due(e))'
    BY <1>0, <1>3, <1>4 DEF LeadOK, Threads
  <2>3. ASSUME NEW x \in Starters, lead'.starters[x].at \in {"loop", "timer"}
        PROVE  e > 0 /\ Open(T, e)'
    <3>1. CASE x = t
      BY <1>5, <2>3, <3>1
    <3>2. CASE x # t
      BY <1>0, <1>3, <1>4, <2>3, <3>2 DEF LeadOK, Threads
    <3> QED BY <3>1, <3>2
  <2>4. lead'.timer # "off" =>
          /\ e > 0 /\ (lead'.timerExp = e \/ e - 1 \in hist'.late)
          /\ proc'[Leader].phase = "idle" => e \in hist'.late
    BY <1>0, <1>1, <1>2, <1>3 DEF LeadOK, Threads
  <2> QED BY <1>3, <2>1, <2>2, <2>3, <2>4 DEF Threads
<1>8. \A q, r \in Procs : \A x \in Wire(q, r)' : x \in Wire(q, r) \/ MsgOK(T, q, r, x)'
  <2>1. PICK m : m = Msg("start", Leader)
    OBVIOUS
  <2>2. ASSUME Opened(T), NEW r \in Procs, r # Leader PROVE MsgOK(T, Leader, r, m)'
    <3>1. m.type = "start" /\ m.exp = e
      BY <1>3, <2>1 DEF Msg
    <3> QED BY <1>5, <2>2, <3>1 DEF MsgOK
  <2> QED BY <2>1, <2>2
<1>9. \A id \in lead'.completed : <<proc[Leader].exp, id>> \in hist'.finished
  BY <1>0 DEF LeadOK
<1> QED
  BY <1>2, <1>6, <1>7, <1>8, <1>9, LeaderStep

(* The records of a leader whose thread t goes to place w *)
LEMMA MoveFacts ==
  ASSUME lead \in LeadState, NEW t \in Starters, NEW w \in Place, NEW b \in BOOLEAN,
         lead' = [lead EXCEPT !.starters[t] = w, !.active = b]
  PROVE  /\ lead' \in LeadState /\ lead'.order = lead.order /\ lead'.ready = lead.ready
         /\ lead'.assigned = lead.assigned /\ lead'.completed = lead.completed
         /\ lead'.stopping = lead.stopping /\ lead'.timer = lead.timer
         /\ lead'.timerExp = lead.timerExp /\ lead'.starters[t] = w
         /\ \A x \in Starters : x # t => lead'.starters[x] = lead.starters[x]
<1>1. lead.starters \in [Starters -> Place]
  BY DEF LeadState, Place
<1>2. PICK f : f = [lead.starters EXCEPT ![t] = w]
  OBVIOUS
<1>3. /\ f \in [Starters -> Place] /\ f[t] = w
      /\ \A x \in Starters : x # t => f[x] = lead.starters[x]
  BY <1>1, <1>2
<1>4. lead' = [lead EXCEPT !.starters = f, !.active = b]
  BY <1>2
<1> QED BY <1>3, <1>4 DEF LeadState, Place

(* A thread of the leader tests the gate. *)
LEMMA TestGateStep ==
  ASSUME NEW T \in Table, InvFor(T), NEW t \in Starters, TestGate(t)
  PROVE  InvFor(T)'
<1>0. /\ lead \in LeadState /\ Leader \in Procs /\ Types
      /\ chan \in [Procs \X Procs -> Seq(Message)]
  BY Setting
<1>1. PICK w : w = IF mayStart(lead) THEN [at |-> "loop", left |-> lead.order] ELSE Outside
  OBVIOUS
<1>2. w \in Place /\ (w.at \in {"loop", "timer"} => mayStart(lead))
  BY <1>0, <1>1 DEF LeadState, Place, Outside
<1>3. /\ lead.starters[t].at = "gate"
      /\ lead' = [lead EXCEPT !.starters[t] = w, !.active = lead.active]
      /\ scenario' = scenario /\ proc' = proc /\ chan' = chan /\ hist' = hist
  BY <1>0, <1>1 DEF TestGate, LeadState
<1>4. /\ lead' \in LeadState /\ lead'.order = lead.order /\ lead'.ready = lead.ready
      /\ lead'.assigned = lead.assigned /\ lead'.completed = lead.completed
      /\ lead'.stopping = lead.stopping /\ lead'.timer = lead.timer
      /\ lead'.timerExp = lead.timerExp /\ lead'.starters[t] = w
      /\ \A x \in Starters : x # t => lead'.starters[x] = lead.starters[x]
  <2>1. lead.active \in BOOLEAN
    BY <1>0 DEF LeadState
  <2> QED BY <1>0, <1>2, <1>3, <2>1, MoveFacts
<1>5. mayStart(lead) => Opened(T)
  BY GateOpens DEF Opened
<1>6. proc' = [proc EXCEPT ![Leader] = proc[Leader]]
  BY <1>0, <1>3 DEF Types
<1>7. \A q, r \in Procs : Wire(q, r)' = Wire(q, r)
  BY <1>3 DEF Wire
<1>8. Moved(T, t)
  BY <1>0, <1>2, <1>3, <1>4, <1>5, <1>7 DEF Moved
<1> QED
  BY <1>6, <1>8, StarterStep

(* A thread of the leader takes the next record of its loop. *)
LEMMA BroadcastStartStep ==
  ASSUME NEW T \in Table, InvFor(T), NEW t \in Starters, BroadcastStart(t)
  PROVE  InvFor(T)'
<1>0. /\ lead \in LeadState /\ Leader \in Procs /\ Types /\ LeadOK(T)
      /\ proc[Leader].exp \in Nat /\ chan \in [Procs \X Procs -> Seq(Message)]
  BY Setting
<1>1. PICK p : p = lead.starters[t]
  OBVIOUS
<1>2. p \in Place /\ p.at = "loop" /\ p.left # <<>> /\ Opened(T)
  <2>1. p \in Place /\ p.at = "loop" /\ p.left # <<>>
    BY <1>0, <1>1 DEF BroadcastStart, LeadState, Place
  <2> QED BY <1>0, <1>1, <2>1 DEF LeadOK, Threads, Opened
<1>3. PICK w : w = [at |-> "loop", left |-> Tail(p.left)]
  OBVIOUS
<1>4. w \in Place /\ w = [p EXCEPT !.left = Tail(@)] /\ Head(p.left) \in Procs
  BY <1>2, <1>3 DEF Place
<1>5. PICK m : m = Msg("start", Leader)
  OBVIOUS
<1>6. /\ scenario' = scenario /\ hist' = hist
      /\ lead' = [lead EXCEPT !.starters[t] = w, !.active = lead.active]
      /\ \/ /\ proc' = [proc EXCEPT ![Leader].start = TRUE] /\ chan' = chan
         \/ /\ Head(p.left) # Leader /\ proc' = proc
            /\ chan' = sendJson(chan, Leader, {Head(p.left)}, m)
  <2>1. lead' = [lead EXCEPT !.starters[t] = w, !.active = lead.active]
    BY <1>0, <1>1, <1>4 DEF BroadcastStart, LeadState
  <2> QED BY <1>1, <1>5, <2>1 DEF BroadcastStart
<1>7. /\ lead' \in LeadState /\ lead'.order = lead.order /\ lead'.ready = lead.ready
      /\ lead'.assigned = lead.assigned /\ lead'.completed = lead.completed
      /\ lead'.stopping = lead.stopping /\ lead'.timer = lead.timer
      /\ lead'.timerExp = lead.timerExp
      /\ \A x \in Starters : x # t => lead'.starters[x] = lead.starters[x]
  <2>1. lead.active \in BOOLEAN
    BY <1>0 DEF LeadState
  <2> QED BY <1>0, <1>4, <1>6, <2>1, MoveFacts
<1>10. lead.starters[t].at # "none" /\ scenario' = scenario /\ hist' = hist
  BY <1>1, <1>2, <1>6
<1>8. CASE proc' = [proc EXCEPT ![Leader].start = TRUE] /\ chan' = chan
  <2>1. PICK s : s = [proc[Leader] EXCEPT !.start = TRUE]
    OBVIOUS
  <2>2. proc' = [proc EXCEPT ![Leader] = s]
    BY <1>8, <2>1
  <2>3. \A q, r \in Procs : Wire(q, r)' = Wire(q, r)
    BY <1>8 DEF Wire
  <2> QED
    <3>1. Moved(T, t)
      BY <1>0, <1>2, <1>7, <1>8, <1>10, <2>3 DEF Moved
    <3> QED BY <1>2, <2>1, <2>2, <3>1, StarterStep
<1>9. CASE /\ Head(p.left) # Leader /\ proc' = proc
           /\ chan' = sendJson(chan, Leader, {Head(p.left)}, m)
  <2>1. PICK S : S = {Head(p.left)}
    OBVIOUS
  <2>2. S \in SUBSET Procs /\ Leader \notin S /\ chan' = sendJson(chan, Leader, S, m)
    BY <1>4, <1>9, <2>1
  <2>3. m \in Message
    BY <1>0, <1>5, MessagesMade DEF Msg
  <2>4. /\ chan' \in [Procs \X Procs -> Seq(Message)]
        /\ \A q, r \in Procs : \A x \in Wire(q, r)' :
             x \in Wire(q, r) \/ (q = Leader /\ r \in S /\ x = m)
    BY <1>0, <2>2, <2>3, SendJsonFacts
  <2>5. proc' = [proc EXCEPT ![Leader] = proc[Leader]]
    BY <1>0, <1>9 DEF Types
  <2>6. \A q, r \in Procs : \A x \in Wire(q, r)' :
          \/ x \in Wire(q, r)
          \/ q = Leader /\ r # Leader /\ x = Msg("start", Leader) /\ Opened(T)
    BY <1>2, <1>5, <2>2, <2>4
  <2> QED
    <3>1. Moved(T, t)
      BY <1>2, <1>7, <1>10, <2>4, <2>6 DEF Moved
    <3> QED BY <2>5, <3>1, StarterStep
<1> QED BY <1>6, <1>8, <1>9

(* A thread of the leader tries to be the one that starts the timer. *)
LEMMA ExchangeTimerStep ==
  ASSUME NEW T \in Table, InvFor(T), NEW t \in Starters, ExchangeTimer(t)
  PROVE  InvFor(T)'
<1>0. /\ lead \in LeadState /\ Leader \in Procs /\ Types /\ LeadOK(T)
      /\ chan \in [Procs \X Procs -> Seq(Message)]
  BY Setting
<1>1. PICK p : p = lead.starters[t]
  OBVIOUS
<1>2. p \in Place /\ p.at = "loop" /\ Opened(T)
  <2>1. p \in Place /\ p.at = "loop"
    BY <1>0, <1>1 DEF ExchangeTimer, LeadState, Place
  <2> QED BY <1>0, <1>1, <2>1 DEF LeadOK, Threads, Opened
<1>3. \E w \in Place, b \in BOOLEAN :
        lead' = [lead EXCEPT !.starters[t] = w, !.active = b]
  <2>1. CASE scenario.time /\ ~lead.active
    <3>1. PICK w : w = [p EXCEPT !.at = "timer"]
      OBVIOUS
    <3>2. w \in Place
      BY <1>2, <3>1 DEF Place
    <3>3. lead' = [lead EXCEPT !.starters[t] = w, !.active = TRUE]
      BY <1>0, <1>1, <2>1, <3>1 DEF ExchangeTimer, LeadState
    <3> QED BY <3>2, <3>3
  <2>2. CASE ~(scenario.time /\ ~lead.active)
    <3>1. Outside \in Place
      BY DEF Outside, Place
    <3>2. lead' = [lead EXCEPT !.starters[t] = Outside]
      BY <2>2 DEF ExchangeTimer
    <3>3. lead' = [lead EXCEPT !.starters[t] = Outside, !.active = lead.active]
          /\ lead.active \in BOOLEAN
      BY <1>0, <3>2 DEF LeadState
    <3> QED BY <3>1, <3>3
  <2> QED BY <2>1, <2>2
<1>4. /\ lead' \in LeadState /\ lead'.order = lead.order /\ lead'.ready = lead.ready
      /\ lead'.assigned = lead.assigned /\ lead'.completed = lead.completed
      /\ lead'.stopping = lead.stopping /\ lead'.timer = lead.timer
      /\ lead'.timerExp = lead.timerExp
      /\ \A x \in Starters : x # t => lead'.starters[x] = lead.starters[x]
  <2>1. PICK w \in Place, b \in BOOLEAN : lead' = [lead EXCEPT !.starters[t] = w, !.active = b]
    BY <1>3
  <2> QED BY <1>0, <2>1, MoveFacts
<1>7. scenario' = scenario /\ proc' = proc /\ chan' = chan /\ hist' = hist
  BY DEF ExchangeTimer
<1>5. proc' = [proc EXCEPT ![Leader] = proc[Leader]]
  BY <1>0, <1>7 DEF Types
<1>6. \A q, r \in Procs : Wire(q, r)' = Wire(q, r)
  BY <1>7 DEF Wire
<1>8. Moved(T, t)
  BY <1>0, <1>1, <1>2, <1>4, <1>6, <1>7 DEF Moved
<1> QED
  BY <1>5, <1>8, StarterStep

(* A thread of the leader starts the timer. *)
LEMMA LaunchTimerStep ==
  ASSUME NEW T \in Table, InvFor(T), NEW t \in Starters, LaunchTimer(t)
  PROVE  InvFor(T)'
<1>0. /\ proc[Leader] \in ProcState /\ proc[Leader].exp \in Nat /\ ProcOK(T, Leader)
      /\ Leader \in Procs /\ LeadOK(T) /\ Types
      /\ lead \in LeadState /\ hist \in HistState
      /\ chan \in [Procs \X Procs -> Seq(Message)]
  BY Setting
<1>1. lead.starters[t].at = "timer" /\ proc[Leader].exp > 0 /\ scenario' = scenario
  BY <1>0 DEF LaunchTimer, LeadOK, Threads
<1>2. \A id \in lead.completed : <<proc[Leader].exp, id>> \in hist.finished
  BY <1>0 DEF LeadOK
<1>3. [x \in Starters |-> Outside] \in [Starters -> Place]
  BY DEF Outside, Place
<1>4. CASE lead.timer = "off"
  <2>1. PICK e : e = proc[Leader].exp
    OBVIOUS
  <2>2. /\ proc' = proc /\ chan' = chan
        /\ lead' = [lead EXCEPT !.timer = "sleeping", !.timerExp = e,
                                !.starters[t] = Outside]
        /\ hist' = IF proc[Leader].phase = "idle"
                   THEN [hist EXCEPT !.late = @ \cup {e}] ELSE hist
    BY <1>4, <2>1 DEF LaunchTimer
  <2>3. PICK f : f = [lead.starters EXCEPT ![t] = Outside]
    OBVIOUS
  <2>4. /\ f \in [Starters -> Place] /\ f[t].at = "none"
        /\ \A x \in Starters : x # t => f[x] = lead.starters[x]
    BY <1>0, <2>3 DEF LeadState, Place, Outside
  <2>5. lead' = [lead EXCEPT !.timer = "sleeping", !.timerExp = e, !.starters = f]
    BY <2>2, <2>3
  <2>6. /\ lead' \in LeadState /\ lead'.order = lead.order /\ lead'.ready = lead.ready
        /\ lead'.assigned = lead.assigned /\ lead'.completed = lead.completed
        /\ lead'.stopping = lead.stopping /\ lead'.timerExp = e
        /\ lead'.starters = f
    BY <1>0, <2>1, <2>4, <2>5 DEF LeadState, Place
  <2>7. /\ hist' \in HistState /\ hist'.finished = hist.finished
        /\ hist'.elapsed = hist.elapsed /\ hist'.restarted = hist.restarted
        /\ hist.late \subseteq hist'.late
        /\ proc[Leader].phase = "idle" => e \in hist'.late
    BY <1>0, <2>1, <2>2 DEF HistState
  <2>8. proc' = [proc EXCEPT ![Leader] = proc[Leader]]
    BY <1>0, <2>2 DEF Types
  <2>9. /\ Types' /\ Grow(T, T)
        /\ \A x \in Procs : x # Leader => proc'[x] = proc[x]
        /\ proc'[Leader].exp = proc[Leader].exp
        /\ proc'[Leader].ranges = proc[Leader].ranges
    BY <1>0, <1>1, <2>2, <2>6, <2>7, <2>8, LocalGrow
  <2>10. ProcOK(T, Leader)'
    BY <1>0, <2>2, <2>9, ProcStable
  <2>11. Threads(T)'
    <3>1. e \in Nat /\ e = proc'[Leader].exp /\ proc'[Leader] = proc[Leader]
      BY <1>0, <2>1, <2>2
    <3>2. /\ Open(T, e) => Open(T, e)'
          /\ Due(e) => (Due(e))'
      BY <2>9, <3>1, ExperimentStable
    <3>3. lead'.starters["main"].at # "none" => lead.starters["main"].at # "none"
      BY <2>4, <2>6 DEF Starters
    <3>4. /\ "main" \in lead'.stopping => proc'[Leader].phase = "running"
          /\ lead'.starters["main"].at # "none" => proc'[Leader].phase = "waiting"
          /\ lead'.stopping # {} => e > 0 /\ (Due(e))'
      BY <1>0, <2>1, <2>6, <3>1, <3>2, <3>3 DEF LeadOK, Threads
    <3>5. \A x \in Starters : lead'.starters[x].at \in {"loop", "timer"} =>
            e > 0 /\ Open(T, e)'
      BY <1>0, <2>1, <2>4, <2>6, <3>2 DEF LeadOK, Threads
    <3>6. lead'.timer = "sleeping"
      BY <1>0, <2>5 DEF LeadState
    <3> QED BY <1>1, <2>1, <2>6, <2>7, <3>1, <3>4, <3>5, <3>6 DEF Threads
  <2>12. \A q, r \in Procs : Wire(q, r)' = Wire(q, r)
    BY <2>2 DEF Wire
  <2> QED
    BY <1>2, <2>6, <2>7, <2>9, <2>10, <2>11, <2>12, LeaderStep
<1>5. CASE lead.timer # "off"
  <2>1. PICK s : s = Exited(proc[Leader])
    OBVIOUS
  <2>2. /\ proc' = [proc EXCEPT ![Leader] = s] /\ chan' = connectionsClosed(Leader)
        /\ lead' = [threadsCut(lead) EXCEPT !.timer = "off", !.stopping = {}]
        /\ hist' = [hist EXCEPT !.cut = TRUE]
    BY <1>5, <2>1 DEF LaunchTimer
  <2>3. /\ s \in ProcState /\ s.phase = "exited" /\ s.exp = proc[Leader].exp
        /\ s.ranges = proc[Leader].ranges
    BY <1>0, <2>1 DEF ProcState, Phase, Exited
  <2>4. /\ lead' \in LeadState /\ lead'.order = lead.order /\ lead'.ready = lead.ready
        /\ lead'.assigned = lead.assigned /\ lead'.completed = lead.completed
        /\ lead'.timer = "off" /\ lead'.stopping = {}
        /\ \A x \in Starters : lead'.starters[x].at = "none"
    <3>1. PICK f : f = [x \in Starters |-> Outside]
      OBVIOUS
    <3>2. f \in [Starters -> Place] /\ \A x \in Starters : f[x].at = "none"
      BY <1>3, <3>1 DEF Outside
    <3>3. lead' = [lead EXCEPT !.starters = f, !.timer = "off", !.stopping = {}]
      BY <1>0, <2>2, <3>1 DEF threadsCut, LeadState
    <3> QED BY <1>0, <3>2, <3>3 DEF LeadState, Place
  <2>5. /\ hist' \in HistState /\ hist'.finished = hist.finished
        /\ hist'.elapsed = hist.elapsed /\ hist'.restarted = hist.restarted
        /\ hist'.late = hist.late
    BY <1>0, <2>2 DEF HistState
  <2>6. /\ chan' \in [Procs \X Procs -> Seq(Message)]
        /\ \A q, r \in Procs : Wire(q, r)' \subseteq Wire(q, r)
    BY <1>0, <2>2, ClearedFacts
  <2>7. /\ Types' /\ Grow(T, T)
        /\ proc'[Leader] = s /\ \A x \in Procs : x # Leader => proc'[x] = proc[x]
        /\ proc'[Leader].exp = proc[Leader].exp
        /\ proc'[Leader].ranges = proc[Leader].ranges
    BY <1>0, <1>1, <2>2, <2>3, <2>4, <2>5, <2>6, LocalGrow
  <2>8. ProcOK(T, Leader)'
    BY <1>0, <2>1, <2>7, ExitedProc
  <2>9. Threads(T)'
    <3>1. "main" \in Starters
      BY DEF Starters
    <3>2. Undisturbed
      BY <2>3, <2>4, <2>7, <3>1 DEF Undisturbed
    <3> QED BY <1>0, <2>7, <3>2, ThreadsStable
  <2> QED
    BY <1>2, <2>4, <2>5, <2>6, <2>7, <2>8, <2>9, LeaderStep
<1> QED BY <1>4, <1>5

(* ch is what is left on the connections when the next message from q to p *)
(* is taken.                                                               *)
Taken(ch, q, p) ==
  /\ ch \in [Procs \X Procs -> Seq(Message)]
  /\ ch[<<q, p>>] = Tail(chan[<<q, p>>])
  /\ \A x, r \in Procs : /\ <<x, r>> # <<q, p>> => ch[<<x, r>>] = chan[<<x, r>>]
                         /\ ToSet(ch[<<x, r>>]) \subseteq ToSet(chan[<<x, r>>])

(* What is left on the connections for a handler to add to *)
LEMMA TakenFacts ==
  ASSUME NEW q \in Procs, NEW p \in Procs,
         chan \in [Procs \X Procs -> Seq(Message)], chan[<<q, p>>] # <<>>,
         NEW ch, ch = [chan EXCEPT ![<<q, p>>] = Tail(@)]
  PROVE  Taken(ch, q, p)
<1>1. ASSUME NEW x \in Procs, NEW r \in Procs
      PROVE  /\ ch[<<x, r>>] \in Seq(Message)
             /\ <<x, r>> # <<q, p>> => ch[<<x, r>>] = chan[<<x, r>>]
             /\ ToSet(ch[<<x, r>>]) \subseteq ToSet(chan[<<x, r>>])
  <2>1. chan[<<x, r>>] \in Seq(Message)
    OBVIOUS
  <2>2. CASE x = q /\ r = p
    <3>1. ch[<<x, r>>] = Tail(chan[<<x, r>>]) /\ chan[<<x, r>>] # <<>>
      BY <2>2
    <3> QED BY <2>1, <2>2, <3>1, ToSetTail
  <2>3. CASE ~(x = q /\ r = p)
    <3>1. ch[<<x, r>>] = chan[<<x, r>>]
      BY <2>3
    <3> QED BY <2>1, <3>1
  <2> QED BY <2>2, <2>3
<1>2. ch \in [Procs \X Procs -> Seq(Message)]
  <2>1. \A c \in Procs \X Procs : ch[c] \in Seq(Message)
    BY <1>1
  <2>2. ch = [c \in Procs \X Procs |-> ch[c]]
    OBVIOUS
  <2> QED BY <2>1, <2>2
<1>3. ch[<<q, p>>] = Tail(chan[<<q, p>>])
  OBVIOUS
<1> QED BY <1>1, <1>2, <1>3 DEF Taken

(* The leader marks q ready and goes to the gate. *)
Marks(q) ==
  /\ chan' = [chan EXCEPT ![<<q, Leader>>] = Tail(@)]
  /\ lead' = [lead EXCEPT !.ready = @ \cup ({q} \cap ToSet(lead.order)),
                          !.starters["handler"].at = "gate"]
  /\ scenario' = scenario /\ proc' = proc /\ hist' = hist

(* handleReady, up to the gate *)
LEMMA ReadyStep ==
  ASSUME NEW T \in Table, InvFor(T), NEW q \in Procs, chan[<<q, Leader>>] # <<>>,
         NEW m, m = Head(chan[<<q, Leader>>]), m.type = "ready",
         m.exp = proc[Leader].exp, Marks(q)
  PROVE  InvFor(T)'
<1>0. /\ proc[Leader] \in ProcState /\ proc[Leader].exp \in Nat /\ ProcOK(T, Leader)
      /\ Leader \in Procs /\ LeadOK(T) /\ scenario \in Scenarios /\ Types
      /\ lead \in LeadState /\ hist \in HistState /\ Leader \notin hist.restarted
      /\ chan \in [Procs \X Procs -> Seq(Message)]
  BY Setting
<1>1. Passed(q, proc[Leader].exp)
  <2>1. MsgOK(T, q, Leader, m)
    BY <1>0, HeadFacts
  <2> QED BY <2>1 DEF MsgOK
<1>2. /\ lead' \in LeadState /\ lead'.order = lead.order
      /\ lead'.ready = lead.ready \cup ({q} \cap ToSet(lead.order))
      /\ lead'.assigned = lead.assigned /\ lead'.completed = lead.completed
      /\ lead'.timer = lead.timer /\ lead'.stopping = lead.stopping
      /\ lead'.timerExp = lead.timerExp /\ lead'.starters["handler"].at = "gate"
      /\ \A t \in Starters : t # "handler" => lead'.starters[t] = lead.starters[t]
  <2>1. PICK R : R = lead.ready \cup ({q} \cap ToSet(lead.order))
    OBVIOUS
  <2>2. /\ lead' = [lead EXCEPT !.ready = R, !.starters["handler"].at = "gate"]
        /\ R \in SUBSET Procs /\ "handler" \in Starters
    BY <1>0, <2>1 DEF Marks, LeadState, Starters
  <2> QED BY <1>0, <2>1, <2>2, GateFacts
<1>3. /\ chan' \in [Procs \X Procs -> Seq(Message)]
      /\ \A x, r \in Procs : Wire(x, r)' \subseteq Wire(x, r)
  <2>1. chan' = [chan EXCEPT ![<<q, Leader>>] = Tail(@)]
    BY DEF Marks
  <2> QED BY <1>0, <2>1, TailFacts
<1>4. /\ proc' = [proc EXCEPT ![Leader] = proc[Leader]]
      /\ proc' = proc /\ scenario' = scenario /\ hist' = hist
  BY <1>0 DEF Types, Marks
<1>5. /\ Types' /\ Grow(T, T)
      /\ \A x \in Procs : x # Leader => proc'[x] = proc[x]
      /\ proc'[Leader].exp = proc[Leader].exp
      /\ proc'[Leader].ranges = proc[Leader].ranges
  BY <1>0, <1>2, <1>3, <1>4, LocalGrow
<1>6. ProcOK(T, Leader)'
  BY <1>0, <1>4, <1>5, ProcStable
<1>7. Threads(T)'
  <2>1. Undisturbed
    BY <1>0, <1>2, <1>4 DEF Undisturbed, LeadOK, Threads, Starters
  <2> QED BY <1>0, <1>5, <2>1, ThreadsStable
<1>8. LeadOK(T)'
  <2>1. lead'.ready \subseteq ToSet(lead.order)
    BY <1>0, <1>2 DEF LeadOK, Registrations
  <2>2. PICK e \in Nat : e = proc[Leader].exp /\ e = proc'[Leader].exp
    BY <1>0, <1>5
  <2>3. \A x \in lead'.ready : x \in Procs /\ Passed(x, e)
    BY <1>0, <1>1, <1>2, <2>2 DEF LeadOK, LeadState
  <2>4. \A x \in lead'.ready : x \in Procs /\ Passed(x, e)'
    BY <1>5, <2>3 DEF Grow
  <2>5. \A id \in lead'.completed : <<proc[Leader].exp, id>> \in hist'.finished
    BY <1>0, <1>2, <1>4 DEF LeadOK
  <2> QED BY <1>0, <1>2, <1>4, <1>5, <1>7, <2>1, <2>2, <2>4, <2>5, LeadMarks
<1> QED
  BY <1>0, <1>3, <1>5, <1>6, <1>8, StepFrom

(***************************************************************************)
(* Registration and assignment.                                            *)
(***************************************************************************)
(* x is the assignment of b in experiment e, once enough peers are         *)
(* requested.                                                              *)
IsAssignment(x, o, b, e) ==
  Requested(o) >= scenario.total /\ x = Assignment(o, b, e)

(* r is what distributeAssignmentsIfReady leaves. *)
Divided(r, s, l, ch) ==
  /\ r.s \in ProcState /\ r.s.exp = s.exp /\ r.s.phase = s.phase
  /\ r.s.interfaces = s.interfaces /\ r.s.inbound = s.inbound
  /\ r.s.start = s.start /\ r.s.stop = s.stop
  /\ r.l \in LeadState /\ r.l.order = l.order /\ r.l.ready = l.ready
  /\ r.l.completed = l.completed /\ r.l.timer = l.timer /\ r.l.stopping = l.stopping
  /\ r.l.timerExp = l.timerExp /\ r.l.starters = l.starters
  /\ \/ Requested(l.order) < scenario.total /\ r.s = s /\ r.l.assigned = l.assigned
     \/ /\ Requested(l.order) >= scenario.total
        /\ r.s.ranges = peerRanges(l.order)
        /\ r.s.local = Share(peerRanges(l.order), Leader)
  /\ r.ch \in [Procs \X Procs -> Seq(Message)]
  /\ \A a \in Procs : r.ch[<<a, Leader>>] = ch[<<a, Leader>>]
  /\ \A a, b \in Procs : \A x \in ToSet(r.ch[<<a, b>>]) :
       \/ x \in ToSet(ch[<<a, b>>])
       \/ a = Leader /\ b # Leader /\ IsAssignment(x, l.order, b, s.exp)

(* An assignment is a message that carries the table of hosts and the part *)
(* of its process.                                                         *)
LEMMA AssignmentFacts ==
  ASSUME scenario \in Scenarios, NEW o \in Seq(Procs), NEW q, NEW e \in Nat,
         Requested(o) >= scenario.total, NEW m, m = Assignment(o, q, e)
  PROVE  /\ m \in Message /\ m.type = "assignment" /\ m.exp = e
         /\ m.ranges = peerRanges(o) /\ m.peers = Share(peerRanges(o), q)
         /\ peerRanges(o) \in [Ids -> Procs]
<1>1. peerRanges(o) \in [Ids -> ToSet(o)] /\ Assigned(o, q) = Share(peerRanges(o), q)
  BY RangesOfOrder
<1>2. ToSet(o) \subseteq Procs
  BY ToSetType
<1>3. peerRanges(o) \in [Ids -> Procs]
  BY <1>1, <1>2
<1>4. Assigned(o, q) \in SUBSET Ids
  BY DEF Assigned
<1>5. PICK R : R = peerRanges(o)
  OBVIOUS
<1>6. PICK A : A = Assigned(o, q)
  OBVIOUS
<1>7. m = [type |-> "assignment", exp |-> e, peers |-> A, ranges |-> R]
  BY <1>5, <1>6 DEF Assignment
<1>8. m \in Message
  BY <1>3, <1>4, <1>5, <1>6, <1>7, MessagesMade
<1> QED BY <1>1, <1>3, <1>5, <1>6, <1>7, <1>8

(* What distributeAssignmentsIfReady does *)
LEMMA DivisionFacts ==
  ASSUME scenario \in Scenarios, Leader \in Procs, NEW s \in ProcState,
         NEW l \in LeadState, NEW ch \in [Procs \X Procs -> Seq(Message)],
         NEW r, r = distributeAssignmentsIfReady(s, l, ch)
  PROVE  Divided(r, s, l, ch)
<1>0. PICK o : o = l.order
  OBVIOUS
<1>1. o \in Seq(Procs) /\ s.exp \in Nat /\ scenario.total \in Nat
  BY <1>0, ScenarioFacts DEF LeadState, ProcState
<1>2. Requested(o) \in Nat
  BY <1>1, NextIdGrows
<1>3. CASE Requested(o) < scenario.total
  <2>1. r.s = s /\ r.l = l /\ r.ch = ch
    BY <1>0, <1>3 DEF distributeAssignmentsIfReady
  <2> QED BY <1>0, <1>3, <2>1 DEF Divided
<1>4. CASE Requested(o) >= scenario.total
  <2>1. ~(Requested(o) < scenario.total)
    BY <1>1, <1>2, <1>4
  <2>2. PICK m : m = Assignment(o, Leader, s.exp)
    OBVIOUS
  <2>3. PICK A : A = [p \in Procs |-> Assigned(o, p)]
    OBVIOUS
  <2>4. PICK S : S = ToSet(o) \ {Leader}
    OBVIOUS
  <2>5. PICK M : M = [q \in Procs |-> Assignment(o, q, s.exp)]
    OBVIOUS
  <2>6. /\ r.s = handleAssignment(s, m) /\ r.l = [l EXCEPT !.assigned = A]
        /\ r.ch = sendEach(ch, Leader, S, M)
    BY <1>0, <2>1, <2>2, <2>3, <2>4, <2>5 DEF distributeAssignmentsIfReady
  <2>7. /\ m.ranges = peerRanges(o) /\ m.peers = Share(peerRanges(o), Leader)
        /\ m.peers \in SUBSET Ids /\ m.ranges \in [Ids -> Procs]
    <3>1. /\ m \in Message /\ m.type = "assignment"
          /\ m.ranges = peerRanges(o) /\ m.peers = Share(peerRanges(o), Leader)
      BY <1>1, <1>4, <2>2, AssignmentFacts
    <3> QED BY <3>1, MessageFacts
  <2>8. /\ r.s \in ProcState /\ r.s.exp = s.exp /\ r.s.phase = s.phase
        /\ r.s.interfaces = s.interfaces /\ r.s.inbound = s.inbound
        /\ r.s.start = s.start /\ r.s.stop = s.stop
        /\ r.s.ranges = m.ranges /\ r.s.local = m.peers
    BY <2>6, <2>7 DEF ProcState, handleAssignment
  <2>9. A \in [Procs -> SUBSET Ids]
    BY <2>3 DEF Assigned
  <2>10. /\ r.l \in LeadState /\ r.l.order = l.order /\ r.l.ready = l.ready
         /\ r.l.completed = l.completed /\ r.l.timer = l.timer
         /\ r.l.stopping = l.stopping /\ r.l.timerExp = l.timerExp
         /\ r.l.starters = l.starters
    BY <2>6, <2>9 DEF LeadState
  <2>11. S \in SUBSET Procs /\ Leader \notin S
    BY <1>1, <2>4, ToSetType
  <2>12. \A q \in S : M[q] \in Message /\ M[q] = Assignment(o, q, s.exp)
    BY <1>1, <1>4, <2>5, <2>11, AssignmentFacts
  <2>13. Adds(ch, r.ch, Leader, S, M)
    <3>1. \A q \in S : M[q] \in Message
      BY <2>12
    <3>2. Adds(ch, sendEach(ch, Leader, S, M), Leader, S, M)
      BY <2>11, <3>1, SentFacts
    <3> QED BY <2>6, <3>2
  <2>14. /\ r.ch \in [Procs \X Procs -> Seq(Message)]
         /\ \A a \in Procs : r.ch[<<a, Leader>>] = ch[<<a, Leader>>]
    BY <2>11, <2>13 DEF Adds
  <2>15. ASSUME NEW a \in Procs, NEW b \in Procs, NEW x \in ToSet(r.ch[<<a, b>>])
         PROVE  \/ x \in ToSet(ch[<<a, b>>])
                \/ a = Leader /\ b # Leader /\ IsAssignment(x, o, b, s.exp)
    <3>1. x \in ToSet(ch[<<a, b>>]) \/ (a = Leader /\ b \in S /\ x = M[b])
      BY <2>13 DEF Adds
    <3> QED BY <1>4, <2>11, <2>12, <3>1 DEF IsAssignment
  <2> QED BY <1>0, <1>4, <2>7, <2>8, <2>10, <2>14, <2>15 DEF Divided
<1> QED BY <1>1, <1>2, <1>3, <1>4

(* The table of an experiment is written. *)
LEMMA NewTable ==
  ASSUME NEW T \in Table, NEW e \in Nat, NEW R \in [Ids -> Procs]
  PROVE  \E U \in Table : U[e] = R /\ \A x \in Nat : x # e => U[x] = T[x]
<1>1. PICK U : U = [T EXCEPT ![e] = R]
  OBVIOUS
<1>2. U \in Table /\ U[e] = R /\ \A x \in Nat : x # e => U[x] = T[x]
  BY <1>1 DEF Table
<1> QED BY <1>2

(* The experiment e, the order o of the registrations and the table of the *)
(* leader after a registration                                             *)
Enrolled(U, o, e) ==
  /\ proc'[Leader].exp = e /\ e > 0
  /\ lead'.order = o /\ IsInjective(o) /\ o # <<>> /\ o[1] = Leader
  /\ lead'.ready \subseteq ToSet(o)
  /\ proc'[Leader].ranges # <<>> <=> Requested(o) >= scenario.total
  /\ Requested(o) >= scenario.total =>
       proc'[Leader].ranges = peerRanges(o) /\ U[e] = peerRanges(o)
  /\ \A q \in Procs : lead'.assigned[q] # {} => Requested(o) >= scenario.total

OnlyAssignments(o, e) ==
  \A a, b \in Procs : \A x \in Wire(a, b)' :
    x \in Wire(a, b) \/ (a = Leader /\ b # Leader /\ IsAssignment(x, o, b, e))

(* The parts of a step that registers a process *)
LEMMA AssignStep ==
  ASSUME NEW T \in Table, InvFor(T), NEW U, Grow(T, U), Types',
         \A x \in Procs : x # Leader => proc'[x] = proc[x],
         NEW o \in Seq(Procs), NEW e \in Nat, Enrolled(U, o, e), OnlyAssignments(o, e),
         \A q \in lead'.ready : Passed(q, e)',
         \A id \in lead'.completed : <<e, id>> \in hist'.finished,
         Leader \notin hist'.restarted,
         ProcOK(U, Leader)', Threads(U)'
  PROVE  InvFor(U)'
<1>0. scenario \in Scenarios /\ Leader \in Procs
  BY Setting
<1>1. /\ Procs' = Procs /\ Ids' = Ids /\ scenario' = scenario
      /\ \A x : Requested(x)' = Requested(x)
      /\ \A x : peerRanges(x)' = peerRanges(x)
  BY ScenarioFixed DEF Grow
<1>2. Distributed' <=> Requested(o) >= scenario.total
  BY DEF Enrolled, Distributed
<1>3. Registrations'
  <2>1. e > 0 => ~(e = 0)
    OBVIOUS
  <2> QED BY <1>1, <1>2, <2>1 DEF Registrations, Enrolled
<1>4. Distributed' => U[e] = proc'[Leader].ranges /\ Known(e)'
  BY <1>2 DEF Enrolled, Known
<1>5. LeadOK(U)'
  BY <1>3, <1>4 DEF LeadOK, Enrolled
<1>6. \A a, b \in Procs : \A x \in Wire(a, b)' : x \in Wire(a, b) \/ MsgOK(U, a, b, x)'
  <2>1. ASSUME NEW b \in Procs, b # Leader, NEW x, IsAssignment(x, o, b, e)
        PROVE  MsgOK(U, Leader, b, x)'
    <3>1. Requested(o) >= scenario.total /\ x = Assignment(o, b, e)
      BY <2>1 DEF IsAssignment
    <3>2. /\ x.type = "assignment" /\ x.exp = e
          /\ x.ranges = peerRanges(o) /\ x.peers = Share(peerRanges(o), b)
      BY <1>0, <3>1, AssignmentFacts
    <3>3. Known(e)' /\ U[e] = peerRanges(o) /\ e > 0
      BY <1>2, <1>4, <3>1 DEF Enrolled
    <3> QED BY <2>1, <3>2, <3>3 DEF MsgOK
  <2> QED BY <2>1 DEF OnlyAssignments
<1> QED
  BY <1>0, <1>5, <1>6, StepFrom

(* The table that a registration leads to *)
LEMMA TableFor ==
  ASSUME NEW T \in Table, InvFor(T), NEW o \in Seq(Procs), NEW e \in Nat,
         Requested(o) >= scenario.total /\ Known(e) => T[e] = peerRanges(o)
  PROVE  \E U \in Table :
           /\ \A x \in Nat : Known(x) => U[x] = T[x]
           /\ Requested(o) >= scenario.total => U[e] = peerRanges(o)
<1>0. scenario \in Scenarios
  BY Setting
<1>1. CASE Requested(o) >= scenario.total
  <2>1. PICK m : m = Assignment(o, Leader, e)
    OBVIOUS
  <2>2. peerRanges(o) \in [Ids -> Procs]
    BY <1>0, <1>1, <2>1, AssignmentFacts
  <2>3. PICK R \in [Ids -> Procs] : R = peerRanges(o)
    BY <2>2
  <2>4. PICK U \in Table : U[e] = R /\ \A x \in Nat : x # e => U[x] = T[x]
    BY NewTable
  <2> QED BY <1>1, <2>3, <2>4
<1>2. CASE ~(Requested(o) >= scenario.total)
  BY <1>2
<1> QED BY <1>1, <1>2

(* q is put at the end of the order, unless it is there already. *)
Enrols(o, q) ==
  \/ o = lead.order
  \/ o = Append(lead.order, q) /\ q \notin ToSet(lead.order)

(* A registration keeps the places, and the table if there is one. *)
LEMMA EnrolFacts ==
  ASSUME NEW T \in Table, InvFor(T), proc[Leader].exp > 0, NEW q \in Procs, NEW o,
         Enrols(o, q)
  PROVE  /\ o \in Seq(Procs) /\ IsInjective(o) /\ o # <<>> /\ o[1] = Leader
         /\ lead.ready \subseteq ToSet(o)
         /\ Distributed => /\ Requested(o) >= scenario.total
                           /\ peerRanges(o) = proc[Leader].ranges
                           /\ proc[Leader].ranges = T[proc[Leader].exp]
<1>0. /\ scenario \in Scenarios /\ LeadOK(T) /\ lead.order \in Seq(Procs)
      /\ Registrations
  BY Setting DEF LeadState, LeadOK
<1>1. /\ IsInjective(lead.order) /\ lead.order # <<>> /\ lead.order[1] = Leader
      /\ lead.ready \subseteq ToSet(lead.order)
      /\ Distributed => /\ Requested(lead.order) >= scenario.total
                        /\ peerRanges(lead.order) = proc[Leader].ranges
                        /\ proc[Leader].ranges = T[proc[Leader].exp]
  BY <1>0 DEF Registrations, LeadOK
<1>2. CASE o = lead.order
  BY <1>0, <1>1, <1>2
<1>3. CASE o = Append(lead.order, q) /\ q \notin ToSet(lead.order)
  <2>1. PICK u : u = lead.order
    OBVIOUS
  <2>2. u \in Seq(Procs) /\ u # <<>> /\ u[1] = Leader /\ o = Append(u, q) /\ IsInjective(u)
        /\ q \notin ToSet(u)
    BY <1>0, <1>1, <1>3, <2>1
  <2>3. o \in Seq(Procs) /\ ToSet(o) = ToSet(u) \cup {q}
    BY <2>2, ToSetAppend
  <2>4. /\ DOMAIN u = 1 .. Len(u) /\ DOMAIN o = 1 .. Len(u) + 1
        /\ Len(u) \in Nat \ {0} /\ \A i \in 1 .. Len(u) : o[i] = u[i]
        /\ o[Len(u) + 1] = q
    BY <2>2
  <2>5. \A i \in 1 .. Len(u) : u[i] # q
    BY <2>2, <2>4 DEF ToSet
  <2>6. IsInjective(o)
    <3> SUFFICES ASSUME NEW i \in DOMAIN o, NEW j \in DOMAIN o, o[i] = o[j]
                 PROVE  i = j
      BY DEF IsInjective
    <3>1. CASE i \in 1 .. Len(u) /\ j \in 1 .. Len(u)
      BY <2>2, <2>4, <3>1 DEF IsInjective
    <3>2. CASE i = Len(u) + 1 /\ j \in 1 .. Len(u)
      BY <2>4, <2>5, <3>2
    <3>3. CASE j = Len(u) + 1 /\ i \in 1 .. Len(u)
      BY <2>4, <2>5, <3>3
    <3> QED BY <2>4, <3>1, <3>2, <3>3
  <2>7. o # <<>> /\ o[1] = Leader
    BY <2>2, <2>4
  <2>8. Distributed => /\ Requested(o) >= scenario.total
                       /\ peerRanges(o) = proc[Leader].ranges
    <3>1. Requested(u) >= scenario.total =>
            Requested(o) >= scenario.total /\ peerRanges(o) = peerRanges(u)
      BY <1>0, <2>2, LateRegistration
    <3> QED BY <1>1, <2>1, <3>1
  <2> QED BY <1>1, <2>1, <2>3, <2>6, <2>7, <2>8
<1> QED BY <1>2, <1>3 DEF Enrols

(* The records of a leader with the order o that has divided the ids *)
LEMMA DividedLead ==
  ASSUME NEW T \in Table, InvFor(T), NEW q \in Procs, proc[Leader].exp > 0, NEW o,
         Enrols(o, q), NEW l, l = [lead EXCEPT !.order = o], NEW ch, NEW r,
         Divided(r, proc[Leader], l, ch)
  PROVE  /\ r.s \in ProcState /\ r.l \in LeadState
         /\ r.s.exp = proc[Leader].exp /\ r.s.phase = proc[Leader].phase
         /\ r.s.interfaces = proc[Leader].interfaces
         /\ r.s.inbound = proc[Leader].inbound
         /\ r.s.start = proc[Leader].start /\ r.s.stop = proc[Leader].stop
         /\ r.l.order = o /\ r.l.ready = lead.ready /\ r.l.completed = lead.completed
         /\ r.l.timer = lead.timer /\ r.l.stopping = lead.stopping
         /\ r.l.timerExp = lead.timerExp /\ r.l.starters = lead.starters
         /\ \/ /\ ~(Requested(o) >= scenario.total)
               /\ r.s = proc[Leader] /\ r.l.assigned = lead.assigned
            \/ /\ Requested(o) >= scenario.total
               /\ r.s.ranges = peerRanges(o) /\ r.s.ranges # <<>>
               /\ r.s.local = Share(peerRanges(o), Leader)
         /\ Distributed => r.s.ranges = proc[Leader].ranges
<1>0. /\ scenario \in Scenarios /\ lead \in LeadState
  BY Setting
<1>1. /\ o \in Seq(Procs)
      /\ Distributed => /\ Requested(o) >= scenario.total
                        /\ peerRanges(o) = proc[Leader].ranges
  BY EnrolFacts
<1>2. /\ l.order = o /\ l.ready = lead.ready /\ l.completed = lead.completed
      /\ l.timer = lead.timer /\ l.stopping = lead.stopping
      /\ l.timerExp = lead.timerExp /\ l.starters = lead.starters
      /\ l.assigned = lead.assigned
  BY <1>0, <1>1 DEF LeadState
<1>3. Requested(o) \in Nat /\ scenario.total \in Nat
  BY <1>0, <1>1, NextIdGrows, ScenarioFacts
<1>4. Requested(o) >= scenario.total => peerRanges(o) # <<>>
  BY <1>0, <1>1, RangesOfOrder, TableNotEmpty
<1>5. \/ Requested(o) < scenario.total /\ r.s = proc[Leader] /\ r.l.assigned = l.assigned
      \/ /\ Requested(o) >= scenario.total
         /\ r.s.ranges = peerRanges(o)
         /\ r.s.local = Share(peerRanges(o), Leader)
  BY <1>2 DEF Divided
<1>6. /\ r.s \in ProcState /\ r.l \in LeadState
      /\ r.s.exp = proc[Leader].exp /\ r.s.phase = proc[Leader].phase
      /\ r.s.interfaces = proc[Leader].interfaces
      /\ r.s.inbound = proc[Leader].inbound
      /\ r.s.start = proc[Leader].start /\ r.s.stop = proc[Leader].stop
      /\ r.l.order = o /\ r.l.ready = lead.ready /\ r.l.completed = lead.completed
      /\ r.l.timer = lead.timer /\ r.l.stopping = lead.stopping
      /\ r.l.timerExp = lead.timerExp /\ r.l.starters = lead.starters
  BY <1>2 DEF Divided
<1>7. CASE Requested(o) < scenario.total
  <2>1. ~(Requested(o) >= scenario.total)
    BY <1>3, <1>7
  <2> QED BY <1>1, <1>2, <1>5, <1>6, <2>1
<1>8. CASE Requested(o) >= scenario.total
  <2>1. ~(Requested(o) < scenario.total)
    BY <1>3, <1>8
  <2> QED BY <1>1, <1>4, <1>5, <1>6, <1>8, <2>1
<1> QED BY <1>3, <1>7, <1>8

(* handleRegister of a process whose assignment is not sent again *)
LEMMA EnrolStep ==
  ASSUME NEW T \in Table, InvFor(T), NEW q \in Procs, proc[Leader].exp > 0, NEW o,
         Enrols(o, q), NEW l, l = [lead EXCEPT !.order = o],
         NEW ch, Taken(ch, q, Leader), chan[<<q, Leader>>] # <<>>,
         NEW r, Divided(r, proc[Leader], l, ch),
         proc' = [proc EXCEPT ![Leader] = r.s], lead' = r.l, chan' = r.ch,
         scenario' = scenario, hist' = hist
  PROVE  \E U \in Table : InvFor(U)'
<1>0. /\ proc[Leader] \in ProcState /\ ProcOK(T, Leader)
      /\ Leader \in Procs /\ LeadOK(T) /\ scenario \in Scenarios
      /\ lead \in LeadState /\ hist \in HistState /\ Leader \notin hist.restarted
      /\ chan \in [Procs \X Procs -> Seq(Message)] /\ Types
      /\ \A a, b \in Procs : \A m \in Wire(a, b) : m \in Message /\ MsgOK(T, a, b, m)
  BY Setting
<1>1. PICK e \in Nat : e = proc[Leader].exp
  BY Setting
<1>2. PICK s : s = r.s
  OBVIOUS
<1>3. /\ s \in ProcState /\ lead' \in LeadState
      /\ s.exp = e /\ s.phase = proc[Leader].phase
      /\ s.interfaces = proc[Leader].interfaces /\ s.inbound = proc[Leader].inbound
      /\ s.start = proc[Leader].start /\ s.stop = proc[Leader].stop
      /\ lead'.order = o /\ lead'.ready = lead.ready /\ lead'.completed = lead.completed
      /\ lead'.timer = lead.timer /\ lead'.stopping = lead.stopping
      /\ lead'.timerExp = lead.timerExp /\ lead'.starters = lead.starters
      /\ \/ /\ ~(Requested(o) >= scenario.total)
            /\ s = proc[Leader] /\ lead'.assigned = lead.assigned
         \/ /\ Requested(o) >= scenario.total
            /\ s.ranges = peerRanges(o) /\ s.ranges # <<>>
            /\ s.local = Share(peerRanges(o), Leader)
      /\ Distributed => s.ranges = proc[Leader].ranges
  BY <1>1, <1>2, DividedLead
<1>4. /\ o \in Seq(Procs) /\ IsInjective(o) /\ o # <<>> /\ o[1] = Leader
      /\ lead.ready \subseteq ToSet(o)
      /\ Distributed => /\ Requested(o) >= scenario.total
                        /\ peerRanges(o) = proc[Leader].ranges
                        /\ proc[Leader].ranges = T[e]
  BY <1>1, EnrolFacts
<1>5. Known(e) <=> Distributed
  BY <1>1 DEF Known
<1>6. PICK U \in Table : /\ \A x \in Nat : Known(x) => U[x] = T[x]
                         /\ Requested(o) >= scenario.total => U[e] = peerRanges(o)
  BY <1>4, <1>5, TableFor
<1>7. chan' \in [Procs \X Procs -> Seq(Message)]
  BY DEF Divided
<1>8. /\ Types' /\ proc'[Leader] = s
      /\ \A x \in Procs : x # Leader => proc'[x] = proc[x]
  BY <1>0, <1>2, <1>3, <1>7, TypesFrom
<1>9. Grow(T, U)
  <2>1. \A x \in Procs, y \in Nat : Passed(x, y) => Passed(x, y)'
    BY <1>0, <1>1, <1>3, <1>8, PassedStable
  <2>2. \A x \in Nat : Known(x) => Known(x)'
    BY <1>1, <1>3, <1>8 DEF Known, Distributed
  <2> QED BY <1>6, <2>1, <2>2 DEF Grow
<1>10. /\ Open(T, e) => Open(U, e)'
       /\ Due(e) => (Due(e))'
  BY <1>9, ExperimentStable
<1>11. ProcOK(U, Leader)'
  <2>1. PhaseOK(Leader)'
    BY <1>0, <1>1, <1>3, <1>8 DEF ProcOK, PhaseOK
  <2>2. Held(Leader)' => HolderOK(U, Leader)'
    <3>1. CASE s = proc[Leader]
      <4>1. ProcOK(U, Leader)'
        BY <1>0, <1>1, <1>8, <1>9, <3>1, ProcStable
      <4> QED BY <4>1 DEF ProcOK
    <3>2. CASE /\ Requested(o) >= scenario.total
               /\ s.ranges = peerRanges(o) /\ s.ranges # <<>>
               /\ s.local = Share(peerRanges(o), Leader)
      <4>1. Known(e)'
        BY <1>3, <1>8, <3>2 DEF Known, Distributed
      <4>2. s.phase \in Hosting => s.interfaces = s.local /\ s.local # {}
        <5> SUFFICES ASSUME s.phase \in Hosting PROVE s.interfaces = s.local /\ s.local # {}
          OBVIOUS
        <5>1. HolderOK(T, Leader) /\ proc[Leader].phase \in Hosting
          BY <1>0, <1>3 DEF ProcOK, Held
        <5>2. Distributed
          BY <1>1, <1>5, <5>1 DEF HolderOK
        <5> QED BY <1>1, <1>3, <1>4, <3>2, <5>1, <5>2 DEF HolderOK
      <4> QED BY <1>3, <1>6, <1>8, <3>2, <4>1, <4>2 DEF HolderOK
    <3> QED BY <1>3, <3>1, <3>2
  <2>3. \A m \in proc'[Leader].inbound : m.exp = e /\ m.to \in proc'[Leader].interfaces
    BY <1>0, <1>1, <1>3, <1>8 DEF ProcOK
  <2>4. proc'[Leader].start => Open(U, e)'
    BY <1>0, <1>1, <1>3, <1>8, <1>10 DEF ProcOK
  <2>5. proc'[Leader].stop => (Due(e))'
    BY <1>0, <1>1, <1>3, <1>8, <1>10 DEF ProcOK
  <2> QED BY <1>3, <1>8, <2>1, <2>2, <2>3, <2>4, <2>5 DEF ProcOK
<1>12. Threads(U)'
  <2>1. Undisturbed
    BY <1>0, <1>3, <1>8 DEF Undisturbed, LeadOK, Threads
  <2> QED BY <1>0, <1>1, <1>3, <1>8, <1>9, <2>1, ThreadsStable
<1>13. Enrolled(U, o, e)
  <2>1. proc'[Leader].ranges # <<>> <=> Requested(o) >= scenario.total
    BY <1>3, <1>4, <1>8 DEF Distributed
  <2>2. \A x \in Procs : lead'.assigned[x] # {} => Requested(o) >= scenario.total
    BY <1>0, <1>3, <1>4 DEF LeadOK, Registrations
  <2> QED BY <1>1, <1>3, <1>4, <1>6, <1>8, <2>1, <2>2 DEF Enrolled
<1>14. OnlyAssignments(o, e)
  <2>1. l.order = o
    BY <1>0 DEF LeadState
  <2>2. ASSUME NEW a \in Procs, NEW b \in Procs, NEW x \in Wire(a, b)'
        PROVE  x \in Wire(a, b) \/ (a = Leader /\ b # Leader /\ IsAssignment(x, o, b, e))
    <3>1. \/ x \in ToSet(ch[<<a, b>>])
          \/ a = Leader /\ b # Leader /\ IsAssignment(x, o, b, e)
      BY <1>1, <2>1 DEF Divided, Wire
    <3>2. ToSet(ch[<<a, b>>]) \subseteq Wire(a, b)
      BY DEF Taken, Wire
    <3> QED BY <3>1, <3>2
  <2> QED BY <2>2 DEF OnlyAssignments
<1>17. \A x \in lead'.ready : Passed(x, e)'
  <2>1. \A x \in lead.ready : x \in Procs /\ Passed(x, e)
    BY <1>0, <1>1 DEF LeadOK, LeadState
  <2> QED BY <1>3, <1>9, <2>1 DEF Grow
<1>18. \A id \in lead'.completed : <<e, id>> \in hist'.finished
  BY <1>0, <1>1, <1>3 DEF LeadOK
<1>19. InvFor(U)'
  BY <1>0, <1>4, <1>8, <1>9, <1>11, <1>12, <1>13, <1>14, <1>17, <1>18, AssignStep
<1> QED
  BY <1>19

(* The assignment of q is sent again. *)
Resends(q, ch, m) ==
  /\ lead.assigned[q] # {} /\ m = Assignment(lead.order, q, proc[Leader].exp)
  /\ chan' = sendJson(ch, Leader, {q}, m)
  /\ scenario' = scenario /\ proc' = proc /\ lead' = lead /\ hist' = hist

(* handleRegister of a process that gets its assignment again *)
LEMMA ResendStep ==
  ASSUME NEW T \in Table, InvFor(T), NEW q \in Procs, q # Leader,
         NEW ch, Taken(ch, q, Leader), chan[<<q, Leader>>] # <<>>,
         NEW m, Resends(q, ch, m), proc[Leader].exp > 0
  PROVE  InvFor(T)'
<1> USE DEF Resends
<1>0. /\ proc[Leader] \in ProcState /\ proc[Leader].exp \in Nat /\ ProcOK(T, Leader)
      /\ Leader \in Procs /\ LeadOK(T) /\ scenario \in Scenarios
      /\ lead \in LeadState /\ hist \in HistState /\ Leader \notin hist.restarted
      /\ lead.order \in Seq(Procs) /\ Types
  BY Setting DEF LeadState
<1>1. /\ Distributed /\ Requested(lead.order) >= scenario.total
      /\ T[proc[Leader].exp] = peerRanges(lead.order)
  BY <1>0 DEF LeadOK, Registrations
<1>2. /\ m \in Message /\ m.type = "assignment" /\ m.exp = proc[Leader].exp
      /\ m.ranges = peerRanges(lead.order) /\ m.peers = Share(peerRanges(lead.order), q)
  BY <1>0, <1>1, AssignmentFacts
<1>3. PICK M : M = [x \in {q} |-> m]
  OBVIOUS
<1>4. Adds(ch, chan', Leader, {q}, M)
  <2>1. ch \in [Procs \X Procs -> Seq(Message)]
    BY DEF Taken
  <2>2. {q} \in SUBSET Procs /\ \A x \in {q} : M[x] \in Message
    BY <1>2, <1>3
  <2>3. chan' = sendEach(ch, Leader, {q}, M)
    BY <1>3 DEF sendJson
  <2> QED BY <1>0, <2>1, <2>2, <2>3, SentFacts
<1>5. chan' \in [Procs \X Procs -> Seq(Message)]
  BY <1>4 DEF Adds
<1>6. proc' = [proc EXCEPT ![Leader] = proc[Leader]]
  BY <1>0 DEF Types
<1>7. /\ Types' /\ Grow(T, T)
      /\ \A x \in Procs : x # Leader => proc'[x] = proc[x]
      /\ proc'[Leader].exp = proc[Leader].exp
      /\ proc'[Leader].ranges = proc[Leader].ranges
  BY <1>0, <1>5, <1>6, LocalGrow
<1>8. ProcOK(T, Leader)'
  BY <1>0, <1>7, ProcStable
<1>9. MsgOK(T, Leader, q, m)'
  <2>1. Known(m.exp)'
    BY <1>0, <1>1, <1>2 DEF Known, Distributed
  <2> QED BY <1>1, <1>2, <2>1 DEF MsgOK
<1>10. \A a, b \in Procs : \A x \in Wire(a, b)' : x \in Wire(a, b) \/ MsgOK(T, a, b, x)'
  <2> SUFFICES ASSUME NEW a \in Procs, NEW b \in Procs, NEW x \in Wire(a, b)'
               PROVE  x \in Wire(a, b) \/ MsgOK(T, a, b, x)'
    OBVIOUS
  <2>1. x \in ToSet(ch[<<a, b>>]) \/ (a = Leader /\ b \in {q} /\ x = M[b])
    BY <1>4 DEF Adds, Wire
  <2>2. ToSet(ch[<<a, b>>]) \subseteq Wire(a, b)
    BY DEF Taken, Wire
  <2> QED BY <1>3, <1>9, <2>1, <2>2
<1>13. /\ "main" \in lead.stopping => proc[Leader].phase = "running"
       /\ lead.starters["main"].at # "none" => proc[Leader].phase = "waiting"
  BY <1>0 DEF LeadOK, Threads
<1> QED
  BY <1>0, <1>7, <1>8, <1>10, <1>13, LocalStep

(* handleRegister *)
LEMMA RegisterStep ==
  ASSUME NEW T \in Table, InvFor(T), NEW q \in Procs, chan[<<q, Leader>>] # <<>>,
         NEW m, m = Head(chan[<<q, Leader>>]), m.type = "register",
         m.exp = proc[Leader].exp,
         NEW ch, ch = [chan EXCEPT ![<<q, Leader>>] = Tail(@)],
         NEW r, r = handleRegister(q, ch),
         proc' = [proc EXCEPT ![Leader] = r.s], lead' = r.l, chan' = r.ch,
         scenario' = scenario, hist' = hist
  PROVE  \E U \in Table : InvFor(U)'
<1>0. /\ proc[Leader] \in ProcState /\ Leader \in Procs /\ scenario \in Scenarios
      /\ lead \in LeadState /\ lead.order \in Seq(Procs)
      /\ chan \in [Procs \X Procs -> Seq(Message)] /\ Types
  BY Setting DEF LeadState
<1>1. q # Leader /\ proc[Leader].exp > 0
  <2>1. MsgOK(T, q, Leader, m)
    BY <1>0, HeadFacts
  <2> QED BY <2>1 DEF MsgOK
<1>2. Taken(ch, q, Leader)
  BY <1>0, TakenFacts
<1> DEFINE known == q \in ToSet(lead.order)
           canResend == /\ ~proc[Leader].start
                        /\ Cardinality(proc[Leader].allPeers) >= scenario.total
                        /\ lead.assigned[q] # {}
<1>5. CASE known /\ canResend
  <2>1. PICK n : n = Assignment(lead.order, q, proc[Leader].exp)
    OBVIOUS
  <2>2. r = [s |-> proc[Leader], l |-> lead, ch |-> sendJson(ch, Leader, {q}, n)]
    BY <1>5, <2>1 DEF handleRegister
  <2>3. /\ proc' = proc /\ lead' = lead /\ chan' = sendJson(ch, Leader, {q}, n)
        /\ lead.assigned[q] # {}
    <3>1. [proc EXCEPT ![Leader] = proc[Leader]] = proc
      BY <1>0 DEF Types
    <3>2. r.s = proc[Leader] /\ r.l = lead /\ r.ch = sendJson(ch, Leader, {q}, n)
      BY <2>2
    <3> QED BY <1>5, <3>1, <3>2
  <2>4. Resends(q, ch, n)
    BY <2>1, <2>3 DEF Resends
  <2>5. InvFor(T)'
    BY <1>1, <1>2, <2>4, ResendStep
  <2> QED BY <2>5
<1>6. CASE ~(known /\ canResend)
  <2>1. PICK o : o = IF known THEN lead.order ELSE Append(lead.order, q)
    OBVIOUS
  <2>2. PICK l : l = [lead EXCEPT !.order = o]
    OBVIOUS
  <2>3. l = IF known THEN lead ELSE [lead EXCEPT !.order = Append(@, q)]
    <3>1. CASE known
      <4>1. o = lead.order
        BY <2>1, <3>1
      <4> QED BY <1>0, <2>2, <3>1, <4>1 DEF LeadState
    <3>2. CASE ~known
      BY <2>1, <2>2, <3>2
    <3> QED BY <3>1, <3>2
  <2>4. r = distributeAssignmentsIfReady(proc[Leader], l, ch)
    BY <1>6, <2>3 DEF handleRegister
  <2>5. o \in Seq(Procs) /\ Enrols(o, q)
    BY <1>0, <2>1 DEF Enrols
  <2>6. l \in LeadState
    BY <1>0, <2>2, <2>5 DEF LeadState
  <2>7. ch \in [Procs \X Procs -> Seq(Message)]
    BY <1>2 DEF Taken
  <2>8. Divided(r, proc[Leader], l, ch)
    BY <1>0, <2>4, <2>6, <2>7, DivisionFacts
  <2> QED BY <1>1, <1>2, <2>2, <2>5, <2>8, EnrolStep
<1> QED BY <1>5, <1>6

(* The records that configureProcess leaves *)
Cleared(l, o) ==
  l = [lead EXCEPT !.order = o, !.ready = {}, !.completed = {},
                   !.assigned = [q \in Procs |-> {}]]

(* configureProcess of the leader: what it starts from *)
LEMMA ReconfiguredFacts ==
  ASSUME scenario \in Scenarios, Leader \in Procs, proc[Leader] \in ProcState,
         lead \in LeadState, proc[Leader].exp < scenario.experiments,
         NEW s, s = Reconfigured(proc[Leader]), NEW o, o = <<Leader>>,
         NEW l, Cleared(l, o)
  PROVE  /\ s \in ProcState /\ s.exp = proc[Leader].exp + 1 /\ s.exp \in Nat
         /\ s.phase = "configured" /\ ~s.start /\ ~s.stop /\ ~s.assignmentsReady
         /\ s.interfaces = {} /\ s.inbound = {} /\ s.ranges = <<>>
         /\ l \in LeadState /\ l.order = o /\ l.ready = {} /\ l.completed = {}
         /\ l.assigned = [q \in Procs |-> {}]
         /\ l.timer = lead.timer /\ l.stopping = lead.stopping
         /\ l.timerExp = lead.timerExp /\ l.starters = lead.starters
         /\ o \in Seq(Procs) /\ IsInjective(o) /\ o # <<>> /\ o[1] = Leader
<1>1. scenario.experiments \in Nat /\ proc[Leader].exp \in Nat
  BY ScenarioFacts DEF ProcState
<1>2. PICK e \in 0 .. scenario.experiments : e = proc[Leader].exp + 1
  BY <1>1
<1>3. s = [exp |-> e, phase |-> "configured", up |-> TRUE, assignmentsReady |-> FALSE,
           start |-> FALSE, stop |-> FALSE, local |-> {}, allPeers |-> {},
           ranges |-> <<>>, interfaces |-> {}, inbound |-> {}, sent |-> 0]
  BY <1>2 DEF Reconfigured, Fresh
<1>4. s \in ProcState
  BY <1>2, <1>3 DEF ProcState, Phase
<1>5. o \in Seq(Procs) /\ o # <<>> /\ o[1] = Leader /\ IsInjective(o)
  BY DEF IsInjective
<1>6. PICK A \in [Procs -> SUBSET Ids] : A = [q \in Procs |-> {}]
  OBVIOUS
<1>7. /\ l \in LeadState /\ l.order = o /\ l.ready = {} /\ l.completed = {}
      /\ l.assigned = A /\ l.timer = lead.timer /\ l.stopping = lead.stopping
      /\ l.timerExp = lead.timerExp /\ l.starters = lead.starters
  BY <1>5, <1>6 DEF LeadState, Cleared
<1> QED BY <1>1, <1>2, <1>3, <1>4, <1>5, <1>6, <1>7

(* configureProcess of the leader *)
LEMMA LeaderConfigures ==
  ASSUME NEW T \in Table, InvFor(T), ConfigureProcess(Leader)
  PROVE  \E U \in Table : InvFor(U)'
<1>0. /\ proc[Leader] \in ProcState /\ proc[Leader].exp \in Nat /\ ProcOK(T, Leader)
      /\ Leader \in Procs /\ LeadOK(T) /\ scenario \in Scenarios
      /\ lead \in LeadState /\ hist \in HistState /\ Leader \notin hist.restarted
      /\ chan \in [Procs \X Procs -> Seq(Message)] /\ Types
      /\ \A a, b \in Procs : \A m \in Wire(a, b) : m \in Message /\ MsgOK(T, a, b, m)
  BY Setting
<1>1. PICK t : t = Reconfigured(proc[Leader])
  OBVIOUS
<1>2. PICK o : o = <<Leader>>
  OBVIOUS
<1>3. PICK A : A = [q \in Procs |-> {}]
  OBVIOUS
<1>4. PICK l : l = [lead EXCEPT !.order = o, !.ready = {}, !.completed = {}, !.assigned = A]
  OBVIOUS
<1>5. PICK r : r = distributeAssignmentsIfReady(t, l, chan)
  OBVIOUS
<1>6. /\ proc[Leader].phase = "idle" /\ proc[Leader].exp < scenario.experiments
      /\ "handler" \notin lead.stopping /\ lead.starters["handler"].at = "none"
      /\ proc' = [proc EXCEPT ![Leader] = r.s] /\ lead' = r.l /\ chan' = r.ch
      /\ scenario' = scenario /\ hist' = hist
  BY <1>1, <1>2, <1>3, <1>4, <1>5 DEF ConfigureProcess, mutexFree
<1>6a. Cleared(l, o)
  BY <1>3, <1>4 DEF Cleared
<1>7. /\ t \in ProcState /\ t.exp = proc[Leader].exp + 1 /\ t.exp \in Nat
      /\ t.phase = "configured" /\ ~t.start /\ ~t.stop /\ ~t.assignmentsReady
      /\ t.interfaces = {} /\ t.inbound = {} /\ t.ranges = <<>>
      /\ l \in LeadState /\ l.order = o /\ l.ready = {} /\ l.completed = {}
      /\ l.assigned = A /\ l.timer = lead.timer /\ l.stopping = lead.stopping
      /\ l.timerExp = lead.timerExp /\ l.starters = lead.starters
      /\ o \in Seq(Procs) /\ IsInjective(o) /\ o # <<>> /\ o[1] = Leader
  <2>1. proc[Leader].exp < scenario.experiments
    BY <1>6
  <2>2. l.assigned = [q \in Procs |-> {}] => l.assigned = A
    BY <1>3
  <2> QED BY <1>0, <1>1, <1>2, <1>6a, <2>1, <2>2, ReconfiguredFacts
<1>8. Divided(r, t, l, chan)
  BY <1>0, <1>5, <1>7, DivisionFacts
<1>9. PICK e \in Nat : e = proc[Leader].exp + 1
  BY <1>0
<1>10. PICK s : s = r.s
  OBVIOUS
<1>11. Requested(o) \in Nat /\ scenario.total \in Nat
  BY <1>0, <1>7, NextIdGrows, ScenarioFacts
<1>12. /\ s \in ProcState /\ s.exp = e /\ s.phase = "configured"
       /\ s.interfaces = {} /\ s.inbound = {} /\ ~s.start /\ ~s.stop
       /\ lead' \in LeadState /\ lead'.order = o /\ lead'.ready = {}
       /\ lead'.completed = {} /\ lead'.timer = lead.timer
       /\ lead'.stopping = lead.stopping /\ lead'.timerExp = lead.timerExp
       /\ lead'.starters = lead.starters
       /\ chan' \in [Procs \X Procs -> Seq(Message)]
       /\ \A a \in Procs : chan'[<<a, Leader>>] = chan[<<a, Leader>>]
  BY <1>6, <1>7, <1>8, <1>9, <1>10 DEF Divided
<1>13. \/ /\ ~(Requested(o) >= scenario.total) /\ s = t /\ lead'.assigned = A
       \/ /\ Requested(o) >= scenario.total
          /\ s.ranges = peerRanges(o) /\ s.ranges # <<>>
          /\ s.local = Share(peerRanges(o), Leader)
  <2>1. Requested(o) >= scenario.total => peerRanges(o) # <<>>
    BY <1>0, <1>7, RangesOfOrder, TableNotEmpty
  <2>2. \/ Requested(o) < scenario.total /\ s = t /\ lead'.assigned = A
        \/ /\ Requested(o) >= scenario.total
           /\ s.ranges = peerRanges(o)
           /\ s.local = Share(peerRanges(o), Leader)
    BY <1>6, <1>7, <1>8, <1>10 DEF Divided
  <2> QED BY <1>11, <2>1, <2>2
<1>14. ~Known(e)
  BY <1>0, <1>9 DEF Known
<1>15. PICK U \in Table : /\ \A x \in Nat : Known(x) => U[x] = T[x]
                          /\ Requested(o) >= scenario.total => U[e] = peerRanges(o)
  BY <1>7, <1>14, TableFor
<1>16. /\ Types' /\ proc'[Leader] = s
       /\ \A x \in Procs : x # Leader => proc'[x] = proc[x]
  <2>1. chan' \in [Procs \X Procs -> Seq(Message)]
    BY <1>12
  <2>2. proc' = [proc EXCEPT ![Leader] = s] /\ hist' \in HistState
    BY <1>0, <1>6, <1>10
  <2> QED BY <1>0, <1>6, <1>12, <2>1, <2>2, TypesFrom
<1>17. Grow(T, U)
  <2>1. \A x \in Procs, y \in Nat : Passed(x, y) => Passed(x, y)'
    <3>1. proc'[Leader].exp > proc[Leader].exp /\ proc'[Leader].exp \in Nat
      BY <1>0, <1>9, <1>12, <1>16
    <3> QED BY <1>0, <1>6, <1>16, <3>1, PassedStable
  <2>2. \A x \in Nat : Known(x) => Known(x)'
    BY <1>0, <1>9, <1>12, <1>16 DEF Known
  <2> QED BY <1>6, <1>15, <2>1, <2>2 DEF Grow
<1>18. Requested(o) >= scenario.total => Known(e)'
  BY <1>12, <1>13, <1>16 DEF Known, Distributed
<1>19. ProcOK(U, Leader)'
  <2>1. PhaseOK(Leader)'
    BY <1>0, <1>9, <1>12, <1>16 DEF PhaseOK, Hosting
  <2>2. Held(Leader)' => HolderOK(U, Leader)'
    <3>1. CASE s = t
      BY <1>7, <1>16, <3>1 DEF Held, Hosting
    <3>2. CASE Requested(o) >= scenario.total
      <4>1. Known(e)' /\ s.ranges = U[e] /\ s.local = Share(U[e], Leader)
        BY <1>13, <1>15, <1>18, <3>2
      <4> QED BY <1>12, <1>16, <4>1 DEF HolderOK, Hosting
    <3> QED BY <1>13, <3>1, <3>2
  <2> QED BY <1>12, <1>16, <2>1, <2>2 DEF ProcOK
<1>21. Threads(U)'
  <2>1. /\ "main" \notin lead.stopping /\ lead.starters["main"].at = "none"
        /\ \A x \in Starters : lead.starters[x].at = "none"
    <3>1. /\ "main" \in lead.stopping => proc[Leader].phase = "running"
          /\ lead.starters["main"].at # "none" => proc[Leader].phase = "waiting"
      BY <1>0 DEF LeadOK, Threads
    <3> QED BY <1>6, <3>1 DEF Starters
  <2>2. lead.timer # "off" => proc[Leader].exp \in hist'.late
    BY <1>0, <1>6 DEF LeadOK, Threads
  <2>3. lead.stopping # {} => "timer" \in lead.stopping /\ lead.timer # "off"
    <3>1. lead.stopping \subseteq {"main", "handler", "timer"}
      BY <1>0 DEF LeadState
    <3>2. lead.stopping # {} => "timer" \in lead.stopping
      BY <1>6, <2>1, <3>1
    <3> QED BY <1>0, <3>2 DEF LeadOK, Threads
  <2>4. e > 0 /\ e - 1 = proc[Leader].exp
    BY <1>0, <1>9
  <2>5. lead.stopping # {} => (Due(e))'
    BY <2>2, <2>3, <2>4 DEF Due
  <2>6. lead.timer # "off" => e - 1 \in hist'.late
    BY <2>2, <2>4
  <2>7. "timer" \in lead.stopping => lead.timer # "off"
    BY <2>3
  <2> QED BY <1>12, <1>16, <2>1, <2>4, <2>5, <2>6, <2>7 DEF Threads
<1>22. Enrolled(U, o, e)
  <2>1. proc'[Leader].ranges # <<>> <=> Requested(o) >= scenario.total
    BY <1>7, <1>13, <1>16
  <2>2. \A x \in Procs : lead'.assigned[x] # {} => Requested(o) >= scenario.total
    BY <1>3, <1>13
  <2>3. e > 0
    BY <1>0, <1>9
  <2> QED BY <1>7, <1>12, <1>13, <1>15, <1>16, <2>1, <2>2, <2>3 DEF Enrolled
<1>23. OnlyAssignments(o, e)
  <2>1. ASSUME NEW a \in Procs, NEW b \in Procs, NEW x \in Wire(a, b)'
        PROVE  x \in Wire(a, b) \/ (a = Leader /\ b # Leader /\ IsAssignment(x, o, b, e))
    <3>1. t.exp = e
      BY <1>7, <1>9
    <3> QED BY <1>6, <1>7, <1>8, <3>1 DEF Divided, Wire
  <2> QED BY <2>1 DEF OnlyAssignments
<1>25. InvFor(U)'
  <2>1. /\ \A q \in lead'.ready : Passed(q, e)'
        /\ \A id \in lead'.completed : <<e, id>> \in hist'.finished
        /\ Leader \notin hist'.restarted
    BY <1>0, <1>6, <1>12
  <2>2. \A x \in Procs : x # Leader => proc'[x] = proc[x]
    BY <1>16
  <2>3. o \in Seq(Procs) /\ Types'
    BY <1>7, <1>16
  <2> QED BY <1>17, <1>19, <1>21, <1>22, <1>23, <2>1, <2>2, <2>3, AssignStep
<1> QED
  BY <1>25

(***************************************************************************)
(* Every step.                                                             *)
(***************************************************************************)
(* A message of the leader's experiment is handled by the leader. *)
LEMMA LeaderReads ==
  ASSUME NEW T \in Table, InvFor(T), NEW q \in Procs, chan[<<q, Leader>>] # <<>>,
         NEW m, m = Head(chan[<<q, Leader>>]), m.exp = proc[Leader].exp,
         NEW ch, ch = [chan EXCEPT ![<<q, Leader>>] = Tail(@)],
         NEW r, r = leaderHandles(q, m, ch),
         proc' = [proc EXCEPT ![Leader] = r.s], lead' = r.l, chan' = r.ch,
         scenario' = scenario, hist' = hist
  PROVE  \E U \in Table : InvFor(U)'
<1>0. /\ Leader \in Procs /\ Types /\ hist \in HistState /\ scenario \in Scenarios
      /\ chan \in [Procs \X Procs -> Seq(Message)]
  BY Setting
<1>1. m \in Message /\ MsgOK(T, q, Leader, m)
  BY <1>0, HeadFacts
<1>2. CASE m.type = "register"
  <2>1. r = handleRegister(q, ch)
    BY <1>2 DEF leaderHandles
  <2> QED BY <1>2, <2>1, RegisterStep
<1>3. CASE m.type = "ready"
  <2>1. /\ r.s = proc[Leader] /\ r.ch = ch
        /\ r.l = [lead EXCEPT !.ready = @ \cup ({q} \cap ToSet(lead.order)),
                              !.starters["handler"].at = "gate"]
    BY <1>3 DEF leaderHandles
  <2>2. [proc EXCEPT ![Leader] = proc[Leader]] = proc
    BY <1>0 DEF Types
  <2>3. Marks(q)
    BY <2>1, <2>2 DEF Marks
  <2>4. InvFor(T)'
    BY <1>3, <2>3, ReadyStep
  <2> QED BY <2>4
<1>4. CASE m.type = "peerDone"
  <2>1. PICK d : d = peerDone(m.id, "handler")
    OBVIOUS
  <2>2. r.s = d.s /\ r.l = d.l /\ r.ch = ch
    BY <1>4, <2>1 DEF leaderHandles, Same
  <2>3. m.id \in Ids
    BY <1>1, <1>4, MessageFacts
  <2>4. <<proc[Leader].exp, m.id>> \in hist'.finished /\ proc[Leader].exp > 0
    BY <1>1, <1>4 DEF MsgOK
  <2>5. chan' = [chan EXCEPT ![<<q, Leader>>] = Tail(@)]
    BY <2>2
  <2>6. /\ chan' \in [Procs \X Procs -> Seq(Message)]
        /\ \A x, y \in Procs : Wire(x, y)' \subseteq Wire(x, y)
    BY <1>0, <2>5, TailFacts
  <2>7. PICK i \in Ids : i = m.id
    BY <2>3
  <2>8. PICK t \in {"main", "handler"} : t = "handler"
    OBVIOUS
  <2>9. d = peerDone(i, t) /\ proc' = [proc EXCEPT ![Leader] = d.s] /\ lead' = d.l
    BY <2>1, <2>2, <2>7, <2>8
  <2>10. chan' \in [Procs \X Procs -> Seq(Message)]
    BY <2>6
  <2>11. /\ hist' \in HistState /\ hist.finished \subseteq hist'.finished
         /\ hist'.elapsed = hist.elapsed /\ hist'.restarted = hist.restarted
         /\ hist'.late = hist.late
         /\ <<proc[Leader].exp, i>> \in hist'.finished /\ proc[Leader].exp > 0
         /\ t = "main" => proc[Leader].phase = "running"
    BY <1>0, <2>4, <2>7, <2>8
  <2>12. InvFor(T)'
    BY <2>6, <2>9, <2>10, <2>11, PeerDoneStep
  <2> QED BY <2>12
<1>5. CASE m.type \notin {"register", "ready", "peerDone"}
  <2>1. /\ r.s = followerHandles(proc[Leader], m) /\ r.l = lead /\ r.ch = ch
    BY <1>5 DEF leaderHandles
  <2>2. /\ proc' = [proc EXCEPT ![Leader] = followerHandles(proc[Leader], m)]
        /\ lead' = lead
    BY <2>1
  <2>3. chan' = [chan EXCEPT ![<<q, Leader>>] = Tail(@)]
    BY <2>1
  <2>4. PICK p \in Procs : p = Leader
    BY <1>0
  <2>5. /\ chan[<<q, p>>] # <<>> /\ chan' = [chan EXCEPT ![<<q, p>>] = Tail(@)]
        /\ m = Head(chan[<<q, p>>]) /\ m.exp = proc[p].exp
        /\ proc' = [proc EXCEPT ![p] = followerHandles(proc[p], m)]
    BY <2>2, <2>3, <2>4
  <2>6. Reads(q, p, m)
    BY <2>2, <2>5 DEF Reads
  <2>7. InvFor(T)'
    BY <2>6, LocalRead
  <2> QED BY <2>7
<1> QED BY <1>2, <1>3, <1>4, <1>5

(* processMessage *)
LEMMA ProcessMessageStep ==
  ASSUME NEW T \in Table, InvFor(T), NEW q \in Procs, NEW p \in Procs,
         ProcessMessage(q, p)
  PROVE  \E U \in Table : InvFor(U)'
<1>0. hist \in HistState /\ chan \in [Procs \X Procs -> Seq(Message)]
  BY Setting
<1>1. PICK m : m = Head(chan[<<q, p>>])
  OBVIOUS
<1>2. PICK ch : ch = [chan EXCEPT ![<<q, p>>] = Tail(@)]
  OBVIOUS
<1>3. chan[<<q, p>>] # <<>> /\ scenario' = scenario
  BY DEF ProcessMessage
<1>4. CASE m.exp = proc[p].exp /\ p = Leader
  <2>1. PICK r : r = leaderHandles(q, m, ch)
    OBVIOUS
  <2>2. proc' = [proc EXCEPT ![Leader] = r.s] /\ lead' = r.l /\ chan' = r.ch /\ hist' = hist
    BY <1>1, <1>2, <1>4, <2>1 DEF ProcessMessage, Current
  <2>3. /\ chan[<<q, Leader>>] # <<>> /\ m = Head(chan[<<q, Leader>>])
        /\ m.exp = proc[Leader].exp /\ ch = [chan EXCEPT ![<<q, Leader>>] = Tail(@)]
    BY <1>1, <1>2, <1>3, <1>4
  <2> QED BY <1>3, <2>1, <2>2, <2>3, LeaderReads
<1>5. CASE m.exp = proc[p].exp /\ p # Leader
  <2>1. /\ proc' = [proc EXCEPT ![p] = followerHandles(proc[p], m)]
        /\ lead' = lead /\ chan' = ch /\ hist' = hist
    BY <1>1, <1>2, <1>5 DEF ProcessMessage, Current
  <2>2. chan' = [chan EXCEPT ![<<q, p>>] = Tail(@)]
    BY <1>2, <2>1
  <2>3. Reads(q, p, m)
    BY <1>1, <1>3, <1>5, <2>1, <2>2 DEF Reads
  <2>4. InvFor(T)'
    BY <2>3, LocalRead
  <2> QED BY <2>4
<1>6. CASE m.exp # proc[p].exp
  <2>1. /\ chan' = [chan EXCEPT ![<<q, p>>] = Tail(@)]
        /\ proc' = proc /\ lead' = lead
        /\ \/ hist' = hist
           \/ hist' = [hist EXCEPT !.missed = @ \cup {<<q, m.exp>>}]
    BY <1>1, <1>6 DEF ProcessMessage, Current
  <2>2. m.exp \in Nat
    <3>1. m \in Message
      BY <1>1, <1>3, HeadFacts
    <3> QED BY <3>1, MessageFacts
  <2>3. /\ hist' \in HistState /\ hist'.finished = hist.finished
        /\ hist'.elapsed = hist.elapsed /\ hist'.restarted = hist.restarted
        /\ hist'.late = hist.late
    <3>1. CASE hist' = hist
      BY <1>0, <3>1
    <3>2. CASE hist' = [hist EXCEPT !.missed = @ \cup {<<q, m.exp>>}]
      <4>1. PICK e \in Nat : e = m.exp
        BY <2>2
      <4>2. hist' = [hist EXCEPT !.missed = @ \cup {<<q, e>>}]
        BY <3>2, <4>1
      <4> QED BY <1>0, <4>2, MissedFacts
    <3> QED BY <2>1, <3>1, <3>2
  <2>4. InvFor(T)'
    BY <1>3, <2>1, <2>3, DropStep
  <2> QED BY <2>4
<1> QED BY <1>4, <1>5, <1>6

(* A step of the main thread of p *)
LEMMA MainStep ==
  ASSUME NEW T \in Table, InvFor(T), NEW p \in Procs, Main(p)
  PROVE  \E U \in Table : InvFor(U)'
<1>1. CASE ConfigureProcess(p)
  <2>1. CASE p = Leader
    BY <1>1, <2>1, LeaderConfigures
  <2>2. CASE p # Leader
    BY <1>1, <2>2, FollowerConfigures
  <2> QED BY <2>1, <2>2
<1>2. CASE TakeAssignments(p)
  BY <1>2, TakeAssignmentsStep
<1>3. CASE MarkReady(p)
  BY <1>3, LeaderReady, FollowerReady
<1>4. CASE Begin(p)
  BY <1>4, BeginStep
<1>5. CASE Finish(p)
  BY <1>5, LeaderFinishes, FollowerFinishes
<1>6. CASE p = Leader /\ Join
  BY <1>6, LeaderJoins
<1>7. CASE Shutdown(p)
  BY <1>7, LeaderExits, FollowerExits
<1>8. CASE \E id \in Ids : RequestStop(p, id) \/ Receive(p, id)
  <2>1. PICK id \in Ids : RequestStop(p, id) \/ Receive(p, id)
    BY <1>8
  <2>2. CASE RequestStop(p, id)
    BY <2>2, LeaderPeerStops, FollowerPeerStops
  <2>3. CASE Receive(p, id)
    BY <2>3, ReceiveStep
  <2> QED BY <2>1, <2>2, <2>3
<1> QED
  BY <1>1, <1>2, <1>3, <1>4, <1>5, <1>6, <1>7, <1>8 DEF Main

(* A stuttering step *)
LEMMA StutterStep ==
  ASSUME NEW T \in Table, InvFor(T), UNCHANGED vars
  PROVE  InvFor(T)'
<1>0. /\ proc[Leader] \in ProcState /\ proc[Leader].exp \in Nat /\ ProcOK(T, Leader)
      /\ Leader \in Procs /\ LeadOK(T) /\ Types
      /\ lead \in LeadState /\ hist \in HistState /\ Leader \notin hist.restarted
      /\ chan \in [Procs \X Procs -> Seq(Message)]
  BY Setting
<1>1. scenario' = scenario /\ proc' = proc /\ lead' = lead /\ chan' = chan /\ hist' = hist
  BY DEF vars
<1>2. proc' = [proc EXCEPT ![Leader] = proc[Leader]]
  BY <1>0, <1>1 DEF Types
<1>3. /\ Types' /\ Grow(T, T)
      /\ \A x \in Procs : x # Leader => proc'[x] = proc[x]
      /\ proc'[Leader].exp = proc[Leader].exp
      /\ proc'[Leader].ranges = proc[Leader].ranges
  BY <1>0, <1>1, <1>2, LocalGrow
<1>4. ProcOK(T, Leader)'
  BY <1>0, <1>1, <1>3, ProcStable
<1>5. \A q, r \in Procs : Wire(q, r)' = Wire(q, r)
  BY <1>1 DEF Wire
<1>8. /\ "main" \in lead.stopping => proc'[Leader].phase = "running"
      /\ lead.starters["main"].at # "none" => proc'[Leader].phase = "waiting"
      /\ proc'[Leader].phase = "idle" => proc[Leader].phase = "idle"
  BY <1>0, <1>1 DEF LeadOK, Threads
<1> QED
  BY <1>0, <1>1, <1>3, <1>4, <1>5, <1>8, LocalStep

(* Every step keeps the invariant. *)
LEMMA StepKeepsInv ==
  ASSUME Inv, [Next]_vars
  PROVE  Inv'
<1>1. PICK T \in Table : InvFor(T)
  BY DEF Inv
<1>2. Leader \in Procs
  BY <1>1, Setting
<1>3. \E U \in Table : InvFor(U)'
  <2>1. ASSUME NEW p \in Procs, Main(p) PROVE \E U \in Table : InvFor(U)'
    BY <1>1, <2>1, MainStep
  <2>2. ASSUME NEW p \in Procs, Restart(p) PROVE \E U \in Table : InvFor(U)'
    BY <1>1, <2>2, RestartStep
  <2>3. ASSUME NEW p \in Procs, NEW id \in Ids, Unicast(p, id)
        PROVE  \E U \in Table : InvFor(U)'
    BY <1>1, <2>3, UnicastStep
  <2>4. ASSUME NEW p \in Procs, NEW q \in Procs, ProcessMessage(q, p)
        PROVE  \E U \in Table : InvFor(U)'
    BY <1>1, <2>4, ProcessMessageStep
  <2>5. ASSUME NEW p \in Procs, NEW q \in Procs, Expire(q, p)
        PROVE  \E U \in Table : InvFor(U)'
    BY <1>1, <2>5, ExpireStep
  <2>6. ASSUME NEW t \in Starters, BroadcastStartIfReady(t)
        PROVE  \E U \in Table : InvFor(U)'
    <3>1. InvFor(T)'
      BY <1>1, <2>6, TestGateStep, BroadcastStartStep, ExchangeTimerStep, LaunchTimerStep
         DEF BroadcastStartIfReady
    <3> QED BY <3>1
  <2>7. CASE BroadcastStop
    BY <1>1, <2>7, BroadcastStopStep
  <2>8. CASE TimerExpires
    BY <1>1, <2>8, TimerStep
  <2>9. CASE UNCHANGED vars
    BY <1>1, <2>9, StutterStep
  <2> QED
    BY <2>1, <2>2, <2>3, <2>4, <2>5, <2>6, <2>7, <2>8, <2>9 DEF Next
<1>4. scenario' = scenario
  BY DEF Next, Main, ConfigureProcess, TakeAssignments, MarkReady, Begin, Finish, Join,
         Shutdown, RequestStop, Receive, Restart, Unicast, ProcessMessage, Expire,
         BroadcastStartIfReady, TestGate, BroadcastStart, ExchangeTimer, LaunchTimer,
         BroadcastStop, TimerExpires, vars
<1>5. Table' = Table
  BY <1>4, ScenarioFixed DEF Table
<1> QED
  BY <1>3, <1>5 DEF Inv

(* The invariant holds at first. *)
LEMMA InitInv ==
  ASSUME Init
  PROVE  Inv
<1>0. /\ scenario \in Scenarios /\ Leader \in Procs /\ scenario.total \in Nat \ {0}
      /\ scenario.experiments \in Nat
  BY ScenarioFacts DEF Init
<1>1. PICK T \in Table : TRUE
  <2>1. [e \in Nat |-> [id \in Ids |-> Leader]] \in Table
    BY <1>0 DEF Table
  <2> QED BY <2>1
<1>2. PICK s : s = Fresh
  OBVIOUS
<1>3. /\ s \in ProcState /\ s.exp = 0 /\ s.phase = "idle" /\ ~s.start /\ ~s.stop
      /\ s.interfaces = {} /\ s.inbound = {} /\ s.ranges = <<>>
  BY <1>0, <1>2 DEF ProcState, Phase, Fresh
<1>4. /\ proc = [p \in Procs |-> s] /\ \A p \in Procs : proc[p] = s
      /\ chan = [c \in Procs \X Procs |-> <<>>]
      /\ \A q, p \in Procs : chan[<<q, p>>] = <<>>
  BY <1>2 DEF Init
<1>5. /\ lead.order = <<>> /\ lead.assigned = [p \in Procs |-> {}] /\ lead.ready = {}
      /\ lead.completed = {} /\ lead.timer = "off" /\ lead.stopping = {}
      /\ lead \in LeadState /\ \A t \in Starters : lead.starters[t].at = "none"
  <2>1. PICK A \in [Procs -> SUBSET Ids] : A = [p \in Procs |-> {}]
    OBVIOUS
  <2>2. PICK f : f = [t \in Starters |-> Outside]
    OBVIOUS
  <2>3. /\ f \in [Starters -> [at : {"none", "gate", "loop", "timer"}, left : Seq(Procs)]]
        /\ \A t \in Starters : f[t].at = "none"
    BY <2>2 DEF Outside
  <2>4. lead = [order |-> <<>>, assigned |-> A, ready |-> {}, completed |-> {},
                starters |-> f, active |-> FALSE, timer |-> "off", timerExp |-> 0,
                stopping |-> {}]
    BY <2>1, <2>2 DEF Init
  <2> QED BY <2>1, <2>3, <2>4 DEF LeadState
<1>6. hist \in HistState /\ hist.restarted = {}
  BY DEF Init, HistState
<1>7. Types
  BY <1>0, <1>3, <1>4, <1>5, <1>6 DEF Types
<1>8. \A q, p \in Procs : Wire(q, p) = {}
  <2>1. ToSet(<<>>) = {}
    BY DEF ToSet
  <2> QED BY <1>4, <2>1 DEF Wire
<1>9. ASSUME NEW p \in Procs PROVE ProcOK(T, p)
  BY <1>3, <1>4 DEF ProcOK, PhaseOK, Held, Hosting
<1>10. Requested(<<>>) = 0
  <2>0. <<>> \in Seq(Procs)
    OBVIOUS
  <2>1. PICK o \in Seq(Procs) : o = <<>>
    BY <2>0
  <2>2. nextId(o)[0] = 0
    BY <1>0, <2>1, NextIdGrows
  <2> QED BY <2>1, <2>2 DEF Requested
<1>11. ~Distributed
  BY <1>0, <1>3, <1>4 DEF Distributed
<1>12. Registrations
  <2>1. ~(Requested(lead.order) >= scenario.total)
    BY <1>0, <1>5, <1>10
  <2>2. IsInjective(lead.order)
    BY <1>5 DEF IsInjective
  <2> QED BY <1>0, <1>3, <1>4, <1>5, <1>11, <2>1, <2>2 DEF Registrations
<1>13. LeadOK(T)
  BY <1>5, <1>6, <1>11, <1>12 DEF LeadOK, Threads, Starters
<1> QED
  BY <1>7, <1>8, <1>9, <1>13 DEF Inv, InvFor

(***************************************************************************)
(* The theorems.                                                           *)
(***************************************************************************)
(* There is a table of hosts per experiment that all messages on their way *)
(* and all processes agree with, and what the leader has recorded is true; *)
(* a thread of the leader that broadcasts a start has found all who host   *)
(* peers past markReady, at whatever step of broadcastStartIfReady it is   *)
(* and whatever main thread and timer have done meanwhile, and a timer is  *)
(* that of the experiment, or one of the experiment before that was        *)
(* started when it was over (ProcessCoordinator.cpp, the whole of it).     *)
THEOREM Invariance == Spec => []Inv
<1>1. Init => Inv
  BY InitInv
<1>2. Inv /\ [Next]_vars => Inv'
  BY StepKeepsInv
<1> QED
  BY <1>1, <1>2, PTL DEF Spec

(* The members of ProcessCoordinator keep their shape: only known          *)
(* processes are recorded, each once, and only ids of the topology are     *)
(* assigned or completed.                                                  *)
THEOREM TypeCorrect == Spec => []TypeOK
<1>1. ASSUME Inv PROVE TypeOK
  <2>1. PICK T \in Table : InvFor(T)
    BY <1>1 DEF Inv
  <2>2. /\ scenario \in Scenarios /\ lead \in LeadState /\ LeadOK(T)
        /\ lead.order \in Seq(Procs)
    BY <2>1, Setting DEF LeadState
  <2>3. ASSUME NEW p \in Procs
        PROVE  /\ proc[p].exp \in 0 .. scenario.experiments /\ proc[p].phase \in Phase
               /\ {proc[p].up, proc[p].assignmentsReady, proc[p].start, proc[p].stop}
                    \subseteq BOOLEAN
               /\ UNION {proc[p].local, proc[p].allPeers, proc[p].interfaces} \subseteq Ids
               /\ proc[p].ranges \in {<<>>} \cup [Ids -> Procs]
               /\ proc[p].inbound \subseteq Message
    <3>1. proc[p] \in ProcState
      BY <2>1, Setting
    <3> QED BY <3>1 DEF ProcState
  <2>4. ToSet(lead.order) \subseteq Procs
    BY <2>2, ToSetType
  <2>5. IsInjective(lead.order) /\ lead.ready \subseteq ToSet(lead.order)
    BY <2>2 DEF LeadOK, Registrations
  <2>6. /\ lead.completed \subseteq Ids /\ lead.timer \in {"off", "sleeping", "ended"}
        /\ lead.stopping \subseteq {"main", "handler", "timer"} /\ lead.active \in BOOLEAN
    BY <2>2 DEF LeadState
  <2>8. ASSUME NEW t \in Starters
        PROVE  /\ lead.starters[t].at \in {"none", "gate", "loop", "timer"}
               /\ ToSet(lead.starters[t].left) \subseteq Procs
    <3>1. /\ lead.starters[t].at \in {"none", "gate", "loop", "timer"}
          /\ lead.starters[t].left \in Seq(Procs)
      BY <2>2 DEF LeadState
    <3> QED BY <3>1, ToSetType
  <2>7. \A c \in Procs \X Procs : chan[c] \in Seq(Message)
    BY <2>1, Setting
  <2> QED BY <2>2, <2>3, <2>4, <2>5, <2>6, <2>7, <2>8 DEF TypeOK, Phase
<1> QED
  BY <1>1, Invariance, PTL

(* Every peer has one host: whoever registers while assignments are under  *)
(* way, or again after a restart, the processes that host peers of the     *)
(* same experiment agree on who hosts what and host exactly their part     *)
(* (distributeAssignmentsIfReady, handleRegister, handleAssignment).       *)
THEOREM OneHostPerPeer == Spec => []OwnersAgree
<1>1. ASSUME Inv PROVE OwnersAgree
  <2>1. PICK T \in Table : InvFor(T)
    BY <1>1 DEF Inv
  <2>2. ASSUME NEW p \in Procs, NEW e \in Nat, Hosts(p, e)
        PROVE  /\ proc[p].ranges = T[e]
               /\ proc[p].interfaces = { id \in Ids : T[e][id] = p }
    <3>1. ProcOK(T, p) /\ proc[p].exp = e /\ proc[p].phase \in Hosting
      BY <2>1, <2>2, Setting DEF Hosts, Hosting
    <3>2. HolderOK(T, p)
      BY <3>1 DEF ProcOK, Held
    <3>3. DOMAIN T[e] = Ids
      BY DEF Table
    <3> QED BY <3>1, <3>2, <3>3 DEF HolderOK, Share
  <2>3. \A q \in Procs : proc[q].exp \in Nat
    BY <2>1, Setting
  <2> QED BY <2>2, <2>3 DEF OwnersAgree
<1> QED
  BY <1>1, Invariance, PTL

(* When a process runs an experiment, every process that hosts peers of it *)
(* has registered their interfaces, is done with it or was restarted       *)
(* (markReady, broadcastStartIfReady).                                     *)
THEOREM StartIsABarrier == Spec => []StartBarrier
<1>1. ASSUME Inv PROVE StartBarrier
  <2>1. PICK T \in Table : InvFor(T)
    BY <1>1 DEF Inv
  <2>2. ASSUME NEW p \in Procs, proc[p].phase = "running", NEW id \in Ids,
               NEW q, q = proc[p].ranges[id]
        PROVE  \/ Hosts(q, proc[p].exp) /\ id \in proc[q].interfaces
               \/ proc[q].exp = proc[p].exp /\ proc[q].phase \in {"joining", "idle", "exited"}
               \/ proc[q].exp > proc[p].exp
               \/ q \in hist.restarted
    <3>1. PICK e \in Nat : e = proc[p].exp
      BY <2>1, Setting
    <3>2. ProcOK(T, p)
      BY <2>1, Setting
    <3>3. HolderOK(T, p) /\ proc[p].start
      BY <2>2, <3>2 DEF ProcOK, PhaseOK, Held, Hosting
    <3>4. Open(T, e) /\ q = T[e][id]
      BY <2>2, <3>1, <3>2, <3>3 DEF ProcOK, HolderOK
    <3>5. q \in Procs /\ DOMAIN T[e] = Ids
      BY <3>4 DEF Table
    <3>6. ProcOK(T, q) /\ proc[q].phase \in Phase
      <4>1. proc[q] \in ProcState /\ ProcOK(T, q)
        BY <2>1, <3>5, Setting
      <4> QED BY <4>1 DEF ProcState
    <3>7. Passed(q, e)
      BY <3>4 DEF Open
    <3>8. ASSUME proc[q].exp = e, proc[q].phase \in {"waiting", "running"}
          PROVE  Hosts(q, e) /\ id \in proc[q].interfaces
      <4>1. HolderOK(T, q)
        BY <3>6, <3>8 DEF ProcOK, Held, Hosting
      <4>2. proc[q].interfaces = Share(T[e], q)
        BY <3>8, <4>1 DEF HolderOK, Hosting
      <4> QED BY <3>4, <3>5, <3>8, <4>2 DEF Hosts, Share
    <3> QED BY <3>1, <3>6, <3>7, <3>8 DEF Passed, Phase
  <2> QED BY <2>2 DEF StartBarrier
<1> QED
  BY <1>1, Invariance, PTL

(* A process that leaves the loop of an experiment does so because all     *)
(* peers of it asked for it or its own time is over, unless a thread of    *)
(* the leader was inside broadcastStartIfReady when the experiment before  *)
(* was over and started a timer then (broadcastStop, startStopTimer,       *)
(* handlePeerDone, cleanupExperiment).                                     *)
THEOREM EveryStopIsDue == Spec => []StopIsDue
<1>1. ASSUME Inv PROVE StopIsDue
  <2>1. PICK T \in Table : InvFor(T)
    BY <1>1 DEF Inv
  <2>2. \A p \in Procs : ProcOK(T, p)
    BY <2>1, Setting
  <2> QED BY <2>2 DEF ProcOK, StopIsDue, Due
<1> QED
  BY <1>1, Invariance, PTL

(* What waits for a peer was sent to it in the experiment it runs          *)
(* (handleInboundMessage, cleanupExperiment).                              *)
THEOREM InboundIsCurrent == Spec => []NoMessageOfAnotherExperiment
<1>1. ASSUME Inv PROVE NoMessageOfAnotherExperiment
  <2>1. PICK T \in Table : InvFor(T)
    BY <1>1 DEF Inv
  <2>2. \A p \in Procs : ProcOK(T, p)
    BY <2>1, Setting
  <2> QED BY <2>2 DEF ProcOK, NoMessageOfAnotherExperiment
<1> QED
  BY <1>1, Invariance, PTL
=============================================================================
