------------------------ MODULE BoostMqControlProofs ------------------------
(***************************************************************************)
(* Proofs about BoostMqControl, for every number of peers and of tests,    *)
(* every number of crashes and every state of the queues at the start.     *)
(***************************************************************************)
EXTENDS BoostMqControl, TLAPS

(* Creating, removing, sending and receiving keep a queue of M-messages    *)
(* one.                                                                    *)
LEMMA QueueOperations ==
  ASSUME NEW M
  PROVE  /\ NoQueue \in Queues(M) /\ NewQueue \in Queues(M)
         /\ \A q \in Queues(M) : Unlinked(q) \in Queues(M)
         /\ \A q \in Queues(M) : q.msgs # <<>> => Without(q) \in Queues(M)
         /\ \A q \in Queues(M) : q.msgs # <<>> => Head(q.msgs) \in M
         /\ \A q \in Queues(M), m \in M : With(q, m) \in Queues(M)
<1>1. NoQueue \in Queues(M) /\ NewQueue \in Queues(M)
  BY DEF Queues, NoQueue, NewQueue
<1>2. ASSUME NEW q \in Queues(M) PROVE Unlinked(q) \in Queues(M)
  BY DEF Queues, Unlinked
<1>3. ASSUME NEW q \in Queues(M), q.msgs # <<>>
      PROVE  Without(q) \in Queues(M) /\ Head(q.msgs) \in M
  <2>1. q.msgs \in Seq(M) /\ q.linked \in BOOLEAN
    BY DEF Queues
  <2>2. Tail(q.msgs) \in Seq(M) /\ Head(q.msgs) \in M
    BY <1>3, <2>1
  <2> QED
    BY <2>1, <2>2 DEF Queues, Without
<1>4. ASSUME NEW q \in Queues(M), NEW m \in M PROVE With(q, m) \in Queues(M)
  <2>1. q.msgs \in Seq(M) /\ q.linked \in BOOLEAN
    BY DEF Queues
  <2>2. Append(q.msgs, m) \in Seq(M)
    BY <2>1
  <2> QED
    BY <2>1, <2>2 DEF Queues, With
<1> QED
  BY <1>1, <1>2, <1>3, <1>4

(* The messages the code sends are of the types the queues are made for.   *)
LEMMA Messages ==
  ASSUME NEW p \in Peers, NEW t \in 0 .. Tests - 1
  PROVE  /\ \A k \in {"assign", "start", "stop"} : [kind |-> k, test |-> t] \in Controls
         /\ [from |-> p, test |-> t] \in Readies
         /\ \A b \in BOOLEAN : [from |-> p, ok |-> b, test |-> t] \in Dones
  BY BoostMqAssumption DEF Controls, Readies, Dones

(* The processes and queues keep their shape in every step of the leader,  *)
(* a peer and the launcher.                                                *)
LEMMA TypeStep == TypeOK /\ [Next]_vars => TypeOK'
<1> SUFFICES ASSUME TypeOK, [Next]_vars PROVE TypeOK'
  OBVIOUS
<1> USE BoostMqAssumption
<1> USE DEF TypeOK
<1>q. /\ \A M : NoQueue \in Queues(M) /\ NewQueue \in Queues(M)
      /\ \A M : \A q \in Queues(M) : Unlinked(q) \in Queues(M)
      /\ \A M : \A q \in Queues(M) : q.msgs # <<>> => Without(q) \in Queues(M)
      /\ \A M : \A q \in Queues(M) : q.msgs # <<>> => Head(q.msgs) \in M
      /\ \A M : \A q \in Queues(M), m \in M : With(q, m) \in Queues(M)
  BY QueueOperations
<1>1. CASE createBarrier
  BY <1>1, <1>q DEF createBarrier, Recreated, LeaderSteps, peerVars, scriptVars
<1>2. CASE acceptReady
  <2>1. barrier' \in Queues(Readies) /\ Head(barrier.msgs) \in Readies
    BY <1>2, <1>q DEF acceptReady
  <2>2. ready' \in SUBSET Peers
    BY <1>2, <2>1 DEF acceptReady, Readies
  <2>3. lpc' \in LeaderSteps /\ lk' \in Peers
    BY <1>2 DEF acceptReady, LeaderSteps, Loops, Peers
  <2> QED
    BY <1>2, <2>1, <2>2, <2>3 DEF acceptReady, peerVars, scriptVars
<1>p. 0 \in Peers
  BY DEF Peers
<1>l. ASSUME NEW next \in LeaderSteps, NextPeer(next)
      PROVE  lpc' \in LeaderSteps /\ lk' \in Peers
  BY <1>l DEF NextPeer, Peers
<1>3. CASE readyTimeout
  BY <1>3, <1>p DEF readyTimeout, LeaderSteps, peerVars, queueVars, scriptVars
<1>4. ASSUME NEW step \in Loops, sendControl(step) PROVE TypeOK'
  <2>1. Kind(step) \in {"assign", "start", "stop"} /\ After(step) \in LeaderSteps
    BY DEF Loops, Kind, After, LeaderSteps
  <2>2. lpc' \in LeaderSteps /\ lk' \in Peers
    BY <1>4, <1>l, <2>1 DEF sendControl
  <2>3. [kind |-> Kind(step), test |-> ltest] \in Controls
    BY <2>1, <1>p, Messages
  <2>4. With(control[lk], [kind |-> Kind(step), test |-> ltest]) \in Queues(Controls)
    BY <2>3, <1>q
  <2>5. control' \in [Peers -> Queues(Controls)]
    BY <1>4, <2>4 DEF sendControl
  <2> QED
    BY <1>4, <2>2, <2>5 DEF sendControl, peerVars, scriptVars
<1>5. ASSUME NEW step \in Loops, sendControlFails(step) PROVE TypeOK'
  BY <1>5, <1>p DEF sendControlFails, LeaderSteps, peerVars, queueVars, scriptVars
<1>6. CASE acceptDone
  <2>1. done' \in Queues(Dones) /\ Head(done.msgs) \in Dones
    BY <1>6, <1>q DEF acceptDone
  <2>2. completed' \in SUBSET Peers /\ failed' \in SUBSET Peers
    BY <1>6, <2>1 DEF acceptDone, Dones
  <2>3. lpc' \in LeaderSteps
    BY <1>6 DEF acceptDone, LeaderSteps, Loops
  <2> QED
    BY <1>6, <2>1, <2>2, <2>3 DEF acceptDone, peerVars, scriptVars
<1>7. CASE doneTimeout
  BY <1>7 DEF doneTimeout, LeaderSteps, peerVars, queueVars, scriptVars
<1>8. CASE evaluate
  <2>1. Success \in BOOLEAN
    BY DEF Success
  <2>2. report' \in Seq(BOOLEAN) /\ timedOut' \in BOOLEAN
    BY <1>8, <2>1 DEF evaluate
  <2> QED
    BY <1>8, <1>p, <2>2 DEF evaluate, LeaderSteps, peerVars, queueVars, scriptVars
<1>9. CASE stopBestEffort
  <2>1. lpc' \in LeaderSteps /\ lk' \in Peers
    BY <1>9, <1>l DEF stopBestEffort, LeaderSteps
  <2>2. [kind |-> "stop", test |-> ltest] \in Controls
    BY <1>p, Messages
  <2>3. With(control[lk], [kind |-> "stop", test |-> ltest]) \in Queues(Controls)
    BY <2>2, <1>q
  <2>4. control' \in [Peers -> Queues(Controls)]
    BY <1>9, <2>3 DEF stopBestEffort
  <2> QED
    BY <1>9, <2>1, <2>4 DEF stopBestEffort, peerVars, scriptVars
<1>10. CASE removeBarrier
  BY <1>10, <1>q DEF removeBarrier, LeaderSteps, peerVars, scriptVars
<1>11. CASE removeDone
  BY <1>11, <1>p, <1>q DEF removeDone, LeaderSteps, peerVars, scriptVars
<1>12. CASE removeControl
  BY <1>12, <1>q DEF removeControl, LeaderSteps, peerVars, scriptVars
<1>13. CASE removeData
  <2>1. lpc' \in LeaderSteps /\ lk' \in Peers
    BY <1>13 DEF removeData, LeaderSteps, Peers
  <2> QED
    BY <1>13, <2>1 DEF removeData, peerVars, scriptVars
<1>14. CASE endTest
  <2>1. ltest' \in 0 .. Tests - 1 /\ lpc' \in LeaderSteps
        /\ lexit' \in {"none", "0", "1", "killed"}
    BY <1>14 DEF endTest, LeaderSteps
  <2> QED
    BY <1>14, <2>1 DEF endTest, peerVars, queueVars, scriptVars
<1>15. ASSUME NEW p \in Peers, PeerStep(p) PROVE TypeOK'
  <2>g. ASSUME NEW pc \in PeerSteps, Goto(p, pc) PROVE ppc' \in [Peers -> PeerSteps]
    BY <2>g DEF Goto
  <2>t. ptest[p] \in 0 .. Tests - 1
    OBVIOUS
  <2>m. /\ [from |-> p, test |-> ptest[p]] \in Readies
        /\ [from |-> p, ok |-> TRUE, test |-> ptest[p]] \in Dones
        /\ [from |-> p, ok |-> FALSE, test |-> ptest[p]] \in Dones
    <3> HIDE DEF TypeOK
    <3> QED
      BY <2>t, Messages
  <2> USE DEF PeerSteps, Rendezvous, InTest, Exited
  <2>1. CASE removeInbox(p)
    BY <2>1, <2>g, <1>q DEF removeInbox, leaderVars, scriptVars
  <2>2. CASE createControl(p)
    BY <2>2, <2>g, <1>q DEF createControl, leaderVars, scriptVars
  <2>3. CASE createData(p)
    BY <2>3, <2>g DEF createData, leaderVars, scriptVars
  <2>4. CASE sendReady(p)
    <3>1. [from |-> p, test |-> ptest[p]] \in Readies
      BY <2>m
    <3>2. barrier' \in Queues(Readies)
      BY <2>4, <1>q, <3>1 DEF sendReady
    <3> QED
      BY <2>4, <2>g, <3>2 DEF sendReady, leaderVars, scriptVars
  <2>5. CASE sendReadyFails(p)
    BY <2>5, <2>g DEF sendReadyFails, leaderVars, queueVars, scriptVars
  <2>6. CASE waitAssignment(p)
    BY <2>6, <2>g, <1>q DEF waitAssignment, leaderVars, scriptVars
  <2>7. CASE waitStart(p)
    BY <2>7, <2>g, <1>q DEF waitStart, leaderVars, scriptVars
  <2>8. CASE run(p)
    BY <2>8, <2>g DEF run, leaderVars, queueVars, scriptVars
  <2>9. CASE sendDone(p)
    <3>1. [from |-> p, ok |-> TRUE, test |-> ptest[p]] \in Dones
      BY <2>m
    <3>2. done' \in Queues(Dones)
      BY <2>9, <1>q, <3>1 DEF sendDone
    <3> QED
      BY <2>9, <2>g, <3>2 DEF sendDone, leaderVars, scriptVars
  <2>10. CASE sendDoneFails(p)
    BY <2>10, <2>g DEF sendDoneFails, leaderVars, queueVars, scriptVars
  <2>11. CASE waitStop(p)
    BY <2>11, <2>g, <1>q DEF waitStop, leaderVars, scriptVars
  <2>12. CASE waitRemoval(p)
    <3>1. ppc' \in [Peers -> PeerSteps]
      BY <2>12, <2>g DEF waitRemoval
    <3>2. ptest' \in [Peers -> 0 .. Tests - 1]
      BY <2>12 DEF waitRemoval
    <3>3. data' \in [Peers -> BOOLEAN]
      BY <2>12 DEF waitRemoval
    <3> QED
      BY <2>12, <3>1, <3>2, <3>3 DEF waitRemoval, leaderVars, scriptVars
  <2>13. CASE removalTimeout(p)
    BY <2>13, <2>g DEF removalTimeout, leaderVars, queueVars, scriptVars
  <2>14. CASE fail(p)
    <3>1. [from |-> p, ok |-> FALSE, test |-> ptest[p]] \in Dones
      BY <2>m
    <3>2. done' \in Queues(Dones)
      BY <2>14, <1>q, <3>1 DEF fail
    <3>3. control' \in [Peers -> Queues(Controls)] /\ data' \in [Peers -> BOOLEAN]
      BY <2>14, <1>q DEF fail
    <3>4. ppc' \in [Peers -> PeerSteps]
      BY <2>14, <2>g DEF fail
    <3> QED
      BY <2>14, <3>2, <3>3, <3>4 DEF fail, leaderVars, scriptVars
  <2> HIDE DEF TypeOK
  <2> QED
    BY <1>15, <2>1, <2>2, <2>3, <2>4, <2>5, <2>6, <2>7, <2>8, <2>9, <2>10, <2>11,
       <2>12, <2>13, <2>14 DEF PeerStep
<1>r. ASSUME AllRemoved
      PROVE  /\ control' \in [Peers -> Queues(Controls)] /\ data' \in [Peers -> BOOLEAN]
             /\ barrier' \in Queues(Readies) /\ done' \in Queues(Dones)
  BY <1>r, <1>q DEF AllRemoved
<1>k. ASSUME ppc' = [p \in Peers |-> IF Alive(p) THEN "killed" ELSE ppc[p]]
      PROVE  ppc' \in [Peers -> PeerSteps]
  BY <1>k DEF PeerSteps, Exited
<1>16. CASE terminateChildren
  BY <1>16, <1>r, <1>k DEF terminateChildren, leaderVars
<1>17. CASE leaderSucceeded
  BY <1>17 DEF leaderSucceeded, leaderVars, peerVars, queueVars
<1>18. CASE peersExited
  BY <1>18, <1>r DEF peersExited, leaderVars, peerVars, queueVars
<1>19. CASE interruptRun
  BY <1>19, <1>r, <1>k DEF interruptRun, LeaderSteps
<1>20. ASSUME NEW p \in Peers, killPeer(p) PROVE TypeOK'
  BY <1>20 DEF killPeer, Goto, PeerSteps, Exited, leaderVars, queueVars, scriptVars
<1>21. CASE killLeader
  BY <1>21 DEF killLeader, LeaderSteps, peerVars, queueVars, scriptVars
<1>22. CASE UNCHANGED vars
  BY <1>22 DEF vars, leaderVars, peerVars, queueVars, scriptVars
<1> HIDE DEF TypeOK
<1> QED
  BY <1>1, <1>2, <1>3, <1>4, <1>5, <1>6, <1>7, <1>8, <1>9, <1>10, <1>11, <1>12,
     <1>13, <1>14, <1>15, <1>16, <1>17, <1>18, <1>19, <1>20, <1>21, <1>22
  DEF Next, LeaderStep, LauncherStep, Ended

(* Type correctness of the whole experiment. *)
THEOREM TypeCorrect == Spec => []TypeOK
<1>1. Init => TypeOK
  <2> SUFFICES ASSUME Init PROVE TypeOK
    OBVIOUS
  <2>1. ASSUME NEW M, NEW m \in M PROVE Leftover(m) \subseteq Queues(M)
    BY QueueOperations DEF Leftover
  <2>2. /\ [kind |-> "stop", test |-> Tests] \in Controls
        /\ [from |-> 0, test |-> Tests] \in Readies
        /\ [from |-> 0, ok |-> TRUE, test |-> Tests] \in Dones
    BY BoostMqAssumption DEF Controls, Readies, Dones, Peers
  <2>3. barrier \in Queues(Readies) /\ done \in Queues(Dones)
        /\ control \in [Peers -> Queues(Controls)]
    BY <2>1, <2>2 DEF Init
  <2>4. data \in [Peers -> BOOLEAN]
    <3>1. PICK b \in BOOLEAN : data = [p \in Peers |-> b /\ Stale]
      BY DEF Init
    <3>2. (b /\ Stale) \in BOOLEAN
      OBVIOUS
    <3> QED
      BY <3>1, <3>2, Zenon
  <2>5. lk \in Peers /\ ltest \in 0 .. Tests - 1 /\ ptest \in [Peers -> 0 .. Tests - 1]
    BY BoostMqAssumption DEF Init, Peers
  <2>6. lpc \in LeaderSteps /\ ppc \in [Peers -> PeerSteps]
    BY DEF Init, LeaderSteps, PeerSteps, Rendezvous
  <2> QED
    BY <2>3, <2>4, <2>5, <2>6 DEF Init, TypeOK
<1> QED
  BY <1>1, TypeStep, PTL DEF Spec
-----------------------------------------------------------------------------
(* The steps of the leader after the report entry of a test was appended.  *)
TestOver ==
  {"stopBestEffort", "removeBarrier", "removeDone", "removeControl", "removeData",
   "endTest"}

(* One entry per test, only the last one a failure, and a success only     *)
(* with every output file.                                                 *)
ReportInv ==
  /\ lpc # "exited" => Len(report) = IF lpc \in TestOver THEN ltest + 1 ELSE ltest
  /\ timedOut => lpc \in TestOver \cup {"exited"}
  /\ \A t \in 1 .. Len(report) : ~report[t] => t = Len(report) /\ timedOut
  /\ \A t \in 1 .. Len(report) : report[t] => \A p \in Peers : <<p, t - 1>> \in outputs
  /\ lexit = "0" => ~timedOut /\ Len(report) = Tests

(* Which names are gone at which point of cleanUp, and for good.           *)
QueueInv ==
  /\ lpc \in {"removeDone", "removeControl", "removeData", "endTest"} => ~barrier.linked
  /\ lpc \in {"removeControl", "removeData", "endTest"} => ~done.linked
  /\ lexit = "0" => ~barrier.linked /\ ~done.linked
  /\ \A p \in Peers : ppc[p] = "exit0" => ~control[p].linked /\ ~data[p]

(* How the processes end. *)
ExitInv ==
  /\ lexit = "none" <=> lpc # "exited"
  /\ launcher = "peers" => lexit = "0"
  /\ launcher = "ended" /\ status = 0 =>
       lexit = "0" /\ \A p \in Peers : ppc[p] = "exit0"
  /\ CleanShutdown

(* Appending a result at position ltest + 1 keeps the report well formed.  *)
LEMMA ReportGrows ==
  ASSUME TypeOK, ReportInv, lpc # "exited", lpc \notin TestOver,
         NEW b \in BOOLEAN,
         report' = Append(report, b),
         timedOut' = ~b,
         b => \A p \in Peers : <<p, ltest>> \in outputs,
         lpc' \in TestOver,
         lexit # "0", UNCHANGED <<ltest, lexit, outputs>>
  PROVE  ReportInv'
<1>1. report \in Seq(BOOLEAN) /\ Len(report) = ltest /\ ltest \in Nat /\ ~timedOut
  BY BoostMqAssumption DEF TypeOK, ReportInv
<1>2. /\ Len(report') = ltest + 1
      /\ report'[ltest + 1] = b
      /\ \A t \in 1 .. ltest : report'[t] = report[t]
  BY <1>1
<1>3. \A t \in 1 .. ltest : report[t] = TRUE
  BY <1>1 DEF ReportInv
<1>4. \A t \in 1 .. Len(report') : t \in 1 .. ltest \/ t = ltest + 1
  BY <1>1, <1>2
<1>5. \A t \in 1 .. Len(report') : ~report'[t] => t = Len(report') /\ timedOut'
  BY <1>2, <1>3, <1>4
<1>6. \A t \in 1 .. Len(report') : report'[t] => \A p \in Peers : <<p, t - 1>> \in outputs'
  <2> SUFFICES ASSUME NEW t \in 1 .. Len(report'), report'[t], NEW p \in Peers
               PROVE  <<p, t - 1>> \in outputs
    OBVIOUS
  <2>1. CASE t \in 1 .. ltest
    BY <2>1, <1>1, <1>2, <1>3 DEF ReportInv
  <2>2. CASE t = ltest + 1
    BY <2>2, <1>1, <1>2
  <2> QED
    BY <2>1, <2>2, <1>4
<1>7. lpc' # "exited"
  BY DEF TestOver
<1> QED
  BY <1>2, <1>5, <1>6, <1>7 DEF ReportInv

(* Every step keeps the report well formed: only the leader touches it,    *)
(* and outputs only grow.                                                  *)
LEMMA ReportStep ==
  ASSUME TypeOK, ReportInv, ExitInv, [Next]_vars PROVE ReportInv'
<1>t. /\ report \in Seq(BOOLEAN) /\ ltest \in 0 .. Tests - 1 /\ Tests \in Nat
      /\ timedOut \in BOOLEAN
  BY BoostMqAssumption DEF TypeOK
<1>n. lpc # "exited" => lexit = "none"
  BY DEF ExitInv
<1>a. ASSUME UNCHANGED <<lpc, ltest, timedOut, report, lexit>>, outputs \subseteq outputs'
      PROVE  ReportInv'
  BY <1>a DEF ReportInv
<1>b. ASSUME lpc # "exited", lpc \notin TestOver, lpc' # "exited", lpc' \notin TestOver,
             UNCHANGED <<ltest, timedOut, report, lexit, outputs>>
      PROVE  ReportInv'
  BY <1>b DEF ReportInv
<1>c. ASSUME lpc \in TestOver, lpc' \in TestOver,
             UNCHANGED <<ltest, timedOut, report, lexit, outputs>>
      PROVE  ReportInv'
  BY <1>c DEF ReportInv, TestOver
<1>d. ASSUME lpc' = "exited", lexit' # "0" \/ lexit' = lexit,
             UNCHANGED <<timedOut, report, outputs>>
      PROVE  ReportInv'
  BY <1>d DEF ReportInv
<1> USE DEF TestOver
<1>1. CASE createBarrier
  BY <1>1, <1>b DEF createBarrier
<1>2. CASE acceptReady
  BY <1>2, <1>b DEF acceptReady
<1>3. CASE readyTimeout
  <2>1. lpc # "exited" /\ lpc \notin TestOver /\ lpc' \in TestOver /\ lexit # "0"
    BY <1>3, <1>n DEF readyTimeout
  <2>2. report' = Append(report, FALSE) /\ timedOut' = ~FALSE
        /\ UNCHANGED <<ltest, lexit, outputs>>
    BY <1>3 DEF readyTimeout
  <2> HIDE DEF TestOver
  <2> QED
    BY <2>1, <2>2, ReportGrows
<1>4. ASSUME NEW step \in Loops, sendControl(step) PROVE ReportInv'
  BY <1>4, <1>b DEF sendControl, NextPeer, Loops, After
<1>5. ASSUME NEW step \in Loops, sendControlFails(step) PROVE ReportInv'
  <2>1. lpc # "exited" /\ lpc \notin TestOver /\ lpc' \in TestOver /\ lexit # "0"
    BY <1>5, <1>n DEF sendControlFails, Loops
  <2>2. report' = Append(report, FALSE) /\ timedOut' = ~FALSE
        /\ UNCHANGED <<ltest, lexit, outputs>>
    BY <1>5 DEF sendControlFails
  <2> HIDE DEF TestOver
  <2> QED
    BY <2>1, <2>2, ReportGrows
<1>6. CASE acceptDone
  BY <1>6, <1>b DEF acceptDone
<1>7. CASE doneTimeout
  BY <1>7, <1>b DEF doneTimeout
<1>8. CASE evaluate
  <2>1. lpc # "exited" /\ lpc \notin TestOver /\ lpc' \in TestOver /\ lexit # "0"
    BY <1>8, <1>n DEF evaluate
  <2>2. report' = Append(report, Success) /\ timedOut' = ~Success
        /\ UNCHANGED <<ltest, lexit, outputs>>
    BY <1>8 DEF evaluate
  <2>3. Success \in BOOLEAN /\ (Success => \A p \in Peers : <<p, ltest>> \in outputs)
    BY DEF Success
  <2> HIDE DEF TestOver
  <2> QED
    BY <2>1, <2>2, <2>3, ReportGrows
<1>9. CASE stopBestEffort
  BY <1>9, <1>c DEF stopBestEffort, NextPeer
<1>10. CASE removeBarrier \/ removeDone \/ removeControl \/ removeData
  BY <1>10, <1>c DEF removeBarrier, removeDone, removeControl, removeData
<1>11. CASE endTest
  <2>1. Len(report) = ltest + 1
    BY <1>11 DEF endTest, ReportInv
  <2>2. CASE ~timedOut /\ ltest + 1 < Tests
    <3>1. lpc' = "createBarrier" /\ ltest' = ltest + 1
          /\ UNCHANGED <<timedOut, report, lexit, outputs>>
      BY <1>11, <2>2 DEF endTest
    <3> QED
      BY <3>1, <2>1, <2>2 DEF ReportInv
  <2>3. CASE timedOut
    BY <1>11, <2>3, <1>d DEF endTest
  <2>4. CASE ~timedOut /\ ~(ltest + 1 < Tests)
    <3>1. lpc' = "exited" /\ UNCHANGED <<timedOut, report, outputs>>
      BY <1>11, <2>4 DEF endTest
    <3>2. Len(report) = Tests
      BY <2>1, <2>4, <1>t
    <3> QED
      BY <3>1, <3>2, <2>4 DEF ReportInv
  <2> QED
    BY <2>2, <2>3, <2>4
<1>12. ASSUME NEW p \in Peers, PeerStep(p) PROVE ReportInv'
  <2>1. UNCHANGED leaderVars /\ outputs \subseteq outputs'
    BY <1>12 DEF PeerStep, removeInbox, createControl, createData, sendReady,
       sendReadyFails, waitAssignment, waitStart, run, sendDone, sendDoneFails,
       waitStop, waitRemoval, removalTimeout, fail
  <2> QED
    BY <2>1, <1>a DEF leaderVars
<1>13. CASE LauncherStep
  BY <1>13, <1>a DEF LauncherStep, terminateChildren, leaderSucceeded, peersExited,
     leaderVars
<1>14. CASE interruptRun
  BY <1>14, <1>d DEF interruptRun
<1>15. ASSUME NEW p \in Peers, killPeer(p) PROVE ReportInv'
  BY <1>15, <1>a DEF killPeer, leaderVars
<1>16. CASE killLeader
  BY <1>16, <1>d DEF killLeader
<1>17. CASE UNCHANGED vars
  BY <1>17, <1>a DEF vars, leaderVars
<1> QED
  BY <1>1, <1>2, <1>3, <1>4, <1>5, <1>6, <1>7, <1>8, <1>9, <1>10, <1>11, <1>12,
     <1>13, <1>14, <1>15, <1>16, <1>17 DEF Next, LeaderStep, Ended

(* Whether a name exists after an operation on its queue. *)
LEMMA Names ==
  /\ ~NoQueue.linked
  /\ \A M : \A q \in Queues(M) : ~Unlinked(q).linked
  /\ \A M : \A q \in Queues(M) : ~q.linked => ~Without(q).linked
<1>1. ~NoQueue.linked
  BY DEF NoQueue
<1>2. ASSUME NEW M, NEW q \in Queues(M) PROVE ~Unlinked(q).linked
  BY DEF Unlinked, Queues
<1>3. ASSUME NEW M, NEW q \in Queues(M), ~q.linked PROVE ~Without(q).linked
  BY <1>3 DEF Without, Queues
<1> QED
  BY <1>1, <1>2, <1>3

(* Nobody brings a name back that cleanUp has removed: mq_barrier and      *)
(* mq_done are created only by createBarrier, and the queues of a peer     *)
(* only by that peer.                                                      *)
LEMMA QueueStep ==
  ASSUME TypeOK, QueueInv, ExitInv, [Next]_vars PROVE QueueInv'
<1>t. /\ barrier \in Queues(Readies) /\ done \in Queues(Dones)
      /\ control \in [Peers -> Queues(Controls)] /\ data \in [Peers -> BOOLEAN]
      /\ ppc \in [Peers -> PeerSteps] /\ lk \in Peers
  BY DEF TypeOK
<1>n. lpc # "exited" => lexit = "none"
  BY DEF ExitInv
<1>u. /\ \A q \in Queues(Readies) \cup Queues(Dones) \cup Queues(Controls) : ~Unlinked(q).linked
      /\ \A q \in Queues(Readies) \cup Queues(Dones) : ~q.linked => ~Without(q).linked
  BY Names
<1> USE DEF QueueInv
<1>1. CASE createBarrier
  BY <1>1, <1>n DEF createBarrier, peerVars
<1>2. CASE acceptReady \/ acceptDone
  BY <1>2, <1>n DEF acceptReady, acceptDone, peerVars
<1>3. CASE readyTimeout \/ doneTimeout \/ evaluate
  BY <1>3 DEF readyTimeout, doneTimeout, evaluate, peerVars, queueVars
<1>4. ASSUME NEW step \in Loops, sendControl(step) PROVE QueueInv'
  <2>1. /\ lpc' \notin {"removeDone", "removeControl", "removeData", "endTest"}
        /\ UNCHANGED <<lexit, barrier, done, ppc, data>>
    BY <1>4 DEF sendControl, NextPeer, After, Loops, peerVars
  <2>2. ASSUME NEW p \in Peers, ppc[p] = "exit0" PROVE control'[p] = control[p]
    BY <1>4, <1>t, <2>2 DEF sendControl, CanSend
  <2> QED
    BY <2>1, <2>2
<1>5. ASSUME NEW step \in Loops, sendControlFails(step) PROVE QueueInv'
  BY <1>5 DEF sendControlFails, peerVars, queueVars
<1>6. CASE stopBestEffort
  <2>1. /\ lpc' \notin {"removeDone", "removeControl", "removeData", "endTest"}
        /\ UNCHANGED <<lexit, barrier, done, ppc, data>>
    BY <1>6 DEF stopBestEffort, NextPeer, peerVars
  <2>2. ASSUME NEW p \in Peers, ppc[p] = "exit0" PROVE control'[p] = control[p]
    BY <1>6, <1>t, <2>2 DEF stopBestEffort, CanSend
  <2> QED
    BY <2>1, <2>2
<1>7. CASE removeBarrier
  BY <1>7, <1>t, <1>u DEF removeBarrier, peerVars
<1>8. CASE removeDone
  BY <1>8, <1>t, <1>u DEF removeDone, peerVars
<1>9. CASE removeControl
  BY <1>9, <1>t, <1>u DEF removeControl, peerVars
<1>10. CASE removeData
  BY <1>10, <1>t DEF removeData, peerVars
<1>11. CASE endTest
  BY <1>11, <1>n DEF endTest, peerVars, queueVars
<1>12. ASSUME NEW p \in Peers, PeerStep(p) PROVE QueueInv'
  <2>1. UNCHANGED <<lpc, lexit>>
    BY <1>12 DEF PeerStep, removeInbox, createControl, createData, sendReady,
       sendReadyFails, waitAssignment, waitStart, run, sendDone, sendDoneFails,
       waitStop, waitRemoval, removalTimeout, fail, leaderVars
  <2>2. ~barrier.linked => barrier' = barrier
    BY <1>12 DEF PeerStep, removeInbox, createControl, createData, sendReady,
       sendReadyFails, waitAssignment, waitStart, run, sendDone, sendDoneFails,
       waitStop, waitRemoval, removalTimeout, fail, CanSend, queueVars
  <2>3. ~done.linked => done' = done
    BY <1>12 DEF PeerStep, removeInbox, createControl, createData, sendReady,
       sendReadyFails, waitAssignment, waitStart, run, sendDone, sendDoneFails,
       waitStop, waitRemoval, removalTimeout, fail, CanSend, queueVars
  <2>4. ASSUME NEW o \in Peers, o # p
        PROVE  ppc'[o] = ppc[o] /\ control'[o] = control[o] /\ data'[o] = data[o]
    BY <1>12, <1>t, <2>4 DEF PeerStep, removeInbox, createControl, createData, sendReady,
       sendReadyFails, waitAssignment, waitStart, run, sendDone, sendDoneFails,
       waitStop, waitRemoval, removalTimeout, fail, Goto, queueVars
  <2>5. ppc'[p] = "exit0" => ~control'[p].linked /\ ~data'[p]
    <3>1. CASE waitRemoval(p)
      BY <3>1, <1>t DEF waitRemoval, Goto
    <3>2. CASE ~waitRemoval(p)
      <4>1. ppc'[p] # "exit0"
        BY <1>12, <1>t, <3>2 DEF PeerStep, removeInbox, createControl, createData,
           sendReady, sendReadyFails, waitAssignment, waitStart, run, sendDone,
           sendDoneFails, waitStop, removalTimeout, fail, Goto
      <4> QED
        BY <4>1
    <3> QED
      BY <3>1, <3>2
  <2> QED
    BY <2>1, <2>2, <2>3, <2>4, <2>5
<1>r. ASSUME AllRemoved
      PROVE  ~barrier'.linked /\ ~done'.linked
             /\ \A p \in Peers : ~control'[p].linked /\ ~data'[p]
  BY <1>r, <1>t, <1>u DEF AllRemoved
<1>13. CASE terminateChildren
  BY <1>13, <1>r DEF terminateChildren
<1>14. CASE leaderSucceeded
  BY <1>14 DEF leaderSucceeded, leaderVars, peerVars, queueVars
<1>15. CASE peersExited
  BY <1>15, <1>r DEF peersExited, leaderVars, peerVars, queueVars
<1>16. CASE interruptRun
  BY <1>16, <1>r DEF interruptRun
<1>17. ASSUME NEW p \in Peers, killPeer(p) PROVE QueueInv'
  BY <1>17, <1>t DEF killPeer, Goto, leaderVars, queueVars
<1>18. CASE killLeader
  BY <1>18 DEF killLeader, peerVars, queueVars
<1>19. CASE UNCHANGED vars
  BY <1>19 DEF vars, leaderVars, peerVars, queueVars
<1> HIDE DEF QueueInv
<1> QED
  BY <1>1, <1>2, <1>3, <1>4, <1>5, <1>6, <1>7, <1>8, <1>9, <1>10, <1>11, <1>12,
     <1>13, <1>14, <1>15, <1>16, <1>17, <1>18, <1>19
  DEF Next, LeaderStep, LauncherStep, Ended

(* A process that has exited takes no further step. *)
LEMMA Inactive ==
  /\ LeaderStep => lpc # "exited"
  /\ \A p \in Peers : PeerStep(p) => Alive(p)
<1>1. LeaderStep => lpc # "exited"
  BY DEF LeaderStep, createBarrier, acceptReady, readyTimeout, sendControl,
     sendControlFails, Loops, acceptDone, doneTimeout, evaluate, stopBestEffort,
     removeBarrier, removeDone, removeControl, removeData, endTest
<1>2. ASSUME NEW p \in Peers, PeerStep(p) PROVE Alive(p)
  BY <1>2 DEF PeerStep, removeInbox, createControl, createData, sendReady,
     sendReadyFails, waitAssignment, waitStart, run, sendDone, sendDoneFails,
     waitStop, waitRemoval, removalTimeout, fail, Alive, Exited
<1> QED
  BY <1>1, <1>2

(* The launcher ends only after the leader, and with nothing left behind:  *)
(* it removes the queues itself, or the leader and the peers have done so. *)
LEMMA ExitStep ==
  ASSUME TypeOK, QueueInv, ExitInv, [Next]_vars PROVE ExitInv'
<1>u. ASSUME UNCHANGED vars PROVE ExitInv'
  BY <1>u DEF vars, leaderVars, peerVars, queueVars, scriptVars, ExitInv,
     CleanShutdown, Alive
<1>1. CASE launcher = "ended"
  <2>1. lpc = "exited" /\ lexit # "none" /\ \A p \in Peers : ~Alive(p)
    BY <1>1 DEF ExitInv, CleanShutdown
  <2>2. ~LeaderStep /\ \A p \in Peers : ~PeerStep(p)
    BY <2>1, Inactive
  <2>3. \A p \in Peers : ~killPeer(p)
    BY <2>1 DEF killPeer
  <2>4. ~LauncherStep /\ ~killLeader /\ ~interruptRun
    BY <1>1, <2>1 DEF LauncherStep, terminateChildren, leaderSucceeded, peersExited,
       killLeader, interruptRun
  <2> QED
    BY <2>2, <2>3, <2>4, <1>u DEF Next, Ended
<1>o. ASSUME launcher' # "ended",
             lexit' = "none" <=> lpc' # "exited",
             launcher' = "peers" => lexit' = "0"
      PROVE  ExitInv'
  BY <1>o DEF ExitInv, CleanShutdown
<1>2. ASSUME launcher # "ended", LeaderStep PROVE ExitInv'
  <2>1. lpc # "exited" /\ lexit = "none" /\ launcher # "peers"
    BY <1>2, Inactive DEF ExitInv
  <2>2. UNCHANGED scriptVars
    BY <1>2 DEF LeaderStep, createBarrier, acceptReady, readyTimeout, sendControl,
       sendControlFails, acceptDone, doneTimeout, evaluate, stopBestEffort,
       removeBarrier, removeDone, removeControl, removeData, endTest
  <2>3. CASE endTest
    BY <1>2, <2>1, <2>2, <2>3, <1>o DEF endTest, scriptVars
  <2>4. CASE ~endTest
    <3>1. lexit' = lexit /\ lpc' # "exited"
      BY <1>2, <2>1, <2>4 DEF LeaderStep, createBarrier, acceptReady, readyTimeout,
         sendControl, sendControlFails, acceptDone, doneTimeout, evaluate,
         stopBestEffort, removeBarrier, removeDone, removeControl, removeData,
         NextPeer, Loops, After
    <3> QED
      BY <1>2, <2>1, <2>2, <3>1, <1>o DEF scriptVars
  <2> QED
    BY <2>3, <2>4
<1>3. ASSUME launcher # "ended", NEW p \in Peers, PeerStep(p) \/ killPeer(p)
      PROVE  ExitInv'
  <2>1. UNCHANGED <<leaderVars, scriptVars>>
    BY <1>3 DEF PeerStep, removeInbox, createControl, createData, sendReady,
       sendReadyFails, waitAssignment, waitStart, run, sendDone, sendDoneFails,
       waitStop, waitRemoval, removalTimeout, fail, killPeer
  <2> QED
    BY <1>3, <2>1, <1>o DEF leaderVars, scriptVars, ExitInv
<1>r. ASSUME AllRemoved
      PROVE  ~barrier'.linked /\ ~done'.linked
             /\ \A p \in Peers : ~control'[p].linked /\ ~data'[p]
  <2>1. /\ barrier \in Queues(Readies) /\ done \in Queues(Dones)
        /\ control \in [Peers -> Queues(Controls)]
    BY DEF TypeOK
  <2> QED
    BY <1>r, <2>1, Names DEF AllRemoved
<1>k. ASSUME ppc' = [p \in Peers |-> IF Alive(p) THEN "killed" ELSE ppc[p]]
      PROVE  \A p \in Peers : ~Alive(p)'
  BY <1>k DEF Alive, Exited
<1>4. CASE terminateChildren
  BY <1>4, <1>r, <1>k DEF terminateChildren, leaderVars, ExitInv, CleanShutdown
<1>5. CASE leaderSucceeded
  BY <1>5, <1>o DEF leaderSucceeded, leaderVars, ExitInv
<1>6. CASE peersExited
  <2>1. lexit = "0" /\ UNCHANGED <<leaderVars, ppc>> /\ launcher' = "ended"
        /\ \A p \in Peers : ~Alive(p)
    BY <1>6 DEF peersExited, ExitInv, peerVars
  <2>2. CASE PeerFailed
    <3>1. AllRemoved /\ status' = 1
      BY <1>6, <2>2 DEF peersExited
    <3> QED
      BY <2>1, <3>1, <1>r DEF ExitInv, CleanShutdown, leaderVars, Alive
  <2>3. CASE ~PeerFailed
    <3>1. UNCHANGED queueVars /\ \A p \in Peers : ppc[p] = "exit0"
      BY <1>6, <2>3 DEF peersExited, PeerFailed
    <3>2. ~barrier.linked /\ ~done.linked
          /\ \A p \in Peers : ~control[p].linked /\ ~data[p]
      BY <2>1, <3>1 DEF QueueInv
    <3> QED
      BY <2>1, <3>1, <3>2 DEF ExitInv, CleanShutdown, leaderVars, queueVars, Alive
  <2> QED
    BY <2>2, <2>3
<1>7. CASE interruptRun
  BY <1>7, <1>r, <1>k DEF interruptRun, ExitInv, CleanShutdown
<1>8. ASSUME launcher # "ended", killLeader PROVE ExitInv'
  BY <1>8, <1>o DEF killLeader, scriptVars, ExitInv
<1> QED
  BY <1>u, <1>1, <1>2, <1>3, <1>4, <1>5, <1>6, <1>7, <1>8
  DEF Next, LauncherStep, Ended

(* The inductive invariant of the experiment. *)
Inv == TypeOK /\ ReportInv /\ QueueInv /\ ExitInv

(* The invariant holds in every reachable state, for any number of peers   *)
(* and tests, with deadlines that pass at any time, queues left by an      *)
(* earlier run and any number of signals.                                  *)
THEOREM Invariance == Spec => []Inv
<1>1. Init => ReportInv /\ QueueInv /\ ExitInv
  <2> SUFFICES ASSUME Init PROVE ReportInv /\ QueueInv /\ ExitInv
    OBVIOUS
  <2>1. ReportInv
    BY DEF Init, ReportInv, TestOver
  <2>2. QueueInv
    BY DEF Init, QueueInv
  <2>3. ExitInv
    BY DEF Init, ExitInv, CleanShutdown
  <2> QED
    BY <2>1, <2>2, <2>3
<1>2. Inv /\ [Next]_vars => Inv'
  BY TypeStep, ReportStep, QueueStep, ExitStep DEF Inv
<1>3. Spec => []TypeOK
  BY TypeCorrect
<1>4. Init /\ TypeOK => Inv
  BY <1>1 DEF Inv
<1> QED
  BY <1>2, <1>3, <1>4, PTL DEF Spec

(* A test is reported successful only when every peer has written its      *)
(* output of it, and only the last test of the report can be a failure.    *)
THEOREM SuccessTheorem == Spec => []SuccessIsComplete
<1>1. Inv => SuccessIsComplete
  <2> SUFFICES ASSUME TypeOK, ReportInv, NEW t \in 1 .. Len(report)
               PROVE  IF report[t] THEN \A p \in Peers : <<p, t - 1>> \in outputs
                                   ELSE t = Len(report)
    BY DEF Inv, SuccessIsComplete
  <2> QED
    BY DEF ReportInv
<1> QED
  BY <1>1, Invariance, PTL

(* Exit status 0 of the launcher means: every test of the configuration    *)
(* was run and reported successful, and every peer process exited with 0.  *)
THEOREM ExitStatusTheorem == Spec => []ExitStatus
<1>1. Inv => ExitStatus
  <2> SUFFICES ASSUME TypeOK, ReportInv, ExitInv, launcher = "ended", status = 0
               PROVE  report = [t \in 1 .. Tests |-> TRUE]
                      /\ \A p \in Peers : ppc[p] = "exit0"
    BY DEF Inv, ExitStatus
  <2>1. lexit = "0" /\ \A p \in Peers : ppc[p] = "exit0"
    BY DEF ExitInv
  <2>2. report \in Seq(BOOLEAN) /\ ~timedOut /\ Len(report) = Tests
    BY <2>1 DEF ReportInv, TypeOK
  <2>3. \A t \in 1 .. Tests : report[t] = TRUE
    BY <2>2 DEF ReportInv
  <2>4. report = [t \in 1 .. Tests |-> report[t]]
    BY <2>2
  <2> QED
    BY <2>1, <2>3, <2>4
<1> QED
  BY <1>1, Invariance, PTL

(* Once the launcher has returned, no process of the experiment runs and   *)
(* no queue is left under its name, wherever the signals struck.           *)
THEOREM CleanShutdownTheorem == Spec => []CleanShutdown
<1>1. Inv => CleanShutdown
  BY DEF Inv, ExitInv
<1> QED
  BY <1>1, Invariance, PTL
-----------------------------------------------------------------------------
(* Leader and peers in step: StartBarrier and NoMessageOfAnotherTest       *)

(* The messages in queue q. *)
In(q) == { q.msgs[i] : i \in 1 .. Len(q.msgs) }

(* A peer with its own queues; a peer that has sent its done message, or   *)
(* never will.                                                             *)
HasQueue == {"createData", "sendReady", "waitRemoval"} \cup InTest
Finished == {"waitStop", "waitRemoval", "failing"} \cup Exited

HasStart(p) == \E m \in In(control[p]) : m.kind = "start"
HasStop(p) == \E m \in In(control[p]) : m.kind = "stop"

(* The leader has removed the control queue of p in this test, or is gone. *)
Removed(p) ==
  \/ lpc \in {"endTest", "exited"}
  \/ lpc \in {"removeControl", "removeData"} /\ p < lk
  \/ lpc = "removeData" /\ p = lk

(* p has not got a message since it created its queues. *)
Fresh(p) ==
  /\ ppc[p] \in Rendezvous \cup {"waitAssignment", "failing"} \cup Exited
  /\ ppc[p] \in {"createData", "sendReady", "waitAssignment"} => In(control[p]) = {}

(* p is in the test it has been ready for, and is not told to leave it.    *)
Settled(p) ==
  /\ ppc[p] \notin Rendezvous \cup {"waitRemoval"}
  /\ ppc[p] \in InTest => ~HasStop(p)

Joined(p) == ptest[p] = ltest /\ Settled(p)

(* p runs rounds, or has the message that lets it. *)
Started(p) ==
  \/ ppc[p] \in {"run", "sendDone"}
  \/ ppc[p] \in {"createData", "sendReady", "waitAssignment", "waitStart"} /\ HasStart(p)

(* The peers are at most one test away from the leader: one behind while   *)
(* they leave a test the leader has finished, one ahead once it has        *)
(* removed their queue.                                                    *)
Behind(p) == ptest[p] + 1 = ltest /\ ppc[p] \in Finished /\ ~control[p].linked
Current(p) ==
  /\ ptest[p] = ltest
  /\ ppc[p] \in HasQueue /\ ~control[p].linked => Removed(p)
  /\ Removed(p) /\ lpc # "exited" /\ ~timedOut => ~control[p].linked
Ahead(p) ==
  /\ ptest[p] = ltest + 1
  /\ Removed(p)
  /\ Fresh(p)
  /\ ppc[p] \in HasQueue => control[p].linked
PlaceOK(p) == Behind(p) \/ Current(p) \/ Ahead(p)

(* Before the leader sends in a test, nobody has got a message of it.      *)
FreshOK(p) ==
  lpc \in {"createBarrier", "waitReady"} /\ ptest[p] = ltest => Fresh(p)

(* What is in the control queue of p belongs to its test. *)
ControlOK(p) ==
  ppc[p] \in InTest \cup {"createData", "sendReady"} =>
    \A m \in In(control[p]) : m.test = ptest[p]

(* Who has reported ready is in the leader's test. *)
ReadyMsgOK(m) == m.test = ltest /\ Joined(m.from)
BarrierOK ==
  lpc = "waitReady" =>
    /\ \A m \in In(barrier) : ReadyMsgOK(m)
    /\ \A p \in ready : Joined(p)

JoinedOK ==
  lpc \in {"sendAssignment", "sendStart", "waitDone"} => \A p \in Peers : Joined(p)

Gathering == {"waitReady", "sendAssignment", "sendStart", "waitDone"}

(* A message in mq_done is of this test, or of a peer that failed while    *)
(* leaving the last one and will not be ready any more.                    *)
DoneMsgOK(m) ==
  /\ m.test = ptest[m.from]
  /\ m.test # ltest => ~Alive(m.from)
  /\ m.ok => m.test = ltest /\ ppc[m.from] \in Finished
DoneOK == lpc \in Gathering => \A m \in In(done) : DoneMsgOK(m)

CompletedOK ==
  /\ lpc \notin {"createBarrier", "exited"} =>
       \A p \in completed :
         ptest[p] = ltest + 1 \/ (ptest[p] = ltest /\ ppc[p] \in Finished)
  /\ lpc = "sendStop" => completed = Peers
  /\ lpc \in TestOver /\ ~timedOut => completed = Peers
  /\ lpc = "stopBestEffort" => timedOut

(* Once a peer has started, nobody leaves the test. *)
StartedOK ==
  \A p, o \in Peers : Started(p) /\ ~timedOut => ptest[o] = ptest[p] /\ Settled(o)

SyncInv ==
  /\ \A p \in Peers : PlaceOK(p) /\ FreshOK(p) /\ ControlOK(p)
  /\ BarrierOK /\ JoinedOK /\ DoneOK /\ CompletedOK /\ StartedOK

(* The messages in a queue after an operation on it. *)
LEMMA QueueMessages ==
  ASSUME NEW M
  PROVE  /\ In(NoQueue) = {} /\ In(NewQueue) = {} /\ NewQueue.linked
         /\ \A q \in Queues(M) :
              /\ In(q) \subseteq M
              /\ In(Unlinked(q)) = In(q)
              /\ q.msgs # <<>> =>
                   /\ In(Without(q)) \subseteq In(q)
                   /\ Head(q.msgs) \in In(q)
                   /\ Without(q).linked = q.linked
              /\ \A m \in M : In(With(q, m)) = In(q) \cup {m} /\ With(q, m).linked = q.linked
<1>1. In(NoQueue) = {} /\ In(NewQueue) = {} /\ NewQueue.linked
  BY DEF In, NoQueue, NewQueue
<1>2. ASSUME NEW q \in Queues(M)
      PROVE  In(q) \subseteq M /\ In(Unlinked(q)) = In(q) /\ q.msgs \in Seq(M)
             /\ q.linked \in BOOLEAN /\ Len(q.msgs) \in Nat
             /\ q = [linked |-> q.linked, msgs |-> q.msgs]
  <2>1. q.msgs \in Seq(M) /\ q.linked \in BOOLEAN /\ q = [linked |-> q.linked, msgs |-> q.msgs]
    BY DEF Queues
  <2>2. Unlinked(q).msgs = q.msgs
    BY <2>1 DEF Unlinked
  <2> QED
    BY <2>1, <2>2 DEF In
<1>3. ASSUME NEW q \in Queues(M), q.msgs # <<>>
      PROVE  /\ In(Without(q)) \subseteq In(q)
             /\ Head(q.msgs) \in In(q)
             /\ Without(q).linked = q.linked
  <2>1. /\ q.msgs \in Seq(M) /\ Len(q.msgs) \in Nat /\ Len(q.msgs) # 0
        /\ Without(q).msgs = Tail(q.msgs) /\ Without(q).linked = q.linked
    BY <1>2, <1>3 DEF Without
  <2>2. Head(q.msgs) = q.msgs[1] /\ 1 \in 1 .. Len(q.msgs)
    BY <2>1
  <2>3. \A i \in 1 .. Len(Tail(q.msgs)) :
          i + 1 \in 1 .. Len(q.msgs) /\ Tail(q.msgs)[i] = q.msgs[i + 1]
    BY <2>1
  <2> QED
    BY <2>1, <2>2, <2>3 DEF In
<1>4. ASSUME NEW q \in Queues(M), NEW m \in M
      PROVE  In(With(q, m)) = In(q) \cup {m} /\ With(q, m).linked = q.linked
  <2>1. /\ q.msgs \in Seq(M) /\ Len(q.msgs) \in Nat
        /\ With(q, m).msgs = Append(q.msgs, m) /\ With(q, m).linked = q.linked
    BY <1>2 DEF With
  <2>2. /\ Len(Append(q.msgs, m)) = Len(q.msgs) + 1
        /\ Append(q.msgs, m)[Len(q.msgs) + 1] = m
        /\ \A i \in 1 .. Len(q.msgs) : Append(q.msgs, m)[i] = q.msgs[i]
    BY <2>1
  <2>3. 1 .. Len(q.msgs) + 1 = (1 .. Len(q.msgs)) \cup {Len(q.msgs) + 1}
    BY <2>1
  <2> QED
    BY <2>1, <2>2, <2>3 DEF In
<1> QED
  BY <1>1, <1>2, <1>3, <1>4

(* What is said of a peer depends on its own state and on the leader's.    *)
LEMMA SamePeer ==
  ASSUME NEW q \in Peers, ppc'[q] = ppc[q], control'[q] = control[q], ptest'[q] = ptest[q]
  PROVE  /\ Settled(q)' = Settled(q) /\ Started(q)' = Started(q) /\ Fresh(q)' = Fresh(q)
         /\ ControlOK(q)' = ControlOK(q) /\ Alive(q)' = Alive(q)
  BY DEF Settled, Started, Fresh, ControlOK, Alive, HasStart, HasStop

(* A step of peer p inside its test keeps the invariant when it keeps what *)
(* is said of p and of the messages it adds.                               *)
LEMMA PeerMoves ==
  ASSUME TypeOK, SyncInv, NEW p \in Peers, UNCHANGED <<leaderVars, ptest>>,
         \A q \in Peers : q # p => ppc'[q] = ppc[q] /\ control'[q] = control[q],
         PlaceOK(p)', FreshOK(p)', ControlOK(p)',
         Settled(p) => Settled(p)', Started(p)' => Started(p),
         ppc[p] \in Finished => ppc'[p] \in Finished,
         ~Alive(p) => ~Alive(p)',
         \A m \in In(barrier') :
           m \in In(barrier) \/ (lpc = "waitReady" => ReadyMsgOK(m)'),
         \A m \in In(done') : m \in In(done) \/ (lpc \in Gathering => DoneMsgOK(m)')
  PROVE  SyncInv'
<1>l. /\ lpc' = lpc /\ lk' = lk /\ ltest' = ltest /\ ready' = ready
      /\ completed' = completed /\ timedOut' = timedOut /\ ptest' = ptest
  BY DEF leaderVars
<1>1. ASSUME NEW q \in Peers, q # p
      PROVE  /\ PlaceOK(q)' /\ FreshOK(q)' /\ ControlOK(q)'
             /\ Settled(q)' = Settled(q) /\ Started(q)' = Started(q)
             /\ ppc'[q] = ppc[q] /\ Alive(q)' = Alive(q)
  <2>1. PlaceOK(q) /\ FreshOK(q) /\ ControlOK(q)
    BY DEF SyncInv
  <2>2. ppc'[q] = ppc[q] /\ control'[q] = control[q] /\ ptest'[q] = ptest[q]
    BY <1>l, <1>1
  <2>3. /\ Settled(q)' = Settled(q) /\ Started(q)' = Started(q) /\ Fresh(q)' = Fresh(q)
        /\ ControlOK(q)' = ControlOK(q) /\ Alive(q)' = Alive(q)
    BY <2>2, SamePeer
  <2>4. Removed(q)' = Removed(q)
    BY <1>l DEF Removed
  <2> QED
    BY <1>l, <2>1, <2>2, <2>3, <2>4 DEF PlaceOK, Behind, Current, Ahead, FreshOK
<1>2. \A q \in Peers : PlaceOK(q)' /\ FreshOK(q)' /\ ControlOK(q)'
  BY <1>1
<1>3. \A q \in Peers : /\ Settled(q) => Settled(q)'
                       /\ Started(q)' => Started(q)
                       /\ ppc[q] \in Finished => ppc'[q] \in Finished
                       /\ ~Alive(q) => ~Alive(q)'
  BY <1>1
<1>4. \A q \in Peers : Joined(q) => Joined(q)'
  BY <1>l, <1>3 DEF Joined
<1>5. In(barrier) \subseteq Readies /\ In(done) \subseteq Dones /\ ready \subseteq Peers
      /\ completed \subseteq Peers
  BY QueueMessages DEF TypeOK
<1>6. BarrierOK'
  <2> SUFFICES ASSUME lpc = "waitReady"
               PROVE  /\ \A m \in In(barrier') : ReadyMsgOK(m)'
                      /\ \A q \in ready : Joined(q)'
    BY <1>l DEF BarrierOK
  <2>1. /\ \A m \in In(barrier) : m.test = ltest /\ Joined(m.from) /\ m.from \in Peers
        /\ \A q \in ready : Joined(q)
    BY <1>5 DEF SyncInv, BarrierOK, ReadyMsgOK, Readies
  <2>2. \A m \in In(barrier) : ReadyMsgOK(m)'
    BY <1>l, <1>4, <2>1 DEF ReadyMsgOK
  <2> QED
    BY <1>4, <1>5, <2>1, <2>2
<1>7. JoinedOK'
  BY <1>l, <1>4 DEF JoinedOK, SyncInv
<1>8. DoneOK'
  <2> SUFFICES ASSUME lpc \in Gathering, NEW m \in In(done'), m \in In(done)
               PROVE  DoneMsgOK(m)'
    BY <1>l DEF DoneOK
  <2>1. DoneMsgOK(m) /\ m.from \in Peers
    BY <1>5 DEF SyncInv, DoneOK, Dones
  <2> QED
    BY <1>l, <1>3, <2>1 DEF DoneMsgOK
<1>9. CompletedOK'
  BY <1>l, <1>3, <1>5 DEF CompletedOK, SyncInv
<1>10. StartedOK'
  BY <1>l, <1>3 DEF StartedOK, SyncInv
<1> QED
  BY <1>2, <1>6, <1>7, <1>8, <1>9, <1>10 DEF SyncInv

(* What is known of peer p before it moves. *)
LEMMA PeerFacts ==
  ASSUME TypeOK, SyncInv, NEW p \in Peers
  PROVE  /\ PlaceOK(p) /\ FreshOK(p) /\ ControlOK(p)
         /\ control \in [Peers -> Queues(Controls)] /\ control[p] \in Queues(Controls)
         /\ ppc \in [Peers -> PeerSteps] /\ barrier \in Queues(Readies)
         /\ done \in Queues(Dones) /\ ptest[p] \in 0 .. Tests - 1
  BY DEF TypeOK, SyncInv

(* What notifyPeerStopped and notifyPeerFailed send. *)
LEMMA DoneMessage ==
  ASSUME NEW p \in Peers, NEW t \in 0 .. Tests - 1
  PROVE  /\ [from |-> p, ok |-> TRUE, test |-> t] \in Dones
         /\ [from |-> p, ok |-> TRUE, test |-> t].from = p
         /\ [from |-> p, ok |-> TRUE, test |-> t].test = t
         /\ [from |-> p, ok |-> FALSE, test |-> t] \in Dones
         /\ [from |-> p, ok |-> FALSE, test |-> t].from = p
         /\ [from |-> p, ok |-> FALSE, test |-> t].test = t
         /\ ~[from |-> p, ok |-> FALSE, test |-> t].ok
<1>1. /\ [from |-> p, ok |-> TRUE, test |-> t] \in Dones
      /\ [from |-> p, ok |-> FALSE, test |-> t] \in Dones
  BY Messages
<1> QED
  BY <1>1

(* A peer at its rendezvous has not completed the test the leader ends.    *)
LEMMA NotCompleted ==
  ASSUME SyncInv, NEW p \in Peers, ptest[p] = ltest, ltest \in Nat,
         Removed(p), lpc # "exited", ~timedOut
  PROVE  ppc[p] \in Finished
<1>1. lpc \in TestOver
  BY DEF Removed, TestOver
<1>2. p \in completed
  BY <1>1 DEF SyncInv, CompletedOK
<1> QED
  BY <1>1, <1>2 DEF SyncInv, CompletedOK, TestOver

(* The rendezvous: createInbox and sendReady. *)
LEMMA RendezvousStep ==
  ASSUME TypeOK, SyncInv, NEW p \in Peers,
         removeInbox(p) \/ createControl(p) \/ createData(p) \/ sendReady(p)
         \/ sendReadyFails(p)
  PROVE  SyncInv'
<1>f. /\ PlaceOK(p) /\ FreshOK(p) /\ ControlOK(p)
      /\ control \in [Peers -> Queues(Controls)] /\ control[p] \in Queues(Controls)
      /\ ppc \in [Peers -> PeerSteps] /\ barrier \in Queues(Readies)
      /\ done \in Queues(Dones) /\ ptest[p] \in 0 .. Tests - 1
  BY PeerFacts
<1>l. /\ UNCHANGED <<leaderVars, ptest>> /\ lpc' = lpc /\ lk' = lk /\ ltest' = ltest
      /\ timedOut' = timedOut /\ Removed(p)' = Removed(p)
  BY DEF removeInbox, createControl, createData, sendReady, sendReadyFails, leaderVars,
     Removed
<1>n. ltest \in Nat
  BY BoostMqAssumption DEF TypeOK
<1>r. ppc[p] \in Rendezvous /\ ppc[p] \notin Finished /\ Alive(p)
  BY DEF removeInbox, createControl, createData, sendReady, sendReadyFails, Rendezvous,
     Finished, Exited, Alive
<1>p. Current(p) \/ Ahead(p)
  BY <1>f, <1>r DEF PlaceOK, Behind
<1>s. ~Settled(p)
  BY <1>r DEF Settled
<1> USE DEF Rendezvous, Finished, Exited, HasQueue, InTest
<1>1. CASE removeInbox(p)
  <2>1. /\ ppc'[p] = "createControl" /\ control'[p] = NoQueue
        /\ barrier' = barrier /\ done' = done
        /\ \A q \in Peers : q # p => ppc'[q] = ppc[q] /\ control'[q] = control[q]
    BY <1>1, <1>f DEF removeInbox, Goto
  <2>2. PlaceOK(p)'
    BY <1>l, <1>p, <2>1, Names DEF PlaceOK, Current, Ahead, Fresh
  <2>3. FreshOK(p)' /\ ControlOK(p)' /\ ~Started(p)'
    BY <2>1 DEF FreshOK, Fresh, ControlOK, Started
  <2> QED
    BY <1>l, <1>r, <1>s, <2>1, <2>2, <2>3, PeerMoves
<1>2. CASE createControl(p)
  <2>1. /\ ppc'[p] = "createData" /\ control'[p] = NewQueue
        /\ barrier' = barrier /\ done' = done
        /\ \A q \in Peers : q # p => ppc'[q] = ppc[q] /\ control'[q] = control[q]
    BY <1>2, <1>f DEF createControl, Goto
  <2>2. In(control'[p]) = {} /\ control'[p].linked
    BY <2>1, QueueMessages
  <2>3. PlaceOK(p)'
    <3>1. CASE Ahead(p)
      BY <1>l, <2>1, <2>2, <3>1 DEF PlaceOK, Ahead, Fresh
    <3>2. CASE Current(p)
      <4>1. ~(Removed(p) /\ lpc # "exited" /\ ~timedOut)
        BY <1>n, <1>r, <3>2, NotCompleted DEF Current
      <4> QED
        BY <1>l, <2>1, <2>2, <3>2, <4>1 DEF PlaceOK, Current
    <3> QED
      BY <1>p, <3>1, <3>2
  <2>4. FreshOK(p)' /\ ControlOK(p)' /\ ~Started(p)'
    BY <2>1, <2>2 DEF FreshOK, Fresh, ControlOK, Started, HasStart
  <2> QED
    BY <1>l, <1>r, <1>s, <2>1, <2>3, <2>4, PeerMoves
<1>3. CASE createData(p)
  <2>1. /\ ppc[p] = "createData" /\ ppc'[p] = "sendReady" /\ control' = control
        /\ barrier' = barrier /\ done' = done
        /\ \A q \in Peers : q # p => ppc'[q] = ppc[q] /\ control'[q] = control[q]
    BY <1>3, <1>f DEF createData, Goto
  <2>2. PlaceOK(p)'
    BY <1>l, <1>p, <2>1 DEF PlaceOK, Current, Ahead, Fresh
  <2>3. FreshOK(p)' /\ ControlOK(p)'
    BY <1>f, <1>l, <2>1 DEF FreshOK, Fresh, ControlOK
  <2>4. Started(p)' => Started(p)
    BY <2>1 DEF Started, HasStart
  <2> QED
    BY <1>l, <1>r, <1>s, <2>1, <2>2, <2>3, <2>4, PeerMoves
<1>4. CASE sendReady(p)
  <2>0. PICK r \in Readies : r = [from |-> p, test |-> ptest[p]]
    BY <1>f, Messages
  <2>1. /\ ppc[p] = "sendReady" /\ ppc'[p] = "waitAssignment" /\ control' = control
        /\ barrier' = With(barrier, r) /\ done' = done
        /\ \A q \in Peers : q # p => ppc'[q] = ppc[q] /\ control'[q] = control[q]
    BY <1>4, <1>f, <2>0 DEF sendReady, Goto
  <2>2. PlaceOK(p)'
    BY <1>l, <1>p, <2>1 DEF PlaceOK, Current, Ahead, Fresh
  <2>3. FreshOK(p)' /\ ControlOK(p)'
    BY <1>f, <1>l, <2>1 DEF FreshOK, Fresh, ControlOK
  <2>4. Started(p)' => Started(p)
    BY <2>1 DEF Started, HasStart
  <2>5. r.from = p /\ r.test = ptest[p]
    BY <2>0
  <2>6. In(barrier') = In(barrier) \cup {r}
    BY <1>f, <2>1, QueueMessages
  <2>7. lpc = "waitReady" => ReadyMsgOK(r)'
    <3> SUFFICES ASSUME lpc = "waitReady" PROVE ReadyMsgOK(r)'
      OBVIOUS
    <3>1. ptest[p] = ltest
      BY <1>p DEF Current, Ahead, Removed
    <3>2. In(control[p]) = {}
      BY <1>f, <2>1, <3>1 DEF FreshOK, Fresh
    <3>3. Settled(p)'
      BY <2>1, <3>2 DEF Settled, HasStop
    <3> QED
      BY <1>l, <2>5, <3>1, <3>3 DEF ReadyMsgOK, Joined
  <2>8. \A m \in In(barrier') : m \in In(barrier) \/ (lpc = "waitReady" => ReadyMsgOK(m)')
    BY <2>6, <2>7
  <2>9. UNCHANGED control /\ UNCHANGED done /\ ppc'[p] = "waitAssignment"
        /\ \A q \in Peers : q # p => ppc'[q] = ppc[q] /\ control'[q] = control[q]
    BY <2>1
  <2> QED
    BY <1>l, <1>r, <1>s, <2>2, <2>3, <2>4, <2>8, <2>9, PeerMoves
<1>5. CASE sendReadyFails(p)
  <2>1. /\ ppc'[p] = "failing" /\ control' = control
        /\ barrier' = barrier /\ done' = done
        /\ \A q \in Peers : q # p => ppc'[q] = ppc[q] /\ control'[q] = control[q]
    BY <1>5, <1>f DEF sendReadyFails, Goto, queueVars
  <2>2. PlaceOK(p)'
    BY <1>l, <1>p, <2>1 DEF PlaceOK, Current, Ahead, Fresh
  <2>3. FreshOK(p)' /\ ControlOK(p)' /\ ~Started(p)'
    BY <2>1 DEF FreshOK, Fresh, ControlOK, Started
  <2> QED
    BY <1>l, <1>r, <1>s, <2>1, <2>2, <2>3, PeerMoves
<1> QED
  BY <1>1, <1>2, <1>3, <1>4, <1>5

(* A peer reads a control message. *)
LEMMA ControlStep ==
  ASSUME TypeOK, SyncInv, NEW p \in Peers,
         waitAssignment(p) \/ waitStart(p) \/ waitStop(p)
  PROVE  SyncInv'
<1>f. /\ PlaceOK(p) /\ FreshOK(p) /\ ControlOK(p)
      /\ control \in [Peers -> Queues(Controls)] /\ control[p] \in Queues(Controls)
      /\ ppc \in [Peers -> PeerSteps]
  BY PeerFacts
<1>l. /\ UNCHANGED <<leaderVars, ptest>> /\ lpc' = lpc /\ ltest' = ltest
      /\ timedOut' = timedOut /\ Removed(p)' = Removed(p)
      /\ barrier' = barrier /\ done' = done
  BY DEF waitAssignment, waitStart, waitStop, leaderVars, Removed
<1>m. PICK m : m = Head(control[p].msgs)
  OBVIOUS
<1>1. /\ control'[p] = Without(control[p]) /\ control[p].msgs # <<>>
      /\ \A q \in Peers : q # p => ppc'[q] = ppc[q] /\ control'[q] = control[q]
  BY <1>f DEF waitAssignment, waitStart, waitStop, Goto
<1>2. /\ In(control'[p]) \subseteq In(control[p]) /\ m \in In(control[p])
      /\ control'[p].linked = control[p].linked
  BY <1>f, <1>m, <1>1, QueueMessages
<1>3. \/ ppc[p] = "waitAssignment" /\ ppc'[p] \in {"waitStart", "failing"}
      \/ ppc[p] = "waitStart" /\ (ppc'[p] = "failing" \/ (ppc'[p] = "run" /\ m.kind = "start"))
      \/ ppc[p] = "waitStop" /\ (ppc'[p] = "waitStop"
                                 \/ (ppc'[p] = "waitRemoval" /\ m.kind = "stop"))
  <2>1. CASE waitAssignment(p)
    BY <1>f, <2>1 DEF waitAssignment, Goto
  <2>2. CASE waitStart(p)
    BY <1>f, <1>m, <2>2 DEF waitStart, Goto
  <2>3. CASE waitStop(p)
    BY <1>f, <1>m, <2>3 DEF waitStop, Goto
  <2> QED
    BY <2>1, <2>2, <2>3
<1>4. ~Fresh(p) /\ Alive(p)
  BY <1>2, <1>3 DEF Fresh, Rendezvous, Exited, Alive
<1> USE DEF HasQueue, InTest, Finished, Exited
<1>5. PlaceOK(p)'
  <2>1. CASE Behind(p)
    BY <1>l, <1>2, <1>3, <2>1 DEF PlaceOK, Behind
  <2>2. CASE Current(p)
    BY <1>l, <1>2, <1>3, <2>2 DEF PlaceOK, Current
  <2> QED
    BY <1>f, <1>4, <2>1, <2>2 DEF PlaceOK, Ahead
<1>6. FreshOK(p)'
  BY <1>f, <1>l, <1>4 DEF FreshOK
<1>7. ControlOK(p)'
  BY <1>f, <1>l, <1>2, <1>3 DEF ControlOK
<1>8. Settled(p) => Settled(p)'
  BY <1>2, <1>3 DEF Settled, HasStop, Rendezvous
<1>9. Started(p)' => Started(p)
  BY <1>2, <1>3 DEF Started, HasStart
<1>10. ppc[p] \in Finished => ppc'[p] \in Finished
  BY <1>3
<1> QED
  BY <1>l, <1>1, <1>4, <1>5, <1>6, <1>7, <1>8, <1>9, <1>10, PeerMoves

(* A peer goes from a step in its test to a later one, or gives up, and    *)
(* may report it.                                                          *)
LEMMA RunStep ==
  ASSUME TypeOK, SyncInv, NEW p \in Peers,
         run(p) \/ sendDone(p) \/ sendDoneFails(p) \/ removalTimeout(p)
  PROVE  SyncInv'
<1>f. /\ PlaceOK(p) /\ FreshOK(p) /\ ControlOK(p)
      /\ ppc \in [Peers -> PeerSteps] /\ done \in Queues(Dones)
      /\ ptest[p] \in 0 .. Tests - 1
  BY PeerFacts
<1>l. /\ UNCHANGED <<leaderVars, ptest>> /\ lpc' = lpc /\ ltest' = ltest
      /\ timedOut' = timedOut /\ Removed(p)' = Removed(p)
      /\ barrier' = barrier /\ control' = control /\ ptest' = ptest
  BY DEF run, sendDone, sendDoneFails, removalTimeout, leaderVars, queueVars, Removed
<1>1. \A q \in Peers : q # p => ppc'[q] = ppc[q] /\ control'[q] = control[q]
  BY <1>f, <1>l DEF run, sendDone, sendDoneFails, removalTimeout, Goto
<1>2. \/ ppc[p] = "run" /\ ppc'[p] \in {"sendDone", "failing"}
      \/ ppc[p] = "sendDone" /\ ppc'[p] \in {"waitStop", "failing"}
      \/ ppc[p] = "waitRemoval" /\ ppc'[p] = "failing"
  BY <1>f DEF run, sendDone, sendDoneFails, removalTimeout, Goto
<1>3. ~Fresh(p) /\ Alive(p)
  BY <1>2 DEF Fresh, Rendezvous, Exited, Alive
<1> USE DEF HasQueue, InTest, Finished, Exited
<1>4. PlaceOK(p)'
  <2>1. CASE Behind(p)
    BY <1>l, <1>2, <2>1 DEF PlaceOK, Behind
  <2>2. CASE Current(p)
    BY <1>l, <1>2, <2>2 DEF PlaceOK, Current
  <2> QED
    BY <1>f, <1>3, <2>1, <2>2 DEF PlaceOK, Ahead
<1>5. FreshOK(p)'
  BY <1>f, <1>l, <1>3 DEF FreshOK
<1>6. ControlOK(p)'
  BY <1>f, <1>l, <1>2 DEF ControlOK
<1>7. Settled(p) => Settled(p)'
  BY <1>l, <1>2 DEF Settled, HasStop, Rendezvous
<1>8. Started(p)' => Started(p)
  BY <1>l, <1>2 DEF Started, HasStart
<1>9. ppc[p] \in Finished => ppc'[p] \in Finished
  BY <1>2
<1>10. \A m \in In(done') : m \in In(done) \/ (lpc \in Gathering => DoneMsgOK(m)')
  <2>1. CASE done' = done
    BY <2>1
  <2>2. CASE sendDone(p)
    <3>0. PICK d : d = [from |-> p, ok |-> TRUE, test |-> ptest[p]]
      OBVIOUS
    <3>1. done' = With(done, d) /\ ppc[p] = "sendDone" /\ ppc'[p] = "waitStop"
      BY <1>f, <2>2, <3>0 DEF sendDone, Goto
    <3>d. d \in Dones /\ d.from = p /\ d.test = ptest[p]
      BY <1>f, <3>0, DoneMessage
    <3>2. In(done') = In(done) \cup {d}
      BY <1>f, <3>1, <3>d, QueueMessages
    <3>3. lpc \in Gathering => ptest[p] = ltest
      BY <1>f, <3>1 DEF PlaceOK, Behind, Current, Ahead, Removed, Gathering
    <3>4. lpc \in Gathering => DoneMsgOK(d)'
      BY <1>l, <3>1, <3>d, <3>3 DEF DoneMsgOK
    <3> QED
      BY <3>2, <3>4
  <2> QED
    BY <2>1, <2>2 DEF run, sendDoneFails, removalTimeout, queueVars
<1> QED
  BY <1>l, <1>1, <1>3, <1>4, <1>5, <1>6, <1>7, <1>8, <1>9, <1>10, PeerMoves

(* A peer process ends: after a failure, killed, or after the last test.   *)
LEMMA PeerEnds ==
  ASSUME TypeOK, SyncInv, NEW p \in Peers,
         fail(p) \/ killPeer(p) \/ (waitRemoval(p) /\ ~(ptest[p] + 1 < Tests))
  PROVE  SyncInv'
<1>f. /\ PlaceOK(p) /\ FreshOK(p) /\ ControlOK(p)
      /\ control \in [Peers -> Queues(Controls)] /\ control[p] \in Queues(Controls)
      /\ ppc \in [Peers -> PeerSteps] /\ done \in Queues(Dones)
      /\ ptest[p] \in 0 .. Tests - 1
  BY PeerFacts
<1>l. /\ UNCHANGED <<leaderVars, ptest>> /\ lpc' = lpc /\ ltest' = ltest
      /\ timedOut' = timedOut /\ Removed(p)' = Removed(p)
      /\ barrier' = barrier /\ ptest' = ptest
  BY DEF fail, killPeer, waitRemoval, leaderVars, queueVars, Removed
<1>1. \A q \in Peers : q # p => ppc'[q] = ppc[q] /\ control'[q] = control[q]
  BY <1>f DEF fail, killPeer, waitRemoval, Goto, queueVars
<1>2. ppc'[p] \in Exited /\ (control'[p].linked => control[p].linked)
  <2>1. ~Unlinked(control[p]).linked
    BY <1>f, Names
  <2> QED
    BY <1>f, <2>1 DEF fail, killPeer, waitRemoval, Goto, queueVars, Exited
<1> USE DEF HasQueue, InTest, Finished, Exited
<1>3. PlaceOK(p)'
  <2>1. CASE Behind(p)
    BY <1>l, <1>2, <2>1 DEF PlaceOK, Behind
  <2>2. CASE Current(p)
    BY <1>l, <1>2, <2>2 DEF PlaceOK, Current
  <2>3. CASE Ahead(p)
    BY <1>l, <1>2, <2>3 DEF PlaceOK, Ahead, Fresh
  <2> QED
    BY <1>f, <2>1, <2>2, <2>3 DEF PlaceOK
<1>4. /\ FreshOK(p)' /\ ControlOK(p)' /\ Settled(p)' /\ ~Started(p)' /\ ~Alive(p)'
      /\ ppc'[p] \in Finished
  BY <1>2 DEF FreshOK, Fresh, ControlOK, Settled, Started, Alive, Rendezvous
<1>5. \A m \in In(done') : m \in In(done) \/ (lpc \in Gathering => DoneMsgOK(m)')
  <2>0. PICK d : d = [from |-> p, ok |-> FALSE, test |-> ptest[p]]
    OBVIOUS
  <2>1. CASE done' = done
    BY <2>1
  <2>2. CASE done' = With(done, d)
    <3>1. d \in Dones /\ d.from = p /\ d.test = ptest[p] /\ ~d.ok
      BY <1>f, <2>0, DoneMessage
    <3>2. In(done') = In(done) \cup {d}
      BY <1>f, <2>2, <3>1, QueueMessages
    <3>3. DoneMsgOK(d)'
      BY <1>l, <1>4, <3>1 DEF DoneMsgOK
    <3> QED
      BY <3>2, <3>3
  <2> QED
    BY <2>0, <2>1, <2>2 DEF fail, killPeer, waitRemoval, queueVars
<1> QED
  BY <1>l, <1>1, <1>3, <1>4, <1>5, PeerMoves

(* waitForQueueRemoval returns and the peer enters its next test: then the *)
(* leader has removed the queue, and nobody still runs the last test.      *)
LEMMA NextTestStep ==
  ASSUME TypeOK, SyncInv, NEW p \in Peers, waitRemoval(p), ptest[p] + 1 < Tests
  PROVE  SyncInv'
<1>f. /\ PlaceOK(p) /\ FreshOK(p) /\ control[p] \in Queues(Controls)
      /\ ppc \in [Peers -> PeerSteps] /\ ptest \in [Peers -> 0 .. Tests - 1]
      /\ ptest[p] \in Nat /\ ltest \in Nat
  BY PeerFacts, BoostMqAssumption DEF TypeOK
<1>1. /\ ppc[p] = "waitRemoval" /\ ppc'[p] = "removeInbox" /\ ~control[p].linked
      /\ ptest'[p] = ptest[p] + 1
      /\ \A q \in Peers : q # p => ppc'[q] = ppc[q] /\ ptest'[q] = ptest[q]
      /\ control' = control /\ barrier' = barrier /\ done' = done
      /\ lpc' = lpc /\ lk' = lk /\ ltest' = ltest /\ ready' = ready
      /\ completed' = completed /\ timedOut' = timedOut
  BY <1>f DEF waitRemoval, Goto, leaderVars
<1>2. ~Fresh(p) /\ ~Settled(p) /\ Alive(p)
  BY <1>1 DEF Fresh, Settled, Rendezvous, Exited, Alive
<1>3. Behind(p) \/ (Current(p) /\ Removed(p))
  BY <1>f, <1>1, <1>2 DEF PlaceOK, Current, Ahead, HasQueue
<1>4. PlaceOK(p)'
  <2>1. CASE Behind(p)
    BY <1>1, <2>1 DEF PlaceOK, Behind, Current, HasQueue, InTest
  <2>2. CASE Current(p) /\ Removed(p)
    <3>1. Removed(p)'
      BY <1>1, <2>2 DEF Removed
    <3> QED
      BY <1>1, <2>2, <3>1 DEF PlaceOK, Current, Ahead, Fresh, HasQueue, InTest, Rendezvous
  <2> QED
    BY <1>3, <2>1, <2>2
<1>5. FreshOK(p)' /\ ControlOK(p)' /\ ~Started(p)'
  BY <1>1 DEF FreshOK, Fresh, ControlOK, Started, Rendezvous, InTest
<1>6. ASSUME NEW q \in Peers, q # p
      PROVE  /\ PlaceOK(q)' /\ FreshOK(q)' /\ ControlOK(q)'
             /\ Settled(q)' = Settled(q) /\ Started(q)' = Started(q)
             /\ ppc'[q] = ppc[q] /\ ptest'[q] = ptest[q] /\ Alive(q)' = Alive(q)
             /\ Joined(q)' = Joined(q)
  <2>1. PlaceOK(q) /\ FreshOK(q) /\ ControlOK(q)
    BY DEF SyncInv
  <2>2. ppc'[q] = ppc[q] /\ control'[q] = control[q] /\ ptest'[q] = ptest[q]
    BY <1>1, <1>6
  <2>3. /\ Settled(q)' = Settled(q) /\ Started(q)' = Started(q) /\ Fresh(q)' = Fresh(q)
        /\ ControlOK(q)' = ControlOK(q) /\ Alive(q)' = Alive(q)
    BY <2>2, SamePeer
  <2>4. Removed(q)' = Removed(q)
    BY <1>1 DEF Removed
  <2> QED
    BY <1>1, <2>1, <2>2, <2>3, <2>4 DEF PlaceOK, Behind, Current, Ahead, FreshOK, Joined
<1>7. ~Joined(p)
  BY <1>2 DEF Joined
<1>8. In(barrier) \subseteq Readies /\ In(done) \subseteq Dones /\ ready \subseteq Peers
      /\ completed \subseteq Peers
  BY QueueMessages DEF TypeOK
<1>9. BarrierOK'
  <2> SUFFICES ASSUME lpc = "waitReady"
               PROVE  /\ \A m \in In(barrier) : ReadyMsgOK(m)'
                      /\ \A q \in ready : Joined(q)'
    BY <1>1 DEF BarrierOK
  <2>1. /\ \A m \in In(barrier) : m.test = ltest /\ Joined(m.from) /\ m.from \in Peers
        /\ \A q \in ready : Joined(q)
    BY <1>8 DEF SyncInv, BarrierOK, ReadyMsgOK, Readies
  <2>2. \A q \in Peers : Joined(q) => Joined(q)'
    BY <1>6, <1>7
  <2> QED
    BY <1>1, <1>8, <2>1, <2>2 DEF ReadyMsgOK
<1>10. JoinedOK'
  BY <1>1, <1>7 DEF SyncInv, JoinedOK
<1>11. DoneOK'
  <2> SUFFICES ASSUME lpc \in Gathering, NEW m \in In(done) PROVE DoneMsgOK(m)'
    BY <1>1 DEF DoneOK
  <2>1. DoneMsgOK(m) /\ m.from \in Peers
    BY <1>8 DEF SyncInv, DoneOK, Dones
  <2>2. m.from # p
    <3>1. ~Removed(p)
      BY DEF Gathering, Removed
    <3>2. ptest[p] + 1 = ltest
      BY <1>3, <3>1 DEF Behind
    <3>3. ptest[p] # ltest
      BY <1>f, <3>2
    <3> QED
      BY <1>2, <2>1, <3>3 DEF DoneMsgOK
  <2> QED
    BY <1>1, <1>6, <2>1, <2>2 DEF DoneMsgOK
<1>12. CompletedOK'
  <2>1. ASSUME lpc \notin {"createBarrier", "exited"}, NEW q \in completed
        PROVE  ptest'[q] = ltest + 1 \/ (ptest'[q] = ltest /\ ppc'[q] \in Finished)
    <3>1. ptest[q] = ltest + 1 \/ (ptest[q] = ltest /\ ppc[q] \in Finished)
      BY <2>1 DEF SyncInv, CompletedOK
    <3>2. CASE q # p
      BY <1>6, <1>8, <3>1, <3>2
    <3>3. CASE q = p
      <4>1. ptest[p] = ltest
        BY <1>3, <1>f, <3>1, <3>3 DEF Behind, Current
      <4> QED
        BY <1>1, <3>3, <4>1
    <3> QED
      BY <3>2, <3>3
  <2> QED
    BY <1>1, <2>1 DEF SyncInv, CompletedOK
<1>13. StartedOK'
  <2> SUFFICES ASSUME NEW q \in Peers, NEW o \in Peers, Started(q)', ~timedOut'
               PROVE  FALSE
    BY DEF StartedOK
  <2>1. Started(q) /\ ~timedOut
    BY <1>1, <1>5, <1>6
  <2>2. Settled(p)
    BY <2>1 DEF SyncInv, StartedOK
  <2> QED
    BY <1>2, <2>2
<1> QED
  BY <1>4, <1>5, <1>6, <1>9, <1>10, <1>11, <1>12, <1>13 DEF SyncInv

(* Every step of a peer keeps the invariant. *)
LEMMA PeerSync ==
  ASSUME TypeOK, SyncInv, NEW p \in Peers, PeerStep(p) \/ killPeer(p) PROVE SyncInv'
<1>1. CASE waitRemoval(p)
  <2>1. CASE ptest[p] + 1 < Tests
    BY <1>1, <2>1, NextTestStep
  <2>2. CASE ~(ptest[p] + 1 < Tests)
    BY <1>1, <2>2, PeerEnds
  <2> QED
    BY <2>1, <2>2
<1> QED
  BY <1>1, RendezvousStep, ControlStep, RunStep, PeerEnds DEF PeerStep

(* A step of the leader that neither sends nor removes a control queue     *)
(* disturbs nothing that is said of the peers.                             *)
LEMMA LeaderMoves ==
  ASSUME SyncInv, UNCHANGED <<ppc, ptest, control, ltest>>, timedOut => timedOut',
         \A p \in Peers : Removed(p)' = Removed(p),
         lpc # "exited", lpc' # "exited",
         lpc' \in {"createBarrier", "waitReady"} => lpc \in {"createBarrier", "waitReady"},
         BarrierOK', JoinedOK', DoneOK', CompletedOK'
  PROVE  SyncInv'
<1>1. ASSUME NEW p \in Peers
      PROVE  /\ PlaceOK(p)' /\ FreshOK(p)' /\ ControlOK(p)'
             /\ Settled(p)' = Settled(p) /\ Started(p)' = Started(p)
  <2>1. PlaceOK(p) /\ FreshOK(p) /\ ControlOK(p) /\ Removed(p)' = Removed(p)
    BY DEF SyncInv
  <2>2. /\ Settled(p)' = Settled(p) /\ Started(p)' = Started(p) /\ Fresh(p)' = Fresh(p)
        /\ ControlOK(p)' = ControlOK(p)
    BY SamePeer
  <2>3. PlaceOK(p)'
    BY <2>1, <2>2 DEF PlaceOK, Behind, Current, Ahead
  <2> QED
    BY <2>1, <2>2, <2>3 DEF FreshOK
<1>2. StartedOK'
  BY <1>1 DEF SyncInv, StartedOK
<1> QED
  BY <1>1, <1>2 DEF SyncInv

(* The two waits of the leader, and the steps that lead to them.           *)
LEMMA WaitSync ==
  ASSUME TypeOK, SyncInv, createBarrier \/ acceptReady \/ acceptDone PROVE SyncInv'
<1>t. /\ barrier \in Queues(Readies) /\ done \in Queues(Dones)
      /\ completed \subseteq Peers /\ ready \subseteq Peers
  BY DEF TypeOK
<1>1. CASE createBarrier
  <2>1. /\ lpc = "createBarrier" /\ lpc' = "waitReady" /\ barrier' = NewQueue /\ done' = NewQueue
        /\ ready' = {} /\ completed' = {} /\ UNCHANGED <<ppc, ptest, control, ltest, timedOut>>
    BY <1>1 DEF createBarrier, Recreated, peerVars
  <2>2. In(barrier') = {} /\ In(done') = {}
    BY <2>1, QueueMessages
  <2>3. BarrierOK' /\ JoinedOK' /\ DoneOK' /\ CompletedOK'
    BY <2>1, <2>2 DEF BarrierOK, JoinedOK, DoneOK, CompletedOK, TestOver
  <2>4. \A p \in Peers : Removed(p)' = Removed(p)
    BY <2>1 DEF Removed
  <2> QED
    BY <2>1, <2>3, <2>4, LeaderMoves
<1>2. CASE acceptReady
  <2>1. /\ lpc = "waitReady" /\ lpc' \in {"waitReady", "sendAssignment"}
        /\ barrier' = Without(barrier) /\ barrier.msgs # <<>>
        /\ ready' = ready \cup {Head(barrier.msgs).from}
        /\ lpc' = "sendAssignment" => ready' = Peers
        /\ done' = done /\ completed' = completed
        /\ UNCHANGED <<ppc, ptest, control, ltest, timedOut>>
    BY <1>2 DEF acceptReady, AllOf, peerVars
  <2>2. In(barrier') \subseteq In(barrier) /\ Head(barrier.msgs) \in In(barrier)
    BY <1>t, <2>1, QueueMessages
  <2>3. \A p \in Peers : Joined(p)' = Joined(p) /\ Alive(p)' = Alive(p)
    BY <2>1, SamePeer DEF Joined
  <2>4. /\ \A m \in In(barrier) : m.test = ltest /\ m.from \in Peers /\ Joined(m.from)'
        /\ \A p \in ready' : Joined(p)'
    <3>1. \A m \in In(barrier) : m.from \in Peers
      <4>1. In(barrier) \subseteq Readies
        BY <1>t, QueueMessages
      <4> QED
        BY <4>1 DEF Readies
    <3>2. /\ \A m \in In(barrier) : m.test = ltest /\ Joined(m.from)
          /\ \A p \in ready : Joined(p)
      BY <2>1 DEF SyncInv, BarrierOK, ReadyMsgOK
    <3> QED
      BY <1>t, <2>1, <2>2, <2>3, <3>1, <3>2
  <2>5. BarrierOK' /\ JoinedOK'
    BY <2>1, <2>2, <2>4 DEF BarrierOK, ReadyMsgOK, JoinedOK
  <2>6. DoneOK'
    <3> SUFFICES ASSUME NEW m \in In(done) PROVE DoneMsgOK(m)'
      BY <2>1 DEF DoneOK
    <3>1. DoneMsgOK(m) /\ m.from \in Peers
      <4>1. In(done) \subseteq Dones
        BY <1>t, QueueMessages
      <4> QED
        BY <2>1, <4>1 DEF SyncInv, DoneOK, Gathering, Dones
    <3> QED
      BY <2>1, <2>3, <3>1 DEF DoneMsgOK
  <2>7. CompletedOK'
    BY <2>1 DEF SyncInv, CompletedOK, TestOver
  <2>8. \A p \in Peers : Removed(p)' = Removed(p)
    BY <2>1 DEF Removed
  <2> QED
    BY <2>1, <2>5, <2>6, <2>7, <2>8, LeaderMoves
<1>3. CASE acceptDone
  <2>0. PICK m : m = Head(done.msgs)
    OBVIOUS
  <2>1. /\ lpc = "waitDone" /\ lpc' \in {"waitDone", "sendStop", "evaluate"}
        /\ done' = Without(done) /\ done.msgs # <<>>
        /\ UNCHANGED <<ppc, ptest, control, ltest, timedOut>>
    BY <1>3 DEF acceptDone, peerVars
  <2>2. /\ completed' = completed \/ (completed' = completed \cup {m.from} /\ m.ok)
        /\ lpc' = "sendStop" => completed' = Peers
    BY <1>3, <2>0 DEF acceptDone, AllOf
  <2>3. /\ In(done') \subseteq In(done) /\ m \in In(done)
        /\ \A d \in In(done) : DoneMsgOK(d) /\ d.from \in Peers
    <3>1. In(done) \subseteq Dones
      BY <1>t, QueueMessages
    <3>2. \A d \in In(done) : DoneMsgOK(d)
      BY <2>1 DEF SyncInv, DoneOK, Gathering
    <3> QED
      BY <1>t, <2>0, <2>1, <3>1, <3>2, QueueMessages DEF Dones
  <2>4. \A p \in Peers : Joined(p)' = Joined(p) /\ Alive(p)' = Alive(p)
    BY <2>1, SamePeer DEF Joined
  <2>5. BarrierOK' /\ JoinedOK'
    BY <2>1, <2>4 DEF SyncInv, BarrierOK, JoinedOK
  <2>6. DoneOK'
    BY <2>1, <2>3, <2>4 DEF DoneOK, DoneMsgOK
  <2>7. \A p \in completed' : ptest[p] = ltest + 1 \/ (ptest[p] = ltest /\ ppc[p] \in Finished)
    <3>1. \A p \in completed : ptest[p] = ltest + 1 \/ (ptest[p] = ltest /\ ppc[p] \in Finished)
      BY <2>1 DEF SyncInv, CompletedOK
    <3>2. m.ok => ptest[m.from] = ltest /\ ppc[m.from] \in Finished
      BY <2>3 DEF DoneMsgOK
    <3> QED
      BY <2>2, <3>1, <3>2
  <2>8. CompletedOK'
    BY <2>1, <2>2, <2>7 DEF CompletedOK, TestOver
  <2>9. \A p \in Peers : Removed(p)' = Removed(p)
    BY <2>1 DEF Removed
  <2> QED
    BY <2>1, <2>5, <2>6, <2>8, <2>9, LeaderMoves
<1> QED
  BY <1>1, <1>2, <1>3

(* The end of a test without its control queues: deadlines, evaluation and *)
(* the removal of the other queues.                                        *)
LEMMA EndSync ==
  ASSUME TypeOK, ReportInv, SyncInv,
         \/ readyTimeout \/ doneTimeout \/ evaluate
         \/ \E step \in Loops : sendControlFails(step)
         \/ removeBarrier \/ removeDone \/ removeData
  PROVE  SyncInv'
<1>1. /\ UNCHANGED <<ppc, ptest, control, ltest, completed>> /\ lpc # "exited"
      /\ lpc # "createBarrier"
      /\ lpc' \in {"evaluate", "stopBestEffort", "removeBarrier", "removeDone",
                   "removeControl", "endTest"}
  BY DEF readyTimeout, doneTimeout, evaluate, sendControlFails, removeBarrier, removeDone,
     removeData, Loops, queueVars, peerVars
<1>2. timedOut => timedOut'
  <2>1. CASE evaluate
    BY <2>1 DEF evaluate, ReportInv, TestOver
  <2> QED
    BY <2>1 DEF readyTimeout, doneTimeout, sendControlFails, removeBarrier, removeDone,
       removeData
<1>3. \A p \in Peers : Removed(p)' = Removed(p)
  <2> SUFFICES ASSUME NEW p \in Peers PROVE Removed(p)' = Removed(p)
    OBVIOUS
  <2>1. p \in Nat /\ p < N /\ lk \in Nat /\ lk < N /\ N \in Nat
    BY BoostMqAssumption DEF TypeOK, Peers
  <2>2. CASE readyTimeout \/ doneTimeout \/ evaluate \/ \E step \in Loops : sendControlFails(step)
    BY <2>2 DEF readyTimeout, doneTimeout, evaluate, sendControlFails, Loops, Removed
  <2>3. CASE removeBarrier \/ removeDone
    BY <2>1, <2>3 DEF removeBarrier, removeDone, Removed
  <2>4. CASE removeData
    <3>1. CASE lk + 1 < N
      BY <2>1, <2>4, <3>1 DEF removeData, Removed
    <3>2. CASE ~(lk + 1 < N)
      BY <2>1, <2>4, <3>2 DEF removeData, Removed
    <3> QED
      BY <3>1, <3>2
  <2> QED
    BY <2>2, <2>3, <2>4
<1>4. BarrierOK' /\ JoinedOK' /\ DoneOK'
  BY <1>1 DEF BarrierOK, JoinedOK, DoneOK, Gathering
<1>5. CompletedOK'
  <2>1. \A p \in completed' : ptest'[p] = ltest' + 1 \/ (ptest'[p] = ltest' /\ ppc'[p] \in Finished)
    BY <1>1 DEF SyncInv, CompletedOK
  <2>2. lpc' = "stopBestEffort" => timedOut'
    BY <1>1 DEF readyTimeout, doneTimeout, evaluate, sendControlFails, removeBarrier,
       removeDone, removeData
  <2>3. lpc' \in TestOver /\ ~timedOut' => completed' = Peers
    <3>1. CASE evaluate
      BY <1>1, <3>1 DEF evaluate, Success
    <3>2. CASE removeBarrier \/ removeDone \/ removeData
      BY <1>1, <3>2 DEF removeBarrier, removeDone, removeData, SyncInv, CompletedOK, TestOver
    <3>3. CASE readyTimeout \/ doneTimeout \/ \E step \in Loops : sendControlFails(step)
      BY <3>3 DEF readyTimeout, doneTimeout, sendControlFails, TestOver
    <3> QED
      BY <3>1, <3>2, <3>3
  <2> QED
    BY <1>1, <2>1, <2>2, <2>3 DEF CompletedOK
<1> QED
  BY <1>1, <1>2, <1>3, <1>4, <1>5, LeaderMoves

(* The leader puts a control message of its test into the queue of peer k. *)
LEMMA SendMoves ==
  ASSUME TypeOK, SyncInv, NEW k \in Peers, NEW m \in Controls, m.test = ltest,
         control[k].linked, control' = [control EXCEPT ![k] = With(control[k], m)],
         UNCHANGED <<ppc, ptest, ltest, timedOut, done>>,
         \A p \in Peers : ~Removed(p) /\ ~Removed(p)',
         lpc' \notin {"createBarrier", "waitReady", "exited"},
         lpc' \in {"sendAssignment", "sendStart", "waitDone"} =>
           lpc \in {"sendAssignment", "sendStart", "waitDone"} /\ m.kind # "stop",
         m.kind = "start" => \A p \in Peers : Joined(p),
         m.kind = "stop" => timedOut \/ \A p \in Peers : ~Started(p),
         CompletedOK'
  PROVE  SyncInv'
<1>t. /\ control \in [Peers -> Queues(Controls)] /\ done \in Queues(Dones)
  BY DEF TypeOK
<1>1. /\ In(control'[k]) = In(control[k]) \cup {m} /\ control'[k].linked = control[k].linked
      /\ \A q \in Peers : q # k => control'[q] = control[q]
  <2>1. control'[k] = With(control[k], m) /\ control[k] \in Queues(Controls)
        /\ \A q \in Peers : q # k => control'[q] = control[q]
    BY <1>t
  <2>2. /\ In(With(control[k], m)) = In(control[k]) \cup {m}
        /\ With(control[k], m).linked = control[k].linked
    BY <2>1, QueueMessages, Zenon
  <2> QED
    BY <2>1, <2>2, Zenon
<1>2. \A q \in Peers : control'[q].linked = control[q].linked
  BY <1>1
<1>3. \A q \in Peers : PlaceOK(q) /\ FreshOK(q) /\ ControlOK(q)
  BY DEF SyncInv
<1>4. ptest[k] = ltest
  BY <1>3 DEF PlaceOK, Behind, Current, Ahead
<1>5. ASSUME NEW q \in Peers PROVE PlaceOK(q)' /\ FreshOK(q)' /\ ControlOK(q)'
  <2>1. Behind(q) \/ Current(q)
    BY <1>3 DEF PlaceOK, Ahead
  <2>2. PlaceOK(q)'
    BY <1>2, <2>1 DEF PlaceOK, Behind, Current
  <2>3. FreshOK(q)'
    BY DEF FreshOK
  <2>4. ControlOK(q)'
    BY <1>1, <1>3, <1>4 DEF ControlOK
  <2> QED
    BY <2>2, <2>3, <2>4
<1>6. m.kind # "start" => \A q \in Peers : Started(q)' => Started(q)
  BY <1>1 DEF Started, HasStart
<1>7. m.kind # "stop" => \A q \in Peers : Settled(q) => Settled(q)'
  BY <1>1 DEF Settled, HasStop
<1>8. BarrierOK'
  BY DEF BarrierOK
<1>9. JoinedOK'
  BY <1>7 DEF JoinedOK, Joined, SyncInv
<1>10. DoneOK'
  <2> SUFFICES ASSUME lpc' \in Gathering, NEW d \in In(done) PROVE DoneMsgOK(d)'
    BY DEF DoneOK
  <2>1. DoneMsgOK(d)
    BY DEF SyncInv, DoneOK, Gathering
  <2> QED
    BY <2>1 DEF DoneMsgOK, Alive
<1>11. StartedOK'
  <2> SUFFICES ASSUME NEW p \in Peers, NEW o \in Peers, Started(p)', ~timedOut
               PROVE  ptest[o] = ptest[p] /\ Settled(o)'
    BY DEF StartedOK
  <2>1. CASE m.kind = "start"
    <3>1. m.kind # "stop"
      BY <2>1
    <3>2. Joined(o) /\ Joined(p)
      BY <2>1
    <3> QED
      BY <1>7, <3>1, <3>2 DEF Joined
  <2>2. CASE m.kind # "start"
    BY <1>6, <1>7, <2>2 DEF SyncInv, StartedOK
  <2> QED
    BY <2>1, <2>2
<1> QED
  BY <1>5, <1>8, <1>9, <1>10, <1>11, CompletedOK' DEF SyncInv

(* sendAssignments, broadcastStart, broadcastStop and the best-effort stop *)
(* keep the invariant: assignments and starts go to peers that are all     *)
(* joined, a stop only to peers that have all finished or after a failure. *)
LEMMA SendSync ==
  ASSUME TypeOK, SyncInv, stopBestEffort \/ \E step \in Loops : sendControl(step)
  PROVE  SyncInv'
<1>t. lk \in Peers /\ ltest \in 0 .. Tests - 1 /\ ltest \in Nat /\ 0 \in Peers
  BY BoostMqAssumption DEF TypeOK, Peers
<1>r. /\ UNCHANGED <<ppc, ptest, ltest, timedOut, done, completed>>
      /\ lpc \in Loops \cup {"stopBestEffort"}
  BY DEF stopBestEffort, sendControl, peerVars
<1>1. CASE stopBestEffort
  <2>1. lpc = "stopBestEffort" /\ timedOut /\ lpc' \in {"stopBestEffort", "removeBarrier"}
    BY <1>1 DEF stopBestEffort, NextPeer, SyncInv, CompletedOK
  <2>2. \A p \in Peers : ~Removed(p) /\ ~Removed(p)'
    BY <2>1 DEF Removed
  <2>3. CompletedOK'
    BY <1>r, <2>1 DEF SyncInv, CompletedOK
  <2>4. CASE CanSend(control[lk])
    <3>1. PICK m \in Controls : m = [kind |-> "stop", test |-> ltest]
      BY <1>t, Messages
    <3>2. control' = [control EXCEPT ![lk] = With(control[lk], m)] /\ control[lk].linked
      BY <1>1, <2>4, <3>1 DEF stopBestEffort, CanSend
    <3>3. m.test = ltest /\ m.kind = "stop"
      BY <3>1
    <3> HIDE <3>1
    <3> QED
      BY <1>t, <1>r, <2>1, <2>2, <2>3, <3>2, <3>3, SendMoves
  <2>5. CASE ~CanSend(control[lk])
    <3>1. UNCHANGED control
      BY <1>1, <2>5 DEF stopBestEffort
    <3>2. BarrierOK' /\ JoinedOK' /\ DoneOK'
      BY <2>1 DEF BarrierOK, JoinedOK, DoneOK, Gathering
    <3>3. \A p \in Peers : Removed(p)' = Removed(p)
      BY <2>1 DEF Removed
    <3> QED
      BY <1>r, <2>1, <2>3, <3>1, <3>2, <3>3, LeaderMoves
  <2> QED
    BY <2>4, <2>5
<1>2. ASSUME NEW step \in Loops, sendControl(step) PROVE SyncInv'
  <2>1. lpc = step /\ lpc' \in {step, After(step)}
    BY <1>2 DEF sendControl, NextPeer
  <2>2. /\ step = "sendAssignment" => After(step) = "sendStart" /\ Kind(step) = "assign"
        /\ step = "sendStart" => After(step) = "waitDone" /\ Kind(step) = "start"
        /\ step = "sendStop" => After(step) = "evaluate" /\ Kind(step) = "stop"
        /\ step \in {"sendAssignment", "sendStart", "sendStop"}
    BY DEF Loops, After, Kind
  <2>3. \A p \in Peers : ~Removed(p) /\ ~Removed(p)'
    BY <2>1, <2>2 DEF Removed
  <2>4. PICK m \in Controls : m = [kind |-> Kind(step), test |-> ltest]
    BY <1>t, <2>2, Messages
  <2>5. control' = [control EXCEPT ![lk] = With(control[lk], m)] /\ control[lk].linked
    BY <1>2, <2>4 DEF sendControl, CanSend
  <2>6. m.test = ltest /\ m.kind = Kind(step)
    BY <2>4
  <2>7. CompletedOK'
    BY <1>r, <2>1, <2>2 DEF SyncInv, CompletedOK, TestOver
  <2>8. m.kind = "start" => \A p \in Peers : Joined(p)
    BY <2>1, <2>2, <2>6 DEF SyncInv, JoinedOK
  <2>9. m.kind = "stop" => \A p \in Peers : ~Started(p)
    <3> SUFFICES ASSUME step = "sendStop", NEW p \in Peers PROVE ~Started(p)
      BY <2>2, <2>6
    <3>1. ptest[p] = ltest + 1 \/ (ptest[p] = ltest /\ ppc[p] \in Finished)
      BY <2>1 DEF SyncInv, CompletedOK
    <3>2. ptest[p] # ltest + 1
      <4>1. PlaceOK(p) /\ ptest[p] \in Nat
        BY BoostMqAssumption DEF SyncInv, TypeOK
      <4> QED
        BY <1>t, <2>3, <4>1 DEF PlaceOK, Behind, Current, Ahead
    <3> QED
      BY <3>1, <3>2 DEF Started, Finished, Exited
  <2>10. /\ lpc' \notin {"createBarrier", "waitReady", "exited"}
         /\ lpc' \in {"sendAssignment", "sendStart", "waitDone"} =>
              lpc \in {"sendAssignment", "sendStart", "waitDone"} /\ m.kind # "stop"
    BY <2>1, <2>2, <2>6
  <2> QED
    BY <1>t, <1>r, <2>3, <2>5, <2>6, <2>7, <2>8, <2>9, <2>10, SendMoves
<1> QED
  BY <1>1, <1>2

(* cleanUp removes the control queue of one peer. *)
LEMMA RemovalSync ==
  ASSUME TypeOK, SyncInv, removeControl PROVE SyncInv'
<1>t. /\ control \in [Peers -> Queues(Controls)] /\ lk \in Peers
      /\ \A p \in Peers : p \in Nat /\ control[p] \in Queues(Controls)
  BY BoostMqAssumption DEF TypeOK, Peers
<1>1. /\ lpc = "removeControl" /\ lpc' = "removeData" /\ lk' = lk
      /\ control' = [control EXCEPT ![lk] = Unlinked(control[lk])]
      /\ UNCHANGED <<ppc, ptest, ltest, timedOut, completed>>
  BY DEF removeControl, peerVars
<1>2. /\ In(control'[lk]) = In(control[lk]) /\ ~control'[lk].linked
      /\ \A q \in Peers : q # lk => control'[q] = control[q]
  BY <1>t, <1>1, QueueMessages, Names
<1>3. \A q \in Peers : In(control'[q]) = In(control[q])
  BY <1>2
<1>4. ASSUME NEW q \in Peers
      PROVE  /\ PlaceOK(q)' /\ FreshOK(q)' /\ ControlOK(q)'
             /\ Settled(q)' = Settled(q) /\ Started(q)' = Started(q)
  <2>1. PlaceOK(q) /\ ControlOK(q)
    BY DEF SyncInv
  <2>2. /\ q # lk => Removed(q)' = Removed(q)
        /\ q = lk => Removed(q)' /\ ~Removed(q)
    BY <1>t, <1>1 DEF Removed
  <2>3. Fresh(q)' = Fresh(q) /\ ControlOK(q)' = ControlOK(q)
        /\ Settled(q)' = Settled(q) /\ Started(q)' = Started(q)
    BY <1>1, <1>3 DEF Fresh, ControlOK, Settled, Started, HasStart, HasStop
  <2>4. FreshOK(q)'
    BY <1>1 DEF FreshOK
  <2>5. CASE q = lk
    <3>1. Behind(q) \/ Current(q)
      BY <2>1, <2>2, <2>5 DEF PlaceOK, Ahead
    <3>2. PlaceOK(q)'
      BY <1>1, <1>2, <2>2, <2>5, <3>1 DEF PlaceOK, Behind, Current
    <3> QED
      BY <2>1, <2>3, <2>4, <3>2
  <2>6. CASE q # lk
    <3>1. control'[q] = control[q]
      BY <1>2, <2>6
    <3>2. PlaceOK(q)'
      BY <1>1, <2>1, <2>2, <2>3, <2>6, <3>1 DEF PlaceOK, Behind, Current, Ahead
    <3> QED
      BY <2>1, <2>3, <2>4, <3>2
  <2> QED
    BY <2>5, <2>6
<1>5. BarrierOK' /\ JoinedOK' /\ DoneOK'
  BY <1>1 DEF BarrierOK, JoinedOK, DoneOK, Gathering
<1>6. CompletedOK'
  BY <1>1 DEF SyncInv, CompletedOK, TestOver
<1>7. StartedOK'
  BY <1>1, <1>4 DEF SyncInv, StartedOK
<1> QED
  BY <1>4, <1>5, <1>6, <1>7 DEF SyncInv

(* The leader process ends and leaves everything as it is. *)
LEMMA LeaderExits ==
  ASSUME SyncInv, lpc' = "exited", UNCHANGED <<ppc, ptest, control, ltest, timedOut>>
  PROVE  SyncInv'
<1>1. ASSUME NEW p \in Peers
      PROVE  /\ PlaceOK(p)' /\ FreshOK(p)' /\ ControlOK(p)'
             /\ Settled(p)' = Settled(p) /\ Started(p)' = Started(p)
  <2>1. PlaceOK(p) /\ ControlOK(p) /\ Removed(p)'
    BY DEF SyncInv, Removed
  <2>2. /\ Settled(p)' = Settled(p) /\ Started(p)' = Started(p) /\ Fresh(p)' = Fresh(p)
        /\ ControlOK(p)' = ControlOK(p)
    BY SamePeer
  <2>3. PlaceOK(p)'
    BY <2>1, <2>2 DEF PlaceOK, Behind, Current, Ahead
  <2> QED
    BY <2>1, <2>2, <2>3 DEF FreshOK
<1>2. StartedOK'
  BY <1>1 DEF SyncInv, StartedOK
<1>3. BarrierOK' /\ JoinedOK' /\ DoneOK' /\ CompletedOK'
  BY DEF BarrierOK, JoinedOK, DoneOK, CompletedOK, Gathering, TestOver
<1> QED
  BY <1>1, <1>2, <1>3 DEF SyncInv

(* The next test: every peer has finished the last one, and waits for the  *)
(* queue the leader has removed or is at the next rendezvous already.      *)
LEMMA NextTestSync ==
  ASSUME TypeOK, SyncInv, endTest PROVE SyncInv'
<1>1. CASE lpc' = "exited"
  BY <1>1, LeaderExits DEF endTest, peerVars, queueVars
<1>2. CASE lpc' # "exited"
  <2>1. /\ lpc = "endTest" /\ ~timedOut /\ ltest' = ltest + 1 /\ lpc' = "createBarrier"
        /\ UNCHANGED <<ppc, ptest, control, timedOut>>
    BY <1>2 DEF endTest, peerVars, queueVars
  <2>2. ltest \in Nat /\ \A p \in Peers : ptest[p] \in Nat
    BY BoostMqAssumption DEF TypeOK
  <2>3. ASSUME NEW p \in Peers
        PROVE  /\ PlaceOK(p)' /\ FreshOK(p)' /\ ControlOK(p)'
               /\ Settled(p)' = Settled(p) /\ Started(p)' = Started(p)
    <3>1. PlaceOK(p) /\ ControlOK(p) /\ Removed(p) /\ ~Removed(p)'
      BY <2>1 DEF SyncInv, Removed
    <3>2. /\ Settled(p)' = Settled(p) /\ Started(p)' = Started(p) /\ Fresh(p)' = Fresh(p)
          /\ ControlOK(p)' = ControlOK(p)
      BY <2>1, SamePeer
    <3>3. ptest[p] = ltest + 1 \/ (ptest[p] = ltest /\ ppc[p] \in Finished)
      BY <2>1 DEF SyncInv, CompletedOK, TestOver
    <3>4. CASE ptest[p] = ltest + 1
      <4>1. Ahead(p)
        BY <2>2, <3>1, <3>4 DEF PlaceOK, Behind, Current
      <4>2. PlaceOK(p)' /\ FreshOK(p)'
        BY <2>1, <3>1, <3>2, <3>4, <4>1 DEF PlaceOK, Current, Ahead, FreshOK
      <4> QED
        BY <3>1, <3>2, <4>2
    <3>5. CASE ptest[p] = ltest /\ ppc[p] \in Finished
      <4>1. ~control[p].linked
        BY <2>1, <2>2, <3>1, <3>5 DEF PlaceOK, Behind, Current, Ahead
      <4>2. PlaceOK(p)' /\ FreshOK(p)'
        BY <2>1, <2>2, <3>5, <4>1 DEF PlaceOK, Behind, FreshOK
      <4> QED
        BY <3>1, <3>2, <4>2
    <3> QED
      BY <3>3, <3>4, <3>5
  <2>4. StartedOK'
    BY <2>1, <2>3 DEF SyncInv, StartedOK
  <2>5. BarrierOK' /\ JoinedOK' /\ DoneOK' /\ CompletedOK'
    BY <2>1 DEF BarrierOK, JoinedOK, DoneOK, CompletedOK, Gathering, TestOver
  <2> QED
    BY <2>3, <2>4, <2>5 DEF SyncInv
<1> QED
  BY <1>1, <1>2

(* The launcher ends the experiment: no process is left. *)
LEMMA AllExit ==
  ASSUME SyncInv, lpc' = "exited", UNCHANGED <<ptest, ltest>>,
         \A p \in Peers : ppc'[p] \in Exited,
         \A p \in Peers : control'[p].linked => control[p].linked
  PROVE  SyncInv'
<1>1. ASSUME NEW p \in Peers
      PROVE  PlaceOK(p)' /\ FreshOK(p)' /\ ControlOK(p)' /\ ~Started(p)'
  <2>1. PlaceOK(p) /\ Removed(p)' /\ ppc'[p] \in Exited
    BY DEF SyncInv, Removed
  <2>2. ppc'[p] \notin HasQueue /\ ppc'[p] \in Finished /\ Fresh(p)' /\ ~Started(p)'
    BY <2>1 DEF HasQueue, InTest, Finished, Exited, Fresh, Started
  <2>3. ppc'[p] \notin InTest \cup {"createData", "sendReady"}
    BY <2>1 DEF InTest, Exited
  <2>4. PlaceOK(p)'
    BY <2>1, <2>2 DEF PlaceOK, Behind, Current, Ahead
  <2> QED
    BY <2>2, <2>3, <2>4 DEF FreshOK, ControlOK
<1>2. StartedOK'
  BY <1>1 DEF StartedOK
<1>3. BarrierOK' /\ JoinedOK' /\ DoneOK' /\ CompletedOK'
  BY DEF BarrierOK, JoinedOK, DoneOK, CompletedOK, Gathering, TestOver
<1> QED
  BY <1>1, <1>2, <1>3 DEF SyncInv

(* A step that changes neither a process nor a queue. *)
LEMMA NothingMoves ==
  ASSUME SyncInv, UNCHANGED <<leaderVars, peerVars, queueVars>> PROVE SyncInv'
<1>l. /\ lpc' = lpc /\ lk' = lk /\ ltest' = ltest /\ ready' = ready
      /\ completed' = completed /\ timedOut' = timedOut
      /\ ppc' = ppc /\ ptest' = ptest /\ control' = control
      /\ barrier' = barrier /\ done' = done
  BY DEF leaderVars, peerVars, queueVars
<1>1. \A p \in Peers : PlaceOK(p)' /\ FreshOK(p)' /\ ControlOK(p)'
  BY <1>l DEF SyncInv, PlaceOK, Behind, Current, Ahead, Removed, Fresh, FreshOK, ControlOK
<1>2. BarrierOK' /\ JoinedOK' /\ DoneOK' /\ CompletedOK'
  BY <1>l DEF SyncInv, BarrierOK, ReadyMsgOK, Joined, Settled, HasStop, JoinedOK, DoneOK,
     DoneMsgOK, Alive, CompletedOK
<1>3. StartedOK'
  BY <1>l DEF SyncInv, StartedOK, Started, Settled, HasStart, HasStop
<1> QED
  BY <1>1, <1>2, <1>3 DEF SyncInv

(* Every step of the experiment keeps leader and peers in step. *)
LEMMA SyncStep ==
  ASSUME TypeOK, ReportInv, ExitInv, SyncInv, [Next]_vars PROVE SyncInv'
<1>1. CASE LeaderStep
  BY <1>1, WaitSync, EndSync, SendSync, RemovalSync, NextTestSync DEF LeaderStep
<1>2. ASSUME NEW p \in Peers, PeerStep(p) \/ killPeer(p) PROVE SyncInv'
  BY <1>2, PeerSync
<1>k. ASSUME ppc' = [p \in Peers |-> IF Alive(p) THEN "killed" ELSE ppc[p]]
      PROVE  \A p \in Peers : ppc'[p] \in Exited
  BY <1>k DEF Alive, Exited
<1>r. ASSUME AllRemoved PROVE \A p \in Peers : control'[p].linked => control[p].linked
  <2>1. \A p \in Peers : control[p] \in Queues(Controls)
    BY DEF TypeOK
  <2> QED
    BY <1>r, <2>1, Names DEF AllRemoved
<1>3. CASE terminateChildren
  <2>1. lpc' = "exited"
    BY <1>3 DEF terminateChildren, leaderVars, ExitInv
  <2> QED
    BY <1>3, <1>k, <1>r, <2>1, AllExit DEF terminateChildren, leaderVars
<1>4. CASE leaderSucceeded
  BY <1>4, NothingMoves DEF leaderSucceeded
<1>5. CASE peersExited
  <2>1. lpc' = "exited" /\ UNCHANGED <<ppc, ptest, ltest>> /\ \A p \in Peers : ppc[p] \in Exited
    BY <1>5 DEF peersExited, leaderVars, peerVars, ExitInv, Alive
  <2>2. \A p \in Peers : control'[p].linked => control[p].linked
    BY <1>5, <1>r DEF peersExited, queueVars
  <2> QED
    BY <2>1, <2>2, AllExit
<1>6. CASE killLeader
  BY <1>6, LeaderExits DEF killLeader, peerVars, queueVars
<1>7. CASE interruptRun
  BY <1>7, <1>k, <1>r, AllExit DEF interruptRun
<1>8. CASE UNCHANGED vars
  BY <1>8, NothingMoves DEF vars
<1> QED
  BY <1>1, <1>2, <1>3, <1>4, <1>5, <1>6, <1>7, <1>8 DEF Next, LauncherStep, Ended

(* Leader and peers stay in step, for any number of peers and tests, with  *)
(* leftover queues, deadlines that pass at any time and any number of      *)
(* signals.                                                                *)
THEOREM SyncTheorem == Spec => []SyncInv
<1>1. ASSUME Init PROVE SyncInv
  <2>1. ASSUME NEW p \in Peers
        PROVE  PlaceOK(p) /\ FreshOK(p) /\ ControlOK(p) /\ ~Started(p)
    <3>1. /\ ppc[p] = "removeInbox" /\ ptest[p] = ltest /\ lpc = "createBarrier"
      BY <1>1 DEF Init
    <3>2. ~Removed(p)
      BY <3>1 DEF Removed
    <3> QED
      BY <3>1, <3>2 DEF PlaceOK, Current, HasQueue, FreshOK, Fresh, Rendezvous, ControlOK,
         InTest, Started
  <2>2. lpc = "createBarrier"
    BY <1>1 DEF Init
  <2>3. BarrierOK /\ JoinedOK /\ DoneOK /\ CompletedOK
    BY <2>2 DEF BarrierOK, JoinedOK, DoneOK, CompletedOK, Gathering, TestOver
  <2> QED
    BY <2>1, <2>3 DEF SyncInv, StartedOK
<1>2. Inv /\ SyncInv /\ [Next]_vars => SyncInv'
  BY SyncStep DEF Inv
<1> QED
  BY <1>1, <1>2, Invariance, PTL DEF Spec

(* While a peer executes rounds and the leader has not given the test up,  *)
(* every peer is in that test and past its rendezvous (waitForAllReady     *)
(* before sendAssignments and broadcastStart).                             *)
THEOREM StartBarrierTheorem == Spec => []StartBarrier
<1>1. SyncInv => StartBarrier
  BY DEF SyncInv, StartedOK, Started, Settled, StartBarrier
<1> QED
  BY <1>1, SyncTheorem, PTL

(* No message is attributed to another test than the one it was sent in,   *)
(* though the queue names are reused and the messages carry no test.       *)
THEOREM OneTestTheorem == Spec => []NoMessageOfAnotherTest
<1>1. TypeOK /\ SyncInv => NoMessageOfAnotherTest
  <2> SUFFICES ASSUME TypeOK, SyncInv PROVE NoMessageOfAnotherTest
    OBVIOUS
  <2>1. ASSUME NEW p \in Peers, ppc[p] \in InTest, NEW i \in 1 .. Len(control[p].msgs)
        PROVE  control[p].msgs[i].test = ptest[p]
    <3>1. control[p].msgs[i] \in In(control[p])
      BY DEF In
    <3> QED
      BY <2>1, <3>1 DEF SyncInv, ControlOK
  <2>2. ASSUME lpc = "waitReady", NEW i \in 1 .. Len(barrier.msgs)
        PROVE  barrier.msgs[i].test = ltest
    <3>1. barrier.msgs[i] \in In(barrier)
      BY DEF In
    <3> QED
      BY <2>2, <3>1 DEF SyncInv, BarrierOK, ReadyMsgOK
  <2>3. ASSUME lpc = "waitDone", NEW i \in 1 .. Len(done.msgs)
        PROVE  done.msgs[i].test = ltest
    <3>1. done.msgs[i] \in In(done)
      BY DEF In
    <3>2. done.msgs[i].from \in Peers
      <4>1. In(done) \subseteq Dones
        BY QueueMessages DEF TypeOK
      <4> QED
        BY <3>1, <4>1 DEF Dones
    <3>3. done.msgs[i].test = ptest[done.msgs[i].from]
      BY <2>3, <3>1 DEF SyncInv, DoneOK, DoneMsgOK, Gathering
    <3> QED
      BY <2>3, <3>2, <3>3 DEF SyncInv, JoinedOK, Joined
  <2> QED
    BY <2>1, <2>2, <2>3 DEF NoMessageOfAnotherTest
<1> QED
  BY <1>1, SyncTheorem, TypeCorrect, PTL
=============================================================================
