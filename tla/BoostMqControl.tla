---------------------------- MODULE BoostMqControl ----------------------------
(***************************************************************************)
(* One experiment of the BoostMQ backend: the launcher script starts one   *)
(* leader process and N peer processes, which run the tests of the         *)
(* experiment through the ready / assignment / start / done / stop         *)
(* protocol of ProcessCoordinatorMQ over named message queues.             *)
(*                                                                         *)
(* A queue is [linked, msgs]: whether its name exists, and the messages of *)
(* the object.  Removing a queue unlinks the name; a process that holds a  *)
(* handle keeps the object.  Every operation on one queue is one step, so  *)
(* the loops of the leader over the peers interleave with the peers.       *)
(*                                                                         *)
(* Messages carry the test they were sent in, which the code's do not: no  *)
(* action looks at that field.                                             *)
(***************************************************************************)
EXTENDS Naturals, Sequences, FiniteSets

CONSTANTS
  N,           \* "topology.initialPeers"
  Tests,       \* "tests"
  MayTimeOut,  \* TRUE: a deadline may pass at any moment;
               \* FALSE: only when what is awaited cannot come any more
  MaxCrashes,  \* bound: signals that kill a process or interrupt the launcher
  Stale        \* queues of an earlier, interrupted run may exist at the start

ASSUME BoostMqAssumption ==
  /\ N \in Nat \ {0}
  /\ Tests \in Nat \ {0}
  /\ MayTimeOut \in BOOLEAN
  /\ MaxCrashes \in Nat
  /\ Stale \in BOOLEAN

Peers == 0 .. N - 1

(* controlQueueCapacity is derived from the number of peers. *)
Capacity == N

VARIABLES
  lpc,        \* what the leader does next
  lk,         \* the loop index of the leader
  ltest,      \* testIndex of the leader
  ready,      \* uniqueReadyPeers of waitForAllReady
  completed,  \* completedPeers of waitForAllDone
  failed,     \* failedPeers of waitForAllDone
  timedOut,   \* experimentTimedOut
  report,     \* the "success" of each test in the report
  lexit,      \* exit status of the leader, "none" while it runs
  ppc,        \* what each peer does next
  ptest,      \* testIndex of each peer
  control,    \* the control queue of each peer
  data,       \* the data queue of each peer
  barrier,    \* mq_barrier
  done,       \* mq_done
  outputs,    \* <<p, t>>: peer p has written its output file of test t
  launcher,   \* what runBoostMq.sh does: "leader", "peers" or "ended"
  status,     \* its exit status, once it has ended
  crashes     \* signals from outside so far

leaderVars == <<lpc, lk, ltest, ready, completed, failed, timedOut, report, lexit>>
peerVars == <<ppc, ptest>>
queueVars == <<control, data, barrier, done>>
scriptVars == <<launcher, status>>
vars == <<leaderVars, peerVars, queueVars, outputs, scriptVars, crashes>>

NoQueue == [linked |-> FALSE, msgs |-> <<>>]
NewQueue == [linked |-> TRUE, msgs |-> <<>>]
Unlinked(q) == [q EXCEPT !.linked = FALSE]
With(q, m) == [q EXCEPT !.msgs = Append(@, m)]
Without(q) == [q EXCEPT !.msgs = Tail(@)]
CanSend(q) == q.linked /\ Len(q.msgs) < Capacity

Exited == {"exit0", "exit1", "killed"}
Alive(p) == ppc[p] \notin Exited

(* The queues before the launcher starts: none, or what an interrupted run *)
(* has left, with messages of that run in them.                            *)
Leftover(m) == {NoQueue} \cup (IF Stale THEN {With(NewQueue, m)} ELSE {})

Init ==
  /\ lpc = "createBarrier" /\ lk = 0 /\ ltest = 0
  /\ ready = {} /\ completed = {} /\ failed = {} /\ timedOut = FALSE
  /\ report = <<>> /\ lexit = "none"
  /\ ppc = [p \in Peers |-> "removeInbox"]
  /\ ptest = [p \in Peers |-> 0]
  /\ \E q \in Leftover([kind |-> "stop", test |-> Tests]) :
       control = [p \in Peers |-> q]
  /\ \E b \in BOOLEAN : data = [p \in Peers |-> b /\ Stale]
  /\ barrier \in Leftover([from |-> 0, test |-> Tests])
  /\ done \in Leftover([from |-> 0, ok |-> TRUE, test |-> Tests])
  /\ outputs = {}
  /\ launcher = "leader" /\ status = 0
  /\ crashes = 0
-----------------------------------------------------------------------------
(* The leader: ConcreteMqLeader.cpp and the leader side of the coordinator *)

(* Mutant of Recreated: an existing queue is opened. *)
Reopened(q) == [q EXCEPT !.linked = TRUE]

(* A queue is removed and created again under its name. *)
Recreated(q) == NewQueue

(* A new test: both shared queues are removed and created again.           *)
createBarrier ==
  /\ lpc = "createBarrier"
  /\ barrier' = Recreated(barrier)
  /\ done' = Recreated(done)
  /\ ready' = {} /\ completed' = {} /\ failed' = {}
  /\ lpc' = "waitReady"
  /\ UNCHANGED <<lk, ltest, timedOut, report, lexit, peerVars, control, data,
                 outputs, scriptVars, crashes>>

(* Mutant of AllOf: one peer fewer. *)
AllButOne(S) == Cardinality(S) >= N - 1

(* The sets of peers the two waiting loops collect are complete. *)
AllOf(S) == S = Peers

(* One iteration of waitForAllReady; a second ready of a peer changes      *)
(* nothing.                                                                *)
acceptReady ==
  /\ lpc = "waitReady"
  /\ barrier.msgs # <<>>
  /\ barrier' = Without(barrier)
  /\ ready' = ready \cup {Head(barrier.msgs).from}
  /\ IF AllOf(ready') THEN lpc' = "sendAssignment" /\ lk' = 0
                       ELSE UNCHANGED <<lpc, lk>>
  /\ UNCHANGED <<ltest, completed, failed, timedOut, report, lexit, peerVars,
                 control, data, done, outputs, scriptVars, crashes>>

(* A peer that has not reported and will not: it is gone, or it has sent   *)
(* its message to a queue that has been removed since.                     *)
NeverReady(p) ==
  /\ p \notin ready
  /\ ppc[p] \notin {"removeInbox", "createControl", "createData", "sendReady"}

(* Mutant of readyTimeout: the leader goes on waiting. *)
readyRetry ==
  /\ lpc = "waitReady"
  /\ barrier.msgs = <<>>
  /\ UNCHANGED vars

(* The deadline of waitForAllReady: handleReadinessTimeout.                *)
readyTimeout ==
  /\ lpc = "waitReady"
  /\ barrier.msgs = <<>>
  /\ MayTimeOut \/ \E p \in Peers : NeverReady(p)
  /\ timedOut' = TRUE
  /\ report' = Append(report, FALSE)
  /\ lpc' = "stopBestEffort" /\ lk' = 0
  /\ UNCHANGED <<ltest, ready, completed, failed, lexit, peerVars, queueVars,
                 outputs, scriptVars, crashes>>

(* The loops over the peers: the next peer, or next when all are served.   *)
NextPeer(next) ==
  IF lk + 1 < N THEN lk' = lk + 1 /\ UNCHANGED lpc
                ELSE lk' = 0 /\ lpc' = next

(* The loops of sendAssignments, broadcastStart and broadcastStop: what    *)
(* they send, and where they go when every peer is served.                 *)
Loops == {"sendAssignment", "sendStart", "sendStop"}

Kind(step) == CASE step = "sendAssignment" -> "assign"
                [] step = "sendStart" -> "start"
                [] step = "sendStop" -> "stop"

After(step) == CASE step = "sendAssignment" -> "sendStart"
                 [] step = "sendStart" -> "waitDone"
                 [] step = "sendStop" -> "evaluate"

(* One iteration of sendAssignments, broadcastStart or broadcastStop.      *)
sendControl(step) ==
  /\ lpc = step
  /\ CanSend(control[lk])
  /\ control' = [control EXCEPT ![lk] =
                   With(@, [kind |-> Kind(step), test |-> ltest])]
  /\ NextPeer(After(step))
  /\ UNCHANGED <<ltest, ready, completed, failed, timedOut, report, lexit,
                 peerVars, data, barrier, done, outputs, scriptVars, crashes>>

(* The control queue is missing, or it stays full until the deadline:      *)
(* handleControlSendFailure.                                               *)
sendControlFails(step) ==
  /\ lpc = step
  /\ \/ ~control[lk].linked
     \/ ~CanSend(control[lk]) /\ (MayTimeOut \/ ~Alive(lk))
  /\ timedOut' = TRUE
  /\ report' = Append(report, FALSE)
  /\ lpc' = "stopBestEffort" /\ lk' = 0
  /\ UNCHANGED <<ltest, ready, completed, failed, lexit, peerVars, queueVars,
                 outputs, scriptVars, crashes>>

(* One iteration of waitForAllDone: a second message of a peer is ignored, *)
(* a failure ends the wait, the last success broadcasts stop.              *)
acceptDone ==
  /\ lpc = "waitDone"
  /\ done.msgs # <<>>
  /\ done' = Without(done)
  /\ LET m == Head(done.msgs)
         new == m.from \notin completed \cup failed IN
       /\ completed' = IF new /\ m.ok THEN completed \cup {m.from} ELSE completed
       /\ failed' = IF new /\ ~m.ok THEN failed \cup {m.from} ELSE failed
  /\ lpc' = CASE failed' # {} -> "evaluate"
              [] failed' = {} /\ AllOf(completed') -> "sendStop"
              [] OTHER -> "waitDone"
  /\ UNCHANGED <<lk, ltest, ready, timedOut, report, lexit, peerVars, control,
                 data, barrier, outputs, scriptVars, crashes>>

NeverDone(p) ==
  /\ p \notin completed
  /\ ~Alive(p)

(* The deadline of waitForAllDone. *)
doneTimeout ==
  /\ lpc = "waitDone"
  /\ done.msgs = <<>>
  /\ MayTimeOut \/ \E p \in Peers : NeverDone(p)
  /\ lpc' = "evaluate"
  /\ UNCHANGED <<lk, ltest, ready, completed, failed, timedOut, report, lexit,
                 peerVars, queueVars, outputs, scriptVars, crashes>>

(* Mutant of Success: missing peers are not looked for. *)
SuccessIgnoresMissing ==
  failed = {} /\ \A p \in completed : <<p, ltest>> \in outputs

(* The status of the test: every peer completed, none failed, and every    *)
(* reporting peer's output could be read.                                  *)
Success ==
  /\ failed = {}
  /\ completed = Peers
  /\ \A p \in completed \cup failed : <<p, ltest>> \in outputs

(* The rest of the iteration of the test loop, up to cleanUp.              *)
evaluate ==
  /\ lpc = "evaluate"
  /\ report' = Append(report, Success)
  /\ timedOut' = ~Success
  /\ lpc' = IF Success THEN "removeBarrier" ELSE "stopBestEffort"
  /\ lk' = 0
  /\ UNCHANGED <<ltest, ready, completed, failed, lexit, peerVars, queueVars,
                 outputs, scriptVars, crashes>>

(* One iteration of broadcastStopBestEffort: a missing or full queue is    *)
(* skipped.                                                                *)
stopBestEffort ==
  /\ lpc = "stopBestEffort"
  /\ control' = IF CanSend(control[lk])
                THEN [control EXCEPT ![lk] = With(@, [kind |-> "stop", test |-> ltest])]
                ELSE control
  /\ NextPeer("removeBarrier")
  /\ UNCHANGED <<ltest, ready, completed, failed, timedOut, report, lexit,
                 peerVars, data, barrier, done, outputs, scriptVars, crashes>>

(* cleanUp, one queue after the other. *)
removeBarrier ==
  /\ lpc = "removeBarrier"
  /\ barrier' = Unlinked(barrier)
  /\ lpc' = "removeDone"
  /\ UNCHANGED <<lk, ltest, ready, completed, failed, timedOut, report, lexit,
                 peerVars, control, data, done, outputs, scriptVars, crashes>>

removeDone ==
  /\ lpc = "removeDone"
  /\ done' = Unlinked(done)
  /\ lpc' = "removeControl" /\ lk' = 0
  /\ UNCHANGED <<ltest, ready, completed, failed, timedOut, report, lexit,
                 peerVars, control, data, barrier, outputs, scriptVars, crashes>>

removeControl ==
  /\ lpc = "removeControl"
  /\ control' = [control EXCEPT ![lk] = Unlinked(@)]
  /\ lpc' = "removeData"
  /\ UNCHANGED <<lk, ltest, ready, completed, failed, timedOut, report, lexit,
                 peerVars, data, barrier, done, outputs, scriptVars, crashes>>

removeData ==
  /\ lpc = "removeData"
  /\ data' = [data EXCEPT ![lk] = FALSE]
  /\ IF lk + 1 < N THEN lk' = lk + 1 /\ lpc' = "removeControl"
                   ELSE lk' = 0 /\ lpc' = "endTest"
  /\ UNCHANGED <<ltest, ready, completed, failed, timedOut, report, lexit,
                 peerVars, control, barrier, done, outputs, scriptVars, crashes>>

(* A failed test ends the experiment; after the last test the report is    *)
(* written and the leader returns.                                         *)
endTest ==
  /\ lpc = "endTest"
  /\ IF ~timedOut /\ ltest + 1 < Tests
     THEN ltest' = ltest + 1 /\ lpc' = "createBarrier" /\ UNCHANGED lexit
     ELSE /\ lpc' = "exited"
          /\ lexit' = IF timedOut THEN "1" ELSE "0"
          /\ UNCHANGED ltest
  /\ UNCHANGED <<lk, ready, completed, failed, timedOut, report, peerVars,
                 queueVars, outputs, scriptVars, crashes>>

LeaderStep ==
  \/ createBarrier \/ acceptReady \/ readyTimeout
  \/ \E step \in Loops : sendControl(step) \/ sendControlFails(step)
  \/ acceptDone \/ doneTimeout \/ evaluate \/ stopBestEffort
  \/ removeBarrier \/ removeDone \/ removeControl \/ removeData \/ endTest
-----------------------------------------------------------------------------
(* A peer: ConcreteMqPeer.cpp and the peer side of the coordinator         *)

Goto(p, pc) == ppc' = [ppc EXCEPT ![p] = pc]

(* createInbox: both old names are removed, then both queues are created.  *)
removeInbox(p) ==
  /\ ppc[p] = "removeInbox"
  /\ control' = [control EXCEPT ![p] = NoQueue]
  /\ data' = [data EXCEPT ![p] = FALSE]
  /\ Goto(p, "createControl")
  /\ UNCHANGED <<leaderVars, ptest, barrier, done, outputs, scriptVars, crashes>>

createControl(p) ==
  /\ ppc[p] = "createControl"
  /\ control' = [control EXCEPT ![p] = NewQueue]
  /\ Goto(p, "createData")
  /\ UNCHANGED <<leaderVars, ptest, data, barrier, done, outputs, scriptVars,
                 crashes>>

createData(p) ==
  /\ ppc[p] = "createData"
  /\ data' = [data EXCEPT ![p] = TRUE]
  /\ Goto(p, "sendReady")
  /\ UNCHANGED <<leaderVars, ptest, control, barrier, done, outputs, scriptVars,
                 crashes>>

(* sendReady succeeds in one of its attempts, or gives up. *)
sendReady(p) ==
  /\ ppc[p] = "sendReady"
  /\ CanSend(barrier)
  /\ barrier' = With(barrier, [from |-> p, test |-> ptest[p]])
  /\ Goto(p, "waitAssignment")
  /\ UNCHANGED <<leaderVars, ptest, control, data, done, outputs, scriptVars,
                 crashes>>

GivesUp(q) == ~CanSend(q) /\ (MayTimeOut \/ lexit # "none")

sendReadyFails(p) ==
  /\ ppc[p] = "sendReady"
  /\ GivesUp(barrier)
  /\ Goto(p, "failing")
  /\ UNCHANGED <<leaderVars, ptest, queueVars, outputs, scriptVars, crashes>>

(* waitForAssignments and prepareLocalPeers: anything but an assignment    *)
(* cannot be decoded, and the data queue is opened by its name.            *)
waitAssignment(p) ==
  /\ ppc[p] = "waitAssignment"
  /\ control[p].msgs # <<>>
  /\ control' = [control EXCEPT ![p] = Without(@)]
  /\ Goto(p, IF Head(control[p].msgs).kind = "assign" /\ data[p]
             THEN "waitStart" ELSE "failing")
  /\ UNCHANGED <<leaderVars, ptest, data, barrier, done, outputs, scriptVars,
                 crashes>>

waitStart(p) ==
  /\ ppc[p] = "waitStart"
  /\ control[p].msgs # <<>>
  /\ control' = [control EXCEPT ![p] = Without(@)]
  /\ Goto(p, IF Head(control[p].msgs).kind = "start" THEN "run" ELSE "failing")
  /\ UNCHANGED <<leaderVars, ptest, data, barrier, done, outputs, scriptVars,
                 crashes>>

(* runRounds and emitFinalExperimentMetrics: the rounds are over, or a     *)
(* send throws because the queue of another peer is missing or stays full. *)
(* The output file is written in both cases.                               *)
run(p) ==
  /\ ppc[p] = "run"
  /\ outputs' = outputs \cup {<<p, ptest[p]>>}
  /\ \/ Goto(p, "sendDone")
     \/ /\ MayTimeOut \/ \E o \in Peers \ {p} : ~data[o]
        /\ Goto(p, "failing")
  /\ UNCHANGED <<leaderVars, ptest, queueVars, scriptVars, crashes>>

(* notifyPeerStopped *)
sendDone(p) ==
  /\ ppc[p] = "sendDone"
  /\ CanSend(done)
  /\ done' = With(done, [from |-> p, ok |-> TRUE, test |-> ptest[p]])
  /\ Goto(p, "waitStop")
  /\ UNCHANGED <<leaderVars, ptest, control, data, barrier, outputs, scriptVars,
                 crashes>>

sendDoneFails(p) ==
  /\ ppc[p] = "sendDone"
  /\ GivesUp(done)
  /\ Goto(p, "failing")
  /\ UNCHANGED <<leaderVars, ptest, queueVars, outputs, scriptVars, crashes>>

(* waitForStop: only a stop message counts. *)
waitStop(p) ==
  /\ ppc[p] = "waitStop"
  /\ control[p].msgs # <<>>
  /\ control' = [control EXCEPT ![p] = Without(@)]
  /\ Goto(p, IF Head(control[p].msgs).kind = "stop" THEN "waitRemoval"
                                                    ELSE "waitStop")
  /\ UNCHANGED <<leaderVars, ptest, data, barrier, done, outputs, scriptVars,
                 crashes>>

(* waitForQueueRemoval sees the control queue gone: the next test starts.  *)
waitRemoval(p) ==
  /\ ppc[p] = "waitRemoval"
  /\ ~control[p].linked
  /\ IF ptest[p] + 1 < Tests
     THEN ptest' = [ptest EXCEPT ![p] = @ + 1] /\ Goto(p, "removeInbox")
     ELSE Goto(p, "exit0") /\ UNCHANGED ptest
  /\ data' = [data EXCEPT ![p] = @ /\ ptest[p] + 1 < Tests]
  /\ UNCHANGED <<leaderVars, control, barrier, done, outputs, scriptVars, crashes>>

removalTimeout(p) ==
  /\ ppc[p] = "waitRemoval"
  /\ control[p].linked
  /\ MayTimeOut
  /\ Goto(p, "failing")
  /\ UNCHANGED <<leaderVars, ptest, queueVars, outputs, scriptVars, crashes>>

(* The outer catch block: notifyPeerFailed, which may give up, and cleanUp *)
(* of the peer's own queues.                                               *)
fail(p) ==
  /\ ppc[p] = "failing"
  /\ \/ /\ CanSend(done)
        /\ done' = With(done, [from |-> p, ok |-> FALSE, test |-> ptest[p]])
     \/ ~CanSend(done) /\ UNCHANGED done
  /\ control' = [control EXCEPT ![p] = Unlinked(@)]
  /\ data' = [data EXCEPT ![p] = FALSE]
  /\ Goto(p, "exit1")
  /\ UNCHANGED <<leaderVars, ptest, barrier, outputs, scriptVars, crashes>>

PeerStep(p) ==
  \/ removeInbox(p) \/ createControl(p) \/ createData(p)
  \/ sendReady(p) \/ sendReadyFails(p)
  \/ waitAssignment(p) \/ waitStart(p) \/ run(p)
  \/ sendDone(p) \/ sendDoneFails(p)
  \/ waitStop(p) \/ waitRemoval(p) \/ removalTimeout(p) \/ fail(p)
-----------------------------------------------------------------------------
(* The launcher: runBoostMq.sh                                             *)

(* Mutant of AllRemoved: the data queues are forgotten. *)
ControlRemoved ==
  /\ control' = [p \in Peers |-> Unlinked(control[p])]
  /\ barrier' = Unlinked(barrier)
  /\ done' = Unlinked(done)
  /\ UNCHANGED data

(* remove_resources *)
AllRemoved ==
  /\ control' = [p \in Peers |-> Unlinked(control[p])]
  /\ data' = [p \in Peers |-> FALSE]
  /\ barrier' = Unlinked(barrier)
  /\ done' = Unlinked(done)

(* The leader has failed: the peers are killed and the resources removed.  *)
terminateChildren ==
  /\ launcher = "leader"
  /\ lexit \in {"1", "killed"}
  /\ ppc' = [p \in Peers |-> IF Alive(p) THEN "killed" ELSE ppc[p]]
  /\ AllRemoved
  /\ launcher' = "ended" /\ status' = 1
  /\ UNCHANGED <<leaderVars, ptest, outputs, crashes>>

leaderSucceeded ==
  /\ launcher = "leader"
  /\ lexit = "0"
  /\ launcher' = "peers"
  /\ UNCHANGED <<leaderVars, peerVars, queueVars, outputs, status, crashes>>

(* Mutant of PeerFailed: the last status overwrites the others. *)
LastPeerFailed == ppc[N - 1] # "exit0"

(* overall_status after the loop over the peers *)
PeerFailed == \E p \in Peers : ppc[p] # "exit0"

(* Every peer has been waited for. *)
peersExited ==
  /\ launcher = "peers"
  /\ \A p \in Peers : ~Alive(p)
  /\ launcher' = "ended"
  /\ IF PeerFailed
     THEN AllRemoved /\ status' = 1
     ELSE UNCHANGED <<queueVars, status>>
  /\ UNCHANGED <<leaderVars, peerVars, outputs, crashes>>

LauncherStep == terminateChildren \/ leaderSucceeded \/ peersExited

(* interrupt_run: a signal to the script ends every process.               *)
interruptRun ==
  /\ crashes < MaxCrashes
  /\ launcher # "ended"
  /\ crashes' = crashes + 1
  /\ ppc' = [p \in Peers |-> IF Alive(p) THEN "killed" ELSE ppc[p]]
  /\ lpc' = "exited" /\ lexit' = IF lexit = "none" THEN "killed" ELSE lexit
  /\ AllRemoved
  /\ launcher' = "ended" /\ status' = 130
  /\ UNCHANGED <<lk, ltest, ready, completed, failed, timedOut, report, ptest,
                 outputs>>

(* A process is killed from outside; its queues stay. *)
killPeer(p) ==
  /\ crashes < MaxCrashes
  /\ Alive(p)
  /\ crashes' = crashes + 1
  /\ Goto(p, "killed")
  /\ UNCHANGED <<leaderVars, ptest, queueVars, outputs, scriptVars>>

killLeader ==
  /\ crashes < MaxCrashes
  /\ lexit = "none"
  /\ crashes' = crashes + 1
  /\ lpc' = "exited" /\ lexit' = "killed"
  /\ UNCHANGED <<lk, ltest, ready, completed, failed, timedOut, report, peerVars,
                 queueVars, outputs, scriptVars>>

Ended == launcher = "ended" /\ UNCHANGED vars

Next ==
  \/ LeaderStep
  \/ \E p \in Peers : PeerStep(p) \/ killPeer(p)
  \/ LauncherStep
  \/ killLeader
  \/ interruptRun
  \/ Ended

Spec == Init /\ [][Next]_vars

(* Every process that can take a step is scheduled. *)
FairSpec ==
  /\ Spec
  /\ WF_vars(LeaderStep)
  /\ \A p \in Peers : WF_vars(PeerStep(p))
  /\ WF_vars(LauncherStep)
-----------------------------------------------------------------------------
LeaderSteps ==
  {"createBarrier", "waitReady", "waitDone", "evaluate", "stopBestEffort",
   "removeBarrier", "removeDone", "removeControl", "removeData", "endTest",
   "exited"} \cup Loops

Rendezvous == {"removeInbox", "createControl", "createData", "sendReady"}
InTest == {"waitAssignment", "waitStart", "run", "sendDone", "waitStop"}
PeerSteps == Rendezvous \cup InTest \cup {"waitRemoval", "failing"} \cup Exited

Queues(M) == [linked : BOOLEAN, msgs : Seq(M)]
Controls == [kind : {"assign", "start", "stop"}, test : 0 .. Tests]
Readies == [from : Peers, test : 0 .. Tests]
Dones == [from : Peers, ok : BOOLEAN, test : 0 .. Tests]

(* The processes and their queues have the shape the code gives them.      *)
TypeOK ==
  /\ lpc \in LeaderSteps
  /\ lk \in Peers
  /\ ltest \in 0 .. Tests - 1
  /\ ready \in SUBSET Peers
  /\ completed \in SUBSET Peers
  /\ failed \in SUBSET Peers
  /\ timedOut \in BOOLEAN
  /\ report \in Seq(BOOLEAN)
  /\ lexit \in {"none", "0", "1", "killed"}
  /\ ppc \in [Peers -> PeerSteps]
  /\ ptest \in [Peers -> 0 .. Tests - 1]
  /\ control \in [Peers -> Queues(Controls)]
  /\ data \in [Peers -> BOOLEAN]
  /\ barrier \in Queues(Readies)
  /\ done \in Queues(Dones)
  /\ outputs \in SUBSET (Peers \X (0 .. Tests - 1))
  /\ launcher \in {"leader", "peers", "ended"}
  /\ status \in {0, 1, 130}
  /\ crashes \in Nat

(* While any peer executes rounds of a test, every peer is in that test    *)
(* and past its rendezvous: nobody runs ahead of the start barrier, with   *)
(* queues of an earlier run, late messages and crashes (waitForAllReady    *)
(* before sendAssignments and broadcastStart).  Only once the leader has   *)
(* given the test up may a peer it stopped go on to the next rendezvous.   *)
StartBarrier ==
  \A p, o \in Peers :
    ppc[p] \in {"run", "sendDone"} /\ ~timedOut =>
      ptest[o] = ptest[p] /\ ppc[o] \notin Rendezvous

(* The names of the queues are reused by every test and every run, and the *)
(* messages carry no test number: still, a peer inside a test never finds  *)
(* a control message of another test, and the leader attributes readiness  *)
(* and completion to the test they happened in.                            *)
NoMessageOfAnotherTest ==
  /\ \A p \in Peers : ppc[p] \in InTest =>
       \A i \in 1 .. Len(control[p].msgs) : control[p].msgs[i].test = ptest[p]
  /\ lpc = "waitReady" =>
       \A i \in 1 .. Len(barrier.msgs) : barrier.msgs[i].test = ltest
  /\ lpc = "waitDone" =>
       \A i \in 1 .. Len(done.msgs) : done.msgs[i].test = ltest

(* BoostMq/README.md: "success: true means every expected peer became      *)
(* ready, completed every test, and wrote its required output file"; "If a *)
(* test fails, the experiment stops".                                      *)
SuccessIsComplete ==
  \A t \in 1 .. Len(report) :
    IF report[t] THEN \A p \in Peers : <<p, t - 1>> \in outputs
                 ELSE t = Len(report)

(* The exit status of the launcher and the report agree: status 0 only     *)
(* after every test was reported successful and every peer exited with 0.  *)
ExitStatus ==
  launcher = "ended" /\ status = 0 =>
    /\ report = [t \in 1 .. Tests |-> TRUE]
    /\ \A p \in Peers : ppc[p] = "exit0"

(* When the launcher has returned, no process of the experiment runs and   *)
(* no queue of it is left under its name, whichever process was killed and *)
(* wherever it was: the next experiment starts clean.                      *)
CleanShutdown ==
  launcher = "ended" =>
    /\ lexit # "none"
    /\ \A p \in Peers : ~Alive(p) /\ ~control[p].linked /\ ~data[p]
    /\ ~barrier.linked /\ ~done.linked

(* Every experiment ends, whatever is killed: nobody waits for a message   *)
(* that cannot come, or the launcher ends the process that does.           *)
ExperimentEnds == <>(launcher = "ended")

(* BoostMq/README.md: "each test also starts with fresh peer objects,      *)
(* transport counters, completion tracking, and control/data queues": a    *)
(* peer that has created its queues for a test has them until it is over.  *)
TestHasItsQueues ==
  \A p \in Peers :
    ppc[p] \in {"waitAssignment", "waitStart", "run"} => control[p].linked /\ data[p]
=============================================================================
