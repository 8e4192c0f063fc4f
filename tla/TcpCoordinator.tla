---------------------------- MODULE TcpCoordinator ----------------------------
(***************************************************************************)
(* The TCP backend: one leader and several followers, each hosting some of *)
(* the peers, run a list of experiments together.  Every process has a     *)
(* main thread (main of concreteSimulation) and one thread per inbound     *)
(* connection, which calls processMessage under _configurationMutex; the   *)
(* leader also has the thread of startStopTimer.  configureProcess takes   *)
(* the same mutex; markReady, notifyPeerStopped and cleanupExperiment do   *)
(* not.                                                                    *)
(*                                                                         *)
(* proc[p] is the coordinator of process p, lead the fields only the       *)
(* leader uses, chan[p, q] the connection from p to q: TCP keeps the order *)
(* of one connection, and nothing more.  sendJson gives up after 25        *)
(* attempts when nobody listens (Expire).  Neighbours, ports, logging and  *)
(* the bytes on the wire are left out.                                     *)
(*                                                                         *)
(* broadcastStartIfReady is called by the main thread of the leader and by *)
(* its handlers, and the two calls overlap: _processMutex is held for the  *)
(* gate only.  Its test, each record of its loop, the exchange of          *)
(* _stopTimerActive and the creation of the timer thread are steps, and    *)
(* lead.starters[t] says where thread t is.  Handlers exclude each other   *)
(* by _configurationMutex, so that one place is enough for them.           *)
(***************************************************************************)
EXTENDS Integers, Sequences, SequencesExt, FiniteSets

CONSTANT
  Scenarios  \* what the configuration files of the processes say

ASSUME TcpAssumption ==
  /\ Scenarios \subseteq
       [requested : Seq(Nat \ {0}),  \* peersPerProcess; the leader is the first
        total : Nat \ {0},           \* initialPeers
        experiments : Nat,
        time : BOOLEAN,              \* the stop condition: time or peerSignals
        messages : Nat,              \* bound: messages a process sends in an experiment
        restarts : Nat]              \* bound: restarts of followers
  /\ \A sc \in Scenarios : sc.requested # <<>>

VARIABLES
  scenario,
  proc,
  lead,
  chan,
  hist   \* what happened, for the properties

vars == <<scenario, proc, lead, chan, hist>>

Leader == 1
Procs == DOMAIN scenario.requested
Ids == 0 .. scenario.total - 1

(* The threads of the leader that may be inside broadcastStartIfReady      *)
Starters == {"main", "handler"}
Outside == [at |-> "none", left |-> <<>>]

(* A process before its first configureProcess; experiments count from 1,  *)
(* so exp = 0 is no experiment.                                            *)
Fresh ==
  [exp |-> 0, phase |-> "idle", up |-> FALSE, assignmentsReady |-> FALSE,
   start |-> FALSE, stop |-> FALSE, local |-> {}, allPeers |-> {},
   ranges |-> <<>>, interfaces |-> {}, inbound |-> {}, sent |-> 0]

Init ==
  /\ scenario \in Scenarios
  /\ proc = [p \in Procs |-> Fresh]
  /\ lead = [order |-> <<>>, assigned |-> [p \in Procs |-> {}], ready |-> {},
             completed |-> {}, starters |-> [t \in Starters |-> Outside],
             active |-> FALSE, timer |-> "off", timerExp |-> 0, stopping |-> {}]
  /\ chan = [c \in Procs \X Procs |-> <<>>]
  /\ hist = [missed |-> {}, finished |-> {}, elapsed |-> {}, restarted |-> {},
             surplus |-> {}, late |-> {}, cut |-> FALSE]

(***************************************************************************)
(* Messages.                                                               *)
(***************************************************************************)
Msg(t, p) == [type |-> t, exp |-> proc[p].exp]

(* sendJson of M[q] to each process q of S; nobody reads what goes to one  *)
(* that has shut down.                                                     *)
sendEach(ch, p, S, M) ==
  [c \in DOMAIN ch |->
     IF c[1] = p /\ c[2] \in S /\ proc[c[2]].phase # "exited"
     THEN Append(ch[c], M[c[2]]) ELSE ch[c]]

sendJson(ch, p, S, m) == sendEach(ch, p, S, [q \in S |-> m])

(***************************************************************************)
(* Registration and assignment.                                            *)
(***************************************************************************)
(* nextId after the first i processes of the order *)
nextId(order) ==
  LET next[i \in 0 .. Len(order)] ==
        IF i = 0 THEN 0 ELSE next[i - 1] + scenario.requested[order[i]]
  IN  next

Requested(order) == nextId(order)[Len(order)]

(* Mutant of Assigned: the process that registered last is served first. *)
AssignedBackwards(order, p) ==
  { id \in Ids : \E i \in 1 .. Len(order) :
      /\ order[i] = p
      /\ LET first == Requested(SubSeq(order, i + 1, Len(order))) IN
         first <= id /\ id < first + scenario.requested[p] }

(* The ids of p: consecutive ones in the order of registration, until all  *)
(* are taken.                                                              *)
Assigned(order, p) ==
  { id \in Ids : \E i \in 1 .. Len(order) :
      order[i] = p /\ nextId(order)[i - 1] <= id /\ id < nextId(order)[i] }

(* Who hosts each peer *)
peerRanges(order) ==
  [id \in Ids |-> CHOOSE q \in ToSet(order) : id \in Assigned(order, q)]

(* The assignment of p in experiment e *)
Assignment(order, p, e) ==
  [type |-> "assignment", exp |-> e,
   peers |-> Assigned(order, p), ranges |-> peerRanges(order)]

(* handleAssignment: _allPeers keeps the local peers only. *)
handleAssignment(s, m) ==
  [s EXCEPT !.local = m.peers, !.allPeers = m.peers, !.ranges = m.ranges,
            !.assignmentsReady = TRUE]

(* distributeAssignmentsIfReady: every registered process gets its ids,    *)
(* one that came too late none; s, l and ch are the leader's coordinator,  *)
(* its records and the connections.                                        *)
distributeAssignmentsIfReady(s, l, ch) ==
  IF Requested(l.order) < scenario.total
  THEN [s |-> s, l |-> l, ch |-> ch]
  ELSE [s |-> handleAssignment(s, Assignment(l.order, Leader, s.exp)),
        l |-> [l EXCEPT !.assigned = [p \in Procs |-> Assigned(l.order, p)]],
        ch |-> sendEach(ch, Leader, ToSet(l.order) \ {Leader},
                        [q \in Procs |-> Assignment(l.order, q, s.exp)])]

(* handleRegister: a process that is known already keeps its place, its    *)
(* ids and its ready mark.                                                 *)
handleRegister(q, ch) ==
  LET s == proc[Leader]
      known == q \in ToSet(lead.order)
      canResend == /\ ~s.start
                   /\ Cardinality(s.allPeers) >= scenario.total
                   /\ lead.assigned[q] # {} IN
  IF known /\ canResend
  THEN [s |-> s, l |-> lead,
        ch |-> sendJson(ch, Leader, {q}, Assignment(lead.order, q, s.exp))]
  ELSE distributeAssignmentsIfReady(
         s, IF known THEN lead ELSE [lead EXCEPT !.order = Append(@, q)], ch)

(***************************************************************************)
(* Start and stop.                                                         *)
(***************************************************************************)
(* Mutant of mayStart: those that have ids are not waited for. *)
mayStartEarly(l) == l.ready # {} /\ Requested(l.order) >= scenario.total

(* Mutant of mayStart: one peer more than needed must be requested. *)
mayStartStrict(l) ==
  /\ ToSet(l.order) \subseteq l.ready
  /\ Requested(l.order) > scenario.total

(* The gate of broadcastStartIfReady *)
mayStart(l) ==
  /\ ToSet(l.order) \subseteq l.ready
  /\ Requested(l.order) >= scenario.total

(* The gate of broadcastStartIfReady: the records are copied under         *)
(* _processMutex.                                                          *)
TestGate(t) ==
  /\ lead.starters[t].at = "gate"
  /\ lead' = [lead EXCEPT !.starters[t] =
                IF mayStart(lead) THEN [at |-> "loop", left |-> lead.order] ELSE Outside]
  /\ UNCHANGED <<scenario, proc, chan, hist>>

(* The loop of broadcastStartIfReady: handleStart for the own record,      *)
(* sendJson for any other.                                                 *)
BroadcastStart(t) ==
  /\ lead.starters[t].at = "loop" /\ lead.starters[t].left # <<>>
  /\ LET q == Head(lead.starters[t].left) IN
     IF q = Leader
     THEN proc' = [proc EXCEPT ![Leader].start = TRUE] /\ UNCHANGED chan
     ELSE chan' = sendJson(chan, Leader, {q}, Msg("start", Leader)) /\ UNCHANGED proc
  /\ lead' = [lead EXCEPT !.starters[t].left = Tail(@)]
  /\ UNCHANGED <<scenario, hist>>

(* _stopTimerActive.exchange(true): one thread goes on to start the timer. *)
ExchangeTimer(t) ==
  /\ lead.starters[t].at = "loop" /\ lead.starters[t].left = <<>>
  /\ lead' = IF scenario.time /\ ~lead.active
             THEN [lead EXCEPT !.active = TRUE, !.starters[t].at = "timer"]
             ELSE [lead EXCEPT !.starters[t] = Outside]
  /\ UNCHANGED <<scenario, proc, chan, hist>>

(* The leader is gone: what was on its way to it is not read, and what its *)
(* threads had begun is cut off.  The timer thread is gone too, unless the *)
(* process waits for it.                                                   *)
Exited(s) == [s EXCEPT !.phase = "exited", !.up = FALSE]
threadsCut(l) ==
  [l EXCEPT !.stopping = @ \cap {"timer"}, !.starters = [t \in Starters |-> Outside]]
connectionsClosed(p) == [c \in DOMAIN chan |-> IF c[2] = p THEN <<>> ELSE chan[c]]

(* _stopTimerThread = std::thread(...): to assign to a thread that was not *)
(* joined ends the process (std::terminate).  When cleanupExperiment has   *)
(* looked for the thread already, nobody joins the new one before the end  *)
(* of the next experiment.                                                 *)
LaunchTimer(t) ==
  /\ lead.starters[t].at = "timer"
  /\ IF lead.timer = "off"
     THEN /\ lead' = [lead EXCEPT !.timer = "sleeping", !.timerExp = proc[Leader].exp,
                                  !.starters[t] = Outside]
          /\ hist' = IF proc[Leader].phase = "idle"
                     THEN [hist EXCEPT !.late = @ \cup {proc[Leader].exp}] ELSE hist
          /\ UNCHANGED <<proc, chan>>
     ELSE /\ proc' = [proc EXCEPT ![Leader] = Exited(@)]
          /\ lead' = [threadsCut(lead) EXCEPT !.timer = "off", !.stopping = {}]
          /\ chan' = connectionsClosed(Leader)
          /\ hist' = [hist EXCEPT !.cut = TRUE]
  /\ UNCHANGED scenario

(* The first step of broadcastStop by thread t: only one gets past the     *)
(* exchange of _stopSignal.                                                *)
beginStop(s, l, t) ==
  [s |-> [s EXCEPT !.stop = TRUE],
   l |-> IF s.stop THEN l ELSE [l EXCEPT !.stopping = @ \cup {t}]]

(* handlePeerDone, and notifyPeerStopped of the leader: t tells them apart *)
peerDone(id, t) ==
  LET s == proc[Leader]
      l == [lead EXCEPT !.completed = @ \cup {id}] IN
  IF Cardinality(l.completed) >= scenario.total THEN beginStop(s, l, t)
  ELSE [s |-> s, l |-> l]

(* The rest of broadcastStop. *)
BroadcastStop ==
  \E t \in lead.stopping :
    /\ proc' = [proc EXCEPT ![Leader].stop = TRUE]
    /\ lead' = [lead EXCEPT !.stopping = @ \ {t}]
    /\ chan' = sendJson(chan, Leader, ToSet(lead.order) \ {Leader}, Msg("stop", Leader))
    /\ UNCHANGED <<scenario, hist>>

(* startStopTimer, once the configured time has passed; the thread keeps   *)
(* no experiment, timerExp is the one it was started in.                   *)
TimerExpires ==
  /\ lead.timer = "sleeping"
  /\ LET r == beginStop(proc[Leader], [lead EXCEPT !.timer = "ended"], "timer") IN
     /\ proc' = [proc EXCEPT ![Leader] = r.s]
     /\ lead' = r.l
  /\ hist' = [hist EXCEPT !.elapsed = @ \cup {lead.timerExp}]
  /\ UNCHANGED <<scenario, chan>>

(***************************************************************************)
(* processMessage.                                                         *)
(***************************************************************************)
(* Mutant of Current: the experiment of a message is not looked at. *)
AlwaysCurrent(p, m) == m.exp > 0

(* Messages of another experiment are dropped, those of the next included. *)
Current(p, m) == m.exp = proc[p].exp

(* What the handler of m leaves when it arrives at a follower p *)
followerHandles(s, m) ==
  CASE m.type = "assignment" -> handleAssignment(s, m)
    [] m.type = "start" -> [s EXCEPT !.start = TRUE]
    [] m.type = "stop" -> [s EXCEPT !.stop = TRUE]
    [] m.type = "message" /\ m.to \in s.interfaces -> [s EXCEPT !.inbound = @ \cup {m}]
    [] OTHER -> s

Same(r, ch) == [s |-> r.s, l |-> r.l, ch |-> ch]

(* What the handler of m from q leaves at the leader *)
leaderHandles(q, m, ch) ==
  LET s == proc[Leader] IN
  CASE m.type = "register" -> handleRegister(q, ch)
    [] m.type = "ready" ->
         [s |-> s, ch |-> ch,
          l |-> [lead EXCEPT !.ready = @ \cup ({q} \cap ToSet(lead.order)),
                             !.starters["handler"].at = "gate"]]
    [] m.type = "peerDone" -> Same(peerDone(m.id, "handler"), ch)
    [] OTHER -> [s |-> followerHandles(s, m), l |-> lead, ch |-> ch]

(* No handler of the leader holds _configurationMutex: one that broadcasts *)
(* a start or a stop keeps it until all is sent.                           *)
mutexFree == "handler" \notin lead.stopping /\ lead.starters["handler"].at = "none"

(* The thread of the connection from q to p reads the next message. *)
ProcessMessage(q, p) ==
  /\ chan[q, p] # <<>>
  /\ proc[p].up
  /\ p = Leader => mutexFree
  /\ LET m == Head(chan[q, p])
         ch == [chan EXCEPT ![<<q, p>>] = Tail(@)]
         r == IF p = Leader THEN leaderHandles(q, m, ch)
              ELSE [s |-> followerHandles(proc[p], m), l |-> lead, ch |-> ch] IN
     IF Current(p, m)
     THEN /\ proc' = [proc EXCEPT ![p] = r.s]
          /\ lead' = r.l
          /\ chan' = r.ch
          /\ UNCHANGED hist
     ELSE /\ chan' = ch
          /\ hist' = IF m.type = "register"
                     THEN [hist EXCEPT !.missed = @ \cup {<<q, m.exp>>}] ELSE hist
          /\ UNCHANGED <<proc, lead>>
  /\ UNCHANGED scenario

(* sendJson uses up its attempts before p listens: the message is lost and *)
(* the sender does not know.                                               *)
Expire(q, p) ==
  /\ chan[q, p] # <<>>
  /\ ~proc[p].up
  /\ chan' = [chan EXCEPT ![<<q, p>>] = Tail(@)]
  /\ hist' = [hist EXCEPT !.missed = @ \cup {<<q, Head(chan[q, p]).exp>>}]
  /\ UNCHANGED <<scenario, proc, lead>>

(***************************************************************************)
(* The main thread of process p.                                           *)
(***************************************************************************)
(* Mutant of Reconfigured: the stop signal of the last experiment stays. *)
ReconfiguredKeepsStop(s) ==
  [Fresh EXCEPT !.exp = s.exp + 1, !.phase = "configured", !.up = TRUE,
                !.stop = s.stop]

(* What configureProcess resets *)
Reconfigured(s) ==
  [Fresh EXCEPT !.exp = s.exp + 1, !.phase = "configured", !.up = TRUE]

(* configureProcess *)
ConfigureProcess(p) ==
  /\ proc[p].phase = "idle" /\ proc[p].exp < scenario.experiments
  /\ p = Leader => mutexFree
  /\ LET s == Reconfigured(proc[p]) IN
     IF p = Leader
     THEN LET l == [lead EXCEPT !.order = <<Leader>>, !.ready = {}, !.completed = {},
                                !.assigned = [q \in Procs |-> {}]]
              r == distributeAssignmentsIfReady(s, l, chan) IN
          /\ proc' = [proc EXCEPT ![p] = r.s]
          /\ lead' = r.l
          /\ chan' = r.ch
     ELSE /\ proc' = [proc EXCEPT ![p] = s]
          /\ chan' = sendJson(chan, p, {Leader}, [type |-> "register", exp |-> s.exp])
          /\ UNCHANGED lead
  /\ hist' = IF p # Leader /\ proc[Leader].phase = "exited"
             THEN [hist EXCEPT !.missed = @ \cup {<<p, proc[p].exp + 1>>}] ELSE hist
  /\ UNCHANGED scenario

(* cleanupExperiment up to the join *)
cleanupExperiment(s) ==
  [s EXCEPT !.assignmentsReady = FALSE, !.start = FALSE, !.stop = FALSE,
            !.local = {}, !.interfaces = {}, !.inbound = {}]

(* waitForAssignments; the peers register their interfaces.  A process     *)
(* without peers goes on to the next experiment.                           *)
TakeAssignments(p) ==
  /\ proc[p].phase = "configured" /\ proc[p].assignmentsReady
  /\ IF proc[p].local = {}
     THEN /\ proc' = [proc EXCEPT ![p] = [cleanupExperiment(@) EXCEPT !.phase = "idle"]]
          /\ hist' = [hist EXCEPT !.surplus = @ \cup {p}]
     ELSE /\ proc' = [proc EXCEPT ![p].interfaces = proc[p].local, ![p].phase = "built"]
          /\ UNCHANGED hist
  /\ UNCHANGED <<scenario, lead, chan>>

(* markReady; the leader goes on to broadcastStartIfReady. *)
MarkReady(p) ==
  /\ proc[p].phase = "built"
  /\ proc' = [proc EXCEPT ![p].phase = "waiting"]
  /\ IF p = Leader
     THEN /\ lead' = [lead EXCEPT !.ready = @ \cup {Leader},
                                  !.starters["main"].at = "gate"]
          /\ UNCHANGED chan
     ELSE /\ chan' = sendJson(chan, p, {Leader}, Msg("ready", p))
          /\ UNCHANGED lead
  /\ UNCHANGED <<scenario, hist>>

(* waitForStartSignal returns. *)
Begin(p) ==
  /\ proc[p].phase = "waiting" /\ proc[p].start
  /\ p = Leader => lead.starters["main"].at = "none"
  /\ proc' = [proc EXCEPT ![p].phase = "running"]
  /\ UNCHANGED <<scenario, lead, chan, hist>>

(* requestStop of the interface of peer id: notifyPeerStopped *)
RequestStop(p, id) ==
  /\ proc[p].phase = "running" /\ id \in proc[p].interfaces
  /\ p = Leader => "main" \notin lead.stopping
  /\ <<proc[p].exp, id>> \notin hist.finished
  /\ hist' = [hist EXCEPT !.finished = @ \cup {<<proc[p].exp, id>>}]
  /\ IF p = Leader
     THEN LET r == peerDone(id, "main") IN
          /\ proc' = [proc EXCEPT ![p] = r.s]
          /\ lead' = r.l
          /\ UNCHANGED chan
     ELSE /\ chan' = sendJson(chan, p, {Leader},
                             [type |-> "peerDone", exp |-> proc[p].exp, id |-> id])
          /\ UNCHANGED <<proc, lead>>
  /\ UNCHANGED scenario

(* unicast of a local peer to peer id *)
Unicast(p, id) ==
  /\ proc[p].phase = "running" /\ ~proc[p].stop
  /\ proc[p].sent < scenario.messages
  /\ LET m == [type |-> "message", exp |-> proc[p].exp, to |-> id]
         s == [proc[p] EXCEPT !.sent = @ + 1] IN
     IF id \in s.interfaces
     THEN /\ proc' = [proc EXCEPT ![p] = [s EXCEPT !.inbound = @ \cup {m}]]
          /\ UNCHANGED chan
     ELSE /\ proc' = [proc EXCEPT ![p] = s]
          /\ chan' = sendJson(chan, p, {s.ranges[id]}, m)
  /\ UNCHANGED <<scenario, lead, hist>>

(* receive of a local peer: drainInbound *)
Receive(p, id) ==
  /\ proc[p].phase = "running"
  /\ \E m \in proc[p].inbound : m.to = id
  /\ proc' = [proc EXCEPT ![p].inbound = { m \in @ : m.to # id }]
  /\ UNCHANGED <<scenario, lead, chan, hist>>

(* The loop ends, waitForStop returns, the peers are deleted and           *)
(* cleanupExperiment runs up to the join, when there is a timer thread.    *)
Finish(p) ==
  /\ proc[p].phase = "running" /\ proc[p].stop
  /\ p = Leader => "main" \notin lead.stopping
  /\ LET joins == p = Leader /\ lead.timer # "off" IN
     /\ proc' = [proc EXCEPT ![p] =
                   [cleanupExperiment(@) EXCEPT !.phase = IF joins THEN "joining" ELSE "idle"]]
     /\ lead' = IF p = Leader
                THEN [lead EXCEPT !.completed = {}, !.active = @ /\ ~joins] ELSE lead
  /\ UNCHANGED <<scenario, chan, hist>>

(* The leader has joined its timer thread. *)
Join ==
  /\ proc[Leader].phase = "joining"
  /\ lead.timer = "ended" /\ "timer" \notin lead.stopping
  /\ proc' = [proc EXCEPT ![Leader].phase = "idle"]
  /\ lead' = [lead EXCEPT !.timer = "off"]
  /\ UNCHANGED <<scenario, chan, hist>>

(* Those whose registration the leader has not read *)
Unheard == { q \in Procs : \E m \in ToSet(chan[q, Leader]) : m.type = "register" }

(* shutdown after the last experiment, and the end of the process: a       *)
(* handler of the leader that still sends is cut off; a timer thread goes  *)
(* on, because shutdown joins it after the connections are closed.         *)
Shutdown(p) ==
  /\ proc[p].phase = "idle" /\ proc[p].exp = scenario.experiments
  /\ proc' = [proc EXCEPT ![p] = Exited(@)]
  /\ chan' = connectionsClosed(p)
  /\ lead' = IF p = Leader THEN threadsCut(lead) ELSE lead
  /\ hist' = IF p = Leader
             THEN [hist EXCEPT !.cut = ~mutexFree,
                               !.missed = @ \cup { <<q, proc[q].exp>> : q \in Unheard }]
             ELSE hist
  /\ UNCHANGED scenario

(* A follower dies before it runs and is started again on the same port:   *)
(* what was on its way to it is lost.                                      *)
Restart(p) ==
  /\ Cardinality(hist.restarted) < scenario.restarts
  /\ p # Leader /\ proc[p].phase \in {"configured", "built", "waiting"}
  /\ proc' = [proc EXCEPT ![p] = Fresh]
  /\ chan' = connectionsClosed(p)
  /\ hist' = [hist EXCEPT !.restarted = @ \cup {p}]
  /\ UNCHANGED <<scenario, lead>>

(* broadcastStartIfReady, called by thread t *)
BroadcastStartIfReady(t) ==
  TestGate(t) \/ BroadcastStart(t) \/ ExchangeTimer(t) \/ LaunchTimer(t)

Main(p) ==
  \/ ConfigureProcess(p) \/ TakeAssignments(p) \/ MarkReady(p) \/ Begin(p)
  \/ Finish(p) \/ (p = Leader /\ Join) \/ Shutdown(p)
  \/ \E id \in Ids : RequestStop(p, id) \/ Receive(p, id)

Next ==
  \/ \E p \in Procs : Main(p) \/ Restart(p) \/ \E id \in Ids : Unicast(p, id)
  \/ \E p, q \in Procs : ProcessMessage(q, p) \/ Expire(q, p)
  \/ \E t \in Starters : BroadcastStartIfReady(t)
  \/ BroadcastStop \/ TimerExpires

Spec == Init /\ [][Next]_vars

(* Threads that can go on do so; nobody owes a message to a peer, and an   *)
(* attempt to send need not fail.  Every peer requests the stop in the     *)
(* end: with the stop condition peerSignals nothing else ends a run.       *)
ProcsOfAny == UNION { DOMAIN sc.requested : sc \in Scenarios }
FairSpec ==
  /\ Spec
  /\ \A p \in ProcsOfAny : WF_vars(p \in Procs /\ Main(p))
  /\ \A p, q \in ProcsOfAny : WF_vars({p, q} \subseteq Procs /\ ProcessMessage(q, p))
  /\ \A t \in Starters : WF_vars(BroadcastStartIfReady(t))
  /\ WF_vars(BroadcastStop) /\ WF_vars(TimerExpires)

(***************************************************************************)
(* Properties.                                                             *)
(***************************************************************************)
Message ==
  [type : {"register", "ready", "start", "stop"}, exp : Nat]
    \cup [type : {"peerDone"}, exp : Nat, id : Ids]
    \cup [type : {"message"}, exp : Nat, to : Ids]
    \cup [type : {"assignment"}, exp : Nat, peers : SUBSET Ids, ranges : [Ids -> Procs]]

(* The coordinators keep their shape: only known processes are recorded,   *)
(* each once, and only ids of the topology are assigned or completed       *)
(* (ProcessCoordinator.hpp's members).                                     *)
TypeOK ==
  /\ scenario \in Scenarios
  /\ \A p \in Procs :
       /\ proc[p].exp \in 0 .. scenario.experiments
       /\ proc[p].phase \in {"idle", "configured", "built", "waiting", "running",
                             "joining", "exited"}
       /\ {proc[p].up, proc[p].assignmentsReady, proc[p].start, proc[p].stop} \subseteq BOOLEAN
       /\ UNION {proc[p].local, proc[p].allPeers, proc[p].interfaces} \subseteq Ids
       /\ proc[p].ranges \in {<<>>} \cup [Ids -> Procs]
       /\ proc[p].inbound \subseteq Message
  /\ ToSet(lead.order) \subseteq Procs /\ IsInjective(lead.order)
  /\ lead.ready \subseteq ToSet(lead.order) /\ lead.completed \subseteq Ids
  /\ \A t \in Starters :
       /\ lead.starters[t].at \in {"none", "gate", "loop", "timer"}
       /\ ToSet(lead.starters[t].left) \subseteq Procs
  /\ lead.timer \in {"off", "sleeping", "ended"} /\ lead.active \in BOOLEAN
  /\ lead.stopping \subseteq {"main", "handler", "timer"}
  /\ \A c \in Procs \X Procs : chan[c] \in Seq(Message)

(* p has interfaces for experiment e *)
Hosts(p, e) == proc[p].exp = e /\ proc[p].phase \in {"built", "waiting", "running"}

(* Every peer has one host: processes that host peers in the same          *)
(* experiment agree on who hosts what, whoever registered while            *)
(* assignments were under way, and host exactly their part                 *)
(* (distributeAssignmentsIfReady, handleRegister).                         *)
OwnersAgree ==
  \A p, q \in Procs :
    Hosts(p, proc[q].exp) /\ Hosts(q, proc[q].exp) =>
      /\ proc[p].ranges = proc[q].ranges
      /\ proc[p].interfaces = { id \in Ids : proc[q].ranges[id] = p }

(* When a process runs an experiment, every process that hosts peers of it *)
(* has registered their interfaces or is done with it already, unless it   *)
(* was restarted: nothing is sent to a peer that is not there yet          *)
(* (broadcastStartIfReady).                                                *)
StartBarrier ==
  \A p \in Procs : proc[p].phase = "running" =>
    \A id \in Ids : LET q == proc[p].ranges[id] IN
      \/ Hosts(q, proc[p].exp) /\ id \in proc[q].interfaces
      \/ proc[q].exp = proc[p].exp /\ proc[q].phase \in {"joining", "idle", "exited"}
      \/ proc[q].exp > proc[p].exp
      \/ q \in hist.restarted

(* A process that leaves the loop of an experiment does so because all     *)
(* peers of that experiment asked for it, or because the time set for that *)
(* experiment is over: no signal survives into the next experiment         *)
(* (broadcastStop, cleanupExperiment, configureProcess, processMessage).   *)
(* The exception: a handler that is still inside broadcastStartIfReady     *)
(* when cleanupExperiment has looked for the timer thread starts one that  *)
(* stops the next experiment.                                              *)
StopIsDue ==
  \A p \in Procs : proc[p].phase = "running" /\ proc[p].stop =>
    \/ proc[p].exp \in hist.elapsed
    \/ \A id \in Ids : <<proc[p].exp, id>> \in hist.finished
    \/ proc[p].exp - 1 \in hist.late

(* What waits for a peer was sent to it in the experiment it runs          *)
(* (handleInboundMessage, cleanupExperiment).                              *)
NoMessageOfAnotherExperiment ==
  \A p \in Procs : \A m \in proc[p].inbound :
    m.exp = proc[p].exp /\ m.to \in proc[p].interfaces

(* What the code does not recover from: a registration that arrives before *)
(* the leader has configured the experiment, or after all attempts to send *)
(* it; a process too many, which is registered and never ready; a restart; *)
(* a handler that starts a timer when the experiment is over already; and  *)
(* a leader that ends while one of its threads sends, by exiting or        *)
(* because a thread starts a timer next to one that was not joined.        *)
Disturbed ==
  \/ hist.missed # {} \/ hist.surplus # {} \/ hist.restarted # {}
  \/ hist.late # {} \/ hist.cut

(* All processes get through all experiments, unless one of those five     *)
(* things happens (waitForAssignments, waitForStartSignal, waitForStop).   *)
ExperimentsEnd == <>(Disturbed \/ \A p \in Procs : proc[p].phase = "exited")
=============================================================================
