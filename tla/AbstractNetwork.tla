--------------------------- MODULE AbstractNetwork ---------------------------
(***************************************************************************)
(* The engine of the round-based simulator: Simulation::run drives the     *)
(* peers of a Network through rounds.  In a round every peer first moves   *)
(* the packets that have arrived from its inbound channels to its inStream *)
(* (receive phase), and only when all have finished does every peer run    *)
(* its algorithm (compute phase).  Inside a phase the tasks of different   *)
(* peers run on a thread pool, in any order and interleaved.               *)
(*                                                                         *)
(* This module has no Next of its own: an algorithm's module extends it,   *)
(* says what a computation step of a peer is, and composes the two.        *)
(***************************************************************************)
EXTENDS Channel, FiniteSets

CONSTANTS
  N,          \* "initialPeers": the peers are 0 .. N-1
  Neighbors,  \* Neighbors[p]: the neighbours the topology gives to p
  Tests,      \* "tests": how often the simulation is repeated
  LastRound   \* "rounds": the rounds of one test

Peers == 0 .. N - 1

ASSUME NetworkAssumption ==
  /\ N \in Nat \ {0}
  /\ Neighbors \in [Peers -> SUBSET Peers]
  /\ Tests \in Nat \ {0}
  /\ LastRound \in Nat \ {0}

(* Network::createInitialChannels: one directed channel per neighbour.     *)
Channels == { c \in Peers \X Peers : c[2] \in Neighbors[c[1]] }

VARIABLES
  test,               \* the index i of the test loop
  currentRound,       \* RoundManager::_currentRound
  phase,              \* "init", "receive", "compute", "ended" or "done"
  toReceive,          \* channels the receive phase has not read yet
  toCompute,          \* peers whose computation has not finished
  queue,              \* Channel::_packetQueue of each channel
  throughputLeft,     \* Channel::_throughputLeft of each channel
  inStream,           \* NetworkInterface::_inStream of each peer
  crashRecoveryRound  \* Peer::_crashRecoveryRound of each peer

engineVars == <<test, currentRound, phase, toReceive, toCompute>>
netVars == <<engineVars, queue, throughputLeft, inStream, crashRecoveryRound>>

(* Peer::isCrashed *)
isCrashed(p) == crashRecoveryRound[p] > currentRound

(* What setCurrentRound(0), initNetwork and initParameters leave behind.   *)
FreshNetwork ==
  [ currentRound |-> 0,
    queue |-> [c \in Channels |-> <<>>],
    throughputLeft |-> [c \in Channels |-> Throughput(LastRound, 0)],
    inStream |-> [p \in Peers |-> <<>>],
    crashRecoveryRound |-> [p \in Peers |-> 0] ]

NetInit ==
  /\ test = 0
  /\ phase = "init"
  /\ toReceive = {}
  /\ toCompute = {}
  /\ currentRound = FreshNetwork.currentRound
  /\ queue = FreshNetwork.queue
  /\ throughputLeft = FreshNetwork.throughputLeft
  /\ inStream = FreshNetwork.inStream
  /\ crashRecoveryRound = FreshNetwork.crashRecoveryRound

(* RoundManager::incrementRound and the start of the receive loop.         *)
StartRound ==
  /\ phase \in {"init", "ended"}
  /\ currentRound < LastRound
  /\ currentRound' = currentRound + 1
  /\ phase' = "receive"
  /\ toReceive' = Channels
  /\ UNCHANGED <<test, toCompute, queue, throughputLeft, inStream,
                 crashRecoveryRound>>

(* Mutant of Taken: the packet behind the last one taken is lost. *)
TakenAndLost(c, q, n) ==
  /\ queue' = [queue EXCEPT ![c] = SubSeq(q, n + 2, Len(q))]
  /\ inStream' = [inStream EXCEPT ![c[2]] = @ \o SubSeq(q, 1, n)]

(* The first n packets of q, the queue of c, move to the inStream.         *)
Taken(c, q, n) ==
  /\ queue' = [queue EXCEPT ![c] = SubSeq(q, n + 1, Len(q))]
  /\ inStream' = [inStream EXCEPT ![c[2]] = @ \o SubSeq(q, 1, n)]

(* One iteration of NetworkInterfaceAbstract::receive: the multimap makes  *)
(* a peer read its inbound channels by ascending source.                   *)
ReceiveFrom(c) ==
  /\ phase = "receive"
  /\ c \in toReceive
  /\ \A b \in toReceive : b[2] = c[2] => c[1] <= b[1]
  /\ \E q \in shuffleChannel(queue[c]) : \E n \in Popped(q, currentRound) :
        Taken(c, q, n)
  /\ toReceive' = toReceive \ {c}
  /\ UNCHANGED <<test, currentRound, phase, toCompute, throughputLeft,
                 crashRecoveryRound>>

(* Mutant of ReceiveDone: the compute loop does not wait. *)
ReceiveNotAwaited == TRUE

(* receive_loop.wait() has nothing left to wait for. *)
ReceiveDone == toReceive = {}

(* receive_loop.wait() returned: the compute loop starts.                  *)
StartCompute ==
  /\ phase = "receive"
  /\ ReceiveDone
  /\ phase' = "compute"
  /\ toCompute' = Peers
  /\ UNCHANGED <<test, currentRound, toReceive, queue, throughputLeft,
                 inStream, crashRecoveryRound>>

(* Peer p is inside performComputation: the guard of an algorithm's steps. *)
Computing(p) == phase = "compute" /\ p \in toCompute /\ ~isCrashed(p)

(* Mutant of SkipCrashed: the task of a crashed peer waits. *)
WaitForCrashed(p) ==
  phase = "compute" /\ p \in toCompute /\ isCrashed(p) /\ UNCHANGED netVars

(* Peer::tryPerformComputation of a crashed peer does nothing.             *)
SkipCrashed(p) ==
  /\ phase = "compute"
  /\ p \in toCompute
  /\ isCrashed(p)
  /\ toCompute' = toCompute \ {p}
  /\ UNCHANGED <<test, currentRound, phase, toReceive, queue, throughputLeft,
                 inStream, crashRecoveryRound>>

(* compute_loop.wait() returned and endOfRound ran.                        *)
EndRound ==
  /\ phase = "compute"
  /\ toCompute = {}
  /\ phase' = "ended"
  /\ UNCHANGED <<test, currentRound, toReceive, toCompute, queue,
                 throughputLeft, inStream, crashRecoveryRound>>

(* The next iteration of the test loop rebuilds the network.               *)
NextTest ==
  /\ phase = "ended"
  /\ currentRound = LastRound
  /\ test + 1 < Tests
  /\ test' = test + 1
  /\ phase' = "init"
  /\ currentRound' = FreshNetwork.currentRound
  /\ queue' = FreshNetwork.queue
  /\ throughputLeft' = FreshNetwork.throughputLeft
  /\ inStream' = FreshNetwork.inStream
  /\ crashRecoveryRound' = FreshNetwork.crashRecoveryRound
  /\ UNCHANGED <<toReceive, toCompute>>

(* The last test is over: the log is written and run returns.              *)
Finish ==
  /\ phase = "ended"
  /\ currentRound = LastRound
  /\ test + 1 = Tests
  /\ phase' = "done"
  /\ UNCHANGED <<test, currentRound, toReceive, toCompute, queue,
                 throughputLeft, inStream, crashRecoveryRound>>

(* Packet() and its setters in unicastTo: the round is read at creation.   *)
NewPacket(p, dst, body) ==
  [src |-> p, dst |-> dst, body |-> body, round |-> currentRound, delay |-> 0]

(* NetworkInterfaceAbstract::unicastTo: nothing is sent to a peer that is  *)
(* not a neighbour.                                                        *)
unicastTo(p, dst, body) ==
  IF dst \notin Neighbors[p]
  THEN UNCHANGED <<queue, throughputLeft>>
  ELSE LET c == <<p, dst>> IN
       \E r \in pushPacket(queue[c], throughputLeft[c], NewPacket(p, dst, body)) :
          /\ queue' = [queue EXCEPT ![c] = r[1]]
          /\ throughputLeft' = [throughputLeft EXCEPT ![c] = r[2]]

(* NetworkInterface::popInStream of a non-empty stream.                    *)
popInStream(p) ==
  /\ inStream[p] # <<>>
  /\ inStream' = [inStream EXCEPT ![p] = Tail(@)]

(* performComputation of p returns.                                        *)
Return(p) == toCompute' = toCompute \ {p}
=============================================================================
