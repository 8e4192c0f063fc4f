---------------------------- MODULE NetworkClient ----------------------------
(***************************************************************************)
(* The round engine under the most general computation: in                 *)
(* performComputation a peer may send to any peer, consume any number of   *)
(* received packets, crash for some rounds (and then return at once, as    *)
(* RaftPeer::performComputation does after maybeCrash), and return.  What  *)
(* holds here holds for every algorithm that touches the network only in   *)
(* performComputation: multicast, broadcast and their variants are         *)
(* sequences of unicastTo.                                                 *)
(*                                                                         *)
(* The body of a packet is its number among the packets its sender gave to *)
(* unicastTo for the same destination.                                     *)
(***************************************************************************)
EXTENDS AbstractNetwork

CONSTANTS
  MaxSends,  \* bound: packets one peer sends to neighbours in one round
  MaxCrash   \* bound: rounds a crash may last

ASSUME ClientAssumption == MaxSends \in Nat /\ MaxCrash \in Nat

VARIABLES
  sends,    \* packets each peer has sent to neighbours in this round
  sent,     \* packets sent from each peer to each neighbour in this test
  pushed,   \* packets that entered each channel in this test
  taken,    \* packets received from each channel in this test
  takenNow  \* packets received from each channel in this round

clientVars == <<sends, sent, pushed, taken, takenNow>>
vars == <<netVars, clientVars>>

Init ==
  /\ NetInit
  /\ sends = [p \in Peers |-> 0]
  /\ sent = [c \in Peers \X Peers |-> 0]
  /\ pushed = [c \in Channels |-> 0]
  /\ taken = [c \in Channels |-> 0]
  /\ takenNow = [c \in Channels |-> 0]

Send(p, dst) ==
  /\ Computing(p)
  /\ sends[p] < MaxSends
  /\ LET n == IF dst \in Neighbors[p] THEN 1 ELSE 0 IN
       /\ sends' = [sends EXCEPT ![p] = @ + n]
       /\ sent' = [sent EXCEPT ![<<p, dst>>] = @ + n]
  /\ unicastTo(p, dst, sent[<<p, dst>>] + 1)
  /\ pushed' = [c \in Channels |-> pushed[c] + Len(queue'[c]) - Len(queue[c])]
  /\ UNCHANGED <<engineVars, inStream, crashRecoveryRound, taken, takenNow>>

Consume(p) ==
  /\ Computing(p)
  /\ popInStream(p)
  /\ UNCHANGED <<engineVars, queue, throughputLeft, crashRecoveryRound,
                 clientVars>>

Crash(p) ==
  /\ Computing(p)
  /\ \E k \in 1 .. MaxCrash :
       crashRecoveryRound' = [crashRecoveryRound EXCEPT ![p] = currentRound + k]
  /\ UNCHANGED <<engineVars, queue, throughputLeft, inStream, clientVars>>

Done(p) ==
  /\ Computing(p)
  /\ Return(p)
  /\ UNCHANGED <<test, currentRound, phase, toReceive, queue, throughputLeft,
                 inStream, crashRecoveryRound, clientVars>>

(* The engine's own steps, with the counters they reset or advance.        *)
Begin ==
  /\ StartRound
  /\ sends' = [p \in Peers |-> 0]
  /\ takenNow' = [c \in Channels |-> 0]
  /\ UNCHANGED <<sent, pushed, taken>>

Receive(c) ==
  /\ ReceiveFrom(c)
  /\ LET n == Len(inStream'[c[2]]) - Len(inStream[c[2]]) IN
       /\ taken' = [taken EXCEPT ![c] = @ + n]
       /\ takenNow' = [takenNow EXCEPT ![c] = @ + n]
  /\ UNCHANGED <<sends, sent, pushed>>

Barrier == (StartCompute \/ EndRound \/ Finish) /\ UNCHANGED clientVars

Skip(p) == SkipCrashed(p) /\ UNCHANGED clientVars

Rebuild ==
  /\ NextTest
  /\ sends' = [p \in Peers |-> 0]
  /\ sent' = [c \in Peers \X Peers |-> 0]
  /\ pushed' = [c \in Channels |-> 0]
  /\ taken' = [c \in Channels |-> 0]
  /\ takenNow' = [c \in Channels |-> 0]

(* run has returned. *)
Returned == phase = "done" /\ UNCHANGED vars

Engine ==
  \/ Begin \/ Barrier \/ Rebuild
  \/ \E c \in Channels : Receive(c)
  \/ \E p \in Peers : Skip(p) \/ Done(p)

Next ==
  \/ Engine
  \/ \E p \in Peers : Consume(p) \/ Crash(p) \/ (\E dst \in Peers : Send(p, dst))
  \/ Returned

Spec == Init /\ [][Next]_vars

(* The thread pool runs every submitted task and a computation returns.    *)
FairSpec == Spec /\ WF_vars(Engine)
-----------------------------------------------------------------------------
Packets ==
  [src : Peers, dst : Peers, body : Nat, round : Nat, delay : Nat]

(* The engine's state has the shape the code declares; a queue never holds *)
(* more than the configured size.                                          *)
TypeOK ==
  /\ test \in 0 .. Tests - 1
  /\ currentRound \in 0 .. LastRound
  /\ phase \in {"init", "receive", "compute", "ended", "done"}
  /\ toReceive \in SUBSET Channels
  /\ toCompute \in SUBSET Peers
  /\ queue \in [Channels -> Seq(Packets)]
  /\ \A c \in Channels : Len(queue[c]) <= Size
  /\ throughputLeft \in [Channels -> Int]
  /\ inStream \in [Peers -> Seq(Packets)]
  /\ crashRecoveryRound \in [Peers -> Nat]
  /\ sends \in [Peers -> Nat]
  /\ sent \in [Peers \X Peers -> Nat]
  /\ pushed \in [Channels -> Nat]
  /\ taken \in [Channels -> Nat]
  /\ takenNow \in [Channels -> Nat]

(* A packet a peer can read was addressed to it by a neighbour's channel,  *)
(* and its delay has passed: in round r an algorithm sees only what was    *)
(* sent in rounds before r, whatever the threads' interleaving             *)
(* (Packet::setDelay's clamp, hasArrived and the barrier of                *)
(* Simulation::run).                                                       *)
SynchronousDelivery ==
  \A p \in Peers : \A i \in 1 .. Len(inStream[p]) :
    LET m == inStream[p][i] IN
      /\ <<m.src, p>> \in Channels /\ m.dst = p
      /\ m.round < currentRound
      /\ m.round + m.delay <= currentRound

(* When the reorder probability is 0, packets of one channel are read in   *)
(* the order they were sent, even though every copy draws its own delay:   *)
(* a packet that has not arrived holds back the ones behind it             *)
(* (NetworkInterfaceAbstract::receive stops at the front of the queue).    *)
InOrderDelivery ==
  TRUE \notin Reorder =>
    \A p \in Peers : \A i, j \in 1 .. Len(inStream[p]) :
      /\ i < j
      /\ inStream[p][i].src = inStream[p][j].src
      => inStream[p][i].body <= inStream[p][j].body

(* Packets are neither lost nor made up between pushPacket and the         *)
(* inStream: what entered a channel was handed to the receiver or is still *)
(* queued.                                                                 *)
Conservation ==
  \A c \in Channels : pushed[c] = taken[c] + Len(queue[c])

(* In every test of the run, a channel carries at most maxMsgsRec packets  *)
(* per round of the test, duplicates included, as long as that product     *)
(* fits the int that counts it; and the budget is exactly what is left.    *)
ThroughputBudget ==
  MaxMsgsRec * LastRound < 2 ^ (IntBits - 1) =>
    \A c \in Channels :
      pushed[c] + throughputLeft[c] = MaxMsgsRec * LastRound
      /\ throughputLeft[c] >= 0

(* While a computation phase runs no channel is read and while a receive   *)
(* phase runs none is written: the queues need no lock although the tasks  *)
(* of a phase run on several threads.                                      *)
ChannelOwnership ==
  [][\A c \in Channels :
        /\ taken'[c] > taken[c] => \A d \in Channels : pushed'[d] = pushed[d]
        /\ taken'[c] > taken[c] => toCompute = {}
        /\ pushed'[c] > pushed[c] => toReceive = {}]_vars

(* Crashed peers keep their packets: while a peer is down, its inStream    *)
(* only grows and nothing it did earlier in the queues is touched by it.   *)
CrashedPeerIsInert ==
  [][\A p \in Peers :
       (isCrashed(p) /\ currentRound' >= currentRound) =>
         /\ Len(inStream'[p]) >= Len(inStream[p])
         /\ \A c \in Channels : c[1] = p => pushed'[c] = pushed[c]]_vars

(* Every simulation ends, crashes and full channels included.              *)
Termination == <>(phase = "done")
=============================================================================
