-------------------------------- MODULE AltBit --------------------------------
(***************************************************************************)
(* AltBitPeer: the two-peer data link in which both sides run a timer and  *)
(* each keeps one number ns, 1 at the start of both.  Peer 0 sends data,   *)
(* peer 1 answers with acks.                                               *)
(*                                                                         *)
(* performComputation is split at its loop: HandleAck and HandleData are   *)
(* iterations, Complete is the rest.  currentTransaction and the payload's *)
(* roundSubmitted are never read and are left out.                         *)
(***************************************************************************)
EXTENDS AbstractNetwork

CONSTANT TimeOutRate  \* "timeOutRate" of the parameters

(* One test is modelled: NextTest builds every peer and channel anew.      *)
ASSUME AltBitAssumption == TimeOutRate \in Nat /\ N = 2 /\ Tests = 1

VARIABLES
  ns,                    \* ns of each peer
  requestsSatisfied,     \* of peer 0
  messagesSent,          \* of each peer
  previousMessageRound,  \* of each peer
  received               \* history: data numbers peer 1 has received

peerVars == <<ns, requestsSatisfied, messagesSent, previousMessageRound, received>>
vars == <<netVars, peerVars>>

Data(n) == [action |-> "data", num |-> n]
Ack(n) == [action |-> "ack", num |-> n]

Init ==
  /\ NetInit
  /\ ns = [p \in Peers |-> 1]
  /\ requestsSatisfied = 0
  /\ messagesSent = [p \in Peers |-> 0]
  /\ previousMessageRound = [p \in Peers |-> 0]
  /\ received = {}

(* sendMessage *)
sendMessage(p, dst, body) ==
  /\ messagesSent' = [messagesSent EXCEPT ![p] = @ + 1]
  /\ unicastTo(p, dst, body)

(* submitTrans: the timer is not restarted. *)
submitTrans(p, n) == sendMessage(p, 1, Data(n))

(* Mutant of Matches: any ack will do. *)
AnyAck(p) == TRUE

(* The ack at the front of the inStream is for the message in flight. *)
Matches(p) == Head(inStream[p]).body.num = ns[p]

(* previousMessageRound = currentRound() *)
restartTimer(p) ==
  previousMessageRound' = [previousMessageRound EXCEPT ![p] = currentRound]

(* An ack that matches ns satisfies the request; any other is dropped.     *)
HandleAck(p) ==
  /\ Computing(p)
  /\ popInStream(p)
  /\ Head(inStream[p]).body.action = "ack"
  /\ IF Matches(p)
     THEN /\ restartTimer(p)
          /\ requestsSatisfied' = requestsSatisfied + 1
          /\ ns' = [ns EXCEPT ![p] = @ + 1]
          /\ submitTrans(p, ns[p] + 1)
     ELSE UNCHANGED <<previousMessageRound, requestsSatisfied, ns, messagesSent,
                      queue, throughputLeft>>
  /\ UNCHANGED <<engineVars, crashRecoveryRound, received>>

(* Every data message is adopted, an older one too, and acknowledged.      *)
HandleData(p) ==
  /\ Computing(p)
  /\ popInStream(p)
  /\ Head(inStream[p]).body.action = "data"
  /\ LET n == Head(inStream[p]).body.num IN
       /\ ns' = [ns EXCEPT ![p] = n]
       /\ sendMessage(p, 0, Ack(n))
       /\ received' = received \cup {n}
  /\ restartTimer(p)
  /\ UNCHANGED <<engineVars, crashRecoveryRound, requestsSatisfied>>

TimedOut(p) == previousMessageRound[p] + TimeOutRate < currentRound

(* After the loop: the first submission, or the timer of either peer.      *)
Complete(p) ==
  /\ Computing(p)
  /\ inStream[p] = <<>>
  /\ Return(p)
  /\ CASE messagesSent[p] = 0 /\ p = 0 ->
            submitTrans(p, ns[p]) /\ UNCHANGED previousMessageRound
       [] ~(messagesSent[p] = 0 /\ p = 0) /\ TimedOut(p) ->
            /\ restartTimer(p)
            /\ IF p = 0 THEN sendMessage(p, 1, Data(ns[p]))
                        ELSE sendMessage(p, 0, Ack(ns[p]))
       [] OTHER ->
            UNCHANGED <<previousMessageRound, messagesSent, queue, throughputLeft>>
  /\ UNCHANGED <<test, currentRound, phase, toReceive, inStream,
                 crashRecoveryRound, ns, requestsSatisfied, received>>

EngineStep ==
  /\ \/ StartRound \/ StartCompute \/ EndRound \/ Finish
     \/ \E c \in Channels : ReceiveFrom(c)
  /\ UNCHANGED peerVars

Returned == phase = "done" /\ UNCHANGED vars

Next ==
  \/ EngineStep
  \/ \E p \in Peers : HandleAck(p) \/ HandleData(p) \/ Complete(p)
  \/ Returned

Spec == Init /\ [][Next]_vars
-----------------------------------------------------------------------------
(* The state has the shape AltBitPeer declares.                            *)
TypeOK ==
  /\ ns \in [Peers -> Nat \ {0}]
  /\ requestsSatisfied \in Nat
  /\ messagesSent \in [Peers -> Nat]
  /\ previousMessageRound \in [Peers -> 0 .. LastRound]
  /\ received \in SUBSET Nat

(* From the second message on, the sender counts a request as satisfied    *)
(* only if the receiver got it, although the receiver also acknowledges on *)
(* its own timer; and the sender is exactly one ahead of what it counted.  *)
SatisfiedWasReceived ==
  /\ ns[0] = requestsSatisfied + 1
  /\ (2 .. requestsSatisfied) \subseteq received

(* On channels that do not reorder, the receiver's number never goes back: *)
(* a duplicate or a retransmission cannot arrive after its successor.      *)
ReceiverNeverGoesBack ==
  [][TRUE \notin Reorder => ns'[1] >= ns[1]]_vars

(* AltBitPeer.cpp:65 calls the timer branch "resend lost message" and      *)
(* AltBitPeer.hpp:35 the counter "number of requests satisfied": a request *)
(* is counted only if the receiver got its message.                        *)
EverySatisfiedWasReceived == (1 .. requestsSatisfied) \subseteq received
=============================================================================
