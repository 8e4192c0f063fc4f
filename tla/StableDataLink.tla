---------------------------- MODULE StableDataLink ----------------------------
(***************************************************************************)
(* StableDataLinkPeer: a stop-and-wait data link with unbounded message    *)
(* numbers over the simulator's channels, which may delay, drop, duplicate *)
(* and reorder.  Peer 0 sends; every other peer only acknowledges.         *)
(*                                                                         *)
(* performComputation is split at its loop: Submit is the test before the  *)
(* loop, HandleAck and HandleData are iterations, Complete is the rest. The *)
(* payload's roundSubmitted is never read and is left out.                 *)
(***************************************************************************)
EXTENDS AbstractNetwork

CONSTANT TimeOutRate  \* timeOutRate (4 in the constructor)

(* One test is modelled: NextTest builds every peer and channel anew.      *)
ASSUME LinkAssumption ==
  /\ TimeOutRate \in Nat
  /\ Tests = 1
  /\ N > 1
  /\ Neighbors[0] # {}
  /\ \A p \in Peers : p \notin Neighbors[p]

VARIABLES
  nextMessageNum, lastSentMessageNum, awaitingAck, \* of peer 0
  requestsSatisfied, previousMessageRound,         \* of peer 0
  lastDeliveredMessageNum,                         \* of each peer
  messagesSent,                                    \* of each peer
  lastFault,  \* history: the last round in which a packet was lost or duplicated
  lastSubmit, \* history: the last round in which a new message was sent
  resent      \* history: how often the message in flight was sent again

senderVars == <<nextMessageNum, lastSentMessageNum, awaitingAck,
                requestsSatisfied, previousMessageRound>>
peerVars == <<senderVars, lastDeliveredMessageNum, messagesSent>>
history == <<lastFault, lastSubmit, resent>>
vars == <<netVars, peerVars, history>>

Data(n) == [action |-> "data", num |-> n]
Ack(n) == [action |-> "ack", num |-> n]

(* partnerId: the smallest neighbour, or the other one of peers 0 and 1.   *)
partnerId(p) ==
  IF Neighbors[p] # {}
  THEN CHOOSE q \in Neighbors[p] : \A r \in Neighbors[p] : q <= r
  ELSE IF p = 0 THEN 1 ELSE 0

Init ==
  /\ NetInit
  /\ nextMessageNum = 1
  /\ lastSentMessageNum = 0
  /\ awaitingAck = FALSE
  /\ requestsSatisfied = 0
  /\ previousMessageRound = 0
  /\ lastDeliveredMessageNum = [p \in Peers |-> 0]
  /\ messagesSent = [p \in Peers |-> 0]
  /\ lastFault = 0
  /\ lastSubmit = 0
  /\ resent = 0

(* History: a send that does not leave exactly one copy on channel c is a  *)
(* fault of the channel.                                                   *)
noteFault(c) ==
  lastFault' = IF c \in Channels /\ Len(queue'[c]) = Len(queue[c]) + 1
               THEN lastFault ELSE currentRound

(* sendMessage; only peer 0 ever reads its previousMessageRound.           *)
sendMessage(p, body) ==
  /\ unicastTo(p, partnerId(p), body)
  /\ messagesSent' = [messagesSent EXCEPT ![p] = @ + 1]
  /\ noteFault(<<p, partnerId(p)>>)

(* Mutant of restartTimer: the timer goes on. *)
timerGoesOn == previousMessageRound' = previousMessageRound

(* _previousMessageRound = currentRound() in sendMessage *)
restartTimer == previousMessageRound' = currentRound

(* submitTrans of peer 0 *)
submitTrans ==
  /\ lastSentMessageNum' = nextMessageNum
  /\ awaitingAck' = TRUE
  /\ sendMessage(0, Data(nextMessageNum))
  /\ restartTimer
  /\ nextMessageNum' = nextMessageNum + 1
  /\ lastSubmit' = currentRound
  /\ resent' = 0

FirstSubmitDue(p) == p = 0 /\ ~awaitingAck /\ nextMessageNum = 1

Submit ==
  /\ Computing(0)
  /\ FirstSubmitDue(0)
  /\ submitTrans
  /\ UNCHANGED <<engineVars, inStream, crashRecoveryRound, requestsSatisfied,
                 lastDeliveredMessageNum>>

(* Mutant of Expected: any ack will do. *)
AnyAck(p) == p = 0 /\ awaitingAck

(* The three early returns of handleAck are not taken. *)
Expected(p) ==
  p = 0 /\ awaitingAck /\ Head(inStream[p]).body.num = lastSentMessageNum

(* handleAck: an ack is ignored by a receiver, when none is awaited and    *)
(* when it is not for the message in flight.                               *)
HandleAck(p) ==
  /\ Computing(p)
  /\ ~FirstSubmitDue(p)
  /\ popInStream(p)
  /\ Head(inStream[p]).body.action = "ack"
  /\ IF Expected(p)
     THEN requestsSatisfied' = requestsSatisfied + 1 /\ submitTrans
     ELSE UNCHANGED <<queue, throughputLeft, senderVars, messagesSent, history>>
  /\ UNCHANGED <<engineVars, crashRecoveryRound, lastDeliveredMessageNum>>

(* Mutant of Newest: an old number is adopted too. *)
Latest(n, last) == n

(* _lastDeliveredMessageNum after a data message n *)
Newest(n, last) == IF n > last THEN n ELSE last

(* handleData and sendAck: every copy is acknowledged, only a new number   *)
(* advances the receiver.                                                  *)
HandleData(p) ==
  /\ Computing(p)
  /\ ~FirstSubmitDue(p)
  /\ popInStream(p)
  /\ Head(inStream[p]).body.action = "data"
  /\ LET n == Head(inStream[p]).body.num IN
       /\ lastDeliveredMessageNum' =
            [lastDeliveredMessageNum EXCEPT ![p] = Newest(n, @)]
       /\ sendMessage(p, Ack(n))
  /\ previousMessageRound' = IF p = 0 THEN currentRound ELSE previousMessageRound
  /\ UNCHANGED <<engineVars, crashRecoveryRound, nextMessageNum,
                 lastSentMessageNum, awaitingAck, requestsSatisfied, lastSubmit, resent>>

(* Mutant of TimedOut: a message is sent again once only. *)
TimedOutOnce(p) ==
  /\ p = 0 /\ awaitingAck /\ previousMessageRound + TimeOutRate < currentRound
  /\ previousMessageRound = lastSubmit

(* The timeout test of performComputation. *)
TimedOut(p) ==
  p = 0 /\ awaitingAck /\ previousMessageRound + TimeOutRate < currentRound

(* The inStream is empty: resendData if the timer has run out, and return. *)
Complete(p) ==
  /\ Computing(p)
  /\ ~FirstSubmitDue(p)
  /\ inStream[p] = <<>>
  /\ Return(p)
  /\ IF TimedOut(p) /\ lastSentMessageNum > 0
     THEN /\ sendMessage(0, Data(lastSentMessageNum))
          /\ restartTimer
          /\ resent' = resent + 1
     ELSE UNCHANGED <<queue, throughputLeft, messagesSent, previousMessageRound,
                      lastFault, resent>>
  /\ UNCHANGED <<test, currentRound, phase, toReceive, inStream,
                 crashRecoveryRound, nextMessageNum, lastSentMessageNum,
                 awaitingAck, requestsSatisfied, lastDeliveredMessageNum,
                 lastSubmit>>

EngineStep ==
  /\ \/ StartRound \/ StartCompute \/ EndRound \/ Finish
     \/ \E c \in Channels : ReceiveFrom(c)
  /\ UNCHANGED <<peerVars, history>>

Returned == phase = "done" /\ UNCHANGED vars

Next ==
  \/ EngineStep
  \/ Submit
  \/ \E p \in Peers : HandleAck(p) \/ HandleData(p) \/ Complete(p)
  \/ Returned

Spec == Init /\ [][Next]_vars
-----------------------------------------------------------------------------
Receiver == partnerId(0)

(* The state has the shape StableDataLinkPeer declares.                    *)
TypeOK ==
  /\ nextMessageNum \in Nat \ {0}
  /\ lastSentMessageNum \in Nat
  /\ awaitingAck \in BOOLEAN
  /\ requestsSatisfied \in Nat
  /\ previousMessageRound \in 0 .. LastRound
  /\ lastDeliveredMessageNum \in [Peers -> Nat]
  /\ messagesSent \in [Peers -> Nat]
  /\ lastFault \in 0 .. LastRound
  /\ lastSubmit \in 0 .. LastRound
  /\ resent \in Nat

(* The link keeps the data-link promise whatever the channels do.          *)
Link == INSTANCE DataLink WITH
          submitted <- lastSentMessageNum,
          delivered <- lastDeliveredMessageNum[Receiver],
          satisfied <- requestsSatisfied

RefinesDataLink == Link!LinkSpec

(* The sender is at most one message ahead of the receiver and never       *)
(* counts a message as satisfied that the receiver has not got, although   *)
(* acks of old messages may be delivered late, twice and out of order.     *)
StopAndWait ==
  /\ requestsSatisfied <= lastDeliveredMessageNum[Receiver]
  /\ lastDeliveredMessageNum[Receiver] <= lastSentMessageNum
  /\ lastSentMessageNum <= requestsSatisfied + 1

(* The "utility" endOfRound reports, 100 * satisfied / messages, is never  *)
(* above 50: a satisfied request has cost a data message and an ack.       *)
UtilityAtMostHalf ==
  2 * requestsSatisfied <= messagesSent[0] + messagesSent[Receiver]

(* However many copies and acks are lost, late or repeated, and whatever   *)
(* is handled in the round in which the timer runs out, the copies of one  *)
(* message are more than timeOutRate rounds apart: an ack in time stops    *)
(* the timer of its message and starts that of the next one, and a copy    *)
(* starts it anew (handleAck, submitTrans, resendData).                    *)
ResendsAreSpaced ==
  resent * (TimeOutRate + 1) <= currentRound - lastSubmit

(* How many rounds a request may stay unanswered after the last fault: the *)
(* timer runs out after TimeOutRate + 1, and the copies that are still     *)
(* queued in the two channels, of which one is read a round, go before the *)
(* message and before its ack.                                             *)
ResponseBound == TimeOutRate + 1 + 2 * Size

(* Every packet travels for one round. *)
DelayOne == \A d \in computeRandomDelay : setDelay(d) = 1

(* Lost messages are recovered, a lost copy and a lost ack of a copy like  *)
(* the first one: on channels of delay 1 and with a timer of at least one  *)
(* round, once packets are neither lost nor duplicated the outstanding     *)
(* request is satisfied and the next one is submitted within ResponseBound *)
(* rounds, and then every second round.                                    *)
RecoversFromLoss ==
  phase = "ended" /\ TimeOutRate >= 1 /\ DelayOne =>
    \/ currentRound <= lastFault + ResponseBound
    \/ currentRound <= lastSubmit + 1
=============================================================================
