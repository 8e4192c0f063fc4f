------------------------- MODULE StableDataLinkProofs -------------------------
(***************************************************************************)
(* Proofs about StableDataLink, for every topology in which peer 0 has a   *)
(* neighbour, every channel configuration (delay, loss, duplication,       *)
(* reordering, capacity, budget), every timeout and any number of rounds.  *)
(***************************************************************************)
EXTENDS StableDataLink, AbstractNetworkProofs, WellFoundedInduction

(* A set of naturals that is not empty has a least element. *)
LEMMA Least ==
  ASSUME NEW T, T \subseteq Nat, T # {} PROVE \E x \in T : \A y \in T : x <= y
<1> DEFINE R == OpToRel(<, Nat)
<1>1. \E x \in T : \A y \in T : ~(<<y, x>> \in R)
  BY NatLessThanWellFounded, WFMin
<1>2. \A x, y \in Nat : x > y => <<y, x>> \in R
  BY DEF OpToRel
<1> HIDE DEF R
<1>3. \A x, y \in Nat : ~(<<y, x>> \in R) => x <= y
  BY <1>2
<1> QED
  BY <1>1, <1>3

(* partnerId is a peer, and the receiver is a neighbour of peer 0. *)
LEMMA Partners ==
  /\ 0 \in Peers
  /\ \A p \in Peers : partnerId(p) \in Peers
  /\ Receiver \in Neighbors[0] /\ Receiver \in Peers /\ Receiver # 0
<1>1. 0 \in Peers /\ 1 \in Peers
  BY NetworkAssumption, LinkAssumption DEF Peers
<1>2. ASSUME NEW p \in Peers, Neighbors[p] # {}
      PROVE  partnerId(p) \in Neighbors[p] /\ Neighbors[p] \subseteq Peers
  <2>1. Neighbors[p] \subseteq Peers /\ Neighbors[p] \subseteq Nat
    BY NetworkAssumption DEF Peers
  <2>2. \E q \in Neighbors[p] : \A r \in Neighbors[p] : q <= r
    BY <1>2, <2>1, Least
  <2> QED
    BY <1>2, <2>1, <2>2 DEF partnerId
<1>3. \A p \in Peers : partnerId(p) \in Peers
  <2> SUFFICES ASSUME NEW p \in Peers PROVE partnerId(p) \in Peers
    OBVIOUS
  <2>1. CASE Neighbors[p] # {}
    BY <2>1, <1>2
  <2>2. CASE Neighbors[p] = {}
    BY <2>2, <1>1 DEF partnerId
  <2> QED
    BY <2>1, <2>2
<1>4. Receiver \in Neighbors[0] /\ Receiver \in Peers
  BY <1>1, <1>2, LinkAssumption DEF Receiver
<1> QED
  BY <1>1, <1>3, <1>4, LinkAssumption

Bodies == [action : {"data", "ack"}, num : Nat]

Packets == [src : Peers, dst : Peers, body : Bodies, round : Nat, delay : Nat]

(* What may travel to peer p: acks of what the receiver has got, and, to   *)
(* the receiver only, data that was submitted.                             *)
Allowed(p) ==
  { b \in Bodies :
      IF b.action = "ack" THEN b.num <= lastDeliveredMessageNum[Receiver]
                          ELSE p = Receiver /\ b.num <= lastSentMessageNum }

Carried(p) == { m \in Packets : m.body \in Allowed(p) }

NetOK ==
  /\ queue \in [Channels -> Seq(Packets)]
  /\ \A c \in Channels : queue[c] \in Seq(Carried(c[2])) /\ Len(queue[c]) <= Size
  /\ throughputLeft \in [Channels -> Int]
  /\ inStream \in [Peers -> Seq(Packets)]
  /\ \A p \in Peers : inStream[p] \in Seq(Carried(p))
  /\ currentRound \in 0 .. LastRound

(* The sender has one request in flight from its first submission on.      *)
SenderOK ==
  /\ nextMessageNum = lastSentMessageNum + 1
  /\ IF awaitingAck THEN lastSentMessageNum = requestsSatisfied + 1
                    ELSE lastSentMessageNum = 0 /\ requestsSatisfied = 0

(* Every submission costs a data message, every new number an ack.         *)
CountOK ==
  /\ lastSentMessageNum <= messagesSent[0]
  /\ lastDeliveredMessageNum[Receiver] <= messagesSent[Receiver]

(* The timer was started in the round of the submission or later, and each *)
(* copy sent since has moved it on by more than timeOutRate rounds.        *)
TimerOK ==
  /\ lastSubmit <= previousMessageRound
  /\ previousMessageRound <= currentRound
  /\ resent * (TimeOutRate + 1) <= previousMessageRound - lastSubmit

Inv == TypeOK /\ NetOK /\ SenderOK /\ StopAndWait /\ CountOK /\ TimerOK

(* What may travel only grows. *)
LEMMA CarriedGrows ==
  ASSUME lastSentMessageNum \in Nat, lastSentMessageNum' \in Nat,
         lastDeliveredMessageNum[Receiver] \in Nat,
         lastDeliveredMessageNum'[Receiver] \in Nat,
         lastSentMessageNum <= lastSentMessageNum',
         lastDeliveredMessageNum[Receiver] <= lastDeliveredMessageNum'[Receiver]
  PROVE  \A p \in Peers : Carried(p) \subseteq Carried(p)' /\ Carried(p)' \subseteq Packets
<1> SUFFICES ASSUME NEW p \in Peers
             PROVE  Carried(p) \subseteq Carried(p)' /\ Carried(p)' \subseteq Packets
  OBVIOUS
<1>0. \A b \in Bodies : b.num \in Nat
  BY DEF Bodies
<1>1. Allowed(p) \subseteq Allowed(p)'
  <2> SUFFICES ASSUME NEW b \in Bodies,
                      IF b.action = "ack"
                      THEN b.num <= lastDeliveredMessageNum[Receiver]
                      ELSE p = Receiver /\ b.num <= lastSentMessageNum
               PROVE  IF b.action = "ack"
                      THEN b.num <= lastDeliveredMessageNum'[Receiver]
                      ELSE p = Receiver /\ b.num <= lastSentMessageNum'
    BY DEF Allowed
  <2> QED
    BY <1>0
<1> QED
  BY <1>1 DEF Carried

(* A message that may travel to the partner of p keeps the network well    *)
(* formed, whatever pushPacket does with it.                               *)
LEMMA SendOK ==
  ASSUME NetOK, NEW p \in Peers, NEW body,
         \A q \in Peers : Carried(q) \subseteq Carried(q)' /\ Carried(q)' \subseteq Packets,
         body \in Allowed(partnerId(p))',
         sendMessage(p, body)
  PROVE  /\ queue' \in [Channels -> Seq(Packets)]
         /\ \A c \in Channels : queue'[c] \in Seq(Carried(c[2])') /\ Len(queue'[c]) <= Size
         /\ throughputLeft' \in [Channels -> Int]
<1> DEFINE C == [c \in Channels |-> Carried(c[2])']
           dst == partnerId(p)
<1>1. dst \in Peers
  BY Partners
<1>2. ASSUME NEW c \in Channels
      PROVE  /\ C[c] = Carried(c[2])' /\ C[c] \subseteq Packets
             /\ queue[c] \in Seq(C[c]) /\ Len(queue[c]) <= Size
  <2>1. c[2] \in Peers
    BY Ends
  <2>2. queue[c] \in Seq(Carried(c[2])) /\ Len(queue[c]) <= Size
    BY DEF NetOK
  <2>3. C[c] = Carried(c[2])' /\ Carried(c[2]) \subseteq C[c] /\ C[c] \subseteq Packets
    BY <2>1
  <2> QED
    BY <2>2, <2>3, SeqMonotonic
<1>3. queue \in [Channels -> Seq(Packets)] /\ throughputLeft \in [Channels -> Int]
      /\ currentRound \in Nat
  BY NetworkAssumption DEF NetOK
<1>4. Carries(Packets, C)
  BY <1>2, <1>3 DEF Carries
<1>5. ASSUME <<p, dst>> \in Channels PROVE Sendable(NewPacket(p, dst, body), C[<<p, dst>>])
  <2> SUFFICES ASSUME NEW d \in Nat \ {0}
               PROVE  [NewPacket(p, dst, body) EXCEPT !.delay = d] \in C[<<p, dst>>]
    BY DEF Sendable
  <2> DEFINE m == [NewPacket(p, dst, body) EXCEPT !.delay = d]
  <2>1. m = [src |-> p, dst |-> dst, body |-> body, round |-> currentRound, delay |-> d]
    BY DEF NewPacket
  <2>2. body \in Bodies
    BY DEF Allowed
  <2>3. m \in Packets
    BY <1>1, <1>3, <2>1, <2>2 DEF Packets
  <2>4. m \in Carried(dst)'
    BY <2>1, <2>3 DEF Carried
  <2> QED
    BY <1>2, <1>5, <2>4
<1> HIDE DEF C, dst
<1>6. unicastTo(p, dst, body)
  BY DEF sendMessage, dst
<1>7. /\ queue' \in [Channels -> Seq(Packets)]
      /\ throughputLeft' \in [Channels -> Int]
      /\ \A c \in Channels : queue'[c] \in Seq(C[c]) /\ Len(queue'[c]) <= Size
  BY <1>1, <1>3, <1>4, <1>5, <1>6, UnicastEffect
<1> QED
  BY <1>2, <1>7

(* The message at the front of the stream of p. *)
LEMMA Front ==
  ASSUME NetOK, NEW p \in Peers, popInStream(p)
  PROVE  /\ Head(inStream[p]).body \in Allowed(p)
         /\ inStream' \in [Peers -> Seq(Packets)]
         /\ \A q \in Peers : inStream'[q] \in Seq(Carried(q))
<1>1. /\ inStream[p] \in Seq(Carried(p)) /\ inStream[p] # <<>>
      /\ inStream \in [Peers -> Seq(Packets)] /\ inStream[p] \in Seq(Packets)
      /\ inStream' = [inStream EXCEPT ![p] = Tail(inStream[p])]
  BY DEF NetOK, popInStream
<1>2. Head(inStream[p]) \in Carried(p) /\ Tail(inStream[p]) \in Seq(Carried(p))
      /\ Tail(inStream[p]) \in Seq(Packets)
  BY <1>1, HeadTailProperties
<1>3. \A q \in Peers : inStream'[q] \in Seq(Carried(q))
  BY <1>1, <1>2 DEF NetOK
<1> QED
  BY <1>1, <1>2, <1>3 DEF Carried

(* The streams stay well formed when more may travel. *)
LEMMA StreamsGrow ==
  ASSUME \A q \in Peers : Carried(q) \subseteq Carried(q)',
         \A q \in Peers : inStream'[q] \in Seq(Carried(q))
  PROVE  \A q \in Peers : inStream'[q] \in Seq(Carried(q)')
<1> SUFFICES ASSUME NEW q \in Peers PROVE inStream'[q] \in Seq(Carried(q)')
  OBVIOUS
<1>1. inStream'[q] \in Seq(Carried(q)) /\ Carried(q) \subseteq Carried(q)'
  OBVIOUS
<1> QED
  BY <1>1, SeqMonotonic

(* A submission is correct when everything submitted so far was delivered. *)
LEMMA SubmitOK ==
  ASSUME Inv, submitTrans, UNCHANGED <<currentRound, lastDeliveredMessageNum>>,
         inStream' \in [Peers -> Seq(Packets)],
         \A q \in Peers : inStream'[q] \in Seq(Carried(q)),
         requestsSatisfied' = lastSentMessageNum,
         lastSentMessageNum <= lastDeliveredMessageNum[Receiver]
  PROVE  Inv'
<1>t. /\ nextMessageNum \in Nat /\ lastSentMessageNum \in Nat /\ requestsSatisfied \in Nat
      /\ lastDeliveredMessageNum \in [Peers -> Nat] /\ messagesSent \in [Peers -> Nat]
      /\ currentRound \in 0 .. LastRound /\ lastFault \in 0 .. LastRound
      /\ nextMessageNum = lastSentMessageNum + 1
      /\ 0 \in Peers /\ Receiver \in Peers /\ Receiver # 0
      /\ NetOK
  BY Partners DEF Inv, TypeOK, NetOK, SenderOK
<1>1. /\ lastSentMessageNum' = lastSentMessageNum + 1
      /\ nextMessageNum' = lastSentMessageNum + 2
      /\ awaitingAck' = TRUE
      /\ previousMessageRound' = currentRound
      /\ lastSubmit' = currentRound
      /\ resent' = 0
  BY <1>t DEF submitTrans, restartTimer
<1>2. sendMessage(0, Data(nextMessageNum))
  BY DEF submitTrans
<1>3. messagesSent' = [messagesSent EXCEPT ![0] = @ + 1] /\ lastFault' \in 0 .. LastRound
  BY <1>t, <1>2 DEF sendMessage, noteFault
<1>4. \A q \in Peers : Carried(q) \subseteq Carried(q)' /\ Carried(q)' \subseteq Packets
  BY <1>t, <1>1, CarriedGrows
<1>5. Data(nextMessageNum) \in Allowed(partnerId(0))'
  BY <1>t, <1>1 DEF Data, Allowed, Bodies, Receiver
<1>6. TypeOK'
  BY <1>t, <1>1, <1>3 DEF TypeOK
<1>7. /\ queue' \in [Channels -> Seq(Packets)]
      /\ \A c \in Channels : queue'[c] \in Seq(Carried(c[2])') /\ Len(queue'[c]) <= Size
      /\ throughputLeft' \in [Channels -> Int]
  BY <1>t, <1>2, <1>4, <1>5, SendOK
<1>8. \A q \in Peers : inStream'[q] \in Seq(Carried(q)')
  BY <1>4, StreamsGrow
<1>9. NetOK'
  BY <1>t, <1>7, <1>8 DEF NetOK
<1>10. SenderOK'
  BY <1>t, <1>1 DEF SenderOK
<1>11. StopAndWait'
  BY <1>t, <1>1 DEF Inv, StopAndWait
<1>12. CountOK'
  BY <1>t, <1>1, <1>3 DEF Inv, CountOK
<1>13. TimerOK'
  BY <1>t, <1>1, LinkAssumption DEF TimerOK
<1> QED
  BY <1>6, <1>9, <1>10, <1>11, <1>12, <1>13 DEF Inv

(* The first submission. *)
LEMMA SubmitStep == ASSUME Inv, Submit PROVE Inv'
<1>1. ~awaitingAck /\ submitTrans
      /\ UNCHANGED <<currentRound, inStream, requestsSatisfied, lastDeliveredMessageNum>>
  BY DEF Submit, FirstSubmitDue, engineVars
<1>2. lastSentMessageNum = 0 /\ requestsSatisfied = 0
  BY <1>1 DEF Inv, SenderOK
<1>3. lastDeliveredMessageNum[Receiver] \in Nat
  BY Partners DEF Inv, TypeOK
<1>4. inStream' \in [Peers -> Seq(Packets)] /\ \A q \in Peers : inStream'[q] \in Seq(Carried(q))
  BY <1>1 DEF Inv, NetOK
<1>5. requestsSatisfied' = lastSentMessageNum
      /\ lastSentMessageNum <= lastDeliveredMessageNum[Receiver]
  BY <1>1, <1>2, <1>3
<1> QED
  BY <1>1, <1>4, <1>5, SubmitOK

(* An ack of the message in flight means that it was delivered. *)
LEMMA AckStep == ASSUME Inv, NEW p \in Peers, HandleAck(p) PROVE Inv'
<1>1. /\ popInStream(p) /\ Head(inStream[p]).body.action = "ack"
      /\ UNCHANGED <<currentRound, lastDeliveredMessageNum>>
  BY DEF HandleAck, engineVars
<1>2. /\ Head(inStream[p]).body \in Allowed(p)
      /\ inStream' \in [Peers -> Seq(Packets)]
      /\ \A q \in Peers : inStream'[q] \in Seq(Carried(q))
  BY <1>1, Front DEF Inv
<1>3. Head(inStream[p]).body.num <= lastDeliveredMessageNum[Receiver]
  BY <1>1, <1>2 DEF Allowed
<1>4. CASE Expected(p)
  <2>1. requestsSatisfied' = requestsSatisfied + 1 /\ submitTrans
    BY <1>4 DEF HandleAck
  <2>2. lastSentMessageNum <= lastDeliveredMessageNum[Receiver]
    BY <1>3, <1>4 DEF Expected
  <2>3. lastSentMessageNum = requestsSatisfied + 1
    BY <1>4 DEF Expected, Inv, SenderOK
  <2>4. requestsSatisfied' = lastSentMessageNum
    BY <2>1, <2>3
  <2> QED
    BY <1>1, <1>2, <2>1, <2>2, <2>4, SubmitOK
<1>5. CASE ~Expected(p)
  <2>1. UNCHANGED <<queue, throughputLeft, peerVars, history, currentRound>>
    BY <1>1, <1>5 DEF HandleAck, peerVars
  <2>2. \A q : Carried(q)' = Carried(q)
    BY <2>1 DEF Carried, Allowed, peerVars, senderVars
  <2>3. NetOK'
    BY <1>2, <2>1, <2>2 DEF Inv, NetOK
  <2> QED
    BY <2>1, <2>3 DEF Inv, TypeOK, SenderOK, StopAndWait, CountOK, TimerOK, peerVars,
       senderVars, history
<1> QED
  BY <1>4, <1>5

(* Data only reaches the receiver, and is at most one ahead of it. *)
LEMMA DataFacts ==
  ASSUME Inv, NEW p \in Peers, HandleData(p)
  PROVE  LET n == Head(inStream[p]).body.num
             d == lastDeliveredMessageNum[Receiver] IN
         /\ p = Receiver /\ p # 0 /\ n \in Nat /\ d \in Nat
         /\ n <= lastSentMessageNum /\ n <= d + 1
         /\ lastDeliveredMessageNum' =
              [lastDeliveredMessageNum EXCEPT ![Receiver] = IF n > d THEN n ELSE d]
<1> DEFINE n == Head(inStream[p]).body.num
           d == lastDeliveredMessageNum[Receiver]
<1>1. popInStream(p) /\ Head(inStream[p]).body.action = "data"
  BY DEF HandleData
<1>2. Head(inStream[p]).body \in Allowed(p)
  BY <1>1, Front DEF Inv
<1>3. p = Receiver /\ n <= lastSentMessageNum /\ n \in Nat
  BY <1>1, <1>2 DEF Allowed, Bodies
<1>4. d \in Nat /\ lastSentMessageNum \in Nat /\ requestsSatisfied \in Nat /\ Receiver # 0
  BY Partners DEF Inv, TypeOK
<1>5. n <= d + 1
  BY <1>3, <1>4 DEF Inv, StopAndWait
<1>6. lastDeliveredMessageNum' =
        [lastDeliveredMessageNum EXCEPT ![Receiver] = IF n > d THEN n ELSE d]
  BY <1>3 DEF HandleData, Newest
<1> QED
  BY <1>3, <1>4, <1>5, <1>6

(* handleData preserves the invariant: only the receiver gets data, and    *)
(* its ack carries a number it has delivered.                              *)
LEMMA DataStep == ASSUME Inv, NEW p \in Peers, HandleData(p) PROVE Inv'
<1> DEFINE n == Head(inStream[p]).body.num
           d == lastDeliveredMessageNum[Receiver]
<1>1. /\ p = Receiver /\ p # 0 /\ n \in Nat /\ d \in Nat
      /\ n <= lastSentMessageNum /\ n <= d + 1
      /\ lastDeliveredMessageNum' =
           [lastDeliveredMessageNum EXCEPT ![Receiver] = IF n > d THEN n ELSE d]
  BY DataFacts
<1>2. /\ popInStream(p) /\ sendMessage(p, Ack(n))
      /\ UNCHANGED <<currentRound, nextMessageNum, lastSentMessageNum, awaitingAck,
                     requestsSatisfied, previousMessageRound, lastSubmit, resent>>
  BY <1>1 DEF HandleData, engineVars
<1>3. /\ inStream' \in [Peers -> Seq(Packets)]
      /\ \A q \in Peers : inStream'[q] \in Seq(Carried(q))
  BY <1>2, Front DEF Inv
<1>t. /\ lastSentMessageNum \in Nat /\ requestsSatisfied \in Nat
      /\ lastDeliveredMessageNum \in [Peers -> Nat] /\ messagesSent \in [Peers -> Nat]
      /\ currentRound \in 0 .. LastRound /\ lastFault \in 0 .. LastRound
      /\ 0 \in Peers /\ Receiver \in Peers /\ Receiver # 0
      /\ NetOK
  BY Partners DEF Inv, TypeOK, NetOK
<1> HIDE DEF n
<1>4. /\ lastDeliveredMessageNum' \in [Peers -> Nat]
      /\ d <= lastDeliveredMessageNum'[Receiver] /\ n <= lastDeliveredMessageNum'[Receiver]
      /\ lastDeliveredMessageNum'[Receiver] <= d + 1
      /\ lastDeliveredMessageNum'[Receiver] <= lastSentMessageNum
  <2>1. d <= lastSentMessageNum
    BY DEF Inv, StopAndWait
  <2>2. lastDeliveredMessageNum'[Receiver] = IF n > d THEN n ELSE d
    BY <1>1, <1>t
  <2>3. lastDeliveredMessageNum' \in [Peers -> Nat]
    BY <1>1, <1>t
  <2> QED
    BY <1>1, <1>t, <2>1, <2>2, <2>3
<1>5. \A q \in Peers : Carried(q) \subseteq Carried(q)' /\ Carried(q)' \subseteq Packets
  BY <1>t, <1>2, <1>4, CarriedGrows
<1>6. Ack(n) \in Allowed(partnerId(p))'
  BY <1>1, <1>4 DEF Ack, Allowed, Bodies
<1>7. messagesSent' = [messagesSent EXCEPT ![p] = @ + 1] /\ lastFault' \in 0 .. LastRound
  BY <1>t, <1>2 DEF sendMessage, noteFault
<1>8. TypeOK'
  BY <1>t, <1>2, <1>4, <1>7 DEF Inv, TypeOK
<1>9. NetOK'
  <2>1. /\ queue' \in [Channels -> Seq(Packets)]
        /\ \A c \in Channels : queue'[c] \in Seq(Carried(c[2])') /\ Len(queue'[c]) <= Size
        /\ throughputLeft' \in [Channels -> Int]
    BY <1>t, <1>2, <1>5, <1>6, SendOK
  <2>2. \A q \in Peers : inStream'[q] \in Seq(Carried(q)')
    BY <1>3, <1>5, StreamsGrow
  <2> QED
    BY <1>t, <1>2, <1>3, <2>1, <2>2 DEF NetOK
<1>10. SenderOK'
  BY <1>2 DEF Inv, SenderOK
<1>11. StopAndWait'
  <2>1. requestsSatisfied <= d /\ lastSentMessageNum <= requestsSatisfied + 1
    BY DEF Inv, StopAndWait
  <2>2. lastDeliveredMessageNum'[Receiver] \in Nat
    BY <1>4, <1>t
  <2> QED
    BY <1>1, <1>2, <1>4, <1>t, <2>1, <2>2 DEF StopAndWait
<1>12. CountOK'
  <2>1. lastSentMessageNum <= messagesSent[0] /\ d <= messagesSent[Receiver]
    BY DEF Inv, CountOK
  <2>2. messagesSent'[0] = messagesSent[0]
        /\ messagesSent'[Receiver] = messagesSent[Receiver] + 1
    BY <1>1, <1>t, <1>7
  <2>3. lastDeliveredMessageNum'[Receiver] \in Nat /\ messagesSent[Receiver] \in Nat
    BY <1>4, <1>t
  <2> QED
    BY <1>1, <1>2, <1>4, <2>1, <2>2, <2>3 DEF CountOK
<1>13. TimerOK'
  BY <1>2 DEF Inv, TimerOK
<1> QED
  BY <1>8, <1>9, <1>10, <1>11, <1>12, <1>13 DEF Inv

(* A retransmission repeats the message in flight. *)
LEMMA CompleteStep == ASSUME Inv, NEW p \in Peers, Complete(p) PROVE Inv'
<1>1. UNCHANGED <<currentRound, inStream, nextMessageNum, lastSentMessageNum, awaitingAck,
                  requestsSatisfied, lastDeliveredMessageNum, lastSubmit>>
  BY DEF Complete
<1>2. \A q : Carried(q)' = Carried(q)
  BY <1>1 DEF Carried, Allowed
<1>t. /\ lastSentMessageNum \in Nat /\ messagesSent \in [Peers -> Nat]
      /\ currentRound \in 0 .. LastRound /\ lastFault \in 0 .. LastRound
      /\ 0 \in Peers /\ Receiver \in Peers /\ Receiver # 0
      /\ NetOK
  BY Partners DEF Inv, TypeOK, NetOK
<1>3. CASE TimedOut(p) /\ lastSentMessageNum > 0
  <2>1. /\ sendMessage(0, Data(lastSentMessageNum))
        /\ previousMessageRound' = currentRound /\ resent' = resent + 1
    BY <1>3 DEF Complete, restartTimer
  <2>2. messagesSent' = [messagesSent EXCEPT ![0] = @ + 1] /\ lastFault' \in 0 .. LastRound
    BY <1>t, <2>1 DEF sendMessage, noteFault
  <2>3. Data(lastSentMessageNum) \in Allowed(partnerId(0))'
    BY <1>t, <1>1 DEF Data, Allowed, Bodies, Receiver
  <2>4. \A q \in Peers : Carried(q) \subseteq Carried(q)' /\ Carried(q)' \subseteq Packets
    BY <1>2 DEF Carried
  <2>5. /\ queue' \in [Channels -> Seq(Packets)]
        /\ \A c \in Channels : queue'[c] \in Seq(Carried(c[2])') /\ Len(queue'[c]) <= Size
        /\ throughputLeft' \in [Channels -> Int]
    BY <1>t, <2>1, <2>3, <2>4, SendOK
  <2>6. NetOK'
    BY <1>1, <1>2, <1>t, <2>5 DEF NetOK
  <2>7. TypeOK'
    BY <1>1, <1>t, <2>1, <2>2 DEF Inv, TypeOK
  <2>8. CountOK'
    <3>1. /\ messagesSent'[0] = messagesSent[0] + 1 /\ messagesSent[0] \in Nat
          /\ messagesSent'[Receiver] = messagesSent[Receiver]
      BY <1>t, <2>2
    <3> QED
      BY <1>1, <1>t, <3>1 DEF Inv, CountOK
  <2>9. TimerOK'
    <3> DEFINE k == TimeOutRate + 1
    <3>1. /\ resent \in Nat /\ k \in Nat /\ currentRound \in Nat
          /\ previousMessageRound \in Nat /\ lastSubmit \in Nat
      BY <1>t, LinkAssumption, NetworkAssumption DEF Inv, TypeOK
    <3>2. previousMessageRound + k <= currentRound
      BY <1>3, <3>1, LinkAssumption DEF TimedOut
    <3>3. /\ resent * k <= previousMessageRound - lastSubmit
          /\ lastSubmit <= previousMessageRound
      BY DEF Inv, TimerOK
    <3>4. resent * k \in Nat /\ (resent + 1) * k = resent * k + k
      BY <3>1
    <3>5. /\ lastSubmit <= currentRound
          /\ (resent + 1) * k <= currentRound - lastSubmit
      BY <3>1, <3>2, <3>3, <3>4
    <3> QED
      BY <1>1, <2>1, <3>1, <3>5 DEF TimerOK
  <2> QED
    BY <1>1, <2>6, <2>7, <2>8, <2>9 DEF Inv, SenderOK, StopAndWait
<1>4. CASE ~(TimedOut(p) /\ lastSentMessageNum > 0)
  <2>1. UNCHANGED <<queue, throughputLeft, messagesSent, previousMessageRound, lastFault,
                    resent>>
    BY <1>4 DEF Complete
  <2>2. NetOK'
    BY <1>1, <1>2, <1>t, <2>1 DEF NetOK
  <2> QED
    BY <1>1, <2>1, <2>2 DEF Inv, TypeOK, SenderOK, StopAndWait, CountOK, TimerOK
<1> QED
  BY <1>3, <1>4

(* The engine moves packets and counts rounds. *)
LEMMA EngineStepOK == ASSUME Inv, EngineStep \/ UNCHANGED vars PROVE Inv'
<1>1. UNCHANGED <<peerVars, history>>
  BY DEF EngineStep, vars
<1>2. \A q : Carried(q)' = Carried(q)
  BY <1>1 DEF Carried, Allowed, peerVars, senderVars
<1>t. NetOK /\ currentRound \in 0 .. LastRound /\ LastRound \in Nat
  BY NetworkAssumption DEF Inv, NetOK
<1>3. NetOK'
  <2>1. CASE StartRound
    BY <1>2, <1>t, <2>1 DEF StartRound, NetOK
  <2>2. CASE StartCompute \/ EndRound \/ Finish \/ UNCHANGED vars
    <3>1. UNCHANGED <<currentRound, queue, throughputLeft, inStream>>
      BY <2>2 DEF StartCompute, EndRound, Finish, vars, netVars, engineVars
    <3> QED
      BY <1>2, <1>t, <3>1 DEF NetOK
  <2>3. ASSUME NEW c \in Channels, ReceiveFrom(c) PROVE NetOK'
    <3>1. c[2] \in Peers /\ UNCHANGED <<currentRound, throughputLeft>>
      BY <2>3, Ends DEF ReceiveFrom
    <3>2. Reads(Packets, Carried(c[2]), Carried(c[2]), c)
      BY <1>t, <3>1 DEF NetOK, Reads, Arrived, Carried
    <3>3. /\ queue' \in [Channels -> Seq(Packets)]
          /\ inStream' \in [Peers -> Seq(Packets)]
          /\ queue'[c] \in Seq(Carried(c[2])) /\ inStream'[c[2]] \in Seq(Carried(c[2]))
          /\ \A e \in Channels : e # c => queue'[e] = queue[e]
          /\ \A p \in Peers : p # c[2] => inStream'[p] = inStream[p]
          /\ Moved(c)
      BY <2>3, <3>2, ReceiveEffect
    <3>4. Len(queue'[c]) <= Size
      <4>1. PICK k \in 0 .. Len(queue[c]) : Len(queue'[c]) = Len(queue[c]) - k
        BY <3>3 DEF Moved
      <4>2. Len(queue[c]) \in Nat /\ Len(queue[c]) <= Size
        BY <1>t, LenProperties DEF NetOK
      <4> QED
        BY <4>1, <4>2, ChannelAssumption
    <3>5. \A e \in Channels : queue'[e] \in Seq(Carried(e[2])) /\ Len(queue'[e]) <= Size
      BY <1>t, <3>3, <3>4 DEF NetOK
    <3>6. \A p \in Peers : inStream'[p] \in Seq(Carried(p))
      BY <1>t, <3>3 DEF NetOK
    <3> QED
      BY <1>2, <1>t, <3>1, <3>3, <3>5, <3>6 DEF NetOK
  <2> QED
    BY <2>1, <2>2, <2>3 DEF EngineStep
<1>4. TimerOK'
  <2>1. currentRound' = currentRound \/ currentRound' = currentRound + 1
    BY DEF EngineStep, StartRound, StartCompute, EndRound, Finish, ReceiveFrom, vars,
       netVars, engineVars
  <2>2. UNCHANGED <<lastSubmit, previousMessageRound, resent>>
    BY <1>1 DEF peerVars, senderVars, history
  <2>3. previousMessageRound \in Nat /\ previousMessageRound <= currentRound
    BY <1>t DEF Inv, TypeOK, TimerOK
  <2>4. previousMessageRound <= currentRound'
    BY <1>t, <2>1, <2>3
  <2> QED
    BY <2>2, <2>4 DEF Inv, TimerOK
<1> QED
  BY <1>1, <1>3, <1>4 DEF Inv, TypeOK, SenderOK, StopAndWait, CountOK, peerVars,
     senderVars, history

(* The inductive invariant of the data link. *)
THEOREM Invariance == Spec => []Inv
<1>1. Init => Inv
  <2> SUFFICES ASSUME Init PROVE Inv
    OBVIOUS
  <2>i. /\ currentRound = 0
        /\ queue = [c \in Channels |-> <<>>]
        /\ throughputLeft = [c \in Channels |-> Throughput(LastRound, 0)]
        /\ inStream = [p \in Peers |-> <<>>]
        /\ Throughput(LastRound, 0) \in Int
    BY FreshOK DEF Init, NetInit
  <2>1. TypeOK
    <3>1. 0 \in 0 .. LastRound /\ 1 \in Nat \ {0}
      BY NetworkAssumption
    <3>2. lastDeliveredMessageNum \in [Peers -> Nat] /\ messagesSent \in [Peers -> Nat]
      BY DEF Init
    <3> QED
      BY <3>1, <3>2 DEF Init, TypeOK
  <2>2. NetOK
    <3>1. /\ queue \in [Channels -> Seq(Packets)] /\ inStream \in [Peers -> Seq(Packets)]
          /\ \A c \in Channels : queue[c] \in Seq(Carried(c[2])) /\ Len(queue[c]) = 0
          /\ \A p \in Peers : inStream[p] \in Seq(Carried(p))
      BY <2>i, EmptySeq
    <3>2. throughputLeft \in [Channels -> Int] /\ currentRound \in 0 .. LastRound
      BY <2>i, NetworkAssumption
    <3> QED
      BY <3>1, <3>2, ChannelAssumption DEF NetOK
  <2>3. SenderOK
    BY DEF Init, SenderOK
  <2>4. StopAndWait /\ CountOK
    BY Partners DEF Init, StopAndWait, CountOK
  <2>5. TimerOK
    BY <2>i, LinkAssumption DEF Init, TimerOK
  <2> QED
    BY <2>1, <2>2, <2>3, <2>4, <2>5 DEF Inv
<1>2. Inv /\ [Next]_vars => Inv'
  BY SubmitStep, AckStep, DataStep, CompleteStep, EngineStepOK DEF Next, Returned
<1> QED
  BY <1>1, <1>2, PTL DEF Spec

(* Type correctness of the state StableDataLinkPeer declares: the numbers  *)
(* of messages, acks and sends stay natural numbers, and the rounds kept   *)
(* lie within the test.                                                    *)
THEOREM TypeCorrect == Spec => []TypeOK
<1>1. Inv => TypeOK
  BY DEF Inv
<1> QED
  BY <1>1, Invariance, PTL

(* The sender counts only what the receiver has got and is at most one     *)
(* message ahead, over channels that delay, drop, duplicate and reorder.   *)
THEOREM StopAndWaitTheorem == Spec => []StopAndWait
<1>1. Inv => StopAndWait
  BY DEF Inv
<1> QED
  BY <1>1, Invariance, PTL

(* The utility endOfRound reports is never above 50 percent.               *)
THEOREM UtilityTheorem == Spec => []UtilityAtMostHalf
<1>1. Inv => UtilityAtMostHalf
  <2> SUFFICES ASSUME Inv PROVE UtilityAtMostHalf
    OBVIOUS
  <2>1. /\ requestsSatisfied \in Nat /\ lastSentMessageNum \in Nat
        /\ lastDeliveredMessageNum[Receiver] \in Nat
        /\ messagesSent[0] \in Nat /\ messagesSent[Receiver] \in Nat
    BY Partners DEF Inv, TypeOK
  <2>2. /\ requestsSatisfied <= lastDeliveredMessageNum[Receiver]
        /\ lastDeliveredMessageNum[Receiver] <= lastSentMessageNum
        /\ lastSentMessageNum <= messagesSent[0]
        /\ lastDeliveredMessageNum[Receiver] <= messagesSent[Receiver]
    BY DEF Inv, StopAndWait, CountOK
  <2> QED
    BY <2>1, <2>2 DEF UtilityAtMostHalf
<1> QED
  BY <1>1, Invariance, PTL

(* The copies of one message are more than timeOutRate rounds apart: no    *)
(* order of acks, late acks and timeouts sends one earlier, since both     *)
(* submitTrans and resendData start the timer anew.                        *)
THEOREM SpacingTheorem == Spec => []ResendsAreSpaced
<1>1. Inv => ResendsAreSpaced
  <2> SUFFICES ASSUME Inv PROVE ResendsAreSpaced
    OBVIOUS
  <2> DEFINE sent == resent * (TimeOutRate + 1)
  <2>1. /\ resent \in Nat /\ TimeOutRate \in Nat /\ currentRound \in Nat
        /\ previousMessageRound \in Nat /\ lastSubmit \in Nat
    BY LinkAssumption, NetworkAssumption DEF Inv, TypeOK, NetOK
  <2>2. sent \in Nat
    BY <2>1
  <2>3. previousMessageRound <= currentRound /\ sent <= previousMessageRound - lastSubmit
    BY DEF Inv, TimerOK
  <2> HIDE DEF sent
  <2>4. sent <= currentRound - lastSubmit
    BY <2>1, <2>2, <2>3
  <2> QED
    BY <2>4 DEF ResendsAreSpaced, sent
<1> QED
  BY <1>1, Invariance, PTL

(* StableDataLinkPeer implements the abstract data link: every step is a   *)
(* step of DataLink or leaves its state alone.                             *)
THEOREM Refinement == Spec => RefinesDataLink
<1>1. Init => Link!LinkInit
  BY Partners DEF Init, Link!LinkInit
<1>2. ASSUME Inv, [Next]_vars PROVE [Link!LinkNext]_(Link!linkVars)
  <2>t. /\ lastSentMessageNum \in Nat /\ requestsSatisfied \in Nat
        /\ lastDeliveredMessageNum[Receiver] \in Nat /\ Receiver \in Peers
        /\ lastDeliveredMessageNum \in [Peers -> Nat]
        /\ nextMessageNum = lastSentMessageNum + 1
        /\ requestsSatisfied <= lastDeliveredMessageNum[Receiver]
    BY <1>2, Partners DEF Inv, TypeOK, SenderOK, StopAndWait
  <2>u. ASSUME UNCHANGED <<lastSentMessageNum, lastDeliveredMessageNum, requestsSatisfied>>
        PROVE  [Link!LinkNext]_(Link!linkVars)
    BY <2>u DEF Link!linkVars
  <2>1. CASE Submit
    <3>1. lastSentMessageNum = 0 /\ lastSentMessageNum' = 1
          /\ UNCHANGED <<lastDeliveredMessageNum, requestsSatisfied>>
      BY <1>2, <2>1, <2>t DEF Submit, FirstSubmitDue, submitTrans, Inv, SenderOK
    <3> QED
      BY <3>1 DEF Link!LinkNext, Link!SubmitFirst
  <2>2. ASSUME NEW p \in Peers, HandleAck(p) PROVE [Link!LinkNext]_(Link!linkVars)
    <3>1. CASE Expected(p)
      <4>1. popInStream(p) /\ Head(inStream[p]).body.action = "ack"
            /\ requestsSatisfied' = requestsSatisfied + 1 /\ submitTrans
            /\ UNCHANGED lastDeliveredMessageNum
        BY <2>2, <3>1 DEF HandleAck
      <4>2. Head(inStream[p]).body \in Allowed(p)
        BY <1>2, <4>1, Front DEF Inv
      <4>3. lastSentMessageNum <= lastDeliveredMessageNum[Receiver]
        BY <3>1, <4>1, <4>2 DEF Allowed, Expected
      <4>4. lastSentMessageNum = requestsSatisfied + 1
        BY <1>2, <3>1 DEF Expected, Inv, SenderOK
      <4>5. lastSentMessageNum' = lastSentMessageNum + 1
        BY <2>t, <4>1 DEF submitTrans
      <4>6. Link!SatisfyAndSubmit
        BY <2>t, <4>1, <4>3, <4>4, <4>5 DEF Link!SatisfyAndSubmit
      <4> QED
        BY <4>6 DEF Link!LinkNext
    <3>2. CASE ~Expected(p)
      BY <2>2, <2>u, <3>2 DEF HandleAck, senderVars
    <3> QED
      BY <3>1, <3>2
  <2>3. ASSUME NEW p \in Peers, HandleData(p) PROVE [Link!LinkNext]_(Link!linkVars)
    <3> DEFINE n == Head(inStream[p]).body.num
               d == lastDeliveredMessageNum[Receiver]
    <3>1. /\ n \in Nat /\ d \in Nat /\ n <= lastSentMessageNum /\ n <= d + 1
          /\ lastDeliveredMessageNum' =
               [lastDeliveredMessageNum EXCEPT ![Receiver] = IF n > d THEN n ELSE d]
      BY <1>2, <2>3, DataFacts
    <3>2. UNCHANGED <<lastSentMessageNum, requestsSatisfied>>
      BY <2>3 DEF HandleData
    <3> HIDE DEF n
    <3>3. lastDeliveredMessageNum'[Receiver] = IF n > d THEN n ELSE d
      BY <2>t, <3>1
    <3>4. CASE n > d
      <4>1. d < lastSentMessageNum /\ lastDeliveredMessageNum'[Receiver] = d + 1
        BY <2>t, <3>1, <3>3, <3>4
      <4> QED
        BY <3>2, <4>1 DEF Link!LinkNext, Link!Deliver
    <3>5. CASE ~(n > d)
      BY <3>2, <3>3, <3>5 DEF Link!linkVars
    <3> QED
      BY <3>4, <3>5
  <2>4. ASSUME NEW p \in Peers, Complete(p) PROVE [Link!LinkNext]_(Link!linkVars)
    BY <2>4, <2>u DEF Complete
  <2>5. CASE EngineStep \/ UNCHANGED vars
    BY <2>5, <2>u DEF EngineStep, vars, peerVars, senderVars
  <2> QED
    BY <1>2, <2>1, <2>2, <2>3, <2>4, <2>5 DEF Next, Returned
<1>3. Inv /\ [Next]_vars => [Link!LinkNext]_(Link!linkVars)
  BY <1>2
<1> QED
  BY <1>1, <1>3, Invariance, PTL DEF Spec, RefinesDataLink, Link!LinkSpec
=============================================================================
