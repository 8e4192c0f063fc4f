----------------------------- MODULE AltBitProofs -----------------------------
(***************************************************************************)
(* Proofs about AltBit, for every channel configuration (delay, loss,      *)
(* duplication, capacity, budget), every timeout and any number of rounds. *)
(***************************************************************************)
EXTENDS AltBit, AbstractNetworkProofs

(* The two peers. *)
LEMMA TwoPeers == Peers = {0, 1} /\ 0 # 1 /\ LastRound \in Nat /\ 0 \in 0 .. LastRound
  BY NetworkAssumption, AltBitAssumption DEF Peers

Bodies == [action : {"data", "ack"}, num : Nat \ {0}]

Packets == [src : Peers, dst : Peers, body : Bodies, round : Nat, delay : Nat]

(* What may travel over channel c: data that was submitted from peer 0 to  *)
(* peer 1; in the other direction an ack of 1, which peer 1 also sends on  *)
(* its timer before it has received anything, or of what it has received.  *)
Allowed(c) ==
  { b \in Bodies :
      \/ c = <<0, 1>> /\ b.action = "data" /\ b.num <= ns[0]
      \/ c = <<1, 0>> /\ b.action = "ack" /\ b.num \in received \cup {1} }

Carried(c) == { m \in Packets : m.body \in Allowed(c) }

(* The channel peer p reads from. *)
To(p) == <<1 - p, p>>

NetOK ==
  /\ queue \in [Channels -> Seq(Packets)]
  /\ \A c \in Channels : queue[c] \in Seq(Carried(c)) /\ Len(queue[c]) <= Size
  /\ throughputLeft \in [Channels -> Int]
  /\ inStream \in [Peers -> Seq(Packets)]
  /\ \A p \in Peers : inStream[p] \in Seq(Carried(To(p)))
  /\ currentRound \in 0 .. LastRound

(* The receiver's number is its first one or one it has received, and the  *)
(* sender has submitted it.                                                *)
ReceiverOK == ns[1] \in received \cup {1} /\ ns[1] <= ns[0]

Inv == TypeOK /\ NetOK /\ SatisfiedWasReceived /\ ReceiverOK

(* The numbers v, then those of the packets of s, then those of q do not   *)
(* decrease.                                                               *)
Chain(v, s, q) ==
  /\ \A i \in 1 .. Len(s) : v <= s[i].body.num
  /\ \A i \in 1 .. Len(q) : v <= q[i].body.num
  /\ \A i, j \in 1 .. Len(s) : i < j => s[i].body.num <= s[j].body.num
  /\ \A i, j \in 1 .. Len(q) : i < j => q[i].body.num <= q[j].body.num
  /\ \A i \in 1 .. Len(s), j \in 1 .. Len(q) : s[i].body.num <= q[j].body.num

(* The packets queued from peer 0 to peer 1. *)
Pipe == IF <<0, 1>> \in Channels THEN queue[<<0, 1>>] ELSE <<>>

(* The data on its way to the receiver continues the receiver's number.    *)
OrderOK == TRUE \notin Reorder => Chain(ns[1], inStream[1], Pipe)

(* What may travel only grows. *)
LEMMA CarriedGrows ==
  ASSUME ns[0] \in Nat, ns'[0] \in Nat, ns[0] <= ns'[0], received \subseteq received'
  PROVE  \A c : Carried(c) \subseteq Carried(c)' /\ Carried(c)' \subseteq Packets
<1> SUFFICES ASSUME NEW c
             PROVE  Carried(c) \subseteq Carried(c)' /\ Carried(c)' \subseteq Packets
  OBVIOUS
<1>0. \A b \in Bodies : b.num \in Nat
  BY DEF Bodies
<1>1. ASSUME NEW b \in Allowed(c) PROVE b \in Allowed(c)'
  <2>1. b \in Bodies /\ b.num \in Nat
    BY <1>0 DEF Allowed
  <2>2. b.num <= ns[0] => b.num <= ns'[0]
    BY <2>1
  <2> QED
    BY <2>1, <2>2 DEF Allowed
<1> QED
  BY <1>1 DEF Carried

(* What a send needs of the network. *)
LEMMA Sends ==
  ASSUME NetOK, NEW p \in Peers, NEW dst \in Peers, NEW body,
         \A c : Carried(c) \subseteq Carried(c)' /\ Carried(c)' \subseteq Packets,
         body \in Allowed(<<p, dst>>)'
  PROVE  LET C == [c \in Channels |-> Carried(c)'] IN
         /\ Carries(Packets, C) /\ throughputLeft \in [Channels -> Int]
         /\ <<p, dst>> \in Channels => Sendable(NewPacket(p, dst, body), C[<<p, dst>>])
<1> DEFINE C == [c \in Channels |-> Carried(c)']
<1>1. ASSUME NEW c \in Channels
      PROVE  /\ C[c] = Carried(c)' /\ C[c] \subseteq Packets
             /\ queue[c] \in Seq(C[c]) /\ Len(queue[c]) <= Size
  <2>1. queue[c] \in Seq(Carried(c)) /\ Len(queue[c]) <= Size
    BY DEF NetOK
  <2>2. C[c] = Carried(c)' /\ Carried(c) \subseteq C[c] /\ C[c] \subseteq Packets
    OBVIOUS
  <2> QED
    BY <2>1, <2>2, SeqMonotonic
<1>2. queue \in [Channels -> Seq(Packets)] /\ throughputLeft \in [Channels -> Int]
      /\ currentRound \in Nat
  BY NetworkAssumption DEF NetOK
<1>3. Carries(Packets, C)
  BY <1>1, <1>2 DEF Carries
<1>4. ASSUME <<p, dst>> \in Channels PROVE Sendable(NewPacket(p, dst, body), C[<<p, dst>>])
  <2> SUFFICES ASSUME NEW d \in Nat \ {0}
               PROVE  [NewPacket(p, dst, body) EXCEPT !.delay = d] \in C[<<p, dst>>]
    BY DEF Sendable
  <2> DEFINE m == [NewPacket(p, dst, body) EXCEPT !.delay = d]
  <2>1. m = [src |-> p, dst |-> dst, body |-> body, round |-> currentRound, delay |-> d]
    BY DEF NewPacket
  <2>2. body \in Bodies
    BY DEF Allowed
  <2>3. m \in Packets
    BY <1>2, <2>1, <2>2 DEF Packets
  <2>4. m \in Carried(<<p, dst>>)'
    BY <2>1, <2>3 DEF Carried
  <2> QED
    BY <1>1, <1>4, <2>4
<1> QED
  BY <1>2, <1>3, <1>4

(* A message that may travel keeps the queues well formed, whatever        *)
(* pushPacket does with it.                                                *)
LEMMA SendOK ==
  ASSUME NetOK, NEW p \in Peers, NEW dst \in Peers, NEW body,
         \A c : Carried(c) \subseteq Carried(c)' /\ Carried(c)' \subseteq Packets,
         body \in Allowed(<<p, dst>>)', sendMessage(p, dst, body)
  PROVE  /\ queue' \in [Channels -> Seq(Packets)]
         /\ \A c \in Channels : queue'[c] \in Seq(Carried(c)') /\ Len(queue'[c]) <= Size
         /\ throughputLeft' \in [Channels -> Int]
<1> DEFINE C == [c \in Channels |-> Carried(c)']
<1>1. /\ Carries(Packets, C) /\ throughputLeft \in [Channels -> Int]
      /\ <<p, dst>> \in Channels => Sendable(NewPacket(p, dst, body), C[<<p, dst>>])
  BY Sends
<1>2. unicastTo(p, dst, body) /\ \A c \in Channels : C[c] = Carried(c)'
  BY DEF sendMessage
<1> HIDE DEF C
<1>3. /\ queue' \in [Channels -> Seq(Packets)]
      /\ throughputLeft' \in [Channels -> Int]
      /\ \A c \in Channels : queue'[c] \in Seq(C[c]) /\ Len(queue'[c]) <= Size
  BY <1>1, <1>2, UnicastEffect
<1> QED
  BY <1>2, <1>3

(* The message at the front of the stream of p. *)
LEMMA Front ==
  ASSUME NetOK, NEW p \in Peers, popInStream(p)
  PROVE  /\ Head(inStream[p]).body \in Allowed(To(p))
         /\ inStream' \in [Peers -> Seq(Packets)]
         /\ \A q \in Peers : inStream'[q] \in Seq(Carried(To(q)))
<1>1. /\ inStream[p] \in Seq(Carried(To(p))) /\ inStream[p] # <<>>
      /\ inStream \in [Peers -> Seq(Packets)] /\ inStream[p] \in Seq(Packets)
      /\ inStream' = [inStream EXCEPT ![p] = Tail(inStream[p])]
  BY DEF NetOK, popInStream
<1>2. Head(inStream[p]) \in Carried(To(p)) /\ Tail(inStream[p]) \in Seq(Carried(To(p)))
      /\ Tail(inStream[p]) \in Seq(Packets)
  BY <1>1, HeadTailProperties
<1>3. \A q \in Peers : inStream'[q] \in Seq(Carried(To(q)))
  BY <1>1, <1>2 DEF NetOK
<1> QED
  BY <1>1, <1>2, <1>3 DEF Carried

(* The network stays well formed when queues and streams do. *)
LEMMA NetStep ==
  ASSUME \A c : Carried(c) \subseteq Carried(c)', currentRound' \in 0 .. LastRound,
         queue' \in [Channels -> Seq(Packets)],
         \A c \in Channels : queue'[c] \in Seq(Carried(c)') /\ Len(queue'[c]) <= Size,
         throughputLeft' \in [Channels -> Int],
         inStream' \in [Peers -> Seq(Packets)],
         \A q \in Peers : inStream'[q] \in Seq(Carried(To(q)))
  PROVE  NetOK'
<1>1. ASSUME NEW q \in Peers PROVE inStream'[q] \in Seq(Carried(To(q))')
  <2>1. inStream'[q] \in Seq(Carried(To(q))) /\ Carried(To(q)) \subseteq Carried(To(q))'
    OBVIOUS
  <2> QED
    BY <2>1, SeqMonotonic
<1>2. \A q : To(q)' = To(q)
  BY DEF To
<1> QED
  BY <1>1, <1>2 DEF NetOK

(* An ack reaches only peer 0, data only peer 1. *)
LEMMA Direction ==
  ASSUME NetOK, NEW p \in Peers, popInStream(p)
  PROVE  LET b == Head(inStream[p]).body IN
         /\ b.num \in Nat \ {0}
         /\ b.action = "ack" => p = 0 /\ b.num \in received \cup {1}
         /\ b.action = "data" => p = 1 /\ b.num <= ns[0]
<1> DEFINE b == Head(inStream[p]).body
<1>1. b \in Allowed(To(p)) /\ b.num \in Nat \ {0}
  BY Front DEF Allowed, Bodies
<1>2. p = 0 \/ p = 1
  BY TwoPeers
<1>3. To(0) = <<1, 0>> /\ To(1) = <<0, 1>>
  BY DEF To
<1>4. CASE p = 0
  BY <1>1, <1>3, <1>4 DEF Allowed
<1>5. CASE p = 1
  BY <1>1, <1>3, <1>5 DEF Allowed
<1> QED
  BY <1>1, <1>2, <1>4, <1>5

(* A matching ack: its number was received, unless it is the first.        *)
LEMMA AckStep == ASSUME Inv, NEW p \in Peers, HandleAck(p) PROVE Inv'
<1> DEFINE k == Head(inStream[p]).body.num
<1>1. /\ popInStream(p) /\ Head(inStream[p]).body.action = "ack"
      /\ UNCHANGED <<currentRound, received>>
  BY DEF HandleAck, engineVars
<1>2. NetOK /\ TypeOK /\ SatisfiedWasReceived /\ ReceiverOK
  BY DEF Inv
<1>3. p = 0 /\ k \in received \cup {1}
  BY <1>1, <1>2, Direction
<1>4. /\ inStream' \in [Peers -> Seq(Packets)]
      /\ \A q \in Peers : inStream'[q] \in Seq(Carried(To(q)))
  BY <1>1, <1>2, Front
<1>t. /\ ns \in [Peers -> Nat \ {0}] /\ requestsSatisfied \in Nat
      /\ messagesSent \in [Peers -> Nat] /\ received \subseteq Nat
      /\ previousMessageRound \in [Peers -> 0 .. LastRound]
      /\ currentRound \in 0 .. LastRound /\ 0 \in Peers /\ 1 \in Peers
      /\ ns[0] \in Nat /\ ns[1] \in Nat
  BY <1>2, TwoPeers DEF TypeOK, NetOK
<1>5. CASE Matches(p)
  <2>1. /\ previousMessageRound' = [previousMessageRound EXCEPT ![0] = currentRound]
        /\ requestsSatisfied' = requestsSatisfied + 1
        /\ ns' = [ns EXCEPT ![0] = @ + 1]
        /\ sendMessage(0, 1, Data(ns[0] + 1))
        /\ k = ns[0]
    BY <1>3, <1>5 DEF HandleAck, restartTimer, submitTrans, Matches
  <2>2. ns' \in [Peers -> Nat \ {0}] /\ ns'[0] = ns[0] + 1 /\ ns'[1] = ns[1]
    BY <1>t, <2>1
  <2>3. \A c : Carried(c) \subseteq Carried(c)' /\ Carried(c)' \subseteq Packets
    BY <1>t, <1>1, <2>2, CarriedGrows
  <2>4. Data(ns[0] + 1) \in Allowed(<<0, 1>>)'
    BY <1>t, <2>2 DEF Data, Allowed, Bodies
  <2>5. NetOK'
    BY <1>1, <1>2, <1>4, <1>t, <2>1, <2>3, <2>4, SendOK, NetStep
  <2>6. TypeOK'
    BY <1>t, <1>1, <2>1, <2>2 DEF TypeOK, sendMessage
  <2>7. SatisfiedWasReceived'
    <3>1. ns[0] = requestsSatisfied + 1 /\ 2 .. requestsSatisfied \subseteq received
      BY <1>2 DEF SatisfiedWasReceived
    <3>2. ns'[0] = requestsSatisfied' + 1
      BY <2>1, <2>2, <3>1
    <3>3. ASSUME NEW m \in 2 .. requestsSatisfied' PROVE m \in received
      <4>1. m \in 2 .. requestsSatisfied \/ (m = ns[0] /\ m # 1)
        BY <1>t, <2>1, <3>1
      <4> QED
        BY <1>3, <2>1, <3>1, <4>1
    <3> QED
      BY <1>1, <3>2, <3>3 DEF SatisfiedWasReceived
  <2>8. ReceiverOK'
    BY <1>1, <1>2, <1>t, <2>2 DEF ReceiverOK
  <2> QED
    BY <2>5, <2>6, <2>7, <2>8 DEF Inv
<1>6. CASE ~Matches(p)
  <2>1. UNCHANGED <<queue, throughputLeft, peerVars, currentRound>>
    BY <1>1, <1>6 DEF HandleAck, peerVars
  <2>2. \A c : Carried(c)' = Carried(c)
    BY <2>1 DEF Carried, Allowed, peerVars
  <2>3. NetOK'
    BY <1>2, <1>4, <2>1, <2>2, NetStep DEF NetOK
  <2> QED
    BY <1>2, <2>1, <2>3 DEF Inv, TypeOK, SatisfiedWasReceived, ReceiverOK, peerVars
<1> QED
  BY <1>5, <1>6

(* Data: the receiver takes its number over and acknowledges it. *)
LEMMA DataStep == ASSUME Inv, NEW p \in Peers, HandleData(p) PROVE Inv'
<1> DEFINE k == Head(inStream[p]).body.num
<1>1. /\ popInStream(p) /\ Head(inStream[p]).body.action = "data"
      /\ UNCHANGED <<currentRound, requestsSatisfied>>
  BY DEF HandleData, engineVars
<1>2. NetOK /\ TypeOK /\ SatisfiedWasReceived /\ ReceiverOK
  BY DEF Inv
<1>3. p = 1 /\ k \in Nat \ {0} /\ k <= ns[0]
  BY <1>1, <1>2, Direction
<1>4. /\ inStream' \in [Peers -> Seq(Packets)]
      /\ \A q \in Peers : inStream'[q] \in Seq(Carried(To(q)))
  BY <1>1, <1>2, Front
<1>t. /\ ns \in [Peers -> Nat \ {0}] /\ requestsSatisfied \in Nat
      /\ messagesSent \in [Peers -> Nat] /\ received \subseteq Nat
      /\ previousMessageRound \in [Peers -> 0 .. LastRound]
      /\ currentRound \in 0 .. LastRound /\ 0 \in Peers /\ 1 \in Peers
      /\ ns[0] \in Nat
  BY <1>2, TwoPeers DEF TypeOK, NetOK
<1>5. /\ ns' = [ns EXCEPT ![1] = k] /\ sendMessage(1, 0, Ack(k))
      /\ received' = received \cup {k}
      /\ previousMessageRound' = [previousMessageRound EXCEPT ![1] = currentRound]
  BY <1>3 DEF HandleData, restartTimer
<1> HIDE DEF k
<1>6. ns' \in [Peers -> Nat \ {0}] /\ ns'[0] = ns[0] /\ ns'[1] = k
  BY <1>t, <1>3, <1>5, TwoPeers
<1>7. \A c : Carried(c) \subseteq Carried(c)' /\ Carried(c)' \subseteq Packets
  BY <1>t, <1>5, <1>6, CarriedGrows
<1>8. Ack(k) \in Allowed(<<1, 0>>)'
  BY <1>3, <1>5 DEF Ack, Allowed, Bodies
<1>9. NetOK'
  BY <1>1, <1>2, <1>4, <1>t, <1>5, <1>7, <1>8, SendOK, NetStep
<1>10. TypeOK'
  BY <1>t, <1>1, <1>3, <1>5, <1>6 DEF TypeOK, sendMessage
<1>11. SatisfiedWasReceived' /\ ReceiverOK'
  BY <1>1, <1>2, <1>3, <1>5, <1>6 DEF SatisfiedWasReceived, ReceiverOK
<1> QED
  BY <1>9, <1>10, <1>11 DEF Inv

(* What the end of a computation may send. *)
LEMMA CompleteCases ==
  ASSUME NEW p \in Peers, Complete(p)
  PROVE  /\ UNCHANGED <<currentRound, inStream, ns, requestsSatisfied, received>>
         /\ previousMessageRound' = previousMessageRound
            \/ previousMessageRound' = [previousMessageRound EXCEPT ![p] = currentRound]
         /\ \/ UNCHANGED <<messagesSent, queue, throughputLeft>>
            \/ p = 0 /\ sendMessage(0, 1, Data(ns[0]))
            \/ p = 1 /\ sendMessage(1, 0, Ack(ns[1]))
<1>1. UNCHANGED <<currentRound, inStream, ns, requestsSatisfied, received>>
  BY DEF Complete
<1>2. p = 0 \/ p = 1
  BY TwoPeers
<1>3. CASE messagesSent[p] = 0 /\ p = 0
  BY <1>1, <1>3 DEF Complete, submitTrans
<1>4. CASE ~(messagesSent[p] = 0 /\ p = 0) /\ TimedOut(p)
  <2>1. /\ restartTimer(p)
        /\ IF p = 0 THEN sendMessage(p, 1, Data(ns[p])) ELSE sendMessage(p, 0, Ack(ns[p]))
    BY <1>4 DEF Complete
  <2> QED
    BY <1>1, <1>2, <2>1 DEF restartTimer
<1>5. CASE ~(messagesSent[p] = 0 /\ p = 0) /\ ~TimedOut(p)
  <2>1. UNCHANGED <<previousMessageRound, messagesSent, queue, throughputLeft>>
    BY <1>5 DEF Complete
  <2> QED
    BY <1>1, <2>1
<1> QED
  BY <1>3, <1>4, <1>5

(* The end of a computation repeats what was sent before, or starts. *)
LEMMA CompleteStep == ASSUME Inv, NEW p \in Peers, Complete(p) PROVE Inv'
<1>1. /\ UNCHANGED <<currentRound, inStream, ns, requestsSatisfied, received>>
      /\ previousMessageRound' = previousMessageRound
         \/ previousMessageRound' = [previousMessageRound EXCEPT ![p] = currentRound]
      /\ \/ UNCHANGED <<messagesSent, queue, throughputLeft>>
         \/ p = 0 /\ sendMessage(0, 1, Data(ns[0]))
         \/ p = 1 /\ sendMessage(1, 0, Ack(ns[1]))
  BY CompleteCases
<1>2. NetOK /\ TypeOK /\ SatisfiedWasReceived /\ ReceiverOK
  BY DEF Inv
<1>t. /\ ns \in [Peers -> Nat \ {0}] /\ messagesSent \in [Peers -> Nat]
      /\ previousMessageRound \in [Peers -> 0 .. LastRound]
      /\ currentRound \in 0 .. LastRound /\ 0 \in Peers /\ 1 \in Peers
      /\ ns[0] \in Nat \ {0} /\ ns[1] \in Nat \ {0}
      /\ inStream \in [Peers -> Seq(Packets)]
      /\ \A q \in Peers : inStream[q] \in Seq(Carried(To(q)))
  BY <1>2, TwoPeers DEF TypeOK, NetOK
<1>3. \A c : Carried(c) \subseteq Carried(c)' /\ Carried(c)' \subseteq Packets
  BY <1>t, <1>1, CarriedGrows
<1>4. messagesSent' \in [Peers -> Nat]
  <2>1. \/ messagesSent' = messagesSent
        \/ messagesSent' = [messagesSent EXCEPT ![0] = @ + 1]
        \/ messagesSent' = [messagesSent EXCEPT ![1] = @ + 1]
    BY <1>1 DEF sendMessage
  <2>2. \A k \in Nat : k + 1 \in Nat
    OBVIOUS
  <2>3. messagesSent[0] + 1 \in Nat /\ messagesSent[1] + 1 \in Nat
    BY <1>t, <2>2
  <2> QED
    BY <1>t, <2>1, <2>3, Zenon
<1>5. previousMessageRound' \in [Peers -> 0 .. LastRound]
  BY <1>t, <1>1
<1>6. TypeOK'
  BY <1>1, <1>2, <1>4, <1>5 DEF TypeOK
<1>7. SatisfiedWasReceived' /\ ReceiverOK'
  BY <1>1, <1>2 DEF SatisfiedWasReceived, ReceiverOK
<1>8. /\ queue' \in [Channels -> Seq(Packets)]
      /\ \A c \in Channels : queue'[c] \in Seq(Carried(c)') /\ Len(queue'[c]) <= Size
      /\ throughputLeft' \in [Channels -> Int]
  <2>1. CASE UNCHANGED <<messagesSent, queue, throughputLeft>>
    <3>1. \A c : Carried(c)' = Carried(c)
      BY <1>1 DEF Carried, Allowed
    <3> QED
      BY <1>2, <2>1, <3>1 DEF NetOK
  <2>2. CASE p = 0 /\ sendMessage(0, 1, Data(ns[0]))
    <3>1. Data(ns[0]) \in Allowed(<<0, 1>>)'
      BY <1>t, <1>1 DEF Data, Allowed, Bodies
    <3> QED
      BY <1>2, <1>t, <1>3, <2>2, <3>1, SendOK
  <2>3. CASE p = 1 /\ sendMessage(1, 0, Ack(ns[1]))
    <3>1. Ack(ns[1]) \in Allowed(<<1, 0>>)'
      BY <1>t, <1>1, <1>2 DEF Ack, Allowed, Bodies, ReceiverOK
    <3> QED
      BY <1>2, <1>t, <1>3, <2>3, <3>1, SendOK
  <2> QED
    BY <1>1, <2>1, <2>2, <2>3
<1>9. NetOK'
  BY <1>1, <1>t, <1>3, <1>8, NetStep
<1> QED
  BY <1>6, <1>7, <1>9 DEF Inv

(* The engine moves packets and advances the round. *)
LEMMA EngineKeeps == ASSUME Inv, EngineStep PROVE Inv'
<1>1. NetOK /\ TypeOK /\ SatisfiedWasReceived /\ ReceiverOK /\ UNCHANGED peerVars
  BY DEF Inv, EngineStep
<1>2. TypeOK' /\ SatisfiedWasReceived' /\ ReceiverOK'
  BY <1>1 DEF TypeOK, SatisfiedWasReceived, ReceiverOK, peerVars
<1>3. \A c : Carried(c)' = Carried(c)
  BY <1>1 DEF Carried, Allowed, peerVars
<1>4. \A q : To(q)' = To(q)
  BY DEF To
<1>5. CASE StartRound \/ StartCompute \/ EndRound \/ Finish
  <2>1. UNCHANGED <<queue, throughputLeft, inStream>> /\ currentRound' \in 0 .. LastRound
    BY <1>1, <1>5, NetworkAssumption DEF StartRound, StartCompute, EndRound, Finish, NetOK
  <2>2. NetOK'
    BY <1>1, <1>3, <1>4, <2>1 DEF NetOK
  <2> QED
    BY <1>2, <2>2 DEF Inv
<1>6. ASSUME NEW c \in Channels, ReceiveFrom(c) PROVE Inv'
  <2>1. UNCHANGED <<currentRound, throughputLeft>>
    BY <1>6 DEF ReceiveFrom
  <2>2. c[1] \in Peers /\ c[2] \in Peers /\ c = <<c[1], c[2]>>
    BY Ends
  <2>3. Carried(c) \subseteq Carried(To(c[2]))
    <3>1. c = To(c[2]) \/ Allowed(c) = {}
      BY <2>2, TwoPeers DEF To, Allowed
    <3> QED
      BY <3>1 DEF Carried
  <2>4. Reads(Packets, Carried(c), Carried(To(c[2])), c)
    <3>1. Carried(c) \subseteq Packets /\ Carried(To(c[2])) \subseteq Packets
          /\ Arrived(Carried(c)) \subseteq Carried(To(c[2]))
      BY <2>3 DEF Carried, Arrived
    <3> QED
      BY <1>1, <2>2, <3>1 DEF Reads, NetOK
  <2>5. /\ queue' \in [Channels -> Seq(Packets)]
        /\ inStream' \in [Peers -> Seq(Packets)]
        /\ queue'[c] \in Seq(Carried(c))
        /\ inStream'[c[2]] \in Seq(Carried(To(c[2])))
        /\ \A e \in Channels : e # c => queue'[e] = queue[e]
        /\ \A p \in Peers : p # c[2] => inStream'[p] = inStream[p]
        /\ Moved(c)
    BY <1>6, <2>4, ReceiveEffect
  <2>6. Len(queue'[c]) <= Size
    <3>1. queue[c] \in Seq(Packets) /\ Len(queue[c]) <= Size
      BY <1>1 DEF NetOK
    <3>2. Len(queue[c]) \in Nat /\ Size \in Int
      BY <3>1, LenProperties, ChannelAssumption
    <3> QED
      BY <2>5, <3>1, <3>2 DEF Moved
  <2>7. \A e \in Channels : queue'[e] \in Seq(Carried(e)) /\ Len(queue'[e]) <= Size
    BY <1>1, <2>5, <2>6 DEF NetOK
  <2>8. \A p \in Peers : inStream'[p] \in Seq(Carried(To(p)))
    BY <1>1, <2>5 DEF NetOK
  <2>9. NetOK'
    BY <1>1, <1>3, <1>4, <2>1, <2>5, <2>7, <2>8 DEF NetOK
  <2> QED
    BY <1>2, <2>9 DEF Inv
<1> QED
  BY <1>5, <1>6 DEF EngineStep

(* The inductive invariant. *)
THEOREM Invariance == Spec => []Inv
<1>1. Init => Inv
  <2> SUFFICES ASSUME Init PROVE Inv
    OBVIOUS
  <2>1. /\ queue = [c \in Channels |-> <<>>] /\ inStream = [p \in Peers |-> <<>>]
        /\ throughputLeft \in [Channels -> Int] /\ currentRound = 0
        /\ ns = [p \in Peers |-> 1] /\ requestsSatisfied = 0 /\ received = {}
        /\ messagesSent = [p \in Peers |-> 0] /\ previousMessageRound = [p \in Peers |-> 0]
    BY FreshOK DEF Init, NetInit
  <2>2. ns[0] = 1 /\ ns[1] = 1
    BY <2>1, TwoPeers
  <2>3. TypeOK
    BY <2>1, TwoPeers DEF TypeOK
  <2>4. SatisfiedWasReceived /\ ReceiverOK
    BY <2>1, <2>2 DEF SatisfiedWasReceived, ReceiverOK
  <2>5. Size \in Nat
    BY ChannelAssumption
  <2>6. NetOK
    BY <2>1, <2>5, TwoPeers, EmptySeq DEF NetOK
  <2> QED
    BY <2>3, <2>4, <2>6 DEF Inv
<1>2. Inv /\ [Next]_vars => Inv'
  <2> SUFFICES ASSUME Inv, [Next]_vars PROVE Inv'
    OBVIOUS
  <2>1. CASE UNCHANGED vars
    <3>1. \A c : Carried(c)' = Carried(c) /\ To(c)' = To(c)
      BY <2>1 DEF Carried, Allowed, To, vars, peerVars
    <3> QED
      BY <2>1, <3>1 DEF Inv, TypeOK, NetOK, SatisfiedWasReceived, ReceiverOK, vars, netVars,
         engineVars, peerVars
  <2> QED
    BY <2>1, EngineKeeps, AckStep, DataStep, CompleteStep DEF Next, Returned
<1> QED
  BY <1>1, <1>2, PTL DEF Spec

(* The state keeps the shape AltBitPeer declares. *)
THEOREM TypeCorrect == Spec => []TypeOK
<1>1. Inv => TypeOK
  BY DEF Inv
<1> QED
  BY <1>1, Invariance, PTL

(* Every counted request but the first was received, over channels that    *)
(* lose, duplicate and reorder, with acks sent by the receiver's timer.    *)
THEOREM SatisfiedTheorem == Spec => []SatisfiedWasReceived
<1>1. Inv => SatisfiedWasReceived
  BY DEF Inv
<1> QED
  BY <1>1, Invariance, PTL

(* Numbers of packets are naturals. *)
LEMMA Nums ==
  ASSUME NEW s \in Seq(Packets)
  PROVE  Len(s) \in Nat /\ \A i \in 1 .. Len(s) : s[i].body.num \in Nat
<1>1. \A i \in 1 .. Len(s) : s[i] \in Packets
  BY ElementOfSeq
<1> QED
  BY <1>1, LenProperties DEF Packets, Bodies

(* Packets whose number m is at least every other one may be appended. *)
LEMMA ChainAppend ==
  ASSUME NEW s \in Seq(Packets), NEW q \in Seq(Packets), NEW r \in Seq(Packets),
         NEW v \in Nat, NEW m \in Nat, Chain(v, s, q), v <= m, Len(q) <= Len(r),
         \A i \in 1 .. Len(s) : s[i].body.num <= m,
         \A i \in 1 .. Len(q) : q[i].body.num <= m /\ r[i] = q[i],
         \A i \in Len(q) + 1 .. Len(r) : r[i].body.num = m
  PROVE  Chain(v, s, r)
<1>1. /\ Len(q) \in Nat /\ Len(r) \in Nat /\ Len(s) \in Nat
      /\ \A i \in 1 .. Len(r) : i \in 1 .. Len(q) \/ i \in Len(q) + 1 .. Len(r)
      /\ \A i, j \in 1 .. Len(r) : j \in 1 .. Len(q) /\ i < j => i \in 1 .. Len(q)
      /\ m <= m
  BY Nums
<1>2. \A i \in 1 .. Len(r) : v <= r[i].body.num
  BY <1>1 DEF Chain
<1>3. \A i \in 1 .. Len(s), j \in 1 .. Len(r) : s[i].body.num <= r[j].body.num
  BY <1>1 DEF Chain
<1>4. ASSUME NEW i \in 1 .. Len(r), NEW j \in 1 .. Len(r), i < j
      PROVE  r[i].body.num <= r[j].body.num
  <2>1. CASE j \in 1 .. Len(q)
    <3>1. i \in 1 .. Len(q)
      BY <1>1, <1>4, <2>1
    <3>2. r[i] = q[i] /\ r[j] = q[j] /\ q[i].body.num <= q[j].body.num
      BY <1>4, <2>1, <3>1 DEF Chain
    <3> QED
      BY <3>2
  <2>2. CASE j \in Len(q) + 1 .. Len(r)
    <3>1. r[j].body.num = m
      BY <2>2
    <3>2. r[i].body.num <= m
      BY <1>1
    <3> QED
      BY <3>1, <3>2
  <2> QED
    BY <1>1, <2>1, <2>2
<1>5. /\ \A i \in 1 .. Len(s) : v <= s[i].body.num
      /\ \A i, j \in 1 .. Len(s) : i < j => s[i].body.num <= s[j].body.num
  BY DEF Chain
<1> QED
  BY <1>2, <1>3, <1>4, <1>5 DEF Chain

(* The first n packets of q may move to the end of s. *)
LEMMA ChainMove ==
  ASSUME NEW s \in Seq(Packets), NEW q \in Seq(Packets),
         NEW t \in Seq(Packets), NEW r \in Seq(Packets), NEW v \in Nat, Chain(v, s, q),
         NEW n \in 0 .. Len(q), Len(r) = Len(q) - n, Len(t) = Len(s) + n,
         \A i \in 1 .. Len(s) : t[i] = s[i],
         \A i \in 1 .. n : t[Len(s) + i] = q[i],
         \A i \in 1 .. Len(q) - n : r[i] = q[n + i]
  PROVE  Chain(v, t, r)
<1>1. Len(s) \in Nat /\ Len(q) \in Nat /\ n \in Nat /\ n <= Len(q)
  BY Nums
<1>2. ASSUME NEW i \in 1 .. Len(t)
      PROVE  \/ i \in 1 .. Len(s) /\ t[i] = s[i]
             \/ i - Len(s) \in 1 .. n /\ i - Len(s) \in 1 .. Len(q) /\ t[i] = q[i - Len(s)]
  <2>1. CASE i \in 1 .. Len(s)
    BY <2>1
  <2>2. CASE i \notin 1 .. Len(s)
    <3>1. i - Len(s) \in 1 .. n /\ i - Len(s) \in 1 .. Len(q) /\ Len(s) + (i - Len(s)) = i
      BY <1>1, <2>2
    <3> QED
      BY <3>1
  <2> QED
    BY <2>1, <2>2
<1>3. \A i \in 1 .. Len(r) : n + i \in 1 .. Len(q) /\ r[i] = q[n + i]
  BY <1>1
<1>c. /\ \A i \in 1 .. Len(s) : v <= s[i].body.num
      /\ \A i \in 1 .. Len(q) : v <= q[i].body.num
      /\ \A i, j \in 1 .. Len(s) : i < j => s[i].body.num <= s[j].body.num
      /\ \A i, j \in 1 .. Len(q) : i < j => q[i].body.num <= q[j].body.num
      /\ \A i \in 1 .. Len(s), j \in 1 .. Len(q) : s[i].body.num <= q[j].body.num
  BY DEF Chain
<1>4. \A i \in 1 .. Len(t) : v <= t[i].body.num
  BY <1>2, <1>c
<1>5. \A i \in 1 .. Len(r) : v <= r[i].body.num
  BY <1>3, <1>c
<1>6. ASSUME NEW i \in 1 .. Len(r), NEW j \in 1 .. Len(r), i < j
      PROVE  r[i].body.num <= r[j].body.num
  <2>1. n + i < n + j
    BY <1>1, <1>6
  <2> QED
    BY <1>3, <1>c, <2>1
<1>7. ASSUME NEW i \in 1 .. Len(t), NEW j \in 1 .. Len(t), i < j
      PROVE  t[i].body.num <= t[j].body.num
  <2>1. CASE i \in 1 .. Len(s) /\ t[i] = s[i]
    BY <1>2, <1>7, <1>c, <2>1
  <2>2. CASE /\ i - Len(s) \in 1 .. n /\ i - Len(s) \in 1 .. Len(q)
             /\ t[i] = q[i - Len(s)]
    <3>1. j \notin 1 .. Len(s) /\ i - Len(s) < j - Len(s)
      BY <1>1, <1>7, <2>2
    <3>2. j - Len(s) \in 1 .. Len(q) /\ t[j] = q[j - Len(s)]
      BY <1>2, <3>1
    <3> QED
      BY <1>c, <2>2, <3>1, <3>2
  <2> QED
    BY <1>2, <2>1, <2>2
<1>8. ASSUME NEW i \in 1 .. Len(t), NEW j \in 1 .. Len(r)
      PROVE  t[i].body.num <= r[j].body.num
  <2>1. n + j \in 1 .. Len(q) /\ r[j] = q[n + j]
    BY <1>3
  <2>2. CASE i \in 1 .. Len(s) /\ t[i] = s[i]
    BY <1>c, <2>1, <2>2
  <2>3. CASE /\ i - Len(s) \in 1 .. n /\ i - Len(s) \in 1 .. Len(q)
             /\ t[i] = q[i - Len(s)]
    <3>1. i - Len(s) < n + j
      BY <1>1, <2>3
    <3> QED
      BY <1>c, <2>1, <2>3, <3>1
  <2> QED
    BY <1>2, <2>2, <2>3
<1> QED
  BY <1>4, <1>5, <1>6, <1>7, <1>8 DEF Chain

(* The first packet of s may become the number in front. *)
LEMMA ChainPop ==
  ASSUME NEW s \in Seq(Packets), NEW q \in Seq(Packets), NEW v \in Nat,
         Chain(v, s, q), s # <<>>
  PROVE  Chain(Head(s).body.num, Tail(s), q) /\ v <= Head(s).body.num
<1>1. /\ Len(s) \in Nat /\ Len(s) >= 1 /\ Head(s) = s[1]
      /\ Len(Tail(s)) = Len(s) - 1
      /\ \A i \in 1 .. Len(Tail(s)) : Tail(s)[i] = s[i + 1]
  BY HeadTailProperties, LenProperties, EmptySeq
<1>2. /\ 1 \in 1 .. Len(s)
      /\ \A i \in 1 .. Len(Tail(s)) : i + 1 \in 1 .. Len(s) /\ Tail(s)[i] = s[i + 1] /\ 1 < i + 1
      /\ \A i, j \in 1 .. Len(Tail(s)) : i < j => i + 1 < j + 1
  BY <1>1
<1>c. /\ \A i \in 1 .. Len(s) : v <= s[i].body.num
      /\ \A i, j \in 1 .. Len(s) : i < j => s[i].body.num <= s[j].body.num
      /\ \A i, j \in 1 .. Len(q) : i < j => q[i].body.num <= q[j].body.num
      /\ \A i \in 1 .. Len(s), j \in 1 .. Len(q) : s[i].body.num <= q[j].body.num
  BY DEF Chain
<1>3. \A i \in 1 .. Len(Tail(s)) : Head(s).body.num <= Tail(s)[i].body.num
  BY <1>1, <1>2, <1>c
<1>4. \A i \in 1 .. Len(q) : Head(s).body.num <= q[i].body.num
  BY <1>1, <1>2, <1>c
<1>5. ASSUME NEW i \in 1 .. Len(Tail(s)), NEW j \in 1 .. Len(Tail(s)), i < j
      PROVE  Tail(s)[i].body.num <= Tail(s)[j].body.num
  <2>1. i + 1 \in 1 .. Len(s) /\ j + 1 \in 1 .. Len(s) /\ i + 1 < j + 1
        /\ Tail(s)[i] = s[i + 1] /\ Tail(s)[j] = s[j + 1]
    BY <1>2, <1>5
  <2> QED
    BY <1>c, <2>1
<1>6. \A i \in 1 .. Len(Tail(s)), j \in 1 .. Len(q) : Tail(s)[i].body.num <= q[j].body.num
  BY <1>2, <1>c
<1> QED
  BY <1>1, <1>2, <1>3, <1>4, <1>5, <1>6, <1>c DEF Chain

(* The data on its way to peer 1 has been submitted. *)
LEMMA OnTheWay ==
  ASSUME Inv
  PROVE  /\ inStream[1] \in Seq(Packets) /\ Pipe \in Seq(Packets)
         /\ ns[0] \in Nat /\ ns[1] \in Nat /\ ns[1] <= ns[0]
         /\ \A i \in 1 .. Len(inStream[1]) : inStream[1][i].body.num <= ns[0]
         /\ \A i \in 1 .. Len(Pipe) : Pipe[i].body.num <= ns[0]
<1>1. 0 \in Peers /\ 1 \in Peers /\ To(1) = <<0, 1>>
  BY TwoPeers DEF To
<1>2. inStream[1] \in Seq(Packets) /\ inStream[1] \in Seq(Carried(<<0, 1>>))
  BY <1>1 DEF Inv, NetOK
<1>3. Pipe \in Seq(Packets) /\ Pipe \in Seq(Carried(<<0, 1>>))
  BY EmptySeq DEF Inv, NetOK, Pipe
<1>4. \A m \in Carried(<<0, 1>>) : m.body.num <= ns[0]
  BY DEF Carried, Allowed
<1>5. ns[0] \in Nat /\ ns[1] \in Nat /\ ns[1] <= ns[0]
  BY <1>1 DEF Inv, TypeOK, ReceiverOK
<1>6. \A i \in 1 .. Len(inStream[1]) : inStream[1][i].body.num <= ns[0]
  BY <1>2, <1>4, ElementOfSeq
<1>7. \A i \in 1 .. Len(Pipe) : Pipe[i].body.num <= ns[0]
  BY <1>3, <1>4, ElementOfSeq
<1> QED
  BY <1>2, <1>3, <1>5, <1>6, <1>7

(* What a send does to the packets queued from peer 0 to peer 1. *)
LEMMA PipeAfterSend ==
  ASSUME NetOK, NEW p \in Peers, NEW dst \in Peers, NEW body,
         \A c : Carried(c) \subseteq Carried(c)' /\ Carried(c)' \subseteq Packets,
         body \in Allowed(<<p, dst>>)', sendMessage(p, dst, body)
  PROVE  /\ Len(Pipe) <= Len(Pipe') /\ \A i \in 1 .. Len(Pipe) : Pipe'[i] = Pipe[i]
         /\ \A i \in Len(Pipe) + 1 .. Len(Pipe') : Pipe'[i].body = body
         /\ p # 0 => Pipe' = Pipe
<1> DEFINE C == [c \in Channels |-> Carried(c)']
           w == <<0, 1>>
<1>1. /\ Carries(Packets, C) /\ throughputLeft \in [Channels -> Int]
      /\ <<p, dst>> \in Channels => Sendable(NewPacket(p, dst, body), C[<<p, dst>>])
  BY Sends
<1>2. unicastTo(p, dst, body)
  BY DEF sendMessage
<1> HIDE DEF C
<1>3. CASE w \notin Channels
  <2>1. Pipe = <<>> /\ Pipe' = <<>>
    BY <1>3 DEF Pipe
  <2>2. Len(Pipe) = 0 /\ Len(Pipe') = 0 /\ 1 .. 0 = {} /\ 0 + 1 .. 0 = {} /\ 0 <= 0
    BY <2>1
  <2> QED
    BY <2>1, <2>2
<1>4. CASE w \in Channels
  <2>1. Pipe = queue[w] /\ Pipe' = queue'[w]
    BY <1>4 DEF Pipe
  <2>2. /\ Len(queue[w]) <= Len(queue'[w])
        /\ w[1] # p => queue'[w] = queue[w]
    BY <1>1, <1>2, <1>4, UnicastEffect
  <2>3. /\ \A i \in 1 .. Len(queue[w]) : queue'[w][i] = queue[w][i]
        /\ \A i \in Len(queue[w]) + 1 .. Len(queue'[w]) :
             \E d \in Nat \ {0} : queue'[w][i] = Copy(NewPacket(p, dst, body), d)
    BY <1>1, <1>2, <1>4, UnicastAppends
  <2>4. \A d : Copy(NewPacket(p, dst, body), d).body = body
    BY DEF Copy, NewPacket
  <2>5. w[1] = 0
    OBVIOUS
  <2> QED
    BY <2>1, <2>2, <2>3, <2>4, <2>5
<1> QED
  BY <1>3, <1>4

(* Sending the current number of peer 0, which no packet exceeds, keeps    *)
(* the order.                                                              *)
LEMMA DataKeepsOrder ==
  ASSUME Inv, Inv', Chain(ns[1], inStream[1], Pipe), sendMessage(0, 1, Data(ns'[0])),
         ns[0] <= ns'[0], received' = received, ns'[1] = ns[1],
         inStream'[1] = inStream[1]
  PROVE  Chain(ns[1], inStream[1], Pipe)'
<1>1. 0 \in Peers /\ 1 \in Peers /\ NetOK
  BY TwoPeers DEF Inv
<1>2. /\ inStream[1] \in Seq(Packets) /\ Pipe \in Seq(Packets) /\ Pipe' \in Seq(Packets)
      /\ ns[0] \in Nat /\ ns[1] \in Nat /\ ns[1] <= ns[0] /\ ns'[0] \in Nat
      /\ \A i \in 1 .. Len(inStream[1]) : inStream[1][i].body.num <= ns[0]
      /\ \A i \in 1 .. Len(Pipe) : Pipe[i].body.num <= ns[0]
  <2>1. ns'[0] \in Nat /\ queue' \in [Channels -> Seq(Packets)]
    BY <1>1 DEF Inv, TypeOK, NetOK
  <2>2. Pipe' \in Seq(Packets)
    BY <2>1, EmptySeq DEF Pipe
  <2> QED
    BY <2>1, <2>2, OnTheWay
<1>3. \A c : Carried(c) \subseteq Carried(c)' /\ Carried(c)' \subseteq Packets
  BY <1>2, CarriedGrows
<1>4. Data(ns'[0]) \in Allowed(<<0, 1>>)' /\ Data(ns'[0]).num = ns'[0]
  <2>1. ns'[0] \in Nat \ {0} /\ ns'[0] <= ns'[0]
    BY <1>1 DEF Inv, TypeOK
  <2> QED
    BY <2>1 DEF Data, Allowed, Bodies
<1>5. /\ Len(Pipe) <= Len(Pipe') /\ \A i \in 1 .. Len(Pipe) : Pipe'[i] = Pipe[i]
      /\ \A i \in Len(Pipe) + 1 .. Len(Pipe') : Pipe'[i].body = Data(ns'[0])
  BY <1>1, <1>3, <1>4, PipeAfterSend
<1>6. /\ ns[1] <= ns'[0]
      /\ \A i \in 1 .. Len(inStream[1]) : inStream[1][i].body.num <= ns'[0]
      /\ \A i \in 1 .. Len(Pipe) : Pipe[i].body.num <= ns'[0]
  <2>1. \A k \in Nat : k <= ns[0] => k <= ns'[0]
    BY <1>2
  <2> QED
    BY <1>2, <2>1, Nums
<1>7. Chain(ns[1], inStream[1], Pipe')
  BY <1>2, <1>4, <1>5, <1>6, ChainAppend
<1> QED
  BY <1>7 DEF Chain

(* Sending from peer 1 does not touch the data on its way. *)
LEMMA AckKeepsPipe ==
  ASSUME Inv, NEW n \in Nat \ {0}, n \in received' \cup {1},
         sendMessage(1, 0, Ack(n)), ns'[0] = ns[0], received \subseteq received'
  PROVE  Pipe' = Pipe
<1>1. 0 \in Peers /\ 1 \in Peers /\ NetOK /\ ns[0] \in Nat
  BY TwoPeers DEF Inv, TypeOK
<1>2. \A c : Carried(c) \subseteq Carried(c)' /\ Carried(c)' \subseteq Packets
  BY <1>1, CarriedGrows
<1>3. Ack(n) \in Allowed(<<1, 0>>)'
  BY DEF Ack, Allowed, Bodies
<1> QED
  BY <1>1, <1>2, <1>3, PipeAfterSend

(* A receive hands the data over in order. *)
LEMMA ReceiveKeepsOrder ==
  ASSUME Inv, TRUE \notin Reorder, Chain(ns[1], inStream[1], Pipe),
         NEW c \in Channels, ReceiveFrom(c), ns' = ns, Inv'
  PROVE  Chain(ns[1], inStream[1], Pipe)'
<1>1. /\ queue \in [Channels -> Seq(Packets)] /\ inStream \in [Peers -> Seq(Packets)]
      /\ queue' \in [Channels -> Seq(Packets)] /\ inStream' \in [Peers -> Seq(Packets)]
      /\ 0 \in Peers /\ 1 \in Peers
  BY TwoPeers DEF Inv, NetOK
<1>2. MovedInOrder(c)
  BY <1>1, ReceiveInOrder
<1>3. /\ \A e \in Channels : e # c => queue'[e] = queue[e]
      /\ \A p \in Peers : p # c[2] => inStream'[p] = inStream[p]
  <2>1. \E q, n : Taken(c, q, n)
    BY DEF ReceiveFrom
  <2> QED
    BY <1>1, <2>1 DEF Taken
<1>4. PICK n \in 0 .. Len(queue[c]) :
        /\ Len(queue'[c]) = Len(queue[c]) - n
        /\ Len(inStream'[c[2]]) = Len(inStream[c[2]]) + n
        /\ \A i \in 1 .. Len(inStream[c[2]]) : inStream'[c[2]][i] = inStream[c[2]][i]
        /\ \A i \in 1 .. n : inStream'[c[2]][Len(inStream[c[2]]) + i] = queue[c][i]
        /\ \A i \in 1 .. Len(queue[c]) - n : queue'[c][i] = queue[c][n + i]
  BY <1>2 DEF MovedInOrder
<1>5. c[1] \in {0, 1} /\ c[2] \in {0, 1} /\ c = <<c[1], c[2]>>
  BY Ends, TwoPeers
<1>6. CASE c = <<0, 1>>
  <2>1. Pipe = queue[c] /\ Pipe' = queue'[c] /\ c[2] = 1
    BY <1>6 DEF Pipe
  <2>2. ns[1] \in Nat
    BY OnTheWay
  <2>3. /\ inStream[1] \in Seq(Packets) /\ Pipe \in Seq(Packets)
        /\ inStream'[1] \in Seq(Packets) /\ Pipe' \in Seq(Packets)
    BY <1>1, <2>1
  <2>4. /\ n \in 0 .. Len(Pipe)
        /\ Len(Pipe') = Len(Pipe) - n
        /\ Len(inStream'[1]) = Len(inStream[1]) + n
        /\ \A i \in 1 .. Len(inStream[1]) : inStream'[1][i] = inStream[1][i]
        /\ \A i \in 1 .. n : inStream'[1][Len(inStream[1]) + i] = Pipe[i]
        /\ \A i \in 1 .. Len(Pipe) - n : Pipe'[i] = Pipe[n + i]
    BY <1>4, <2>1
  <2>5. Chain(ns[1], inStream'[1], Pipe')
    BY <2>2, <2>3, <2>4, ChainMove
  <2> QED
    BY <2>5 DEF Chain
<1>7. CASE c # <<0, 1>>
  <2>1. Pipe' = Pipe
    BY <1>3, <1>7 DEF Pipe
  <2>2. CASE c[2] = 0
    <3>1. inStream'[1] = inStream[1]
      BY <1>1, <1>3, <2>2
    <3> QED
      BY <2>1, <3>1 DEF Chain
  <2>3. CASE c = <<1, 1>>
    <3>1. Allowed(c) = {}
      BY <2>3 DEF Allowed
    <3>2. queue[c] \in Seq({})
      BY <3>1 DEF Inv, NetOK, Carried
    <3>3. Len(queue[c]) = 0
      <4>1. Len(queue[c]) \in Nat /\ \A i \in 1 .. Len(queue[c]) : queue[c][i] \in {}
        BY <3>2, ElementOfSeq, LenProperties
      <4>2. Len(queue[c]) > 0 => 1 \in 1 .. Len(queue[c])
        BY <4>1
      <4> QED
        BY <4>1, <4>2
    <3>4. n = 0 /\ c[2] = 1
      BY <2>3, <3>3
    <3>5. Len(inStream[1]) \in Nat
      BY <1>1, LenProperties
    <3>6. Len(inStream'[1]) = Len(inStream[1])
          /\ \A i \in 1 .. Len(inStream[1]) : inStream'[1][i] = inStream[1][i]
      BY <1>4, <3>4, <3>5
    <3> QED
      BY <2>1, <3>6 DEF Chain
  <2> QED
    BY <1>5, <1>7, <2>2, <2>3
<1> QED
  BY <1>6, <1>7

(* A step changes the receiver's number, the data it can read or the data  *)
(* on its way to it in one of these ways.                                  *)
LEMMA OrderStep ==
  ASSUME Inv, Inv', [Next]_vars, TRUE \notin Reorder, Chain(ns[1], inStream[1], Pipe)
  PROVE  Chain(ns[1], inStream[1], Pipe)' /\ ns'[1] >= ns[1]
<1>t. /\ 0 \in Peers /\ 1 \in Peers /\ 0 # 1 /\ Peers = {0, 1}
      /\ ns \in [Peers -> Nat \ {0}] /\ ns[0] \in Nat /\ ns[1] \in Nat \ {0}
      /\ inStream \in [Peers -> Seq(Packets)] /\ NetOK
  BY TwoPeers DEF Inv, TypeOK, NetOK
<1>u. ASSUME ns'[1] = ns[1], inStream'[1] = inStream[1], Pipe' = Pipe
      PROVE  Chain(ns[1], inStream[1], Pipe)' /\ ns'[1] >= ns[1]
  BY <1>t, <1>u DEF Chain
<1>1. CASE EngineStep
  <2>1. ns' = ns
    BY <1>1 DEF EngineStep, peerVars
  <2>2. CASE StartRound \/ StartCompute \/ EndRound \/ Finish
    <3>1. UNCHANGED <<queue, inStream>>
      BY <2>2 DEF StartRound, StartCompute, EndRound, Finish
    <3>2. Pipe' = Pipe
      BY <3>1 DEF Pipe
    <3> QED
      BY <1>u, <2>1, <3>1, <3>2
  <2>3. ASSUME NEW c \in Channels, ReceiveFrom(c)
        PROVE  Chain(ns[1], inStream[1], Pipe)' /\ ns'[1] >= ns[1]
    BY <1>t, <2>1, <2>3, ReceiveKeepsOrder
  <2> QED
    BY <1>1, <2>2, <2>3 DEF EngineStep
<1>2. ASSUME NEW p \in Peers, HandleAck(p)
      PROVE  Chain(ns[1], inStream[1], Pipe)' /\ ns'[1] >= ns[1]
  <2>1. popInStream(p) /\ Head(inStream[p]).body.action = "ack" /\ received' = received
    BY <1>2 DEF HandleAck
  <2>2. p = 0
    BY <1>t, <2>1, Direction
  <2>3. inStream'[1] = inStream[1]
    BY <1>t, <2>1, <2>2 DEF popInStream
  <2>4. CASE Matches(p)
    <3>1. ns' = [ns EXCEPT ![0] = @ + 1] /\ sendMessage(0, 1, Data(ns[0] + 1))
      BY <1>2, <2>2, <2>4 DEF HandleAck, submitTrans
    <3>2. ns'[0] = ns[0] + 1 /\ ns'[1] = ns[1] /\ ns[0] <= ns'[0]
      BY <1>t, <3>1
    <3> QED
      BY <1>t, <2>1, <2>3, <3>1, <3>2, DataKeepsOrder
  <2>5. CASE ~Matches(p)
    <3>1. UNCHANGED <<ns, queue>>
      BY <1>2, <2>5 DEF HandleAck
    <3>2. Pipe' = Pipe
      BY <3>1 DEF Pipe
    <3> QED
      BY <1>u, <2>3, <3>1, <3>2
  <2> QED
    BY <2>4, <2>5
<1>3. ASSUME NEW p \in Peers, HandleData(p)
      PROVE  Chain(ns[1], inStream[1], Pipe)' /\ ns'[1] >= ns[1]
  <2> DEFINE k == Head(inStream[p]).body.num
  <2>1. popInStream(p) /\ Head(inStream[p]).body.action = "data"
    BY <1>3 DEF HandleData
  <2>2. p = 1 /\ k \in Nat \ {0}
    BY <1>t, <2>1, Direction
  <2>3. /\ ns' = [ns EXCEPT ![1] = k] /\ sendMessage(1, 0, Ack(k))
        /\ received' = received \cup {k}
    BY <1>3, <2>2 DEF HandleData
  <2>4. inStream[1] # <<>> /\ inStream'[1] = Tail(inStream[1])
    BY <1>t, <2>1, <2>2 DEF popInStream
  <2>5. ns'[0] = ns[0] /\ ns'[1] = Head(inStream[1]).body.num
    BY <1>t, <2>2, <2>3
  <2>6. Pipe' = Pipe
    BY <2>2, <2>3, <2>5, AckKeepsPipe
  <2>7. Chain(ns'[1], Tail(inStream[1]), Pipe) /\ ns[1] <= ns'[1]
    BY <2>4, <2>5, OnTheWay, ChainPop
  <2>8. ns'[1] \in Nat
    BY <2>2, <2>5
  <2> QED
    BY <1>t, <2>4, <2>6, <2>7, <2>8 DEF Chain
<1>4. ASSUME NEW p \in Peers, Complete(p)
      PROVE  Chain(ns[1], inStream[1], Pipe)' /\ ns'[1] >= ns[1]
  <2>1. /\ UNCHANGED <<inStream, ns, received>>
        /\ \/ UNCHANGED <<messagesSent, queue, throughputLeft>>
           \/ p = 0 /\ sendMessage(0, 1, Data(ns[0]))
           \/ p = 1 /\ sendMessage(1, 0, Ack(ns[1]))
    BY <1>4, CompleteCases
  <2>2. CASE UNCHANGED <<messagesSent, queue, throughputLeft>>
    <3>1. Pipe' = Pipe
      BY <2>2 DEF Pipe
    <3> QED
      BY <1>u, <2>1, <3>1
  <2>3. CASE sendMessage(0, 1, Data(ns[0]))
    <3>1. ns'[0] = ns[0] /\ ns[0] <= ns'[0] /\ ns'[1] = ns[1] /\ ns'[1] >= ns[1]
      BY <1>t, <2>1
    <3> QED
      BY <2>1, <2>3, <3>1, DataKeepsOrder
  <2>4. CASE sendMessage(1, 0, Ack(ns[1]))
    <3>1. ns[1] \in received' \cup {1}
      BY <2>1 DEF Inv, ReceiverOK
    <3>2. Pipe' = Pipe
      BY <1>t, <2>1, <2>4, <3>1, AckKeepsPipe
    <3> QED
      BY <1>u, <2>1, <3>2
  <2> QED
    BY <2>1, <2>2, <2>3, <2>4
<1>5. CASE UNCHANGED vars
  <2>1. ns' = ns /\ inStream' = inStream /\ Pipe' = Pipe
    BY <1>5 DEF vars, netVars, peerVars, Pipe
  <2> QED
    BY <1>u, <2>1
<1> QED
  BY <1>1, <1>2, <1>3, <1>4, <1>5 DEF Next, Returned

(* On channels that lose, duplicate and delay but do not reorder, the      *)
(* receiver's number never goes back, although it adopts every number it   *)
(* reads without comparing it.                                             *)
THEOREM NeverBackTheorem == Spec => ReceiverNeverGoesBack
<1>1. Init => OrderOK
  <2> SUFFICES ASSUME Init PROVE Chain(ns[1], inStream[1], Pipe)
    BY DEF OrderOK
  <2>1. inStream[1] = <<>> /\ Pipe = <<>>
    BY FreshOK, TwoPeers DEF Init, NetInit, Pipe
  <2>2. Len(inStream[1]) = 0 /\ Len(Pipe) = 0 /\ 1 .. 0 = {}
    BY <2>1
  <2> QED
    BY <2>2 DEF Chain
<1>2. Inv /\ Inv' /\ OrderOK /\ [Next]_vars => OrderOK'
  BY OrderStep DEF OrderOK
<1>3. Inv /\ Inv' /\ OrderOK /\ [Next]_vars => [TRUE \notin Reorder => ns'[1] >= ns[1]]_vars
  BY OrderStep DEF OrderOK
<1> QED
  BY <1>1, <1>2, <1>3, Invariance, PTL DEF Spec, ReceiverNeverGoesBack
=============================================================================
