-------------------------- MODULE NetworkClientProofs --------------------------
(***************************************************************************)
(* Proofs about the round engine under the most general algorithm, for     *)
(* every topology, channel configuration, number of rounds and tests.      *)
(***************************************************************************)
EXTENDS NetworkClient, AbstractNetworkProofs

(* The packets the queue of channel c may hold in the current round.       *)
OnChannel(c) ==
  { m \in Packets : m.src = c[1] /\ m.dst = c[2] /\ m.delay >= 1
                    /\ m.round <= currentRound }

(* The packets peer p may read in the current round.                       *)
Readable(p) ==
  { m \in Packets : <<m.src, p>> \in Channels /\ m.dst = p
                    /\ m.round < currentRound
                    /\ m.round + m.delay <= currentRound }

QueuesOK == \A c \in Channels : queue[c] \in Seq(OnChannel(c))
StreamsOK == \A p \in Peers : inStream[p] \in Seq(Readable(p))

(* Which task lists may be non-empty in which phase. *)
PhaseOK ==
  /\ phase # "receive" => toReceive = {}
  /\ phase # "compute" => toCompute = {}

Inv == TypeOK /\ QueuesOK /\ StreamsOK /\ Conservation /\ ThroughputBudget /\ PhaseOK

(* What a send of p does to the channels. *)
LEMMA SendEffect ==
  ASSUME TypeOK, QueuesOK, NEW p \in Peers, NEW dst \in Peers, NEW body \in Nat,
         unicastTo(p, dst, body)
  PROVE  /\ queue' \in [Channels -> Seq(Packets)]
         /\ throughputLeft' \in [Channels -> Int]
         /\ \A c \in Channels :
              /\ queue'[c] \in Seq(OnChannel(c))
              /\ Len(queue[c]) <= Len(queue'[c]) /\ Len(queue'[c]) <= Size
              /\ throughputLeft[c] >= 0 =>
                   /\ throughputLeft'[c] >= 0
                   /\ throughputLeft'[c] + Len(queue'[c]) = throughputLeft[c] + Len(queue[c])
              /\ c[1] # p => queue'[c] = queue[c]
<1> DEFINE C == [c \in Channels |-> OnChannel(c)]
<1>1. /\ queue \in [Channels -> Seq(Packets)] /\ throughputLeft \in [Channels -> Int]
      /\ currentRound \in Nat
  BY NetworkAssumption DEF TypeOK
<1>2. \A c \in Channels :
        C[c] = OnChannel(c) /\ C[c] \subseteq Packets /\ queue[c] \in Seq(C[c])
        /\ Len(queue[c]) <= Size
  BY DEF OnChannel, QueuesOK, TypeOK
<1>3. ASSUME <<p, dst>> \in Channels
      PROVE  Sendable(NewPacket(p, dst, body), C[<<p, dst>>])
  <2> SUFFICES ASSUME NEW d \in Nat \ {0}
               PROVE  [NewPacket(p, dst, body) EXCEPT !.delay = d] \in C[<<p, dst>>]
    BY DEF Sendable
  <2> DEFINE m == [NewPacket(p, dst, body) EXCEPT !.delay = d]
  <2>1. m = [src |-> p, dst |-> dst, body |-> body, round |-> currentRound, delay |-> d]
    BY DEF NewPacket
  <2>2. m \in Packets
    BY <1>1, <2>1 DEF Packets
  <2>3. m \in OnChannel(<<p, dst>>)
    BY <1>1, <2>1, <2>2 DEF OnChannel
  <2> QED
    BY <1>2, <1>3, <2>3
<1>4. Carries(Packets, C)
  BY <1>1, <1>2 DEF Carries
<1> HIDE DEF C
<1>5. /\ queue' \in [Channels -> Seq(Packets)]
      /\ throughputLeft' \in [Channels -> Int]
      /\ \A c \in Channels :
           /\ queue'[c] \in Seq(C[c])
           /\ Len(queue[c]) <= Len(queue'[c]) /\ Len(queue'[c]) <= Size
           /\ throughputLeft[c] >= 0 =>
                /\ throughputLeft'[c] >= 0
                /\ throughputLeft'[c] + Len(queue'[c]) = throughputLeft[c] + Len(queue[c])
           /\ c[1] # p => queue'[c] = queue[c]
  BY <1>1, <1>3, <1>4, UnicastEffect
<1> QED
  BY <1>2, <1>5

(* What a receive from c does. *)
LEMMA ReceiveStep ==
  ASSUME TypeOK, QueuesOK, StreamsOK, NEW c \in Channels, ReceiveFrom(c)
  PROVE  /\ queue' \in [Channels -> Seq(Packets)]
         /\ inStream' \in [Peers -> Seq(Packets)]
         /\ queue'[c] \in Seq(OnChannel(c))
         /\ inStream'[c[2]] \in Seq(Readable(c[2]))
         /\ \A e \in Channels : e # c => queue'[e] = queue[e]
         /\ \A p \in Peers : p # c[2] => inStream'[p] = inStream[p]
         /\ Moved(c)
<1>1. /\ queue \in [Channels -> Seq(Packets)] /\ inStream \in [Peers -> Seq(Packets)]
      /\ currentRound \in Nat /\ c[2] \in Peers
  BY NetworkAssumption, Ends DEF TypeOK
<1>2. /\ queue[c] \in Seq(OnChannel(c)) /\ inStream[c[2]] \in Seq(Readable(c[2]))
      /\ OnChannel(c) \subseteq Packets /\ Readable(c[2]) \subseteq Packets
  BY <1>1 DEF QueuesOK, StreamsOK, OnChannel, Readable
<1>3. Arrived(OnChannel(c)) \subseteq Readable(c[2])
  <2> SUFFICES ASSUME NEW m \in OnChannel(c), hasArrived(m, currentRound)
               PROVE  m \in Readable(c[2])
    BY DEF Arrived
  <2>1. m \in Packets /\ m.src = c[1] /\ m.dst = c[2] /\ m.delay >= 1
        /\ currentRound >= m.round + m.delay
    BY DEF OnChannel, hasArrived
  <2>2. m.delay \in Nat /\ m.round \in Nat
    BY <2>1 DEF Packets
  <2>3. <<m.src, c[2]>> \in Channels
    BY <2>1, Ends
  <2>4. m.round < currentRound /\ m.round + m.delay <= currentRound
    BY <1>1, <2>1, <2>2
  <2> QED
    BY <2>1, <2>3, <2>4 DEF Readable
<1>4. Reads(Packets, OnChannel(c), Readable(c[2]), c)
  BY <1>1, <1>2, <1>3 DEF Reads
<1> QED
  BY <1>4, ReceiveEffect

(* Every step keeps the shape of the state. *)
LEMMA TypeStep == ASSUME Inv, [Next]_vars PROVE TypeOK'
<1> USE NetworkAssumption, ChannelAssumption, ClientAssumption
<1>t. TypeOK /\ QueuesOK /\ StreamsOK
  BY DEF Inv
<1> USE DEF TypeOK
<1>1. CASE Begin
  BY <1>t, <1>1 DEF Begin, StartRound
<1>2. CASE Barrier
  BY <1>t, <1>2 DEF Barrier, StartCompute, EndRound, Finish, clientVars
<1>3. CASE Rebuild
  BY <1>t, <1>3, FreshOK DEF Rebuild, NextTest
<1>4. ASSUME NEW c \in Channels, Receive(c) PROVE TypeOK'
  <2> HIDE DEF TypeOK
  <2>1. ReceiveFrom(c)
    BY <1>4 DEF Receive
  <2>2. /\ queue' \in [Channels -> Seq(Packets)]
        /\ inStream' \in [Peers -> Seq(Packets)]
        /\ \A e \in Channels : e # c => queue'[e] = queue[e]
        /\ Moved(c)
    BY <1>t, <2>1, ReceiveStep
  <2>3. PICK n \in 0 .. Len(queue[c]) :
             /\ Len(queue'[c]) = Len(queue[c]) - n
             /\ Len(inStream'[c[2]]) = Len(inStream[c[2]]) + n
    BY <2>2 DEF Moved
  <2>4. /\ Len(queue[c]) \in Nat /\ Len(inStream[c[2]]) \in Nat
        /\ Len(queue[c]) <= Size
    <3>1. c[2] \in Peers
      BY Ends
    <3>2. queue[c] \in Seq(Packets) /\ inStream[c[2]] \in Seq(Packets)
          /\ Len(queue[c]) <= Size
      BY <1>t, <3>1 DEF TypeOK
    <3> QED
      BY <3>2, LenProperties
  <2>5. \A e \in Channels : Len(queue'[e]) <= Size
    <3>1. Len(queue'[c]) <= Size
      BY <2>3, <2>4
    <3>2. \A e \in Channels : Len(queue[e]) <= Size
      BY <1>t DEF TypeOK
    <3> QED
      BY <2>2, <3>1, <3>2
  <2>6. Len(inStream'[c[2]]) - Len(inStream[c[2]]) = n
    BY <2>3, <2>4
  <2>7. taken' \in [Channels -> Nat] /\ takenNow' \in [Channels -> Nat]
    <3>1. taken' = [taken EXCEPT ![c] = @ + n] /\ takenNow' = [takenNow EXCEPT ![c] = @ + n]
      BY <1>4, <2>6 DEF Receive
    <3> QED
      BY <1>t, <3>1 DEF TypeOK
  <2> QED
    BY <1>t, <1>4, <2>1, <2>2, <2>5, <2>7 DEF TypeOK, Receive, ReceiveFrom
<1>5. ASSUME NEW p \in Peers, Skip(p) PROVE TypeOK'
  BY <1>t, <1>5 DEF Skip, SkipCrashed, clientVars
<1>6. ASSUME NEW p \in Peers, Done(p) PROVE TypeOK'
  BY <1>t, <1>6 DEF Done, Return, clientVars
<1>7. ASSUME NEW p \in Peers, Consume(p) PROVE TypeOK'
  <2>1. inStream' \in [Peers -> Seq(Packets)]
    BY <1>t, <1>7, HeadTailProperties DEF Consume, popInStream
  <2> QED
    BY <1>t, <1>7, <2>1 DEF Consume, engineVars, clientVars
<1>8. ASSUME NEW p \in Peers, Crash(p) PROVE TypeOK'
  <2>1. crashRecoveryRound' \in [Peers -> Nat]
    BY <1>t, <1>8 DEF Crash
  <2> QED
    BY <1>t, <1>8, <2>1 DEF Crash, engineVars, clientVars
<1>9. ASSUME NEW p \in Peers, NEW dst \in Peers, Send(p, dst) PROVE TypeOK'
  <2> HIDE DEF TypeOK
  <2>1. sent[<<p, dst>>] + 1 \in Nat /\ unicastTo(p, dst, sent[<<p, dst>>] + 1)
    BY <1>t, <1>9 DEF Send, TypeOK
  <2>2. /\ queue' \in [Channels -> Seq(Packets)]
        /\ throughputLeft' \in [Channels -> Int]
        /\ \A c \in Channels :
              Len(queue[c]) <= Len(queue'[c]) /\ Len(queue'[c]) <= Size
    BY <1>t, <2>1, SendEffect
  <2>3. pushed' \in [Channels -> Nat]
    <3>1. ASSUME NEW c \in Channels
          PROVE  pushed[c] + Len(queue'[c]) - Len(queue[c]) \in Nat
      <4>1. pushed[c] \in Nat /\ Len(queue'[c]) \in Nat /\ Len(queue[c]) \in Nat
        BY <1>t, <2>2, LenProperties DEF TypeOK
      <4> QED
        BY <2>2, <4>1
    <3> QED
      BY <1>9, <3>1 DEF Send
  <2>4. sends' \in [Peers -> Nat] /\ sent' \in [Peers \X Peers -> Nat]
    BY <1>t, <1>9 DEF Send, TypeOK
  <2> QED
    BY <1>t, <1>9, <2>2, <2>3, <2>4 DEF Send, engineVars, TypeOK
<1>10. CASE UNCHANGED vars
  BY <1>t, <1>10 DEF vars, netVars, engineVars, clientVars
<1> HIDE DEF TypeOK
<1> QED
  BY <1>1, <1>2, <1>3, <1>4, <1>5, <1>6, <1>7, <1>8, <1>9, <1>10
  DEF Next, Engine, Returned

(* The queues hold only packets of their channel with a delay of at least  *)
(* one round, and a stream only packets that have arrived.                 *)
LEMMA PacketStep == ASSUME Inv, [Next]_vars PROVE QueuesOK' /\ StreamsOK'
<1> USE NetworkAssumption
<1>t. TypeOK /\ QueuesOK /\ StreamsOK /\ currentRound \in Nat
  BY DEF Inv, TypeOK
<1>m. ASSUME UNCHANGED currentRound
      PROVE  /\ \A c \in Channels : OnChannel(c)' = OnChannel(c)
             /\ \A p \in Peers : Readable(p)' = Readable(p)
  BY <1>m DEF OnChannel, Readable
<1>u. ASSUME UNCHANGED <<currentRound, queue, inStream>> PROVE QueuesOK' /\ StreamsOK'
  BY <1>t, <1>u, <1>m DEF QueuesOK, StreamsOK
<1>1. CASE Begin
  <2>1. currentRound' = currentRound + 1 /\ UNCHANGED <<queue, inStream>>
    BY <1>1 DEF Begin, StartRound
  <2>2. ASSUME NEW c \in Channels PROVE queue'[c] \in Seq(OnChannel(c)')
    <3>1. OnChannel(c) \subseteq OnChannel(c)'
      BY <1>t, <2>1 DEF OnChannel, Packets
    <3> QED
      BY <1>t, <2>1, <3>1, SeqMonotonic DEF QueuesOK
  <2>3. ASSUME NEW p \in Peers PROVE inStream'[p] \in Seq(Readable(p)')
    <3>1. Readable(p) \subseteq Readable(p)'
      BY <1>t, <2>1 DEF Readable, Packets
    <3> QED
      BY <1>t, <2>1, <3>1, SeqMonotonic DEF StreamsOK
  <2> QED
    BY <2>2, <2>3 DEF QueuesOK, StreamsOK
<1>2. CASE Barrier
  BY <1>2, <1>u DEF Barrier, StartCompute, EndRound, Finish
<1>3. CASE Rebuild
  <2>1. queue' = [c \in Channels |-> <<>>] /\ inStream' = [p \in Peers |-> <<>>]
    BY <1>3, FreshOK DEF Rebuild, NextTest
  <2> QED
    BY <2>1, EmptySeq DEF QueuesOK, StreamsOK
<1>4. ASSUME NEW c \in Channels, Receive(c) PROVE QueuesOK' /\ StreamsOK'
  <2>1. ReceiveFrom(c) /\ UNCHANGED currentRound
    BY <1>4 DEF Receive, ReceiveFrom
  <2>2. /\ queue'[c] \in Seq(OnChannel(c))
        /\ inStream'[c[2]] \in Seq(Readable(c[2]))
        /\ \A e \in Channels : e # c => queue'[e] = queue[e]
        /\ \A p \in Peers : p # c[2] => inStream'[p] = inStream[p]
    BY <1>t, <2>1, ReceiveStep
  <2>3. \A e \in Channels : queue'[e] \in Seq(OnChannel(e))
    BY <1>t, <2>2 DEF QueuesOK
  <2>4. \A p \in Peers : inStream'[p] \in Seq(Readable(p))
    BY <1>t, <2>2 DEF StreamsOK
  <2> QED
    BY <1>m, <2>1, <2>3, <2>4 DEF QueuesOK, StreamsOK
<1>5. ASSUME NEW p \in Peers, Skip(p) \/ Done(p) \/ Crash(p)
      PROVE  QueuesOK' /\ StreamsOK'
  BY <1>5, <1>u DEF Skip, SkipCrashed, Done, Crash, engineVars
<1>6. ASSUME NEW p \in Peers, Consume(p) PROVE QueuesOK' /\ StreamsOK'
  <2>1. /\ UNCHANGED <<currentRound, queue>>
        /\ inStream[p] # <<>> /\ inStream' = [inStream EXCEPT ![p] = Tail(@)]
    BY <1>6 DEF Consume, popInStream, engineVars
  <2>2. \A o \in Peers : inStream'[o] \in Seq(Readable(o))
    <3>1. Tail(inStream[p]) \in Seq(Readable(p))
      BY <1>t, <2>1, HeadTailProperties DEF StreamsOK
    <3> QED
      BY <1>t, <2>1, <3>1 DEF StreamsOK, TypeOK
  <2> QED
    BY <1>t, <1>m, <2>1, <2>2 DEF QueuesOK, StreamsOK
<1>7. ASSUME NEW p \in Peers, NEW dst \in Peers, Send(p, dst)
      PROVE  QueuesOK' /\ StreamsOK'
  <2>1. /\ sent[<<p, dst>>] + 1 \in Nat /\ unicastTo(p, dst, sent[<<p, dst>>] + 1)
        /\ UNCHANGED <<currentRound, inStream>>
    BY <1>t, <1>7 DEF Send, TypeOK, engineVars
  <2>2. \A c \in Channels : queue'[c] \in Seq(OnChannel(c))
    BY <1>t, <2>1, SendEffect
  <2> QED
    BY <1>t, <1>m, <2>1, <2>2 DEF QueuesOK, StreamsOK
<1>8. CASE UNCHANGED vars
  BY <1>8, <1>u DEF vars, netVars, engineVars
<1> QED
  BY <1>1, <1>2, <1>3, <1>4, <1>5, <1>6, <1>7, <1>8 DEF Next, Engine, Returned

(* Counting: a send adds to pushed what it adds to the queue and takes it  *)
(* from the budget, a receive moves packets from the queue to taken.       *)
LEMMA CountStep == ASSUME Inv, [Next]_vars PROVE Conservation' /\ ThroughputBudget'
<1> USE NetworkAssumption
<1>t. TypeOK /\ QueuesOK /\ StreamsOK /\ Conservation /\ ThroughputBudget
  BY DEF Inv
<1>k. /\ MaxMsgsRec * LastRound \in Nat
      /\ queue \in [Channels -> Seq(Packets)] /\ throughputLeft \in [Channels -> Int]
      /\ pushed \in [Channels -> Nat] /\ taken \in [Channels -> Nat]
      /\ \A c \in Channels : Len(queue[c]) \in Nat
  BY <1>t, ChannelAssumption, LenProperties DEF TypeOK
<1>u. ASSUME UNCHANGED <<queue, throughputLeft, pushed, taken>>
      PROVE  Conservation' /\ ThroughputBudget'
  BY <1>t, <1>u DEF Conservation, ThroughputBudget
<1>1. CASE Begin \/ Barrier
  BY <1>1, <1>u DEF Begin, StartRound, Barrier, StartCompute, EndRound, Finish, clientVars
<1>2. CASE Rebuild
  <2>1. /\ queue' = [c \in Channels |-> <<>>]
        /\ throughputLeft' = [c \in Channels |-> Throughput(LastRound, 0)]
        /\ pushed' = [c \in Channels |-> 0] /\ taken' = [c \in Channels |-> 0]
    BY <1>2, FreshOK DEF Rebuild, NextTest
  <2>2. Conservation'
    BY <2>1 DEF Conservation
  <2>3. ThroughputBudget'
    BY <2>1, <1>k, ThroughputFits DEF ThroughputBudget
  <2> QED
    BY <2>2, <2>3
<1>3. ASSUME NEW c \in Channels, Receive(c) PROVE Conservation' /\ ThroughputBudget'
  <2>1. ReceiveFrom(c) /\ UNCHANGED <<throughputLeft, pushed>>
    BY <1>3 DEF Receive, ReceiveFrom
  <2>2. /\ \A e \in Channels : e # c => queue'[e] = queue[e]
        /\ Moved(c)
    BY <1>t, <2>1, ReceiveStep
  <2>3. PICK n \in 0 .. Len(queue[c]) :
             /\ Len(queue'[c]) = Len(queue[c]) - n
             /\ Len(inStream'[c[2]]) = Len(inStream[c[2]]) + n
    BY <2>2 DEF Moved
  <2>4. inStream[c[2]] \in Seq(Packets)
    BY <1>t, Ends DEF TypeOK
  <2>5. Len(inStream'[c[2]]) - Len(inStream[c[2]]) = n
    BY <2>3, <2>4, LenProperties, <1>k
  <2>6. taken' = [taken EXCEPT ![c] = @ + n]
    BY <1>3, <2>5 DEF Receive
  <2>7. pushed[c] = taken[c] + Len(queue[c])
    BY <1>t DEF Conservation
  <2>8. taken[c] + Len(queue[c]) = (taken[c] + n) + (Len(queue[c]) - n)
    BY <1>k, <2>3
  <2>9. \A e \in Channels : pushed'[e] = taken'[e] + Len(queue'[e])
    <3> SUFFICES ASSUME NEW e \in Channels PROVE pushed'[e] = taken'[e] + Len(queue'[e])
      OBVIOUS
    <3>1. CASE e = c
      <4>1. taken'[c] = taken[c] + n
        BY <1>k, <2>6
      <4> QED
        BY <3>1, <4>1, <2>1, <2>3, <2>7, <2>8, Zenon
    <3>2. CASE e # c
      BY <3>2, <1>t, <1>k, <2>1, <2>2, <2>6 DEF Conservation
    <3> QED
      BY <3>1, <3>2
  <2> QED
    BY <1>t, <2>1, <2>9 DEF Conservation, ThroughputBudget
<1>4. ASSUME NEW p \in Peers, Skip(p) \/ Done(p) \/ Crash(p) \/ Consume(p)
      PROVE  Conservation' /\ ThroughputBudget'
  BY <1>4, <1>u DEF Skip, SkipCrashed, Done, Crash, Consume, clientVars
<1>5. ASSUME NEW p \in Peers, NEW dst \in Peers, Send(p, dst)
      PROVE  Conservation' /\ ThroughputBudget'
  <2>1. /\ sent[<<p, dst>>] + 1 \in Nat /\ unicastTo(p, dst, sent[<<p, dst>>] + 1)
        /\ pushed' = [c \in Channels |-> pushed[c] + Len(queue'[c]) - Len(queue[c])]
        /\ UNCHANGED taken
    BY <1>t, <1>5 DEF Send, TypeOK
  <2>2. /\ queue' \in [Channels -> Seq(Packets)]
        /\ throughputLeft' \in [Channels -> Int]
        /\ \A c \in Channels :
              throughputLeft[c] >= 0 =>
                /\ throughputLeft'[c] >= 0
                /\ throughputLeft'[c] + Len(queue'[c]) = throughputLeft[c] + Len(queue[c])
    BY <1>t, <2>1, SendEffect
  <2>3. ASSUME NEW c \in Channels
        PROVE  pushed'[c] = taken'[c] + Len(queue'[c])
    <3> DEFINE x == Len(queue[c])
               y == Len(queue'[c])
    <3>1. pushed'[c] = pushed[c] + y - x /\ taken'[c] = taken[c]
      BY <2>1
    <3>2. pushed[c] = taken[c] + x
      BY <1>t DEF Conservation
    <3>3. y \in Nat /\ taken[c] \in Nat /\ x \in Nat
      BY <1>k, <2>2, LenProperties
    <3> HIDE DEF x, y
    <3>4. pushed'[c] = taken'[c] + y
      BY <3>1, <3>2, <3>3
    <3> QED
      BY <3>4 DEF y
  <2>4. ASSUME MaxMsgsRec * LastRound < 2 ^ (IntBits - 1), NEW c \in Channels
        PROVE  pushed'[c] + throughputLeft'[c] = MaxMsgsRec * LastRound
               /\ throughputLeft'[c] >= 0
    <3> DEFINE x == Len(queue[c])
               y == Len(queue'[c])
    <3>1. pushed'[c] = pushed[c] + y - x
      BY <2>1
    <3>2. pushed[c] + throughputLeft[c] = MaxMsgsRec * LastRound /\ throughputLeft[c] >= 0
      BY <1>t, <2>4 DEF ThroughputBudget
    <3>3. throughputLeft'[c] >= 0 /\ throughputLeft'[c] + y = throughputLeft[c] + x
      BY <2>2, <3>2
    <3>4. /\ y \in Nat /\ pushed[c] \in Nat /\ x \in Nat
          /\ throughputLeft[c] \in Int /\ throughputLeft'[c] \in Int
      BY <1>k, <2>2, LenProperties
    <3> HIDE DEF x, y
    <3>5. pushed'[c] + throughputLeft'[c] = pushed[c] + throughputLeft[c]
      BY <3>1, <3>3, <3>4
    <3> QED
      BY <3>2, <3>3, <3>5
  <2> QED
    BY <2>3, <2>4 DEF Conservation, ThroughputBudget
<1>6. CASE UNCHANGED vars
  BY <1>6, <1>u DEF vars, netVars, engineVars, clientVars
<1> QED
  BY <1>1, <1>2, <1>3, <1>4, <1>5, <1>6 DEF Next, Engine, Returned

(* The two task lists are empty outside their phase. *)
LEMMA PhaseStep == ASSUME Inv, [Next]_vars PROVE PhaseOK'
<1>t. PhaseOK
  BY DEF Inv
<1>1. CASE Engine
  BY <1>t, <1>1 DEF Engine, PhaseOK, Begin, StartRound, Barrier, StartCompute,
     ReceiveDone, EndRound, Finish, Rebuild, NextTest, Receive, ReceiveFrom, Skip,
     SkipCrashed, Done, Computing, Return
<1>2. ASSUME NEW p \in Peers, Consume(p) \/ Crash(p) \/ \E dst \in Peers : Send(p, dst)
      PROVE  PhaseOK'
  BY <1>t, <1>2 DEF PhaseOK, Consume, Crash, Send, engineVars
<1>3. CASE UNCHANGED vars
  BY <1>t, <1>3 DEF PhaseOK, vars, netVars, engineVars
<1> QED
  BY <1>1, <1>2, <1>3 DEF Next, Returned

(* The inductive invariant of the engine. *)
THEOREM Invariance == Spec => []Inv
<1>1. Init => Inv
  <2> SUFFICES ASSUME Init PROVE Inv
    OBVIOUS
  <2>i. /\ test = 0 /\ phase = "init" /\ toReceive = {} /\ toCompute = {}
        /\ currentRound = 0
        /\ queue = [c \in Channels |-> <<>>]
        /\ throughputLeft = [c \in Channels |-> Throughput(LastRound, 0)]
        /\ inStream = [p \in Peers |-> <<>>]
        /\ crashRecoveryRound = [p \in Peers |-> 0]
        /\ pushed = [c \in Channels |-> 0] /\ taken = [c \in Channels |-> 0]
    BY FreshOK DEF Init, NetInit
  <2>1. TypeOK
    BY <2>i, FreshOK, NetworkAssumption, ChannelAssumption DEF Init, TypeOK
  <2>2. QueuesOK /\ StreamsOK
    BY <2>i, EmptySeq DEF QueuesOK, StreamsOK
  <2>3. Conservation
    BY <2>i DEF Conservation
  <2>4. ThroughputBudget
    <3>1. MaxMsgsRec * LastRound \in Nat
      BY NetworkAssumption, ChannelAssumption
    <3> QED
      BY <2>i, <3>1, ThroughputFits, NetworkAssumption DEF ThroughputBudget
  <2>5. PhaseOK
    BY <2>i DEF PhaseOK
  <2> QED
    BY <2>1, <2>2, <2>3, <2>4, <2>5 DEF Inv
<1>2. Inv /\ [Next]_vars => Inv'
  BY TypeStep, PacketStep, CountStep, PhaseStep DEF Inv
<1> QED
  BY <1>1, <1>2, PTL DEF Spec

(* Type correctness; a queue never holds more than its capacity. *)
THEOREM TypeCorrect == Spec => []TypeOK
<1>1. Inv => TypeOK
  BY DEF Inv
<1> QED
  BY <1>1, Invariance, PTL

(* In round r an algorithm reads only packets that were sent to it over a  *)
(* channel of the topology in an earlier round and whose delay has passed. *)
THEOREM SynchronyTheorem == Spec => []SynchronousDelivery
<1>1. Inv => SynchronousDelivery
  <2> SUFFICES ASSUME StreamsOK, NEW p \in Peers, NEW i \in 1 .. Len(inStream[p])
               PROVE  LET m == inStream[p][i] IN
                        /\ <<m.src, p>> \in Channels /\ m.dst = p
                        /\ m.round < currentRound
                        /\ m.round + m.delay <= currentRound
    BY DEF Inv, SynchronousDelivery
  <2>1. inStream[p][i] \in Readable(p)
    BY ElementOfSeq DEF StreamsOK
  <2> QED
    BY <2>1 DEF Readable
<1> QED
  BY <1>1, Invariance, PTL

(* No packet is lost or made up between pushPacket and the inStream.       *)
THEOREM ConservationTheorem == Spec => []Conservation
<1>1. Inv => Conservation
  BY DEF Inv
<1> QED
  BY <1>1, Invariance, PTL

(* A channel whose budget fits the int carries at most maxMsgsRec packets  *)
(* per round of the test, duplicates included.                             *)
THEOREM BudgetTheorem == Spec => []ThroughputBudget
<1>1. Inv => ThroughputBudget
  BY DEF Inv
<1> QED
  BY <1>1, Invariance, PTL

(* A step writes a channel, reads one, rebuilds all, or does neither.      *)
LEMMA WhoTouchesChannels ==
  ASSUME Inv, [Next]_vars
  PROVE  \/ \E p, dst \in Peers : Send(p, dst)
         \/ \E c \in Channels : Receive(c)
         \/ Rebuild
         \/ UNCHANGED <<pushed, taken>>
  BY DEF Next, Engine, Returned, Begin, Barrier, Skip, Done, Consume, Crash, clientVars,
     vars

(* The phases never share a channel: reading happens while no computation  *)
(* runs, writing while no receive runs.                                    *)
THEOREM OwnershipTheorem == Spec => ChannelOwnership
<1> DEFINE A == \A c \in Channels :
             /\ taken'[c] > taken[c] => \A d \in Channels : pushed'[d] = pushed[d]
             /\ taken'[c] > taken[c] => toCompute = {}
             /\ pushed'[c] > pushed[c] => toReceive = {}
<1>1. ASSUME Inv, [Next]_vars PROVE A
  <2>t. pushed \in [Channels -> Nat] /\ taken \in [Channels -> Nat] /\ PhaseOK
    BY <1>1 DEF Inv, TypeOK
  <2>n. \A k \in Nat : ~(k > k) /\ ~(0 > k)
    OBVIOUS
  <2>1. ASSUME NEW p \in Peers, NEW dst \in Peers, Send(p, dst) PROVE A
    <3>1. toReceive = {} /\ taken' = taken
      BY <2>t, <2>1 DEF Send, Computing, PhaseOK
    <3> QED
      BY <2>t, <2>n, <3>1
  <2>2. ASSUME NEW c \in Channels, Receive(c) PROVE A
    <3>1. toCompute = {} /\ pushed' = pushed
      BY <2>t, <2>2 DEF Receive, ReceiveFrom, PhaseOK
    <3> QED
      BY <2>t, <2>n, <3>1
  <2>3. CASE Rebuild
    BY <2>t, <2>n, <2>3 DEF Rebuild
  <2>4. CASE UNCHANGED <<pushed, taken>>
    BY <2>t, <2>n, <2>4
  <2> QED
    BY <1>1, WhoTouchesChannels, <2>1, <2>2, <2>3, <2>4
<1>2. Inv /\ [Next]_vars => [A]_vars
  BY <1>1
<1> QED
  BY <1>2, Invariance, PTL DEF Spec, ChannelOwnership

(* A crashed peer sends nothing and consumes nothing until its recovery    *)
(* round, whatever the other peers do.                                     *)
THEOREM CrashTheorem == Spec => CrashedPeerIsInert
<1> DEFINE A == \A p \in Peers :
             (isCrashed(p) /\ currentRound' >= currentRound) =>
               /\ Len(inStream'[p]) >= Len(inStream[p])
               /\ \A c \in Channels : c[1] = p => pushed'[c] = pushed[c]
<1>1. ASSUME Inv, [Next]_vars, NEW p \in Peers, isCrashed(p), currentRound' >= currentRound
      PROVE  /\ Len(inStream'[p]) >= Len(inStream[p])
             /\ \A c \in Channels : c[1] = p => pushed'[c] = pushed[c]
  <2>t. TypeOK /\ QueuesOK /\ StreamsOK
    BY <1>1 DEF Inv
  <2>k. /\ inStream \in [Peers -> Seq(Packets)] /\ Len(inStream[p]) \in Nat
        /\ queue \in [Channels -> Seq(Packets)] /\ pushed \in [Channels -> Nat]
    BY <2>t, LenProperties DEF TypeOK
  <2>u. ASSUME inStream'[p] = inStream[p], UNCHANGED pushed
        PROVE  /\ Len(inStream'[p]) >= Len(inStream[p])
               /\ \A c \in Channels : c[1] = p => pushed'[c] = pushed[c]
    BY <2>k, <2>u
  <2>1. CASE Begin \/ Barrier
    BY <2>1, <2>u DEF Begin, StartRound, Barrier, StartCompute, EndRound, Finish, clientVars
  <2>2. ~Rebuild
    BY <1>1, <2>t, FreshOK, NetworkAssumption DEF Rebuild, NextTest, TypeOK
  <2>3. ASSUME NEW c \in Channels, Receive(c)
        PROVE  /\ Len(inStream'[p]) >= Len(inStream[p])
               /\ UNCHANGED pushed
    <3>1. ReceiveFrom(c) /\ UNCHANGED pushed
      BY <2>3 DEF Receive
    <3>2. /\ \A o \in Peers : o # c[2] => inStream'[o] = inStream[o]
          /\ Moved(c)
      BY <2>t, <3>1, ReceiveStep
    <3>3. Len(inStream'[p]) >= Len(inStream[p])
      <4>1. CASE p = c[2]
        <5>1. PICK n \in 0 .. Len(queue[c]) : Len(inStream'[p]) = Len(inStream[p]) + n
          BY <3>2, <4>1 DEF Moved
        <5>2. n \in Nat
          BY <2>k, LenProperties
        <5> QED
          BY <2>k, <5>1, <5>2
      <4>2. CASE p # c[2]
        BY <2>k, <3>2, <4>2
      <4> QED
        BY <4>1, <4>2
    <3> QED
      BY <3>1, <3>3
  <2>4. ASSUME NEW o \in Peers, Skip(o) \/ Done(o) \/ Crash(o)
        PROVE  UNCHANGED <<inStream, pushed>>
    BY <2>4 DEF Skip, SkipCrashed, Done, Crash, clientVars
  <2>5. ASSUME NEW o \in Peers, Consume(o)
        PROVE  inStream'[p] = inStream[p] /\ UNCHANGED pushed
    <3>1. o # p
      BY <1>1, <2>5 DEF Consume, Computing
    <3> QED
      BY <2>k, <2>5, <3>1 DEF Consume, popInStream, clientVars
  <2>6. ASSUME NEW o \in Peers, NEW dst \in Peers, Send(o, dst)
        PROVE  /\ inStream' = inStream
               /\ \A c \in Channels : c[1] = p => pushed'[c] = pushed[c]
    <3>1. o # p /\ inStream' = inStream
      BY <1>1, <2>6 DEF Send, Computing
    <3>2. sent[<<o, dst>>] + 1 \in Nat /\ unicastTo(o, dst, sent[<<o, dst>>] + 1)
      BY <2>t, <2>6 DEF Send, TypeOK
    <3>3. \A c \in Channels : c[1] # o => queue'[c] = queue[c]
      BY <2>t, <3>2, SendEffect
    <3>4. ASSUME NEW c \in Channels, c[1] = p PROVE pushed'[c] = pushed[c]
      <4>1. queue'[c] = queue[c] /\ Len(queue[c]) \in Nat /\ pushed[c] \in Nat
        BY <2>k, <3>1, <3>3, <3>4, LenProperties
      <4>2. pushed'[c] = pushed[c] + Len(queue[c]) - Len(queue[c])
        BY <2>6, <4>1 DEF Send
      <4> QED
        BY <4>1, <4>2
    <3> QED
      BY <3>1, <3>4
  <2>7. CASE UNCHANGED vars
    BY <2>7, <2>u DEF vars, netVars, clientVars
  <2> QED
    BY <1>1, <2>u, <2>k, <2>1, <2>2, <2>3, <2>4, <2>5, <2>6, <2>7 DEF Next, Engine, Returned
<1>2. Inv /\ [Next]_vars => [A]_vars
  BY <1>1
<1> QED
  BY <1>2, Invariance, PTL DEF Spec, CrashedPeerIsInert

(* The packets of channel c, first the ones its receiver can read and then *)
(* the queued ones, are in the order of their numbers, and the next number *)
(* is larger.                                                              *)
ChannelOrdered(c) ==
  /\ \A i \in 1 .. Len(queue[c]) : queue[c][i].body <= sent[c]
  /\ \A i, j \in 1 .. Len(queue[c]) : i < j => queue[c][i].body <= queue[c][j].body
  /\ \A k \in 1 .. Len(inStream[c[2]]) :
       inStream[c[2]][k].src = c[1] =>
         /\ inStream[c[2]][k].body <= sent[c]
         /\ \A i \in 1 .. Len(queue[c]) : inStream[c[2]][k].body <= queue[c][i].body
         /\ \A l \in 1 .. Len(inStream[c[2]]) :
              inStream[c[2]][l].src = c[1] /\ k < l =>
                inStream[c[2]][k].body <= inStream[c[2]][l].body

OrderOK == TRUE \notin Reorder => \A c \in Channels : ChannelOrdered(c)

(* Every packet in a queue or a stream has a number and, in a queue, the   *)
(* sender of the channel.                                                  *)
LEMMA PacketShape ==
  ASSUME Inv
  PROVE  /\ \A c \in Channels : Len(queue[c]) \in Nat /\ sent[c] \in Nat
         /\ \A c \in Channels : \A i \in 1 .. Len(queue[c]) :
              queue[c][i].body \in Nat /\ queue[c][i].src = c[1]
         /\ \A p \in Peers : Len(inStream[p]) \in Nat
         /\ \A p \in Peers : \A i \in 1 .. Len(inStream[p]) :
              inStream[p][i].body \in Nat /\ <<inStream[p][i].src, p>> \in Channels
<1>1. ASSUME NEW c \in Channels
      PROVE  /\ Len(queue[c]) \in Nat /\ sent[c] \in Nat
             /\ \A i \in 1 .. Len(queue[c]) :
                  queue[c][i].body \in Nat /\ queue[c][i].src = c[1]
  <2>1. queue[c] \in Seq(OnChannel(c)) /\ sent[c] \in Nat
    BY DEF Inv, QueuesOK, TypeOK, Channels
  <2>2. \A i \in 1 .. Len(queue[c]) : queue[c][i] \in OnChannel(c)
    BY <2>1, ElementOfSeq
  <2> QED
    BY <2>1, <2>2, LenProperties DEF OnChannel, Packets
<1>2. ASSUME NEW p \in Peers
      PROVE  /\ Len(inStream[p]) \in Nat
             /\ \A i \in 1 .. Len(inStream[p]) :
                  inStream[p][i].body \in Nat /\ <<inStream[p][i].src, p>> \in Channels
  <2>1. inStream[p] \in Seq(Readable(p))
    BY DEF Inv, StreamsOK
  <2>2. \A i \in 1 .. Len(inStream[p]) : inStream[p][i] \in Readable(p)
    BY <2>1, ElementOfSeq
  <2> QED
    BY <2>1, <2>2, LenProperties DEF Readable, Packets
<1> QED
  BY <1>1, <1>2

(* A send appends packets whose number is the largest of their channel.    *)
LEMMA SendKeepsOrder ==
  ASSUME Inv, NEW p \in Peers, NEW dst \in Peers, Send(p, dst),
         NEW c \in Channels, ChannelOrdered(c)
  PROVE  ChannelOrdered(c)'
<1>1. /\ sent[<<p, dst>>] \in Nat /\ unicastTo(p, dst, sent[<<p, dst>>] + 1)
      /\ inStream' = inStream /\ currentRound \in Nat
      /\ sent' = [sent EXCEPT ![<<p, dst>>] = @ + IF dst \in Neighbors[p] THEN 1 ELSE 0]
  BY NetworkAssumption DEF Inv, TypeOK, Send
<1>2. /\ \A i \in 1 .. Len(queue[c]) : queue'[c][i] = queue[c][i]
      /\ \A i \in Len(queue[c]) + 1 .. Len(queue'[c]) :
           c = <<p, dst>> /\ queue'[c][i].body = sent[c] + 1
  <2> DEFINE C == [e \in Channels |-> OnChannel(e)]
             body == sent[<<p, dst>>] + 1
  <2>1. Carries(Packets, C)
    <3>1. queue \in [Channels -> Seq(Packets)]
      BY DEF Inv, TypeOK
    <3>2. \A e \in Channels :
            OnChannel(e) \subseteq Packets /\ queue[e] \in Seq(OnChannel(e))
            /\ Len(queue[e]) <= Size
      BY DEF Inv, TypeOK, QueuesOK, OnChannel
    <3> QED
      BY <3>1, <3>2 DEF Carries
  <2>2. ASSUME <<p, dst>> \in Channels
        PROVE  Sendable(NewPacket(p, dst, body), C[<<p, dst>>])
    <3> SUFFICES ASSUME NEW d \in Nat \ {0}
                 PROVE  [NewPacket(p, dst, body) EXCEPT !.delay = d] \in OnChannel(<<p, dst>>)
      BY <2>2 DEF Sendable
    <3> DEFINE m == [NewPacket(p, dst, body) EXCEPT !.delay = d]
    <3>1. m = [src |-> p, dst |-> dst, body |-> body, round |-> currentRound, delay |-> d]
      BY DEF NewPacket
    <3>2. m \in Packets
      BY <1>1, <3>1 DEF Packets
    <3> QED
      BY <1>1, <3>1, <3>2 DEF OnChannel
  <2>3. throughputLeft \in [Channels -> Int] /\ unicastTo(p, dst, body)
    BY <1>1 DEF Inv, TypeOK
  <2>4. \A d : Copy(NewPacket(p, dst, body), d).body = body
    BY DEF Copy, NewPacket
  <2> HIDE DEF C, body
  <2>5. /\ \A i \in 1 .. Len(queue[c]) : queue'[c][i] = queue[c][i]
        /\ \A i \in Len(queue[c]) + 1 .. Len(queue'[c]) :
             /\ c = <<p, dst>>
             /\ \E d \in Nat \ {0} : queue'[c][i] = Copy(NewPacket(p, dst, body), d)
    BY <2>1, <2>2, <2>3, UnicastAppends
  <2> QED
    BY <2>4, <2>5 DEF body
<1>3. /\ Len(queue[c]) \in Nat /\ Len(queue[c]) <= Len(queue'[c])
      /\ Len(queue'[c]) \in Nat
  <2>1. TypeOK /\ QueuesOK
    BY DEF Inv
  <2>2. sent[<<p, dst>>] + 1 \in Nat
    BY <1>1
  <2>3. Len(queue[c]) <= Len(queue'[c]) /\ queue' \in [Channels -> Seq(Packets)]
    BY <1>1, <2>1, <2>2, SendEffect
  <2> QED
    BY <2>3, PacketShape, LenProperties
<1>4. sent[c] \in Nat /\ sent'[c] \in Nat /\ sent[c] <= sent'[c]
  <2>1. sent[c] \in Nat /\ sent \in [Peers \X Peers -> Nat] /\ c \in Peers \X Peers
    BY PacketShape DEF Inv, TypeOK, Channels
  <2> QED
    BY <1>1, <2>1
<1>5. c = <<p, dst>> => sent'[c] = sent[c] + 1
  <2>1. sent \in [Peers \X Peers -> Nat] /\ c \in Peers \X Peers
    BY DEF Inv, TypeOK, Channels
  <2>2. c = <<p, dst>> => dst \in Neighbors[p]
    BY DEF Channels
  <2> QED
    BY <1>1, <2>1, <2>2
<1>6. c[2] \in Peers /\ inStream'[c[2]] = inStream[c[2]]
  BY <1>1, Ends
<1> DEFINE old == 1 .. Len(queue[c])
           new == Len(queue[c]) + 1 .. Len(queue'[c])
<1>7. \A i \in 1 .. Len(queue'[c]) : i \in old \/ i \in new
  BY <1>3
<1>8. \A i \in old : /\ queue'[c][i] = queue[c][i] /\ queue[c][i].body \in Nat
                      /\ queue[c][i].body <= sent[c]
  BY <1>2, PacketShape DEF ChannelOrdered
<1>9. \A i \in 1 .. Len(queue'[c]) : queue'[c][i].body <= sent'[c]
  BY <1>2, <1>4, <1>5, <1>7, <1>8
<1>10. ASSUME NEW i \in 1 .. Len(queue'[c]), NEW j \in 1 .. Len(queue'[c]), i < j
       PROVE  queue'[c][i].body <= queue'[c][j].body
  <2>1. CASE j \in old
    <3>1. i \in old
      BY <1>3, <1>10, <2>1
    <3> QED
      BY <1>8, <1>10, <2>1, <3>1 DEF ChannelOrdered
  <2>2. CASE j \in new /\ i \in old
    <3>1. queue'[c][i].body \in Nat /\ queue'[c][i].body <= sent[c]
      BY <1>8, <2>2
    <3>2. queue'[c][j].body = sent[c] + 1
      BY <1>2, <2>2
    <3> QED
      BY <1>4, <3>1, <3>2
  <2>3. CASE j \in new /\ i \in new
    BY <1>2, <1>4, <2>3
  <2> QED
    BY <1>7, <2>1, <2>2, <2>3
<1>11. ASSUME NEW k \in 1 .. Len(inStream[c[2]]), inStream[c[2]][k].src = c[1]
       PROVE  /\ inStream[c[2]][k].body <= sent'[c]
              /\ \A i \in 1 .. Len(queue'[c]) : inStream[c[2]][k].body <= queue'[c][i].body
  <2>1. /\ inStream[c[2]][k].body \in Nat /\ inStream[c[2]][k].body <= sent[c]
        /\ \A i \in old : inStream[c[2]][k].body <= queue[c][i].body
    BY <1>6, <1>11, PacketShape DEF ChannelOrdered
  <2>2. inStream[c[2]][k].body <= sent'[c]
    BY <1>4, <2>1
  <2>3. \A i \in old : inStream[c[2]][k].body <= queue'[c][i].body
    BY <1>8, <2>1
  <2>4. ASSUME NEW i \in new PROVE inStream[c[2]][k].body <= queue'[c][i].body
    <3>1. queue'[c][i].body = sent[c] + 1
      BY <1>2
    <3> QED
      BY <1>4, <2>1, <3>1
  <2> QED
    BY <1>7, <2>2, <2>3, <2>4
<1> HIDE DEF old, new
<1> QED
  BY <1>6, <1>9, <1>10, <1>11 DEF ChannelOrdered

(* A receive of a channel that does not reorder moves the first packets of *)
(* the queue behind the ones the receiver can already read.                *)
LEMMA ReceiveKeepsOrder ==
  ASSUME Inv, TRUE \notin Reorder, NEW e \in Channels, Receive(e),
         NEW c \in Channels, ChannelOrdered(c)
  PROVE  ChannelOrdered(c)'
<1>1. ReceiveFrom(e) /\ sent' = sent
  BY DEF Receive
<1>2. MovedInOrder(e)
  BY <1>1, ReceiveInOrder DEF Inv, TypeOK
<1>3. /\ \A o \in Channels : o # e => queue'[o] = queue[o]
      /\ \A p \in Peers : p # e[2] => inStream'[p] = inStream[p]
  BY <1>1, ReceiveStep DEF Inv
<1>4. PICK n \in 0 .. Len(queue[e]) :
        /\ Len(queue'[e]) = Len(queue[e]) - n
        /\ Len(inStream'[e[2]]) = Len(inStream[e[2]]) + n
        /\ \A i \in 1 .. Len(inStream[e[2]]) : inStream'[e[2]][i] = inStream[e[2]][i]
        /\ \A i \in 1 .. n : inStream'[e[2]][Len(inStream[e[2]]) + i] = queue[e][i]
        /\ \A i \in 1 .. Len(queue[e]) - n : queue'[e][i] = queue[e][n + i]
  BY <1>2 DEF MovedInOrder
<1>5. c[2] \in Peers /\ e[2] \in Peers /\ c = <<c[1], c[2]>> /\ e = <<e[1], e[2]>>
  BY Ends
<1>6. CASE c[2] # e[2]
  <2>1. c # e
    BY <1>6
  <2>2. queue'[c] = queue[c] /\ inStream'[c[2]] = inStream[c[2]]
    BY <1>3, <1>5, <1>6, <2>1
  <2> QED
    BY <1>1, <2>2 DEF ChannelOrdered
<1>7. CASE c[2] = e[2]
  <2> DEFINE s == Len(inStream[e[2]])
             st == inStream[e[2]]
             sn == inStream'[e[2]]
  <2>1. /\ s \in Nat /\ n \in Nat /\ n <= Len(queue[e]) /\ Len(queue[e]) \in Nat
        /\ Len(queue[c]) \in Nat
    BY <1>4, <1>5, PacketShape
  <2>2. \A k \in 1 .. Len(sn) :
          \/ k \in 1 .. s /\ sn[k] = st[k]
          \/ k - s \in 1 .. n /\ sn[k] = queue[e][k - s]
    <3> SUFFICES ASSUME NEW k \in 1 .. Len(sn), k \notin 1 .. s
                 PROVE  k - s \in 1 .. n /\ sn[k] = queue[e][k - s]
      BY <1>4
    <3>1. k - s \in 1 .. n /\ s + (k - s) = k
      BY <1>4, <2>1
    <3> QED
      BY <1>4, <3>1
  <2>3. \A i \in 1 .. Len(queue[e]) : queue[e][i].src = e[1] /\ queue[e][i].body \in Nat
    BY PacketShape
  <2>c. /\ \A i \in 1 .. Len(queue[c]) : queue[c][i].body <= sent[c]
        /\ \A i, j \in 1 .. Len(queue[c]) : i < j => queue[c][i].body <= queue[c][j].body
        /\ \A k \in 1 .. s : st[k].src = c[1] =>
             /\ st[k].body <= sent[c]
             /\ \A i \in 1 .. Len(queue[c]) : st[k].body <= queue[c][i].body
             /\ \A l \in 1 .. s : st[l].src = c[1] /\ k < l => st[k].body <= st[l].body
    BY <1>7 DEF ChannelOrdered
  <2>4. CASE c # e
    <3>1. queue'[c] = queue[c] /\ c[1] # e[1]
      BY <1>3, <1>5, <1>7, <2>4
    <3>2. \A k \in 1 .. Len(sn) : sn[k].src = c[1] => k \in 1 .. s /\ sn[k] = st[k]
      <4>1. \A i \in 1 .. n : i \in 1 .. Len(queue[e])
        BY <2>1
      <4> QED
        BY <2>2, <2>3, <3>1, <4>1
    <3> HIDE DEF s, st, sn
    <3>3. \A k \in 1 .. Len(sn) : sn[k].src = c[1] =>
            /\ sn[k].body <= sent[c]
            /\ \A i \in 1 .. Len(queue[c]) : sn[k].body <= queue[c][i].body
            /\ \A l \in 1 .. Len(sn) : sn[l].src = c[1] /\ k < l => sn[k].body <= sn[l].body
      BY <2>c, <3>2
    <3> QED
      BY <1>1, <1>7, <2>c, <3>1, <3>3 DEF ChannelOrdered, sn
  <2>5. CASE c = e
    <3>1. \A i \in 1 .. Len(queue[e]) - n :
            n + i \in 1 .. Len(queue[e]) /\ queue'[e][i] = queue[e][n + i]
      BY <1>4, <2>1
    <3>2. \A i \in 1 .. n : i \in 1 .. Len(queue[e])
      BY <2>1
    <3>3. \A i \in 1 .. n, j \in 1 .. Len(queue[e]) - n : i < n + j
      BY <2>1
    <3>4. \A i, j \in 1 .. Len(queue[e]) - n : i < j => n + i < n + j
      BY <2>1
    <3>5. \A k, l \in 1 .. Len(sn) :
            /\ k < l => k - s < l - s
            /\ k \in 1 .. s => k \in Nat
            /\ k - s \in 1 .. n /\ l \in 1 .. s => ~(k < l)
      BY <1>4, <2>1
    <3>6. \A i \in 1 .. n : queue[e][i].body <= queue[e][i].body
      BY <2>3, <3>2
    <3> HIDE DEF s, st, sn
    <3>7. \A i, j \in 1 .. Len(queue[e]) : i < j => queue[e][i].body <= queue[e][j].body
      BY <2>c, <2>5
    <3>8. \A i \in 1 .. Len(queue'[e]) : queue'[e][i].body <= sent[c]
      BY <1>4, <2>c, <2>5, <3>1
    <3>9. \A i, j \in 1 .. Len(queue'[e]) : i < j => queue'[e][i].body <= queue'[e][j].body
      <4> SUFFICES ASSUME NEW i \in 1 .. Len(queue'[e]), NEW j \in 1 .. Len(queue'[e]), i < j
                   PROVE  queue'[e][i].body <= queue'[e][j].body
        OBVIOUS
      <4>1. i \in 1 .. Len(queue[e]) - n /\ j \in 1 .. Len(queue[e]) - n
        BY <1>4
      <4>2. /\ n + i < n + j /\ n + i \in 1 .. Len(queue[e]) /\ n + j \in 1 .. Len(queue[e])
            /\ queue'[e][i] = queue[e][n + i] /\ queue'[e][j] = queue[e][n + j]
        BY <3>1, <3>4, <4>1
      <4> QED
        BY <3>7, <4>2
    <3>10. ASSUME NEW k \in 1 .. Len(sn), sn[k].src = c[1]
           PROVE  /\ sn[k].body <= sent[c]
                  /\ \A i \in 1 .. Len(queue'[e]) : sn[k].body <= queue'[e][i].body
                  /\ \A l \in 1 .. Len(sn) :
                       sn[l].src = c[1] /\ k < l => sn[k].body <= sn[l].body
      <4>1. CASE k \in 1 .. s /\ sn[k] = st[k]
        <5>1. /\ sn[k].body <= sent[c]
              /\ \A i \in 1 .. Len(queue[e]) : sn[k].body <= queue[e][i].body
              /\ \A l \in 1 .. s : st[l].src = c[1] /\ k < l => sn[k].body <= st[l].body
          BY <2>c, <2>5, <3>10, <4>1
        <5>2. \A i \in 1 .. Len(queue'[e]) : sn[k].body <= queue'[e][i].body
          BY <1>4, <3>1, <5>1
        <5>3. \A l \in 1 .. Len(sn) : sn[l].src = c[1] /\ k < l => sn[k].body <= sn[l].body
          BY <2>2, <3>2, <5>1
        <5> QED
          BY <5>1, <5>2, <5>3
      <4>2. CASE k - s \in 1 .. n /\ sn[k] = queue[e][k - s]
        <5>1. sn[k].body <= sent[c]
          BY <2>c, <2>5, <3>2, <4>2
        <5>2. ASSUME NEW i \in 1 .. Len(queue'[e]) PROVE sn[k].body <= queue'[e][i].body
          <6>1. i \in 1 .. Len(queue[e]) - n
            BY <1>4, <5>2
          <6>2. k - s < n + i /\ n + i \in 1 .. Len(queue[e]) /\ k - s \in 1 .. Len(queue[e])
            BY <3>1, <3>2, <3>3, <4>2, <6>1
          <6> QED
            BY <3>1, <3>7, <4>2, <6>1, <6>2
        <5>3. ASSUME NEW l \in 1 .. Len(sn), k < l PROVE sn[k].body <= sn[l].body
          <6>1. l - s \in 1 .. n /\ sn[l] = queue[e][l - s]
            BY <2>2, <3>5, <4>2, <5>3
          <6>2. k - s < l - s /\ k - s \in 1 .. Len(queue[e]) /\ l - s \in 1 .. Len(queue[e])
            BY <3>2, <3>5, <4>2, <5>3, <6>1
          <6> QED
            BY <3>7, <4>2, <6>1, <6>2
        <5> QED
          BY <5>1, <5>2, <5>3
      <4> QED
        BY <2>2, <4>1, <4>2
    <3> QED
      BY <1>1, <2>5, <3>8, <3>9, <3>10 DEF ChannelOrdered, sn
  <2> QED
    BY <2>4, <2>5
<1> QED
  BY <1>6, <1>7

(* Reading a packet keeps the order of the ones behind it. *)
LEMMA ConsumeKeepsOrder ==
  ASSUME Inv, NEW p \in Peers, Consume(p), NEW c \in Channels, ChannelOrdered(c)
  PROVE  ChannelOrdered(c)'
<1>1. /\ queue' = queue /\ sent' = sent /\ inStream[p] # <<>>
      /\ inStream' = [inStream EXCEPT ![p] = Tail(@)]
      /\ inStream \in [Peers -> Seq(Packets)] /\ c[2] \in Peers
  BY Ends DEF Consume, popInStream, clientVars, Inv, TypeOK
<1>2. CASE c[2] # p
  <2>1. inStream'[c[2]] = inStream[c[2]]
    BY <1>1, <1>2
  <2> QED
    BY <1>1, <2>1 DEF ChannelOrdered
<1>3. CASE c[2] = p
  <2>1. /\ inStream'[c[2]] = Tail(inStream[c[2]]) /\ inStream[c[2]] \in Seq(Packets)
        /\ inStream[c[2]] # <<>>
    BY <1>1, <1>3
  <2>2. /\ Len(inStream[c[2]]) \in Nat
        /\ Len(inStream'[c[2]]) = Len(inStream[c[2]]) - 1
        /\ \A i \in 1 .. Len(inStream'[c[2]]) : inStream'[c[2]][i] = inStream[c[2]][i + 1]
    BY <2>1, HeadTailProperties, LenProperties
  <2>3. \A i \in 1 .. Len(inStream'[c[2]]) :
          i + 1 \in 1 .. Len(inStream[c[2]]) /\ inStream'[c[2]][i] = inStream[c[2]][i + 1]
    BY <2>2
  <2>4. \A i, j \in 1 .. Len(inStream'[c[2]]) : i < j => i + 1 < j + 1
    OBVIOUS
  <2>5. ASSUME NEW k \in 1 .. Len(inStream'[c[2]]), inStream'[c[2]][k].src = c[1]
        PROVE  /\ inStream'[c[2]][k].body <= sent[c]
               /\ \A i \in 1 .. Len(queue[c]) : inStream'[c[2]][k].body <= queue[c][i].body
               /\ \A l \in 1 .. Len(inStream'[c[2]]) :
                    inStream'[c[2]][l].src = c[1] /\ k < l =>
                      inStream'[c[2]][k].body <= inStream'[c[2]][l].body
    <3>1. k + 1 \in 1 .. Len(inStream[c[2]]) /\ inStream'[c[2]][k] = inStream[c[2]][k + 1]
      BY <2>3
    <3>2. /\ inStream[c[2]][k + 1].body <= sent[c]
          /\ \A i \in 1 .. Len(queue[c]) : inStream[c[2]][k + 1].body <= queue[c][i].body
          /\ \A l \in 1 .. Len(inStream[c[2]]) :
               inStream[c[2]][l].src = c[1] /\ k + 1 < l =>
                 inStream[c[2]][k + 1].body <= inStream[c[2]][l].body
      BY <2>5, <3>1 DEF ChannelOrdered
    <3>3. ASSUME NEW l \in 1 .. Len(inStream'[c[2]]), inStream'[c[2]][l].src = c[1], k < l
          PROVE  inStream'[c[2]][k].body <= inStream'[c[2]][l].body
      <4>1. /\ l + 1 \in 1 .. Len(inStream[c[2]]) /\ k + 1 < l + 1
            /\ inStream'[c[2]][l] = inStream[c[2]][l + 1]
        BY <2>3, <2>4, <3>3
      <4> QED
        BY <3>1, <3>2, <3>3, <4>1
    <3> QED
      BY <3>1, <3>2, <3>3
  <2> QED
    BY <1>1, <2>5 DEF ChannelOrdered
<1> QED
  BY <1>2, <1>3

(* A network just built has no packet to be out of order. *)
LEMMA EmptyIsOrdered ==
  ASSUME queue = [c \in Channels |-> <<>>], inStream = [p \in Peers |-> <<>>],
         NEW c \in Channels
  PROVE  ChannelOrdered(c)
<1>1. queue[c] = <<>> /\ inStream[c[2]] = <<>>
  BY Ends
<1>2. Len(queue[c]) = 0 /\ Len(inStream[c[2]]) = 0 /\ 1 .. 0 = {}
  BY <1>1
<1> QED
  BY <1>2 DEF ChannelOrdered

(* Every step keeps the order of every channel: only a send appends, only  *)
(* the receive phase moves packets, and consuming drops the first one.     *)
LEMMA OrderStep == ASSUME Inv, OrderOK, [Next]_vars PROVE OrderOK'
<1> SUFFICES ASSUME TRUE \notin Reorder, NEW c \in Channels PROVE ChannelOrdered(c)'
  BY DEF OrderOK
<1>o. ChannelOrdered(c)
  BY DEF OrderOK
<1>u. ASSUME UNCHANGED <<queue, inStream, sent>> PROVE ChannelOrdered(c)'
  BY <1>o, <1>u DEF ChannelOrdered
<1>1. CASE Begin \/ Barrier
  BY <1>1, <1>u DEF Begin, StartRound, Barrier, StartCompute, EndRound, Finish, clientVars
<1>2. CASE Rebuild
  <2>1. queue' = [e \in Channels |-> <<>>] /\ inStream' = [p \in Peers |-> <<>>]
    BY <1>2, FreshOK DEF Rebuild, NextTest
  <2>2. queue'[c] = <<>> /\ inStream'[c[2]] = <<>>
    BY <2>1, Ends
  <2>3. Len(queue'[c]) = 0 /\ Len(inStream'[c[2]]) = 0 /\ 1 .. 0 = {}
    BY <2>2
  <2> QED
    BY <2>3 DEF ChannelOrdered
<1>3. ASSUME NEW e \in Channels, Receive(e) PROVE ChannelOrdered(c)'
  BY <1>o, <1>3, ReceiveKeepsOrder
<1>4. ASSUME NEW p \in Peers, Skip(p) \/ Done(p) \/ Crash(p) PROVE ChannelOrdered(c)'
  BY <1>4, <1>u DEF Skip, SkipCrashed, Done, Crash, clientVars
<1>5. ASSUME NEW p \in Peers, Consume(p) PROVE ChannelOrdered(c)'
  BY <1>o, <1>5, ConsumeKeepsOrder
<1>6. ASSUME NEW p \in Peers, NEW dst \in Peers, Send(p, dst) PROVE ChannelOrdered(c)'
  BY <1>o, <1>6, SendKeepsOrder
<1>7. CASE UNCHANGED vars
  BY <1>7, <1>u DEF vars, netVars, clientVars
<1> QED
  BY <1>1, <1>2, <1>3, <1>4, <1>5, <1>6, <1>7 DEF Next, Engine, Returned

(* A channel that does not reorder delivers in order, although each copy   *)
(* of a packet draws a delay of its own and channels drop and duplicate.   *)
THEOREM InOrderTheorem == Spec => []InOrderDelivery
<1>1. Init => OrderOK
  BY FreshOK, EmptyIsOrdered DEF Init, NetInit, OrderOK
<1>2. Inv /\ OrderOK /\ [Next]_vars => OrderOK'
  BY OrderStep
<1>3. Inv /\ OrderOK => InOrderDelivery
  <2> SUFFICES ASSUME Inv, OrderOK, TRUE \notin Reorder, NEW p \in Peers,
                      NEW i \in 1 .. Len(inStream[p]), NEW j \in 1 .. Len(inStream[p]),
                      i < j, inStream[p][i].src = inStream[p][j].src
               PROVE  inStream[p][i].body <= inStream[p][j].body
    BY DEF InOrderDelivery
  <2>1. <<inStream[p][i].src, p>> \in Channels
    BY PacketShape
  <2>2. PICK c \in Channels : c[1] = inStream[p][i].src /\ c[2] = p
    BY <2>1
  <2>3. ChannelOrdered(c)
    BY DEF OrderOK
  <2> QED
    BY <2>2, <2>3 DEF ChannelOrdered
<1> QED
  BY <1>1, <1>2, <1>3, Invariance, PTL DEF Spec
=============================================================================
