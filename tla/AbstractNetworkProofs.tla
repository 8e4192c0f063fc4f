------------------------ MODULE AbstractNetworkProofs ------------------------
(***************************************************************************)
(* What the operations of a channel return and what sending and receiving  *)
(* do to the network, whatever the algorithm and its packets are.          *)
(***************************************************************************)
EXTENDS AbstractNetwork, SequenceTheorems, TLAPS

(* A budget that fits the int is stored as it is. *)
LEMMA ThroughputFits ==
  ASSUME NEW last \in Nat, MaxMsgsRec * last < 2 ^ (IntBits - 1)
  PROVE  Throughput(last, 0) = MaxMsgsRec * last
<1>1. MaxMsgsRec * last \in Nat
  BY ChannelAssumption
<1>2. (MaxMsgsRec * last) % (2 ^ IntBits) = MaxMsgsRec * last
  BY <1>1, ChannelAssumption
<1> QED
  BY <1>1, <1>2 DEF Throughput, ToInt

(* The int that holds a budget holds an integer. *)
LEMMA ThroughputType ==
  ASSUME NEW last \in Int, NEW now \in Int PROVE Throughput(last, now) \in Int
<1>1. MaxMsgsRec * (last - now) \in Int
  BY ChannelAssumption
<1>2. ASSUME NEW x \in Int PROVE ToInt(x) \in Int
  BY ChannelAssumption DEF ToInt
<1> QED
  BY <1>1, <1>2 DEF Throughput

(* Room never exceeds the free places nor a positive budget. *)
LEMMA RoomBounds ==
  ASSUME NEW q, Len(q) \in Nat, Len(q) <= Size, NEW left \in Int
  PROVE  /\ Room(q, left) \in Nat
         /\ Len(q) + Room(q, left) <= Size
         /\ left >= 0 => Room(q, left) <= left
  BY ChannelAssumption DEF Room, canSend

(* A copy of pkt that pushPacket may append. *)
Copy(pkt, d) == [pkt EXCEPT !.delay = d]

(* Every copy of pkt that pushPacket may append is in S. *)
Sendable(pkt, S) == \A d \in Nat \ {0} : [pkt EXCEPT !.delay = d] \in S

(* pushPacket appends copies of the packet, each with a delay of at least  *)
(* one round, never exceeds the capacity, and takes one unit of a budget   *)
(* that is not negative for each copy.                                     *)
LEMMA PushPacket ==
  ASSUME NEW S, NEW q \in Seq(S), NEW left \in Int, NEW pkt,
         Len(q) <= Size,
         Sendable(pkt, S),
         NEW r \in pushPacket(q, left, pkt)
  PROVE  /\ r[1] \in Seq(S) /\ r[2] \in Int
         /\ Len(q) <= Len(r[1]) /\ Len(r[1]) <= Size
         /\ left >= 0 => r[2] >= 0 /\ r[2] + Len(r[1]) = left + Len(q)
         /\ \A i \in 1 .. Len(q) : r[1][i] = q[i]
         /\ \A i \in Len(q) + 1 .. Len(r[1]) :
              \E d \in Nat \ {0} : r[1][i] = Copy(pkt, d)
<1>0. PICK n \in Copies(q, left) :
        \E d \in [1 .. n -> computeRandomDelay] :
          r = << q \o [i \in 1 .. n |-> [pkt EXCEPT !.delay = setDelay(d[i])]],
                 consumeThroughput(left, n) >>
  BY DEF pushPacket
<1>1. PICK d \in [1 .. n -> computeRandomDelay] :
        r = << q \o [i \in 1 .. n |-> [pkt EXCEPT !.delay = setDelay(d[i])]],
               consumeThroughput(left, n) >>
  BY <1>0
<1> DEFINE new == [i \in 1 .. n |-> [pkt EXCEPT !.delay = setDelay(d[i])]]
<1>2. /\ n \in Nat /\ Len(q) \in Nat /\ Len(q) + n <= Size
      /\ left >= 0 => n <= left
  <2>1. Len(q) \in Nat
    BY LenProperties
  <2>2. /\ Room(q, left) \in Nat /\ Len(q) + Room(q, left) <= Size
        /\ left >= 0 => Room(q, left) <= left
    BY <2>1, RoomBounds
  <2>3. n \in 0 .. Room(q, left)
    BY DEF Copies
  <2> QED
    BY <2>1, <2>2, <2>3, ChannelAssumption
<1>3. ASSUME NEW i \in 1 .. n PROVE setDelay(d[i]) \in Nat \ {0}
  BY <1>2, ChannelAssumption DEF setDelay, computeRandomDelay
<1>4. new \in [1 .. n -> S]
  BY <1>3 DEF Sendable
<1>5. new \in Seq(S)
  BY <1>2, <1>4, SeqDef
<1>6. Len(new) = n
  BY <1>2, <1>5, LenProperties
<1> HIDE DEF new
<1>7. /\ q \o new \in Seq(S)
      /\ Len(q \o new) = Len(q) + n
      /\ \A i \in 1 .. Len(q) + n :
           (q \o new)[i] = IF i <= Len(q) THEN q[i] ELSE new[i - Len(q)]
  BY <1>5, <1>6, ConcatProperties
<1>8. r = <<q \o new, consumeThroughput(left, n)>>
  BY <1>1 DEF new
<1>9. r[1] = q \o new /\ r[2] = consumeThroughput(left, n)
  BY <1>8
<1>10. r[2] \in Int /\ (left >= 0 => r[2] >= 0 /\ r[2] = left - n)
  BY <1>2, <1>9 DEF consumeThroughput
<1>11. \A i \in Len(q) + 1 .. Len(r[1]) :
         \E e \in Nat \ {0} : r[1][i] = Copy(pkt, e)
  <2> SUFFICES ASSUME NEW i \in Len(q) + 1 .. Len(r[1])
               PROVE  \E e \in Nat \ {0} : r[1][i] = Copy(pkt, e)
    OBVIOUS
  <2>1. i - Len(q) \in 1 .. n /\ r[1][i] = new[i - Len(q)]
    BY <1>2, <1>7, <1>9
  <2>2. r[1][i] = Copy(pkt, setDelay(d[i - Len(q)]))
    BY <2>1 DEF new, Copy
  <2> QED
    BY <2>1, <2>2, <1>3
<1>12. Len(r[1]) = Len(q) + n /\ \A i \in 1 .. Len(q) : r[1][i] = q[i]
  BY <1>2, <1>7, <1>9
<1>13. left >= 0 => r[2] >= 0 /\ r[2] + Len(r[1]) = left + Len(q)
  BY <1>2, <1>10, <1>12
<1>14. r[1] \in Seq(S) /\ Len(q) <= Len(r[1]) /\ Len(r[1]) <= Size
  BY <1>2, <1>7, <1>9, <1>12
<1> QED
  BY <1>10, <1>11, <1>12, <1>13, <1>14

(* shuffleChannel keeps the packets, and the order when it may not touch   *)
(* it.                                                                     *)
LEMMA Shuffle ==
  ASSUME NEW S, NEW q \in Seq(S), NEW r \in shuffleChannel(q)
  PROVE  /\ r \in Seq(S) /\ Len(r) = Len(q)
         /\ TRUE \notin Reorder => r = q
<1>1. CASE r = q
  BY <1>1
<1>2. CASE r # q
  <2>1. PICK f \in Permutation(Len(q)) : r = [i \in 1 .. Len(q) |-> q[f[i]]]
    BY <1>2 DEF shuffleChannel
  <2>2. f \in [1 .. Len(q) -> 1 .. Len(q)]
    BY DEF Permutation
  <2>3. r \in [1 .. Len(q) -> S] /\ Len(q) \in Nat
    BY <2>1, <2>2, ElementOfSeq, LenProperties
  <2>4. r \in Seq(S)
    BY <2>3, SeqDef
  <2>5. Len(r) = Len(q)
    BY <2>3, <2>4, LenProperties
  <2>6. TRUE \in Reorder
    BY <1>2 DEF shuffleChannel
  <2> QED
    BY <2>4, <2>5, <2>6
<1> QED
  BY <1>1, <1>2

(* receive takes only packets that have arrived, from the front, and       *)
(* leaves the others.                                                      *)
LEMMA Take ==
  ASSUME NEW S, NEW q \in Seq(S), NEW now, NEW n \in Popped(q, now)
  PROVE  /\ n \in Nat /\ n <= Len(q) /\ n <= MaxMsgsRec
         /\ SubSeq(q, 1, n) \in Seq({m \in S : hasArrived(m, now)})
         /\ Len(SubSeq(q, 1, n)) = n
         /\ \A i \in 1 .. n : SubSeq(q, 1, n)[i] = q[i]
         /\ SubSeq(q, n + 1, Len(q)) \in Seq(S)
         /\ Len(SubSeq(q, n + 1, Len(q))) = Len(q) - n
         /\ \A i \in 1 .. Len(q) - n : SubSeq(q, n + 1, Len(q))[i] = q[n + i]
<1> DEFINE A == {m \in S : hasArrived(m, now)}
<1>1. Len(q) \in Nat /\ n \in 0 .. Len(q) /\ n <= MaxMsgsRec
  BY LenProperties DEF Popped
<1>2. \A i \in 1 .. n : q[i] \in A
  BY <1>1, ElementOfSeq DEF Popped
<1>3. \A i \in n + 1 .. Len(q) : q[i] \in S
  BY <1>1, ElementOfSeq
<1> HIDE DEF A
<1>4. /\ SubSeq(q, 1, n) \in Seq(A)
      /\ Len(SubSeq(q, 1, n)) = IF 1 <= n THEN n - 1 + 1 ELSE 0
      /\ \A i \in 1 .. n - 1 + 1 : SubSeq(q, 1, n)[i] = q[1 + i - 1]
  BY <1>1, <1>2, SubSeqProperties
<1>5. /\ SubSeq(q, n + 1, Len(q)) \in Seq(S)
      /\ Len(SubSeq(q, n + 1, Len(q))) =
           IF n + 1 <= Len(q) THEN Len(q) - (n + 1) + 1 ELSE 0
      /\ \A i \in 1 .. Len(q) - (n + 1) + 1 :
           SubSeq(q, n + 1, Len(q))[i] = q[n + 1 + i - 1]
  <2>1. n + 1 \in Int /\ Len(q) \in Int
    BY <1>1
  <2> QED
    BY <1>3, <2>1, SubSeqProperties
<1>6. Len(SubSeq(q, 1, n)) = n /\ \A i \in 1 .. n : SubSeq(q, 1, n)[i] = q[i]
  BY <1>1, <1>4
<1>7. /\ Len(SubSeq(q, n + 1, Len(q))) = Len(q) - n
      /\ \A i \in 1 .. Len(q) - n : SubSeq(q, n + 1, Len(q))[i] = q[n + i]
  BY <1>1, <1>5
<1> QED
  BY <1>1, <1>4, <1>5, <1>6, <1>7 DEF A

(* A channel is the pair of its ends. *)
LEMMA Ends ==
  ASSUME NEW c \in Channels
  PROVE  c[1] \in Peers /\ c[2] \in Peers /\ c = <<c[1], c[2]>>
  BY DEF Channels

(* The queue of every channel c holds packets of C[c], as many as fit.     *)
Carries(U, C) ==
  /\ queue \in [Channels -> Seq(U)]
  /\ \A c \in Channels :
       C[c] \subseteq U /\ queue[c] \in Seq(C[c]) /\ Len(queue[c]) <= Size

(* What a send of p does to channels that carry packets of C[c]: those of  *)
(* other senders keep their packets, the one it uses gets copies of the    *)
(* packet, and the budget pays for each.                                   *)
LEMMA UnicastEffect ==
  ASSUME NEW U, NEW C, NEW p \in Peers, NEW dst \in Peers, NEW body,
         Carries(U, C), throughputLeft \in [Channels -> Int],
         <<p, dst>> \in Channels => Sendable(NewPacket(p, dst, body), C[<<p, dst>>]),
         unicastTo(p, dst, body)
  PROVE  /\ queue' \in [Channels -> Seq(U)]
         /\ throughputLeft' \in [Channels -> Int]
         /\ \A c \in Channels :
              /\ queue'[c] \in Seq(C[c])
              /\ Len(queue[c]) <= Len(queue'[c]) /\ Len(queue'[c]) <= Size
              /\ throughputLeft[c] >= 0 =>
                   /\ throughputLeft'[c] >= 0
                   /\ throughputLeft'[c] + Len(queue'[c]) = throughputLeft[c] + Len(queue[c])
              /\ c[1] # p => queue'[c] = queue[c]
<1>0. /\ queue \in [Channels -> Seq(U)]
      /\ \A c \in Channels : queue[c] \in Seq(C[c]) /\ Len(queue[c]) <= Size
      /\ \A c \in Channels : Len(queue[c]) \in Nat
  BY LenProperties DEF Carries
<1>1. CASE dst \notin Neighbors[p]
  <2>1. UNCHANGED <<queue, throughputLeft>>
    BY <1>1 DEF unicastTo
  <2> QED
    BY <1>0, <2>1
<1>2. CASE dst \in Neighbors[p]
  <2> DEFINE c == <<p, dst>>
             pkt == NewPacket(p, dst, body)
  <2>1. c \in Channels /\ c[1] = p
    BY <1>2 DEF Channels
  <2>2. PICK r \in pushPacket(queue[c], throughputLeft[c], pkt) :
          /\ queue' = [queue EXCEPT ![c] = r[1]]
          /\ throughputLeft' = [throughputLeft EXCEPT ![c] = r[2]]
    BY <1>2 DEF unicastTo
  <2>3. Sendable(pkt, C[c])
    BY <2>1
  <2>4. queue[c] \in Seq(C[c]) /\ Len(queue[c]) <= Size /\ throughputLeft[c] \in Int
    BY <1>0, <2>1
  <2> HIDE DEF c, pkt
  <2>5. /\ r[1] \in Seq(C[c]) /\ r[2] \in Int
        /\ Len(queue[c]) <= Len(r[1]) /\ Len(r[1]) <= Size
        /\ throughputLeft[c] >= 0 =>
             r[2] >= 0 /\ r[2] + Len(r[1]) = throughputLeft[c] + Len(queue[c])
    BY <2>3, <2>4, PushPacket
  <2>6. r[1] \in Seq(U)
    <3>1. C[c] \subseteq U
      BY <2>1 DEF Carries
    <3> QED
      BY <2>5, <3>1, SeqMonotonic
  <2>7. /\ queue' \in [Channels -> Seq(U)]
        /\ throughputLeft' \in [Channels -> Int]
        /\ queue'[c] = r[1] /\ throughputLeft'[c] = r[2]
        /\ \A e \in Channels : e # c =>
             queue'[e] = queue[e] /\ throughputLeft'[e] = throughputLeft[e]
    BY <1>0, <2>1, <2>2, <2>5, <2>6
  <2>8. ASSUME NEW e \in Channels
        PROVE  /\ queue'[e] \in Seq(C[e])
               /\ Len(queue[e]) <= Len(queue'[e]) /\ Len(queue'[e]) <= Size
               /\ throughputLeft[e] >= 0 =>
                    /\ throughputLeft'[e] >= 0
                    /\ throughputLeft'[e] + Len(queue'[e])
                         = throughputLeft[e] + Len(queue[e])
               /\ e[1] # p => queue'[e] = queue[e]
    <3>1. CASE e = c
      BY <3>1, <2>1, <2>5, <2>7
    <3>2. CASE e # c
      BY <3>2, <2>7, <1>0
    <3> QED
      BY <3>1, <3>2
  <2> QED
    BY <2>7, <2>8
<1> QED
  BY <1>1, <1>2

(* A send of p appends copies of its packet to the channel it uses and     *)
(* leaves every packet that is queued where it is.                         *)
LEMMA UnicastAppends ==
  ASSUME NEW U, NEW C, NEW p \in Peers, NEW dst \in Peers, NEW body,
         Carries(U, C), throughputLeft \in [Channels -> Int],
         <<p, dst>> \in Channels => Sendable(NewPacket(p, dst, body), C[<<p, dst>>]),
         unicastTo(p, dst, body)
  PROVE  \A c \in Channels :
           /\ \A i \in 1 .. Len(queue[c]) : queue'[c][i] = queue[c][i]
           /\ \A i \in Len(queue[c]) + 1 .. Len(queue'[c]) :
                /\ c = <<p, dst>>
                /\ \E d \in Nat \ {0} :
                     queue'[c][i] = Copy(NewPacket(p, dst, body), d)
<1>0. /\ queue \in [Channels -> Seq(U)]
      /\ \A c \in Channels : /\ queue[c] \in Seq(C[c]) /\ Len(queue[c]) <= Size
                             /\ Len(queue[c]) \in Nat
  BY LenProperties DEF Carries
<1>1. ASSUME NEW e \in Channels, queue'[e] = queue[e]
      PROVE  /\ \A i \in 1 .. Len(queue[e]) : queue'[e][i] = queue[e][i]
             /\ \A i \in Len(queue[e]) + 1 .. Len(queue'[e]) : FALSE
  BY <1>0, <1>1
<1>2. CASE dst \notin Neighbors[p]
  <2>1. queue' = queue
    BY <1>2 DEF unicastTo
  <2> QED
    BY <1>1, <2>1
<1>3. CASE dst \in Neighbors[p]
  <2> DEFINE c == <<p, dst>>
             pkt == NewPacket(p, dst, body)
  <2>1. c \in Channels
    BY <1>3 DEF Channels
  <2>2. PICK r \in pushPacket(queue[c], throughputLeft[c], pkt) :
          queue' = [queue EXCEPT ![c] = r[1]]
    BY <1>3 DEF unicastTo
  <2>3. Sendable(pkt, C[c])
    BY <2>1
  <2>4. queue[c] \in Seq(C[c]) /\ Len(queue[c]) <= Size /\ throughputLeft[c] \in Int
    BY <1>0, <2>1
  <2> HIDE DEF c, pkt
  <2>5. /\ \A i \in 1 .. Len(queue[c]) : r[1][i] = queue[c][i]
        /\ \A i \in Len(queue[c]) + 1 .. Len(r[1]) :
             \E d \in Nat \ {0} : r[1][i] = Copy(pkt, d)
    BY <2>3, <2>4, PushPacket
  <2>6. queue'[c] = r[1] /\ \A e \in Channels : e # c => queue'[e] = queue[e]
    BY <1>0, <2>1, <2>2
  <2>7. ASSUME NEW e \in Channels
        PROVE  /\ \A i \in 1 .. Len(queue[e]) : queue'[e][i] = queue[e][i]
               /\ \A i \in Len(queue[e]) + 1 .. Len(queue'[e]) :
                    e = c /\ \E d \in Nat \ {0} : queue'[e][i] = Copy(pkt, d)
    <3>1. CASE e = c
      BY <2>5, <2>6, <3>1
    <3>2. CASE e # c
      BY <1>1, <2>6, <3>2
    <3> QED
      BY <3>1, <3>2
  <2> QED
    BY <2>7 DEF c, pkt
<1> QED
  BY <1>2, <1>3

(* The packets of Q that a receive of this round may take. *)
Arrived(Q) == {m \in Q : hasArrived(m, currentRound)}

(* The queue of c holds packets of Q, the stream behind it packets of R,   *)
(* and what arrives in this round may be read.                             *)
Reads(U, Q, R, c) ==
  /\ queue \in [Channels -> Seq(U)] /\ inStream \in [Peers -> Seq(U)]
  /\ Q \subseteq U /\ R \subseteq U
  /\ queue[c] \in Seq(Q) /\ inStream[c[2]] \in Seq(R)
  /\ Arrived(Q) \subseteq R

(* Some packets have moved from the queue of c to the stream behind it.    *)
Moved(c) ==
  \E n \in 0 .. Len(queue[c]) :
    /\ Len(queue'[c]) = Len(queue[c]) - n
    /\ Len(inStream'[c[2]]) = Len(inStream[c[2]]) + n

(* What a receive from c does: packets that have arrived move from the     *)
(* front of its queue to the end of the receiver's stream.                 *)
LEMMA ReceiveEffect ==
  ASSUME NEW U, NEW Q, NEW R, NEW c \in Channels,
         Reads(U, Q, R, c), ReceiveFrom(c)
  PROVE  /\ queue' \in [Channels -> Seq(U)]
         /\ inStream' \in [Peers -> Seq(U)]
         /\ queue'[c] \in Seq(Q)
         /\ inStream'[c[2]] \in Seq(R)
         /\ \A e \in Channels : e # c => queue'[e] = queue[e]
         /\ \A p \in Peers : p # c[2] => inStream'[p] = inStream[p]
         /\ Moved(c)
<1>0. /\ c[2] \in Peers
      /\ queue \in [Channels -> Seq(U)] /\ inStream \in [Peers -> Seq(U)]
      /\ Q \subseteq U /\ R \subseteq U
      /\ queue[c] \in Seq(Q) /\ inStream[c[2]] \in Seq(R)
      /\ Arrived(Q) \subseteq R
  BY Ends DEF Reads
<1>1. PICK q \in shuffleChannel(queue[c]) : \E n \in Popped(q, currentRound) : Taken(c, q, n)
  BY DEF ReceiveFrom
<1>2. PICK n \in Popped(q, currentRound) : Taken(c, q, n)
  BY <1>1
<1>3. q \in Seq(Q) /\ Len(q) = Len(queue[c]) /\ Len(q) \in Nat
  BY <1>0, Shuffle, LenProperties
<1> DEFINE got == SubSeq(q, 1, n)
           left == SubSeq(q, n + 1, Len(q))
<1>4. /\ n \in Nat /\ n <= Len(q)
      /\ got \in Seq(Arrived(Q)) /\ Len(got) = n
      /\ left \in Seq(Q) /\ Len(left) = Len(q) - n
  BY <1>3, Take DEF Arrived
<1>6. queue' = [queue EXCEPT ![c] = left]
      /\ inStream' = [inStream EXCEPT ![c[2]] = inStream[c[2]] \o got]
  BY <1>2 DEF Taken
<1> HIDE DEF got, left
<1>7. got \in Seq(R)
  BY <1>0, <1>4, SeqMonotonic
<1>8. /\ inStream[c[2]] \o got \in Seq(R)
      /\ Len(inStream[c[2]] \o got) = Len(inStream[c[2]]) + n
  BY <1>0, <1>4, <1>7, ConcatProperties
<1>9. left \in Seq(U) /\ inStream[c[2]] \o got \in Seq(U)
  BY <1>0, <1>4, <1>8, SeqMonotonic
<1>10. /\ queue' \in [Channels -> Seq(U)]
       /\ queue'[c] = left
       /\ \A e \in Channels : e # c => queue'[e] = queue[e]
  BY <1>0, <1>6, <1>9
<1>11. /\ inStream' \in [Peers -> Seq(U)]
       /\ inStream'[c[2]] = inStream[c[2]] \o got
       /\ \A p \in Peers : p # c[2] => inStream'[p] = inStream[p]
  BY <1>0, <1>6, <1>9
<1>12. /\ Len(queue[c]) \in Nat /\ Len(queue'[c]) = Len(queue[c]) - n
       /\ Len(inStream'[c[2]]) = Len(inStream[c[2]]) + n
       /\ n <= Len(queue[c])
  BY <1>0, <1>3, <1>4, <1>8, <1>10, <1>11
<1>13. Moved(c)
  <2>1. n \in 0 .. Len(queue[c])
    BY <1>4, <1>12
  <2> QED
    BY <1>12, <2>1 DEF Moved
<1> QED
  BY <1>4, <1>8, <1>10, <1>11, <1>13

(* The packets that have moved are the first of the queue, and they are    *)
(* behind the ones that were in the stream.                                *)
MovedInOrder(c) ==
  \E n \in 0 .. Len(queue[c]) :
    /\ Len(queue'[c]) = Len(queue[c]) - n
    /\ Len(inStream'[c[2]]) = Len(inStream[c[2]]) + n
    /\ \A i \in 1 .. Len(inStream[c[2]]) : inStream'[c[2]][i] = inStream[c[2]][i]
    /\ \A i \in 1 .. n : inStream'[c[2]][Len(inStream[c[2]]) + i] = queue[c][i]
    /\ \A i \in 1 .. Len(queue[c]) - n : queue'[c][i] = queue[c][n + i]

(* A channel that does not reorder hands over its packets in order.        *)
LEMMA ReceiveInOrder ==
  ASSUME NEW U, NEW c \in Channels, TRUE \notin Reorder,
         queue \in [Channels -> Seq(U)], inStream \in [Peers -> Seq(U)],
         ReceiveFrom(c)
  PROVE  MovedInOrder(c)
<1>1. PICK q \in shuffleChannel(queue[c]) : \E n \in Popped(q, currentRound) : Taken(c, q, n)
  BY DEF ReceiveFrom
<1>2. PICK n \in Popped(q, currentRound) : Taken(c, q, n)
  BY <1>1
<1>3. q = queue[c] /\ q \in Seq(U) /\ Len(q) \in Nat
  BY Shuffle, LenProperties
<1>4. PICK s \in Seq(U) : s = inStream[c[2]]
  BY Ends
<1> DEFINE got == SubSeq(q, 1, n)
           left == SubSeq(q, n + 1, Len(q))
<1>5. /\ n \in Nat /\ n <= Len(q)
      /\ got \in Seq({m \in U : hasArrived(m, currentRound)}) /\ Len(got) = n
      /\ \A i \in 1 .. n : got[i] = q[i]
      /\ left \in Seq(U) /\ Len(left) = Len(q) - n
      /\ \A i \in 1 .. Len(q) - n : left[i] = q[n + i]
  BY <1>3, Take
<1>6. /\ queue' = [queue EXCEPT ![c] = left]
      /\ inStream' = [inStream EXCEPT ![c[2]] = s \o got]
  BY <1>2, <1>4 DEF Taken
<1> HIDE DEF got, left
<1>7. got \in Seq(U)
  BY <1>5, SeqMonotonic
<1>8. /\ Len(s \o got) = Len(s) + n /\ Len(s) \in Nat
      /\ \A i \in 1 .. Len(s) : (s \o got)[i] = s[i]
      /\ \A i \in 1 .. n : (s \o got)[Len(s) + i] = got[i]
  <2>1. /\ Len(s) \in Nat
        /\ Len(s \o got) = Len(s) + Len(got)
        /\ \A i \in 1 .. Len(s) + Len(got) :
             (s \o got)[i] = IF i <= Len(s) THEN s[i] ELSE got[i - Len(s)]
    BY <1>7, ConcatProperties, LenProperties
  <2> QED
    BY <1>5, <2>1
<1>9. queue'[c] = left /\ inStream'[c[2]] = s \o got
  BY <1>6, Ends
<1>10. n \in 0 .. Len(queue[c])
  BY <1>3, <1>5
<1>11. /\ Len(queue'[c]) = Len(queue[c]) - n
       /\ Len(inStream'[c[2]]) = Len(inStream[c[2]]) + n
       /\ \A i \in 1 .. Len(inStream[c[2]]) : inStream'[c[2]][i] = inStream[c[2]][i]
       /\ \A i \in 1 .. n : inStream'[c[2]][Len(inStream[c[2]]) + i] = queue[c][i]
  BY <1>3, <1>4, <1>5, <1>8, <1>9
<1>12. \A i \in 1 .. Len(queue[c]) - n : queue'[c][i] = queue[c][n + i]
  BY <1>3, <1>5, <1>9
<1> QED
  BY <1>10, <1>11, <1>12 DEF MovedInOrder

(* A network that was just built. *)
LEMMA FreshOK ==
  /\ FreshNetwork.currentRound = 0
  /\ FreshNetwork.queue = [c \in Channels |-> <<>>]
  /\ FreshNetwork.throughputLeft = [c \in Channels |-> Throughput(LastRound, 0)]
  /\ FreshNetwork.inStream = [p \in Peers |-> <<>>]
  /\ FreshNetwork.crashRecoveryRound = [p \in Peers |-> 0]
  /\ Throughput(LastRound, 0) \in Int
  BY ThroughputType, NetworkAssumption DEF FreshNetwork
=============================================================================
