------------------------------- MODULE Channel -------------------------------
(***************************************************************************)
(* One directed link of the round-based simulator                          *)
(* (quantas/Common/Abstract/Channel.{hpp,cpp}), as operators on the two    *)
(* pieces of state a Channel object keeps: its packet queue q              *)
(* (_packetQueue) and its remaining send budget left (_throughputLeft).    *)
(*                                                                         *)
(* A probability of the configuration is modelled by the set of results    *)
(* trueWithProbability can give for it: {FALSE} when it is <= 0, {TRUE}    *)
(* when it is >= 1 and BOOLEAN in between.                                 *)
(*                                                                         *)
(* A packet is a record with the fields src, dst, body, round (the round   *)
(* it was constructed in) and delay.                                       *)
(***************************************************************************)
EXTENDS Integers, Sequences

CONSTANTS
  DelayStyle,   \* "UNIFORM", "POISSON" or "ONE"
  MinDelay,     \* the bounds of the delay drawn for a packet
  MaxDelay,
  MaxMsgsRec,   \* packets one receive may take from the channel
  Size,         \* capacity of the queue
  Drop,         \* results of the drop draw
  Duplicate,    \* results of the duplication draw
  Reorder,      \* results of the reorder draw
  IntBits       \* width of the C++ int that holds the budget

ASSUME ChannelAssumption ==
  /\ DelayStyle \in {"UNIFORM", "POISSON", "ONE"}
  /\ MinDelay \in Nat /\ MaxDelay \in Nat /\ MinDelay <= MaxDelay
  /\ MaxMsgsRec \in Nat
  /\ Size \in Nat
  /\ \A D \in {Drop, Duplicate, Reorder} : D \in SUBSET BOOLEAN /\ D # {}
  /\ IntBits \in Nat \ {0}
  /\ 2 ^ IntBits \in Nat /\ 2 ^ (IntBits - 1) \in Nat
  /\ 2 ^ (IntBits - 1) < 2 ^ IntBits

(* The value a C++ int holds after x is stored in it. *)
ToInt(x) ==
  LET m == x % 2 ^ IntBits IN IF m < 2 ^ (IntBits - 1) THEN m ELSE m - 2 ^ IntBits

(* Channel::setParameters: the budget of a channel built in round now of a *)
(* run of last rounds.  A budget that wraps below zero means "unlimited".  *)
Throughput(last, now) == ToInt(MaxMsgsRec * (last - now))

(* Channel::computeRandomDelay: a Poisson draw is clamped into the bounds. *)
computeRandomDelay ==
  IF DelayStyle = "ONE" THEN {1} ELSE MinDelay .. MaxDelay

(* Packet::setDelay(d, d) *)
setDelay(d) == IF d < 1 THEN 1 ELSE d

(* Channel::canSend *)
canSend(q, left) == left # 0 /\ Len(q) < Size

(* Mutant of Room: the queue takes one packet too many. *)
RoomOffByOne(q, left) == IF left # 0 /\ Len(q) <= Size THEN Size + 1 - Len(q) ELSE 0

(* How many times in a row the loop of pushPacket finds canSend true.      *)
Room(q, left) ==
  IF ~canSend(q, left) THEN 0
  ELSE IF left > 0 /\ left < Size - Len(q) THEN left
  ELSE Size - Len(q)

(* The numbers of copies of one packet that may enter the queue: none when *)
(* it is dropped or refused; otherwise one, and one more for each positive *)
(* duplication draw while there is room.                                   *)
Copies(q, left) ==
  { n \in 0 .. Room(q, left) :
      \/ n = 0 /\ (TRUE \in Drop \/ Room(q, left) = 0)
      \/ /\ n > 0
         /\ FALSE \in Drop
         /\ n > 1 => TRUE \in Duplicate
         /\ n < Room(q, left) => FALSE \in Duplicate }

(* Mutant of consumeThroughput: duplicates are free. *)
consumeOnce(left, n) == IF left > 0 /\ n > 0 THEN left - 1 ELSE left

(* Channel::consumeThroughput, n times: only a positive budget shrinks.    *)
consumeThroughput(left, n) == IF left > 0 THEN left - n ELSE left

(* Channel::pushPacket: every state <<queue, budget>> the call may leave.  *)
(* Each copy draws a delay of its own.                                     *)
pushPacket(q, left, pkt) ==
  UNION { { << q \o [i \in 1 .. n |-> [pkt EXCEPT !.delay = setDelay(d[i])]],
               consumeThroughput(left, n) >>
            : d \in [1 .. n -> computeRandomDelay] }
          : n \in Copies(q, left) }

(* The orders std::shuffle may give a queue of n packets. *)
Permutation(n) ==
  { f \in [1 .. n -> 1 .. n] : \A i, j \in 1 .. n : f[i] = f[j] => i = j }

(* Mutant of shuffleChannel: the probability is not looked at. *)
shuffleAlways(q) ==
  { [i \in 1 .. Len(q) |-> q[f[i]]] : f \in Permutation(Len(q)) }

(* Channel::shuffleChannel: every order the queue may be in afterwards.    *)
shuffleChannel(q) ==
  (IF Len(q) <= 1 \/ FALSE \in Reorder THEN {q} ELSE {})
  \cup
  (IF Len(q) > 1 /\ TRUE \in Reorder
   THEN { [i \in 1 .. Len(q) |-> q[f[i]]] : f \in Permutation(Len(q)) } ELSE {})

(* Packet::hasArrived in round now *)
hasArrived(pkt, now) == now >= pkt.round + pkt.delay

(* Mutant of Popped: a packet is taken before it has arrived. *)
PoppedEarly(q, now) == {IF Len(q) < MaxMsgsRec THEN Len(q) ELSE MaxMsgsRec}

(* How many packets the loop of NetworkInterfaceAbstract::receive may take *)
(* from the front of q: it stops at the quota, at the end of the queue and *)
(* at the first packet that has not arrived.                               *)
Popped(q, now) ==
  { n \in 0 .. Len(q) :
      /\ n <= MaxMsgsRec
      /\ \A i \in 1 .. n : hasArrived(q[i], now)
      /\ n = Len(q) \/ n = MaxMsgsRec \/ ~hasArrived(q[n + 1], now) }
=============================================================================
