# A TLA+ verification of QUANTAS

QUANTAS runs distributed algorithms on a simulated network. An algorithm is a
class derived from `Peer`; the *abstract* simulator runs many peers in one
process, round by round, over simulated channels, and the *concrete* backends
run the same peers as separate processes, over Boost message queues or TCP.
This directory models the parts of the program whose correctness depends on
interleaving, faults or timing, model-checks them with TLC on small instances,
and proves their main safety properties with TLAPS for every size.

Paths below are relative to `src/quantas/`.

## 1. Inventory of the system

| component | state | operations | interacts with | hard part | correct when |
|---|---|---|---|---|---|
| Channel (`Common/Abstract/Channel.*`, `Packet.hpp`) | packet queue, send budget | `pushPacket`, `shuffleChannel`, `popPacket`, `frontHasArrived` | written by the sender's computation, drained by the receiver | drop, duplicate, delay, reorder, full queue, exhausted budget together | nothing lost or invented after the drop draw, limits kept, order kept without reordering |
| Round engine (`Simulation.hpp`, `NetworkInterfaceAbstract.hpp`, `Peer.hpp`, `RoundManager.hpp`) | round, phase, inStreams, crash rounds | receive phase, compute phase, end of round, next test | calls every peer on a thread pool | two phases on several threads without locks, crash and recovery | a round sees only earlier rounds, phases do not overlap, runs end |
| Network construction (`Network.cpp`, `TopologyPlanner.cpp`, `buildTopology` of the TCP leader) | neighbours, channels | seven fixed topologies and a user list, shuffled identifiers | builds channels | wrap-around, degenerate sizes, ids against positions | the documented graph, in all backends |
| `StableDataLinkPeer` | sequence numbers, timer | submit, ack, data, resend | channels | late, lost and repeated acks | reliable stop-and-wait link |
| `AltBitPeer` | one number and a timer on each side | ack, data, both timers | channels | both sides run timers | a satisfied request was received |
| `RaftPeer` | term, leader, votes, requests in flight | elect, vote, replicate, forward, crash | consensus framework | elections overlapping crashes, late votes and answers | leaders are elected, a majority knows what is committed |
| `PBFTPeer`, `Consensus.hpp`, `Faults.hpp`, `equivocateFault.hpp` | view, phase, log of messages, checkpoints | three phases, checkpoint, view change, new view | committee, faults | view change in the middle of a decision, equivocation, duplicated votes | correct replicas confirm the same requests in the same order |
| `Pow.hpp`, `BitcoinPeer`, `EthereumPeer`, `ParasiteFault.hpp` | block graph, tip, transaction queue, private chain | submit, mine, receive, choose a tip, release, report | faults | blocks before their parents, competing miners, withheld branches | longest connected chain, same blocks same tip, no branch spends twice |
| `KademliaPeer`, `LinearChordPeer` | finger tables | submit and forward a lookup | channels, topologies | no memory of the way | hops get closer, lookups end |
| BoostMQ control (`Backends/BoostMq/Control`, `Entrypoints`) | named queues, test index, completion sets, exit codes | ready, assign, start, done, stop, cleanup, launch | leader, peers and launcher processes | crashes, timeouts, queue names reused | tests in lockstep, honest report and exit code, nothing left behind |
| BoostMQ transport (`Transport`, `Logging`) | data queue, counters | send, receive, report | data queues of other peers | backpressure of a finished peer | counters add up |
| TCP backend (`Backends/TCP`) | process table, assignments, readiness, start and stop flags, inbound messages | register, assign, ready, start, unicast, done, stop, cleanup, shutdown | leader and followers, one thread per connection, a timer | early, late and repeated messages, several experiments, restarts | one host per peer, start together, stop when due, end |
| Runtime (`Concrete/Runtime`) | none | configuration, topology plan | both backends | parity with the simulator | same neighbours as `Network.cpp` |

`PROJECT.json` lists every component with its status and every hazard with its
line and the properties that cover it.

## 2. Modules

| module | models | extends |
|---|---|---|
| `Channel` | one directed link: operators on a queue and a budget | |
| `AbstractNetwork` | the engine: rounds, phases, channels, inStreams, crashes, `unicastTo` | `Channel` |
| `NetworkClient` | the engine under an arbitrary computation | `AbstractNetwork` |
| `DataLink` | abstract: what a data link promises | |
| `StableDataLink` | `StableDataLinkPeer` on the engine; implements `DataLink` | `AbstractNetwork` |
| `AltBit` | `AltBitPeer` on the engine | `AbstractNetwork` |
| `BoostMqControl` | launcher, leader and peers of one BoostMQ experiment | |
| `Raft` | `RaftPeer`: elections and replication over an unreliable network | |
| `Pbft` | `PBFTPeer` with `EquivocateFault` | |
| `ProofOfWork` | the PoW ledger, Bitcoin and Ethereum peers, `ParasiteFault` | |
| `TcpCoordinator` | leader and followers of the TCP backend over several experiments | |
| `Topology` | the topology builders of the three backends, as operators | |
| `Overlay` | the construction of a topology and the lookups of Kademlia and LinearChord on it | `Topology` |
| `MC...` | topologies, probabilities and scenarios for TLC | |
| `AbstractNetworkProofs` | lemmas about channels and the engine's operations | |
| `NetworkClientProofs`, `StableDataLinkProofs`, `AltBitProofs` | theorems about the modules they are named after | `AbstractNetworkProofs` |
| `BoostMqControlProofs`, `RaftProofs`, `PbftProofs`, `TcpCoordinatorProofs` | theorems about the modules they are named after | |

### The channel and the engine

A probability of the configuration becomes the set of outcomes
`trueWithProbability` can have: `{FALSE}`, `{TRUE}` or both. A Poisson delay is
clamped by the code, so its outcomes are those of a uniform one. `pushPacket`
is the set of states the call may leave: the duplication loop is folded into
the number of copies (`Copies`), each with its own delay. The budget is a C++
`int` of `IntBits` bits (`ToInt`).

`AbstractNetwork` has one step for each thing a thread of `Simulation::run`
does that another can see: draining one channel (`ReceiveFrom`, in the order
of the peer's multimap), passing a barrier (`StartCompute`, `EndRound`),
skipping a crashed peer. Tasks of a phase interleave freely. An algorithm's
module adds the steps of `performComputation`, guarded by `Computing(p)`; the
loop over the inStream is split into one step per packet, which is finer than
the code's visible effects and therefore covers them.

`NetworkClient` lets a computation do anything: send to any peer, consume,
crash, return. Its counters (`sent`, `pushed`, `taken`, ...) are history
variables. The body of a packet is its number, so that order can be stated.
What is shown of it holds for every algorithm that uses the network only in
`performComputation`.

### The data links

`StableDataLink` and `AltBit` have the same three kinds of steps: one packet of
the inStream (`HandleAck`, `HandleData`), and what follows the loop
(`Complete`, with the timer). `StableDataLink` has also `Submit`, the test
before the loop. Dropped from the state: what is written and never read
(`roundSubmitted`, `currentTransaction`, the receiver's timer in
`StableDataLink`). `lastFault`, `lastSubmit`, `resent` and `received` are
history.

`DataLink` states the promise of a stop-and-wait link with three counters; the
refinement maps `lastSentMessageNum`, the receiver's `lastDeliveredMessageNum`
and `requestsSatisfied` to them.

### BoostMQ control

A queue is its name and its messages: `linked` says whether the name exists.
Removing a name leaves the object to the processes that hold it, as
`shm_unlink` does, so a peer may block for ever on a queue nobody can reach.
Each operation on one queue is one step; the loops of the leader over the
peers, and `cleanUp`, interleave with the peers. `lpc` and `ppc` name the
function each process is in. Deadlines are guards: with `MayTimeOut` TRUE a
deadline may pass at any moment at which the awaited thing is not there; with
FALSE only when it cannot come any more. `killPeer`, `killLeader` and
`interruptRun` are signals from outside. Messages carry a test number that the
code's do not have; no action reads it, it only lets `NoMessageOfAnotherTest`
be stated. `Boost.Interprocess` and the operating system are modelled from how
the coordinator uses them.

### Raft

`raft[p]` is the `RaftConsensus` object of peer `p`; each handler is an operator
from an object to the object it leaves, and each action is one message of the
inStream or the `tick` that ends `performComputation`. What the algorithm
must survive is an asynchronous network, and `RaftPeer` reads nothing of the
engine but the round. So `Raft` does not extend `AbstractNetwork`: `sent`, part
of the object, is every message the peer has put on a channel, and a channel
may deliver each of them at any time, any number of times or never. This
contains every behaviour of `Channel` (drop, duplicate, reorder, delay) on a
complete topology. A timer may run out in any round. A crashed peer keeps its
memory (`maybeCrash` only makes `performComputation` skip), so it is a peer
that takes no steps. `replies` is the entry of `_replies` for the request in
flight: a request that leaves the slot is erased from the map or never comes
back to the slot. The loops that erase entries of a deque are `Kept`, which
takes the elements at given positions in their order; it is written without
recursion so that it can be reasoned about.

Two things in the code are modelled as they are and worth knowing.
`handleVote` does not compare terms and `handleCommit` adopts a term without
stepping down, so two peers may replicate in one term; `CommittedByMajority`
holds all the same, because requests are committed one by one and not at
positions of a log. And `tryStartReplication`, called with nothing pending,
submits a request through a recursive call and then runs its loop once more:
with a second request pending, the first is replaced in flight.

### PBFT

`pbft[p]` is the `PBFTConsensus` object of replica `p` and `msgs` every message
sent or stored, with the replicas that may have received it; as in `Raft` an
action that needs messages may happen as soon as they were sent, or never. An
equivocating member sends every message in two versions, to the two halves
`EquivocateFault` makes of the committee. The code counts stored messages, not
senders, so with duplicating channels (a field of the scenario) one message may
count twice.

### Proof of work

`ledger[p]` keeps what `PoW` keeps: parents, recorded heights, lists of children
in their order, and the tip. `registerBlock` runs the code's breadth-first
propagation, so orphans have the wrong heights the code gives them until their
ancestors arrive. `hidden` and `public` are the private chain and the public
height of a `ParasiteFault`. The report of `endOfRound` is a set of operators on
the ledgers of a state, since it may be the last one of a simulation.

The fork choice of `PoWEthereum` is modelled as it is: it compares the weights
of the tip and of a candidate, not of the branches at their fork, so that two
Ethereum peers with the same blocks may stay on different tips, and neither need
be the end of the GHOST chain that `endOfRound` reports. The class comment
("the preferred head is the one whose subtree (including itself) contains the
most blocks") does not say which of the two is meant.

### The TCP backend

`proc[p]` is the coordinator of a process, `lead` the fields only the leader
uses, `chan` one ordered connection for each pair of processes. A step is one
call of the main thread between two waits, one message handled under
`_configurationMutex`, one step of the timer, or one part of a broadcast.
`Expire` is `sendJson` giving up. A restarted follower comes back with a fresh
state and its old address.

The leader's threads overlap. `markReady` of the main thread and `handleReady`
of a connection both set a mark, release `_processMutex` and then call
`broadcastStartIfReady`, which takes the mutex for the gate only. Its parts are
steps of their own: `TestGate`, `BroadcastStart` for each record,
`ExchangeTimer` for `_stopTimerActive.exchange(true)` and `LaunchTimer` for the
assignment to `_stopTimerThread`; `lead.starters` says where each of the two
threads is. A handler keeps `_configurationMutex` meanwhile (`mutexFree`), which
holds up other handlers and the leader's `configureProcess`, but not the main
thread's run, its cleanup and its join, nor `shutdown`. Assigning to a
`std::thread` that is still joinable ends the process (`std::terminate`), and so
does `LaunchTimer` when the timer is not joined.

### Topologies and lookups

`Topology` writes the neighbours of each type as the three builders compute
them; `Overlay` takes a configuration, lets its backend build the topology
(`InitNetwork`) and sends one lookup through it. Lookups do not influence each
other, so one per behaviour is enough. A finger that Kademlia draws at random is
drawn when it is needed.

### Mutants

Definitions whose comment starts with *Mutant of* are deliberate errors, one
for each property; no specification uses them. Each, put in the place of the
definition it names, makes TLC report the property as violated, which shows
that the property can fail at the bounds of its run.

## 3. Runs

| run | instance | shows |
|---|---|---|
| `NetworkRounds` | one link, delays 0..2, queue 2, quota 1, drops, duplicates, 2 tests of 3 rounds, 2 sends a round, crashes, fair | `TypeOK`, `SynchronousDelivery`, `InOrderDelivery`, `Conservation`, `ThroughputBudget`, `ChannelOwnership`, `Termination` |
| `DataLinkFaulty` | drops, duplicates, reordering, 14 rounds, timeout 1, queue 2 | `StopAndWait`, `ResendsAreSpaced`, `RecoversFromLoss`, refinement of `DataLink` |
| `AltBitLossy` | delays 1..2, drops, duplicates, 7 rounds | `SatisfiedWasReceived`, `ReceiverNeverGoesBack` |
| `AltBitFalseAck` | delay 1, drops | *violation* of `EverySatisfiedWasReceived` |
| `Raft` | 3 peers; three requests of one leader, two requests through a change of leader, elections over two terms | `CommittedByMajority`, `QueuedOnce`, `OneVotePerTerm`, `LeadersAreElected` |
| `Pbft` | 4 replicas with two requests, a checkpoint and a view change, or with duplicated packets; 4 and 5 replicas of which one equivocates | `PreparedOnce`, `Agreement`, `StableIsShared`, `OnlySubmitted` |
| `ProofOfWork` | 2 peers with 3 transactions and 4 blocks under each rule and with a parasite, 3 peers with 2 transactions and 3 blocks without and with two parasites | `LongestChain`, `TipIsALeaf`, `BranchSpendsOnce`, `CoherentRelease`, `ReportMatchesLedgers` |
| `BoostMqFailures` | 2 peers, 3 tests, leftovers, any timeout, 2 signals, fair | `StartBarrier`, `NoMessageOfAnotherTest`, `SuccessIsComplete`, `ExitStatus`, `CleanShutdown`, `ExperimentEnds` |
| `BoostMqQueues` | 2 peers, 2 tests, no faults | *violation* of `TestHasItsQueues` |
| `TcpExperiments` | two experiments of 2 and of 3 processes; a surplus process; two experiments with a timer next to peers that stop; a restarted follower; a timer and a restarted follower; fair | `OwnersAgree`, `StartBarrier`, `StopIsDue`, `NoMessageOfAnotherExperiment`, `ExperimentsEnd` |
| `Overlay` | every topology type for 2 to 6 peers, grids up to 3 by 3, complete graphs up to 8, all backends, any lookup, fair | `TopologyAsDocumented`, `LogarithmicHops`, `LookupsEnd` |
| `OverlayRandomIds` | star, chain and ring of 3 and 4 peers in the simulator, any shuffle | *violation* of `ShuffledTopology` |

Every module has a `TypeOK` that documents the shape of its state. Only
`NetworkRounds` checks one, because there it bounds the queues, which code can
get wrong; those of `StableDataLink`, `AltBit`, `BoostMqControl` and
`TcpCoordinator` are proved, and so are `UtilityAtMostHalf` and
`CrashedPeerIsInert`.

Why the bounds are enough to be interesting. With a queue of 2, a quota of 1
and two sends a round, queues fill, packets wait for the quota, and three
rounds of quota 1 let duplicates use up the budget of 3. Delays 0 to 2 contain
the clamp and an overtaking, two tests the reset of the round between networks.
For the data link a quota of 1 and duplicates delay packets beyond the timeout
of 1, so that it retransmits what is only late, and old data arrives after new
data. `RecoversFromLoss` speaks of the rounds after the last fault:
`ResponseBound` is 6 rounds here, two of the timer and four in which the queues
drain, so that every sequence of faults in the first seven of the fourteen rounds
is followed to the end: a message, its copies and the acks of its copies lost one
after the other, or each of them doubled. With 5 in place of 6 TLC finds the
property violated. (The constructor's timeout is 4; a shorter one lets more copies
meet.)
Three Raft peers need both others for a quorum; one change of term deposes a
leader with a request in flight, two let the votes of one election meet the
next. `bound` picks one of four combinations of terms and requests; a step
beyond the number of requests is cut off with the commit that causes it, and
three requests let a commit followed by a submission, and answers that come
after it, occur. PBFT with four replicas is the smallest committee with f = 1
and five the smallest that is not 3f + 1; one view change is enough for a
decision to be cut in the middle and taken up by the next leader. A branch is at
most as long as there are transactions (`BranchSpendsOnce`): three give a chain
whose blocks arrive in every order, and three peers two miners and an observer.
Three tests let messages of one test meet both its neighbours; two signals kill a peer
and the leader, or a peer and the launcher. Two TCP experiments let the
messages, the timer, the stop and a thread still inside `broadcastStartIfReady`
of the first meet the second. Complete
graphs of 7 and 8 peers are on both sides of a change in the number of bits;
`MaxHops` of 10 is beyond any path a lookup may take where `LookupsEnd` applies.

Fairness. `NetworkRounds` assumes weak fairness of the engine's steps and of
`performComputation` returning: the pool runs every task it was given, and an
algorithm's computation is a finite loop over its inStream. Nothing is assumed
about sending, consuming or crashing. `BoostMqFailures` assumes weak fairness of
the leader, of each peer and of the launcher: the operating system schedules a
process that can run. A blocked receive is not enabled, so nothing is assumed
about messages arriving. Signals are not fair. `TcpExperiments` assumes it of the main
thread of each process, of the handler of each connection, of the timer, of
each thread inside `broadcastStartIfReady` and of a stop under way; a message that was sent over a connection is read, but
`Expire` and restarts are never required. `Overlay` assumes it of the peer that
holds the lookup: the engine runs every peer in every round.

`TcpExperiments` and `Overlay` do not check for deadlock: their behaviours end
when all processes have exited, hang in one of the situations `Disturbed` names,
or have ended their lookup. That nothing else stops is what
`ExperimentsEnd` and `LookupsEnd` say.

## 4. What the violations show

* **A false acknowledgement in `AltBitPeer`.** The receiver's number starts at
  1, the number of the first message, and its timer acknowledges that number
  before anything has arrived. In the counterexample the first message is lost
  in round 1. The sender's timer, which `submitTrans` does not restart, sends it
  again in round 3, and that copy is lost too; the receiver's timer sends the
  false ack in the same round. In round 4 the sender counts message 1 as
  satisfied though it was never received, goes on to message 2 and does not send
  message 1 after that. From the second message on the property holds
  (`SatisfiedWasReceived`).
* **`cleanUp` can remove a queue of the next test.** A peer starts the next
  test when its control queue has gone; the leader removes the data queue of
  that peer one step later. If the peer has created its new data queue by then,
  it is removed, and the test fails. The failure is reported as such
  (`SuccessIsComplete`, `ExitStatus` hold all the same).
* **Random identifiers break the simulator's topologies.** With
  `"identifiers": "random"` the neighbour sets hold ids of the shuffled
  numbering, but `createInitialChannels` takes a neighbour's id for its
  position: channels lead to other peers than the neighbours, and a message to
  a neighbour without a channel is dropped. A star of three is left with one
  usable link. `TopologyPlanner` does not have the problem
  (`TopologyAsDocumented` holds for BoostMQ with shuffled ids).

Differences that modelling brought up and no run is about:

* `src/README.md` says that duplicates reuse the sampled delay;
  `Channel::pushPacket` draws one for each copy, and so does the model.
* `FaultManager::applyReceive` has no caller. A `ParasiteFault` therefore never
  sees the public chain or the private blocks of its collaborators, and the
  release of one of several parasites may rest on a block another still
  withholds, against the comment in `tryRelease`. `CoherentRelease` is stated
  for one parasite.
* In the TCP backend a registration for the next experiment that arrives before
  the leader has configured it is ignored as stale, and the follower waits for
  ever; a process too many is registered, gets no peers, never reports ready and
  blocks the start; the leader may exit while a handler is still sending the
  stop. `Disturbed` lists these cases next to a restart and the following one;
  `ExperimentsEnd` holds without these five.
* Also in the TCP backend, the stop timer can be started twice in one
  experiment, without any restart or loss. A handler marks the last follower
  ready and is overtaken before the end of `broadcastStartIfReady`: the main
  thread passes the gate itself, starts the timer, runs, is stopped, and
  `cleanupExperiment` joins the timer and clears `_stopTimerActive`. The
  handler's exchange then succeeds and starts a timer nobody joins before the end
  of the next experiment. It stops the *next* experiment before its time, which
  may be before a follower has registered for it, who then never gets a stop; and
  as `_stopTimerActive` is set again, the next experiment does not start a timer
  of its own. When the handler gets there while the old thread is not yet
  joined, the assignment to `_stopTimerThread` ends the leader. A restarted
  follower, which reports ready a second time, opens the gate for the same fault.
  `hist.late` has the experiments that were over when such a timer was started;
  `StopIsDue` leaves out exactly the experiments that follow one of them, and
  without the exception TLC finds it violated.
* PBFT's new view carries nothing over about the number being decided.
  `Agreement` holds for committees of one, two and four, in which a quorum of
  prepares needs every follower: a replica that has decided does not prepare the
  number again, so nobody can decide it differently. With five members a
  quorum can leave that replica out, and the next view may decide another
  request at the same number. Within one view two versions cannot both be
  prepared with 3f + 1 or 3f + 2 members of which f are faulty (`PreparedOnce`).
* An altered request can be confirmed by correct replicas as soon as the half of
  the committee that gets it, with the equivocators, is a quorum; six members and
  one equivocator are enough. `OnlySubmitted` states the sizes at which it is not.

## 5. Proofs

All theorems hold for every value of the constants that satisfies the
assumptions of the modules (`ChannelAssumption`, `NetworkAssumption`,
`ClientAssumption`, `LinkAssumption`, `AltBitAssumption`, `BoostMqAssumption`,
`RaftAssumption`, `PbftAssumption`, `TcpAssumption`). They fix what kind of value each parameter
is; of sizes they ask only that there is a peer, a test, a process or a member at
all.
`AltBitAssumption` has the two peers the program is written for. The last three
conjuncts of `ChannelAssumption`, arithmetic facts about powers of two that
the provers cannot compute for a variable exponent, are assumed in this form;
TLC evaluates them in every run.

### The network (`AbstractNetworkProofs`, `NetworkClientProofs`)

Theorems: `TypeCorrect`, `SynchronyTheorem`, `ConservationTheorem`,
`BudgetTheorem`, `OwnershipTheorem`, `CrashTheorem`, `InOrderTheorem`, for any
topology, delay law and fault configuration, and any number of tests, rounds and
threads.

The inductive invariant is `Inv == TypeOK /\ QueuesOK /\ StreamsOK /\
Conservation /\ ThroughputBudget /\ PhaseOK`. `SynchronousDelivery` speaks of the
inStreams only and is not inductive: one needs to know of a packet still queued
that it belongs to its channel, was created no later than now and has a delay
of at least 1 (`QueuesOK`), so that when it is taken, in a receive phase, its
round is past. `StreamsOK` is the same for what was taken. `PhaseOK` ties the
sets of unfinished tasks to the phase; it is what makes `ChannelOwnership`
true. The lemmas `PushPacket`, `Shuffle` and `Take` say what the channel's
operators do to a queue whose packets satisfy any one of the conditions used;
`ThroughputFits` evaluates the `int` arithmetic where the product fits.

`InOrderDelivery` speaks of one inStream, in which the packets of several
channels are mixed. `OrderOK` says for each channel that what the receiver has
taken from it, followed by what is queued, is in the order of the numbers, none
larger than the number last sent. `UnicastAppends` (a send only appends) and
`ReceiveInOrder` (without reordering a drain moves a prefix of the queue to the
end of the stream) carry it over a step.

### The data link (`StableDataLinkProofs`)

Theorems: `TypeCorrect`, `StopAndWaitTheorem`, `UtilityTheorem`,
`SpacingTheorem`, and `Refinement`: `Spec => RefinesDataLink`, for any
number of peers, topology without self-loops and channel faults.

`StopAndWait` is not inductive: an ack that is still travelling could be for a
message the receiver has not got. `NetOK` excludes it: every ack on its way, in a
queue or in an inStream, has a number the receiver has delivered, and every
data message goes to `Receiver` and has a number already sent. `SenderOK`
relates the sender's variables (`nextMessageNum = lastSentMessageNum + 1`, and
so on), and `CountOK` the message counters, from which `UtilityAtMostHalf`
follows. `ResendsAreSpaced` is about the rounds since the submission and says
nothing about the timer; `TimerOK` adds that the timer was started no earlier
than the submission and no later than now, and that each copy has moved it on by
more than `TimeOutRate` rounds. That a smallest neighbour exists is proved from the well-founded
order on the naturals. The refinement is then step simulation: an accepted
number is a `Deliver`, an expected ack a `SatisfyAndSubmit`, the first
submission a `SubmitFirst`, everything else a stutter.

### The alternating bit (`AltBitProofs`)

Theorems: `TypeCorrect`, `SatisfiedTheorem` and `NeverBackTheorem`, for every
channel configuration and timeout. `Inv` says what may travel on each of the two
channels (`NetOK`): data up to the sender's number, and acks of 1 or of numbers
that were received. The exception for 1 is the receiver's timer, and the reason
why `SatisfiedWasReceived` starts at 2. `ReceiverNeverGoesBack` needs the order of
everything on its way: the receiver's number, then the data in its inStream, then
the data queued, never decrease (`Chain`).

### BoostMQ control (`BoostMqControlProofs`)

Theorems: `TypeCorrect`, `SuccessTheorem`, `ExitStatusTheorem`,
`CleanShutdownTheorem`, `StartBarrierTheorem`, `OneTestTheorem`, for any number
of peers, tests and signals, with deadlines that may pass at any time and any
leftovers.

`Inv == TypeOK /\ ReportInv /\ QueueInv /\ ExitInv`. `ReportInv` says that the
report has one entry for each test the leader has evaluated, that only its last
entry can be a failure and that `timedOut` then holds, and that a success has
every output; `QueueInv` which names are gone at which point of `cleanUp` and
after a peer's normal exit; `ExitInv` how exit codes, report and launcher are
related. `CleanShutdown` needs `QueueInv` because the launcher removes nothing
when every process exits with 0.

`StartBarrier` and `NoMessageOfAnotherTest` rest on a second invariant,
`SyncInv`. `PlaceOK` says how far leader and peers can be apart: a peer is one
test behind only with its queue removed and its done message sent, and one
ahead only once the leader has removed its queue, with nothing but empty queues
(`Fresh`). `BarrierOK`, `JoinedOK` and `DoneOK` say that what the leader reads
comes from peers that are in its test and have not been told to leave it; the
exception is a failure message of a peer that died while it left the last test,
which is never followed by a ready message, so that the leader does not reach
`waitDone`. `CompletedOK` records that a leader that removes queues without
having timed out has heard from everybody, which is what allows a peer to be
ahead and what makes a stop harmless. `StartedOK` is `StartBarrier` for peers
that have a start message as well as for those that act on it. The proof has one
lemma for each kind of step of a peer (`PeerMoves` is what they share), of the
leader (`LeaderMoves`, `SendMoves`) and of the launcher.

### Raft (`RaftProofs`)

Theorems: `OneVoteTheorem`, `ElectionTheorem`, `CommitTheorem`,
`QueuedOnceTheorem`, for any finite committee, any number of terms and requests
and every order, loss and repetition of messages.

A handler of the code changes the object several times before it returns. So
the invariant is a predicate `Valid(p, t)` on the object `t` that a handler has
made so far, next to the objects of the others, and there is one lemma for each
function of the code (`StepDownValid`, `ForwardValid`, `TickValid`, ...); the
lemmas compose as the calls do. `BallotsOK` has the terms of the votes and
candidacies a peer has sent, none later than its own term, so that a new term is
one it has not voted in. `LeaderOK` ties the votes a peer counts to votes that
were cast; `CommitOK` ties the answers it counts to peers that know the request
*now in flight*, which is why a late answer for a replaced request is harmless.
`QueuesOK` is preserved by `Kept`, because it takes elements at different
positions (`KeptElements`).

### PBFT (`PbftProofs`)

Theorems: `PreparedOnceTheorem`, `AgreementTheorem`, `StableTheorem`,
`OnlySubmittedTheorem`, for any number of members, faulty members, views and
requests, with and without duplicated packets; the sizes for which each property
is meant are part of the property.

The central notion is `Backed(G, n, v, r)`: a quorum of followers of view `v`
whose correct members have sent the prepare of `r` at number `n`. `CommitOK`,
`ProofOK` and `ConfirmedOK` say that what is committed, taken into a new view or
confirmed is backed, and `PrepareOK` that a correct follower prepares once at a
number of a view, since its object is then past that number (`Past`). Two
quorums share a correct follower (`BackedOnce`), which gives `PreparedOnce`. Across
views `DecidedOK` says that a replica that has decided a number prepares it in no
later view and, as the leader, proposes what it decided; where a quorum is all
followers (`BackedByAll`) that excludes a second decision (`Locked`).
`CheckpointOK` and `StableOK` give `StableIsShared`; `RequestOK` and `FlipOK` give
`OnlySubmitted`. The steps are proved once, for what an action adds to the log and
does to one object (`GoodStep`); each action is then shown to be such a step.

### The TCP backend (`TcpCoordinatorProofs`)

Theorems: `TypeCorrect`, `OneHostPerPeer`, `StartIsABarrier`, `EveryStopIsDue`
and `InboundIsCurrent`, for any number of processes, peers, experiments,
messages, connection timeouts and restarts.

None of the properties is inductive, because each compares the states of
processes that know of each other only through messages that may be old. The
invariant is `Inv == \E T \in Table : InvFor(T)`. `T` gives every experiment
its table of hosts, a value fixed once the experiment is `Known` and free
before; it stands for what the leader computed, even after the leader has moved
on and reset its own copy. With it each conjunct speaks of one process or one
connection: `MsgOK` says what a message on its way implies (an assignment holds
`T` of its experiment, a ready comes from a process that has its assignment, a
start or a stop was really due), `ProcOK` and `HolderOK` what a process holds,
`LeadOK` how the leader's sets of registered and ready processes relate to the
rest, and `Threads` where its threads are. A thread that is past the gate of
`broadcastStartIfReady` is in an experiment that may start (`Open`), though main
thread, timer and handlers go on in the meantime: what it has found stays true,
because a process never goes back before `markReady` of an experiment and a
handler inside keeps the leader from configuring the next one. A stop under way
is `Due`. A timer is that of the leader's experiment, or the experiment before is
in `hist.late`; a sleeping timer of an idle leader can only be one started too
late. This is what `EveryStopIsDue` rests on.

A step either leaves `T` alone or, when the leader assigns the peers, defines it
for one experiment. `Grow` states what all steps have in common, that nothing
once true of an experiment is taken back, so that the conditions on messages and
processes a step does not touch carry over (`StepFrom`). `LocalStep`,
`LeaderStep` and `AssignStep` reduce the actions to the part that changes;
`LateRegistration` says that a process that registers when all ids are given
changes nothing in the table. The facts about `nextId`, the running sum from
which the ranges of peer ids are cut, are inductions over the registration order
and are proved by a least counterexample, from the well-foundedness of the
order on the naturals.

### Only model-checked

`ProofOfWork`, whose heights and tips come from a recursive propagation through a
tree, and `Overlay`, whose properties are tables over finite configurations; the
bound on rounds `RecoversFromLoss`, which would need an argument about how the rounds of the timer
and the contents of both channels add up; and the liveness properties
`Termination`, `ExperimentEnds`, `ExperimentsEnd` and `LookupsEnd`, because the
prover has no rules for fairness.

## 6. Abstractions and what is not modelled

* Payloads keep the action and the number. JSON, logging and metrics files are
  left out; of a peer's output file only its existence is kept.
* One test for the data links: `NextTest` rebuilds every object, which
  `NetworkClient` covers.
* A peer that is crashed from the start (`RaftPeer::initParameters`) is, in
  `Raft`, one that takes no steps; `AbstractNetwork` starts with nobody crashed.
* `Raft`, `Pbft` and `ProofOfWork` say nothing about progress: their network may
  lose everything, and none of the algorithms retransmits.
* `Pbft` leaves out the pruning of log entries that are never looked up again;
  `ProofOfWork` the parasite flag and the lengths of losing branches, which are
  only reported. Both use a complete topology, as their configurations do.
* `TcpCoordinator` has peers only as the messages they send and their requests to
  stop; the neighbours that travel with an assignment are in `Topology`.
* The launcher runs the experiments of a plan one after the other; one is
  modelled. `CleanShutdown` is what makes the next one start clean.
* Queue capacities: the control queues have the capacity the configuration
  derives from the number of peers; data queues appear only as existing or not.
* Not modelled: the data transport and the report of BoostMQ (a bounded send and
  a drain loop around one library queue, and sums over JSON files; the failure of
  a send is in `BoostMqControl`), queue and runtime configuration (validation
  without state), logging, address discovery, the example peers, the ZeroMQ
  directories (empty), test programs and recorded data.
* Two thirds of the repository's C++ lines are the vendored `Json.hpp` (26,752
  lines) and `BS_thread_pool.hpp`; the models cover a large part of the rest. The
  share of all lines the map names is small for that reason.

## 7. Plan

Done: the channel and the engine, both data links, BoostMQ control, Raft, PBFT,
proof of work, the TCP backend, topologies and lookups, and the proofs above.
Left, in this order:

1. Proofs for `ProofOfWork`: `BranchSpendsOnce` and `CoherentRelease`. The
   breadth-first propagation of `registerBlock` is a recursion, so that
   `LongestChain` stays with TLC.
2. The data transport of BoostMQ with its counters.
