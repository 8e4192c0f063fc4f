------------------------------- MODULE DataLink -------------------------------
(***************************************************************************)
(* What a stop-and-wait data link promises its user: messages 1, 2, 3, ... *)
(* are submitted one at a time, each is delivered before it is reported    *)
(* satisfied, none is skipped, and the next one is submitted when the      *)
(* previous one is satisfied.                                              *)
(***************************************************************************)
EXTENDS Naturals

VARIABLES
  submitted,  \* the number of the last message submitted
  delivered,  \* the number of the last message the receiver has got
  satisfied   \* messages reported to the user as satisfied

linkVars == <<submitted, delivered, satisfied>>

LinkInit == submitted = 0 /\ delivered = 0 /\ satisfied = 0

SubmitFirst ==
  /\ submitted = 0
  /\ submitted' = 1
  /\ UNCHANGED <<delivered, satisfied>>

Deliver ==
  /\ delivered < submitted
  /\ delivered' = delivered + 1
  /\ UNCHANGED <<submitted, satisfied>>

SatisfyAndSubmit ==
  /\ satisfied < delivered
  /\ satisfied' = satisfied + 1
  /\ submitted' = submitted + 1
  /\ submitted' = satisfied' + 1
  /\ UNCHANGED delivered

LinkNext == SubmitFirst \/ Deliver \/ SatisfyAndSubmit

LinkSpec == LinkInit /\ [][LinkNext]_linkVars
=============================================================================
