---------------------------- MODULE BlkifRequests ----------------------------
(***************************************************************************)
(* What a connected block interface promises the guest frontend, stated   *)
(* without rings, slots, grants or event channels.                         *)
(*                                                                         *)
(* The guest issues requests (identified 0, 1, 2, ... in issue order).     *)
(* The backend publishes answers in batches; every answer names an issued *)
(* request that had not been answered before.  The guest consumes the      *)
(* published answers in order.  Under fairness every issued request is     *)
(* eventually answered and the answer is eventually seen by the guest.     *)
(***************************************************************************)
EXTENDS Integers, Sequences, Functions

CONSTANT MaxReqs            \* number of requests the guest issues in a behaviour

ASSUME MaxReqs \in Nat \ {0}

VARIABLES
  issued,     \* requests 0 .. issued-1 have been made visible to the backend
  answers,    \* answers published to the guest, in publication order
  seen        \* how many of the answers the guest has consumed

vars == <<issued, answers, seen>>

Ids == 0 .. MaxReqs - 1

Answered == Range(answers)

\* Non-empty batches of answers that can be published in one step.
Batches == UNION { [1 .. n -> Ids] : n \in 1 .. MaxReqs }

Init ==
  /\ issued = 0
  /\ answers = <<>>
  /\ seen = 0

Issue ==
  /\ \E k \in issued + 1 .. MaxReqs : issued' = k
  /\ UNCHANGED <<answers, seen>>

\* A batch of distinct, issued, not yet answered requests is published.
Answer ==
  /\ \E batch \in Batches :
       /\ \A j \in DOMAIN batch : batch[j] < issued /\ batch[j] \notin Answered
       /\ IsInjective(batch)
       /\ answers' = answers \o batch
  /\ UNCHANGED <<issued, seen>>

Consume ==
  /\ \E k \in seen + 1 .. Len(answers) : seen' = k
  /\ UNCHANGED <<issued, answers>>

Next == Issue \/ Answer \/ Consume

Spec == Init /\ [][Next]_vars /\ WF_vars(Answer) /\ WF_vars(Consume)

=============================================================================
