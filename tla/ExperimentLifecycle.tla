------------------------- MODULE ExperimentLifecycle -------------------------
(***************************************************************************)
(* What the registry promises about one experiment identity, with the runs *)
(* table hidden: an experiment is worked on by at most one lease at a time *)
(* and, once it has a result, the result is final.                         *)
(***************************************************************************)

CONSTANTS
  Experiments,      \* experiment identities
  Measurements,     \* what a completed run may report
  NoResult          \* the experiment has no completed run yet

VARIABLES
  stage,            \* stage[e]: where experiment e stands
  result            \* result[e]: the published measurements of e

lifecycleVars == <<stage, result>>

Stages == {"idle", "queued", "leased", "done"}

LifecycleInit ==
  /\ stage = [e \in Experiments |-> "idle"]
  /\ result = [e \in Experiments |-> NoResult]

Move(e, from, to) ==
  /\ stage[e] = from
  /\ stage' = [stage EXCEPT ![e] = to]

\* A first submission, or a retry after a failed attempt.
Enqueue(e) == Move(e, "idle", "queued") /\ UNCHANGED result

Lease(e) == Move(e, "queued", "leased") /\ UNCHANGED result

Fail(e) == Move(e, "leased", "idle") /\ UNCHANGED result

Complete(e) ==
  /\ Move(e, "leased", "done")
  /\ \E m \in Measurements : result' = [result EXCEPT ![e] = m]

\* One recovery pass may expire the leases of several experiments at once.
Expire(S) ==
  /\ \A e \in S : stage[e] = "leased"
  /\ stage' = [e \in Experiments |-> IF e \in S THEN "queued" ELSE stage[e]]
  /\ UNCHANGED result

LifecycleNext ==
  \/ \E e \in Experiments : Enqueue(e) \/ Lease(e) \/ Fail(e) \/ Complete(e)
  \/ \E S \in SUBSET Experiments : Expire(S)

LifecycleSpec == LifecycleInit /\ [][LifecycleNext]_lifecycleVars

==============================================================================
