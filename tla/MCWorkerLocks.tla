---------------------------- MODULE MCWorkerLocks ----------------------------
(* Two CUDA jobs and a CPU job; six processes are enough for a controller  *)
(* and its workers beside the orphans of its predecessor and a runner.     *)
EXTENDS WorkerLocks, TLC

CONSTANTS j1, j2, j3

MCJobs == {j1, j2, j3}

MCJobPool == (j1 :> "cuda") @@ (j2 :> "cuda") @@ (j3 :> "cpu")

Symmetry == Permutations(Processes) \cup Permutations({j1, j2})

=============================================================================
