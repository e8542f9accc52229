------------------------------ MODULE PoolLease ------------------------------
(* The native resource lease of a campaign: both pool locks, and for the    *)
(* breadth studies the Phase 3 controller lock before them                  *)
(* (src/tools/phase3/worker_locks.py).  A worker inherits the descriptors,  *)
(* so the lease is held as long as one process that has them lives.         *)
EXTENDS Integers, FiniteSets

VARIABLE holders  \* the live processes that have the descriptors

Controller(c) == <<c, "controller", <<>>>>
Worker(c, w) == <<c, "worker", w>>

\* Faulty: descriptors that workers do not inherit.
NoControllerHolds == \A h \in holders : h[2] # "controller"

LeaseFree == holders = {}

=============================================================================
