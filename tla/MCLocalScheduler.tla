-------------------------- MODULE MCLocalScheduler --------------------------
(* Two processes over one experiment: the second can take over what the    *)
(* first lost.                                                             *)
EXTENDS LocalScheduler, TLC

Symmetry == Permutations(Processes)

=============================================================================
