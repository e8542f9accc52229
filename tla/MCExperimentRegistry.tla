------------------------ MODULE MCExperimentRegistry ------------------------
(* Two interchangeable experiments share the sequence of rows and the      *)
(* writer lock: up to three attempts of one, or two and one.               *)
EXTENDS ExperimentRegistry, TLC

Symmetry == Permutations(Experiments)

=============================================================================
