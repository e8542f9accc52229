----------------------- MODULE MCControllerAdmission -----------------------
(* Two CUDA tasks and one for the CPU lane on a host with room for fewer,  *)
(* with the reserves in proportion to the code's: in units of 1.5 GiB, 3   *)
(* GiB per worker, 6 GiB reserved and 13.5 GiB available.                  *)
EXTENDS ControllerAdmission, TLC

CONSTANTS cuda1, cuda2, cpu1

Three == {cuda1, cuda2, cpu1}

ThreeLanes == (cpu1 :> "cpu") @@ [t \in Three |-> "cuda"]

SameLane == Permutations({cuda1, cuda2})

=============================================================================
