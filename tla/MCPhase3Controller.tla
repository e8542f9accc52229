------------------------- MODULE MCPhase3Controller -------------------------
(* A chain over both lanes, listed with its end before its start, and two  *)
(* independent tasks that compete for the one GPU slot.                    *)
EXTENDS Phase3Controller, TLC

CONSTANTS pilot, accept, screen, other, spare

ChainAndOthers == {pilot, accept, screen, other, spare}

ChainDeps == (accept :> {pilot}) @@ (screen :> {accept}) @@ [t \in ChainAndOthers |-> {}]

ChainLane == (accept :> "cpu") @@ [t \in ChainAndOthers |-> "cuda"]

ChainListed == (screen :> 1) @@ (pilot :> 2) @@ (accept :> 3) @@ (other :> 4) @@ (spare :> 5)

ChainPriority == (accept :> 1) @@ (pilot :> 2) @@ (other :> 3) @@ (spare :> 4) @@ (screen :> 5)

=============================================================================
