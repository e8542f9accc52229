------------------------- MODULE MCAccumulatorSweep -------------------------
EXTENDS AccumulatorSweep, TLC

CONSTANTS c1, wide, control

OneCase == {c1}
OneOrder == <<c1>>
SevenBits == c1 :> 7
RestartLocation == [r \in {"location", "screen"} |-> IF r = "location" THEN 2 ELSE 1]
Once == [r \in {"location", "screen"} |-> 1]
NoStatic == c1 :> {}
OneOther == c1 :> {<<control, 2>>}

OneTruth == {
  [event |-> (128 :> 3) @@ (1000 :> 4), low |-> (128 :> 2) @@ (1000 :> 2)] }

=============================================================================
