-------------------------- MODULE AccumulatorPlan --------------------------
(* The location rule and the 1k bracket of the accumulator sweep, as pure   *)
(* operators (src/tools/accumulator_sweep_v1/plan.py).  Widths are register *)
(* widths W of the policy sat.w<W>; `results` maps every measured width to  *)
(* a record: `event`, some accumulator saturated on the images, and `low`,  *)
(* the expected Top-1 is at or below half of the exact arm.                 *)
EXTENDS Integers, FiniteSets, FiniteSetsExt

LADDER_STEP == 3
LADDER_MAX_RUNGS == 12
BOTTOM_MARGIN == 2
MIN_WIDTH == 2
MAX_WIDTH == 63

Widest(wc) == Min({wc - 1, MAX_WIDTH})

Ladder(wc) ==
  LET rungs == {w \in MIN_WIDTH..Min({wc - 2, MAX_WIDTH}) : (wc - 2 - w) % LADDER_STEP = 0}
  IN  {w \in rungs : Cardinality({v \in rungs : v > w}) < LADDER_MAX_RUNGS}

LadderDone(results) == \E w \in DOMAIN results : results[w].low

\* The measured widths with no event at or above them, and those at half.
CleanWidths(results) ==
  {w \in DOMAIN results : \A v \in DOMAIN results : v >= w => ~results[v].event}

LowWidths(results) == {w \in DOMAIN results : results[w].low}

BelowClean(results, wc) ==
  LET measured == DOMAIN results
      clean == CleanWidths(results)
  IN  IF clean # {}
      THEN IF Min(clean) = Min(measured) THEN {}
           ELSE (Min(clean) - LADDER_STEP + 1)..(Min(clean) - 1)
      ELSE IF measured = {} THEN {} ELSE (Max(measured) + 1)..Widest(wc)

AboveHalf(results) ==
  LET low == LowWidths(results)
  IN  IF low = {} \/ Max(low) = Max(DOMAIN results) THEN {}
      ELSE (Max(low) + 1)..(Max(low) + LADDER_STEP - 1)

Refine(results, wc) ==
  {w \in BelowClean(results, wc) \cup AboveHalf(results) :
     w \notin DOMAIN results /\ MIN_WIDTH <= w /\ w < wc}

Bracket(results, wc) ==
  LET clean == CleanWidths(results)
      low == LowWidths(results)
      top == Min({IF clean = {} THEN wc - 1 ELSE Min(clean), Widest(wc)})
      anchor == IF low = {} THEN Min(DOMAIN results) ELSE Max(low)
  IN  [top |-> top,
       bottom |-> Min({top, Max({MIN_WIDTH, anchor - BOTTOM_MARGIN})})]

\* Faulty: extends without looking at events.
ExtendAnyTop(results, wc) ==
  LET top == Max(DOMAIN results) IN IF top + 1 <= Widest(wc) THEN {top + 1} ELSE {}

\* The two extension rules on the complete 1k results: the widths to add.
ExtendTop(results, wc) ==
  LET top == Max(DOMAIN results)
  IN  IF results[top].event /\ top + 1 <= Widest(wc) THEN {top + 1} ELSE {}

ExtendBottom(results) ==
  LET bottom == Min(DOMAIN results)
      low == LowWidths(results)
  IN  IF bottom > MIN_WIDTH /\ (low = {} \/ Max(low) - bottom < BOTTOM_MARGIN)
      THEN {bottom - 1} ELSE {}

=============================================================================
