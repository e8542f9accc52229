------------------------ MODULE AccumulatorSweepProofs ------------------------
(* Proofs about the runners of the accumulator sweep for every set of cases *)
(* and policies, every --jobs and every bound: the limit of the lane, that  *)
(* no range is measured twice, the bracket that a complete case gives, the  *)
(* widths that the screen runner measures, and what the end of the location *)
(* runner says.                                                             *)
EXTENDS AccumulatorSweep, FiniteSetTheorems, TLAPS

\* One key at a time is between its checks and its launch, and only in a
\* runner that has been started and is up.
PoolShape ==
  /\ DOMAIN phase = Runners /\ DOMAIN chosen = Runners /\ DOMAIN ended = Runners
  /\ starts \in [Runners -> Nat]
  /\ IsFiniteSet(live)
  /\ \A r \in Runners :
       /\ IsFiniteSet(ended[r])
       /\ chosen[r] = {} \/ \E k : chosen[r] = {k}
       /\ phase[r] # "up" => chosen[r] = {}
       /\ starts[r] = 0 => phase[r] # "up"

LaneInv == PoolShape /\ LaneLimit

LEMMA TwoRunners == location \in Runners /\ screen \in Runners /\ location # screen
  BY DEF Runners, location, screen

LEMMA FewChosen ==
  ASSUME PoolShape, NEW r \in Runners
  PROVE  Cardinality(chosen[r]) \in {0, 1} /\ (phase[r] # "up" => Cardinality(chosen[r]) = 0)
  BY FS_EmptySet, FS_Singleton DEF PoolShape

\* The image of a finite set, and its size.
LEMMA JobsOfExits ==
  ASSUME NEW E, IsFiniteSet(E)
  PROVE  IsFiniteSet({e.job : e \in E})
<1>. DEFINE T == {e.job : e \in E}
            f == [e \in E |-> e.job]
<1>1. f \in Surjection(E, T)
  BY DEF Surjection
<1>. QED
  BY <1>1, FS_Surjection

\* A pool that is not full leaves a slot: what runs is its own or external.
LEMMA FullCountsAll ==
  ASSUME PoolShape, NEW r \in Runners, ~Full(r)
  PROVE  Cardinality(live) < Jobs
<1>. DEFINE own == {j \in live : j.owner = r}
<1>1. IsFiniteSet(own) /\ IsFiniteSet(External(r)) /\ IsFiniteSet(Own(r))
  <2>1. IsFiniteSet({e.job : e \in ended[r]})
    BY JobsOfExits DEF PoolShape
  <2>. QED
    BY <2>1, FS_Subset, FS_Union DEF PoolShape, External, Own
<1>2. Cardinality(own) <= Cardinality(Own(r))
  BY <1>1, FS_Subset DEF Own
<1>3. live = own \cup External(r) /\ own \cap External(r) = {}
  BY DEF External
<1>4. Cardinality(live) = Cardinality(own) + Cardinality(External(r))
  <2>1. Cardinality(live) = Cardinality(own) + Cardinality(External(r)) - Cardinality(own \cap External(r))
    BY <1>1, <1>3, FS_Union
  <2>2. Cardinality(own \cap External(r)) = 0
    BY <1>3, FS_EmptySet
  <2>3. Cardinality(own) \in Nat /\ Cardinality(External(r)) \in Nat
    BY <1>1, FS_CardinalityType
  <2>. QED
    BY <2>1, <2>2, <2>3
<1>. QED
  BY <1>1, <1>2, <1>4, FS_CardinalityType, JobsAssumption DEF Full

LEMMA LaneInitially == SweepInit => LaneInv
<1>. SUFFICES ASSUME SweepInit
     PROVE  LaneInv
  OBVIOUS
<1>1. PoolShape
  BY FS_EmptySet DEF SweepInit, PoolShape
<1>2. LaneLimit
  BY TwoRunners, FS_EmptySet, JobsAssumption DEF SweepInit, LaneLimit
<1>. QED
  BY <1>1, <1>2 DEF LaneInv

\* A step that starts no job and chooses no key.
LEMMA NotMore ==
  ASSUME LaneInv, PoolShape', Cardinality(live') <= Cardinality(live),
         \A r \in Runners : chosen'[r] = chosen[r] \/ chosen'[r] = {},
         \A r \in Runners : starts'[r] >= starts[r]
  PROVE  LaneInv'
<1>1. \A r \in Runners : Cardinality(chosen'[r]) <= Cardinality(chosen[r])
                         /\ Cardinality(chosen'[r]) \in Nat /\ Cardinality(chosen[r]) \in Nat
  BY FewChosen, FS_EmptySet DEF LaneInv
<1>2. Cardinality(live) \in Nat /\ Cardinality(live') \in Nat
  BY FS_CardinalityType DEF LaneInv, PoolShape
<1>3. (\A r \in Runners : starts[r] > 0) => \A r \in Runners : starts'[r] > 0
  BY DEF LaneInv, PoolShape
<1>. QED
  BY <1>1, <1>2, <1>3, TwoRunners, JobsAssumption DEF LaneInv, LaneLimit

LEMMA LaneKept == LaneInv /\ SweepNext => LaneInv'
<1>. SUFFICES ASSUME LaneInv, SweepNext
     PROVE  LaneInv'
  OBVIOUS
<1>0. PoolShape /\ LaneLimit
  BY DEF LaneInv
<1>nat. /\ Cardinality(live) \in Nat
        /\ \A r \in Runners : starts[r] \in Nat /\ starts[r] >= starts[r]
  BY <1>0, FS_CardinalityType DEF PoolShape
<1>1. ASSUME NEW r \in Runners, Launch(r)
      PROVE  LaneInv'
  <2>1. PICK k \in chosen[r] : \E j : live' = live \cup {j}
    BY <1>1 DEF Launch
  <2>2. PICK j : live' = live \cup {j}
    BY <2>1
  <2>3. /\ chosen' = [chosen EXCEPT ![r] = {}] /\ UNCHANGED <<phase, ended, starts>>
    BY <1>1 DEF Launch, bounds
  <2>4. IsFiniteSet(live') /\ Cardinality(live') <= Cardinality(live) + 1 /\ Cardinality(live') \in Nat
    <3>1. IsFiniteSet(live')
      BY <1>0, <2>2, FS_AddElement DEF PoolShape
    <3>2. Cardinality(live \cup {j}) = IF j \in live THEN Cardinality(live) ELSE Cardinality(live) + 1
      BY <1>0, FS_AddElement DEF PoolShape
    <3>. QED
      BY <1>nat, <2>2, <3>1, <3>2
  <2>5. PoolShape'
    BY <1>0, <2>3, <2>4 DEF PoolShape
  <2>6. Cardinality(chosen[r]) = 1 /\ Cardinality(chosen'[r]) = 0
    BY <1>0, <2>1, <2>3, FS_EmptySet, FS_Singleton DEF PoolShape
  <2>7. \A q \in Runners : q # r => Cardinality(chosen'[q]) = Cardinality(chosen[q])
    BY <1>0, <2>3 DEF PoolShape
  <2>8. \A q \in Runners : Cardinality(chosen[q]) \in {0, 1}
    BY <1>0, FewChosen
  <2>9. LaneLimit'
    BY <1>0, <1>nat, <2>3, <2>4, <2>6, <2>7, <2>8, TwoRunners, JobsAssumption DEF LaneLimit, Runners
  <2>. QED
    BY <2>5, <2>9 DEF LaneInv
<1>2. ASSUME NEW r \in Runners, Try(r)
      PROVE  LaneInv'
  <2>1. UNCHANGED <<phase, live, ended, starts>> /\ phase[r] = "up" /\ chosen[r] = {}
    BY <1>2 DEF Try, bounds
  <2>2. CASE UNCHANGED chosen
    BY <1>0, <2>1, <2>2 DEF LaneInv, PoolShape, LaneLimit
  <2>3. CASE ~Full(r) /\ \E k : chosen' = [chosen EXCEPT ![r] = {k}]
    <3>1. PoolShape'
      BY <1>0, <2>1, <2>3 DEF PoolShape
    <3>2. Cardinality(live) < Jobs
      BY <1>0, <2>3, FullCountsAll
    <3>3. \A q \in Runners : Cardinality(chosen'[q]) \in {0, 1}
                             /\ (starts[q] = 0 => Cardinality(chosen'[q]) = 0)
      <4>. SUFFICES ASSUME NEW q \in Runners
                    PROVE  Cardinality(chosen'[q]) \in {0, 1} /\ (starts[q] = 0 => Cardinality(chosen'[q]) = 0)
        OBVIOUS
      <4>1. chosen'[q] = {} \/ (starts[q] # 0 /\ \E k : chosen'[q] = {k})
        BY <2>1, <3>1 DEF PoolShape
      <4>2. CASE chosen'[q] = {}
        BY <4>2, FS_EmptySet
      <4>3. CASE starts[q] # 0 /\ \E k : chosen'[q] = {k}
        <5>1. PICK k : chosen'[q] = {k}
          BY <4>3
        <5>2. Cardinality(chosen'[q]) = 1
          BY <5>1, FS_Singleton
        <5>. QED
          BY <4>3, <5>2
      <4>. QED
        BY <4>1, <4>2, <4>3
    <3>4. \A q \in Runners : starts[q] > 0 \/ starts[q] = 0
      BY <1>nat
    <3>5. LaneLimit'
      BY <1>nat, <2>1, <3>2, <3>3, <3>4, TwoRunners, JobsAssumption DEF LaneLimit, Runners
    <3>. QED
      BY <3>1, <3>5 DEF LaneInv
  <2>. QED
    BY <1>2, <2>2, <2>3 DEF Try
<1>3. ASSUME NEW r \in Runners, Finish(r) \/ NextPass(r)
      PROVE  LaneInv'
  <2>1. /\ UNCHANGED <<live, starts>>
        /\ chosen' = [chosen EXCEPT ![r] = {}] /\ ended' = [ended EXCEPT ![r] = {}]
        /\ phase' = phase \/ phase' = [phase EXCEPT ![r] = "done"]
    BY <1>3 DEF Finish, NextPass, Forget, Fresh, bounds
  <2>2. PoolShape'
    BY <1>0, <2>1, FS_EmptySet DEF PoolShape
  <2>. QED
    BY <1>0, <1>nat, <2>1, <2>2, NotMore DEF PoolShape
<1>4. CASE VisitLocation \/ VisitScreen
  <2>1. UNCHANGED <<live, phase, chosen, ended, starts>>
    BY <1>4 DEF VisitLocation, VisitScreen, bounds
  <2>. QED
    BY <2>1 DEF LaneInv, PoolShape, LaneLimit
<1>5. ASSUME NEW r \in Runners, Start(r)
      PROVE  LaneInv'
  <2>1. /\ UNCHANGED <<live, ended>> /\ chosen' = [chosen EXCEPT ![r] = {}]
        /\ phase' = [phase EXCEPT ![r] = "up"] /\ starts' = [starts EXCEPT ![r] = @ + 1]
    BY <1>5 DEF Start, Fresh
  <2>2. starts' \in [Runners -> Nat] /\ \A q \in Runners : starts'[q] >= starts[q] /\ starts'[r] > 0
    BY <1>0, <2>1 DEF PoolShape
  <2>3. PoolShape'
    BY <1>0, <2>1, <2>2 DEF PoolShape
  <2>. QED
    BY <1>0, <1>nat, <2>1, <2>2, <2>3, NotMore DEF PoolShape
<1>6. ASSUME NEW r \in Runners, Kill(r)
      PROVE  LaneInv'
  <2>1. /\ starts' = starts /\ phase' = [phase EXCEPT ![r] = "down"]
        /\ chosen' = [chosen EXCEPT ![r] = {}] /\ ended' = [ended EXCEPT ![r] = {}]
        /\ live' = {[j EXCEPT !.owner = IF @ = r THEN nobody ELSE @] : j \in live}
    BY <1>6 DEF Kill, Forget, Fresh
  <2>2. IsFiniteSet(live') /\ Cardinality(live') <= Cardinality(live)
    <3>. DEFINE f == [j \in live |-> [j EXCEPT !.owner = IF @ = r THEN nobody ELSE @]]
    <3>1. f \in Surjection(live, live')
      BY <2>1 DEF Surjection
    <3>. QED
      BY <1>0, <3>1, FS_Surjection DEF PoolShape
  <2>3. PoolShape'
    BY <1>0, <2>1, <2>2, FS_EmptySet DEF PoolShape
  <2>. QED
    BY <1>0, <1>nat, <2>1, <2>2, <2>3, NotMore DEF PoolShape
<1>7. CASE Exit
  <2>1. PICK j \in live, ok \in BOOLEAN : Exited(j, ok)
    BY <1>7 DEF Exit, Seal, Fail
  <2>2. /\ live' = live \ {j} /\ UNCHANGED <<phase, chosen, starts>>
        /\ DOMAIN ended' = Runners
        /\ \A r \in Runners : ended'[r] = ended[r] \/ \E e : ended'[r] = ended[r] \cup {e}
    BY <2>1 DEF Exited, passVars
  <2>3. IsFiniteSet(live') /\ Cardinality(live') <= Cardinality(live)
    BY <1>0, <2>2, FS_Subset DEF PoolShape
  <2>4. \A r \in Runners : IsFiniteSet(ended'[r])
    BY <1>0, <2>2, FS_AddElement DEF PoolShape
  <2>5. PoolShape'
    BY <1>0, <2>2, <2>3, <2>4 DEF PoolShape
  <2>. QED
    BY <1>nat, <2>2, <2>3, <2>5, NotMore
<1>. QED
  BY <1>1, <1>2, <1>3, <1>4, <1>5, <1>6, <1>7 DEF SweepNext, Run

\* LaneLimit for every set of cases and policies, every --jobs, and any
\* number of kills and restarts: the check of a runner counts every live
\* job, and only the key of the other runner can be between check and launch.
THEOREM LaneIsLimited == SweepSpec => []LaneLimit
<1>1. LaneInv /\ [SweepNext]_sweepVars => LaneInv'
  <2>1. LaneInv /\ UNCHANGED sweepVars => LaneInv'
    BY DEF sweepVars, passVars, bounds, LaneInv, PoolShape, LaneLimit
  <2>. QED
    BY <2>1, LaneKept
<1>2. LaneInv => LaneLimit
  BY DEF LaneInv
<1>. QED
  BY <1>1, <1>2, LaneInitially, PTL DEF SweepSpec

-----------------------------------------------------------------------------
(* No range is measured twice *)

JobFields == {"case", "policy", "owner", "start", "stop"}

\* Whatever is live under a case and a policy with the end of a runner's range
\* is one process, and none while that runner is about to launch the key: the
\* check of the key saw every live job, and the other runner measures to
\* another end.
RangeInv ==
  /\ DOMAIN chosen = Runners
  /\ \A j \in live : JobFields \subseteq DOMAIN j
  /\ \A j, k \in live :
       <<j.case, j.policy, j.stop>> = <<k.case, k.policy, k.stop>> => j = k
  /\ \A r \in Runners : \A k \in chosen[r] : \A j \in live :
       <<j.case, j.policy>> = <<k.case, k.policy>> => j.stop # Stop(r)

LEMMA StopsDiffer ==
  ASSUME NEW q \in Runners, NEW r \in Runners, q # r
  PROVE  Stop(q) # Stop(r)
  BY DEF Stop, Runners, location, screen, LOCATION, SCREEN

\* A step after which fewer keys are chosen and what is live was live, under
\* another owner perhaps.
LEMMA NoNewRange ==
  ASSUME RangeInv, DOMAIN chosen' = Runners,
         \A r \in Runners : chosen'[r] \subseteq chosen[r],
         NEW before, \A j \in live' : before[j] \in live,
         \A j \in live' : JobFields \subseteq DOMAIN j,
         \A j \in live' : <<j.case, j.policy, j.stop>>
                            = <<before[j].case, before[j].policy, before[j].stop>>,
         \A j, k \in live' : before[j] = before[k] => j = k
  PROVE  RangeInv'
<1>1. ASSUME NEW j \in live', NEW k \in live',
             <<j.case, j.policy, j.stop>> = <<k.case, k.policy, k.stop>>
      PROVE  j = k
  <2>1. before[j] \in live /\ before[k] \in live
    OBVIOUS
  <2>2. before[j] = before[k]
    BY <1>1, <2>1 DEF RangeInv
  <2>. QED
    BY <2>2
<1>2. ASSUME NEW r \in Runners, NEW k \in chosen'[r], NEW j \in live',
             <<j.case, j.policy>> = <<k.case, k.policy>>
      PROVE  j.stop # Stop(r)
  <2>1. before[j] \in live /\ k \in chosen[r]
    OBVIOUS
  <2>2. <<before[j].case, before[j].policy>> = <<k.case, k.policy>> /\ before[j].stop = j.stop
    BY <1>2
  <2>. QED
    BY <2>1, <2>2 DEF RangeInv
<1>. QED
  BY <1>1, <1>2 DEF RangeInv, Stop

LEMMA RangeKept == RangeInv /\ SweepNext => RangeInv'
<1>. SUFFICES ASSUME RangeInv, SweepNext
     PROVE  RangeInv'
  OBVIOUS
<1>1. ASSUME NEW r \in Runners, Launch(r)
      PROVE  RangeInv'
  <2>1. chosen' = [chosen EXCEPT ![r] = {}]
    BY <1>1 DEF Launch
  <2>k. PICK k \in chosen[r] : \E s :
          live' = live \cup {[case |-> k.case, policy |-> k.policy, owner |-> r,
                              start |-> s, stop |-> Stop(r)]}
    BY <1>1 DEF Launch
  <2>2. PICK s : live' = live \cup {[case |-> k.case, policy |-> k.policy, owner |-> r,
                                     start |-> s, stop |-> Stop(r)]}
    BY <2>k
  <2>. DEFINE new == [case |-> k.case, policy |-> k.policy, owner |-> r, start |-> s, stop |-> Stop(r)]
  <2>3. /\ new.case = k.case /\ new.policy = k.policy /\ new.stop = Stop(r)
        /\ JobFields \subseteq DOMAIN new
    BY DEF JobFields
  <2>4. live' = live \cup {new}
    BY <2>2
  <2>. HIDE DEF new
  <2>5. \A j \in live : <<j.case, j.policy, j.stop>> # <<new.case, new.policy, new.stop>>
    BY <2>3 DEF RangeInv
  <2>6. ASSUME NEW q \in Runners, NEW i \in chosen'[q], NEW j \in live',
               <<j.case, j.policy>> = <<i.case, i.policy>>
        PROVE  j.stop # Stop(q)
    <3>1. q # r /\ i \in chosen[q]
      BY <2>1 DEF RangeInv
    <3>2. CASE j \in live
      BY <2>6, <3>1, <3>2 DEF RangeInv
    <3>3. CASE j = new
      BY <2>3, <3>1, <3>3, StopsDiffer
    <3>. QED
      BY <2>4, <3>2, <3>3
  <2>7. \A i, j \in live' : <<i.case, i.policy, i.stop>> = <<j.case, j.policy, j.stop>> => i = j
    BY <2>4, <2>5 DEF RangeInv
  <2>8. DOMAIN chosen' = Runners /\ \A j \in live' : JobFields \subseteq DOMAIN j
    BY <2>1, <2>3, <2>4 DEF RangeInv
  <2>. QED
    BY <2>6, <2>7, <2>8 DEF RangeInv, Stop
<1>2. ASSUME NEW r \in Runners, Try(r)
      PROVE  RangeInv'
  <2>1. live' = live
    BY <1>2 DEF Try
  <2>2. CASE chosen' = chosen
    BY <2>1, <2>2 DEF RangeInv, Stop
  <2>3. CASE \E k : chosen' = [chosen EXCEPT ![r] = {k}] /\ ~Busy(r, k)
    <3>1. PICK k : chosen' = [chosen EXCEPT ![r] = {k}] /\ ~Busy(r, k)
      BY <2>3
    <3>2. \A j \in live : ~(j.case = k.case /\ j.policy = k.policy)
      BY <3>1 DEF Busy, Own, External
    <3>3. \A q \in Runners : \A i \in chosen'[q] : i \in chosen[q] \/ i = k
      BY <3>1 DEF RangeInv
    <3>4. DOMAIN chosen' = Runners
      BY <3>1 DEF RangeInv
    <3>. QED
      BY <2>1, <3>2, <3>3, <3>4 DEF RangeInv, Stop
  <2>. QED
    BY <1>2, <2>2, <2>3 DEF Try, Urgent
<1>3. ASSUME NEW r \in Runners, Finish(r) \/ NextPass(r) \/ Start(r)
      PROVE  RangeInv'
  <2>1. live' = live /\ chosen' = [chosen EXCEPT ![r] = {}]
    BY <1>3 DEF Finish, NextPass, Start, Forget, Fresh
  <2>. QED
    BY <2>1 DEF RangeInv, Stop
<1>4. CASE VisitLocation \/ VisitScreen
  <2>1. live' = live /\ chosen' = chosen
    BY <1>4 DEF VisitLocation, VisitScreen
  <2>. QED
    BY <2>1 DEF RangeInv, Stop
<1>5. ASSUME NEW r \in Runners, Kill(r)
      PROVE  RangeInv'
  <2>. DEFINE heir(j) == [j EXCEPT !.owner = IF @ = r THEN nobody ELSE @]
  <2>1. chosen' = [chosen EXCEPT ![r] = {}] /\ live' = {heir(j) : j \in live}
    BY <1>5 DEF Kill, Forget, Fresh
  <2>2. ASSUME NEW j \in live
        PROVE  /\ DOMAIN heir(j) = DOMAIN j
               /\ heir(j).case = j.case /\ heir(j).policy = j.policy /\ heir(j).stop = j.stop
    BY DEF RangeInv, JobFields
  <2>. HIDE DEF heir
  <2>. DEFINE before == [j \in live' |-> CHOOSE i \in live : heir(i) = j]
  <2>3. ASSUME NEW j \in live'
        PROVE  before[j] \in live /\ heir(before[j]) = j
    BY <2>1
  <2>. HIDE DEF before
  <2>4. \A j \in live' : JobFields \subseteq DOMAIN j
    BY <2>2, <2>3 DEF RangeInv
  <2>5. \A j \in live' : <<j.case, j.policy, j.stop>>
                           = <<before[j].case, before[j].policy, before[j].stop>>
    BY <2>2, <2>3
  <2>6. DOMAIN chosen' = Runners /\ \A q \in Runners : chosen'[q] \subseteq chosen[q]
    BY <2>1 DEF RangeInv
  <2>7. \A j, k \in live' : before[j] = before[k] => j = k
    BY <2>3
  <2>. QED
    BY <2>3, <2>4, <2>5, <2>6, <2>7, NoNewRange
<1>6. CASE Exit
  <2>1. PICK j \in live, ok \in BOOLEAN : Exited(j, ok)
    BY <1>6 DEF Exit, Seal, Fail
  <2>2. live' = live \ {j} /\ chosen' = chosen
    BY <2>1 DEF Exited, passVars
  <2>. QED
    BY <2>2 DEF RangeInv, Stop
<1>. QED
  BY <1>1, <1>2, <1>3, <1>4, <1>5, <1>6 DEF SweepNext, Run

\* NoRangeTwice for every number of runners' starts and deaths: a (case,
\* policy) is measured to one end by one process, the orphans of dead runners
\* included, although the runner checks first and launches later.
THEOREM NoRangeIsMeasuredTwice == SweepSpec => []NoRangeTwice
<1>1. SweepInit => RangeInv
  BY DEF SweepInit, RangeInv
<1>2. RangeInv /\ [SweepNext]_sweepVars => RangeInv'
  <2>1. RangeInv /\ UNCHANGED sweepVars => RangeInv'
    BY DEF sweepVars, passVars, RangeInv, Stop
  <2>. QED
    BY <2>1, RangeKept
<1>3. RangeInv => NoRangeTwice
  BY DEF RangeInv, NoRangeTwice
<1>. QED
  BY <1>1, <1>2, <1>3, PTL DEF SweepSpec

-----------------------------------------------------------------------------
(* The bracket of a complete case *)

LEMMA LeastNat ==
  ASSUME NEW S \in SUBSET Nat, S # {}
  PROVE  \E x \in S : \A y \in S : x <= y
<1>1. PICK x \in S : \A y \in S : ~(<<y, x>> \in OpToRel(<, Nat))
  BY NatLessThanWellFounded, WFMin
<1>2. \A y \in S : ~(y < x)
  BY <1>1 DEF OpToRel
<1>. QED
  BY <1>2

LEMMA MinNat ==
  ASSUME NEW S \in SUBSET Nat, S # {}
  PROVE  Min(S) \in S /\ \A y \in S : Min(S) <= y
<1>1. \E x \in S : \A y \in S : x <= y
  BY LeastNat
<1>. QED
  BY <1>1 DEF Min

LEMMA MaxNat ==
  ASSUME NEW n \in Nat, NEW S \in SUBSET (0..n), S # {}
  PROVE  Max(S) \in S /\ \A y \in S : Max(S) >= y
<1>. DEFINE T == {n - x : x \in S}
<1>1. T \in SUBSET Nat /\ T # {}
  <2>1. \A x \in S : n - x \in Nat
    OBVIOUS
  <2>. QED
    BY <2>1
<1>2. PICK t \in T : \A y \in T : t <= y
  <2>. HIDE DEF T
  <2>. QED
    BY <1>1, LeastNat
<1>3. PICK x \in S : t = n - x
  BY <1>2
<1>4. \A y \in S : x >= y
  <2>. TAKE y \in S
  <2>1. n - x <= n - y
    BY <1>2, <1>3
  <2>. QED
    BY <2>1
<1>5. \E z \in S : \A y \in S : z >= y
  BY <1>4
<1>. QED
  BY <1>5 DEF Max

LEMMA LesserOf ==
  ASSUME NEW a \in Int, NEW b \in Int
  PROVE  Min({a, b}) = IF a <= b THEN a ELSE b
  BY DEF Min

LEMMA GreaterOf ==
  ASSUME NEW a \in Int, NEW b \in Int
  PROVE  Max({a, b}) = IF a <= b THEN b ELSE a
  BY DEF Max

\* Results of some admissible widths, when E is the widest width with an event
\* and L the widest at half.
Sees(results, wc, E, L) ==
  /\ DOMAIN results \in SUBSET (MIN_WIDTH..Widest(wc))
  /\ \A w \in DOMAIN results :
       results[w].event = (w <= E) /\ results[w].low = (w <= L)

\* The bracket that the transitions determine.
TopOf(wc, E) == IF E < Widest(wc) THEN E + 1 ELSE Widest(wc)
AnchorOf(wc, L) == IF L < Widest(wc) THEN L ELSE Widest(wc)
BracketOf(wc, E, L) ==
  [top |-> TopOf(wc, E),
   bottom |-> Min({TopOf(wc, E), Max({MIN_WIDTH, AnchorOf(wc, L) - BOTTOM_MARGIN})})]

LEMMA WidestIs == ASSUME NEW wc \in Nat PROVE Widest(wc) \in Int /\ Widest(wc) <= wc - 1 /\ Widest(wc) <= 63
                                             /\ (Widest(wc) = wc - 1 \/ Widest(wc) = 63)
  BY LesserOf DEF Widest, MAX_WIDTH

LEMMA CleanAndLow ==
  ASSUME NEW wc \in Nat, NEW E \in Int, NEW L \in Int, NEW results, Sees(results, wc, E, L)
  PROVE  /\ CleanWidths(results) = {w \in DOMAIN results : w > E}
         /\ LowWidths(results) = {w \in DOMAIN results : w <= L}
<1>. DEFINE D == DOMAIN results
<1>1. D \subseteq Nat
  BY WidestIs DEF Sees, MIN_WIDTH
<1>2. \A w \in D : results[w].event = (w <= E) /\ results[w].low = (w <= L)
  BY DEF Sees
<1>. HIDE DEF D
<1>3. ASSUME NEW w \in D
      PROVE  (\A v \in D : v >= w => ~results[v].event) <=> w > E
  <2>1. ASSUME w > E, NEW v \in D, v >= w
        PROVE  ~results[v].event
    <3>1. ~(v <= E)
      BY <1>1, <2>1
    <3>. QED
      BY <1>2, <3>1
  <2>2. ASSUME ~(w > E)
        PROVE  w >= w /\ results[w].event
    <3>1. (w <= E) = TRUE /\ w >= w
      BY <1>1, <2>2
    <3>2. results[w].event = (w <= E)
      BY <1>2
    <3>. QED
      BY <3>1, <3>2
  <2>. QED
    BY <2>1, <2>2
<1>. QED
  BY <1>2, <1>3 DEF CleanWidths, LowWidths, D

\* Results that hold both transitions determine the bracket.
LEMMA BracketFromTransitions ==
  ASSUME NEW wc \in Nat, NEW E \in Int, NEW L \in Int, NEW results, Sees(results, wc, E, L),
         E + 1 \in DOMAIN results \/ E >= Widest(wc),
         \/ AnchorOf(wc, L) \in DOMAIN results
         \/ /\ \A w \in DOMAIN results : w > L
            /\ \E w \in DOMAIN results : w - BOTTOM_MARGIN <= MIN_WIDTH
  PROVE  Bracket(results, wc) = BracketOf(wc, E, L)
<1>. DEFINE D == DOMAIN results
            clean == {w \in D : w > E}
            low == {w \in D : w <= L}
            N == Widest(wc)
<1>1. N \in Int /\ N <= wc - 1 /\ D \subseteq 2..N
  BY WidestIs DEF Sees, MIN_WIDTH
<1>2. CleanWidths(results) = clean /\ LowWidths(results) = low
  BY CleanAndLow
<1>. DEFINE edge == IF clean = {} THEN wc - 1 ELSE Min(clean)
            anchor == IF low = {} THEN Min(D) ELSE Max(low)
<1>3. Min({edge, N}) = TopOf(wc, E)
  <2>1. CASE clean = {}
    <3>1. E >= N
      BY <1>1, <2>1
    <3>2. Min({wc - 1, N}) = N
      BY <1>1, LesserOf
    <3>3. edge = wc - 1
      BY <2>1
    <3>4. TopOf(wc, E) = N
      BY <1>1, <3>1 DEF TopOf
    <3>. QED
      BY <3>2, <3>3, <3>4
  <2>2. CASE clean # {}
    <3>1. PICK m : m = Min(clean) /\ m \in clean /\ \A y \in clean : m <= y
      <4>1. clean \in SUBSET Nat
        BY <1>1
      <4>. HIDE DEF clean
      <4>. QED
        BY <2>2, <4>1, MinNat
    <3>2. E < N /\ m <= N /\ m \in Int
      BY <1>1, <3>1
    <3>3. E + 1 \in clean
      BY <1>1, <3>2
    <3>4. m = E + 1
      <4>1. m <= E + 1 /\ m > E
        BY <3>1, <3>3
      <4>. QED
        BY <3>2, <4>1
    <3>5. Min({m, N}) = m
      BY <1>1, <3>2, LesserOf
    <3>. QED
      BY <2>2, <3>1, <3>2, <3>4, <3>5 DEF TopOf
  <2>. QED
    BY <2>1, <2>2
<1>4. Max({2, anchor - 2}) = Max({2, AnchorOf(wc, L) - 2})
  <2>1. CASE AnchorOf(wc, L) \in D
    <3>1. AnchorOf(wc, L) \in low /\ \A w \in low : w <= AnchorOf(wc, L)
      BY <1>1, <2>1 DEF AnchorOf
    <3>2. Max(low) \in low /\ \A y \in low : Max(low) >= y
      <4>1. N \in Nat /\ low \in SUBSET (0..N) /\ low # {}
        BY <1>1, <3>1
      <4>. HIDE DEF low, N
      <4>. QED
        BY <4>1, MaxNat
    <3>3. Max(low) = AnchorOf(wc, L)
      <4>1. low \subseteq Int
        BY <1>1
      <4>. QED
        BY <3>1, <3>2, <4>1
    <3>. QED
      BY <3>1, <3>3
  <2>2. CASE AnchorOf(wc, L) \notin D
    <3>1. PICK w \in D : w - 2 <= 2 /\ \A v \in D : v > L
      BY <2>2 DEF MIN_WIDTH, BOTTOM_MARGIN
    <3>2. low = {}
      BY <1>1, <3>1
    <3>3. PICK m : m = Min(D) /\ m \in D /\ m <= w
      <4>1. D \in SUBSET Nat /\ D # {}
        BY <1>1, <3>1
      <4>. HIDE DEF D
      <4>. QED
        BY <3>1, <4>1, MinNat
    <3>4. m - 2 \in Int /\ m - 2 <= 2
      BY <1>1, <3>1, <3>3
    <3>5. AnchorOf(wc, L) - 2 \in Int /\ AnchorOf(wc, L) - 2 <= 2
      BY <1>1, <3>1 DEF AnchorOf
    <3>6. Max({2, m - 2}) = 2 /\ Max({2, AnchorOf(wc, L) - 2}) = 2
      BY <3>4, <3>5, GreaterOf
    <3>. QED
      BY <3>2, <3>3, <3>6
  <2>. QED
    BY <2>1, <2>2
<1>. HIDE DEF edge, anchor
<1>5. Bracket(results, wc) = [top |-> Min({edge, N}), bottom |-> Min({Min({edge, N}), Max({2, anchor - 2})})]
  BY <1>2 DEF Bracket, MIN_WIDTH, BOTTOM_MARGIN, edge, anchor
<1>. QED
  BY <1>3, <1>4, <1>5 DEF BracketOf, MIN_WIDTH, BOTTOM_MARGIN

\* What a complete case has measured decides both transitions.
LEMMA CompleteDecides ==
  ASSUME NEW wc \in Nat, NEW E \in Int, NEW L \in Int, L <= E,
         NEW results, Sees(results, wc, E, L), DOMAIN results # {},
         LadderDone(results) \/ Ladder(wc) \subseteq DOMAIN results,
         Refine(results, wc) = {},
         \E w \in Ladder(wc) : w - 1 <= E /\ (w <= L \/ w - BOTTOM_MARGIN <= MIN_WIDTH)
  PROVE  /\ E + 1 \in DOMAIN results \/ E >= Widest(wc)
         /\ \/ AnchorOf(wc, L) \in DOMAIN results
            \/ /\ \A w \in DOMAIN results : w > L
               /\ \E w \in DOMAIN results : w - BOTTOM_MARGIN <= MIN_WIDTH
<1>. DEFINE D == DOMAIN results
            clean == {w \in D : w > E}
            low == {w \in D : w <= L}
            N == Widest(wc)
<1>1. N \in Int /\ N <= wc - 1 /\ D \subseteq 2..N /\ D # {}
  BY WidestIs DEF Sees, MIN_WIDTH
<1>2. CleanWidths(results) = clean /\ LowWidths(results) = low
  BY CleanAndLow
<1>3. \A w \in BelowClean(results, wc) \cup AboveHalf(results) : 2 <= w /\ w < wc => w \in D
  BY DEF Refine, MIN_WIDTH
<1>4. PICK x : x = Max(D) /\ x \in D /\ \A y \in D : x >= y
  <2>1. N \in Nat /\ D \in SUBSET (0..N)
    BY <1>1
  <2>. HIDE DEF D, N
  <2>. QED
    BY <1>1, <2>1, MaxNat
<1>5. low # {} \/ Ladder(wc) \subseteq D
  BY <1>2 DEF LadderDone, LowWidths
<1>6. E + 1 \in D \/ E >= N
  <2>1. CASE clean = {}
    <3>1. \A w \in (x + 1)..N : w \in BelowClean(results, wc)
      BY <1>1, <1>2, <1>4, <2>1 DEF BelowClean
    <3>2. ~(x < N)
      <4>. SUFFICES ASSUME x < N PROVE FALSE
        OBVIOUS
      <4>1. x + 1 \in D
        BY <1>1, <1>3, <1>4, <3>1
      <4>. QED
        BY <1>1, <1>4, <4>1
    <3>. QED
      BY <1>1, <1>4, <2>1, <3>2
  <2>2. CASE clean # {}
    <3>1. PICK m : m = Min(clean) /\ m \in clean /\ \A y \in clean : m <= y
      <4>1. clean \in SUBSET Nat
        BY <1>1
      <4>. HIDE DEF clean
      <4>. QED
        BY <2>2, <4>1, MinNat
    <3>2. PICK b : b = Min(D) /\ b \in D /\ \A y \in D : b <= y
      <4>1. D \in SUBSET Nat
        BY <1>1
      <4>. HIDE DEF D
      <4>. QED
        BY <1>1, <4>1, MinNat
    <3>3. CASE m = b
      <4>1. low = {}
        BY <1>1, <3>1, <3>2, <3>3
      <4>2. PICK w \in D : w - 1 <= E
        BY <1>5, <4>1
      <4>3. m = E + 1
        BY <1>1, <3>1, <3>2, <3>3, <4>2
      <4>. QED
        BY <3>1, <4>3
    <3>4. CASE m # b
      <4>1. m - 1 \in BelowClean(results, wc)
        <5>1. BelowClean(results, wc) = (m - 3 + 1)..(m - 1)
          BY <1>2, <2>2, <3>1, <3>2, <3>4 DEF BelowClean, LADDER_STEP
        <5>. QED
          BY <1>1, <3>1, <5>1
      <4>2. m - 1 \in D
        BY <1>1, <1>3, <3>1, <3>2, <3>4, <4>1
      <4>3. m = E + 1
        <5>1. m \in Int /\ m > E
          BY <1>1, <3>1
        <5>2. m - 1 \notin clean
          <6>1. \A y \in clean : m <= y
            BY <3>1
          <6>2. ~(m <= m - 1)
            BY <5>1
          <6>. HIDE DEF clean
          <6>. QED
            BY <6>1, <6>2
        <5>3. ~(m - 1 > E)
          BY <4>2, <5>2
        <5>. QED
          BY <5>1, <5>3
      <4>. QED
        BY <3>1, <4>3
    <3>. QED
      BY <3>3, <3>4
  <2>. QED
    BY <2>1, <2>2
<1>7. CASE low = {}
  <2>1. PICK w \in D : w <= L \/ w - 2 <= 2
    BY <1>5, <1>7 DEF BOTTOM_MARGIN, MIN_WIDTH
  <2>2. \A v \in D : v > L
    BY <1>1, <1>7
  <2>3. w - 2 <= 2
    BY <1>1, <2>1, <2>2
  <2>. QED
    BY <1>6, <2>2, <2>3 DEF BOTTOM_MARGIN, MIN_WIDTH
<1>8. CASE low # {}
  <2>1. PICK h : h = Max(low) /\ h \in low /\ \A y \in low : h >= y
    <3>1. N \in Nat /\ low \in SUBSET (0..N)
      BY <1>1
    <3>. HIDE DEF low, N
    <3>. QED
      BY <1>8, <3>1, MaxNat
  <2>2. h \in D /\ h \in Int /\ h <= N /\ h <= L
    BY <1>1, <2>1
  <2>3. CASE h = x
    <3>1. E >= N
      <4>1. E + 1 \notin D
        BY <1>4, <2>2, <2>3
      <4>. QED
        BY <1>6, <4>1
    <3>2. clean = {}
      BY <1>1, <3>1
    <3>3. ~(x < N)
      <4>. SUFFICES ASSUME x < N PROVE FALSE
        OBVIOUS
      <4>1. x + 1 \in BelowClean(results, wc)
        BY <1>1, <1>2, <1>4, <3>2 DEF BelowClean
      <4>2. x + 1 \in D
        BY <1>1, <1>3, <1>4, <4>1
      <4>. QED
        BY <1>1, <1>4, <4>2
    <3>4. AnchorOf(wc, L) = x
      BY <1>1, <1>4, <2>2, <2>3, <3>3 DEF AnchorOf
    <3>. QED
      BY <1>4, <1>6, <3>4
  <2>4. CASE h # x
    <3>1. h + 1 <= x /\ x \in Int /\ x <= N
      BY <1>1, <1>4, <2>2, <2>4
    <3>2. h + 1 \in AboveHalf(results)
      <4>1. AboveHalf(results) = (h + 1)..(h + 3 - 1)
        BY <1>2, <1>4, <1>8, <2>1, <2>4 DEF AboveHalf, LADDER_STEP
      <4>. QED
        BY <2>2, <4>1
    <3>3. h + 1 \in D
      BY <1>1, <1>3, <2>1, <2>2, <3>1, <3>2
    <3>4. L < h + 1
      <4>1. h + 1 \notin low
        <5>1. \A y \in low : h >= y
          BY <2>1
        <5>2. ~(h >= h + 1)
          BY <2>2
        <5>. HIDE DEF low
        <5>. QED
          BY <5>1, <5>2
      <4>. QED
        BY <2>2, <3>3, <4>1
    <3>5. AnchorOf(wc, L) = h
      BY <1>1, <2>2, <3>1, <3>4 DEF AnchorOf
    <3>. QED
      BY <1>6, <2>2, <3>5
  <2>. QED
    BY <2>3, <2>4
<1>. QED
  BY <1>7, <1>8

\* The first 128 images are covered by one file.
LEMMA CoversLocation ==
  ASSUME NEW F \in SUBSET Ranges
  PROVE  Covering(F, 0, LOCATION) <=> <<0, LOCATION>> \in F
<1>. DEFINE P == {0, LOCATION, SCREEN}
            options(at) == {f \in F : f[1] = at /\ f[2] <= LOCATION}
            IsFrom(f) == f = [at \in P |-> at = LOCATION \/ (options(at) # {} /\ f[Max({g[2] : g \in options(at)})])]
            from == CHOOSE f : IsFrom(f)
            whole == [at \in P |-> at = LOCATION \/ (at = 0 /\ <<0, LOCATION>> \in F)]
<1>1. \A f \in F : f = <<0, LOCATION>> \/ f = <<0, SCREEN>> \/ f = <<LOCATION, SCREEN>>
  BY DEF Ranges
<1>2. options(0) = {f \in F : f = <<0, LOCATION>>}
  BY <1>1 DEF LOCATION, SCREEN
<1>3. options(SCREEN) = {}
  BY <1>1 DEF LOCATION, SCREEN
<1>4. options(0) # {} <=> <<0, LOCATION>> \in F
  <2>. HIDE DEF options
  <2>. QED
    BY <1>2
<1>5. options(0) # {} => Max({g[2] : g \in options(0)}) = LOCATION
  <2>. SUFFICES ASSUME options(0) # {} PROVE Max({g[2] : g \in options(0)}) = LOCATION
    OBVIOUS
  <2>1. options(0) = {<<0, LOCATION>>}
    <3>. HIDE DEF options
    <3>. QED
      BY <1>2
  <2>. HIDE DEF options
  <2>2. {g[2] : g \in options(0)} = {LOCATION}
    BY <2>1
  <2>3. Max({LOCATION}) = LOCATION
    BY DEF Max, LOCATION
  <2>. QED
    BY <2>2, <2>3
<1>. HIDE DEF options
<1>6. IsFrom(whole)
  <2>1. ASSUME NEW at \in P
        PROVE  whole[at] = (at = LOCATION \/ (options(at) # {} /\ whole[Max({g[2] : g \in options(at)})]))
    <3>1. CASE at = LOCATION
      BY <3>1
    <3>2. CASE at = SCREEN
      BY <1>3, <3>2 DEF LOCATION, SCREEN
    <3>3. CASE at = 0
      <4>1. whole[LOCATION] = TRUE
        OBVIOUS
      <4>2. whole[0] = (<<0, LOCATION>> \in F)
        BY DEF LOCATION
      <4>. HIDE DEF whole
      <4>. QED
        BY <1>4, <1>5, <3>3, <4>1, <4>2 DEF LOCATION
    <3>. QED
      BY <3>1, <3>2, <3>3
  <2>. QED
    BY <2>1
<1>7. IsFrom(from)
  <2>. HIDE DEF IsFrom, whole
  <2>. QED
    BY <1>6
<1>8. from[0] <=> <<0, LOCATION>> \in F
  <2>1. ~(0 = LOCATION) /\ 0 \in P /\ LOCATION \in P
    BY DEF LOCATION
  <2>. HIDE DEF from
  <2>2. from[LOCATION] = TRUE
    BY <1>7, <2>1
  <2>3. from[0] = (options(0) # {} /\ from[Max({g[2] : g \in options(0)})])
    BY <1>7, <2>1
  <2>. QED
    BY <1>4, <1>5, <2>2, <2>3
<1>. QED
  BY <1>8 DEF Covering, options

LEMMA NothingCovers == ~Covering({}, 0, LOCATION)
  BY CoversLocation

\* What a location pass reads: the truth does not change, and no file is sealed
\* for a register that predict refuses.
PlanInv ==
  /\ truth \in [Cases -> Truths]
  /\ DOMAIN files = Cases /\ \A c \in Cases : DOMAIN files[c] = Policies(c)
  /\ \A c \in Cases : \A w \in Widths(c) : w > MAX_WIDTH => files[c][w] = {}

LEMMA PlanKept == PlanInv /\ [SweepNext]_sweepVars => PlanInv'
<1>. SUFFICES ASSUME PlanInv, [SweepNext]_sweepVars
     PROVE  PlanInv'
  OBVIOUS
<1>1. CASE UNCHANGED <<truth, files>>
  BY <1>1 DEF PlanInv, Widths, Policies
<1>2. ASSUME NEW j \in live, Seal(j)
      PROVE  PlanInv'
  <2>1. truth' = truth /\ files' = [files EXCEPT ![j.case][j.policy] = @ \cup {<<j.start, j.stop>>}]
        /\ Accepted(j)
    BY <1>2 DEF Seal, Exited
  <2>2. DOMAIN files' = Cases /\ \A c \in Cases : DOMAIN files'[c] = Policies(c)
    BY <2>1 DEF PlanInv
  <2>3. ASSUME NEW c \in Cases, NEW w \in Widths(c), w > MAX_WIDTH
        PROVE  files'[c][w] = {}
    <3>1. ~(j.case = c /\ j.policy = w)
      <4>1. ~(w <= MAX_WIDTH)
        BY <2>3, WCertAssumption DEF Widths, MIN_WIDTH, MAX_WIDTH
      <4>. QED
        BY <2>1, <4>1 DEF Accepted
    <3>2. w \in Policies(c)
      BY DEF Policies
    <3>. QED
      BY <2>1, <2>3, <3>1, <3>2 DEF PlanInv
  <2>. QED
    BY <2>1, <2>2, <2>3 DEF PlanInv, Widths, Policies
<1>. QED
  BY <1>1, <1>2 DEF SweepNext, Run, Launch, Try, Finish, NextPass, VisitLocation, VisitScreen,
                    Start, Kill, Exit, Fail, Exited, sweepVars

LEMMA Transitions ==
  ASSUME PlanInv, NEW c \in Cases
  PROVE  /\ WCert[c] \in Nat
         /\ truth[c].event[LOCATION] \in Int /\ truth[c].low[LOCATION] \in Int
         /\ truth[c].event[SCREEN] \in Int /\ truth[c].low[SCREEN] \in Int
         /\ truth[c].low[LOCATION] <= truth[c].event[LOCATION]
         /\ truth[c].event[LOCATION] <= truth[c].event[SCREEN]
         /\ truth[c].low[SCREEN] <= truth[c].event[SCREEN]
<1>1. PICK t \in Truths : t = truth[c]
  BY DEF PlanInv
<1>2. /\ t.event[LOCATION] <= t.event[SCREEN]
      /\ t.event[LOCATION] \in Int /\ t.low[LOCATION] \in Int /\ t.low[LOCATION] <= t.event[LOCATION]
      /\ t.event[SCREEN] \in Int /\ t.low[SCREEN] \in Int /\ t.low[SCREEN] <= t.event[SCREEN]
  BY TruthsAssumption DEF TruthsAssumption
<1>3. WCert[c] \in Nat
  BY WCertAssumption
<1>. QED
  BY <1>1, <1>2, <1>3

\* What is measured is admissible, and is what the transitions say.
LEMMA MeasuredSees ==
  ASSUME PlanInv, NEW c \in Cases
  PROVE  Sees(Measured(c), WCert[c], truth[c].event[LOCATION], truth[c].low[LOCATION])
<1>. DEFINE D == {v \in Widths(c) : Covered(c, v, LOCATION)}
<1>1. Measured(c) = [w \in D |-> Result(c, w, LOCATION)]
  BY DEF Measured
<1>2. ASSUME NEW v \in D
      PROVE  v \in MIN_WIDTH..Widest(WCert[c])
  <2>1. v \in Widths(c) /\ files[c][v] # {}
    BY NothingCovers DEF Covered
  <2>2. v \in MIN_WIDTH..(WCert[c] - 1) /\ ~(v > MAX_WIDTH)
    BY <2>1 DEF PlanInv, Widths
  <2>. QED
    BY <2>2, WidestIs, Transitions DEF MIN_WIDTH, MAX_WIDTH
<1>. HIDE DEF D
<1>3. DOMAIN Measured(c) = D /\ D \in SUBSET (MIN_WIDTH..Widest(WCert[c]))
  BY <1>1, <1>2
<1>4. ASSUME NEW w \in D
      PROVE  /\ Measured(c)[w].event = (w <= truth[c].event[LOCATION])
             /\ Measured(c)[w].low = (w <= truth[c].low[LOCATION])
  BY <1>1 DEF Result
<1>. QED
  BY <1>3, <1>4 DEF Sees

LEMMA ExhaustiveSees ==
  ASSUME PlanInv, NEW c \in Cases
  PROVE  /\ Sees(Exhaustive(c), WCert[c], truth[c].event[LOCATION], truth[c].low[LOCATION])
         /\ DOMAIN Exhaustive(c) = 2..Widest(WCert[c])
<1>1. DOMAIN Exhaustive(c) = MIN_WIDTH..Widest(WCert[c])
  BY DEF Exhaustive
<1>2. ASSUME NEW w \in MIN_WIDTH..Widest(WCert[c])
      PROVE  /\ Exhaustive(c)[w].event = (w <= truth[c].event[LOCATION])
             /\ Exhaustive(c)[w].low = (w <= truth[c].low[LOCATION])
  BY DEF Exhaustive, Result
<1>. QED
  BY <1>1, <1>2 DEF Sees, MIN_WIDTH

\* A case within reach of its ladder: what all widths give.
LEMMA ExhaustiveBracket ==
  ASSUME PlanInv, NEW c \in Cases, WithinReach(c)
  PROVE  Bracket(Exhaustive(c), WCert[c])
           = BracketOf(WCert[c], truth[c].event[LOCATION], truth[c].low[LOCATION])
<1>. PICK E, L, wc, N : /\ E = truth[c].event[LOCATION] /\ L = truth[c].low[LOCATION]
                        /\ wc = WCert[c] /\ N = Widest(wc)
  OBVIOUS
<1>1. E \in Int /\ L \in Int /\ wc \in Nat /\ N \in Int /\ N <= 63 /\ N <= wc - 1
  BY Transitions, WidestIs
<1>2. PICK w \in Ladder(wc) : w - 1 <= E
  BY DEF WithinReach
<1>3. w \in Int /\ 2 <= w /\ w <= N
  <2>1. w \in MIN_WIDTH..Min({wc - 2, MAX_WIDTH})
    BY DEF Ladder
  <2>2. w \in Int /\ 2 <= w /\ w <= wc - 2 /\ w <= 63
    <3>1. Min({wc - 2, 63}) = IF wc - 2 <= 63 THEN wc - 2 ELSE 63
      <4>1. wc - 2 \in Int
        BY <1>1
      <4>. QED
        BY <4>1, LesserOf
    <3>. QED
      BY <1>1, <2>1, <3>1 DEF MIN_WIDTH, MAX_WIDTH
  <2>. QED
    BY <1>1, <2>2, WidestIs
<1>4. E + 1 \in 2..N \/ E >= N
  BY <1>1, <1>2, <1>3
<1>5. AnchorOf(wc, L) \in 2..N \/ ((\A v \in 2..N : v > L) /\ \E v \in 2..N : v - 2 <= 2)
  <2>1. CASE L >= 2
    BY <1>1, <1>3, <2>1 DEF AnchorOf
  <2>2. CASE L < 2
    <3>1. 2 \in 2..N /\ 2 - 2 <= 2
      BY <1>1, <1>3
    <3>. QED
      BY <1>1, <2>2, <3>1
  <2>. QED
    BY <1>1, <2>1, <2>2
<1>. QED
  <2>1. PICK results : results = Exhaustive(c)
    OBVIOUS
  <2>2. Sees(results, wc, E, L) /\ DOMAIN results = 2..N
    BY <2>1, ExhaustiveSees
  <2>3. Bracket(results, wc) = BracketOf(wc, E, L)
    <3>1. E + 1 \in DOMAIN results \/ E >= Widest(wc)
      BY <1>4, <2>2
    <3>2. \/ AnchorOf(wc, L) \in DOMAIN results
          \/ /\ \A v \in DOMAIN results : v > L
             /\ \E v \in DOMAIN results : v - BOTTOM_MARGIN <= MIN_WIDTH
      BY <1>5, <2>2 DEF MIN_WIDTH, BOTTOM_MARGIN
    <3>3. Sees(results, wc, E, L)
      BY <2>2
    <3>4. E \in Int /\ L \in Int /\ wc \in Nat
      BY <1>1
    <3>. QED
      BY ONLY <3>1, <3>2, <3>3, <3>4, BracketFromTransitions
  <2>. QED
    BY <2>1, <2>3

LEMMA CompleteBracket ==
  ASSUME PlanInv, NEW c \in Cases, LocationComplete(c), WithinReach(c)
  PROVE  Bracket(Measured(c), WCert[c])
           = BracketOf(WCert[c], truth[c].event[LOCATION], truth[c].low[LOCATION])
<1>. PICK E, L, wc, results :
       /\ E = truth[c].event[LOCATION] /\ L = truth[c].low[LOCATION]
       /\ wc = WCert[c] /\ results = Measured(c)
  OBVIOUS
<1>1. E \in Int /\ L \in Int /\ wc \in Nat /\ L <= E
  BY Transitions
<1>2. Sees(results, wc, E, L)
  BY MeasuredSees
<1>3. /\ DOMAIN results # {} /\ Refine(results, wc) = {}
      /\ LadderDone(results) \/ Ladder(wc) \subseteq DOMAIN results
  BY DEF LocationComplete, LadderOver
<1>4. \E w \in Ladder(wc) : w - 1 <= E /\ (w <= L \/ w - BOTTOM_MARGIN <= MIN_WIDTH)
  BY DEF WithinReach
<1>5. /\ E + 1 \in DOMAIN results \/ E >= Widest(wc)
      /\ \/ AnchorOf(wc, L) \in DOMAIN results
         \/ /\ \A w \in DOMAIN results : w > L
            /\ \E w \in DOMAIN results : w - BOTTOM_MARGIN <= MIN_WIDTH
  BY <1>1, <1>2, <1>3, <1>4, CompleteDecides
<1>6. Bracket(results, wc) = BracketOf(wc, E, L)
  BY <1>1, <1>2, <1>5, BracketFromTransitions
<1>. QED
  BY <1>6

LEMMA PlanInitially == SweepInit => PlanInv
  BY DEF SweepInit, PlanInv, Policies

\* BracketIsExact for every W_cert, every place of the two transitions and
\* every set of measured widths: the ladder and its refinement find the
\* bracket that measuring all widths would find.
THEOREM LadderFindsBracket == SweepSpec => []BracketIsExact
<1>1. PlanInv => BracketIsExact
  BY ExhaustiveBracket, CompleteBracket DEF BracketIsExact
<1>. QED
  BY <1>1, PlanInitially, PlanKept, PTL DEF SweepSpec

-----------------------------------------------------------------------------
(* The widths of the screen runner *)

Exact(c) == BracketOf(WCert[c], truth[c].event[LOCATION], truth[c].low[LOCATION])

Near(c, w) ==
  /\ w <= Exact(c).top \/ w <= truth[c].event[SCREEN] + 1
  /\ w >= Exact(c).bottom \/ w >= truth[c].low[SCREEN] - BOTTOM_MARGIN

ExactWidths(c) == Exact(c).bottom..Exact(c).top

\* What the screen runner added keeps the widths of a case contiguous, and
\* every width that it added, queued, checked or launched is near the bracket.
CaseNear(c) ==
  /\ \E lo, hi \in Int : ExactWidths(c) \cup extra[c] = lo..hi
  /\ \A w \in extra[c] : Near(c, w)
  /\ \A w \in Swept(c) :
       /\ \A k \in attempt[screen] \cup chosen[screen] : <<k.case, k.policy>> = <<c, w>> => Near(c, w)
       /\ \A j \in live : <<j.case, j.policy, j.stop>> = <<c, w, SCREEN>> => Near(c, w)

ScreenInv ==
  /\ DOMAIN extra = Cases /\ DOMAIN attempt = Runners
  /\ \A c \in Cases : WithinReach(c) => CaseNear(c)

\* The bracket has room for two widths below its top, or starts at 2 bits.
LEMMA ExactShape ==
  ASSUME PlanInv, NEW c \in Cases, WithinReach(c)
  PROVE  /\ Exact(c).top \in Int /\ Exact(c).bottom \in Int
         /\ 2 <= Exact(c).bottom /\ Exact(c).bottom <= Exact(c).top /\ Exact(c).top <= Widest(WCert[c])
         /\ Exact(c).bottom = 2 \/ Exact(c).bottom + 2 <= Exact(c).top
<1>. PICK E, L, wc, N : /\ E = truth[c].event[LOCATION] /\ L = truth[c].low[LOCATION]
                        /\ wc = WCert[c] /\ N = Widest(wc)
  OBVIOUS
<1>1. E \in Int /\ L \in Int /\ L <= E /\ wc \in Nat /\ N \in Int /\ N <= 63 /\ N <= wc - 1
  BY Transitions, WidestIs
<1>2. PICK w \in Ladder(wc) : w - 1 <= E
  BY DEF WithinReach
<1>3. w \in Int /\ 2 <= w /\ w <= N
  <2>1. w \in MIN_WIDTH..Min({wc - 2, MAX_WIDTH})
    BY DEF Ladder
  <2>2. Min({wc - 2, 63}) = IF wc - 2 <= 63 THEN wc - 2 ELSE 63
    <3>1. wc - 2 \in Int
      BY <1>1
    <3>. QED
      BY <3>1, LesserOf
  <2>3. w \in Int /\ 2 <= w /\ w <= wc - 2 /\ w <= 63
    BY <1>1, <2>1, <2>2 DEF MIN_WIDTH, MAX_WIDTH
  <2>. QED
    BY <1>1, <2>3, WidestIs
<1>. PICK T, A, B : T = TopOf(wc, E) /\ A = AnchorOf(wc, L) /\ B = Max({2, A - 2})
  OBVIOUS
<1>4. T \in Int /\ 2 <= T /\ T <= N /\ A \in Int /\ A <= T
  BY <1>1, <1>2, <1>3 DEF TopOf, AnchorOf
<1>5. B = IF 2 <= A - 2 THEN A - 2 ELSE 2
  <2>1. A - 2 \in Int
    BY <1>4
  <2>. QED
    BY <2>1, GreaterOf
<1>6. Min({T, B}) = IF T <= B THEN T ELSE B
  <2>1. T \in Int /\ B \in Int
    BY <1>4, <1>5
  <2>. QED
    BY ONLY <2>1, LesserOf
<1>7. Exact(c).top = T /\ Exact(c).bottom = Min({T, B})
  BY DEF Exact, BracketOf, MIN_WIDTH, BOTTOM_MARGIN
<1>8. PICK b : b = Min({T, B})
  OBVIOUS
<1>9. b = IF T <= B THEN T ELSE B
  BY <1>6, <1>8
<1>10. b \in Int /\ 2 <= b /\ b <= T /\ (b = 2 \/ b + 2 <= T)
  BY ONLY <1>4, <1>5, <1>9
<1>. QED
  BY <1>4, <1>7, <1>8, <1>10

\* What the extension rules add to contiguous widths around the bracket.
LEMMA ExtensionsNear ==
  ASSUME PlanInv, NEW c \in Cases, WithinReach(c), LocationComplete(c), CaseNear(c)
  PROVE  /\ \E lo, hi \in Int : ExactWidths(c) \cup (extra[c] \cup Extensions(c)) = lo..hi
         /\ \A w \in Extensions(c) : Near(c, w)
<1>. PICK b, t, e, l : /\ b = Exact(c).bottom /\ t = Exact(c).top
                       /\ e = truth[c].event[SCREEN] /\ l = truth[c].low[SCREEN]
  OBVIOUS
<1>1. /\ b \in Int /\ t \in Int /\ 2 <= b /\ b <= t /\ (b = 2 \/ b + 2 <= t)
      /\ e \in Int /\ l \in Int
  BY ExactShape, Transitions
<1>2. BracketWidths(c) = (b..t) \cup extra[c]
  BY CompleteBracket DEF BracketWidths, Exact
<1>3. PICK lo \in Int, hi \in Int : (b..t) \cup extra[c] = lo..hi
  BY DEF CaseNear, ExactWidths
<1>. DEFINE BW == lo..hi
            results == [w \in BW |-> Result(c, w, SCREEN)]
<1>4. lo <= b /\ t <= hi
  <2>1. b \in lo..hi /\ t \in lo..hi
    BY <1>1, <1>3
  <2>. QED
    BY <1>1, <2>1
<1>5. Max(BW) = hi /\ Min(BW) = lo
  <2>1. \E x \in BW : \A y \in BW : x >= y
    BY <1>1, <1>4
  <2>2. \E x \in BW : \A y \in BW : x <= y
    BY <1>1, <1>4
  <2>3. Max(BW) \in BW /\ \A y \in BW : Max(BW) >= y
    BY <2>1 DEF Max
  <2>4. Min(BW) \in BW /\ \A y \in BW : Min(BW) <= y
    BY <2>2 DEF Min
  <2>5. hi \in BW /\ lo \in BW
    BY <1>1, <1>4
  <2>6. ASSUME NEW x \in BW, x >= hi PROVE x = hi
    BY <2>6
  <2>7. ASSUME NEW x \in BW, x <= lo PROVE x = lo
    BY <2>7
  <2>. HIDE DEF BW
  <2>. QED
    BY <2>3, <2>4, <2>5, <2>6, <2>7
<1>6. Extensions(c) \subseteq ExtendTop(results, WCert[c]) \cup ExtendBottom(results)
  BY <1>2, <1>3 DEF Extensions
<1>7. DOMAIN results = BW /\ \A w \in BW : results[w].event = (w <= e) /\ results[w].low = (w <= l)
  BY DEF Result
<1>. HIDE DEF results
<1>8. ASSUME NEW w \in ExtendTop(results, WCert[c])
      PROVE  w = hi + 1 /\ Near(c, w)
  <2>1. w = hi + 1 /\ results[hi].event
    BY <1>5, <1>7, <1>8 DEF ExtendTop
  <2>2. hi <= e
    <3>1. hi \in BW
      BY <1>1, <1>4
    <3>. HIDE DEF BW
    <3>. QED
      BY <1>7, <2>1, <3>1
  <2>. QED
    BY <1>1, <1>4, <2>1, <2>2 DEF Near
<1>9. ASSUME NEW w \in ExtendBottom(results)
      PROVE  w = lo - 1 /\ Near(c, w)
  <2>. DEFINE low == {v \in BW : v <= l}
  <2>1. LowWidths(results) = low
    BY <1>7 DEF LowWidths
  <2>2. w = lo - 1 /\ lo > 2 /\ (low = {} \/ Max(low) - lo < 2)
    BY <1>5, <1>7, <1>9, <2>1 DEF ExtendBottom, MIN_WIDTH, BOTTOM_MARGIN
  <2>3. CASE low = {}
    <3>1. lo > l
      BY <1>1, <1>4, <2>3
    <3>2. w >= l - 2
      BY <1>1, <2>2, <3>1
    <3>. QED
      BY <1>1, <1>4, <2>2, <3>2 DEF Near, BOTTOM_MARGIN
  <2>4. CASE low # {}
    <3>1. PICK m : m = Max(low) /\ m \in low /\ \A y \in low : m >= y
      <4>1. hi \in Nat /\ low \in SUBSET (0..hi)
        BY <1>1, <1>4, <2>2
      <4>. HIDE DEF low
      <4>. QED
        BY <2>4, <4>1, MaxNat
    <3>2. m \in Int /\ lo <= m /\ m <= hi /\ m <= l /\ m - lo < 2
      <4>1. m \in BW /\ m <= l
        BY <3>1
      <4>2. m - lo < 2
        BY <2>2, <2>4, <3>1
      <4>. QED
        BY <4>1, <4>2
    <3>3. CASE m = l
      BY <1>1, <1>4, <2>2, <3>2, <3>3 DEF Near, BOTTOM_MARGIN
    <3>4. CASE m < l
      <4>1. m + 1 \notin low
        <5>1. \A y \in low : m >= y
          BY <3>1
        <5>2. ~(m >= m + 1)
          BY <3>2
        <5>. HIDE DEF low
        <5>. QED
          BY <5>1, <5>2
      <4>2. m = hi
        BY <1>1, <3>2, <3>4, <4>1
      <4>. QED
        BY <1>1, <1>4, <2>2, <3>2, <4>2
    <3>. QED
      BY <1>1, <3>2, <3>3, <3>4
  <2>. QED
    BY <2>2, <2>3, <2>4
<1>10. \A w \in Extensions(c) : Near(c, w)
  BY <1>6, <1>8, <1>9
<1>11. \E x, y \in Int : (lo..hi) \cup Extensions(c) = x..y
  <2>1. PICK X : X = Extensions(c) /\ X \subseteq {hi + 1, lo - 1}
    BY <1>6, <1>8, <1>9
  <2>2. PICK x, y : /\ x = IF lo - 1 \in X THEN lo - 1 ELSE lo
                    /\ y = IF hi + 1 \in X THEN hi + 1 ELSE hi
    OBVIOUS
  <2>3. x \in Int /\ y \in Int
    BY <2>2
  <2>4. (lo..hi) \cup X = x..y
    BY <1>1, <1>4, <2>1, <2>2
  <2>. QED
    BY <2>1, <2>3, <2>4
<1>12. ExactWidths(c) \cup (extra[c] \cup Extensions(c)) = (lo..hi) \cup Extensions(c)
  BY <1>3 DEF ExactWidths
<1>. QED
  BY <1>10, <1>11, <1>12

\* What is near stays near.
LEMMA NearIsFixed ==
  ASSUME truth' = truth, NEW c
  PROVE  /\ WithinReach(c)' <=> WithinReach(c)
         /\ ExactWidths(c)' = ExactWidths(c)
         /\ \A w : Near(c, w)' <=> Near(c, w)
<1>1. Exact(c)' = Exact(c)
  BY DEF Exact
<1>2. WithinReach(c)' <=> WithinReach(c)
  BY DEF WithinReach
<1>3. ExactWidths(c)' = ExactWidths(c)
  BY <1>1 DEF ExactWidths
<1>4. \A w : Near(c, w)' <=> Near(c, w)
  BY <1>1 DEF Near
<1>. QED
  BY <1>2, <1>3, <1>4

\* A step that queues nothing new for the screen runner: what it launches went
\* through its checks, and its memory is kept or gone.
LEMMA NothingAsked ==
  ASSUME PlanInv, ScreenInv, truth' = truth, DOMAIN attempt' = Runners,
         extra' = extra \/ extra' = [c \in Cases |-> {}],
         attempt'[screen] \cup chosen'[screen] \subseteq attempt[screen] \cup chosen[screen],
         \A j \in live' : j.stop = SCREEN =>
           \/ \E i \in live : <<i.case, i.policy, i.stop>> = <<j.case, j.policy, j.stop>>
           \/ \E k \in chosen[screen] : <<k.case, k.policy>> = <<j.case, j.policy>>
  PROVE  ScreenInv'
<1>1. DOMAIN extra' = Cases
  BY DEF ScreenInv
<1>2. ASSUME NEW c \in Cases, WithinReach(c)'
      PROVE  CaseNear(c)'
  <2>1. WithinReach(c) /\ CaseNear(c)
    BY <1>2, NearIsFixed DEF ScreenInv
  <2>2. ExactWidths(c)' = ExactWidths(c) /\ \A w : Near(c, w)' <=> Near(c, w)
    BY NearIsFixed
  <2>3. \E lo, hi \in Int : ExactWidths(c)' \cup extra'[c] = lo..hi
    <3>1. CASE extra' = extra
      BY <2>1, <2>2, <3>1 DEF CaseNear
    <3>2. CASE extra' = [d \in Cases |-> {}]
      <4>1. Exact(c).bottom \in Int /\ Exact(c).top \in Int
        BY <2>1, ExactShape
      <4>2. ExactWidths(c)' \cup extra'[c] = Exact(c).bottom..Exact(c).top
        BY <2>2, <3>2 DEF ExactWidths
      <4>. QED
        BY <4>1, <4>2
    <3>. QED
      BY <3>1, <3>2
  <2>4. \A w \in extra'[c] : Near(c, w)
    BY <2>1 DEF CaseNear
  <2>5. ASSUME NEW w \in Swept(c), NEW k \in attempt'[screen] \cup chosen'[screen],
               <<k.case, k.policy>> = <<c, w>>
        PROVE  Near(c, w)
    BY <2>1, <2>5 DEF CaseNear
  <2>6. ASSUME NEW w \in Swept(c), NEW j \in live', <<j.case, j.policy, j.stop>> = <<c, w, SCREEN>>
        PROVE  Near(c, w)
    BY <2>1, <2>6 DEF CaseNear
  <2>. QED
    BY <2>2, <2>3, <2>4, <2>5, <2>6 DEF CaseNear, Swept, Widths
<1>. QED
  BY <1>1, <1>2 DEF ScreenInv

\* The widths of a case join the queue, and the extension rules are applied.
LEMMA QueueKept ==
  ASSUME PlanInv, ScreenInv, VisitScreen, NEW d, QueueCase(d)
  PROVE  ScreenInv'
<1>1. /\ truth' = truth /\ live' = live /\ chosen' = chosen
      /\ extra' = [extra EXCEPT ![d] = @ \cup Extensions(d)]
      /\ LocationComplete(d)
  BY DEF VisitScreen, QueueCase
<1>2. \E queue \in SUBSET Grid(d) : attempt' = [attempt EXCEPT ![screen] = @ \cup queue]
  <2>1. {k \in Grid(d) : PrefixEnd(d, k.policy, SCREEN) < SCREEN} \in SUBSET Grid(d)
    OBVIOUS
  <2>. QED
    BY <2>1 DEF QueueCase
<1>3. PICK queue \in SUBSET Grid(d) : attempt' = [attempt EXCEPT ![screen] = @ \cup queue]
  BY <1>2
<1>4. /\ DOMAIN extra' = Cases /\ DOMAIN attempt' = Runners
      /\ attempt'[screen] = attempt[screen] \cup queue
  BY <1>1, <1>3, TwoRunners DEF ScreenInv
<1>5. ASSUME NEW c \in Cases, WithinReach(c)'
      PROVE  CaseNear(c)'
  <2>1. WithinReach(c) /\ CaseNear(c)
    BY <1>1, <1>5, NearIsFixed DEF ScreenInv
  <2>2. ExactWidths(c)' = ExactWidths(c) /\ \A w : Near(c, w)' <=> Near(c, w)
    BY <1>1, NearIsFixed
  <2>3. /\ \E lo, hi \in Int : ExactWidths(c) \cup extra'[c] = lo..hi
        /\ \A w \in extra'[c] : Near(c, w)
    <3>1. CASE c # d
      <4>1. extra'[c] = extra[c]
        BY <1>1, <3>1 DEF ScreenInv
      <4>. QED
        BY <2>1, <4>1 DEF CaseNear
    <3>2. CASE c = d
      <4>1. extra'[c] = extra[c] \cup Extensions(c)
        BY <1>1, <3>2 DEF ScreenInv
      <4>2. LocationComplete(c)
        BY <1>1, <3>2
      <4>3. \E lo, hi \in Int : ExactWidths(c) \cup (extra[c] \cup Extensions(c)) = lo..hi
        BY <2>1, <4>2, ExtensionsNear
      <4>4. \A w \in extra[c] \cup Extensions(c) : Near(c, w)
        BY <2>1, <4>2, ExtensionsNear DEF CaseNear
      <4>. QED
        BY <4>1, <4>3, <4>4
    <3>. QED
      BY <3>1, <3>2
  <2>4. ASSUME NEW w \in Swept(c), NEW k \in queue, <<k.case, k.policy>> = <<c, w>>
        PROVE  Near(c, w)
    <3>1. k \in Grid(d)
      OBVIOUS
    <3>2. k.case = d /\ k.policy \in BracketWidths(d) \cup {Wide} \cup {o[1] : o \in Others[d]}
      BY <3>1 DEF Grid, Key
    <3>3. c = d /\ w \in BracketWidths(c)
      BY <2>4, <3>2 DEF Swept
    <3>4. BracketWidths(c) = ExactWidths(c) \cup extra[c]
      BY <1>1, <2>1, <3>3, CompleteBracket DEF BracketWidths, Exact, ExactWidths
    <3>5. CASE w \in extra[c]
      BY <2>1, <3>5 DEF CaseNear
    <3>6. CASE w \in ExactWidths(c)
      BY <2>1, <3>6, ExactShape DEF ExactWidths, Near
    <3>. QED
      BY <3>3, <3>4, <3>5, <3>6
  <2>5. ASSUME NEW w \in Swept(c), NEW k \in attempt'[screen] \cup chosen'[screen],
               <<k.case, k.policy>> = <<c, w>>
        PROVE  Near(c, w)
    <3>1. k \in queue \/ k \in attempt[screen] \cup chosen[screen]
      BY <1>1, <1>4
    <3>. QED
      BY <2>1, <2>4, <2>5, <3>1 DEF CaseNear
  <2>6. ASSUME NEW w \in Swept(c), NEW j \in live', <<j.case, j.policy, j.stop>> = <<c, w, SCREEN>>
        PROVE  Near(c, w)
    BY <1>1, <2>1, <2>6 DEF CaseNear
  <2>. QED
    BY <2>2, <2>3, <2>5, <2>6 DEF CaseNear, Swept, Widths
<1>. QED
  BY <1>4, <1>5 DEF ScreenInv

LEMMA ScreenKept == PlanInv /\ RangeInv /\ ScreenInv /\ SweepNext => ScreenInv'
<1>. SUFFICES ASSUME PlanInv, RangeInv, ScreenInv, SweepNext
     PROVE  ScreenInv'
  OBVIOUS
<1>0. DOMAIN attempt = Runners /\ DOMAIN chosen = Runners /\ screen \in Runners
  BY TwoRunners DEF ScreenInv, RangeInv
<1>1. ASSUME NEW r \in Runners, Launch(r)
      PROVE  ScreenInv'
  <2>1. /\ UNCHANGED <<truth, attempt, extra>> /\ chosen' = [chosen EXCEPT ![r] = {}]
    BY <1>1 DEF Launch
  <2>k. PICK k \in chosen[r] : \E s :
          live' = live \cup {[case |-> k.case, policy |-> k.policy, owner |-> r,
                              start |-> s, stop |-> Stop(r)]}
    BY <1>1 DEF Launch
  <2>2. PICK s : live' = live \cup {[case |-> k.case, policy |-> k.policy, owner |-> r,
                                     start |-> s, stop |-> Stop(r)]}
    BY <2>k
  <2>3. ASSUME NEW j \in live', j \notin live
        PROVE  <<k.case, k.policy>> = <<j.case, j.policy>> /\ j.stop = Stop(r)
    BY <2>2, <2>3
  <2>4. r # screen => Stop(r) # SCREEN
    BY DEF Stop, Runners, LOCATION, SCREEN
  <2>5. ASSUME NEW j \in live', j.stop = SCREEN
        PROVE  \/ \E i \in live : <<i.case, i.policy, i.stop>> = <<j.case, j.policy, j.stop>>
               \/ \E i \in chosen[screen] : <<i.case, i.policy>> = <<j.case, j.policy>>
    <3>1. CASE j \in live
      BY <3>1
    <3>2. CASE j \notin live
      BY <2>3, <2>4, <2>5, <3>2
    <3>. QED
      BY <3>1, <3>2
  <2>6. attempt'[screen] \cup chosen'[screen] \subseteq attempt[screen] \cup chosen[screen]
    BY <1>0, <2>1
  <2>. QED
    BY <1>0, <2>1, <2>5, <2>6, NothingAsked
<1>2. ASSUME NEW r \in Runners, Try(r)
      PROVE  ScreenInv'
  <2>1. UNCHANGED <<truth, live, extra>>
    BY <1>2 DEF Try
  <2>2. \E A \in SUBSET attempt[r] : attempt' = [attempt EXCEPT ![r] = A]
    <3>. DEFINE idle == {k \in attempt[r] : ~Busy(r, k) /\ ~Failed(r, k.case, k.policy)}
    <3>1. \A k : (IF r = location /\ descend THEN {} ELSE idle \ {k}) \in SUBSET attempt[r]
      OBVIOUS
    <3>. QED
      BY <1>2, <3>1 DEF Try
  <2>3. chosen' = chosen \/ \E k \in attempt[r] : chosen' = [chosen EXCEPT ![r] = {k}]
    BY <1>2 DEF Try, Urgent
  <2>4. DOMAIN attempt' = Runners
    BY <1>0, <2>2
  <2>5. attempt'[screen] \subseteq attempt[screen]
    BY <1>0, <2>2
  <2>6. chosen'[screen] \subseteq attempt[screen] \cup chosen[screen]
    BY <1>0, <2>3
  <2>. QED
    BY <2>1, <2>4, <2>5, <2>6, NothingAsked
<1>3. ASSUME NEW r \in Runners, Finish(r) \/ NextPass(r) \/ Start(r)
      PROVE  ScreenInv'
  <2>1. /\ truth' = truth /\ live' = live
        /\ chosen' = [chosen EXCEPT ![r] = {}] /\ attempt' = [attempt EXCEPT ![r] = {}]
    BY <1>3 DEF Finish, NextPass, Start, Forget, Fresh
  <2>2. extra' = extra \/ extra' = [c \in Cases |-> {}]
    BY <1>3 DEF Finish, NextPass, Start, Forget
  <2>3. /\ DOMAIN attempt' = Runners
        /\ attempt'[screen] \cup chosen'[screen] \subseteq attempt[screen] \cup chosen[screen]
    BY <1>0, <2>1
  <2>. QED
    BY <2>1, <2>2, <2>3, NothingAsked
<1>4. CASE VisitLocation
  <2>1. UNCHANGED <<truth, live, chosen, extra>> /\ \E A : attempt' = [attempt EXCEPT ![location] = A]
    BY <1>4 DEF VisitLocation
  <2>2. DOMAIN attempt' = Runners /\ attempt'[screen] = attempt[screen]
    BY <1>0, <2>1, TwoRunners
  <2>. QED
    BY <2>1, <2>2, NothingAsked
<1>5. CASE VisitScreen
  <2>1. ASSUME NEW d, SkipCase(d)
        PROVE  ScreenInv'
    <3>1. UNCHANGED <<truth, live, chosen, extra, attempt>>
      BY <1>5, <2>1 DEF VisitScreen, SkipCase
    <3>. QED
      BY <1>0, <3>1, NothingAsked
  <2>. QED
    BY <1>5, <2>1, QueueKept DEF VisitScreen
<1>6. ASSUME NEW r \in Runners, Kill(r)
      PROVE  ScreenInv'
  <2>1. /\ truth' = truth
        /\ chosen' = [chosen EXCEPT ![r] = {}] /\ attempt' = [attempt EXCEPT ![r] = {}]
        /\ live' = {[j EXCEPT !.owner = IF @ = r THEN nobody ELSE @] : j \in live}
    BY <1>6 DEF Kill, Forget, Fresh
  <2>2. extra' = extra \/ extra' = [c \in Cases |-> {}]
    BY <1>6 DEF Kill, Forget
  <2>3. ASSUME NEW j \in live'
        PROVE  \E i \in live : <<i.case, i.policy, i.stop>> = <<j.case, j.policy, j.stop>>
    <3>1. PICK i \in live : j = [i EXCEPT !.owner = IF @ = r THEN nobody ELSE @]
      BY <2>1
    <3>2. j.case = i.case /\ j.policy = i.policy /\ j.stop = i.stop
      BY <3>1 DEF RangeInv, JobFields
    <3>. QED
      BY <3>2
  <2>4. /\ DOMAIN attempt' = Runners
        /\ attempt'[screen] \cup chosen'[screen] \subseteq attempt[screen] \cup chosen[screen]
    BY <1>0, <2>1
  <2>. QED
    BY <2>1, <2>2, <2>3, <2>4, NothingAsked
<1>7. CASE Exit
  <2>1. PICK j \in live, ok \in BOOLEAN : Exited(j, ok)
    BY <1>7 DEF Exit, Seal, Fail
  <2>2. UNCHANGED <<truth, chosen, attempt, extra>> /\ live' \subseteq live
    BY <2>1 DEF Exited, passVars
  <2>. QED
    BY <1>0, <2>2, NothingAsked
<1>. QED
  BY <1>1, <1>2, <1>3, <1>4, <1>5, <1>6, <1>7 DEF SweepNext, Run

LEMMA ScreenInitially == SweepInit => ScreenInv
<1>. SUFFICES ASSUME SweepInit
     PROVE  ScreenInv
  OBVIOUS
<1>1. PlanInv
  BY PlanInitially
<1>2. /\ extra = [c \in Cases |-> {}] /\ attempt = [r \in Runners |-> {}]
      /\ live = {} /\ chosen[screen] = {} /\ attempt[screen] = {}
  BY TwoRunners DEF SweepInit
<1>3. ASSUME NEW c \in Cases, WithinReach(c)
      PROVE  \E lo, hi \in Int : ExactWidths(c) \cup extra[c] = lo..hi
  <2>1. Exact(c).bottom \in Int /\ Exact(c).top \in Int
    BY <1>1, <1>3, ExactShape
  <2>2. ExactWidths(c) \cup extra[c] = Exact(c).bottom..Exact(c).top
    BY <1>2 DEF ExactWidths
  <2>. QED
    BY <2>1, <2>2
<1>. QED
  BY <1>2, <1>3 DEF ScreenInv, CaseNear

\* ScreenStaysInBracket for every W_cert and every place of the transitions:
\* a screen runner that reads the files while location jobs are landing never
\* measures a width that the bracket of all widths, or an extension of it,
\* would not ask for.
THEOREM ScreenIsBounded == SweepSpec => []ScreenStaysInBracket
<1>. DEFINE Inv == PlanInv /\ RangeInv /\ ScreenInv
<1>1. SweepInit => Inv
  <2>1. SweepInit => RangeInv
    BY DEF SweepInit, RangeInv
  <2>. QED
    BY <2>1, PlanInitially, ScreenInitially
<1>2. Inv /\ [SweepNext]_sweepVars => Inv'
  <2>1. Inv /\ SweepNext => Inv'
    BY PlanKept, RangeKept, ScreenKept
  <2>2. Inv /\ UNCHANGED sweepVars => Inv'
    <3>. SUFFICES ASSUME Inv, UNCHANGED sweepVars
         PROVE  Inv'
      OBVIOUS
    <3>1. PlanInv'
      BY PlanKept
    <3>2. RangeInv'
      BY DEF sweepVars, passVars, RangeInv, Stop
    <3>3. UNCHANGED <<truth, live, attempt, chosen, extra>>
      BY DEF sweepVars, passVars
    <3>4. ScreenInv'
      BY <3>3, NothingAsked DEF ScreenInv
    <3>. QED
      BY <3>1, <3>2, <3>4
  <2>. QED
    BY <2>1, <2>2
<1>3. Inv => ScreenStaysInBracket
  <2>. SUFFICES ASSUME Inv, NEW c \in Cases, NEW w \in Swept(c), WithinReach(c),
                       \E j \in live : <<j.case, j.policy, j.stop>> = <<c, w, SCREEN>>
       PROVE  /\ w <= Bracket(Exhaustive(c), WCert[c]).top \/ w <= truth[c].event[SCREEN] + 1
              /\ w >= Bracket(Exhaustive(c), WCert[c]).bottom
                 \/ w >= truth[c].low[SCREEN] - BOTTOM_MARGIN
    BY DEF ScreenStaysInBracket
  <2>1. Near(c, w)
    BY DEF ScreenInv, CaseNear
  <2>2. Bracket(Exhaustive(c), WCert[c]) = Exact(c)
    BY ExhaustiveBracket DEF Exact
  <2>. QED
    BY <2>1, <2>2 DEF Near
<1>. QED
  BY <1>1, <1>2, <1>3, PTL DEF SweepSpec

-----------------------------------------------------------------------------
(* What the refinement asks for *)

\* Next to each transition that two measured widths D enclose, or above all of
\* them when all have events.
AskedAbove(D, wc, E, w) ==
  \/ \E u \in D : /\ u > E /\ \A y \in D : y > E => u <= y
                 /\ \E b \in D : b <= E
                 /\ u - 2 <= w /\ w <= u - 1
  \/ /\ D # {} /\ \A y \in D : y <= E /\ y < w
     /\ w <= Widest(wc)

AskedBelow(D, L, w) ==
  \E b \in D : /\ b <= L /\ \A y \in D : y <= L => y <= b
               /\ \E y \in D : y > L
               /\ b + 1 <= w /\ w <= b + 2

LEMMA BelowCleanIs ==
  ASSUME NEW wc \in Nat, NEW E \in Int, NEW L \in Int, NEW results, Sees(results, wc, E, L),
         NEW w
  PROVE  w \in BelowClean(results, wc) <=> w \in Int /\ AskedAbove(DOMAIN results, wc, E, w)
<1>. DEFINE D == DOMAIN results
            clean == {x \in D : x > E}
            N == Widest(wc)
<1>1. N \in Int /\ D \subseteq 2..N
  BY WidestIs DEF Sees, MIN_WIDTH
<1>2. CleanWidths(results) = clean
  BY CleanAndLow
<1>3. CASE D = {}
  <2>1. clean = {}
    BY <1>3
  <2>2. BelowClean(results, wc) = {}
    BY <1>2, <1>3, <2>1 DEF BelowClean
  <2>. QED
    BY <1>3, <2>2 DEF AskedAbove
<1>4. CASE D # {} /\ clean = {}
  <2>1. PICK x : x = Max(D) /\ x \in D /\ \A y \in D : x >= y
    <3>1. N \in Nat /\ D \in SUBSET (0..N)
      BY <1>1, <1>4
    <3>. HIDE DEF D, N
    <3>. QED
      BY <1>4, <3>1, MaxNat
  <2>2. BelowClean(results, wc) = (x + 1)..N
    BY <1>2, <1>4, <2>1 DEF BelowClean
  <2>3. \A y \in D : y <= E /\ ~(y > E)
    BY <1>1, <1>4
  <2>4. w \in Int => ((\A y \in D : y < w) <=> x + 1 <= w)
    <3>1. x \in Int /\ D \subseteq Int
      BY <1>1, <2>1
    <3>. HIDE DEF D
    <3>. QED
      BY <2>1, <3>1
  <2>5. x \in Int
    BY <1>1, <2>1
  <2>. HIDE DEF D, clean
  <2>6. AskedAbove(D, wc, E, w) <=> (\A y \in D : y < w) /\ w <= N
    BY <1>4, <2>3 DEF AskedAbove
  <2>. QED
    BY <1>1, <2>2, <2>4, <2>5, <2>6 DEF D
<1>5. CASE clean # {}
  <2>1. PICK m : m = Min(clean) /\ m \in clean /\ \A y \in clean : m <= y
    <3>1. clean \in SUBSET Nat
      BY <1>1
    <3>. HIDE DEF clean
    <3>. QED
      BY <1>5, <3>1, MinNat
  <2>2. PICK b : b = Min(D) /\ b \in D /\ \A y \in D : b <= y
    <3>1. D \in SUBSET Nat /\ D # {}
      BY <1>1, <1>5
    <3>. HIDE DEF D
    <3>. QED
      BY <3>1, MinNat
  <2>3. BelowClean(results, wc) = IF m = b THEN {} ELSE (m - 2)..(m - 1)
    <3>1. BelowClean(results, wc) = IF m = b THEN {} ELSE (m - 3 + 1)..(m - 1)
      BY <1>2, <1>5, <2>1, <2>2 DEF BelowClean, LADDER_STEP
    <3>2. m \in Int
      BY <1>1, <2>1
    <3>3. m - 3 + 1 = m - 2
      BY <3>2
    <3>. QED
      BY <3>1, <3>3
  <2>4. m \in D /\ m > E /\ m \in Int /\ b \in Int
    BY <1>1, <2>1, <2>2
  <2>5. \A y \in D : y \in Int /\ (y > E => m <= y)
    BY <1>1, <2>1
  <2>6. (m # b) <=> \E y \in D : y <= E
    <3>. HIDE DEF D, clean
    <3>1. ASSUME m # b PROVE b <= E
      BY <2>2, <2>4, <2>5, <3>1
    <3>2. ASSUME NEW y \in D, y <= E PROVE m # b
      BY <2>2, <2>4, <2>5, <3>2
    <3>. QED
      BY <2>2, <3>1, <3>2
  <2>7. AskedAbove(D, wc, E, w) <=> (\E y \in D : y <= E) /\ m - 2 <= w /\ w <= m - 1
    <3>. HIDE DEF D, clean
    <3>1. ASSUME NEW u \in D, u > E, \A y \in D : y > E => u <= y
          PROVE  u = m
      BY <2>4, <2>5, <3>1
    <3>2. \A y \in D : y > E => m <= y
      BY <2>5
    <3>3. ~(m <= E)
      BY <2>4
    <3>. QED
      BY <2>4, <3>1, <3>2, <3>3 DEF AskedAbove
  <2>8. w \in BelowClean(results, wc) <=> w \in Int /\ m # b /\ m - 2 <= w /\ w <= m - 1
    BY <2>3, <2>4
  <2>. QED
    BY <2>6, <2>7, <2>8 DEF D
<1>. QED
  BY <1>3, <1>4, <1>5

LEMMA AboveHalfIs ==
  ASSUME NEW wc \in Nat, NEW E \in Int, NEW L \in Int, NEW results, Sees(results, wc, E, L),
         NEW w
  PROVE  w \in AboveHalf(results) <=> w \in Int /\ AskedBelow(DOMAIN results, L, w)
<1>. DEFINE D == DOMAIN results
            low == {x \in D : x <= L}
            N == Widest(wc)
<1>1. N \in Int /\ D \subseteq 2..N
  BY WidestIs DEF Sees, MIN_WIDTH
<1>2. LowWidths(results) = low
  BY CleanAndLow
<1>3. CASE low = {}
  <2>1. AboveHalf(results) = {}
    BY <1>2, <1>3 DEF AboveHalf
  <2>. QED
    BY <1>3, <2>1 DEF AskedBelow
<1>4. CASE low # {}
  <2>0. N \in Nat /\ D \in SUBSET (0..N) /\ low \in SUBSET (0..N) /\ D # {}
    BY <1>1, <1>4
  <2>1. PICK m : m = Max(low) /\ m \in low /\ \A y \in low : m >= y
    <3>. HIDE DEF low, N
    <3>. QED
      BY <1>4, <2>0, MaxNat
  <2>2. PICK x : x = Max(D) /\ x \in D /\ \A y \in D : x >= y
    <3>. HIDE DEF D, N
    <3>. QED
      BY <2>0, MaxNat
  <2>3. AboveHalf(results) = IF m = x THEN {} ELSE (m + 1)..(m + 2)
    <3>1. AboveHalf(results) = IF m = x THEN {} ELSE (m + 1)..(m + 3 - 1)
      BY <1>2, <1>4, <2>1, <2>2 DEF AboveHalf, LADDER_STEP
    <3>2. m \in Int
      BY <1>1, <2>1
    <3>3. m + 3 - 1 = m + 2
      BY <3>2
    <3>. QED
      BY <3>1, <3>3
  <2>4. m \in D /\ m <= L /\ m \in Int /\ x \in Int
    BY <1>1, <2>1, <2>2
  <2>5. \A y \in D : y \in Int /\ (y <= L => y <= m)
    BY <1>1, <2>1
  <2>6. (m # x) <=> \E y \in D : y > L
    <3>. HIDE DEF D, low
    <3>1. ASSUME m # x PROVE x > L
      BY <2>2, <2>4, <2>5, <3>1
    <3>2. ASSUME NEW y \in D, y > L PROVE m # x
      BY <2>2, <2>4, <2>5, <3>2
    <3>. QED
      BY <2>2, <3>1, <3>2
  <2>7. AskedBelow(D, L, w) <=> (\E y \in D : y > L) /\ m + 1 <= w /\ w <= m + 2
    <3>. HIDE DEF D, low
    <3>1. ASSUME NEW b \in D, b <= L, \A y \in D : y <= L => y <= b
          PROVE  b = m
      BY <2>4, <2>5, <3>1
    <3>2. \A y \in D : y <= L => y <= m
      BY <2>5
    <3>. QED
      BY <2>4, <3>1, <3>2 DEF AskedBelow
  <2>8. w \in AboveHalf(results) <=> w \in Int /\ m # x /\ m + 1 <= w /\ w <= m + 2
    BY <2>3, <2>4
  <2>. QED
    BY <2>6, <2>7, <2>8 DEF D
<1>. QED
  BY <1>3, <1>4

LEMMA RefineIs ==
  ASSUME NEW wc \in Nat, NEW E \in Int, NEW L \in Int, NEW results, Sees(results, wc, E, L)
  PROVE  \A w : w \in Refine(results, wc) <=>
           /\ w \in Int /\ w \notin DOMAIN results /\ 2 <= w /\ w < wc
           /\ AskedAbove(DOMAIN results, wc, E, w) \/ AskedBelow(DOMAIN results, L, w)
<1>. TAKE w
<1>1. w \in BelowClean(results, wc) <=> w \in Int /\ AskedAbove(DOMAIN results, wc, E, w)
  BY BelowCleanIs
<1>2. w \in AboveHalf(results) <=> w \in Int /\ AskedBelow(DOMAIN results, L, w)
  BY AboveHalfIs
<1>. QED
  BY <1>1, <1>2 DEF Refine, MIN_WIDTH

\* Why the location runner measures a width, given the widths D that are
\* measured: a rung, or next to a transition between two of them.
Asked(D, wc, E, L, w) ==
  \/ w \in Ladder(wc)
  \/ /\ \E v \in D : v <= E
     /\ \/ w > L
        \/ w >= E - 1 /\ \E v \in D : v > E
        \/ \E v \in D : v <= L

LEMMA RefineAsks ==
  ASSUME NEW wc \in Nat, NEW E \in Int, NEW L \in Int, L <= E,
         NEW results, Sees(results, wc, E, L), NEW w \in Refine(results, wc)
  PROVE  Asked(DOMAIN results, wc, E, L, w)
<1>. DEFINE D == DOMAIN results
<1>1. \A v \in D : v \in Int
  BY WidestIs DEF Sees, MIN_WIDTH
<1>2. w \in Int /\ (AskedAbove(D, wc, E, w) \/ AskedBelow(D, L, w))
  BY RefineIs
<1>. HIDE DEF D
<1>3. CASE \E u \in D : u > E /\ (\E b \in D : b <= E) /\ u - 2 <= w
  BY <1>1, <1>2, <1>3 DEF Asked, D
<1>4. CASE D # {} /\ \A y \in D : y <= E /\ y < w
  <2>1. PICK v \in D : v <= E /\ v < w
    BY <1>4
  <2>2. w > L \/ v <= L
    BY <1>1, <1>2, <2>1
  <2>. QED
    BY <2>1, <2>2 DEF Asked, D
<1>5. CASE \E b \in D : b <= L
  BY <1>1, <1>5 DEF Asked, D
<1>. QED
  BY <1>2, <1>3, <1>4, <1>5 DEF AskedAbove, AskedBelow

LEMMA BetweenIsNat ==
  ASSUME NEW n \in Int, NEW D \in SUBSET (2..n)
  PROVE  \A y \in D : y \in Nat /\ 2 <= y /\ y <= n
OBVIOUS

LEMMA LeastAbove ==
  ASSUME NEW n \in Int, NEW D \in SUBSET (2..n), NEW E \in Int, NEW x \in D, x > E
  PROVE  \E m \in D : m > E /\ \A y \in D : y > E => m <= y
<1>. DEFINE above == {y \in D : y > E}
<1>0. \A y \in D : y \in Nat
  BY BetweenIsNat
<1>1. above \in SUBSET Nat /\ x \in above
  BY ONLY <1>0, x \in D, x > E
<1>. HIDE DEF above
<1>2. PICK m \in above : \A z \in above : m <= z
  BY <1>1, LeastNat
<1>. QED
  BY <1>2 DEF above

IsGreatest(m, D, L) == m \in D /\ m <= L /\ \A y \in D : y <= L => y <= m

LEMMA GreatestBelow ==
  ASSUME NEW n \in Int, NEW D \in SUBSET (2..n), NEW L \in Int, NEW h \in D, h <= L
  PROVE  \E m : IsGreatest(m, D, L)
<1>. DEFINE low == {y \in D : y <= L}
<1>0. \A y \in D : y \in Nat /\ 2 <= y /\ y <= n
  BY BetweenIsNat
<1>1. n \in Nat /\ low \in SUBSET (0..n) /\ h \in low
  <2>1. n \in Nat
    BY <1>0
  <2>2. \A y \in D : y \in 0..n
    BY ONLY <1>0, <2>1
  <2>. QED
    BY ONLY <2>1, <2>2, h \in D, h <= L
<1>2. \A y \in low : y \in Int
  BY ONLY <1>0
<1>. HIDE DEF low
<1>3. Max(low) \in low /\ \A y \in low : Max(low) >= y
  BY <1>1, MaxNat
<1>4. PICK m \in low : \A z \in low : m >= z
  BY <1>3
<1>5. \A z \in low : z <= m
  BY <1>2, <1>4
<1>. QED
  BY <1>5 DEF low, IsGreatest

\* A complete set of widths stays complete under each width that is asked for.
LEMMA Settles ==
  ASSUME NEW wc \in Nat, NEW E \in Int, NEW L \in Int, L <= E,
         NEW results, Sees(results, wc, E, L), DOMAIN results # {},
         LadderDone(results) \/ Ladder(wc) \subseteq DOMAIN results,
         Refine(results, wc) = {},
         NEW w, Asked(DOMAIN results, wc, E, L, w),
         NEW more, Sees(more, wc, E, L), DOMAIN more = DOMAIN results \cup {w}
  PROVE  Refine(more, wc) = {}
<1>. DEFINE D == DOMAIN results
            F == DOMAIN more
            N == Widest(wc)
<1>1. N \in Int /\ N <= wc - 1 /\ D \subseteq 2..N /\ w \in 2..N /\ F = D \cup {w} /\ D # {}
  BY WidestIs DEF Sees, MIN_WIDTH
<1>2. (\E v \in D : v <= L) \/ Ladder(wc) \subseteq D
  BY CleanAndLow DEF LadderDone, LowWidths
<1>3. \A v \in Int : v \notin D /\ 2 <= v /\ v < wc =>
        ~AskedAbove(D, wc, E, v) /\ ~AskedBelow(D, L, v)
  BY RefineIs
<1>4. Asked(D, wc, E, L, w)
  OBVIOUS
<1>. HIDE DEF D, F, N
<1>5. SUFFICES ASSUME NEW v \in Int, v \notin F, 2 <= v, v < wc
      PROVE  ~AskedAbove(F, wc, E, v) /\ ~AskedBelow(F, L, v)
  BY RefineIs DEF F
<1>6. \A y \in F : y \in Int
  BY <1>1
<1>7. ~AskedAbove(D, wc, E, v) /\ ~AskedBelow(D, L, v) /\ v \notin D
  BY <1>1, <1>3, <1>5
<1>8. w \in D => F = D
  BY <1>1
<1>9. SUFFICES ASSUME w \notin D
      PROVE  ~AskedAbove(F, wc, E, v) /\ ~AskedBelow(F, L, v)
  BY <1>7, <1>8
<1>10. ~AskedAbove(D, wc, E, w) /\ ~AskedBelow(D, L, w)
  BY <1>1, <1>3, <1>9
\* Everything measured has an event only if the widest width is measured.
<1>11. (\A y \in D : y <= E) => N \in D
  <2>. SUFFICES ASSUME \A y \in D : y <= E, N \notin D PROVE FALSE
    OBVIOUS
  <2>1. \A y \in D : y < N
    BY <1>1
  <2>2. AskedAbove(D, wc, E, N)
    BY <1>1, <2>1 DEF AskedAbove, N
  <2>3. 2 <= N /\ N < wc
    BY <1>1
  <2>. QED
    BY <1>1, <1>3, <2>2, <2>3
<1>12. ~AskedAbove(F, wc, E, v)
  <2>1. ASSUME NEW u \in F, u > E, \A y \in F : y > E => u <= y, NEW b \in F, b <= E,
               u - 2 <= v, v <= u - 1
        PROVE  FALSE
    <3>1. CASE u = w
      <4>1. b \in D /\ w > E /\ w \in Int
        BY <1>1, <1>6, <2>1, <3>1
      <4>2. PICK m \in D : m > E /\ \A y \in D : y > E => m <= y
        <5>1. \E y \in D : y > E
          <6>1. CASE N \in D
            BY <1>1, <4>1, <6>1
          <6>2. CASE \E y \in D : ~(y <= E)
            BY <1>1, <6>2
          <6>. QED
            BY <1>11, <6>1, <6>2
        <5>. QED
          BY <1>1, <5>1, LeastAbove
      <4>3. w < m /\ m \in Int /\ m <= N
        BY <1>1, <1>9, <2>1, <3>1, <4>2
      <4>4. m - 1 \notin D
        BY <4>1, <4>2, <4>3
      <4>5. AskedAbove(D, wc, E, m - 1)
        BY <2>1, <4>1, <4>2, <4>3 DEF AskedAbove
      <4>6. m - 1 \in Int /\ 2 <= m - 1 /\ m - 1 < wc
        BY <1>1, <4>3
      <4>. QED
        BY <1>3, <4>4, <4>5, <4>6
    <3>2. CASE u \in D
      <4>1. u > E /\ \A y \in D : y > E => u <= y
        BY <1>1, <2>1
      <4>2. \A y \in D : ~(y <= E)
        BY <1>7, <2>1, <3>2, <4>1 DEF AskedAbove
      <4>3. \A y \in D : ~(y <= L)
        BY <1>1, <4>2
      <4>4. w \in Ladder(wc)
        BY <1>4, <4>2 DEF Asked
      <4>. QED
        BY <1>2, <1>9, <4>3, <4>4
    <3>. QED
      BY <1>1, <3>1, <3>2
  <2>2. ASSUME \A y \in F : y <= E /\ y < v, v <= N
        PROVE  FALSE
    <3>1. N \in D
      BY <1>1, <1>11, <2>2
    <3>. QED
      BY <1>1, <2>2, <3>1
  <2>. QED
    BY <2>1, <2>2 DEF AskedAbove, N
<1>13. ~AskedBelow(F, L, v)
  <2>. SUFFICES ASSUME NEW b \in F, b <= L, \A y \in F : y <= L => y <= b,
                       NEW x \in F, x > L, b + 1 <= v, v <= b + 2
       PROVE  FALSE
    BY DEF AskedBelow
  <2>0. b \in Int /\ x \in Int /\ w \in Int
    BY <1>1, <1>6
  <2>1. CASE b \in D
    <3>1. \A y \in D : ~(y > L)
      BY <1>1, <1>7, <2>1 DEF AskedBelow
    <3>2. x = w /\ \A y \in D : y <= E
      BY <1>1, <3>1
    <3>3. N \in D /\ w <= N
      BY <1>1, <1>11, <3>2
    <3>. QED
      BY <1>1, <2>0, <3>1, <3>2, <3>3
  <2>2. CASE b \notin D
    <3>1. b = w /\ x \in D /\ w <= L
      BY <1>1, <2>0, <2>2
    <3>2. CASE \E y \in D : y <= L
      <4>0. D \in SUBSET (2..N) /\ N \in Int
        BY <1>1
      <4>g. PICK m : IsGreatest(m, D, L)
        <5>1. PICK h \in D : h <= L
          BY <3>2
        <5>. QED
          BY <4>0, <5>1, GreatestBelow
      <4>1. m \in D /\ m <= L /\ \A y \in D : y <= L => y <= m
        BY <4>g DEF IsGreatest
      <4>2. m < w /\ m \in Int
        BY <1>1, <1>9, <3>1, <4>1
      <4>3. m + 1 \notin D
        BY <2>0, <3>1, <4>1, <4>2
      <4>4. AskedBelow(D, L, m + 1)
        BY <3>1, <4>1, <4>2 DEF AskedBelow
      <4>5. m + 1 \in Int /\ 2 <= m + 1 /\ m + 1 < wc
        BY <1>1, <4>1, <4>2
      <4>. QED
        BY <1>3, <4>3, <4>4, <4>5
    <3>3. CASE ~\E y \in D : y <= L
      <4>1. w \notin Ladder(wc)
        BY <1>2, <1>9, <3>3
      <4>2. (\E y \in D : y <= E) /\ w >= E - 1 /\ \E y \in D : y > E
        BY <1>4, <2>0, <3>1, <3>3, <4>1 DEF Asked
      <4>3. PICK m \in D : m > E /\ \A y \in D : y > E => m <= y
        BY <1>1, <4>2, LeastAbove
      <4>4. m \in Int /\ m <= N /\ w <= E
        BY <1>1, <3>1, <4>3
      <4>5. AskedAbove(D, wc, E, m - 1) /\ AskedAbove(D, wc, E, m - 2)
        BY <4>2, <4>3, <4>4 DEF AskedAbove
      <4>6. m - 1 \in D
        <5>1. m - 1 \in Int /\ 2 <= m - 1 /\ m - 1 < wc
          BY <1>1, <4>3, <4>4
        <5>. QED
          BY <1>3, <4>5, <5>1
      <4>7. m - 1 = E
        BY <4>3, <4>4, <4>6
      <4>8. w = m - 2
        BY <1>9, <2>0, <4>2, <4>4, <4>6, <4>7
      <4>9. m - 2 \in Int /\ 2 <= m - 2 /\ m - 2 < wc /\ m - 2 \notin D
        BY <1>1, <1>9, <4>4, <4>8
      <4>. QED
        BY <1>3, <4>5, <4>9
    <3>. QED
      BY <3>2, <3>3
  <2>. QED
    BY <2>1, <2>2
<1>. QED
  BY <1>12, <1>13

-----------------------------------------------------------------------------
(* What a pass visits *)

IsFlatten(f, ss, n) == f = [i \in 1..n |-> IF i = 1 THEN ss[i] ELSE f[i - 1] \o ss[i]]

LEMMA FlattenExists ==
  ASSUME NEW ss
  PROVE  \A n \in Nat : \E f : IsFlatten(f, ss, n)
<1>. DEFINE Bad == {n \in Nat : ~\E f : IsFlatten(f, ss, n)}
<1>. SUFFICES ASSUME Bad # {} PROVE FALSE
  OBVIOUS
<1>1. PICK n \in Bad : \A m \in Bad : n <= m
  <2>1. Bad \in SUBSET Nat
    OBVIOUS
  <2>. HIDE DEF Bad
  <2>. QED
    BY <2>1, LeastNat
<1>2. n # 0
  <2>1. IsFlatten([i \in 1..0 |-> {}], ss, 0)
    BY DEF IsFlatten
  <2>. QED
    BY <2>1
<1>3. n - 1 \in Nat /\ n - 1 \notin Bad
  BY <1>1, <1>2
<1>4. PICK f : IsFlatten(f, ss, n - 1)
  BY <1>3
<1>5. \A i \in 1..(n - 1) : f[i] = IF i = 1 THEN ss[i] ELSE f[i - 1] \o ss[i]
  BY <1>4 DEF IsFlatten
<1>. DEFINE last == IF n = 1 THEN ss[n] ELSE f[n - 1] \o ss[n]
            g == [i \in 1..n |-> IF i = n THEN last ELSE f[i]]
<1>6. g = [i \in 1..n |-> IF i = 1 THEN ss[i] ELSE g[i - 1] \o ss[i]]
  <2>1. ASSUME NEW i \in 1..n
        PROVE  g[i] = IF i = 1 THEN ss[i] ELSE g[i - 1] \o ss[i]
    <3>1. CASE i = n
      <4>1. i # 1 => g[i - 1] = f[i - 1]
        BY <3>1
      <4>. QED
        BY <3>1, <4>1
    <3>2. CASE i # n
      <4>1. i \in 1..(n - 1)
        BY <3>2
      <4>2. i # 1 => g[i - 1] = f[i - 1]
        BY <4>1
      <4>. QED
        BY <1>5, <4>1, <4>2
    <3>. QED
      BY <3>1, <3>2
  <2>2. g = [i \in 1..n |-> g[i]]
    OBVIOUS
  <2>. HIDE DEF g
  <2>. QED
    BY <2>1, <2>2
<1>7. IsFlatten(g, ss, n)
  BY <1>6 DEF IsFlatten
<1>. QED
  BY <1>7

\* What holds of the parts of a concatenation and is kept by \o holds of the
\* whole, which has the elements of each part.
LEMMA FlattenLaw ==
  ASSUME NEW T, NEW ss \in Seq(Seq(T)), NEW P \in SUBSET Seq(T), << >> \in P,
         \A i \in DOMAIN ss : ss[i] \in P,
         \A s \in P, t \in P : s \o t \in P
  PROVE  /\ FlattenSeq(ss) \in P
         /\ \A i \in DOMAIN ss : \A k \in DOMAIN ss[i] :
              \E m \in DOMAIN FlattenSeq(ss) : FlattenSeq(ss)[m] = ss[i][k]
<1>. DEFINE N == Len(ss)
            flatten == CHOOSE f : IsFlatten(f, ss, N)
<1>0. N \in Nat /\ DOMAIN ss = 1..N
  OBVIOUS
<1>1. CASE N = 0
  <2>1. ss = << >> /\ DOMAIN ss = {}
    BY <1>1
  <2>2. FlattenSeq(ss) = ss
    BY <1>1 DEF FlattenSeq
  <2>. QED
    BY <2>1, <2>2
<1>2. CASE N # 0
  <2>1. IsFlatten(flatten, ss, N)
    BY <1>0, FlattenExists
  <2>2. FlattenSeq(ss) = flatten[N]
    BY <1>2 DEF FlattenSeq, IsFlatten
  <2>3. \A i \in 1..N : flatten[i] = IF i = 1 THEN ss[i] ELSE flatten[i - 1] \o ss[i]
    BY <2>1 DEF IsFlatten
  <2>. HIDE DEF flatten
  <2>. DEFINE Whole(n) == /\ flatten[n] \in P
                          /\ \A i \in 1..n : \A k \in DOMAIN ss[i] :
                               \E m \in DOMAIN flatten[n] : flatten[n][m] = ss[i][k]
              Bad == {n \in 1..N : ~Whole(n)}
  <2>4. Bad = {}
    <3>. SUFFICES ASSUME Bad # {} PROVE FALSE
      OBVIOUS
    <3>1. PICK n \in Bad : \A m \in Bad : n <= m
      <4>1. Bad \in SUBSET Nat
        OBVIOUS
      <4>. HIDE DEF Bad
      <4>. QED
        BY <4>1, LeastNat
    <3>2. n \in 1..N /\ ~Whole(n)
      OBVIOUS
    <3>3. \A m \in 1..N : m < n => Whole(m)
      <4>. SUFFICES ASSUME NEW m \in 1..N, m < n, ~Whole(m) PROVE FALSE
        OBVIOUS
      <4>1. m \in Bad
        OBVIOUS
      <4>2. n <= m
        BY <3>1, <4>1
      <4>. HIDE DEF Bad, Whole
      <4>. QED
        BY <1>0, <3>2, <4>2
    <3>. HIDE DEF Bad
    <3>4. CASE n = 1
      <4>1. flatten[1] = ss[1] /\ ss[1] \in P
        <5>. HIDE DEF Whole, N
        <5>. QED
          BY <1>0, <2>3, <3>2, <3>4
      <4>2. \A i \in 1..1 : i = 1
        OBVIOUS
      <4>. QED
        BY <3>2, <3>4, <4>1, <4>2
    <3>5. CASE n # 1
      <4>1. n - 1 \in 1..N /\ n - 1 < n /\ n \in 1..N
        <5>. HIDE DEF Whole
        <5>. QED
          BY <1>0, <3>2, <3>5
      <4>2. Whole(n - 1)
        <5>. HIDE DEF Whole
        <5>. QED
          BY <3>3, <4>1
      <4>3. flatten[n] = flatten[n - 1] \o ss[n]
        BY <2>3, <3>5, <4>1
      <4>4. flatten[n - 1] \in P /\ ss[n] \in P
        BY <1>0, <4>1, <4>2
      <4>. PICK s, t, u : s = flatten[n - 1] /\ t = ss[n] /\ u = flatten[n]
        OBVIOUS
      <4>5. s \in P /\ t \in P /\ u = s \o t /\ u \in P /\ s \in Seq(T) /\ t \in Seq(T)
        BY <4>3, <4>4
      <4>6. /\ Len(s) \in Nat /\ Len(t) \in Nat
            /\ DOMAIN u = 1..(Len(s) + Len(t)) /\ DOMAIN s = 1..Len(s) /\ DOMAIN t = 1..Len(t)
            /\ \A m \in 1..(Len(s) + Len(t)) : u[m] = IF m <= Len(s) THEN s[m] ELSE t[m - Len(s)]
        <5>1. u = s \o t /\ s \in Seq(T) /\ t \in Seq(T)
          BY <4>5
        <5>. QED
          BY ONLY <5>1
      <4>7. ASSUME NEW i \in 1..n, NEW k \in DOMAIN ss[i]
            PROVE  \E m \in DOMAIN u : u[m] = ss[i][k]
        <5>1. CASE i = n
          <6>1. k \in 1..Len(t) /\ ss[i][k] = t[k]
            BY <4>6, <5>1
          <6>2. Len(s) + k \in DOMAIN u /\ u[Len(s) + k] = t[k]
            <7>1. /\ Len(s) + k \in 1..(Len(s) + Len(t)) /\ ~(Len(s) + k <= Len(s))
                  /\ (Len(s) + k) - Len(s) = k
              BY ONLY <4>6, <6>1
            <7>. QED
              BY ONLY <4>6, <7>1
          <6>. QED
            BY <6>1, <6>2
        <5>2. CASE i # n
          <6>1. i \in 1..(n - 1)
            BY <4>1, <5>2
          <6>2. PICK m \in DOMAIN s : s[m] = ss[i][k]
            BY <4>2, <4>7, <6>1
          <6>3. m \in DOMAIN u /\ u[m] = s[m]
            BY ONLY <4>6, <6>2
          <6>. QED
            BY <6>2, <6>3
        <5>. QED
          BY <5>1, <5>2
      <4>8. Whole(n)
        <5>1. flatten[n] \in P
          BY <4>5
        <5>2. \A i \in 1..n : \A k \in DOMAIN ss[i] :
                \E m \in DOMAIN flatten[n] : flatten[n][m] = ss[i][k]
          BY <4>7
        <5>. QED
          BY ONLY <5>1, <5>2
      <4>. QED
        <5>. HIDE DEF Whole
        <5>. QED
          BY <3>2, <4>8
    <3>. QED
      BY <3>4, <3>5
  <2>5. Whole(N)
    <3>1. N \in 1..N
      BY <1>0, <1>2
    <3>. HIDE DEF Whole, N
    <3>. QED
      BY <2>4, <3>1
  <2>. QED
    BY <1>0, <2>2, <2>5
<1>. QED
  BY <1>1, <1>2

LadderVisit(c) == [case |-> c, static |-> {}]
WideVisit(c) == [case |-> c, static |-> {Wide}]

LocationVisits == UNION {[case : {c}, static : SUBSET ({Wide} \cup Static[c])] : c \in Cases}

\* The exact arm of a case comes before its ladder.
WideFirst(visits) ==
  \A c \in Cases : \A m \in DOMAIN visits : visits[m] = LadderVisit(c) =>
    \E l \in 1..(m - 1) : visits[l] = WideVisit(c)

LEMMA StaticIsListed ==
  ASSUME NEW c \in Cases
  PROVE  /\ Cardinality(Static[c]) \in Nat
         /\ \A i \in 1..Cardinality(Static[c]) : SetToSeq(Static[c])[i] \in Static[c]
<1>1. IsFiniteSet(Static[c])
  BY PolicyAssumption
<1>. DEFINE n == Cardinality(Static[c])
<1>2. n \in Nat /\ ExistsBijection(1..n, Static[c])
  BY <1>1, FS_CardinalityType
<1>3. PICK f \in Bijection(1..n, Static[c]) : TRUE
  BY <1>2 DEF ExistsBijection
<1>4. f \in [1..n -> Static[c]] /\ \A a, b \in DOMAIN f : f[a] = f[b] => a = b
  BY <1>3 DEF Bijection, Injection, Surjection, IsInjective
<1>5. SetToSeq(Static[c]) \in [1..n -> Static[c]]
  BY <1>4 DEF SetToSeq, IsInjective
<1>. QED
  BY <1>2, <1>5

LEMMA LocationVisitsOf ==
  ASSUME NEW c \in Cases
  PROVE  /\ Visits(location, c) \in Seq(LocationVisits)
         /\ WideFirst(Visits(location, c))
         /\ \E m \in DOMAIN Visits(location, c) : Visits(location, c)[m] = LadderVisit(c)
<1>. DEFINE n == Cardinality(Static[c])
            policy(i) == IF i = 1 THEN Wide ELSE SetToSeq(Static[c])[i - 1]
            arms == [i \in 1..(1 + n) |-> [case |-> c, static |-> {policy(i)}]]
<1>1. n \in Nat /\ \A i \in 1..(1 + n) : policy(i) \in {Wide} \cup Static[c]
  <2>1. n \in Nat /\ \A i \in 1..n : SetToSeq(Static[c])[i] \in Static[c]
    BY StaticIsListed
  <2>2. \A i \in 1..(1 + n) : i = 1 \/ i - 1 \in 1..n
    BY <2>1
  <2>. QED
    BY <2>1, <2>2
<1>2. Visits(location, c) = Append(arms, LadderVisit(c))
  BY TwoRunners DEF Visits, LadderVisit
<1>3. \A s \in SUBSET ({Wide} \cup Static[c]) : [case |-> c, static |-> s] \in LocationVisits
  BY DEF LocationVisits
<1>. HIDE DEF policy, n
<1>4. \A i \in 1..(1 + n) : arms[i] = [case |-> c, static |-> {policy(i)}] /\ arms[i] \in LocationVisits
  BY <1>1, <1>3
<1>5. arms \in Seq(LocationVisits) /\ Len(arms) = 1 + n
  <2>1. DOMAIN arms = 1..(1 + n) /\ 1 + n \in Nat
    BY <1>1
  <2>2. arms \in [1..(1 + n) -> LocationVisits]
    BY <1>4
  <2>. HIDE DEF arms
  <2>. QED
    BY <2>1, <2>2
<1>6. LadderVisit(c) \in LocationVisits
  BY <1>3 DEF LadderVisit
<1>7. arms[1] = WideVisit(c) /\ 1 \in 1..(1 + n)
  BY <1>1 DEF policy, WideVisit
<1>8. \A d : \A i \in 1..(1 + n) : arms[i] # LadderVisit(d)
  BY DEF LadderVisit
<1>. HIDE DEF arms
<1>. PICK s : s = Append(arms, LadderVisit(c))
  OBVIOUS
<1>9. /\ s \in Seq(LocationVisits) /\ DOMAIN s = 1..(n + 2)
      /\ \A i \in 1..(1 + n) : s[i] = arms[i]
      /\ s[n + 2] = LadderVisit(c)
  <2>1. s = Append(arms, LadderVisit(c)) /\ n \in Nat
    BY <1>1
  <2>2. Len(s) = n + 2 /\ s \in Seq(LocationVisits)
    BY ONLY <1>5, <1>6, <2>1
  <2>3. \A i \in 1..(1 + n) : s[i] = arms[i]
    BY ONLY <1>5, <1>6, <2>1
  <2>4. s[n + 2] = LadderVisit(c)
    BY ONLY <1>5, <1>6, <2>1
  <2>5. DOMAIN s = 1..(n + 2)
    BY ONLY <2>2
  <2>. QED
    BY <2>2, <2>3, <2>4, <2>5
<1>10. ASSUME NEW d \in Cases, NEW m \in DOMAIN s, s[m] = LadderVisit(d)
       PROVE  \E l \in 1..(m - 1) : s[l] = WideVisit(d)
  <2>1. m = n + 2
    <3>1. m \in 1..(1 + n) \/ m = n + 2
      BY <1>1, <1>9
    <3>. QED
      BY <1>8, <1>9, <1>10, <3>1
  <2>2. d = c
    BY <1>9, <1>10, <2>1 DEF LadderVisit
  <2>3. 1 \in 1..(m - 1)
    BY <1>1, <2>1
  <2>4. s[1] = WideVisit(c)
    BY <1>7, <1>9
  <2>. QED
    BY <2>2, <2>3, <2>4
<1>11. n + 2 \in DOMAIN s
  BY <1>1, <1>9
<1>. QED
  BY <1>2, <1>9, <1>10, <1>11 DEF WideFirst

LEMMA LocationAgenda ==
  /\ Agenda(location) \in Seq(LocationVisits)
  /\ WideFirst(Agenda(location))
  /\ \A c \in Cases : \E m \in DOMAIN Agenda(location) : Agenda(location)[m] = LadderVisit(c)
<1>. DEFINE N == Len(CaseOrder)
            parts == [i \in 1..N |-> Visits(location, CaseOrder[i])]
            P == {s \in Seq(LocationVisits) : WideFirst(s)}
<1>1. N \in Nat /\ \A i \in 1..N : CaseOrder[i] \in Cases
  BY TruthsAssumption DEF TruthsAssumption
<1>2. \A c \in Cases : \E i \in 1..N : CaseOrder[i] = c
  BY TruthsAssumption DEF TruthsAssumption, ToSet
<1>3. << >> \in P
  BY DEF WideFirst
<1>4. \A i \in 1..N : parts[i] = Visits(location, CaseOrder[i]) /\ parts[i] \in P
                      /\ parts[i] \in Seq(LocationVisits)
  BY <1>1, LocationVisitsOf
<1>5. ASSUME NEW s \in P, NEW t \in P
      PROVE  s \o t \in P
  <2>. PICK u : u = s \o t
    OBVIOUS
  <2>1. s \in Seq(LocationVisits) /\ t \in Seq(LocationVisits) /\ WideFirst(s) /\ WideFirst(t)
    OBVIOUS
  <2>2. /\ u \in Seq(LocationVisits)
        /\ Len(s) \in Nat /\ Len(t) \in Nat
        /\ DOMAIN u = 1..(Len(s) + Len(t)) /\ DOMAIN s = 1..Len(s) /\ DOMAIN t = 1..Len(t)
        /\ \A m \in 1..(Len(s) + Len(t)) : u[m] = IF m <= Len(s) THEN s[m] ELSE t[m - Len(s)]
    BY ONLY <2>1, u = s \o t
  <2>3. ASSUME NEW c \in Cases, NEW m \in DOMAIN u, u[m] = LadderVisit(c)
        PROVE  \E l \in 1..(m - 1) : u[l] = WideVisit(c)
    <3>1. CASE m <= Len(s)
      <4>1. m \in DOMAIN s /\ s[m] = LadderVisit(c) /\ m \in Int
        BY <2>2, <2>3, <3>1
      <4>2. PICK l \in 1..(m - 1) : s[l] = WideVisit(c)
        BY <2>1, <4>1 DEF WideFirst
      <4>3. l \in 1..(Len(s) + Len(t)) /\ l <= Len(s)
        BY <2>2, <3>1, <4>1
      <4>. QED
        BY <2>2, <4>2, <4>3
    <3>2. CASE ~(m <= Len(s))
      <4>1. m - Len(s) \in DOMAIN t /\ t[m - Len(s)] = LadderVisit(c) /\ m \in Int
        BY <2>2, <2>3, <3>2
      <4>2. PICK l \in 1..(m - Len(s) - 1) : t[l] = WideVisit(c)
        BY <2>1, <4>1 DEF WideFirst
      <4>3. /\ l + Len(s) \in 1..(m - 1) /\ l + Len(s) \in 1..(Len(s) + Len(t))
            /\ ~(l + Len(s) <= Len(s)) /\ (l + Len(s)) - Len(s) = l
        BY <2>2, <4>1
      <4>. QED
        BY <2>2, <4>2, <4>3
    <3>. QED
      BY <3>1, <3>2
  <2>. QED
    BY <2>2, <2>3 DEF WideFirst
<1>6. parts \in Seq(Seq(LocationVisits)) /\ DOMAIN parts = 1..N
  <2>1. parts \in [1..N -> Seq(LocationVisits)]
    BY <1>4
  <2>. HIDE DEF parts
  <2>. QED
    BY <1>1, <2>1
<1>7. Agenda(location) = FlattenSeq(parts)
  BY DEF Agenda
<1>. HIDE DEF parts
<1>8. \A i \in DOMAIN parts : parts[i] \in P
  BY <1>4, <1>6
<1>9. P \in SUBSET Seq(LocationVisits)
  OBVIOUS
<1>. HIDE DEF P
<1>10. /\ FlattenSeq(parts) \in P
       /\ \A i \in DOMAIN parts : \A k \in DOMAIN parts[i] :
            \E m \in DOMAIN FlattenSeq(parts) : FlattenSeq(parts)[m] = parts[i][k]
  BY ONLY <1>3, <1>5, <1>6, <1>8, <1>9, FlattenLaw
<1>11. ASSUME NEW c \in Cases
       PROVE  \E m \in DOMAIN FlattenSeq(parts) : FlattenSeq(parts)[m] = LadderVisit(c)
  <2>1. PICK i \in 1..N : CaseOrder[i] = c
    BY <1>2
  <2>2. PICK k \in DOMAIN parts[i] : parts[i][k] = LadderVisit(c)
    BY <1>4, <2>1, LocationVisitsOf
  <2>. QED
    BY <1>6, <1>10, <2>2
<1>. QED
  BY <1>7, <1>10, <1>11 DEF P

-----------------------------------------------------------------------------
(* Every job of the location runner is asked for *)

\* A prediction continues at the end of a file.
LEMMA PrefixEndIs ==
  ASSUME NEW c, NEW p, files[c][p] \in SUBSET Ranges, NEW stop
  PROVE  PrefixEnd(c, p, stop) \in {0, LOCATION, SCREEN}
<1>. DEFINE S == {0} \cup {f[2] : f \in {g \in files[c][p] : g[2] <= stop /\ Covering(files[c][p], 0, g[2])}}
<1>1. \A f \in files[c][p] : f[2] \in {LOCATION, SCREEN}
  BY DEF Ranges
<1>2. S \in SUBSET {0, LOCATION, SCREEN} /\ 0 \in S
  BY <1>1
<1>3. PICK n \in Nat : {0, LOCATION, SCREEN} \in SUBSET (0..n)
  <2>1. {0, LOCATION, SCREEN} \in SUBSET (0..SCREEN) /\ SCREEN \in Nat
    BY DEF LOCATION, SCREEN
  <2>. QED
    BY <2>1
<1>. HIDE DEF S
<1>4. S \in SUBSET (0..n) /\ S # {}
  BY <1>2, <1>3
<1>5. Max(S) \in S
  BY <1>4, MaxNat
<1>. QED
  BY <1>2, <1>5 DEF PrefixEnd, S

AskedOf(c, w) ==
  Asked(DOMAIN Measured(c), WCert[c], truth[c].event[LOCATION], truth[c].low[LOCATION], w)

FilesInv == \A c \in Cases : \A p \in Policies(c) : files[c][p] \subseteq Ranges

AskedKey(k) == k.case \in Cases /\ (k.policy \in Widths(k.case) => AskedOf(k.case, k.policy))

\* Files hold ranges, jobs end in one, and what the location runner queued,
\* checked or launched is asked for.
AskInv ==
  /\ FilesInv
  /\ DOMAIN attempt = Runners /\ DOMAIN agenda = Runners
  /\ agenda[location] \in Seq(LocationVisits)
  /\ \A k \in attempt[location] \cup chosen[location] : AskedKey(k)
  /\ \A j \in live :
       /\ j.stop \in {LOCATION, SCREEN}
       /\ j.case \in Cases /\ j.policy \in Policies(j.case) => j.start \in {0, LOCATION, SCREEN}
       /\ j.stop = LOCATION => AskedKey(j)

\* What is covered and measured, in terms of the files.
LEMMA MeasuredIs ==
  ASSUME PlanInv, FilesInv, NEW c \in Cases
  PROVE  /\ \A p \in Policies(c) : Covered(c, p, LOCATION) <=> <<0, LOCATION>> \in files[c][p]
         /\ DOMAIN Measured(c) = {w \in Widths(c) : <<0, LOCATION>> \in files[c][w]}
         /\ \A w \in DOMAIN Measured(c) : Measured(c)[w] = Result(c, w, LOCATION)
<1>1. ASSUME NEW p \in Policies(c)
      PROVE  Covered(c, p, LOCATION) <=> <<0, LOCATION>> \in files[c][p]
  <2>1. files[c][p] \in SUBSET Ranges
    BY DEF FilesInv
  <2>2. PICK F : F = files[c][p]
    OBVIOUS
  <2>3. Covering(F, 0, LOCATION) <=> <<0, LOCATION>> \in F
    BY <2>1, <2>2, CoversLocation
  <2>. QED
    BY <2>2, <2>3 DEF Covered
<1>2. Widths(c) \subseteq Policies(c)
  BY DEF Policies
<1>3. DOMAIN Measured(c) = {w \in Widths(c) : Covered(c, w, LOCATION)}
  BY DEF Measured
<1>4. \A w \in DOMAIN Measured(c) : Measured(c)[w] = Result(c, w, LOCATION)
  BY DEF Measured
<1>. QED
  BY <1>1, <1>2, <1>3, <1>4

\* Files are only added.
MoreFiles ==
  /\ truth' = truth
  /\ \A c \in Cases : \A p \in Policies(c) : files[c][p] \subseteq files'[c][p]

LEMMA MeasuredAfter ==
  ASSUME PlanInv', FilesInv', NEW c \in Cases
  PROVE  /\ \A p \in Policies(c) : Covered(c, p, LOCATION)' <=> <<0, LOCATION>> \in files'[c][p]
         /\ DOMAIN Measured(c)' = {w \in Widths(c) : <<0, LOCATION>> \in files'[c][w]}
         /\ \A w \in DOMAIN Measured(c)' : Measured(c)'[w] = Result(c, w, LOCATION)'
<1>1. ASSUME NEW p \in Policies(c)
      PROVE  Covered(c, p, LOCATION)' <=> <<0, LOCATION>> \in files'[c][p]
  <2>1. PICK F : F = files'[c][p]
    OBVIOUS
  <2>2. F \in SUBSET Ranges
    BY <2>1 DEF FilesInv, Policies, Widths
  <2>3. Covering(F, 0, LOCATION) <=> <<0, LOCATION>> \in F
    BY <2>2, CoversLocation
  <2>. QED
    BY <2>1, <2>3 DEF Covered
<1>2. DOMAIN Measured(c)' = {w \in Widths(c) : Covered(c, w, LOCATION)'}
  BY DEF Measured, Widths
<1>3. \A w \in DOMAIN Measured(c)' : Measured(c)'[w] = Result(c, w, LOCATION)'
  BY DEF Measured
<1>4. Widths(c) \subseteq Policies(c)
  BY DEF Policies
<1>. QED
  BY <1>1, <1>2, <1>3, <1>4

LEMMA MoreMeasured ==
  ASSUME PlanInv, FilesInv, PlanInv', FilesInv', MoreFiles, NEW c \in Cases
  PROVE  /\ DOMAIN Measured(c) \subseteq DOMAIN Measured(c)'
         /\ \A w \in DOMAIN Measured(c) : Measured(c)'[w] = Measured(c)[w]
         /\ \A p \in Policies(c) : Covered(c, p, LOCATION) => Covered(c, p, LOCATION)'
<1>1. /\ \A p \in Policies(c) : Covered(c, p, LOCATION) <=> <<0, LOCATION>> \in files[c][p]
      /\ DOMAIN Measured(c) = {w \in Widths(c) : <<0, LOCATION>> \in files[c][w]}
      /\ \A w \in DOMAIN Measured(c) : Measured(c)[w] = Result(c, w, LOCATION)
  BY MeasuredIs
<1>2. /\ \A p \in Policies(c) : Covered(c, p, LOCATION)' <=> <<0, LOCATION>> \in files'[c][p]
      /\ DOMAIN Measured(c)' = {w \in Widths(c) : <<0, LOCATION>> \in files'[c][w]}
      /\ \A w \in DOMAIN Measured(c)' : Measured(c)'[w] = Result(c, w, LOCATION)'
  BY MeasuredAfter
<1>3. \A w : Result(c, w, LOCATION)' = Result(c, w, LOCATION)
  BY DEF Result, MoreFiles
<1>4. Widths(c) \subseteq Policies(c)
  BY DEF Policies
<1>. QED
  BY <1>1, <1>2, <1>3, <1>4 DEF MoreFiles

LEMMA AskedStays ==
  ASSUME PlanInv, FilesInv, PlanInv', FilesInv', MoreFiles, NEW k, AskedKey(k)
  PROVE  AskedKey(k)'
<1>1. k.case \in Cases
  BY DEF AskedKey
<1>2. ASSUME k.policy \in Widths(k.case)
      PROVE  AskedOf(k.case, k.policy)'
  <2>1. AskedOf(k.case, k.policy)
    BY <1>2 DEF AskedKey
  <2>2. DOMAIN Measured(k.case) \subseteq DOMAIN Measured(k.case)'
    BY <1>1, MoreMeasured
  <2>3. truth' = truth
    BY DEF MoreFiles
  <2>. QED
    BY <2>1, <2>2, <2>3 DEF AskedOf, Asked
<1>. QED
  BY <1>1, <1>2 DEF AskedKey, Widths

JobIsAsked(j) ==
  /\ j.stop \in {LOCATION, SCREEN}
  /\ j.case \in Cases /\ j.policy \in Policies(j.case) => j.start \in {0, LOCATION, SCREEN}
  /\ j.stop = LOCATION => AskedKey(j)

\* A step after which what is queued, checked or live was so before, or is
\* asked for.
LEMMA AskFrom ==
  ASSUME PlanInv, PlanInv', AskInv, FilesInv', MoreFiles,
         DOMAIN attempt' = Runners, DOMAIN agenda' = Runners,
         agenda'[location] \in Seq(LocationVisits),
         \A k \in attempt'[location] \cup chosen'[location] :
           k \in attempt[location] \cup chosen[location] \/ AskedKey(k),
         \A j \in live' :
           \/ \E i \in live : /\ i.case = j.case /\ i.policy = j.policy
                              /\ i.start = j.start /\ i.stop = j.stop
           \/ JobIsAsked(j)
  PROVE  AskInv'
<1>0. FilesInv
  BY DEF AskInv
<1>1. ASSUME NEW k, AskedKey(k) PROVE AskedKey(k)'
  BY <1>0, <1>1, AskedStays
<1>2. ASSUME NEW k \in attempt'[location] \cup chosen'[location] PROVE AskedKey(k)'
  <2>1. AskedKey(k)
    BY DEF AskInv
  <2>. QED
    BY <1>1, <2>1
<1>3. ASSUME NEW j \in live'
      PROVE  /\ j.stop \in {LOCATION, SCREEN}
             /\ j.case \in Cases /\ j.policy \in Policies(j.case) => j.start \in {0, LOCATION, SCREEN}
             /\ j.stop = LOCATION => AskedKey(j)'
  <2>1. JobIsAsked(j)
    <3>. SUFFICES ASSUME NEW i \in live, i.case = j.case, i.policy = j.policy,
                         i.start = j.start, i.stop = j.stop
                  PROVE  JobIsAsked(j)
      OBVIOUS
    <3>1. JobIsAsked(i)
      BY DEF AskInv, JobIsAsked
    <3>. QED
      BY <3>1 DEF JobIsAsked, AskedKey
  <2>. QED
    BY <1>1, <2>1 DEF JobIsAsked
<1>. QED
  BY <1>2, <1>3 DEF AskInv, LocationVisits, Policies, Widths

\* What a visit of the location runner queues.
LEMMA VisitAsks ==
  ASSUME PlanInv, AskInv, VisitLocation
  PROVE  /\ agenda'[location] = Tail(agenda[location]) /\ agenda'[location] \in Seq(LocationVisits)
         /\ \A k \in attempt'[location] : AskedKey(k)
<1>. PICK c, static : c = Head(agenda[location]).case /\ static = Head(agenda[location]).static
  OBVIOUS
<1>1. agenda[location] \in Seq(LocationVisits) /\ agenda[location] # << >>
      /\ DOMAIN agenda = Runners /\ DOMAIN attempt = Runners
  BY DEF AskInv, VisitLocation, Visiting
<1>2. Head(agenda[location]) \in LocationVisits /\ Tail(agenda[location]) \in Seq(LocationVisits)
  BY ONLY <1>1
<1>3. c \in Cases /\ static \subseteq {Wide} \cup Static[c]
  BY <1>2 DEF LocationVisits
<1>4. agenda'[location] = Tail(agenda[location])
  BY <1>1, TwoRunners DEF VisitLocation
<1>. PICK missing :
       missing = IF static # {} THEN {p \in static : ~Covered(c, p, LOCATION)}
                 ELSE IF ~LadderOver(c) THEN Ladder(WCert[c]) \ DOMAIN Measured(c)
                 ELSE Refine(Measured(c), WCert[c])
  OBVIOUS
<1>5. \A k \in attempt'[location] : k.case = c /\ k.policy \in missing
  <2>1. \E wait : attempt' = [attempt EXCEPT ![location] =
                     IF wait THEN {} ELSE {Key(c, p, 0) : p \in {q \in missing : ~Failed(location, c, q)}}]
    BY DEF VisitLocation
  <2>2. attempt'[location] \subseteq {Key(c, p, 0) : p \in {q \in missing : ~Failed(location, c, q)}}
    BY <1>1, <2>1, TwoRunners
  <2>. QED
    BY <2>2 DEF Key
<1>6. ASSUME NEW p \in missing, p \in Widths(c)
      PROVE  AskedOf(c, p)
  <2>1. CASE static # {}
    <3>1. p \in {Wide} \cup Static[c]
      BY <1>3, <2>1
    <3>. QED
      BY <1>3, <1>6, <3>1, PolicyAssumption
  <2>2. CASE static = {} /\ ~LadderOver(c)
    BY <2>2 DEF AskedOf, Asked
  <2>3. CASE static = {} /\ LadderOver(c)
    <3>1. p \in Refine(Measured(c), WCert[c])
      BY <2>3
    <3>2. Sees(Measured(c), WCert[c], truth[c].event[LOCATION], truth[c].low[LOCATION])
      BY <1>3, MeasuredSees
    <3>3. /\ WCert[c] \in Nat /\ truth[c].low[LOCATION] <= truth[c].event[LOCATION]
          /\ truth[c].event[LOCATION] \in Int /\ truth[c].low[LOCATION] \in Int
      BY <1>3, Transitions
    <3>. QED
      BY ONLY <3>1, <3>2, <3>3, RefineAsks DEF AskedOf
  <2>. QED
    BY <2>1, <2>2, <2>3
<1>. QED
  BY <1>2, <1>3, <1>4, <1>5, <1>6 DEF AskedKey

\* A sealed file holds a range.
LEMMA SealedRange ==
  ASSUME PlanInv, AskInv, NEW j \in live, Seal(j)
  PROVE  FilesInv' /\ MoreFiles
<1>1. /\ truth' = truth
      /\ files' = [files EXCEPT ![j.case][j.policy] = @ \cup {<<j.start, j.stop>>}]
      /\ j.start < j.stop
  BY DEF Seal, Exited, Accepted
<1>2. ASSUME NEW c \in Cases, NEW p \in Policies(c)
      PROVE  files[c][p] \subseteq files'[c][p] /\ files'[c][p] \subseteq Ranges
  <2>1. files[c][p] \subseteq Ranges
    BY DEF AskInv, FilesInv
  <2>2. CASE ~(c = j.case /\ p = j.policy)
    <3>1. files'[c][p] = files[c][p]
      BY <1>1, <2>2 DEF PlanInv
    <3>. QED
      BY <2>1, <3>1
  <2>3. CASE c = j.case /\ p = j.policy
    <3>1. files'[c][p] = files[c][p] \cup {<<j.start, j.stop>>}
      BY <1>1, <2>3 DEF PlanInv
    <3>2. j.start \in {0, LOCATION, SCREEN} /\ j.stop \in {LOCATION, SCREEN}
      BY <2>3 DEF AskInv
    <3>3. <<j.start, j.stop>> \in Ranges
      BY <1>1, <3>2 DEF Ranges, LOCATION, SCREEN
    <3>. QED
      BY <2>1, <3>1, <3>3
  <2>. QED
    BY <2>2, <2>3
<1>. QED
  BY <1>1, <1>2 DEF FilesInv, MoreFiles, Policies, Widths

LEMMA AskKept == PlanInv /\ RangeInv /\ AskInv /\ SweepNext => AskInv'
<1>. SUFFICES ASSUME PlanInv, RangeInv, AskInv, SweepNext
     PROVE  AskInv'
  OBVIOUS
<1>0. PlanInv' /\ FilesInv /\ DOMAIN attempt = Runners /\ DOMAIN agenda = Runners
      /\ agenda[location] \in Seq(LocationVisits) /\ DOMAIN chosen = Runners
  BY PlanKept DEF AskInv, RangeInv
<1>same. ASSUME UNCHANGED <<truth, files>> PROVE FilesInv' /\ MoreFiles
  BY <1>0, <1>same DEF FilesInv, MoreFiles, Policies, Widths
<1>1. ASSUME NEW r \in Runners, Launch(r)
      PROVE  AskInv'
  <2>1. /\ UNCHANGED <<truth, files, attempt, agenda>> /\ chosen' = [chosen EXCEPT ![r] = {}]
        /\ \E k \in chosen[r] :
             live' = live \cup {[case |-> k.case, policy |-> k.policy, owner |-> r,
                                 start |-> PrefixEnd(k.case, k.policy, Stop(r)), stop |-> Stop(r)]}
    BY <1>1 DEF Launch
  <2>2. PICK k \in chosen[r] :
             live' = live \cup {[case |-> k.case, policy |-> k.policy, owner |-> r,
                                 start |-> PrefixEnd(k.case, k.policy, Stop(r)), stop |-> Stop(r)]}
    BY <2>1
  <2>. DEFINE new == [case |-> k.case, policy |-> k.policy, owner |-> r,
                      start |-> PrefixEnd(k.case, k.policy, Stop(r)), stop |-> Stop(r)]
  <2>3. JobIsAsked(new)
    <3>1. /\ new.case = k.case /\ new.policy = k.policy /\ new.stop = Stop(r)
          /\ new.start = PrefixEnd(k.case, k.policy, Stop(r))
      OBVIOUS
    <3>2. Stop(r) \in {LOCATION, SCREEN} /\ (Stop(r) = LOCATION => r = location)
      BY DEF Stop, LOCATION, SCREEN
    <3>3. ASSUME k.case \in Cases, k.policy \in Policies(k.case)
          PROVE  PrefixEnd(k.case, k.policy, Stop(r)) \in {0, LOCATION, SCREEN}
      <4>1. files[k.case][k.policy] \in SUBSET Ranges
        BY <1>0, <3>3 DEF FilesInv
      <4>. QED
        BY <4>1, PrefixEndIs
    <3>4. r = location => AskedKey(k)
      BY DEF AskInv
    <3>. HIDE DEF new
    <3>. QED
      BY <3>1, <3>2, <3>3, <3>4 DEF JobIsAsked, AskedKey
  <2>4. live' = live \cup {new}
    BY <2>2
  <2>. HIDE DEF new
  <2>5. \A i \in chosen'[location] : i \in chosen[location]
    BY <1>0, <2>1
  <2>. QED
    BY <1>0, <1>same, <2>1, <2>3, <2>4, <2>5, AskFrom
<1>2. ASSUME NEW r \in Runners, Try(r)
      PROVE  AskInv'
  <2>1. UNCHANGED <<truth, files, live, agenda>>
    BY <1>2 DEF Try
  <2>2. /\ DOMAIN attempt' = Runners
        /\ attempt'[location] \subseteq attempt[location]
        /\ chosen'[location] \subseteq attempt[location] \cup chosen[location]
    <3>. DEFINE idle == {k \in attempt[r] : ~Busy(r, k) /\ ~Failed(r, k.case, k.policy)}
    <3>1. CASE attempt' = [attempt EXCEPT ![r] = {}] /\ chosen' = chosen
      BY <1>0, <3>1
    <3>2. CASE \E k \in idle : /\ \E rest \in SUBSET idle : attempt' = [attempt EXCEPT ![r] = rest]
                               /\ chosen' = [chosen EXCEPT ![r] = {k}]
      <4>1. PICK k \in idle : /\ \E rest \in SUBSET idle : attempt' = [attempt EXCEPT ![r] = rest]
                              /\ chosen' = [chosen EXCEPT ![r] = {k}]
        BY <3>2
      <4>2. PICK rest \in SUBSET idle : attempt' = [attempt EXCEPT ![r] = rest]
        BY <4>1
      <4>3. idle \subseteq attempt[r]
        OBVIOUS
      <4>. HIDE DEF idle
      <4>. QED
        BY <1>0, <4>1, <4>2, <4>3
    <3>3. \/ attempt' = [attempt EXCEPT ![r] = {}] /\ chosen' = chosen
          \/ \E k \in Urgent(r, idle) :
               /\ attempt' = [attempt EXCEPT ![r] = IF r = location /\ descend THEN {} ELSE idle \ {k}]
               /\ chosen' = [chosen EXCEPT ![r] = {k}]
      BY <1>2 DEF Try
    <3>4. Urgent(r, idle) \subseteq idle
      BY DEF Urgent
    <3>5. \A k : (IF r = location /\ descend THEN {} ELSE idle \ {k}) \in SUBSET idle
      OBVIOUS
    <3>. HIDE DEF idle
    <3>. QED
      BY <3>1, <3>2, <3>3, <3>4, <3>5
  <2>. QED
    BY <1>0, <1>same, <2>1, <2>2, AskFrom
<1>3. CASE VisitLocation
  <2>1. /\ UNCHANGED <<truth, files, live, chosen>>
        /\ DOMAIN attempt' = Runners /\ DOMAIN agenda' = Runners
    BY <1>0, <1>3 DEF VisitLocation
  <2>2. agenda'[location] \in Seq(LocationVisits) /\ \A k \in attempt'[location] : AskedKey(k)
    BY <1>3, VisitAsks
  <2>. QED
    BY <1>0, <1>same, <2>1, <2>2, AskFrom
<1>4. CASE VisitScreen
  <2>1. /\ UNCHANGED <<truth, files, live, chosen>>
        /\ agenda' = [agenda EXCEPT ![screen] = Tail(@)]
        /\ \/ attempt' = attempt
           \/ \E q : attempt' = [attempt EXCEPT ![screen] = attempt[screen] \cup q]
    BY <1>4 DEF VisitScreen, SkipCase, QueueCase
  <2>2. /\ DOMAIN attempt' = Runners /\ DOMAIN agenda' = Runners
        /\ attempt'[location] = attempt[location] /\ agenda'[location] = agenda[location]
    BY <1>0, <2>1, TwoRunners
  <2>. QED
    BY <1>0, <1>same, <2>1, <2>2, AskFrom
<1>fresh. ASSUME NEW r \in Runners, NEW visits, Fresh(r, visits),
                 visits \in {<< >>, Agenda(r)}
          PROVE  /\ DOMAIN attempt' = Runners /\ DOMAIN agenda' = Runners
                 /\ agenda'[location] \in Seq(LocationVisits)
                 /\ attempt'[location] \cup chosen'[location] \subseteq attempt[location] \cup chosen[location]
  <2>1. /\ agenda' = [agenda EXCEPT ![r] = visits] /\ attempt' = [attempt EXCEPT ![r] = {}]
        /\ chosen' = [chosen EXCEPT ![r] = {}]
    BY <1>fresh DEF Fresh
  <2>2. << >> \in Seq(LocationVisits)
    OBVIOUS
  <2>3. r = location => visits \in Seq(LocationVisits)
    BY <1>fresh, <2>2, LocationAgenda
  <2>. QED
    BY <1>0, <2>1, <2>3, TwoRunners
<1>5. ASSUME NEW r \in Runners, Finish(r) \/ NextPass(r) \/ Start(r)
      PROVE  AskInv'
  <2>1. UNCHANGED <<truth, files, live>> /\ \E visits \in {<< >>, Agenda(r)} : Fresh(r, visits)
    BY <1>5 DEF Finish, NextPass, Start, Forget
  <2>2. /\ DOMAIN attempt' = Runners /\ DOMAIN agenda' = Runners
        /\ agenda'[location] \in Seq(LocationVisits)
        /\ attempt'[location] \cup chosen'[location] \subseteq attempt[location] \cup chosen[location]
    BY <1>fresh, <2>1
  <2>. QED
    BY <1>0, <1>same, <2>1, <2>2, AskFrom
<1>6. ASSUME NEW r \in Runners, Kill(r)
      PROVE  AskInv'
  <2>1. /\ UNCHANGED <<truth, files>> /\ Fresh(r, << >>)
        /\ live' = {[j EXCEPT !.owner = IF @ = r THEN nobody ELSE @] : j \in live}
    BY <1>6 DEF Kill, Forget
  <2>2. /\ DOMAIN attempt' = Runners /\ DOMAIN agenda' = Runners
        /\ agenda'[location] \in Seq(LocationVisits)
        /\ attempt'[location] \cup chosen'[location] \subseteq attempt[location] \cup chosen[location]
    BY <1>fresh, <2>1
  <2>3. ASSUME NEW j \in live'
        PROVE  \E i \in live : /\ i.case = j.case /\ i.policy = j.policy
                               /\ i.start = j.start /\ i.stop = j.stop
    <3>1. PICK i \in live : j = [i EXCEPT !.owner = IF @ = r THEN nobody ELSE @]
      BY <2>1
    <3>. QED
      BY <3>1 DEF RangeInv, JobFields
  <2>. QED
    BY <1>0, <1>same, <2>1, <2>2, <2>3, AskFrom
<1>7. CASE Exit
  <2>1. PICK j \in live : Seal(j) \/ Fail(j)
    BY <1>7 DEF Exit
  <2>2. live' = live \ {j} /\ UNCHANGED <<agenda, attempt, chosen>>
    BY <2>1 DEF Seal, Fail, Exited, passVars
  <2>3. FilesInv' /\ MoreFiles
    <3>1. CASE Seal(j)
      BY <3>1, SealedRange
    <3>2. CASE Fail(j)
      BY <1>same, <3>2 DEF Fail, Exited
    <3>. QED
      BY <2>1, <3>1, <3>2
  <2>. QED
    BY <1>0, <2>2, <2>3, AskFrom
<1>. QED
  BY <1>1, <1>2, <1>3, <1>4, <1>5, <1>6, <1>7 DEF SweepNext, Run

-----------------------------------------------------------------------------
(* What a pass with nothing pending has settled *)

\* No job of a case has failed for good, and it has a ladder.
Sound(c) == (\A p \in Policies(c) : ~Failed(location, c, p)) /\ Ladder(WCert[c]) # {}

\* As long as a pass has nothing pending: a ladder is visited after its exact
\* arm is there, and a case whose ladder was visited is complete.
Settled(c, visits) ==
  /\ \A m \in DOMAIN visits : visits[m] = LadderVisit(c) =>
       Covered(c, Wide, LOCATION) \/ \E l \in 1..(m - 1) : visits[l] = WideVisit(c)
  /\ LocationComplete(c) \/ \E m \in DOMAIN visits : visits[m] = LadderVisit(c)

PassInv ==
  /\ DOMAIN phase = Runners /\ DOMAIN pending = Runners /\ DOMAIN failures = Runners
  /\ phase[location] = "up" /\ ~pending[location] =>
       \A c \in Cases : Sound(c) => Settled(c, agenda[location])

LEMMA LadderIsSwept == \A c \in Cases : Ladder(WCert[c]) \subseteq Widths(c)
<1>. SUFFICES ASSUME NEW c \in Cases, NEW w \in Ladder(WCert[c])
     PROVE  w \in Widths(c)
  OBVIOUS
<1>1. WCert[c] \in Nat
  BY WCertAssumption
<1>2. w \in MIN_WIDTH..Min({WCert[c] - 2, MAX_WIDTH})
  BY DEF Ladder
<1>. PICK n : n = WCert[c] - 2
  OBVIOUS
<1>3. n \in Int
  BY <1>1
<1>4. Min({n, 63}) = IF n <= 63 THEN n ELSE 63
  BY <1>3, LesserOf
<1>. QED
  BY <1>1, <1>2, <1>3, <1>4 DEF Widths, MIN_WIDTH, MAX_WIDTH

\* A complete case stays complete whatever is sealed.
LEMMA CompleteStays ==
  ASSUME PlanInv, PlanInv', AskInv, NEW j \in live, Seal(j), NEW c \in Cases, LocationComplete(c)
  PROVE  LocationComplete(c)'
<1>0. FilesInv /\ FilesInv' /\ MoreFiles
  BY SealedRange DEF AskInv
<1>1. /\ DOMAIN Measured(c) \subseteq DOMAIN Measured(c)'
      /\ \A w \in DOMAIN Measured(c) : Measured(c)'[w] = Measured(c)[w]
      /\ Covered(c, Wide, LOCATION) => Covered(c, Wide, LOCATION)'
  <2>1. Wide \in Policies(c)
    BY DEF Policies
  <2>. QED
    BY <1>0, <2>1, MoreMeasured
<1>2. DOMAIN Measured(c)' # {} /\ LadderOver(c)'
  BY <1>1 DEF LocationComplete, LadderOver, LadderDone
<1>3. Refine(Measured(c), WCert[c])' = {}
  <2>. PICK E, L, wc, results, more :
         /\ E = truth[c].event[LOCATION] /\ L = truth[c].low[LOCATION]
         /\ wc = WCert[c] /\ results = Measured(c) /\ more = Measured(c)'
    OBVIOUS
  <2>1. E \in Int /\ L \in Int /\ wc \in Nat /\ L <= E
    BY Transitions
  <2>2. Sees(results, wc, E, L) /\ Sees(more, wc, E, L)
    <3>1. Sees(Measured(c), WCert[c], truth[c].event[LOCATION], truth[c].low[LOCATION])'
      BY MeasuredSees, PTL
    <3>. QED
      BY <1>0, <3>1, MeasuredSees DEF MoreFiles
  <2>3. /\ DOMAIN results # {} /\ Refine(results, wc) = {}
        /\ LadderDone(results) \/ Ladder(wc) \subseteq DOMAIN results
    BY DEF LocationComplete, LadderOver
  <2>4. files' = [files EXCEPT ![j.case][j.policy] = @ \cup {<<j.start, j.stop>>}]
    BY DEF Seal
  <2>5. /\ DOMAIN results = {w \in Widths(c) : <<0, LOCATION>> \in files[c][w]}
        /\ DOMAIN more = {w \in Widths(c) : <<0, LOCATION>> \in files'[c][w]}
    BY <1>0, MeasuredIs, MeasuredAfter
  <2>6. Widths(c) \subseteq Policies(c)
    BY DEF Policies
  <2>7. CASE c = j.case /\ j.policy \in Widths(c) /\ <<j.start, j.stop>> = <<0, LOCATION>>
    <3>1. DOMAIN more = DOMAIN results \cup {j.policy}
      <4>1. \A w \in Widths(c) : files'[c][w] = IF w = j.policy THEN files[c][w] \cup {<<0, LOCATION>>}
                                                ELSE files[c][w]
        BY <2>4, <2>6, <2>7 DEF PlanInv
      <4>. QED
        BY <2>5, <2>7, <4>1
    <3>2. Asked(DOMAIN results, wc, E, L, j.policy)
      <4>1. AskedKey(j)
        BY <2>7 DEF AskInv
      <4>. QED
        BY <2>7, <4>1 DEF AskedKey, AskedOf
    <3>3. Refine(more, wc) = {}
      BY <2>1, <2>2, <2>3, <3>1, <3>2, Settles
    <3>. QED
      BY <3>3
  <2>8. CASE ~(c = j.case /\ j.policy \in Widths(c) /\ <<j.start, j.stop>> = <<0, LOCATION>>)
    <3>1. \A w \in Widths(c) : <<0, LOCATION>> \in files'[c][w] <=> <<0, LOCATION>> \in files[c][w]
      <4>. SUFFICES ASSUME NEW w \in Widths(c)
                    PROVE  <<0, LOCATION>> \in files'[c][w] <=> <<0, LOCATION>> \in files[c][w]
        OBVIOUS
      <4>1. \/ files'[c][w] = files[c][w]
            \/ c = j.case /\ w = j.policy /\ files'[c][w] = files[c][w] \cup {<<j.start, j.stop>>}
        BY <2>4, <2>6 DEF PlanInv
      <4>. QED
        BY <2>8, <4>1
    <3>2. DOMAIN more = DOMAIN results
      BY <2>5, <3>1
    <3>3. \A w : w \in Refine(more, wc) <=> w \in Refine(results, wc)
      <4>1. \A w : w \in Refine(results, wc) <=>
              /\ w \in Int /\ w \notin DOMAIN results /\ 2 <= w /\ w < wc
              /\ AskedAbove(DOMAIN results, wc, E, w) \/ AskedBelow(DOMAIN results, L, w)
        BY <2>1, <2>2, RefineIs
      <4>2. \A w : w \in Refine(more, wc) <=>
              /\ w \in Int /\ w \notin DOMAIN more /\ 2 <= w /\ w < wc
              /\ AskedAbove(DOMAIN more, wc, E, w) \/ AskedBelow(DOMAIN more, L, w)
        BY <2>1, <2>2, RefineIs
      <4>. QED
        BY <3>2, <4>1, <4>2
    <3>. QED
      BY <2>3, <3>3
  <2>. QED
    BY <2>7, <2>8
<1>. QED
  BY <1>2, <1>3 DEF LocationComplete

LEMMA SameFiles ==
  ASSUME UNCHANGED <<truth, files>>, NEW c
  PROVE  /\ LocationComplete(c)' <=> LocationComplete(c)
         /\ \A p : Covered(c, p, LOCATION)' <=> Covered(c, p, LOCATION)
<1>1. \A p : Covered(c, p, LOCATION)' <=> Covered(c, p, LOCATION)
  BY DEF Covered
<1>2. \A w : Result(c, w, LOCATION)' = Result(c, w, LOCATION)
  BY DEF Result
<1>3. Measured(c)' = Measured(c)
  BY DEF Measured, Covered, Result, Widths
<1>. QED
  BY <1>1, <1>3 DEF LocationComplete, LadderOver

\* A new pass visits everything.
LEMMA NewPass ==
  ASSUME PassInv, DOMAIN phase' = Runners, DOMAIN pending' = Runners, DOMAIN failures' = Runners,
         agenda'[location] = Agenda(location)
  PROVE  PassInv'
<1>1. ASSUME NEW c \in Cases
      PROVE  Settled(c, agenda[location])'
  BY <1>1, LocationAgenda DEF Settled, WideFirst, LadderVisit, WideVisit
<1>. QED
  BY <1>1 DEF PassInv

\* A step that does not touch the pass of the location runner.
LEMMA SamePass ==
  ASSUME PassInv, DOMAIN phase' = Runners, DOMAIN pending' = Runners, DOMAIN failures' = Runners,
         phase'[location] = phase[location], pending'[location] = pending[location],
         agenda'[location] = agenda[location], failures'[location] = failures[location],
         \A c \in Cases : /\ LocationComplete(c) => LocationComplete(c)'
                          /\ Covered(c, Wide, LOCATION) => Covered(c, Wide, LOCATION)'
  PROVE  PassInv'
<1>1. ASSUME NEW c \in Cases, Sound(c)'
      PROVE  Sound(c)
  BY <1>1 DEF Sound, Failed, Policies, Widths
<1>2. ASSUME NEW c \in Cases, Settled(c, agenda[location])
      PROVE  Settled(c, agenda[location])'
  BY <1>2 DEF Settled, LadderVisit, WideVisit
<1>. QED
  BY <1>1, <1>2 DEF PassInv

\* What a visit that leaves nothing pending has found.
LEMMA VisitSettles ==
  ASSUME PlanInv, AskInv, VisitLocation, ~pending'[location], DOMAIN pending = Runners,
         NEW c \in Cases, Sound(c), Settled(c, agenda[location])
  PROVE  Settled(c, Tail(agenda[location]))
<1>. PICK s, t : s = agenda[location] /\ t = Tail(s)
  OBVIOUS
<1>. PICK d, static : d = Head(s).case /\ static = Head(s).static
  OBVIOUS
<1>1. s \in Seq(LocationVisits) /\ s # << >>
  BY DEF AskInv, VisitLocation, Visiting
<1>2. /\ Len(s) \in Nat /\ 1 <= Len(s) /\ DOMAIN s = 1..Len(s) /\ Head(s) = s[1]
      /\ DOMAIN t = 1..(Len(s) - 1) /\ \A i \in 1..(Len(s) - 1) : t[i] = s[i + 1]
  <2>1. s \in Seq(LocationVisits) /\ s # << >> /\ t = Tail(s)
    BY <1>1
  <2>. QED
    BY ONLY <2>1
<1>. PICK missing :
       missing = IF static # {} THEN {p \in static : ~Covered(d, p, LOCATION)}
                 ELSE IF ~LadderOver(d) THEN Ladder(WCert[d]) \ DOMAIN Measured(d)
                 ELSE Refine(Measured(d), WCert[d])
  OBVIOUS
<1>3. \A q \in missing : Failed(location, d, q)
  <2>1. \E wait : pending' = [pending EXCEPT ![location] =
                     @ \/ wait \/ {Key(d, p, 0) : p \in {q \in missing : ~Failed(location, d, q)}} # {}]
    BY DEF VisitLocation
  <2>2. {Key(d, p, 0) : p \in {q \in missing : ~Failed(location, d, q)}} = {}
    BY <2>1, TwoRunners
  <2>. QED
    BY <2>2
<1>4. /\ \A m \in 1..Len(s) : s[m] = LadderVisit(c) =>
           Covered(c, Wide, LOCATION) \/ \E l \in 1..(m - 1) : s[l] = WideVisit(c)
      /\ LocationComplete(c) \/ \E m \in 1..Len(s) : s[m] = LadderVisit(c)
  BY <1>2 DEF Settled
<1>5. Widths(c) \subseteq Policies(c) /\ Wide \in Policies(c) /\ Ladder(WCert[c]) \subseteq Policies(c)
  BY LadderIsSwept DEF Policies
<1>6. ASSUME NEW m \in 1..(Len(s) - 1), t[m] = LadderVisit(c), ~Covered(c, Wide, LOCATION)
      PROVE  \E l \in 1..(m - 1) : t[l] = WideVisit(c)
  <2>1. m + 1 \in 1..Len(s) /\ s[m + 1] = LadderVisit(c)
    BY <1>2, <1>6
  <2>2. PICK l \in 1..(m + 1 - 1) : s[l] = WideVisit(c)
    BY <1>4, <1>6, <2>1
  <2>3. l # 1
    <3>. SUFFICES ASSUME l = 1 PROVE FALSE
      OBVIOUS
    <3>1. Head(s) = WideVisit(c)
      BY <1>2, <2>2
    <3>2. d = c /\ static = {Wide}
      BY <3>1 DEF WideVisit
    <3>3. Wide \in missing
      BY <1>6, <3>2
    <3>. QED
      BY <1>3, <1>5, <3>2, <3>3 DEF Sound
  <2>4. l - 1 \in 1..(m - 1) /\ l - 1 \in 1..(Len(s) - 1) /\ (l - 1) + 1 = l
    BY <1>2, <2>2, <2>3
  <2>. QED
    BY <1>2, <2>2, <2>4
<1>7. ASSUME ~LocationComplete(c)
      PROVE  \E m \in 1..(Len(s) - 1) : t[m] = LadderVisit(c)
  <2>1. PICK m \in 1..Len(s) : s[m] = LadderVisit(c)
    BY <1>4, <1>7
  <2>2. m # 1
    <3>. SUFFICES ASSUME m = 1 PROVE FALSE
      OBVIOUS
    <3>1. d = c /\ static = {}
      BY <1>2, <2>1 DEF LadderVisit
    <3>2. Covered(c, Wide, LOCATION)
      <4>1. \A l : l \notin 1..(1 - 1)
        OBVIOUS
      <4>. QED
        BY <1>2, <1>4, <2>1, <4>1
    <3>3. LadderOver(c)
      <4>. SUFFICES ASSUME ~LadderOver(c) PROVE FALSE
        OBVIOUS
      <4>1. missing = Ladder(WCert[c]) \ DOMAIN Measured(c)
        BY <3>1
      <4>2. Ladder(WCert[c]) \subseteq DOMAIN Measured(c)
        BY <1>3, <1>5, <3>1, <4>1 DEF Sound
      <4>. QED
        BY <3>2, <4>2 DEF LadderOver
    <3>4. missing = Refine(Measured(c), WCert[c])
      BY <3>1, <3>3
    <3>5. Refine(Measured(c), WCert[c]) \subseteq Widths(c)
      <4>1. WCert[c] \in Nat
        BY WCertAssumption
      <4>2. /\ truth[c].event[LOCATION] \in Int /\ truth[c].low[LOCATION] \in Int
            /\ Sees(Measured(c), WCert[c], truth[c].event[LOCATION], truth[c].low[LOCATION])
        BY Transitions, MeasuredSees
      <4>3. \A w \in Refine(Measured(c), WCert[c]) : w \in Int /\ 2 <= w /\ w < WCert[c]
        BY ONLY <4>1, <4>2, RefineIs
      <4>. QED
        BY <4>1, <4>3 DEF Widths, MIN_WIDTH
    <3>6. Refine(Measured(c), WCert[c]) = {}
      BY <1>3, <1>5, <3>1, <3>4, <3>5 DEF Sound
    <3>7. DOMAIN Measured(c) # {}
      BY <3>3 DEF Sound, LadderOver, LadderDone
    <3>. QED
      BY <1>7, <3>3, <3>6, <3>7 DEF LocationComplete
  <2>3. m - 1 \in 1..(Len(s) - 1) /\ (m - 1) + 1 = m
    BY <1>2, <2>2
  <2>. QED
    BY <1>2, <2>1, <2>3
<1>. QED
  BY <1>2, <1>6, <1>7 DEF Settled

LEMMA PassKept == PlanInv /\ RangeInv /\ AskInv /\ PassInv /\ SweepNext => PassInv'
<1>. SUFFICES ASSUME PlanInv, RangeInv, AskInv, PassInv, SweepNext
     PROVE  PassInv'
  OBVIOUS
<1>0. DOMAIN phase = Runners /\ DOMAIN pending = Runners /\ DOMAIN failures = Runners
      /\ DOMAIN agenda = Runners /\ PlanInv' /\ FilesInv
  BY PlanKept DEF PassInv, AskInv
<1>same. ASSUME UNCHANGED <<truth, files>>, NEW c \in Cases
         PROVE  /\ LocationComplete(c) => LocationComplete(c)'
                /\ Covered(c, Wide, LOCATION) => Covered(c, Wide, LOCATION)'
  BY <1>same, SameFiles
<1>1. ASSUME NEW r \in Runners, Launch(r) \/ Try(r)
      PROVE  PassInv'
  <2>1. UNCHANGED <<truth, files, phase, pending, agenda, failures>>
    BY <1>1 DEF Launch, Try
  <2>. QED
    BY <1>0, <1>same, <2>1, SamePass
<1>2. CASE VisitLocation
  <2>1. UNCHANGED <<truth, files, phase, failures>> /\ DOMAIN pending' = Runners
        /\ (~pending'[location] => ~pending[location])
    <3>1. \E p : pending' = [pending EXCEPT ![location] = @ \/ p]
      BY <1>2 DEF VisitLocation
    <3>2. UNCHANGED <<truth, files, phase, failures>>
      BY <1>2 DEF VisitLocation
    <3>. QED
      BY <1>0, <3>1, <3>2, TwoRunners
  <2>2. agenda'[location] = Tail(agenda[location])
    BY <1>2, VisitAsks
  <2>3. ASSUME phase'[location] = "up", ~pending'[location], NEW c \in Cases, Sound(c)'
        PROVE  Settled(c, agenda[location])'
    <3>1. Sound(c)
      BY <2>1, <2>3 DEF Sound, Failed, Policies, Widths
    <3>2. Settled(c, agenda[location])
      BY <2>1, <2>3, <3>1 DEF PassInv
    <3>3. Settled(c, Tail(agenda[location]))
      BY <1>0, <1>2, <2>3, <3>1, <3>2, VisitSettles
    <3>4. /\ LocationComplete(c) => LocationComplete(c)'
          /\ Covered(c, Wide, LOCATION) => Covered(c, Wide, LOCATION)'
      BY <1>same, <2>1
    <3>. QED
      BY <2>2, <3>3, <3>4 DEF Settled, LadderVisit, WideVisit
  <2>. QED
    BY <1>0, <2>1, <2>3 DEF PassInv
<1>3. CASE VisitScreen
  <2>1. /\ UNCHANGED <<truth, files, phase, failures>> /\ DOMAIN pending' = Runners
        /\ pending'[location] = pending[location] /\ agenda'[location] = agenda[location]
    <3>1. /\ \E p : pending' = [pending EXCEPT ![screen] = p]
          /\ agenda' = [agenda EXCEPT ![screen] = Tail(@)]
          /\ UNCHANGED <<truth, files, phase, failures>>
      BY <1>3 DEF VisitScreen, SkipCase, QueueCase
    <3>. QED
      BY <1>0, <3>1, TwoRunners
  <2>. QED
    BY <1>0, <1>same, <2>1, SamePass
<1>4. ASSUME NEW r \in Runners, Finish(r) \/ Kill(r)
      PROVE  PassInv'
  <2>1. /\ UNCHANGED <<truth, files>>
        /\ \E p \in {"done", "down"} : phase' = [phase EXCEPT ![r] = p]
        /\ pending' = [pending EXCEPT ![r] = FALSE] /\ agenda' = [agenda EXCEPT ![r] = << >>]
        /\ \E f : failures' = [failures EXCEPT ![r] = f]
    BY <1>4 DEF Finish, Kill, Forget, Fresh
  <2>2. DOMAIN phase' = Runners /\ DOMAIN pending' = Runners /\ DOMAIN failures' = Runners
    BY <1>0, <2>1
  <2>3. CASE r = location
    <3>1. phase'[location] # "up"
      BY <1>0, <2>1, <2>3
    <3>. QED
      BY <2>2, <3>1 DEF PassInv
  <2>4. CASE r # location
    <3>1. /\ phase'[location] = phase[location] /\ pending'[location] = pending[location]
          /\ agenda'[location] = agenda[location] /\ failures'[location] = failures[location]
      BY <1>0, <2>1, <2>4, TwoRunners
    <3>. QED
      BY <1>same, <2>1, <2>2, <3>1, SamePass
  <2>. QED
    BY <2>3, <2>4
<1>5. ASSUME NEW r \in Runners, NextPass(r) \/ Start(r)
      PROVE  PassInv'
  <2>1. /\ UNCHANGED <<truth, files>>
        /\ phase' = phase \/ phase' = [phase EXCEPT ![r] = "up"]
        /\ pending' = [pending EXCEPT ![r] = FALSE] /\ agenda' = [agenda EXCEPT ![r] = Agenda(r)]
        /\ failures' = failures \/ \E f : failures' = [failures EXCEPT ![r] = f]
    BY <1>5 DEF NextPass, Start, Fresh
  <2>2. DOMAIN phase' = Runners /\ DOMAIN pending' = Runners /\ DOMAIN failures' = Runners
    BY <1>0, <2>1
  <2>3. CASE r = location
    <3>1. agenda'[location] = Agenda(location)
      BY <1>0, <2>1, <2>3
    <3>. QED
      BY <2>2, <3>1, NewPass
  <2>4. CASE r # location
    <3>1. /\ phase'[location] = phase[location] /\ pending'[location] = pending[location]
          /\ agenda'[location] = agenda[location] /\ failures'[location] = failures[location]
      BY <1>0, <2>1, <2>4, TwoRunners
    <3>. QED
      BY <1>same, <2>1, <2>2, <3>1, SamePass
  <2>. QED
    BY <2>3, <2>4
<1>6. CASE Exit
  <2>1. PICK j \in live : Seal(j) \/ Fail(j)
    BY <1>6 DEF Exit
  <2>2. UNCHANGED <<phase, pending, agenda, failures>>
    BY <2>1 DEF Seal, Fail, Exited, passVars
  <2>3. ASSUME NEW c \in Cases
        PROVE  /\ LocationComplete(c) => LocationComplete(c)'
               /\ Covered(c, Wide, LOCATION) => Covered(c, Wide, LOCATION)'
    <3>1. CASE Seal(j)
      <4>1. LocationComplete(c) => LocationComplete(c)'
        BY <1>0, <3>1, CompleteStays
      <4>2. FilesInv' /\ MoreFiles
        BY <3>1, SealedRange
      <4>3. Wide \in Policies(c)
        BY DEF Policies
      <4>. QED
        BY <1>0, <4>1, <4>2, <4>3, MoreMeasured
    <3>2. CASE Fail(j)
      BY <1>same, <3>2 DEF Fail, Exited
    <3>. QED
      BY <2>1, <3>1, <3>2
  <2>. QED
    BY <1>0, <2>2, <2>3, SamePass
<1>. QED
  BY <1>1, <1>2, <1>3, <1>4, <1>5, <1>6 DEF SweepNext, Run

EndInv == PlanInv /\ RangeInv /\ AskInv /\ PassInv

LEMMA EndInitially == SweepInit => EndInv
<1>. SUFFICES ASSUME SweepInit
     PROVE  EndInv
  OBVIOUS
<1>1. PlanInv
  BY PlanInitially
<1>2. RangeInv
  BY DEF SweepInit, RangeInv
<1>3. AskInv
  <2>1. FilesInv
    BY DEF SweepInit, FilesInv
  <2>. QED
    BY <2>1, TwoRunners DEF SweepInit, AskInv
<1>4. PassInv
  BY TwoRunners DEF SweepInit, PassInv
<1>. QED
  BY <1>1, <1>2, <1>3, <1>4 DEF EndInv

LEMMA EndKept == EndInv /\ [SweepNext]_sweepVars => EndInv'
<1>. SUFFICES ASSUME EndInv, [SweepNext]_sweepVars
     PROVE  EndInv'
  OBVIOUS
<1>0. PlanInv /\ RangeInv /\ AskInv /\ PassInv /\ FilesInv
  BY DEF EndInv, AskInv
<1>1. CASE SweepNext
  BY <1>0, <1>1, PlanKept, RangeKept, AskKept, PassKept DEF EndInv
<1>2. CASE UNCHANGED sweepVars
  <2>1. UNCHANGED <<truth, files, live, phase, agenda, attempt, chosen, pending, failures>>
    BY <1>2 DEF sweepVars, passVars
  <2>2. PlanInv'
    BY <1>0, <2>1, PlanKept, <1>2
  <2>3. RangeInv'
    BY <1>0, <2>1 DEF RangeInv, Stop
  <2>4. FilesInv' /\ MoreFiles
    BY <1>0, <2>1 DEF FilesInv, MoreFiles, Policies, Widths
  <2>5. AskInv'
    BY <1>0, <2>1, <2>2, <2>4, AskFrom DEF AskInv
  <2>6. PassInv'
    BY <1>0, <2>1, SameFiles, SamePass DEF PassInv
  <2>. QED
    BY <2>2, <2>3, <2>5, <2>6 DEF EndInv
<1>. QED
  BY <1>1, <1>2

\* LocationEndsComplete for every set of cases and policies and any number of
\* starts, deaths and failures: location.done is only written over cases that
\* are complete, that have no ladder, or that have a job that failed for good.
THEOREM LocationEnds == SweepSpec => LocationEndsComplete
<1>1. ASSUME EndInv, [SweepNext]_sweepVars, NEW c \in Cases,
             phase[location] = "up", phase'[location] = "done"
      PROVE  \/ LocationComplete(c)
             \/ Ladder(WCert[c]) = {}
             \/ \E p \in Policies(c) : Failed(location, c, p)
  <2>0. PassInv
    BY <1>1 DEF EndInv
  <2>1. Finish(location)
    <3>1. \A r \in Runners : Start(r) => phase' = [phase EXCEPT ![r] = "up"]
      BY DEF Start
    <3>2. \A r \in Runners : Kill(r) => phase' = [phase EXCEPT ![r] = "down"]
      BY DEF Kill
    <3>3. \A r \in Runners : Finish(r) /\ r # location => phase'[location] = phase[location]
      BY <2>0, TwoRunners DEF Finish, PassInv
    <3>4. \/ phase' = phase
          \/ \E r \in Runners : Finish(r) \/ Start(r) \/ Kill(r)
      BY <1>1 DEF SweepNext, Run, Launch, Try, NextPass, VisitLocation, VisitScreen,
                  Exit, Seal, Fail, Exited, sweepVars
    <3>. QED
      BY <1>1, <2>0, <3>1, <3>2, <3>3, <3>4, TwoRunners DEF PassInv
  <2>2. agenda[location] = << >> /\ ~pending[location]
    BY <2>1, TwoRunners DEF Finish, PassOver, Over
  <2>3. Sound(c) => Settled(c, << >>)
    BY <1>1, <2>0, <2>2 DEF PassInv
  <2>. QED
    BY <2>3 DEF Settled, Sound
<1>2. EndInv /\ [SweepNext]_sweepVars =>
        [\A c \in Cases : phase[location] = "up" /\ phase'[location] = "done" =>
           \/ LocationComplete(c)
           \/ Ladder(WCert[c]) = {}
           \/ \E p \in Policies(c) : Failed(location, c, p)]_sweepVars
  BY <1>1
<1>. QED
  BY <1>2, EndInitially, EndKept, PTL DEF SweepSpec, LocationEndsComplete

=============================================================================
