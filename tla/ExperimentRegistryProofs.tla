---------------------- MODULE ExperimentRegistryProofs ----------------------
(***************************************************************************)
(* Proofs about the registry for every set of experiments and workers,     *)
(* every stale timeout and lock wait, and every bound; then about the      *)
(* scheduler whose threads are its workers.                                *)
(***************************************************************************)
EXTENDS LocalScheduler, FiniteSetTheorems, SequenceTheorems, TLAPS

(* The attempts of e have a maximum, so the next attempt number exists. *)
Attempts(e) == {0} \cup {runs[i].attempt : i \in RunsOf(e)}

HasLatestAttempt == \A e \in Experiments : \E n \in Attempts(e) : \A m \in Attempts(e) : m <= n

IInv == TypeOK /\ OneLiveOrCompletedRun /\ HasLatestAttempt

-----------------------------------------------------------------------------
(* Data *)

LEMMA NoMetricsAreMetrics == NoMetrics \in Metrics
  BY DEF NoMetrics, Metrics, PartialMaps

LEMMA ReplaceStaysFinite ==
  ASSUME NEW old \in Metrics, NEW new \in Reported, Finite(new)
  PROVE  Replace(old, new) \in Metrics
  <1>1. PICK D \in SUBSET MetricNames : old \in [D -> Values]
    BY DEF Metrics, PartialMaps
  <1>2. PICK E \in SUBSET MetricNames : new \in [E -> Values \cup {NotFinite}]
    BY DEF Reported, PartialMaps
  <1>3. new \in [E -> Values]
    BY <1>2 DEF Finite
  <1>4. Replace(old, new) \in [D \cup E -> Values]
    BY <1>1, <1>3 DEF Replace
  <1>. QED
    BY <1>1, <1>2, <1>4 DEF Metrics, PartialMaps

LEMMA NewRunIsRun ==
  ASSUME NEW e \in Experiments, NEW n \in Nat, NEW s \in VALID_STATUSES
  PROVE  NewRun(e, n, s) \in Run
  BY NoMetricsAreMetrics DEF NewRun, Run

LEMMA NewRunColumns ==
  \A e, n, s : /\ NewRun(e, n, s).exp = e
               /\ NewRun(e, n, s).attempt = n
               /\ NewRun(e, n, s).status = s
  BY DEF NewRun

LEMMA RowIsRun ==
  ASSUME TypeOK, NEW i \in RunIds
  PROVE  runs[i] \in Run
  BY ElementOfSeq DEF TypeOK, RunIds

LEMMA NextAttemptIsAbove ==
  ASSUME TypeOK, HasLatestAttempt, NEW e \in Experiments
  PROVE  /\ NextAttempt(e) \in Nat \ {0}
         /\ \A i \in RunsOf(e) : runs[i].attempt < NextAttempt(e)
         /\ \A n \in Attempts(e) : (\A m \in Attempts(e) : m <= n) => NextAttempt(e) = n + 1
  <1>. DEFINE top == CHOOSE n \in Attempts(e) : \A m \in Attempts(e) : m <= n
  <1>1. \A i \in RunsOf(e) : runs[i].attempt \in Nat
    BY RowIsRun DEF Run, RunsOf
  <1>2. top \in Attempts(e) /\ \A m \in Attempts(e) : m <= top
    BY DEF HasLatestAttempt
  <1>3. Attempts(e) \subseteq Nat
    BY <1>1 DEF Attempts
  <1>4. NextAttempt(e) = top + 1
    BY DEF NextAttempt, Attempts
  <1>. HIDE DEF top
  <1>5. \A i \in RunsOf(e) : runs[i].attempt \in Attempts(e)
    BY DEF Attempts
  <1>. QED
    BY <1>1, <1>2, <1>3, <1>4, <1>5

LEMMA ConcatRows ==
  ASSUME NEW S, NEW s \in Seq(S), NEW t \in Seq(S)
  PROVE  /\ s \o t \in Seq(S)
         /\ Len(s \o t) = Len(s) + Len(t)
         /\ \A i \in 1..Len(s) : (s \o t)[i] = s[i]
         /\ \A k \in 1..Len(t) : (s \o t)[Len(s) + k] = t[k]
  BY ConcatProperties

-----------------------------------------------------------------------------
(* The three ways a call changes the table *)

LiveOrCompleted == {"PENDING", "RUNNING", "COMPLETED"}

(* Attempts only depend on which rows there are and on their first columns. *)
LEMMA SameNumbering ==
  ASSUME HasLatestAttempt, RunIds' = RunIds,
         \A j \in RunIds : runs'[j].exp = runs[j].exp /\ runs'[j].attempt = runs[j].attempt
  PROVE  HasLatestAttempt'
  <1>1. \A e : RunsOf(e)' = RunsOf(e)
    BY DEF RunsOf
  <1>2. \A e : \A i \in RunsOf(e) : runs'[i].attempt = runs[i].attempt
    BY DEF RunsOf
  <1>3. \A e : Attempts(e)' = Attempts(e)
    BY <1>1, <1>2 DEF Attempts
  <1>. QED
    BY <1>3 DEF HasLatestAttempt

LEMMA UpdateRow ==
  ASSUME IInv, NEW i \in RunIds, NEW r \in Run,
         runs[i].status \in LiveOrCompleted,
         r.exp = runs[i].exp, r.attempt = runs[i].attempt,
         runs' = [runs EXCEPT ![i] = r], leases' \in Nat, clock' \in Nat
  PROVE  IInv'
  <1>1. runs \in Seq(Run)
    BY DEF IInv, TypeOK
  <1>2. runs' \in Seq(Run) /\ Len(runs') = Len(runs)
    BY <1>1, ExceptSeq DEF RunIds
  <1>3. RunIds' = RunIds
    BY <1>2 DEF RunIds
  <1>4. \A j \in RunIds : runs'[j] = IF j = i THEN r ELSE runs[j]
    BY <1>1 DEF RunIds
  <1>5. \A j \in RunIds : runs'[j].exp = runs[j].exp /\ runs'[j].attempt = runs[j].attempt
    BY <1>4
  <1>6. HasLatestAttempt'
    BY <1>3, <1>5, SameNumbering DEF IInv
  <1>7. \A j \in RunIds : runs'[j].status \in LiveOrCompleted => runs[j].status \in LiveOrCompleted
    BY <1>4
  <1>8. OneLiveOrCompletedRun'
    BY <1>3, <1>5, <1>7 DEF IInv, OneLiveOrCompletedRun, InStatus, LiveOrCompleted
  <1>. QED
    BY <1>2, <1>6, <1>8 DEF IInv, TypeOK

LEMMA InsertRow ==
  ASSUME IInv, NEW e \in Experiments, NEW s \in VALID_STATUSES,
         runs' = Append(runs, NewRun(e, NextAttempt(e), s)),
         s \in LiveOrCompleted => RunsOf(e) \cap InStatus(LiveOrCompleted) = {},
         UNCHANGED <<leases, clock>>
  PROVE  IInv'
  <1>. DEFINE n == Len(runs) + 1
              r == NewRun(e, NextAttempt(e), s)
  <1>1. runs \in Seq(Run) /\ Len(runs) \in Nat
    BY DEF IInv, TypeOK
  <1>2. NextAttempt(e) \in Nat \ {0} /\ \A i \in RunsOf(e) : runs[i].attempt < NextAttempt(e)
    BY NextAttemptIsAbove DEF IInv
  <1>3. r \in Run
    BY <1>2, NewRunIsRun
  <1>4. r.exp = e /\ r.attempt = NextAttempt(e) /\ r.status = s
    BY DEF NewRun
  <1>5. /\ runs' \in Seq(Run)
        /\ RunIds' = RunIds \cup {n}
        /\ n \notin RunIds
        /\ runs'[n] = r
        /\ \A j \in RunIds : runs'[j] = runs[j]
    BY <1>1, <1>3, AppendProperties DEF RunIds
  <1>. HIDE DEF n, r
  <1>6. OneLiveOrCompletedRun'
    <2> SUFFICES ASSUME NEW i \in RunIds', NEW j \in RunIds',
                        runs'[i].status \in LiveOrCompleted, runs'[j].status \in LiveOrCompleted,
                        runs'[i].exp = runs'[j].exp
                 PROVE  i = j
      BY DEF OneLiveOrCompletedRun, InStatus, LiveOrCompleted
    <2>1. \A k \in RunIds : runs[k].exp = e /\ runs[k].status \in LiveOrCompleted => s \notin LiveOrCompleted
      BY DEF RunsOf, InStatus
    <2>2. CASE i \in RunIds /\ j \in RunIds
      BY <2>2, <1>5 DEF IInv, OneLiveOrCompletedRun, InStatus, LiveOrCompleted
    <2>3. CASE i = n /\ j \in RunIds
      BY <2>3, <2>1, <1>4, <1>5
    <2>4. CASE j = n /\ i \in RunIds
      BY <2>4, <2>1, <1>4, <1>5
    <2>. QED
      BY <2>2, <2>3, <2>4, <1>5
  <1>7. HasLatestAttempt'
    <2> SUFFICES ASSUME NEW f \in Experiments
                 PROVE  \E k \in Attempts(f)' : \A m \in Attempts(f)' : m <= k
      BY DEF HasLatestAttempt
    <2>1. CASE f = e
      <3>1. RunsOf(e)' = RunsOf(e) \cup {n}
        BY <1>4, <1>5 DEF RunsOf
      <3>2. \A i \in RunsOf(e) : runs'[i] = runs[i]
        BY <1>5 DEF RunsOf
      <3>3. Attempts(e)' = Attempts(e) \cup {NextAttempt(e)}
        <4>1. runs'[n].attempt = NextAttempt(e)
          BY <1>4, <1>5
        <4>2. {runs'[i].attempt : i \in RunsOf(e) \cup {n}}
                = {runs[i].attempt : i \in RunsOf(e)} \cup {NextAttempt(e)}
          BY <4>1, <3>2
        <4>. QED
          BY <3>1, <4>2 DEF Attempts
      <3>4. \A m \in Attempts(e) : m <= NextAttempt(e)
        BY <1>2, RowIsRun DEF Attempts, IInv, RunsOf, Run
      <3>. QED
        BY <2>1, <3>3, <3>4, <1>2
    <2>2. CASE f # e
      <3>1. RunsOf(f)' = RunsOf(f)
        BY <2>2, <1>4, <1>5 DEF RunsOf
      <3>2. \A i \in RunsOf(f) : runs'[i] = runs[i]
        BY <1>5 DEF RunsOf
      <3>3. Attempts(f)' = Attempts(f)
        BY <3>1, <3>2 DEF Attempts
      <3>. QED
        BY <3>3 DEF IInv, HasLatestAttempt
    <2>. QED
      BY <2>1, <2>2
  <1>. QED
    BY <1>1, <1>5, <1>6, <1>7 DEF IInv, TypeOK

(* What a recovery pass does to the table, with one new row per stale one. *)
Recovers(scope, now, K, order) ==
  /\ K \in Nat
  /\ runs' \in Seq(Run)
  /\ Len(runs') = Len(runs) + K
  /\ \A i \in RunIds :
       runs'[i] = IF i \in Stale(scope, now)
                  THEN [runs[i] EXCEPT !.status = "FAILED"] ELSE runs[i]
  /\ \A k \in 1..K :
       /\ order[k] \in Stale(scope, now)
       /\ runs'[Len(runs) + k] =
            NewRun(runs[order[k]].exp, NextAttempt(runs[order[k]].exp), "PENDING")
  /\ \A j, k \in 1..K : runs[order[j]].exp = runs[order[k]].exp => j = k
  /\ \A i \in Stale(scope, now) : \E k \in 1..K : order[k] = i

(* A recovery pass fails the stale rows and appends one attempt for each of
   them: no two stale rows share an experiment. *)
LEMMA RecoveryRows ==
  ASSUME IInv, NEW scope, NEW now \in Nat, recover_stale(scope, now)
  PROVE  \E K, order : Recovers(scope, now, K, order)
  <1>s. PICK stale : stale = Stale(scope, now)
    OBVIOUS
  <1>k. PICK K : K = Cardinality(stale)
    OBVIOUS
  <1>o. PICK order \in Orders(stale) :
          runs' = [i \in RunIds |-> IF i \in stale
                                    THEN [runs[i] EXCEPT !.status = "FAILED"] ELSE runs[i]]
                  \o [k \in 1..K |-> Retry(order, k)]
    BY <1>s, <1>k DEF recover_stale
  <1>. DEFINE kept == [i \in RunIds |-> IF i \in stale THEN [runs[i] EXCEPT !.status = "FAILED"]
                                                        ELSE runs[i]]
              added == [k \in 1..K |-> Retry(order, k)]
  <1>1. runs \in Seq(Run) /\ Len(runs) \in Nat
    BY DEF IInv, TypeOK
  <1>2. stale \subseteq RunIds /\ \A i \in stale : runs[i].status = "RUNNING"
    BY <1>s DEF Stale, InStatus
  <1>3. IsFiniteSet(stale) /\ K \in Nat
    <2>1. IsFiniteSet(RunIds)
      BY <1>1, FS_Interval DEF RunIds
    <2>. QED
      BY <2>1, <1>2, <1>k, FS_Subset, FS_CardinalityType
  <1>4. order \in [1..K -> stale] /\ \A j, k \in 1..K : order[j] = order[k] => j = k
    BY <1>k DEF Orders
  <1>5. \A j, k \in 1..K : runs[order[j]].exp = runs[order[k]].exp => j = k
    BY <1>2, <1>4 DEF IInv, OneLiveOrCompletedRun, InStatus
  <1>6. ASSUME NEW k \in 1..K
        PROVE  Retry(order, k) = NewRun(runs[order[k]].exp, NextAttempt(runs[order[k]].exp), "PENDING")
    <2>. DEFINE e == runs[order[k]].exp
    <2>1. e \in Experiments
      BY <1>2, <1>4, RowIsRun DEF IInv, Run
    <2>2. {j \in 1..(k - 1) : runs[order[j]].exp = e} = {}
      BY <1>3, <1>5
    <2>3. Cardinality({j \in 1..(k - 1) : runs[order[j]].exp = e}) = 0
      BY <2>2, FS_EmptySet
    <2>4. NextAttempt(e) \in Nat
      BY <2>1, NextAttemptIsAbove DEF IInv
    <2>5. Retry(order, k) = NewRun(e, NextAttempt(e) + Cardinality({j \in 1..(k - 1) : runs[order[j]].exp = e}), "PENDING")
      BY DEF Retry
    <2>. HIDE DEF e
    <2>6. Retry(order, k) = NewRun(e, NextAttempt(e), "PENDING")
      BY <2>3, <2>4, <2>5
    <2>. QED
      BY <2>6 DEF e
  <1>7. kept \in Seq(Run) /\ Len(kept) = Len(runs)
    <2>1. \A i \in RunIds : kept[i] \in Run
      BY RowIsRun DEF IInv, Run, VALID_STATUSES
    <2>. QED
      BY <2>1, <1>1 DEF RunIds
  <1>8. added \in Seq(Run) /\ Len(added) = K
    <2>1. ASSUME NEW k \in 1..K PROVE added[k] \in Run
      <3>1. runs[order[k]].exp \in Experiments
        BY <1>2, <1>4, RowIsRun DEF IInv, Run
      <3>2. NextAttempt(runs[order[k]].exp) \in Nat
        BY <3>1, NextAttemptIsAbove DEF IInv
      <3>. QED
        BY <3>1, <3>2, <1>6, NewRunIsRun DEF VALID_STATUSES
    <2>. QED
      BY <2>1, <1>3
  <1>9. runs' = kept \o added
    BY <1>o
  <1>10. \A i \in RunIds : kept[i] = IF i \in stale THEN [runs[i] EXCEPT !.status = "FAILED"] ELSE runs[i]
    OBVIOUS
  <1>11. \A k \in 1..K : added[k] = NewRun(runs[order[k]].exp, NextAttempt(runs[order[k]].exp), "PENDING")
    BY <1>6
  <1>. HIDE DEF kept, added
  <1>12. /\ kept \o added \in Seq(Run)
         /\ Len(kept \o added) = Len(kept) + Len(added)
         /\ \A i \in 1..Len(kept) : (kept \o added)[i] = kept[i]
         /\ \A k \in 1..Len(added) : (kept \o added)[Len(kept) + k] = added[k]
    <2>1. kept \in Seq(Run) /\ added \in Seq(Run)
      BY <1>7, <1>8
    <2>. QED
      BY ONLY <2>1, ConcatRows
  <1>13. runs' \in Seq(Run) /\ Len(runs') = Len(runs) + K
    BY <1>7, <1>8, <1>9, <1>12
  <1>14. /\ \A i \in RunIds : runs'[i] = kept[i]
         /\ \A k \in 1..K : runs'[Len(runs) + k] = added[k]
    BY <1>7, <1>8, <1>9, <1>12 DEF RunIds
  <1>15. \A k \in 1..K : order[k] \in stale
    BY <1>4
  <1>16. \A i \in RunIds :
           runs'[i] = IF i \in stale THEN [runs[i] EXCEPT !.status = "FAILED"] ELSE runs[i]
    BY ONLY <1>10, <1>14
  <1>17. \A k \in 1..K :
           /\ order[k] \in stale
           /\ runs'[Len(runs) + k] =
                NewRun(runs[order[k]].exp, NextAttempt(runs[order[k]].exp), "PENDING")
    BY ONLY <1>11, <1>14, <1>15
  <1>18. \A i \in stale : \E k \in 1..K : order[k] = i
    <2>1. order \in Injection(1..K, stale)
      BY <1>4 DEF Injection, IsInjective
    <2>2. IsFiniteSet(1..K) /\ Cardinality(1..K) = K
      BY <1>3, FS_Interval
    <2>3. order \in Surjection(1..K, stale)
      BY <1>k, <1>3, <2>1, <2>2, FS_Injection
    <2>. QED
      BY <2>3 DEF Surjection
  <1>19. \A i \in RunIds :
           runs'[i] = IF i \in Stale(scope, now)
                      THEN [runs[i] EXCEPT !.status = "FAILED"] ELSE runs[i]
    BY ONLY <1>s, <1>16
  <1>20. \A k \in 1..K :
           /\ order[k] \in Stale(scope, now)
           /\ runs'[Len(runs) + k] =
                NewRun(runs[order[k]].exp, NextAttempt(runs[order[k]].exp), "PENDING")
    BY ONLY <1>s, <1>17
  <1>21. \A i \in Stale(scope, now) : \E k \in 1..K : order[k] = i
    BY ONLY <1>s, <1>18
  <1>22. Recovers(scope, now, K, order)
    BY ONLY <1>3, <1>5, <1>13, <1>19, <1>20, <1>21 DEF Recovers
  <1>. QED
    BY <1>22

LEMMA RecoverStep ==
  ASSUME IInv, NEW scope, NEW now \in Nat, recover_stale(scope, now)
  PROVE  IInv'
  <1>. DEFINE stale == Stale(scope, now)
  <1>2. PICK K, order : Recovers(scope, now, K, order)
    BY RecoveryRows
  <1>. HIDE DEF stale
  <1>a. \A i \in RunIds :
          runs'[i] = IF i \in stale THEN [runs[i] EXCEPT !.status = "FAILED"] ELSE runs[i]
    BY ONLY <1>2 DEF stale, Recovers
  <1>b. \A k \in 1..K :
          /\ order[k] \in stale
          /\ runs'[Len(runs) + k] =
               NewRun(runs[order[k]].exp, NextAttempt(runs[order[k]].exp), "PENDING")
    BY ONLY <1>2 DEF stale, Recovers
  <1>c. \A j, k \in 1..K : runs[order[j]].exp = runs[order[k]].exp => j = k
    BY ONLY <1>2 DEF stale, Recovers
  <1>d. K \in Nat /\ runs' \in Seq(Run) /\ Len(runs') = Len(runs) + K
    BY ONLY <1>2 DEF stale, Recovers
  <1>3. Len(runs) \in Nat
    BY DEF IInv, TypeOK
  <1>4. stale \subseteq RunIds /\ \A i \in stale : runs[i].status = "RUNNING"
    BY DEF stale, Stale, InStatus
  <1>5. /\ RunIds' = RunIds \cup {Len(runs) + k : k \in 1..K}
        /\ RunIds \subseteq RunIds'
    <2>1. RunIds = 1..Len(runs) /\ RunIds' = 1..(Len(runs) + K)
      BY <1>d DEF RunIds
    <2>2. \A L, M \in Nat : /\ 1..(L + M) = 1..L \cup {L + k : k \in 1..M}
                            /\ 1..L \subseteq 1..(L + M)
      OBVIOUS
    <2>. QED
      BY ONLY <2>1, <2>2, <1>3, <1>d
  <1>6. \A i \in RunIds : runs'[i].exp = runs[i].exp /\ runs'[i].attempt = runs[i].attempt
    BY <1>a, RowIsRun DEF IInv, Run
  <1>7. \A k \in 1..K : /\ runs'[Len(runs) + k].exp = runs[order[k]].exp
                        /\ runs'[Len(runs) + k].attempt = NextAttempt(runs[order[k]].exp)
    BY ONLY <1>b, NewRunColumns
  <1>8. \A i \in RunIds : runs'[i].status \in LiveOrCompleted =>
          i \notin stale /\ runs[i].status \in LiveOrCompleted
    BY <1>a, RowIsRun DEF IInv, Run, LiveOrCompleted
  <1>9. OneLiveOrCompletedRun'
    <2> SUFFICES ASSUME NEW i \in RunIds', NEW j \in RunIds',
                        runs'[i].status \in LiveOrCompleted, runs'[j].status \in LiveOrCompleted,
                        runs'[i].exp = runs'[j].exp
                 PROVE  i = j
      BY DEF OneLiveOrCompletedRun, InStatus, LiveOrCompleted
    <2>0. \A a, b \in RunIds : runs[a].status \in LiveOrCompleted /\ runs[b].status \in LiveOrCompleted
            /\ runs[a].exp = runs[b].exp => a = b
      BY DEF IInv, OneLiveOrCompletedRun, InStatus, LiveOrCompleted
    <2>1. \A a \in RunIds, k \in 1..K :
            runs'[a].status \in LiveOrCompleted => runs[a].exp # runs[order[k]].exp
      BY <2>0, <1>b, <1>4, <1>8 DEF LiveOrCompleted
    <2>2. CASE i \in RunIds /\ j \in RunIds
      BY <2>2, <2>0, <1>6, <1>8
    <2>3. ASSUME NEW a \in RunIds, NEW k \in 1..K,
                 runs'[a].status \in LiveOrCompleted,
                 runs'[a].exp = runs'[Len(runs) + k].exp
          PROVE  FALSE
      BY <2>3, <2>1, <1>6, <1>7
    <2>4. ASSUME NEW k \in 1..K, NEW l \in 1..K,
                 runs'[Len(runs) + k].exp = runs'[Len(runs) + l].exp
          PROVE  k = l
      BY <2>4, <1>c, <1>7
    <2>. QED
      BY <2>2, <2>3, <2>4, <1>5
  <1>10. HasLatestAttempt'
    <2> SUFFICES ASSUME NEW f \in Experiments
                 PROVE  \E k \in Attempts(f)' : \A m \in Attempts(f)' : m <= k
      BY DEF HasLatestAttempt
    <2>1. \A i \in RunsOf(f) : runs'[i].attempt = runs[i].attempt
      BY <1>6 DEF RunsOf
    <2>2. CASE \E k \in 1..K : runs[order[k]].exp = f
      <3>1. PICK k \in 1..K : runs[order[k]].exp = f
        BY <2>2
      <3>. DEFINE n == Len(runs) + k
      <3>2. RunsOf(f)' = RunsOf(f) \cup {n}
        <4>1. \A l \in 1..K : runs'[Len(runs) + l].exp = f <=> l = k
          BY ONLY <3>1, <1>c, <1>7
        <4>2. \A i \in RunIds' : runs'[i].exp = f <=> i = n \/ (i \in RunIds /\ runs[i].exp = f)
          BY <4>1, <1>5, <1>6
        <4>3. n \in RunIds'
          BY <3>1, <1>5
        <4>. QED
          BY <4>2, <4>3, <1>5 DEF RunsOf
      <3>3. runs'[n].attempt = NextAttempt(f)
        BY <3>1, <1>7
      <3>. HIDE DEF n
      <3>4. {runs'[i].attempt : i \in RunsOf(f) \cup {n}}
              = {runs[i].attempt : i \in RunsOf(f)} \cup {NextAttempt(f)}
        BY <3>3, <2>1
      <3>5. Attempts(f)' = Attempts(f) \cup {NextAttempt(f)}
        BY <3>2, <3>4 DEF Attempts
      <3>6. NextAttempt(f) \in Nat /\ \A i \in RunsOf(f) : runs[i].attempt < NextAttempt(f)
        BY NextAttemptIsAbove DEF IInv
      <3>7. \A m \in Attempts(f) : m <= NextAttempt(f)
        BY <3>6, RowIsRun DEF Attempts, IInv, RunsOf, Run
      <3>. QED
        BY <3>5, <3>6, <3>7
    <2>3. CASE ~ \E k \in 1..K : runs[order[k]].exp = f
      <3>1. RunsOf(f)' = RunsOf(f)
        BY <2>3, <1>5, <1>6, <1>7 DEF RunsOf
      <3>2. Attempts(f)' = Attempts(f)
        BY <3>1, <2>1 DEF Attempts
      <3>. QED
        BY <3>2 DEF IInv, HasLatestAttempt
    <2>. QED
      BY <2>2, <2>3
  <1>. QED
    BY <1>d, <1>9, <1>10 DEF IInv, TypeOK, recover_stale

-----------------------------------------------------------------------------
(* Every call preserves the invariant *)

LEMMA SubmitStep ==
  ASSUME IInv, NEW e \in Experiments, NEW valid \in BOOLEAN, Submit(e, valid)
  PROVE  IInv'
  <1>1. CASE valid
    <2>1. RunsOf(e) \cap InStatus(LiveOrCompleted) = {}
      BY <1>1 DEF Submit, Completed, Active, InStatus, LiveOrCompleted
    <2>. QED
      BY <1>1, <2>1, InsertRow DEF Submit, VALID_STATUSES
  <1>2. CASE ~valid
    BY <1>2, InsertRow DEF Submit, VALID_STATUSES, LiveOrCompleted
  <1>. QED
    BY <1>1, <1>2

LEMMA ClaimStep ==
  ASSUME IInv, NEW w \in Workers, NEW target, NEW now \in Nat, claim_next(w, target, now)
  PROVE  IInv'
  <1>1. PICK i \in Claimable(target) : ClaimRun(i, w, now)
    BY DEF claim_next
  <1>2. i \in RunIds /\ runs[i].status = "PENDING"
    BY DEF Claimable, InStatus
  <1>3. runs[i] \in Run /\ leases \in Nat /\ clock \in Nat
    BY <1>2, RowIsRun DEF IInv, TypeOK
  <1>. DEFINE r == [runs[i] EXCEPT !.status = "RUNNING", !.worker = w,
                                  !.token = leases + 1, !.heartbeat = now]
  <1>4. runs' = [runs EXCEPT ![i] = r]
    BY <1>1 DEF ClaimRun
  <1>5. r \in Run /\ r.exp = runs[i].exp /\ r.attempt = runs[i].attempt
    <2>1. leases + 1 \in Nat
      BY <1>3
    <2>2. \A q \in Run, t \in Nat : [q EXCEPT !.status = "RUNNING", !.worker = w,
                                             !.token = t, !.heartbeat = now] \in Run
      BY DEF Run, VALID_STATUSES
    <2>. QED
      BY <2>1, <2>2, <1>3 DEF Run
  <1>6. leases' \in Nat /\ clock' \in Nat
    BY <1>1, <1>3 DEF ClaimRun
  <1>. HIDE DEF r
  <1>. QED
    BY <1>2, <1>4, <1>5, <1>6, UpdateRow DEF LiveOrCompleted

LEMMA HeartbeatStep ==
  ASSUME IInv, NEW i \in RunIds, NEW w \in Workers, NEW token, NEW now \in Nat,
         heartbeat(i, w, token, now)
  PROVE  IInv'
  <1>. DEFINE r == [runs[i] EXCEPT !.heartbeat = now]
  <1>1. runs[i] \in Run /\ leases \in Nat /\ clock \in Nat
    BY RowIsRun DEF IInv, TypeOK
  <1>2. runs' = [runs EXCEPT ![i] = r] /\ leases' \in Nat /\ clock' \in Nat
    BY <1>1 DEF heartbeat
  <1>3. r \in Run /\ r.exp = runs[i].exp /\ r.attempt = runs[i].attempt
    BY <1>1 DEF Run
  <1>4. runs[i].status = "RUNNING"
    BY DEF heartbeat, Owned
  <1>. HIDE DEF r
  <1>. QED
    BY <1>2, <1>3, <1>4, UpdateRow DEF LiveOrCompleted

LEMMA FinishStep ==
  ASSUME IInv, NEW i \in RunIds, NEW token, NEW status \in TERMINAL_STATUSES,
         NEW m \in Reported, finish(i, token, status, m)
  PROVE  IInv'
  <1>. DEFINE r == [runs[i] EXCEPT !.status = status, !.heartbeat = clock,
                                  !.metrics = Replace(@, m)]
  <1>1. runs[i] \in Run /\ leases \in Nat /\ clock \in Nat
    BY RowIsRun DEF IInv, TypeOK
  <1>2. runs' = [runs EXCEPT ![i] = r] /\ leases' \in Nat /\ clock' \in Nat
    BY <1>1 DEF finish
  <1>3. Replace(runs[i].metrics, m) \in Metrics
    BY <1>1, ReplaceStaysFinite DEF Run, finish
  <1>4. r \in Run /\ r.exp = runs[i].exp /\ r.attempt = runs[i].attempt
    BY <1>1, <1>3 DEF Run, VALID_STATUSES, TERMINAL_STATUSES
  <1>5. runs[i].status = "RUNNING"
    BY DEF finish, Owned
  <1>. HIDE DEF r
  <1>. QED
    BY <1>2, <1>4, <1>5, UpdateRow DEF LiveOrCompleted

LEMMA MetricsStep ==
  ASSUME IInv, NEW i \in RunIds, NEW token, NEW m \in Reported, add_metrics(i, token, m)
  PROVE  IInv'
  <1>. DEFINE r == [runs[i] EXCEPT !.metrics = Replace(@, m)]
  <1>1. runs[i] \in Run /\ leases \in Nat /\ clock \in Nat
    BY RowIsRun DEF IInv, TypeOK
  <1>2. runs' = [runs EXCEPT ![i] = r] /\ leases' \in Nat /\ clock' \in Nat
    BY <1>1 DEF add_metrics
  <1>3. Replace(runs[i].metrics, m) \in Metrics
    BY <1>1, ReplaceStaysFinite DEF Run, add_metrics
  <1>4. r \in Run /\ r.exp = runs[i].exp /\ r.attempt = runs[i].attempt
    BY <1>1, <1>3 DEF Run
  <1>5. runs[i].status = "RUNNING"
    BY DEF add_metrics, Owned
  <1>. HIDE DEF r
  <1>. QED
    BY <1>2, <1>4, <1>5, UpdateRow DEF LiveOrCompleted

LEMMA InitEstablishes == Init => IInv
  <1> SUFFICES ASSUME Init PROVE IInv
    OBVIOUS
  <1>1. runs = <<>> /\ runs \in Seq(Run) /\ RunIds = {}
    BY DEF Init, RunIds
  <1>2. \A e : Attempts(e) = {0}
    BY <1>1 DEF Attempts, RunsOf
  <1>. QED
    BY <1>1, <1>2 DEF Init, IInv, TypeOK, OneLiveOrCompletedRun, InStatus, HasLatestAttempt

LEMMA StepPreserves == IInv /\ [Next]_vars => IInv'
  <1> SUFFICES ASSUME IInv, [Next]_vars PROVE IInv'
    OBVIOUS
  <1>0. clock \in Nat /\ \A now \in Stamps : now \in Nat
    BY DEF IInv, TypeOK, Stamps
  <1>1. CASE Submission
    BY <1>1, SubmitStep DEF Submission
  <1>2. CASE Claim
    BY <1>2, <1>0, ClaimStep DEF Claim
  <1>3. CASE Renewal
    BY <1>3, <1>0, HeartbeatStep DEF Renewal
  <1>4. CASE Finishing
    BY <1>4, FinishStep DEF Finishing
  <1>5. CASE Measuring
    BY <1>5, MetricsStep DEF Measuring
  <1>6. CASE Recovery
    BY <1>6, <1>0, RecoverStep DEF Recovery
  <1>7. CASE runs' = runs /\ leases' = leases /\ clock' \in Nat
    BY <1>7 DEF IInv, TypeOK, OneLiveOrCompletedRun, HasLatestAttempt, Attempts, InStatus, RunsOf, RunIds
  <1>8. CASE Tick
    BY <1>0, <1>7, <1>8 DEF Tick
  <1>9. CASE UNCHANGED vars
    BY <1>0, <1>7, <1>9 DEF vars
  <1>. QED
    BY <1>1, <1>2, <1>3, <1>4, <1>5, <1>6, <1>8, <1>9 DEF Next

(* The invariant holds in every state of every behaviour. *)
THEOREM InvariantHolds == Spec => []IInv
  BY InitEstablishes, StepPreserves, PTL DEF Spec

(* The tables keep their declared shape: database.py's CHECK constraints never
   reject one of its own statements. *)
THEOREM TypeCorrect == Spec => []TypeOK
  <1>1. IInv => TypeOK
    BY DEF IInv
  <1>. QED
    BY <1>1, InvariantHolds, PTL

(* For every number of experiments, workers and calls, no experiment has two
   rows that are queued, leased or completed. *)
THEOREM NeverTwice == Spec => []OneLiveOrCompletedRun
  <1>1. IInv => OneLiveOrCompletedRun
    BY DEF IInv
  <1>. QED
    BY <1>1, InvariantHolds, PTL

-----------------------------------------------------------------------------
(* Fencing: terminal rows are immutable *)

LEMMA TerminalRowsStay ==
  IInv /\ [Next]_vars => \A i \in InStatus(TERMINAL_STATUSES) : runs'[i] = runs[i]
  <1> SUFFICES ASSUME IInv, [Next]_vars, NEW i \in RunIds, runs[i].status \in TERMINAL_STATUSES
               PROVE  runs'[i] = runs[i]
    BY DEF InStatus
  <1>0. runs \in Seq(Run) /\ i \in 1..Len(runs) /\ clock \in Nat
    BY DEF IInv, TypeOK, RunIds
  <1>1. \A j \in RunIds : runs[j].status \in {"PENDING", "RUNNING"} => j # i
    BY DEF TERMINAL_STATUSES
  <1>2. CASE Submission
    <2>1. PICK r : runs' = Append(runs, r)
      BY <1>2 DEF Submission, Submit
    <2>. QED
      BY <2>1, <1>0
  <1>3. CASE Claim
    <2>1. PICK j, w, now : j \in InStatus({"PENDING"}) /\ ClaimRun(j, w, now)
      BY <1>3 DEF Claim, claim_next, Claimable
    <2>2. j # i
      BY <2>1, <1>1 DEF InStatus
    <2>. QED
      BY <2>1, <2>2, <1>0 DEF ClaimRun
  <1>4. CASE Renewal
    <2>1. PICK j, w, token, now : j \in RunIds /\ heartbeat(j, w, token, now)
      BY <1>4 DEF Renewal
    <2>2. j # i
      BY <2>1, <1>1 DEF heartbeat, Owned
    <2>. QED
      BY <2>1, <2>2, <1>0 DEF heartbeat
  <1>5. CASE Finishing
    <2>1. PICK j, token, s, m : j \in RunIds /\ finish(j, token, s, m)
      BY <1>5 DEF Finishing
    <2>2. j # i
      BY <2>1, <1>1 DEF finish, Owned
    <2>. QED
      BY <2>1, <2>2, <1>0 DEF finish
  <1>6. CASE Measuring
    <2>1. PICK j, token, m : j \in RunIds /\ add_metrics(j, token, m)
      BY <1>6 DEF Measuring
    <2>2. j # i
      BY <2>1, <1>1 DEF add_metrics, Owned
    <2>. QED
      BY <2>1, <2>2, <1>0 DEF add_metrics
  <1>7. CASE Recovery
    <2>0. \A t \in Stamps : t \in Nat
      BY <1>0 DEF Stamps
    <2>1. PICK scope : \E now \in Nat : recover_stale(scope, now)
      BY <1>7, <2>0 DEF Recovery
    <2>. PICK now \in Nat : recover_stale(scope, now)
      BY <2>1
    <2>2. i \notin Stale(scope, now)
      BY <1>1 DEF Stale, InStatus
    <2>3. runs'[i] = IF i \in Stale(scope, now) THEN [runs[i] EXCEPT !.status = "FAILED"] ELSE runs[i]
      BY RecoveryRows DEF Recovers
    <2>. QED
      BY <2>2, <2>3
  <1>8. CASE Tick
    BY <1>8 DEF Tick
  <1>9. CASE UNCHANGED vars
    BY <1>9 DEF vars
  <1>. QED
    BY <1>2, <1>3, <1>4, <1>5, <1>6, <1>7, <1>8, <1>9 DEF Next

(* No worker, however late, changes a row or the metrics of an attempt that
   has ended: exact-engine.md's "a failed attempt cannot overwrite a recovered
   lease or a completed record". *)
THEOREM LostLeasesCannotWrite == Spec => TerminalRunsAreFrozen
  <1>1. IInv /\ [Next]_vars => [\A i \in InStatus(TERMINAL_STATUSES) : runs'[i] = runs[i]]_vars
    BY TerminalRowsStay
  <1>. QED
    BY <1>1, InvariantHolds, PTL DEF Spec, TerminalRunsAreFrozen

-----------------------------------------------------------------------------
(* Numbering *)

\* The rows of e up to row i.
Upto(e, i) == {j \in 1..i : runs[j].exp = e}

LEMMA UptoIsFinite ==
  ASSUME NEW e, NEW i \in Nat
  PROVE  IsFiniteSet(Upto(e, i)) /\ Cardinality(Upto(e, i)) \in Nat
  <1>1. IsFiniteSet(1..i)
    BY FS_Interval
  <1>2. Upto(e, i) \in SUBSET (1..i)
    BY DEF Upto
  <1>. QED
    BY <1>1, <1>2, FS_Subset, FS_CardinalityType

\* With consecutive numbers, the next attempt is one more than the rows there
\* are: the largest number belongs to the last row.
LEMMA NextAttemptCounts ==
  ASSUME IInv, AttemptsAreConsecutive, NEW e \in Experiments
  PROVE  NextAttempt(e) = Cardinality(RunsOf(e)) + 1
  <1>0. runs \in Seq(Run) /\ Len(runs) \in Nat
    BY DEF IInv, TypeOK
  <1>1. RunsOf(e) = Upto(e, Len(runs))
    BY DEF RunsOf, RunIds, Upto
  <1>2. IsFiniteSet(RunsOf(e)) /\ Cardinality(RunsOf(e)) \in Nat
    BY <1>0, <1>1, UptoIsFinite
  <1>3. PICK n \in Attempts(e) : \A m \in Attempts(e) : m <= n
    BY DEF IInv, HasLatestAttempt
  <1>4. NextAttempt(e) = n + 1
    BY <1>3, NextAttemptIsAbove DEF IInv
  <1>5. \A i \in RunsOf(e) : /\ i \in Nat \ {0} /\ i \in RunIds /\ runs[i].exp = e
                             /\ runs[i].attempt = Cardinality(Upto(e, i))
                             /\ runs[i].attempt \in Attempts(e)
    BY <1>0 DEF AttemptsAreConsecutive, RunsOf, RunIds, Upto, Attempts
  <1>r. \A i \in RunsOf(e) : i \in Nat \ {0} /\ runs[i].exp = e
    BY <1>5
  <1>6. CASE RunsOf(e) = {}
    <2>1. Attempts(e) = {0}
      BY <1>6 DEF Attempts
    <2>. QED
      BY <1>3, <1>4, <1>6, <2>1, FS_EmptySet
  <1>7. CASE RunsOf(e) # {}
    <2>1. \A i \in RunsOf(e) : runs[i].attempt \in Nat \ {0}
      <3>. TAKE i \in RunsOf(e)
      <3>1. i \in Upto(e, i)
        BY <1>r DEF Upto
      <3>2. IsFiniteSet(Upto(e, i)) /\ Cardinality(Upto(e, i)) \in Nat
        BY <1>5, UptoIsFinite
      <3>3. Cardinality(Upto(e, i)) # 0
        BY <3>1, <3>2, FS_EmptySet
      <3>. QED
        BY <1>5, <3>2, <3>3
    <2>2. n # 0
      BY <1>3, <1>5, <1>7, <2>1
    <2>3. PICK i \in RunsOf(e) : runs[i].attempt = n
      BY <2>2 DEF Attempts
    <2>4. \A j \in RunsOf(e) : j <= i
      <3>. SUFFICES ASSUME NEW j \in RunsOf(e), j > i
           PROVE  FALSE
        BY <1>5
      <3>1. Upto(e, i) \in SUBSET Upto(e, j) /\ j \in Upto(e, j) /\ j \notin Upto(e, i)
        BY <1>r DEF Upto
      <3>2. IsFiniteSet(Upto(e, j)) /\ Cardinality(Upto(e, j)) \in Nat /\ Cardinality(Upto(e, i)) \in Nat
        BY <1>5, UptoIsFinite
      <3>3. Cardinality(Upto(e, i)) < Cardinality(Upto(e, j))
        BY <3>1, <3>2, FS_Subset
      <3>. QED
        BY <1>3, <1>5, <2>3, <3>2, <3>3
    <2>5. Upto(e, i) = RunsOf(e)
      BY <1>0, <1>5, <2>4 DEF Upto, RunsOf, RunIds
    <2>. QED
      BY <1>4, <1>5, <2>3, <2>5
  <1>. QED
    BY <1>6, <1>7

\* Rows keep their numbers when K rows of different experiments are appended,
\* each with the next attempt of its experiment.
LEMMA NumberingGrows ==
  ASSUME IInv, AttemptsAreConsecutive, NEW K \in Nat, NEW x,
         RunIds' = 1..(Len(runs) + K),
         \A i \in RunIds : runs'[i].exp = runs[i].exp /\ runs'[i].attempt = runs[i].attempt,
         \A k \in 1..K : /\ x[k] \in Experiments
                         /\ runs'[Len(runs) + k].exp = x[k]
                         /\ runs'[Len(runs) + k].attempt = NextAttempt(x[k]),
         \A j, k \in 1..K : x[j] = x[k] => j = k
  PROVE  AttemptsAreConsecutive'
  <1>. DEFINE L == Len(runs)
  <1>0. L \in Nat /\ RunIds = 1..L
    BY DEF IInv, TypeOK, RunIds
  <1>. HIDE DEF L
  <1>. SUFFICES ASSUME NEW i \in 1..(L + K)
       PROVE  runs'[i].attempt = Cardinality({j \in 1..i : runs'[j].exp = runs'[i].exp})
    BY DEF AttemptsAreConsecutive, L
  <1>1. CASE i \in 1..L
    <2>1. \A j \in 1..i : runs'[j].exp = runs[j].exp
      BY <1>0, <1>1
    <2>2. {j \in 1..i : runs'[j].exp = runs'[i].exp} = {j \in 1..i : runs[j].exp = runs[i].exp}
      BY <1>0, <1>1, <2>1
    <2>3. runs[i].attempt = Cardinality({j \in 1..i : runs[j].exp = runs[i].exp})
      BY <1>0, <1>1 DEF AttemptsAreConsecutive
    <2>. QED
      BY <1>0, <1>1, <2>2, <2>3
  <1>2. CASE i \notin 1..L
    <2>1. PICK k \in 1..K : i = L + k
      <3>1. i - L \in 1..K /\ i = L + (i - L)
        BY <1>0, <1>2
      <3>. QED
        BY <3>1
    <2>2. /\ x[k] \in Experiments
          /\ runs'[i].exp = x[k]
          /\ runs'[i].attempt = NextAttempt(x[k])
      BY <2>1 DEF L
    <2>3. {j \in 1..i : runs'[j].exp = x[k]} = RunsOf(x[k]) \cup {i}
      <3>1. \A j \in 1..L : runs'[j].exp = runs[j].exp
        BY <1>0
      <3>2. \A j \in 1..i : j \notin 1..L /\ j # i => runs'[j].exp # x[k]
        <4>. SUFFICES ASSUME NEW j \in 1..i, j \notin 1..L, j # i, runs'[j].exp = x[k]
             PROVE  FALSE
          OBVIOUS
        <4>1. j - L \in 1..K /\ j = L + (j - L) /\ j - L # k
          BY <1>0, <2>1
        <4>2. runs'[L + (j - L)].exp = x[j - L]
          BY <4>1 DEF L
        <4>. QED
          BY <4>1, <4>2
      <3>3. 1..L \subseteq 1..i /\ i \in 1..i
        BY <1>0, <2>1
      <3>. QED
        BY <1>0, <2>2, <3>1, <3>2, <3>3 DEF RunsOf
    <2>4. i \notin RunsOf(x[k])
      BY <1>0, <1>2 DEF RunsOf
    <2>5. IsFiniteSet(RunsOf(x[k]))
      <3>1. RunsOf(x[k]) = Upto(x[k], L)
        BY <1>0 DEF RunsOf, Upto
      <3>. QED
        BY <1>0, <3>1, UptoIsFinite
    <2>6. Cardinality(RunsOf(x[k]) \cup {i}) = Cardinality(RunsOf(x[k])) + 1
      BY <2>4, <2>5, FS_AddElement
    <2>. QED
      BY <2>2, <2>3, <2>6, NextAttemptCounts
  <1>. QED
    BY <1>1, <1>2

-----------------------------------------------------------------------------
(* What a step does to the table, whichever call it is *)

\* One row moves on; it was queued or leased.
Moves(i) ==
  /\ Len(runs') = Len(runs)
  /\ \A j \in RunIds \ {i} : runs'[j] = runs[j]
  /\ runs'[i].exp = runs[i].exp /\ runs'[i].attempt = runs[i].attempt
  /\ \/ runs[i].status = "PENDING" /\ runs'[i].status = "RUNNING"
     \/ runs[i].status = "RUNNING" /\ runs'[i].status = "RUNNING"
     \/ runs[i].status = "RUNNING" /\ runs'[i].status \in TERMINAL_STATUSES
        /\ runs'[i].heartbeat = clock

Inserts(e, s) ==
  /\ Len(runs') = Len(runs) + 1
  /\ \A j \in RunIds : runs'[j] = runs[j]
  /\ runs'[Len(runs) + 1] = NewRun(e, NextAttempt(e), s)
  /\ s = "INVALID" \/ (s = "PENDING" /\ RunsOf(e) \cap InStatus(LiveOrCompleted) = {})

LEMMA RowMovesOn ==
  ASSUME TypeOK, NEW i \in RunIds, NEW r, runs' = [runs EXCEPT ![i] = r],
         r.exp = runs[i].exp, r.attempt = runs[i].attempt,
         \/ runs[i].status = "PENDING" /\ r.status = "RUNNING"
         \/ runs[i].status = "RUNNING" /\ r.status = "RUNNING"
         \/ runs[i].status = "RUNNING" /\ r.status \in TERMINAL_STATUSES /\ r.heartbeat = clock
  PROVE  Moves(i)
  <1>1. runs \in Seq(Run) /\ i \in 1..Len(runs)
    BY DEF TypeOK, RunIds
  <1>2. Len(runs') = Len(runs) /\ runs'[i] = r
    BY <1>1
  <1>3. \A j \in RunIds \ {i} : runs'[j] = runs[j]
    BY <1>1 DEF RunIds
  <1>. QED
    BY <1>2, <1>3 DEF Moves

LEMMA StepEffects ==
  ASSUME IInv, [Next]_vars
  PROVE  \/ UNCHANGED runs
         \/ \E i \in RunIds : Moves(i)
         \/ \E e \in Experiments, s \in VALID_STATUSES : Inserts(e, s)
         \/ \E scope, now, K, order : Recovers(scope, now, K, order)
  <1>0. /\ TypeOK /\ clock \in Nat /\ \A now \in Stamps : now \in Nat
        /\ \A i \in RunIds : runs[i] \in Run
    BY RowIsRun DEF IInv, TypeOK, Stamps
  <1>1. CASE Submission
    <2>1. PICK e \in Experiments, valid \in BOOLEAN : Submit(e, valid)
      BY <1>1 DEF Submission
    <2>. DEFINE s == IF valid THEN "PENDING" ELSE "INVALID"
                r == NewRun(e, NextAttempt(e), s)
    <2>2. s \in VALID_STATUSES
      BY DEF VALID_STATUSES
    <2>3. r \in Run /\ runs \in Seq(Run) /\ runs' = Append(runs, r)
      BY <1>0, <2>1, <2>2, NewRunIsRun, NextAttemptIsAbove DEF Submit, TypeOK, IInv
    <2>4. valid => RunsOf(e) \cap InStatus(LiveOrCompleted) = {}
      BY <2>1 DEF Submit, Completed, Active, InStatus, LiveOrCompleted
    <2>. HIDE DEF r
    <2>5. /\ Len(runs') = Len(runs) + 1
          /\ \A j \in RunIds : runs'[j] = runs[j]
          /\ runs'[Len(runs) + 1] = r
      BY <2>3, AppendProperties DEF RunIds
    <2>6. Inserts(e, s)
      BY <2>4, <2>5 DEF Inserts, r
    <2>. QED
      BY <2>2, <2>6
  <1>2. CASE Claim
    <2>1. PICK i, w, now : i \in InStatus({"PENDING"}) /\ ClaimRun(i, w, now)
      BY <1>2 DEF Claim, claim_next, Claimable
    <2>2. i \in RunIds /\ runs[i].status = "PENDING" /\ runs[i] \in Run
      BY <1>0, <2>1 DEF InStatus
    <2>. DEFINE r == [runs[i] EXCEPT !.status = "RUNNING", !.worker = w,
                                    !.token = leases + 1, !.heartbeat = now]
    <2>3. runs' = [runs EXCEPT ![i] = r]
      BY <2>1 DEF ClaimRun
    <2>4. r.exp = runs[i].exp /\ r.attempt = runs[i].attempt /\ r.status = "RUNNING"
      BY <2>2 DEF Run
    <2>. HIDE DEF r
    <2>. QED
      BY <1>0, <2>2, <2>3, <2>4, RowMovesOn
  <1>3. CASE Renewal
    <2>1. PICK i, w, token, now : i \in RunIds /\ heartbeat(i, w, token, now)
      BY <1>3 DEF Renewal
    <2>. DEFINE r == [runs[i] EXCEPT !.heartbeat = now]
    <2>3. runs' = [runs EXCEPT ![i] = r]
      BY <2>1 DEF heartbeat
    <2>4. r.exp = runs[i].exp /\ r.attempt = runs[i].attempt /\ r.status = "RUNNING"
          /\ runs[i].status = "RUNNING"
      BY <1>0, <2>1 DEF Run, heartbeat, Owned
    <2>. HIDE DEF r
    <2>5. Moves(i)
      BY <1>0, <2>1, <2>3, <2>4, RowMovesOn
    <2>. QED
      BY <2>1, <2>5
  <1>4. CASE Finishing
    <2>1. PICK i, token, status, m :
            i \in RunIds /\ status \in TERMINAL_STATUSES /\ finish(i, token, status, m)
      BY <1>4 DEF Finishing
    <2>. DEFINE r == [runs[i] EXCEPT !.status = status, !.heartbeat = clock,
                                    !.metrics = Replace(@, m)]
    <2>3. runs' = [runs EXCEPT ![i] = r]
      BY <2>1 DEF finish
    <2>4. r.exp = runs[i].exp /\ r.attempt = runs[i].attempt /\ r.status = status
          /\ r.heartbeat = clock /\ runs[i].status = "RUNNING"
      BY <1>0, <2>1 DEF Run, finish, Owned
    <2>. HIDE DEF r
    <2>. QED
      BY <1>0, <2>1, <2>3, <2>4, RowMovesOn
  <1>5. CASE Measuring
    <2>1. PICK i, token, m : i \in RunIds /\ add_metrics(i, token, m)
      BY <1>5 DEF Measuring
    <2>. DEFINE r == [runs[i] EXCEPT !.metrics = Replace(@, m)]
    <2>3. runs' = [runs EXCEPT ![i] = r]
      BY <2>1 DEF add_metrics
    <2>4. r.exp = runs[i].exp /\ r.attempt = runs[i].attempt /\ r.status = "RUNNING"
          /\ runs[i].status = "RUNNING"
      BY <1>0, <2>1 DEF Run, add_metrics, Owned
    <2>. HIDE DEF r
    <2>5. Moves(i)
      BY <1>0, <2>1, <2>3, <2>4, RowMovesOn
    <2>. QED
      BY <2>1, <2>5
  <1>6. CASE Recovery
    <2>1. PICK scope : \E now \in Nat : recover_stale(scope, now)
      BY <1>0, <1>6 DEF Recovery
    <2>. PICK now \in Nat : recover_stale(scope, now)
      BY <2>1
    <2>. QED
      BY RecoveryRows
  <1>7. CASE Tick \/ UNCHANGED vars
    BY <1>7 DEF Tick, vars
  <1>. QED
    BY <1>1, <1>2, <1>3, <1>4, <1>5, <1>6, <1>7 DEF Next

-----------------------------------------------------------------------------
(* Numbering, continued *)

LEMMA NumberingKept == IInv /\ AttemptsAreConsecutive /\ [Next]_vars => AttemptsAreConsecutive'
  <1>. SUFFICES ASSUME IInv, AttemptsAreConsecutive, [Next]_vars
       PROVE  AttemptsAreConsecutive'
    OBVIOUS
  <1>0. Len(runs) \in Nat /\ RunIds = 1..Len(runs)
    BY DEF IInv, TypeOK, RunIds
  <1>1. CASE UNCHANGED runs
    BY <1>1 DEF AttemptsAreConsecutive, RunIds
  <1>2. ASSUME NEW i \in RunIds, Moves(i)
        PROVE  AttemptsAreConsecutive'
    <2>1. RunIds' = 1..(Len(runs) + 0)
      BY <1>0, <1>2 DEF Moves, RunIds
    <2>2. \A j \in RunIds : runs'[j].exp = runs[j].exp /\ runs'[j].attempt = runs[j].attempt
      BY <1>2 DEF Moves
    <2>3. 1..0 = {}
      OBVIOUS
    <2>. QED
      BY <2>1, <2>2, <2>3, NumberingGrows
  <1>3. ASSUME NEW e \in Experiments, NEW s \in VALID_STATUSES, Inserts(e, s)
        PROVE  AttemptsAreConsecutive'
    <2>. DEFINE x == [k \in 1..1 |-> e]
    <2>1. RunIds' = 1..(Len(runs) + 1)
      BY <1>0, <1>3 DEF Inserts, RunIds
    <2>2. \A j \in RunIds : runs'[j].exp = runs[j].exp /\ runs'[j].attempt = runs[j].attempt
      BY <1>3 DEF Inserts
    <2>3. \A k \in 1..1 : /\ x[k] \in Experiments
                          /\ runs'[Len(runs) + k].exp = x[k]
                          /\ runs'[Len(runs) + k].attempt = NextAttempt(x[k])
      BY <1>3, NewRunColumns DEF Inserts
    <2>4. \A j, k \in 1..1 : x[j] = x[k] => j = k
      OBVIOUS
    <2>. HIDE DEF x
    <2>. QED
      BY <2>1, <2>2, <2>3, <2>4, NumberingGrows
  <1>4. ASSUME NEW scope, NEW now, NEW K, NEW order, Recovers(scope, now, K, order)
        PROVE  AttemptsAreConsecutive'
    <2>. DEFINE x == [k \in 1..K |-> runs[order[k]].exp]
    <2>1. K \in Nat /\ RunIds' = 1..(Len(runs) + K)
      BY <1>4 DEF Recovers, RunIds
    <2>2. \A j \in RunIds : runs'[j].exp = runs[j].exp /\ runs'[j].attempt = runs[j].attempt
      <3>1. \A j \in RunIds :
              runs'[j] = IF j \in Stale(scope, now)
                         THEN [runs[j] EXCEPT !.status = "FAILED"] ELSE runs[j]
        BY <1>4 DEF Recovers
      <3>. QED
        BY <3>1, RowIsRun DEF IInv, Run
    <2>3. \A k \in 1..K : /\ x[k] \in Experiments
                          /\ runs'[Len(runs) + k].exp = x[k]
                          /\ runs'[Len(runs) + k].attempt = NextAttempt(x[k])
      <3>. TAKE k \in 1..K
      <3>1. order[k] \in RunIds
        BY <1>4 DEF Recovers, Stale, InStatus
      <3>2. runs[order[k]].exp \in Experiments
        BY <3>1, RowIsRun DEF IInv, Run
      <3>3. runs'[Len(runs) + k] = NewRun(x[k], NextAttempt(x[k]), "PENDING")
        BY <1>4 DEF Recovers
      <3>. QED
        BY <3>2, <3>3, NewRunColumns
    <2>4. \A j, k \in 1..K : x[j] = x[k] => j = k
      BY <1>4 DEF Recovers
    <2>. HIDE DEF x
    <2>. QED
      BY <2>1, <2>2, <2>3, <2>4, NumberingGrows
  <1>. QED
    BY <1>1, <1>2, <1>3, <1>4, StepEffects

(* The attempts of every experiment are numbered 1, 2, 3... in the order of
   their rows, for every mixture of submissions and recoveries: the insertions
   of submit and recover_stale never violate UNIQUE(experiment_id, attempt). *)
THEOREM AttemptsStayConsecutive == Spec => []AttemptsAreConsecutive
  <1>1. Init => AttemptsAreConsecutive
    BY DEF Init, AttemptsAreConsecutive, RunIds
  <1>. QED
    BY <1>1, InvariantHolds, NumberingKept, PTL DEF Spec

-----------------------------------------------------------------------------
(* Recovery *)

(* A leased row with an old heartbeat fails only by a recovery pass, and that
   pass queues its successor. *)
LEMMA ExpiryRequeues ==
  ASSUME IInv, [Next]_vars, NEW i \in InStatus({"RUNNING"}),
         runs'[i].status = "FAILED", runs'[i].heartbeat < clock
  PROVE  \E j \in (Len(runs) + 1)..Len(runs') :
           /\ runs'[j].exp = runs[i].exp
           /\ runs'[j].status = "PENDING"
           /\ runs'[j].attempt > runs[i].attempt
  <1>0. i \in RunIds /\ runs[i].status = "RUNNING" /\ runs[i] \in Run /\ Len(runs) \in Nat
        /\ clock \in Nat
    BY RowIsRun DEF InStatus, IInv, TypeOK
  <1>1. CASE UNCHANGED runs
    BY <1>0, <1>1
  <1>2. ASSUME NEW j \in RunIds, Moves(j)
        PROVE  FALSE
    BY <1>0, <1>2 DEF Moves
  <1>3. ASSUME NEW e \in Experiments, NEW s \in VALID_STATUSES, Inserts(e, s)
        PROVE  FALSE
    BY <1>0, <1>3 DEF Inserts
  <1>4. ASSUME NEW scope, NEW now, NEW K, NEW order, Recovers(scope, now, K, order)
        PROVE  \E j \in (Len(runs) + 1)..Len(runs') :
                 /\ runs'[j].exp = runs[i].exp
                 /\ runs'[j].status = "PENDING"
                 /\ runs'[j].attempt > runs[i].attempt
    <2>1. i \in Stale(scope, now)
      BY <1>0, <1>4 DEF Recovers
    <2>2. PICK k \in 1..K : order[k] = i
      BY <1>4, <2>1 DEF Recovers
    <2>. DEFINE e == runs[i].exp
    <2>3. runs'[Len(runs) + k] = NewRun(e, NextAttempt(e), "PENDING")
      BY <1>4, <2>2 DEF Recovers
    <2>4. e \in Experiments /\ i \in RunsOf(e) /\ runs[i].attempt \in Nat
      BY <1>0 DEF Run, RunsOf
    <2>. HIDE DEF e
    <2>5. NextAttempt(e) \in Nat /\ runs[i].attempt < NextAttempt(e)
      BY <2>4, NextAttemptIsAbove DEF IInv
    <2>6. Len(runs) + k \in (Len(runs) + 1)..Len(runs')
      <3>1. Len(runs') = Len(runs) + K /\ K \in Nat
        BY <1>4 DEF Recovers
      <3>. QED
        BY <1>0, <2>2, <3>1
    <2>7. /\ runs'[Len(runs) + k].exp = runs[i].exp
          /\ runs'[Len(runs) + k].status = "PENDING"
          /\ runs'[Len(runs) + k].attempt > runs[i].attempt
      BY <2>3, <2>4, <2>5, NewRunColumns DEF e
    <2>. QED
      BY <2>6, <2>7
  <1>. QED
    BY <1>1, <1>2, <1>3, <1>4, StepEffects

(* No lease ends without its holder and without a successor in the queue:
   recover_stale inserts the next attempt in the transaction that fails the
   stale one, for every timeout, order of rows and mixture of calls. *)
THEOREM ExpiryQueuesRetry == Spec => ExpiredRunsAreRequeued
  <1>1. IInv /\ [Next]_vars =>
          [\A i \in InStatus({"RUNNING"}) :
             runs'[i].status = "FAILED" /\ runs'[i].heartbeat < clock =>
               \E j \in (Len(runs) + 1)..Len(runs') :
                 /\ runs'[j].exp = runs[i].exp
                 /\ runs'[j].status = "PENDING"
                 /\ runs'[j].attempt > runs[i].attempt]_vars
    BY ExpiryRequeues
  <1>. QED
    BY <1>1, InvariantHolds, PTL DEF Spec, ExpiredRunsAreRequeued

-----------------------------------------------------------------------------
(* The lifecycle *)

\* The stage of an experiment is the status of its live or completed row, and
\* a result is in a completed row.
StagesFollowRows ==
  \A e :
    /\ \A i \in RunIds : runs[i].exp = e =>
         /\ runs[i].status = "PENDING" => StageOf(e) = "queued" /\ ResultOf(e) = NoResult
         /\ runs[i].status = "RUNNING" => StageOf(e) = "leased" /\ ResultOf(e) = NoResult
         /\ runs[i].status = "COMPLETED" => StageOf(e) = "done" /\ ResultOf(e) = runs[i].metrics
    /\ (\A i \in RunIds : runs[i].exp = e => runs[i].status \notin LiveOrCompleted) =>
         StageOf(e) = "idle" /\ ResultOf(e) = NoResult

LEMMA RowsGiveStages == OneLiveOrCompletedRun => StagesFollowRows
  <1>. SUFFICES ASSUME OneLiveOrCompletedRun, NEW e
       PROVE  /\ \A i \in RunIds : runs[i].exp = e =>
                   /\ runs[i].status = "PENDING" => StageOf(e) = "queued" /\ ResultOf(e) = NoResult
                   /\ runs[i].status = "RUNNING" => StageOf(e) = "leased" /\ ResultOf(e) = NoResult
                   /\ runs[i].status = "COMPLETED" => StageOf(e) = "done" /\ ResultOf(e) = runs[i].metrics
              /\ (\A i \in RunIds : runs[i].exp = e => runs[i].status \notin LiveOrCompleted) =>
                   StageOf(e) = "idle" /\ ResultOf(e) = NoResult
    BY DEF StagesFollowRows
  <1>0. \A i, j \in RunIds : /\ runs[i].exp = e /\ runs[j].exp = e
                             /\ runs[i].status \in LiveOrCompleted /\ runs[j].status \in LiveOrCompleted
                             => i = j
    BY DEF OneLiveOrCompletedRun, InStatus, LiveOrCompleted
  <1>c. \A i : i \in Completed(e) <=> i \in RunIds /\ runs[i].exp = e /\ runs[i].status = "COMPLETED"
    BY DEF Completed, RunsOf, InStatus
  <1>1. ASSUME NEW i \in RunIds, runs[i].exp = e, runs[i].status = "PENDING"
        PROVE  StageOf(e) = "queued" /\ ResultOf(e) = NoResult
    <2>1. Completed(e) = {} /\ \A j \in RunsOf(e) : runs[j].status # "RUNNING"
      BY <1>0, <1>1, <1>c DEF LiveOrCompleted, RunsOf
    <2>2. i \in RunsOf(e)
      BY <1>1 DEF RunsOf
    <2>. QED
      BY <1>1, <2>1, <2>2 DEF StageOf, ResultOf
  <1>2. ASSUME NEW i \in RunIds, runs[i].exp = e, runs[i].status = "RUNNING"
        PROVE  StageOf(e) = "leased" /\ ResultOf(e) = NoResult
    <2>1. Completed(e) = {}
      BY <1>0, <1>2, <1>c DEF LiveOrCompleted
    <2>2. i \in RunsOf(e)
      BY <1>2 DEF RunsOf
    <2>. QED
      BY <1>2, <2>1, <2>2 DEF StageOf, ResultOf
  <1>3. ASSUME NEW i \in RunIds, runs[i].exp = e, runs[i].status = "COMPLETED"
        PROVE  StageOf(e) = "done" /\ ResultOf(e) = runs[i].metrics
    <2>1. Completed(e) = {i}
      BY <1>0, <1>3, <1>c DEF LiveOrCompleted
    <2>. QED
      BY <2>1 DEF StageOf, ResultOf
  <1>4. ASSUME \A i \in RunIds : runs[i].exp = e => runs[i].status \notin LiveOrCompleted
        PROVE  StageOf(e) = "idle" /\ ResultOf(e) = NoResult
    BY <1>4, <1>c DEF StageOf, ResultOf, LiveOrCompleted, RunsOf
  <1>. QED
    BY <1>1, <1>2, <1>3, <1>4

\* Experiments whose rows do not change keep their stage and result.
LEMMA OthersKeepStage ==
  ASSUME NEW f,
         \A j \in RunIds : runs[j].exp = f => j \in RunIds' /\ runs'[j] = runs[j],
         \A j \in RunIds' : runs'[j].exp = f => j \in RunIds /\ runs[j].exp = f
  PROVE  StageOf(f)' = StageOf(f) /\ ResultOf(f)' = ResultOf(f)
  <1>1. RunsOf(f)' = RunsOf(f) /\ \A j \in RunsOf(f) : runs'[j] = runs[j]
    BY DEF RunsOf
  <1>2. Completed(f)' = Completed(f)
    BY <1>1 DEF Completed, InStatus, RunsOf
  <1>3. \A j \in Completed(f) : runs'[j] = runs[j]
    BY <1>1 DEF Completed
  <1>4. StageOf(f)' = StageOf(f)
    BY <1>1, <1>2 DEF StageOf
  <1>5. ResultOf(f)' = ResultOf(f)
    BY <1>2, <1>3 DEF ResultOf
  <1>. QED
    BY <1>4, <1>5

\* The lifecycle of an experiment moves exactly when one of its rows does.
LEMMA StageMoves ==
  ASSUME NEW e \in Experiments, NEW new,
         \A f \in Experiments \ {e} : StageOf(f)' = StageOf(f),
         StageOf(e)' = new
  PROVE  [f \in Experiments |-> StageOf(f)]' = [[f \in Experiments |-> StageOf(f)] EXCEPT ![e] = new]
  OBVIOUS

LEMMA ResultsStay ==
  ASSUME \A f \in Experiments : ResultOf(f)' = ResultOf(f)
  PROVE  [f \in Experiments |-> ResultOf(f)]' = [f \in Experiments |-> ResultOf(f)]
  OBVIOUS

LEMMA MovesAreLifecycleSteps ==
  ASSUME IInv, IInv', NEW i \in RunIds, Moves(i)
  PROVE  [Lifecycle!LifecycleNext]_(Lifecycle!lifecycleVars)
  <1>0. PICK e : e = runs[i].exp
    OBVIOUS
  <1>1. e \in Experiments /\ RunIds' = RunIds /\ runs'[i] \in Run /\ runs'[i].exp = e
    <2>1. runs[i] \in Run /\ RunIds' = RunIds
      BY RowIsRun DEF IInv, Moves, RunIds
    <2>2. runs'[i] \in Run
      BY <2>1, ElementOfSeq DEF IInv, TypeOK, RunIds
    <2>. QED
      BY <1>0, <2>1, <2>2 DEF Run, Moves
  <1>2. StagesFollowRows /\ StagesFollowRows'
    <2>1. OneLiveOrCompletedRun => StagesFollowRows
      BY RowsGiveStages
    <2>2. (OneLiveOrCompletedRun => StagesFollowRows)'
      BY RowsGiveStages, PTL
    <2>. QED
      BY <2>1, <2>2 DEF IInv
  <1>3. \A f \in Experiments \ {e} : StageOf(f)' = StageOf(f) /\ ResultOf(f)' = ResultOf(f)
    <2>. TAKE f \in Experiments \ {e}
    <2>1. \A j \in RunIds : runs[j].exp = f => j # i
      BY <1>0
    <2>2. \A j \in RunIds : j # i => runs'[j] = runs[j]
      BY DEF Moves
    <2>3. \A j \in RunIds : runs'[j].exp = f => j # i
      BY <1>1
    <2>4. \A j \in RunIds : runs[j].exp = f => j \in RunIds' /\ runs'[j] = runs[j]
      BY <1>1, <2>1, <2>2
    <2>5. \A j \in RunIds' : runs'[j].exp = f => j \in RunIds /\ runs[j].exp = f
      BY <1>1, <2>2, <2>3
    <2>. QED
      BY <2>4, <2>5, OthersKeepStage
  <1>4. /\ runs[i].status = "PENDING" => StageOf(e) = "queued" /\ ResultOf(e) = NoResult
        /\ runs[i].status = "RUNNING" => StageOf(e) = "leased" /\ ResultOf(e) = NoResult
        /\ runs'[i].status = "RUNNING" => StageOf(e)' = "leased" /\ ResultOf(e)' = NoResult
        /\ runs'[i].status = "COMPLETED" => StageOf(e)' = "done" /\ ResultOf(e)' = runs'[i].metrics
    BY <1>0, <1>1, <1>2 DEF StagesFollowRows
  <1>5. CASE runs[i].status = "PENDING" /\ runs'[i].status = "RUNNING"
    <2>1. ResultOf(e)' = ResultOf(e)
      BY <1>4, <1>5
    <2>2. \A f \in Experiments : ResultOf(f)' = ResultOf(f)
      BY <1>3, <2>1
    <2>3. Lifecycle!Lease(e)
      BY <1>1, <1>3, <1>4, <1>5, <2>2, StageMoves, ResultsStay DEF Lifecycle!Lease, Lifecycle!Move
    <2>. QED
      BY <1>1, <2>3 DEF Lifecycle!LifecycleNext
  <1>6. CASE runs[i].status = "RUNNING" /\ runs'[i].status = "RUNNING"
    <2>1. StageOf(e)' = StageOf(e) /\ ResultOf(e)' = ResultOf(e)
      BY <1>4, <1>6
    <2>2. \A f \in Experiments : StageOf(f)' = StageOf(f) /\ ResultOf(f)' = ResultOf(f)
      BY <1>3, <2>1
    <2>. QED
      BY <2>2 DEF Lifecycle!lifecycleVars
  <1>7. CASE runs[i].status = "RUNNING" /\ runs'[i].status = "COMPLETED"
    <2>0. PICK m : m = runs'[i].metrics
      OBVIOUS
    <2>1. m \in Metrics
      BY <1>1, <2>0 DEF Run
    <2>2. StageOf(e) = "leased" /\ StageOf(e)' = "done" /\ ResultOf(e)' = m
      BY <1>4, <1>7, <2>0
    <2>3. [f \in Experiments |-> ResultOf(f)]' = [[f \in Experiments |-> ResultOf(f)] EXCEPT ![e] = m]
      BY <1>1, <1>3, <2>2
    <2>4. Lifecycle!Complete(e)
      BY <1>1, <1>3, <2>1, <2>2, <2>3, StageMoves DEF Lifecycle!Complete, Lifecycle!Move
    <2>. QED
      BY <1>1, <2>4 DEF Lifecycle!LifecycleNext
  <1>8. CASE runs[i].status = "RUNNING" /\ runs'[i].status \in {"FAILED", "INVALID"}
    <2>1. \A j \in RunIds : runs'[j].exp = e => runs'[j].status \notin LiveOrCompleted
      <3>. SUFFICES ASSUME NEW j \in RunIds, runs'[j].exp = e, runs'[j].status \in LiveOrCompleted
           PROVE  FALSE
        OBVIOUS
      <3>1. j # i /\ runs'[j] = runs[j]
        BY <1>8 DEF LiveOrCompleted, Moves
      <3>2. runs[j].exp = runs[i].exp /\ runs[j].status \in LiveOrCompleted
            /\ runs[i].status \in LiveOrCompleted
        BY <1>0, <1>8, <3>1 DEF LiveOrCompleted
      <3>. QED
        BY <3>1, <3>2 DEF IInv, OneLiveOrCompletedRun, InStatus, LiveOrCompleted
    <2>2. StageOf(e)' = "idle" /\ ResultOf(e)' = NoResult
      BY <1>1, <1>2, <2>1 DEF StagesFollowRows
    <2>3. \A f \in Experiments : ResultOf(f)' = ResultOf(f)
      BY <1>3, <1>4, <1>8, <2>2
    <2>4. Lifecycle!Fail(e)
      BY <1>1, <1>3, <1>4, <1>8, <2>2, <2>3, StageMoves, ResultsStay DEF Lifecycle!Fail, Lifecycle!Move
    <2>. QED
      BY <1>1, <2>4 DEF Lifecycle!LifecycleNext
  <1>. QED
    BY <1>5, <1>6, <1>7, <1>8 DEF Moves, TERMINAL_STATUSES

LEMMA InsertsAreLifecycleSteps ==
  ASSUME IInv, IInv', NEW e \in Experiments, NEW s, Inserts(e, s)
  PROVE  [Lifecycle!LifecycleNext]_(Lifecycle!lifecycleVars)
  <1>0. PICK n : n = Len(runs) + 1
    OBVIOUS
  <1>1. /\ RunIds' = RunIds \cup {n} /\ n \notin RunIds
        /\ runs'[n].exp = e /\ runs'[n].status = s
        /\ \A j \in RunIds : runs'[j] = runs[j]
    <2>1. Len(runs) \in Nat /\ Len(runs') = Len(runs) + 1
      BY DEF IInv, TypeOK, Inserts
    <2>2. RunIds' = RunIds \cup {n} /\ n \notin RunIds
      BY <1>0, <2>1 DEF RunIds
    <2>. QED
      BY <1>0, <2>2, NewRunColumns DEF Inserts
  <1>2. StagesFollowRows /\ StagesFollowRows'
    <2>1. OneLiveOrCompletedRun => StagesFollowRows
      BY RowsGiveStages
    <2>2. (OneLiveOrCompletedRun => StagesFollowRows)'
      BY RowsGiveStages, PTL
    <2>. QED
      BY <2>1, <2>2 DEF IInv
  <1>3. \A f \in Experiments \ {e} : StageOf(f)' = StageOf(f) /\ ResultOf(f)' = ResultOf(f)
    BY <1>1, OthersKeepStage
  <1>4. CASE s = "PENDING"
    <2>1. \A j \in RunIds : runs[j].exp = e => runs[j].status \notin LiveOrCompleted
      BY <1>4 DEF Inserts, RunsOf, InStatus
    <2>2. StageOf(e) = "idle" /\ ResultOf(e) = NoResult
      BY <1>2, <2>1 DEF StagesFollowRows
    <2>3. StageOf(e)' = "queued" /\ ResultOf(e)' = NoResult
      BY <1>1, <1>2, <1>4 DEF StagesFollowRows
    <2>4. \A f \in Experiments : ResultOf(f)' = ResultOf(f)
      BY <1>3, <2>2, <2>3
    <2>5. Lifecycle!Enqueue(e)
      BY <1>3, <2>2, <2>3, <2>4, StageMoves, ResultsStay DEF Lifecycle!Enqueue, Lifecycle!Move
    <2>. QED
      BY <2>5 DEF Lifecycle!LifecycleNext
  <1>5. CASE s = "INVALID"
    <2>1. RunsOf(e)' = RunsOf(e) \cup {n} /\ \A j \in RunsOf(e) : runs'[j] = runs[j]
      BY <1>1 DEF RunsOf
    <2>2. Completed(e)' = Completed(e) /\ \A j \in Completed(e) : runs'[j] = runs[j]
      BY <1>1, <1>5, <2>1 DEF Completed, InStatus, RunsOf
    <2>3. StageOf(e)' = StageOf(e)
      BY <1>1, <1>5, <2>1, <2>2 DEF StageOf
    <2>4. ResultOf(e)' = ResultOf(e)
      BY <2>2 DEF ResultOf
    <2>5. \A f \in Experiments : StageOf(f)' = StageOf(f) /\ ResultOf(f)' = ResultOf(f)
      BY <1>3, <2>3, <2>4
    <2>. QED
      BY <2>5 DEF Lifecycle!lifecycleVars
  <1>. QED
    BY <1>4, <1>5 DEF Inserts

LEMMA RecoveryIsLifecycleStep ==
  ASSUME IInv, IInv', NEW scope, NEW now, NEW K, NEW order, Recovers(scope, now, K, order)
  PROVE  [Lifecycle!LifecycleNext]_(Lifecycle!lifecycleVars)
  <1>0. PICK S : S = {runs[i].exp : i \in Stale(scope, now)}
    OBVIOUS
  <1>1. /\ K \in Nat /\ Len(runs) \in Nat /\ RunIds = 1..Len(runs) /\ RunIds' = 1..(Len(runs) + K)
        /\ \A i \in RunIds : runs[i] \in Run
    BY RowIsRun DEF Recovers, RunIds, IInv, TypeOK
  <1>2. StagesFollowRows /\ StagesFollowRows'
    <2>1. OneLiveOrCompletedRun => StagesFollowRows
      BY RowsGiveStages
    <2>2. (OneLiveOrCompletedRun => StagesFollowRows)'
      BY RowsGiveStages, PTL
    <2>. QED
      BY <2>1, <2>2 DEF IInv
  <1>3. \A i \in Stale(scope, now) : i \in RunIds /\ runs[i].status = "RUNNING"
    BY DEF Stale, InStatus
  <1>4. /\ \A i \in RunIds : runs'[i].exp = runs[i].exp
        /\ \A i \in RunIds : i \notin Stale(scope, now) => runs'[i] = runs[i]
    <2>1. \A i \in RunIds :
            runs'[i] = IF i \in Stale(scope, now)
                       THEN [runs[i] EXCEPT !.status = "FAILED"] ELSE runs[i]
      BY DEF Recovers
    <2>. QED
      BY <1>1, <2>1 DEF Run
  <1>5. \A k \in 1..K : /\ order[k] \in Stale(scope, now)
                        /\ runs'[Len(runs) + k].exp = runs[order[k]].exp
                        /\ runs'[Len(runs) + k].status = "PENDING"
    BY NewRunColumns DEF Recovers
  <1>6. S \subseteq Experiments
    BY <1>0, <1>1, <1>3 DEF Run
  <1>7. ASSUME NEW f \in S
        PROVE  /\ StageOf(f) = "leased" /\ ResultOf(f) = NoResult
               /\ StageOf(f)' = "queued" /\ ResultOf(f)' = NoResult
    <2>1. PICK i \in Stale(scope, now) : runs[i].exp = f
      BY <1>0
    <2>2. PICK k \in 1..K : order[k] = i
      BY DEF Recovers
    <2>3. Len(runs) + k \in RunIds'
      BY <1>1
    <2>4. runs'[Len(runs) + k].exp = f /\ runs'[Len(runs) + k].status = "PENDING"
      BY <1>5, <2>1, <2>2
    <2>. QED
      BY <1>2, <1>3, <2>1, <2>3, <2>4 DEF StagesFollowRows
  <1>8. ASSUME NEW f \in Experiments \ S
        PROVE  StageOf(f)' = StageOf(f) /\ ResultOf(f)' = ResultOf(f)
    <2>1. \A j \in RunIds : runs[j].exp = f => j \in RunIds' /\ runs'[j] = runs[j]
      BY <1>0, <1>1, <1>4
    <2>2. \A j \in RunIds' : runs'[j].exp = f => j \in RunIds /\ runs[j].exp = f
      <3>. SUFFICES ASSUME NEW j \in RunIds', runs'[j].exp = f, j \notin RunIds
           PROVE  FALSE
        BY <1>4
      <3>1. j - Len(runs) \in 1..K /\ j = Len(runs) + (j - Len(runs))
        BY <1>1
      <3>2. PICK k \in 1..K : j = Len(runs) + k
        BY <3>1
      <3>3. runs'[j].exp \in S
        BY <1>0, <1>5, <3>2
      <3>. QED
        BY <3>3
    <2>. QED
      BY <2>1, <2>2, OthersKeepStage
  <1>9. [f \in Experiments |-> StageOf(f)]'
          = [f \in Experiments |-> IF f \in S THEN "queued" ELSE [g \in Experiments |-> StageOf(g)][f]]
    BY <1>7, <1>8
  <1>10. \A f \in Experiments : ResultOf(f)' = ResultOf(f)
    BY <1>7, <1>8
  <1>11. Lifecycle!Expire(S)
    BY <1>6, <1>7, <1>9, <1>10, ResultsStay DEF Lifecycle!Expire
  <1>. QED
    BY <1>6, <1>11 DEF Lifecycle!LifecycleNext

(* The runs table implements the lifecycle of every experiment, for any number
   of experiments, workers and calls: at most one lease at a time, a result
   only from the lease, and never another one after it. *)
THEOREM RegistryImplementsLifecycle == Spec => ImplementsLifecycle
  <1>1. Init => Lifecycle!LifecycleInit
    <2>. SUFFICES ASSUME Init
         PROVE  Lifecycle!LifecycleInit
      OBVIOUS
    <2>1. RunIds = {}
      BY DEF Init, RunIds
    <2>2. \A e : StageOf(e) = "idle" /\ ResultOf(e) = NoResult
      BY <2>1 DEF StageOf, ResultOf, Completed, RunsOf
    <2>. QED
      BY <2>2 DEF Lifecycle!LifecycleInit
  <1>2. IInv /\ IInv' /\ [Next]_vars => [Lifecycle!LifecycleNext]_(Lifecycle!lifecycleVars)
    <2>. SUFFICES ASSUME IInv, IInv', [Next]_vars
         PROVE  [Lifecycle!LifecycleNext]_(Lifecycle!lifecycleVars)
      OBVIOUS
    <2>1. CASE UNCHANGED runs
      <3>1. \A e : StageOf(e)' = StageOf(e) /\ ResultOf(e)' = ResultOf(e)
        BY <2>1 DEF StageOf, ResultOf, Completed, InStatus, RunsOf, RunIds
      <3>. QED
        BY <3>1 DEF Lifecycle!lifecycleVars
    <2>. QED
      BY <2>1, StepEffects, MovesAreLifecycleSteps, InsertsAreLifecycleSteps, RecoveryIsLifecycleStep
  <1>. QED
    BY <1>1, <1>2, InvariantHolds, PTL DEF Spec, ImplementsLifecycle, Lifecycle!LifecycleSpec

-----------------------------------------------------------------------------
(* The scheduler *)

Points == Claimed \cup {"idle", "joining", "done"}

Holding == [run : Nat, token : Nat, worker : Workers \cup {NoWorker}]

SchedTypes ==
  /\ pc \in [Processes -> Points]
  /\ held \in [Processes -> Holding]
  /\ report \in [Processes -> Reported]
  /\ ending \in [Processes -> {"returned", "raised"}]
  /\ beat \in [Processes -> {"off", "waiting", "renewing", "dead"}]
  /\ since \in [Processes -> Nat]
  /\ punctual \in [Processes -> BOOLEAN]

\* What run_once holds is a row that was claimed with its token; without a
\* row there is no renewal thread.
HoldsItsRow(p) ==
  /\ pc[p] = "idle" => held[p] = Nothing
  /\ pc[p] # "idle" => /\ held[p].run \in RunIds
                       /\ held[p].token \in 1..leases
                       /\ held[p].worker \in Workers
                       /\ runs[held[p].run].token = held[p].token
                       /\ runs[held[p].run].status # "PENDING"
  /\ pc[p] \in {"idle", "validating"} => beat[p] = "off"

\* From the moment run_once decides to return, its row has ended.
EndsRecorded(p) ==
  pc[p] \in {"joining", "done"} /\ ending[p] = "returned" =>
    runs[held[p].run].status \in TERMINAL_STATUSES

OwnsIt(p) == Owned(held[p].run, held[p].token)

Stamp(p) == runs[held[p].run].heartbeat

\* How old the heartbeat of a punctual process may be, and how long ago its
\* current wait began.
OnSchedule(p) ==
  punctual[p] /\ pc[p] \in Claimed =>
    /\ pc[p] = "validating" =>
         /\ OwnsIt(p)
         /\ clock - since[p] <= ValidateTime
         /\ since[p] - Stamp(p) <= LockWait
    /\ beat[p] = "waiting" =>
         /\ OwnsIt(p)
         /\ clock - since[p] <= BeatEvery
         /\ since[p] - Stamp(p) <= LockWait + ValidateTime
    /\ beat[p] = "renewing" =>
         /\ OwnsIt(p)
         /\ clock - since[p] <= LockWait
         /\ since[p] - Stamp(p) <= LockWait + ValidateTime + BeatEvery

ProcessInv(p) == HoldsItsRow(p) /\ EndsRecorded(p) /\ OnSchedule(p)

SchedInv ==
  /\ IInv
  /\ SchedTypes
  /\ \A p \in Processes : ProcessInv(p)
  /\ LeasesAreNotShared

-----------------------------------------------------------------------------
(* What a step of one process leaves of the others *)

Others(p) ==
  \A q \in Processes \ {p} :
    /\ pc'[q] = pc[q] /\ held'[q] = held[q] /\ ending'[q] = ending[q]
    /\ beat'[q] = beat[q] /\ since'[q] = since[q] /\ punctual'[q] = punctual[q]

LEMMA HeldRow ==
  ASSUME SchedInv, NEW p \in Processes, pc[p] # "idle"
  PROVE  /\ held[p].run \in RunIds
         /\ held[p].token \in 1..leases
         /\ held[p].worker \in Workers
         /\ runs[held[p].run] \in Run
         /\ runs[held[p].run].token = held[p].token
         /\ runs[held[p].run].status # "PENDING"
  BY RowIsRun DEF SchedInv, ProcessInv, HoldsItsRow, IInv

(* An invariant of a process only depends on its own variables, the clock and
   the row it holds. *)
LEMMA Undisturbed ==
  ASSUME SchedInv, NEW q \in Processes,
         pc'[q] = pc[q], held'[q] = held[q], ending'[q] = ending[q],
         beat'[q] = beat[q], since'[q] = since[q], punctual'[q] = punctual[q],
         clock' = clock, leases' \in Nat, leases' >= leases,
         pc[q] # "idle" => held[q].run \in RunIds' /\ runs'[held[q].run] = runs[held[q].run]
  PROVE  ProcessInv(q)'
<1>0. ProcessInv(q) /\ leases \in Nat /\ pc[q] \in Points
  BY DEF SchedInv, IInv, TypeOK, SchedTypes
<1>1. HoldsItsRow(q)'
  BY <1>0 DEF ProcessInv, HoldsItsRow
<1>2. EndsRecorded(q)'
  BY <1>0 DEF ProcessInv, EndsRecorded
<1>3. OnSchedule(q)'
  BY <1>0 DEF ProcessInv, OnSchedule, OwnsIt, Owned, Stamp, Claimed
<1>. QED
  BY <1>1, <1>2, <1>3 DEF ProcessInv

(* A step of p preserves the invariant when p keeps its part of it, and it
   only touches the row p holds or a queued one. *)
LEMMA ProcessStep ==
  ASSUME SchedInv, NEW p \in Processes, IInv', SchedTypes', Others(p),
         clock' = clock, leases' >= leases, ProcessInv(p)',
         \A j \in RunIds :
           /\ j \in RunIds'
           /\ \/ runs'[j] = runs[j]
              \/ pc[p] # "idle" /\ j = held[p].run
              \/ runs[j].status = "PENDING",
         \/ held'[p] = held[p]
         \/ held'[p] = Nothing
         \/ /\ held'[p].token = leases + 1
            /\ held'[p].run \in RunIds
            /\ runs[held'[p].run].status = "PENDING"
  PROVE  SchedInv'
<1>0. leases \in Nat /\ leases' \in Nat
  BY DEF SchedInv, IInv, TypeOK
<1>1. ASSUME NEW q \in Processes, q # p PROVE ProcessInv(q)'
  <2>1. pc[q] # "idle" => held[q].run \in RunIds' /\ runs'[held[q].run] = runs[held[q].run]
    <3>. SUFFICES ASSUME pc[q] # "idle"
                  PROVE  held[q].run \in RunIds' /\ runs'[held[q].run] = runs[held[q].run]
      OBVIOUS
    <3>1. held[q].run \in RunIds /\ held[q].token \in 1..leases /\ runs[held[q].run].status # "PENDING"
      BY HeldRow
    <3>2. held[q].token # 0
      BY <3>1, <1>0
    <3>3. held[q].run # held[p].run
      BY <3>2, <1>1 DEF SchedInv, LeasesAreNotShared
    <3>. QED
      BY <3>1, <3>3
  <2>. QED
    BY <2>1, <1>0, <1>1, Undisturbed DEF Others
<1>2. ASSUME NEW q \in Processes
      PROVE  \/ held[q] = Nothing
             \/ /\ held[q].run \in RunIds /\ runs[held[q].run].status # "PENDING"
                /\ held[q].token \in 1..leases
  <2>1. CASE pc[q] = "idle"
    BY <2>1 DEF SchedInv, ProcessInv, HoldsItsRow
  <2>2. CASE pc[q] # "idle"
    BY <2>2, HeldRow
  <2>. QED
    BY <2>1, <2>2
<1>3. ASSUME NEW q \in Processes, q # p PROVE held'[q] = held[q]
  BY <1>3 DEF Others
<1>4. Nothing.run \notin RunIds /\ Nothing.token = 0 /\ Nothing.run = 0
  BY DEF Nothing, RunIds
<1>5. ASSUME NEW q \in Processes, NEW r \in Processes, held'[q].token # 0,
             held'[q].run = held'[r].run \/ held'[q].token = held'[r].token
      PROVE  q = r
  <2>1. CASE held'[q] = held[q] /\ held'[r] = held[r]
    BY <2>1, <1>5 DEF SchedInv, LeasesAreNotShared
  <2>2. CASE q # r /\ r = p /\ held'[p] # held[p]
    <3>1. held'[q] = held[q] /\ held[q].token \in 1..leases /\ held[q].run \in RunIds
          /\ runs[held[q].run].status # "PENDING"
      BY <2>2, <1>2, <1>3, <1>4, <1>5
    <3>. QED
      BY <3>1, <2>2, <1>4, <1>5, <1>0
  <2>3. CASE q # r /\ q = p /\ held'[p] # held[p]
    <3>1. held'[r] = held[r]
      BY <2>3, <1>3
    <3>2. CASE held[r] = Nothing
      BY <3>1, <3>2, <2>3, <1>4, <1>5, <1>0
    <3>3. CASE held[r].token \in 1..leases /\ held[r].run \in RunIds
               /\ runs[held[r].run].status # "PENDING"
      BY <3>1, <3>3, <2>3, <1>4, <1>5, <1>0
    <3>. QED
      BY <3>2, <3>3, <1>2
  <2>. QED
    BY <2>1, <2>2, <2>3, <1>3
<1>. QED
  BY <1>1, <1>5 DEF SchedInv, LeasesAreNotShared

-----------------------------------------------------------------------------
(* What the calls of a process do to its row *)

LEMMA CallEffect ==
  ASSUME SchedInv, NEW p \in Processes, pc[p] # "idle",
         NEW s \in TERMINAL_STATUSES, NEW m \in Reported, Recorded(p, s, m)
  PROVE  /\ IInv'
         /\ clock' = clock /\ leases' = leases /\ RunIds' = RunIds
         /\ \A j \in RunIds : j # held[p].run => runs'[j] = runs[j]
         /\ runs'[held[p].run].token = held[p].token
         /\ runs'[held[p].run].status = s
<1>0. held[p].run \in RunIds /\ runs[held[p].run] \in Run /\ runs[held[p].run].token = held[p].token
  BY HeldRow
<1>1. IInv'
  BY <1>0, FinishStep DEF Recorded, SchedInv
<1>2. clock' = clock /\ leases' = leases
  BY DEF Recorded, finish
<1>3. PICK i : i = held[p].run
  OBVIOUS
<1>4. runs' = [runs EXCEPT ![i] = [runs[i] EXCEPT !.status = s, !.heartbeat = clock,
                                                  !.metrics = Replace(@, m)]]
  BY <1>0, <1>3 DEF Recorded, finish
<1>5. runs \in Seq(Run) /\ i \in RunIds /\ runs[i] \in Run
  BY <1>0, <1>3 DEF SchedInv, IInv, TypeOK
<1>6. Len(runs') = Len(runs) /\ \A j \in 1..Len(runs) : j # i => runs'[j] = runs[j]
  BY <1>4, <1>5 DEF RunIds
<1>7. runs'[i].token = runs[i].token /\ runs'[i].status = s
  BY <1>4, <1>5 DEF RunIds, Run
<1>. QED
  BY <1>0, <1>1, <1>2, <1>3, <1>6, <1>7 DEF RunIds

LEMMA NoCallEffect ==
  ASSUME SchedInv, UNCHANGED vars
  PROVE  /\ IInv'
         /\ clock' = clock /\ leases' = leases /\ RunIds' = RunIds
         /\ \A j \in RunIds : runs'[j] = runs[j]
  BY StepPreserves DEF SchedInv, vars, RunIds

LEMMA RenewalEffect ==
  ASSUME SchedInv, NEW p \in Processes, pc[p] # "idle",
         heartbeat(held[p].run, held[p].worker, held[p].token, since[p])
  PROVE  /\ IInv'
         /\ clock' = clock /\ leases' = leases /\ RunIds' = RunIds
         /\ \A j \in RunIds : j # held[p].run => runs'[j] = runs[j]
         /\ runs'[held[p].run].token = held[p].token
         /\ runs'[held[p].run].status = "RUNNING"
         /\ runs'[held[p].run].heartbeat = since[p]
<1>0. held[p].run \in RunIds /\ runs[held[p].run] \in Run /\ runs[held[p].run].token = held[p].token
      /\ held[p].worker \in Workers /\ since[p] \in Nat
  BY HeldRow DEF SchedInv, SchedTypes
<1>1. IInv'
  BY <1>0, HeartbeatStep DEF SchedInv
<1>2. clock' = clock /\ leases' = leases
  BY DEF heartbeat
<1>3. PICK i : i = held[p].run
  OBVIOUS
<1>4. runs' = [runs EXCEPT ![i] = [runs[i] EXCEPT !.heartbeat = since[p]]] /\ runs[i].status = "RUNNING"
  BY <1>0, <1>3 DEF heartbeat, Owned
<1>5. runs \in Seq(Run) /\ i \in RunIds /\ runs[i] \in Run
  BY <1>0, <1>3 DEF SchedInv, IInv, TypeOK
<1>6. Len(runs') = Len(runs) /\ \A j \in 1..Len(runs) : j # i => runs'[j] = runs[j]
  BY <1>4, <1>5 DEF RunIds
<1>7. runs'[i].token = runs[i].token /\ runs'[i].status = "RUNNING" /\ runs'[i].heartbeat = since[p]
  BY <1>4, <1>5 DEF RunIds, Run
<1>. QED
  BY <1>0, <1>1, <1>2, <1>3, <1>6, <1>7 DEF RunIds

LEMMA ClaimEffect ==
  ASSUME IInv, NEW w \in Workers, NEW target, NEW now \in Nat, claim_next(w, target, now)
  PROVE  \E i \in RunIds :
           /\ IInv'
           /\ clock' = clock /\ leases' = leases + 1 /\ RunIds' = RunIds
           /\ runs[i].status = "PENDING"
           /\ \A j \in RunIds : runs'[j] # runs[j] <=> j = i
           /\ runs'[i].token = leases + 1
           /\ runs'[i].status = "RUNNING"
           /\ runs'[i].heartbeat = now
<1>1. PICK i \in Claimable(target) : ClaimRun(i, w, now)
  BY DEF claim_next
<1>2. i \in RunIds /\ runs[i].status = "PENDING" /\ runs \in Seq(Run)
  BY <1>1 DEF Claimable, InStatus, IInv, TypeOK
<1>3. runs[i] \in Run
  BY <1>2, RowIsRun DEF IInv
<1>4. /\ runs' = [runs EXCEPT ![i] = [runs[i] EXCEPT !.status = "RUNNING", !.worker = w,
                                             !.token = leases + 1, !.heartbeat = now]]
      /\ clock' = clock /\ leases' = leases + 1
  BY <1>1 DEF ClaimRun
<1>5. Len(runs') = Len(runs) /\ \A j \in 1..Len(runs) : j # i => runs'[j] = runs[j]
  BY <1>2, <1>4 DEF RunIds
<1>6. runs'[i].token = leases + 1 /\ runs'[i].status = "RUNNING" /\ runs'[i].heartbeat = now
  BY <1>2, <1>3, <1>4 DEF RunIds, Run
<1>7. IInv'
  BY ClaimStep
<1>8. \A j \in RunIds : runs'[j] # runs[j] <=> j = i
  BY <1>2, <1>5, <1>6 DEF RunIds
<1>. QED
  BY <1>2, <1>4, <1>5, <1>6, <1>7, <1>8 DEF RunIds

-----------------------------------------------------------------------------
(* The steps of run_once *)

LEMMA StartRunStep ==
  ASSUME SchedInv, NEW p \in Processes, StartRun(p)
  PROVE  SchedInv'
<1>0. SchedTypes /\ IInv /\ clock \in Nat /\ leases \in Nat /\ LockWait \in Nat /\ ValidateTime \in Nat
  BY RegistryAssumption, SchedulerAssumption DEF SchedInv, IInv, TypeOK
<1>1. PICK w \in Workers, target \in RunIds \cup {AnyRun}, now \in Stamps :
        /\ claim_next(w, target, now)
        /\ held' = [held EXCEPT ![p] = [run |-> CHOOSE i \in RunIds : runs'[i] # runs[i],
                                        token |-> leases', worker |-> w]]
  BY DEF StartRun
<1>2. now \in Nat /\ clock - now <= LockWait
  BY <1>0, <1>1 DEF Stamps
<1>3. PICK i \in RunIds :
        /\ IInv'
        /\ clock' = clock /\ leases' = leases + 1 /\ RunIds' = RunIds
        /\ runs[i].status = "PENDING"
        /\ \A j \in RunIds : runs'[j] # runs[j] <=> j = i
        /\ runs'[i].token = leases + 1
        /\ runs'[i].status = "RUNNING"
        /\ runs'[i].heartbeat = now
  BY <1>0, <1>1, <1>2, ClaimEffect
<1>4. i = CHOOSE j \in RunIds : runs'[j] # runs[j]
  BY <1>3
<1>5. held' = [held EXCEPT ![p] = [run |-> i, token |-> leases + 1, worker |-> w]]
  BY <1>1, <1>3, <1>4
<1>6. /\ pc[p] = "idle" /\ pc' = [pc EXCEPT ![p] = "validating"]
      /\ since' = [since EXCEPT ![p] = clock] /\ punctual' = [punctual EXCEPT ![p] = TRUE]
      /\ UNCHANGED <<report, ending, beat>>
  BY DEF StartRun, Goto
<1>7. i \in Nat
  BY DEF RunIds
<1>8. SchedTypes'
  BY <1>0, <1>5, <1>6, <1>7, <1>3 DEF SchedTypes, Points, Claimed, Holding
<1>9. Others(p)
  BY <1>0, <1>5, <1>6 DEF SchedTypes, Others
<1>10. /\ pc'[p] = "validating" /\ held'[p] = [run |-> i, token |-> leases + 1, worker |-> w]
       /\ since'[p] = clock /\ beat'[p] = "off"
  BY <1>0, <1>5, <1>6 DEF SchedTypes, SchedInv, ProcessInv, HoldsItsRow
<1>11. HoldsItsRow(p)'
  BY <1>0, <1>3, <1>10 DEF HoldsItsRow
<1>12. EndsRecorded(p)'
  BY <1>10 DEF EndsRecorded
<1>13. OnSchedule(p)'
  BY <1>0, <1>2, <1>3, <1>10 DEF OnSchedule, OwnsIt, Owned, Stamp
<1>. QED
  BY <1>0, <1>3, <1>8, <1>9, <1>10, <1>11, <1>12, <1>13, ProcessStep DEF ProcessInv

(* finish, or a call that changes nothing, as part of a step that leaves the
   lease alone: what is left to show is about the step's own variables. *)
LEMMA CallStep ==
  ASSUME SchedInv, NEW p \in Processes, pc[p] # "idle", held' = held, SchedTypes', Others(p),
         IInv', clock' = clock, leases' = leases, RunIds' = RunIds,
         \A j \in RunIds : j # held[p].run => runs'[j] = runs[j],
         runs'[held[p].run].token = held[p].token,
         runs'[held[p].run].status # "PENDING",
         pc'[p] # "idle", pc'[p] = "validating" => beat'[p] = "off",
         EndsRecorded(p)', OnSchedule(p)'
  PROVE  SchedInv'
<1>0. /\ held[p].run \in RunIds /\ held[p].token \in 1..leases /\ held[p].worker \in Workers
      /\ leases \in Nat
  BY HeldRow DEF SchedInv, IInv, TypeOK
<1>1. HoldsItsRow(p)'
  BY <1>0 DEF HoldsItsRow
<1>. QED
  BY <1>0, <1>1, ProcessStep DEF ProcessInv

LEMMA NoMetricsReported == NoMetrics \in Reported /\ Finite(NoMetrics)
  BY DEF NoMetrics, Reported, PartialMaps, Finite

(* A row whose holder is refused has ended: its token is still the holder's. *)
LEMMA RefusedRowEnded ==
  ASSUME SchedInv, NEW p \in Processes, pc[p] # "idle", runs[held[p].run].status # "RUNNING"
  PROVE  runs[held[p].run].status \in TERMINAL_STATUSES
  BY HeldRow DEF Run, VALID_STATUSES, TERMINAL_STATUSES

LEMMA RefusalMeansLost ==
  ASSUME SchedInv, NEW p \in Processes, pc[p] # "idle", Refused(p, NoMetrics)
  PROVE  runs[held[p].run].status # "RUNNING"
  BY HeldRow, NoMetricsReported DEF Refused, Owned

\* A registry call of p that may be refused.
Calls(p) ==
  \/ \E s \in TERMINAL_STATUSES, m \in Reported : Recorded(p, s, m)
  \/ UNCHANGED vars

LEMMA CallsEffect ==
  ASSUME SchedInv, NEW p \in Processes, pc[p] # "idle", Calls(p)
  PROVE  /\ IInv'
         /\ clock' = clock /\ leases' = leases /\ RunIds' = RunIds
         /\ \A j \in RunIds : j # held[p].run => runs'[j] = runs[j]
         /\ runs'[held[p].run].token = held[p].token
         /\ runs'[held[p].run].status # "PENDING"
<1>1. CASE UNCHANGED vars
  BY <1>1, HeldRow, NoCallEffect
<1>2. ASSUME NEW s \in TERMINAL_STATUSES, NEW m \in Reported, Recorded(p, s, m)
      PROVE  /\ IInv'
             /\ clock' = clock /\ leases' = leases /\ RunIds' = RunIds
             /\ \A j \in RunIds : j # held[p].run => runs'[j] = runs[j]
             /\ runs'[held[p].run].token = held[p].token
             /\ runs'[held[p].run].status # "PENDING"
  BY <1>2, CallEffect DEF TERMINAL_STATUSES
<1>. QED
  BY <1>1, <1>2 DEF Calls

(* run_once decides to end: if it returns, its row has ended. *)
LEMMA EndStep ==
  ASSUME SchedInv, NEW p \in Processes, pc[p] \in Claimed,
         NEW to \in {"joining", "done"}, NEW how \in {"returned", "raised"},
         End(p, pc[p], to, how), Calls(p), UNCHANGED <<held, report, beat, since, punctual>>,
         how = "returned" => runs'[held[p].run].status \in TERMINAL_STATUSES
  PROVE  SchedInv'
<1>0. pc[p] # "idle" /\ SchedTypes
  BY DEF Claimed, SchedInv
<1>1. /\ pc' = [pc EXCEPT ![p] = to] /\ ending' = [ending EXCEPT ![p] = how]
      /\ UNCHANGED <<held, report, beat, since, punctual>>
  BY DEF End, Goto
<1>2. SchedTypes'
  BY <1>0, <1>1 DEF SchedTypes, Points
<1>3. Others(p)
  BY <1>0, <1>1 DEF SchedTypes, Others
<1>4. pc'[p] = to /\ ending'[p] = how /\ held'[p] = held[p]
  BY <1>0, <1>1 DEF SchedTypes
<1>5. EndsRecorded(p)' /\ OnSchedule(p)'
  BY <1>4 DEF EndsRecorded, OnSchedule, Claimed
<1>. QED
  BY <1>0, <1>1, <1>2, <1>3, <1>4, <1>5, CallsEffect, CallStep

(* run_once goes on with the lease, recording nothing. *)
LEMMA GoOnStep ==
  ASSUME SchedInv, NEW p \in Processes, pc[p] \in Claimed,
         NEW to \in Claimed \ {"validating"}, Goto(p, pc[p], to),
         UNCHANGED vars, UNCHANGED <<held, ending, beat, since, punctual>>,
         report' \in [Processes -> Reported]
  PROVE  SchedInv'
<1>0. pc[p] # "idle" /\ SchedTypes /\ ProcessInv(p)
  BY DEF Claimed, SchedInv
<1>1. /\ pc' = [pc EXCEPT ![p] = to]
      /\ UNCHANGED <<held, ending, beat, since, punctual>>
  BY DEF Goto
<1>2. SchedTypes'
  BY <1>0, <1>1 DEF SchedTypes, Points
<1>3. Others(p)
  BY <1>0, <1>1 DEF SchedTypes, Others
<1>4. pc'[p] = to /\ to \notin {"idle", "validating", "joining", "done"}
  BY <1>0, <1>1 DEF SchedTypes, Claimed
<1>5. EndsRecorded(p)'
  BY <1>4 DEF EndsRecorded
<1>6. OnSchedule(p)'
  BY <1>0, <1>1, <1>4 DEF ProcessInv, OnSchedule, OwnsIt, Owned, Stamp, vars
<1>. QED
  BY <1>0, <1>1, <1>2, <1>3, <1>4, <1>5, <1>6, CallsEffect, CallStep DEF Calls

LEMMA InvalidateStep ==
  ASSUME SchedInv, NEW p \in Processes, Invalidate(p)
  PROVE  SchedInv'
<1>0. pc[p] = "validating" /\ pc[p] \in Claimed /\ UNCHANGED <<held, report, beat, since, punctual>>
  BY DEF Invalidate, End, Goto, Claimed
<1>1. CASE End(p, "validating", "done", "returned") /\ Recorded(p, "INVALID", NoMetrics)
  BY <1>0, <1>1, NoMetricsReported, CallEffect, EndStep DEF Calls, TERMINAL_STATUSES
<1>2. CASE End(p, "validating", "done", "raised") /\ (Refused(p, NoMetrics) \/ Locked)
  BY <1>0, <1>2, EndStep DEF Calls, Refused, Locked
<1>. QED
  BY <1>1, <1>2 DEF Invalidate

LEMMA StartExecutionStep ==
  ASSUME SchedInv, NEW p \in Processes, StartExecution(p)
  PROVE  SchedInv'
<1>0. /\ pc[p] = "validating" /\ SchedTypes /\ ProcessInv(p)
      /\ pc' = [pc EXCEPT ![p] = "executing"] /\ beat' = [beat EXCEPT ![p] = "waiting"]
      /\ since' = [since EXCEPT ![p] = clock]
      /\ UNCHANGED <<runs, leases, clock, held, report, ending, punctual>>
  BY DEF StartExecution, Goto, SchedInv
<1>1. clock \in Nat /\ BeatEvery \in Nat /\ LockWait \in Nat /\ ValidateTime \in Nat
      /\ since[p] \in Nat
  BY <1>0, RegistryAssumption, SchedulerAssumption DEF SchedInv, IInv, TypeOK, SchedTypes
<1>2. runs[held[p].run].heartbeat \in Nat
  BY <1>0, HeldRow DEF Run
<1>3. SchedTypes'
  BY <1>0, <1>1 DEF SchedTypes, Points, Claimed
<1>4. Others(p)
  BY <1>0 DEF SchedTypes, Others
<1>5. pc'[p] = "executing" /\ beat'[p] = "waiting" /\ since'[p] = clock
  BY <1>0 DEF SchedTypes
<1>6. EndsRecorded(p)'
  BY <1>5 DEF EndsRecorded
<1>7. punctual[p] => OwnsIt(p) /\ clock - since[p] <= ValidateTime /\ since[p] - Stamp(p) <= LockWait
  BY <1>0 DEF ProcessInv, OnSchedule, Claimed
<1>8. OnSchedule(p)'
  BY <1>0, <1>1, <1>2, <1>5, <1>7 DEF OnSchedule, OwnsIt, Owned, Stamp
<1>. QED
  BY <1>0, <1>3, <1>4, <1>5, <1>6, <1>8, CallsEffect, CallStep DEF Calls, vars

LEMMA ExecuteStep ==
  ASSUME SchedInv, NEW p \in Processes, Execute(p)
  PROVE  SchedInv'
<1>0. pc[p] = "executing" /\ pc[p] \in Claimed /\ UNCHANGED vars
      /\ UNCHANGED <<held, ending, beat, since, punctual>>
  BY DEF Execute, Goto, Claimed, vars
<1>1. report' \in [Processes -> Reported]
  BY DEF Execute, SchedInv, SchedTypes
<1>2. \E to \in Claimed \ {"validating"} : Goto(p, pc[p], to)
  BY <1>0 DEF Execute, Claimed
<1>. QED
  BY <1>0, <1>1, <1>2, GoOnStep

LEMMA ReportStep ==
  ASSUME SchedInv, NEW p \in Processes, Report(p)
  PROVE  SchedInv'
<1>0. pc[p] = "reporting" /\ pc[p] \in Claimed /\ UNCHANGED <<held, report, beat, since, punctual>>
  BY DEF Report, End, Goto, Claimed
<1>1. report[p] \in Reported /\ report' \in [Processes -> Reported]
  BY <1>0 DEF SchedInv, SchedTypes
<1>2. CASE End(p, "reporting", "joining", "returned") /\ Recorded(p, "COMPLETED", report[p])
  BY <1>0, <1>1, <1>2, CallEffect, EndStep DEF Calls, TERMINAL_STATUSES
<1>3. CASE Goto(p, "reporting", "checking") /\ UNCHANGED ending /\ Refused(p, report[p])
  BY <1>0, <1>1, <1>3, GoOnStep DEF Claimed, Refused
<1>4. CASE Goto(p, "reporting", "failing") /\ UNCHANGED ending /\ Locked
  BY <1>0, <1>1, <1>4, GoOnStep DEF Claimed, Locked
<1>. QED
  BY <1>2, <1>3, <1>4 DEF Report

LEMMA CheckRowStep ==
  ASSUME SchedInv, NEW p \in Processes, CheckRow(p)
  PROVE  SchedInv'
<1>0. /\ pc[p] = "checking" /\ pc[p] \in Claimed /\ pc[p] # "idle" /\ UNCHANGED vars
      /\ UNCHANGED <<held, report, beat, since, punctual>>
  BY DEF CheckRow, Claimed, vars
<1>1. CASE runs[held[p].run].status = "RUNNING"
  BY <1>0, <1>1, GoOnStep DEF CheckRow, Claimed, SchedInv, SchedTypes
<1>2. CASE runs[held[p].run].status # "RUNNING"
  <2>1. runs'[held[p].run].status \in TERMINAL_STATUSES
    BY <1>0, <1>2, RefusedRowEnded DEF vars
  <2>. QED
    BY <1>0, <1>2, <2>1, EndStep DEF CheckRow, Calls
<1>. QED
  BY <1>1, <1>2

LEMMA RejectStep ==
  ASSUME SchedInv, NEW p \in Processes, Reject(p)
  PROVE  SchedInv'
<1>0. pc[p] = "rejecting" /\ pc[p] \in Claimed /\ UNCHANGED <<held, report, beat, since, punctual>>
  BY DEF Reject, End, Goto, Claimed
<1>1. CASE End(p, "rejecting", "joining", "returned") /\ Recorded(p, "FAILED", NoMetrics)
  BY <1>0, <1>1, NoMetricsReported, CallEffect, EndStep DEF Calls, TERMINAL_STATUSES
<1>2. CASE End(p, "rejecting", "joining", "raised") /\ (Refused(p, NoMetrics) \/ Locked)
  BY <1>0, <1>2, EndStep DEF Calls, Refused, Locked
<1>. QED
  BY <1>1, <1>2 DEF Reject

LEMMA RecordFailureStep ==
  ASSUME SchedInv, NEW p \in Processes, RecordFailure(p)
  PROVE  SchedInv'
<1>0. /\ pc[p] = "failing" /\ pc[p] \in Claimed /\ pc[p] # "idle"
      /\ UNCHANGED <<held, report, beat, since, punctual>>
  BY DEF RecordFailure, End, Goto, Claimed
<1>1. CASE End(p, "failing", "joining", "returned") /\ Recorded(p, "FAILED", NoMetrics)
  BY <1>0, <1>1, NoMetricsReported, CallEffect, EndStep DEF Calls, TERMINAL_STATUSES
<1>2. CASE End(p, "failing", "joining", "returned") /\ Refused(p, NoMetrics)
  <2>1. runs'[held[p].run].status \in TERMINAL_STATUSES
    BY <1>0, <1>2, RefusedRowEnded, RefusalMeansLost DEF vars, Refused
  <2>. QED
    BY <1>0, <1>2, <2>1, EndStep DEF Calls, Refused
<1>3. CASE End(p, "failing", "joining", "raised") /\ Locked
  BY <1>0, <1>3, EndStep DEF Calls, Locked
<1>. QED
  BY <1>1, <1>2, <1>3 DEF RecordFailure

LEMMA InterruptStep ==
  ASSUME SchedInv, NEW p \in Processes, Interrupt(p)
  PROVE  SchedInv'
  BY EndStep DEF Interrupt, Calls, vars

LEMMA JoinStep ==
  ASSUME SchedInv, NEW p \in Processes, Join(p)
  PROVE  SchedInv'
<1>0. /\ pc[p] = "joining" /\ pc[p] # "idle" /\ SchedTypes /\ ProcessInv(p)
      /\ pc' = [pc EXCEPT ![p] = "done"] /\ UNCHANGED vars
      /\ UNCHANGED <<held, report, ending, beat, since, punctual>>
  BY DEF Join, Goto, SchedInv, vars
<1>1. SchedTypes' /\ Others(p) /\ pc'[p] = "done"
  BY <1>0 DEF SchedTypes, Points, Others
<1>2. EndsRecorded(p)' /\ OnSchedule(p)'
  BY <1>0, <1>1 DEF ProcessInv, EndsRecorded, OnSchedule, Claimed, vars
<1>. QED
  BY <1>0, <1>1, <1>2, CallsEffect, CallStep DEF Calls

LEMMA ForgetStep ==
  ASSUME SchedInv, NEW p \in Processes, Forget(p)
  PROVE  SchedInv'
<1>0. /\ SchedTypes /\ UNCHANGED vars /\ leases \in Nat
      /\ pc' = [pc EXCEPT ![p] = "idle"] /\ held' = [held EXCEPT ![p] = Nothing]
      /\ report' = [report EXCEPT ![p] = NoMetrics] /\ ending' = [ending EXCEPT ![p] = "returned"]
      /\ beat' = [beat EXCEPT ![p] = "off"] /\ since' = [since EXCEPT ![p] = 0]
      /\ punctual' = [punctual EXCEPT ![p] = TRUE]
  BY DEF Forget, SchedInv, IInv, TypeOK, vars
<1>1. SchedTypes'
  BY <1>0, NoMetricsReported DEF SchedTypes, Points, Holding, Nothing
<1>2. Others(p) /\ pc'[p] = "idle" /\ held'[p] = Nothing /\ beat'[p] = "off"
  BY <1>0 DEF SchedTypes, Others
<1>3. ProcessInv(p)'
  BY <1>2 DEF ProcessInv, HoldsItsRow, EndsRecorded, OnSchedule, Claimed
<1>. QED
  BY <1>0, <1>1, <1>2, <1>3, NoCallEffect, ProcessStep DEF vars

LEMMA SuspendStep ==
  ASSUME SchedInv, NEW p \in Processes, Suspend(p)
  PROVE  SchedInv'
<1>0. /\ pc[p] \in Claimed /\ pc[p] # "idle" /\ SchedTypes /\ ProcessInv(p) /\ UNCHANGED vars
      /\ punctual' = [punctual EXCEPT ![p] = FALSE]
      /\ UNCHANGED <<pc, held, report, ending, beat, since>>
  BY DEF Suspend, SchedInv, Claimed, vars
<1>1. SchedTypes' /\ Others(p) /\ punctual'[p] = FALSE
  BY <1>0 DEF SchedTypes, Others
<1>2. EndsRecorded(p)' /\ OnSchedule(p)' /\ (pc'[p] = "validating" => beat'[p] = "off")
  BY <1>0, <1>1 DEF ProcessInv, HoldsItsRow, EndsRecorded, OnSchedule, vars
<1>. QED
  BY <1>0, <1>1, <1>2, CallsEffect, CallStep DEF Calls

-----------------------------------------------------------------------------
(* The steps of the renewal thread *)

LEMMA WakeStep ==
  ASSUME SchedInv, NEW p \in Processes, Wake(p)
  PROVE  SchedInv'
<1>0. /\ SchedTypes /\ ProcessInv(p) /\ UNCHANGED vars /\ beat[p] = "waiting"
      /\ beat' = [beat EXCEPT ![p] = "renewing"] /\ since' = [since EXCEPT ![p] = clock]
      /\ UNCHANGED <<pc, held, report, ending, punctual>>
  BY DEF Wake, SchedInv, vars
<1>1. clock \in Nat /\ BeatEvery \in Nat /\ LockWait \in Nat /\ ValidateTime \in Nat
      /\ since[p] \in Nat
  BY <1>0, RegistryAssumption, SchedulerAssumption DEF SchedInv, IInv, TypeOK, SchedTypes
<1>2. pc[p] # "idle" /\ pc[p] # "validating"
  BY <1>0 DEF ProcessInv, HoldsItsRow
<1>3. runs[held[p].run].heartbeat \in Nat
  BY <1>2, HeldRow DEF Run
<1>4. SchedTypes'
  BY <1>0, <1>1 DEF SchedTypes
<1>5. Others(p) /\ beat'[p] = "renewing" /\ since'[p] = clock
  BY <1>0 DEF SchedTypes, Others
<1>6. EndsRecorded(p)'
  BY <1>0 DEF ProcessInv, EndsRecorded, vars
<1>7. punctual[p] /\ pc[p] \in Claimed =>
        OwnsIt(p) /\ clock - since[p] <= BeatEvery /\ since[p] - Stamp(p) <= LockWait + ValidateTime
  BY <1>0 DEF ProcessInv, OnSchedule
<1>8. OnSchedule(p)'
  BY <1>0, <1>1, <1>2, <1>3, <1>5, <1>7 DEF OnSchedule, OwnsIt, Owned, Stamp, vars
<1>. QED
  BY <1>0, <1>2, <1>4, <1>5, <1>6, <1>8, CallsEffect, CallStep DEF Calls

LEMMA RenewStep ==
  ASSUME SchedInv, NEW p \in Processes, Renew(p)
  PROVE  SchedInv'
<1>0. /\ SchedTypes /\ ProcessInv(p) /\ beat[p] = "renewing"
      /\ UNCHANGED <<pc, held, report, ending, punctual>>
  BY DEF Renew, SchedInv
<1>1. clock \in Nat /\ LockWait \in Nat /\ ValidateTime \in Nat /\ since[p] \in Nat
  BY <1>0, RegistryAssumption, SchedulerAssumption DEF SchedInv, IInv, TypeOK, SchedTypes
<1>2. pc[p] # "idle" /\ pc[p] # "validating"
  BY <1>0 DEF ProcessInv, HoldsItsRow
<1>3. CASE /\ heartbeat(held[p].run, held[p].worker, held[p].token, since[p])
           /\ beat' = [beat EXCEPT ![p] = "waiting"]
           /\ since' = [since EXCEPT ![p] = clock]
  <2>1. /\ IInv'
        /\ clock' = clock /\ leases' = leases /\ RunIds' = RunIds
        /\ \A j \in RunIds : j # held[p].run => runs'[j] = runs[j]
        /\ runs'[held[p].run].token = held[p].token
        /\ runs'[held[p].run].status = "RUNNING"
        /\ runs'[held[p].run].heartbeat = since[p]
    BY <1>2, <1>3, RenewalEffect
  <2>2. SchedTypes'
    BY <1>0, <1>1, <1>3, <2>1 DEF SchedTypes
  <2>3. Others(p) /\ beat'[p] = "waiting" /\ since'[p] = clock
    BY <1>0, <1>3 DEF SchedTypes, Others
  <2>4. runs[held[p].run].status = "RUNNING"
    BY <1>3 DEF heartbeat, Owned
  <2>5. EndsRecorded(p)'
    BY <1>0, <2>4 DEF ProcessInv, EndsRecorded, TERMINAL_STATUSES
  <2>6. punctual[p] /\ pc[p] \in Claimed => clock - since[p] <= LockWait
    BY <1>0 DEF ProcessInv, OnSchedule
  <2>7. SchedulerAssumption
    BY SchedulerAssumption
  <2>8. OnSchedule(p)'
    BY <1>0, <1>1, <1>2, <2>1, <2>3, <2>6, <2>7
       DEF OnSchedule, OwnsIt, Owned, Stamp, SchedulerAssumption
  <2>. QED
    BY <1>0, <1>2, <2>1, <2>2, <2>3, <2>5, <2>8, CallStep
<1>4. CASE /\ Refused(p, NoMetrics) \/ Locked
           /\ beat' = [beat EXCEPT ![p] = "dead"]
           /\ UNCHANGED since
  <2>1. UNCHANGED vars
    BY <1>4 DEF Refused, Locked
  <2>2. SchedTypes' /\ Others(p) /\ beat'[p] = "dead"
    BY <1>0, <1>4 DEF SchedTypes, Others
  <2>3. EndsRecorded(p)' /\ OnSchedule(p)'
    BY <1>0, <1>2, <1>4, <2>1, <2>2 DEF ProcessInv, EndsRecorded, OnSchedule, vars
  <2>. QED
    BY <1>0, <1>2, <2>1, <2>2, <2>3, CallsEffect, CallStep DEF Calls
<1>. QED
  BY <1>3, <1>4 DEF Renew

LEMMA StopBeatStep ==
  ASSUME SchedInv, NEW p \in Processes, StopBeat(p)
  PROVE  SchedInv'
<1>0. /\ SchedTypes /\ ProcessInv(p) /\ UNCHANGED vars /\ pc[p] = "joining" /\ pc[p] # "idle"
      /\ beat' = [beat EXCEPT ![p] = "off"]
      /\ UNCHANGED <<pc, held, report, ending, since, punctual>>
  BY DEF StopBeat, SchedInv, vars
<1>1. SchedTypes' /\ Others(p)
  BY <1>0 DEF SchedTypes, Others
<1>2. EndsRecorded(p)' /\ OnSchedule(p)'
  BY <1>0 DEF ProcessInv, EndsRecorded, OnSchedule, Claimed, vars
<1>. QED
  BY <1>0, <1>1, <1>2, CallsEffect, CallStep DEF Calls

-----------------------------------------------------------------------------
(* Other callers, time *)

\* The row of p is not taken by a recovery pass while p is on schedule.
Fresh(p) ==
  /\ pc[p] \in Claimed
  /\ punctual[p]
  /\ pc[p] = "validating" \/ beat[p] \in {"waiting", "renewing"}

(* The worst wait between two renewals is shorter than the lease. *)
LEMMA FreshRowsAreNotStale ==
  ASSUME SchedInv, NEW p \in Processes, Fresh(p), NEW scope, NEW now \in Stamps
  PROVE  OwnsIt(p) /\ held[p].run \notin Stale(scope, now)
<1>0. /\ clock \in Nat /\ since[p] \in Nat /\ now \in Nat /\ now <= clock /\ StaleAfter \in Nat
      /\ LockWait \in Nat /\ ValidateTime \in Nat /\ BeatEvery \in Nat
      /\ 2 * LockWait + ValidateTime + BeatEvery <= StaleAfter
  BY RegistryAssumption, SchedulerAssumption DEF SchedInv, IInv, TypeOK, SchedTypes, Stamps
<1>1. runs[held[p].run].heartbeat \in Nat
  BY HeldRow DEF Fresh, Claimed, Run
<1>2. OwnsIt(p) /\ clock - Stamp(p) <= 2 * LockWait + ValidateTime + BeatEvery
  <2>0. OnSchedule(p)
    BY DEF SchedInv, ProcessInv
  <2>1. CASE pc[p] = "validating"
    BY <2>0, <2>1, <1>0, <1>1 DEF OnSchedule, Fresh, Stamp
  <2>2. CASE beat[p] = "waiting"
    BY <2>0, <2>2, <1>0, <1>1 DEF OnSchedule, Fresh, Stamp
  <2>3. CASE beat[p] = "renewing"
    BY <2>0, <2>3, <1>0, <1>1 DEF OnSchedule, Fresh, Stamp
  <2>. QED
    BY <2>1, <2>2, <2>3 DEF Fresh
<1>. QED
  BY <1>0, <1>1, <1>2 DEF Stale, Stamp

LEMMA SubmitOtherStep == SchedInv /\ SubmitOther => SchedInv'
<1>. SUFFICES ASSUME SchedInv, SubmitOther PROVE SchedInv'
  OBVIOUS
<1>0. IInv /\ UNCHANGED <<pc, held, report, ending, beat, since, punctual>>
  BY DEF SchedInv, SubmitOther, procVars
<1>1. PICK e \in Experiments, valid \in BOOLEAN : Submit(e, valid)
  BY DEF SubmitOther, Submission
<1>2. IInv' /\ clock' = clock /\ leases' = leases /\ leases \in Nat
  BY <1>0, <1>1, SubmitStep DEF Submit, IInv, TypeOK
<1>3. runs \in Seq(Run)
  BY <1>0 DEF IInv, TypeOK
<1>4. NextAttempt(e) \in Nat
  BY <1>0, NextAttemptIsAbove DEF IInv
<1>5. PICK r \in Run : runs' = Append(runs, r)
  BY <1>1, <1>4, NewRunIsRun DEF Submit, VALID_STATUSES
<1>6. \A j \in RunIds : j \in RunIds' /\ runs'[j] = runs[j]
  BY <1>3, <1>5 DEF RunIds
<1>7. \A p \in Processes : ProcessInv(p)'
  <2>1. ASSUME NEW p \in Processes PROVE ProcessInv(p)'
    BY <1>0, <1>2, <1>6, HeldRow, Undisturbed
  <2>. QED
    BY <2>1
<1>8. SchedTypes' /\ LeasesAreNotShared'
  BY <1>0 DEF SchedInv, SchedTypes, LeasesAreNotShared
<1>. QED
  BY <1>2, <1>7, <1>8 DEF SchedInv

LEMMA RecoverOtherStep == SchedInv /\ RecoverOther => SchedInv'
<1>. SUFFICES ASSUME SchedInv, RecoverOther PROVE SchedInv'
  OBVIOUS
<1>0. IInv /\ UNCHANGED <<pc, held, report, ending, beat, since, punctual>> /\ clock \in Nat
      /\ leases \in Nat
  BY DEF SchedInv, RecoverOther, procVars, IInv, TypeOK
<1>1. PICK scope \in {{e} : e \in Experiments} \cup {Experiments}, now \in Stamps :
        recover_stale(scope, now)
  BY DEF RecoverOther, Recovery
<1>2. now \in Nat
  BY <1>0, <1>1 DEF Stamps
<1>3. IInv' /\ clock' = clock /\ leases' = leases
  BY <1>0, <1>1, <1>2, RecoverStep DEF recover_stale
<1>4. PICK K, order : Recovers(scope, now, K, order)
  BY <1>0, <1>1, <1>2, RecoveryRows
<1>5. \A j \in RunIds :
        /\ j \in RunIds'
        /\ runs'[j] = IF j \in Stale(scope, now) THEN [runs[j] EXCEPT !.status = "FAILED"] ELSE runs[j]
  BY <1>0, <1>4 DEF Recovers, RunIds, IInv, TypeOK
<1>6. ASSUME NEW p \in Processes PROVE ProcessInv(p)'
  <2>1. CASE pc[p] = "idle" \/ held[p].run \notin Stale(scope, now)
    <3>1. pc[p] # "idle" => held[p].run \in RunIds' /\ runs'[held[p].run] = runs[held[p].run]
      BY <1>5, <2>1, HeldRow
    <3>. QED
      BY <1>0, <1>3, <3>1, Undisturbed
  <2>2. CASE pc[p] # "idle" /\ held[p].run \in Stale(scope, now)
    <3>0. ProcessInv(p) /\ held[p].run \in RunIds /\ runs[held[p].run] \in Run
          /\ runs[held[p].run].token = held[p].token /\ held[p].token \in 1..leases
          /\ held[p].worker \in Workers
      BY <2>2, HeldRow DEF SchedInv
    <3>1. held[p].run \in RunIds' /\ runs'[held[p].run].token = held[p].token
          /\ runs'[held[p].run].status = "FAILED"
      BY <1>5, <2>2, <3>0 DEF Run
    <3>2. ~ Fresh(p)
      BY <1>1, <2>2, FreshRowsAreNotStale
    <3>3. HoldsItsRow(p)'
      BY <1>0, <1>3, <3>0, <3>1, <2>2 DEF ProcessInv, HoldsItsRow
    <3>4. EndsRecorded(p)'
      BY <1>0, <3>1 DEF EndsRecorded, TERMINAL_STATUSES
    <3>5. OnSchedule(p)'
      BY <1>0, <3>2 DEF Fresh, OnSchedule
    <3>. QED
      BY <3>3, <3>4, <3>5 DEF ProcessInv
  <2>. QED
    BY <2>1, <2>2
<1>8. SchedTypes' /\ LeasesAreNotShared'
  BY <1>0 DEF SchedInv, SchedTypes, LeasesAreNotShared
<1>. QED
  BY <1>3, <1>6, <1>8 DEF SchedInv

LEMMA PassStep == SchedInv /\ Pass => SchedInv'
<1>. SUFFICES ASSUME SchedInv, Pass PROVE SchedInv'
  OBVIOUS
<1>0. /\ IInv /\ UNCHANGED <<pc, held, report, ending, beat, since, punctual>> /\ clock \in Nat
      /\ UNCHANGED <<runs, leases>> /\ clock' = clock + 1 /\ Tick
      /\ \A p \in Processes : punctual[p] => OnTime(p)
  BY DEF SchedInv, Pass, Tick, procVars, IInv, TypeOK
<1>1. IInv'
  BY <1>0, StepPreserves DEF Next
<1>2. ASSUME NEW p \in Processes PROVE ProcessInv(p)'
  <2>0. ProcessInv(p) /\ since[p] \in Nat /\ BeatEvery \in Nat /\ LockWait \in Nat /\ ValidateTime \in Nat
    BY RegistryAssumption, SchedulerAssumption DEF SchedInv, SchedTypes
  <2>1. HoldsItsRow(p)' /\ EndsRecorded(p)'
    BY <1>0, <2>0 DEF ProcessInv, HoldsItsRow, EndsRecorded, RunIds
  <2>2. OnSchedule(p)'
    BY <1>0, <2>0 DEF ProcessInv, OnSchedule, OnTime, OwnsIt, Owned, Stamp, Claimed
  <2>. QED
    BY <2>1, <2>2 DEF ProcessInv
<1>3. SchedTypes' /\ LeasesAreNotShared'
  BY <1>0 DEF SchedInv, SchedTypes, LeasesAreNotShared
<1>. QED
  BY <1>1, <1>2, <1>3 DEF SchedInv

-----------------------------------------------------------------------------

LEMMA SchedInitEstablishes == SchedInit => SchedInv
<1>. SUFFICES ASSUME SchedInit PROVE SchedInv
  OBVIOUS
<1>1. IInv
  BY InitEstablishes DEF SchedInit
<1>2. SchedTypes
  BY NoMetricsReported DEF SchedInit, SchedTypes, Points, Holding, Nothing
<1>3. \A p \in Processes : pc[p] = "idle" /\ held[p] = Nothing /\ beat[p] = "off"
  BY DEF SchedInit
<1>4. \A p \in Processes : ProcessInv(p)
  BY <1>3 DEF ProcessInv, HoldsItsRow, EndsRecorded, OnSchedule, Claimed
<1>5. LeasesAreNotShared
  BY <1>3 DEF LeasesAreNotShared, Nothing
<1>. QED
  BY <1>1, <1>2, <1>4, <1>5 DEF SchedInv

LEMMA SchedStepPreserves == SchedInv /\ [SchedNext]_allVars => SchedInv'
<1>. SUFFICES ASSUME SchedInv, [SchedNext]_allVars PROVE SchedInv'
  OBVIOUS
<1>1. ASSUME NEW p \in Processes, RunOnce(p) PROVE SchedInv'
  BY <1>1, StartRunStep, InvalidateStep, StartExecutionStep, ExecuteStep, ReportStep, CheckRowStep,
     RejectStep, RecordFailureStep, JoinStep, ForgetStep DEF RunOnce, Leave
<1>2. ASSUME NEW p \in Processes, Thread(p) PROVE SchedInv'
  BY <1>2, WakeStep, RenewStep, StopBeatStep DEF Thread
<1>3. ASSUME NEW p \in Processes, Interrupt(p) \/ Crash(p) \/ Suspend(p) PROVE SchedInv'
  BY <1>3, InterruptStep, ForgetStep, SuspendStep DEF Crash
<1>4. CASE UNCHANGED allVars
  <2>1. UNCHANGED vars /\ UNCHANGED <<pc, held, report, ending, beat, since, punctual>>
    BY <1>4 DEF allVars, vars
  <2>2. IInv' /\ clock' = clock /\ leases' = leases /\ RunIds' = RunIds /\ leases \in Nat
        /\ \A j \in RunIds : runs'[j] = runs[j]
    BY <2>1, NoCallEffect DEF SchedInv, IInv, TypeOK
  <2>3. \A p \in Processes : ProcessInv(p)'
    <3>1. ASSUME NEW p \in Processes PROVE ProcessInv(p)'
      BY <2>1, <2>2, HeldRow, Undisturbed
    <3>. QED
      BY <3>1
  <2>4. SchedTypes' /\ LeasesAreNotShared'
    BY <2>1 DEF SchedInv, SchedTypes, LeasesAreNotShared
  <2>. QED
    BY <2>2, <2>3, <2>4 DEF SchedInv
<1>. QED
  BY <1>1, <1>2, <1>3, <1>4, SubmitOtherStep, RecoverOtherStep, PassStep DEF SchedNext

THEOREM SchedulerInvariantHolds == SchedSpec => []SchedInv
  BY SchedInitEstablishes, SchedStepPreserves, PTL DEF SchedSpec

(* Whatever processes crash, stall, lose and take over, no two of them ever
   hold the same run or the same lease. *)
THEOREM NoLeaseIsShared == SchedSpec => []LeasesAreNotShared
<1>1. SchedInv => LeasesAreNotShared
  BY DEF SchedInv
<1>. QED
  BY <1>1, SchedulerInvariantHolds, PTL

(* run_once returns True only when its row has ended. *)
THEOREM ReturnsAreRecorded == SchedSpec => []ReturnMeansRecorded
<1>1. SchedInv => ReturnMeansRecorded
  BY DEF SchedInv, ProcessInv, EndsRecorded, ReturnMeansRecorded
<1>. QED
  BY <1>1, SchedulerInvariantHolds, PTL

(* For every timing with 2 LockWait + ValidateTime + BeatEvery <= StaleAfter, a
   process that is not suspended keeps the lease it claimed. *)
THEOREM PunctualWorkersKeepLeases == SchedSpec => []PunctualLeaseSurvives
<1>1. SchedInv => PunctualLeaseSurvives
  BY DEF SchedInv, ProcessInv, OnSchedule, OwnsIt, PunctualLeaseSurvives
<1>. QED
  BY <1>1, SchedulerInvariantHolds, PTL
=============================================================================
