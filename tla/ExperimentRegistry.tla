------------------------- MODULE ExperimentRegistry -------------------------
(***************************************************************************)
(* The runs and metrics tables of the SQLite experiment registry           *)
(* (public/experiments/registry/database.py).  Every public method that    *)
(* writes runs one BEGIN IMMEDIATE transaction or one UPDATE, so each is   *)
(* one action here; SQLite makes a crash in the middle of one a no-op.  A  *)
(* call that raises leaves the tables alone and is a stuttering step; the  *)
(* modules that compose callers with this one say what the caller does     *)
(* then.  An operator marked "Faulty" is a plausible mistake in the        *)
(* definition that follows it; no specification uses it, and substituting  *)
(* it must break a property.                                               *)
(***************************************************************************)
EXTENDS Integers, FiniteSets, Sequences

CONSTANTS
  Experiments,      \* experiment identities (SHA-256 of the configuration)
  Workers,          \* worker_id strings
  MetricNames,      \* metric names a run may report
  Values,           \* finite metric values
  NotFinite,        \* a NaN or infinite metric value
  AnyRun,           \* claim_next without a target run_id
  NoWorker,         \* SQL NULL in worker_id
  NoResult,         \* no completed run (abstract specification)
  StaleAfter,       \* older_than_seconds of recover_stale
  LockWait,         \* longest time a call waits for the database lock
  MaxRuns,          \* bound: rows of the runs table
  MaxClock          \* bound: clock ticks

ASSUME RegistryAssumption ==
  /\ StaleAfter \in Nat \ {0}
  /\ LockWait \in Nat
  /\ MaxRuns \in Nat
  /\ MaxClock \in Nat
  /\ NoWorker \notin Workers
  /\ NotFinite \notin Values
  /\ AnyRun \notin Nat

VARIABLES
  runs,             \* the runs table: run_id is the position
  leases,           \* lease tokens issued so far (uuid4: never issued twice)
  clock             \* wall-clock time, UTC

vars == <<runs, leases, clock>>

-----------------------------------------------------------------------------
(* Data *)

VALID_STATUSES == {"PENDING", "RUNNING", "COMPLETED", "FAILED", "INVALID"}

TERMINAL_STATUSES == {"COMPLETED", "FAILED", "INVALID"}

PartialMaps(S, T) == UNION {[D -> T] : D \in SUBSET S}

Metrics == PartialMaps(MetricNames, Values)

\* What an executor hands over may contain a NaN.
Reported == PartialMaps(MetricNames, Values \cup {NotFinite})

NoMetrics == [n \in {} |-> NotFinite]

Run == [exp : Experiments, attempt : Nat, status : VALID_STATUSES,
        worker : Workers \cup {NoWorker}, token : Nat, heartbeat : Nat,
        metrics : Metrics]

RunIds == 1..Len(runs)

RunsOf(e) == {i \in RunIds : runs[i].exp = e}

InStatus(S) == {i \in RunIds : runs[i].status \in S}

\* A stamp is taken before the call waits for the database lock.
Stamps == {t \in 0..clock : clock - t <= LockWait}

\* Faulty: numbers attempts by counting the valid ones.
NextAttemptByCount(e) == Cardinality({i \in RunsOf(e) : runs[i].status # "INVALID"}) + 1

\* SELECT COALESCE(MAX(attempt), 0) + 1
NextAttempt(e) ==
  LET attempts == {0} \cup {runs[i].attempt : i \in RunsOf(e)}
  IN  (CHOOSE n \in attempts : \A m \in attempts : m <= n) + 1

NewRun(e, n, s) ==
  [exp |-> e, attempt |-> n, status |-> s, worker |-> NoWorker, token |-> 0,
   heartbeat |-> 0, metrics |-> NoMetrics]

\* INSERT OR REPLACE INTO metrics
Replace(old, new) ==
  [n \in DOMAIN old \cup DOMAIN new |-> IF n \in DOMAIN new THEN new[n] ELSE old[n]]

Finite(m) == \A n \in DOMAIN m : m[n] # NotFinite

-----------------------------------------------------------------------------
(* Operations *)

Completed(e) == RunsOf(e) \cap InStatus({"COMPLETED"})

\* Faulty: submit only deduplicates against queued rows.
ActiveQueuedOnly(e) == RunsOf(e) \cap InStatus({"PENDING"})

Active(e) == RunsOf(e) \cap InStatus({"PENDING", "RUNNING"})

\* A valid configuration that is already completed or active inserts nothing;
\* an invalid one is always recorded.
Submit(e, valid) ==
  /\ valid => Completed(e) = {} /\ Active(e) = {}
  /\ Len(runs) < MaxRuns
  /\ runs' = Append(runs,
               NewRun(e, NextAttempt(e), IF valid THEN "PENDING" ELSE "INVALID"))
  /\ UNCHANGED <<leases, clock>>

\* Faulty: a targeted claim takes a running row over.
ClaimableRunning(target) == {i \in InStatus({"PENDING", "RUNNING"}) : target \in {AnyRun, i}}

Claimable(target) == {i \in InStatus({"PENDING"}) : target \in {AnyRun, i}}

ClaimRun(i, w, now) ==
  /\ runs' = [runs EXCEPT ![i].status = "RUNNING", ![i].worker = w,
                          ![i].token = leases + 1, ![i].heartbeat = now]
  /\ leases' = leases + 1
  /\ UNCHANGED clock

claim_next(w, target, now) ==
  \E i \in Claimable(target) :
    /\ \A j \in Claimable(target) : i <= j
    /\ ClaimRun(i, w, now)

\* Faulty: the row keeps its token after it ends, so a late worker still owns it.
OwnedByToken(i, token) == runs[i].token = token

Owned(i, token) == runs[i].status = "RUNNING" /\ runs[i].token = token

heartbeat(i, w, token, now) ==
  /\ Owned(i, token)
  /\ runs[i].worker = w
  /\ runs' = [runs EXCEPT ![i].heartbeat = now]
  /\ UNCHANGED <<leases, clock>>

finish(i, token, status, metrics) ==
  /\ Owned(i, token)
  /\ Finite(metrics)
  /\ runs' = [runs EXCEPT ![i].status = status, ![i].heartbeat = clock,
                          ![i].metrics = Replace(@, metrics)]
  /\ UNCHANGED <<leases, clock>>

add_metrics(i, token, metrics) ==
  /\ Owned(i, token)
  /\ Finite(metrics)
  /\ runs' = [runs EXCEPT ![i].metrics = Replace(@, metrics)]
  /\ UNCHANGED <<leases, clock>>

\* Faulty: off by one at the timeout.
StaleInclusive(scope, now) ==
  {i \in InStatus({"RUNNING"}) :
     runs[i].exp \in scope /\ runs[i].heartbeat <= now - StaleAfter}

\* Faulty: forgets status='RUNNING', so completed rows expire too.
StaleAnyStatus(scope, now) ==
  {i \in RunIds : runs[i].exp \in scope /\ runs[i].heartbeat < now - StaleAfter}

Stale(scope, now) ==
  {i \in InStatus({"RUNNING"}) :
     runs[i].exp \in scope /\ runs[i].heartbeat < now - StaleAfter}

\* The SELECT has no ORDER BY: the stale rows come in any order.
Orders(S) ==
  {f \in [1..Cardinality(S) -> S] : \A j, k \in DOMAIN f : f[j] = f[k] => j = k}

\* The attempt that replaces the k-th stale row; MAX(attempt) sees the rows
\* this pass has already inserted.
Retry(order, k) ==
  LET e == runs[order[k]].exp
  IN  NewRun(e, NextAttempt(e) + Cardinality({j \in 1..(k - 1) : runs[order[j]].exp = e}),
             "PENDING")

\* Faulty: expires leases without queueing another attempt.
RecoverWithoutRetry(scope, now) ==
  /\ runs' = [i \in RunIds |-> IF i \in Stale(scope, now)
                              THEN [runs[i] EXCEPT !.status = "FAILED"] ELSE runs[i]]
  /\ UNCHANGED <<leases, clock>>

recover_stale(scope, now) ==
  LET stale == Stale(scope, now) IN
  /\ Len(runs) + Cardinality(stale) <= MaxRuns
  /\ \E order \in Orders(stale) :
       runs' = [i \in RunIds |-> IF i \in stale THEN [runs[i] EXCEPT !.status = "FAILED"]
                                                ELSE runs[i]]
               \o [k \in 1..Cardinality(stale) |-> Retry(order, k)]
  /\ UNCHANGED <<leases, clock>>

Tick ==
  /\ clock < MaxClock
  /\ clock' = clock + 1
  /\ UNCHANGED <<runs, leases>>

-----------------------------------------------------------------------------
(* Specification: any caller may make any call with any lease ever issued. *)

Init ==
  /\ runs = <<>>
  /\ leases = 0
  /\ clock = 0

Submission == \E e \in Experiments, valid \in BOOLEAN : Submit(e, valid)

Claim == \E w \in Workers, target \in RunIds \cup {AnyRun}, now \in Stamps :
           claim_next(w, target, now)

Renewal == \E i \in RunIds, w \in Workers, token \in 1..leases, now \in Stamps :
             heartbeat(i, w, token, now)

Finishing == \E i \in RunIds, token \in 1..leases,
                status \in TERMINAL_STATUSES, m \in Reported : finish(i, token, status, m)

Measuring == \E i \in RunIds, token \in 1..leases, m \in Reported : add_metrics(i, token, m)

\* recover_stale runs over one experiment or over the whole table.
Recovery == \E scope \in {{e} : e \in Experiments} \cup {Experiments}, now \in Stamps :
              recover_stale(scope, now)

Next ==
  \/ Submission
  \/ Claim
  \/ Renewal
  \/ Finishing
  \/ Measuring
  \/ Recovery
  \/ Tick

Spec == Init /\ [][Next]_vars

-----------------------------------------------------------------------------
(* Properties *)

\* Every row has the shape its table declares.
TypeOK ==
  /\ runs \in Seq(Run)
  /\ leases \in Nat
  /\ clock \in Nat

\* An experiment never has two runs that are queued, leased or completed:
\* submit's deduplication and recover_stale's replacement rows cannot between
\* them start a second computation of the same identity, or one of a
\* completed identity.
OneLiveOrCompletedRun ==
  \A i, j \in InStatus({"PENDING", "RUNNING", "COMPLETED"}) :
    runs[i].exp = runs[j].exp => i = j

\* The attempts of an experiment are numbered 1, 2, 3... in the order of their
\* run ids, through any mix of submissions and recoveries: UNIQUE(experiment_id,
\* attempt) never rejects an insertion and the newest row is the last attempt.
AttemptsAreConsecutive ==
  \A i \in RunIds :
    runs[i].attempt = Cardinality({j \in 1..i : runs[j].exp = runs[i].exp})

\* No call changes a terminal row or its metrics: a worker whose lease expired
\* can neither finish, renew nor add metrics to the attempt it lost.
TerminalRunsAreFrozen ==
  [][\A i \in InStatus(TERMINAL_STATUSES) : runs'[i] = runs[i]]_vars

\* A lease that ended without its holder is replaced at once: when a RUNNING
\* row with an old heartbeat turns FAILED, either its holder said so (its
\* heartbeat is refreshed by finish) or a later PENDING attempt exists.
ExpiredRunsAreRequeued ==
  [][\A i \in InStatus({"RUNNING"}) :
       runs'[i].status = "FAILED" /\ runs'[i].heartbeat < clock =>
         \E j \in (Len(runs) + 1)..Len(runs') :
           /\ runs'[j].exp = runs[i].exp
           /\ runs'[j].status = "PENDING"
           /\ runs'[j].attempt > runs[i].attempt]_vars

-----------------------------------------------------------------------------
(* What the table says about an experiment *)

StageOf(e) ==
  IF Completed(e) # {} THEN "done"
  ELSE IF \E i \in RunsOf(e) : runs[i].status = "RUNNING" THEN "leased"
  ELSE IF \E i \in RunsOf(e) : runs[i].status = "PENDING" THEN "queued"
  ELSE "idle"

ResultOf(e) ==
  IF Completed(e) = {} THEN NoResult
  ELSE runs[CHOOSE i \in Completed(e) : TRUE].metrics

Lifecycle == INSTANCE ExperimentLifecycle WITH
  Measurements <- Metrics,
  stage <- [e \in Experiments |-> StageOf(e)],
  result <- [e \in Experiments |-> ResultOf(e)]

\* The table implements the lifecycle of each experiment: one lease at a time,
\* and a result that never changes once it is published.
ImplementsLifecycle == Lifecycle!LifecycleSpec

=============================================================================
