-------------------------- MODULE Phase3Controller --------------------------
(***************************************************************************)
(* schedule() of tools/phase3/controller.py with its worker processes      *)
(* (tools/phase3/controller_worker.py): one run of the controller over a   *)
(* graph of tasks, while workers end, fail or die, sources are edited,     *)
(* resources run out and the operator stops it.  The pool and job locks    *)
(* are in WorkerLocks, the choice made by admission() in                   *)
(* ControllerAdmission: here it may refuse any launch.  Operators marked   *)
(* "Faulty" are plausible mistakes that must break a property.             *)
(***************************************************************************)
EXTENDS Naturals, FiniteSets

CONSTANTS
  Tasks,            \* task identities of the inventory
  Deps,             \* task["dependencies"]
  Lane,             \* task["resource"]
  Listed,           \* position in the inventory
  Priority,         \* position by task_priority: class of work, then id
  GpuWorkers,       \* gpu_workers
  CpuWorkers,       \* cpu_workers
  MaxEdits          \* bound: edits of the execution sources during a run

\* What validate_tasks accepts: known, acyclic dependencies.
ASSUME ControllerAssumption ==
  /\ Deps \in [Tasks -> SUBSET Tasks]
  /\ \E depth \in [Tasks -> 0..Cardinality(Tasks)] :
       \A t \in Tasks : \A d \in Deps[t] : depth[d] < depth[t]
  /\ Lane \in [Tasks -> {"cuda", "cpu"}]
  /\ Listed \in [Tasks -> Nat] /\ Priority \in [Tasks -> Nat]
  /\ \A t, u \in Tasks : Listed[t] = Listed[u] \/ Priority[t] = Priority[u] => t = u
  /\ GpuWorkers \in 1..6 /\ CpuWorkers \in Nat \ {0}

VARIABLES
  pc,               \* where schedule() is
  status,           \* state["tasks"][t]["status"]; the running ones are active
  ready,            \* rows of this pass still to be considered
  refused,          \* rows admission() refused in this pass for lack of resources
  stopped,          \* a signal or an error stopped the loop
  error,            \* state["error"] is set
  exit,             \* how schedule() ended
  proc,             \* the worker process of each task
  result,           \* status in the result file of each task
  saw,              \* guard in that file: the sources when its worker began
  ran,              \* history: every version of the sources until it reported
  source            \* version of the sources; the controller started with 0

loopVars == <<pc, status, ready, refused, stopped, error, exit>>
workVars == <<proc, result, saw, ran>>
ctrlVars == <<pc, status, ready, refused, stopped, error, exit, proc, result, saw, ran, source>>

Expected == 0

CtrlInit ==
  /\ pc = "scan"
  /\ status = [t \in Tasks |-> "pending"]
  /\ ready = {}
  /\ refused = {}
  /\ stopped = FALSE
  /\ error = FALSE
  /\ exit = "none"
  /\ proc = [t \in Tasks |-> "none"]
  /\ result = [t \in Tasks |-> "none"]
  /\ saw = [t \in Tasks |-> Expected]
  /\ ran = [t \in Tasks |-> {}]
  /\ source = Expected

-----------------------------------------------------------------------------
(* The scheduling loop *)

Alive(t) == proc[t] \in {"starting", "executing", "reported"}

Active == {t \in Tasks : status[t] = "running"}

\* Exceptions anywhere in the loop are caught and end the run.
Fail ==
  /\ pc' = "closing"
  /\ stopped' = TRUE
  /\ error' = TRUE
  /\ UNCHANGED <<status, ready, refused, exit>>

Stop ==
  /\ pc = "scan"
  /\ stopped
  /\ pc' = "closing"
  /\ UNCHANGED <<status, ready, refused, stopped, error, exit, workVars, source>>

\* Faulty: believes the worker's own check of its sources.
SelfCertified(t) == proc[t] = "exited" /\ result[t] = "completed"

Succeeded(t) == proc[t] = "exited" /\ result[t] = "completed" /\ saw[t] = Expected

\* Faulty: tries again what failed.
PolledWithRetry(corrupt) ==
  [t \in Tasks |->
    IF status[t] # "running" \/ Alive(t) THEN status[t]
    ELSE IF Succeeded(t) THEN "completed" ELSE "pending"]

\* Polling marks each ended worker; its outputs may no longer verify.  (A
\* worker that ends between two polls commutes with the rest of the pass.)
Polled(corrupt) ==
  [t \in Tasks |->
    IF status[t] # "running" \/ Alive(t) THEN status[t]
    ELSE IF Succeeded(t) /\ t \notin corrupt THEN "completed" ELSE "failed"]

\* Faulty: one failure blocks everything that has not started.
BlockAll(s) ==
  [t \in Tasks |->
     IF s[t] = "pending" /\ \E d \in Tasks : s[d] = "failed" THEN "blocked" ELSE s[t]]

\* The blocking pass goes through the rows in inventory order: it sees what it
\* blocked before, and leaves a row listed before its dependency for later.
Behind(s, t, D) ==
  \E d \in Deps[t] : s[d] \in {"failed", "blocked", "interrupted"} \/ (d \in D /\ Listed[d] < Listed[t])

Doomed(s) ==
  LET pending == {t \in Tasks : s[t] = "pending"}
      closed == {D \in SUBSET pending : \A t \in pending : Behind(s, t, D) => t \in D}
  IN  {t \in pending : \A D \in closed : t \in D}

Blocking(s) == [t \in Tasks |-> IF t \in Doomed(s) THEN "blocked" ELSE s[t]]

\* Faulty: takes a dependency that did not fail for one that completed.
ReadyUnlessFailed(s) ==
  {t \in Tasks : s[t] = "pending" /\ \A d \in Deps[t] : s[d] \notin {"failed", "blocked"}}

Ready(s) == {t \in Tasks : s[t] = "pending" /\ \A d \in Deps[t] : s[d] = "completed"}

Scan ==
  /\ pc = "scan"
  /\ ~stopped
  /\ \E corrupt \in SUBSET Active :
       /\ \A t \in corrupt : Succeeded(t)
       /\ status' = Blocking(Polled(corrupt))
  /\ ready' = Ready(status')
  /\ refused' = {}
  /\ pc' = "launching"
  /\ UNCHANGED <<stopped, error, exit, workVars, source>>

\* The row the sorted ready list has next.
IsNext(t) == t \in ready /\ \A u \in ready : Priority[t] <= Priority[u]

SlotFree(lane) ==
  Cardinality({t \in Active : Lane[t] = lane}) < IF lane = "cuda" THEN GpuWorkers ELSE CpuWorkers

\* admission() refuses: the lane is full, or RAM, VRAM, GPU or disk is short.
Refuse(t) ==
  /\ pc = "launching"
  /\ ~stopped
  /\ IsNext(t)
  /\ ready' = ready \ {t}
  /\ \/ ~SlotFree(Lane[t]) /\ UNCHANGED refused
     \/ SlotFree(Lane[t]) /\ refused' = refused \cup {t}
  /\ UNCHANGED <<pc, status, stopped, error, exit, workVars, source>>

\* guard() has changed, or probe, guard, a write or Popen raises: see Raise.
Launch(t) ==
  /\ pc = "launching"
  /\ ~stopped
  /\ IsNext(t)
  /\ SlotFree(Lane[t])
  /\ source = Expected
  /\ ready' = ready \ {t}
  /\ status' = [status EXCEPT ![t] = "running"]
  /\ proc' = [proc EXCEPT ![t] = "starting"]
  /\ ran' = [ran EXCEPT ![t] = {source}]
  /\ UNCHANGED <<pc, refused, stopped, error, exit, result, saw, source>>

Raise ==
  /\ pc = "launching"
  /\ Fail
  /\ UNCHANGED <<workVars, source>>

\* Faulty: keeps polling while something was refused.
DecideToWait ==
  /\ pc = "launching"
  /\ stopped \/ ready = {}
  /\ pc' = IF Active # {} \/ refused # {} THEN "scan" ELSE "closing"
  /\ UNCHANGED <<status, ready, refused, stopped, error, exit, workVars, source>>

\* persist(); with nothing active the rows left over are blocked and the loop
\* ends, else it sleeps for poll_seconds.
Decide ==
  /\ pc = "launching"
  /\ stopped \/ ready = {}
  /\ IF Active # {}
     THEN pc' = "scan" /\ UNCHANGED status
     ELSE /\ pc' = "closing"
          /\ status' = [t \in Tasks |-> IF status[t] = "pending" THEN "blocked" ELSE status[t]]
  /\ UNCHANGED <<ready, refused, stopped, error, exit, workVars, source>>

-----------------------------------------------------------------------------
(* The finally clause *)

\* terminate_groups: SIGTERM to every active group, ...
Terminate ==
  /\ pc = "closing"
  /\ pc' = IF Active = {} THEN "restoring" ELSE "grace"
  /\ UNCHANGED <<status, ready, refused, stopped, error, exit, workVars, source>>

\* Faulty: no deadline on the grace period.
ReapPatiently ==
  /\ pc = "grace"
  /\ \A t \in Active : ~Alive(t)
  /\ pc' = "restoring"
  /\ status' = [t \in Tasks |-> IF t \in Active THEN "interrupted" ELSE status[t]]
  /\ UNCHANGED <<ready, refused, stopped, error, exit, workVars, source>>

\* Faulty: leaves the workers that ignored SIGTERM.
ReapLeaders ==
  /\ pc = "grace"
  /\ pc' = "restoring"
  /\ status' = [t \in Tasks |-> IF t \in Active THEN "interrupted" ELSE status[t]]
  /\ UNCHANGED <<ready, refused, stopped, error, exit, workVars, source>>

\* ... SIGKILL at the end of the grace period, wait.  A worker that completed
\* after the last poll is marked interrupted with the others.
Reap ==
  /\ pc = "grace"
  /\ pc' = "restoring"
  /\ proc' = [t \in Tasks |-> IF t \in Active /\ Alive(t) THEN "crashed" ELSE proc[t]]
  /\ status' = [t \in Tasks |-> IF t \in Active THEN "interrupted" ELSE status[t]]
  /\ UNCHANGED <<ready, refused, stopped, error, exit, result, saw, ran, source>>

\* state["status"] and the exit code that follows from it.
Outcome ==
  CASE error -> "1"
    [] ~error /\ stopped -> "signal"
    [] ~stopped /\ \E t \in Tasks : status[t] = "failed" -> "1"
    [] OTHER -> "2"

\* The last persist() may raise, which ends schedule() without a code.
Finish ==
  /\ pc = "restoring"
  /\ pc' = "ended"
  /\ exit' \in {Outcome, "raised"}
  /\ UNCHANGED <<status, ready, refused, stopped, error, workVars, source>>

-----------------------------------------------------------------------------
(* A worker: main() of controller_worker.py *)

End(t, how, report) ==
  /\ proc' = [proc EXCEPT ![t] = how]
  /\ result' = [result EXCEPT ![t] = report]
  /\ UNCHANGED <<loopVars, saw, ran, source>>

\* The worker records the sources it starts with; those in the frozen guard
\* must be unchanged (the controller's own may differ).
Begin(t) ==
  /\ proc[t] = "starting"
  /\ proc' = [proc EXCEPT ![t] = "executing"]
  /\ saw' = [saw EXCEPT ![t] = source]
  /\ UNCHANGED <<loopVars, result, ran, source>>

RefuseToBegin(t) == proc[t] = "starting" /\ source # Expected /\ End(t, "crashed", "none")

Complete(t) ==
  /\ proc[t] = "executing"
  /\ source = saw[t]
  /\ End(t, "reported", "completed")

\* An exception, changed sources, or SIGTERM during the grace period.
Abandon(t) ==
  /\ proc[t] = "executing"
  /\ \/ End(t, "crashed", "failed")
     \/ pc = "grace" /\ t \in Active /\ End(t, "crashed", "interrupted")

\* raise SystemExit(0)
Exit(t) == proc[t] = "reported" /\ End(t, "exited", result[t])

\* Killed, out of memory, or a full disk under the result file.
Die(t) == Alive(t) /\ End(t, "crashed", result[t])

-----------------------------------------------------------------------------
(* The operator and the host *)

\* SIGINT or SIGTERM while the handlers are installed only sets flags.
Signal ==
  /\ pc \in {"scan", "launching", "closing", "grace"}
  /\ stopped' = TRUE
  /\ UNCHANGED <<pc, status, ready, refused, error, exit, workVars, source>>

\* SIGKILL, or a second SIGTERM after the handlers have been restored: the
\* workers are in sessions of their own and go on.
Killed ==
  /\ pc # "ended"
  /\ pc' = "ended"
  /\ exit' = "killed"
  /\ UNCHANGED <<status, ready, refused, stopped, error, workVars, source>>

\* Somebody edits a source: the version never comes back.
Edit ==
  /\ source < MaxEdits
  /\ source' = source + 1
  /\ ran' = [t \in Tasks |-> IF proc[t] \in {"starting", "executing"}
                          THEN ran[t] \cup {source'} ELSE ran[t]]
  /\ UNCHANGED <<loopVars, proc, result, saw>>

-----------------------------------------------------------------------------

Loop ==
  \/ Stop
  \/ Scan
  \/ \E t \in Tasks : Refuse(t) \/ Launch(t)
  \/ Raise
  \/ Decide

Finally == Terminate \/ Reap \/ Finish

Work(t) == Begin(t) \/ RefuseToBegin(t) \/ Complete(t) \/ Abandon(t) \/ Exit(t) \/ Die(t)

CtrlNext ==
  \/ Loop
  \/ Finally
  \/ \E t \in Tasks : Work(t)
  \/ Signal
  \/ Killed
  \/ Edit

\* The controller goes on: its loop only sleeps for poll_seconds and the grace
\* period has a deadline.  Nothing is said of the workers.
CtrlSpec == CtrlInit /\ [][CtrlNext]_ctrlVars /\ WF_ctrlVars(Loop \/ Finally)

\* In addition every task comes to an end (and, when it does, reports).
TasksEnd == \A t \in Tasks : WF_ctrlVars(Work(t))

-----------------------------------------------------------------------------
(* Properties *)

\* A task that was ever started has all it depends on completed, then and for
\* the rest of the run: rows of a ready list are still ready when their turn
\* comes, and no dependency is taken back.
DependenciesFirst ==
  \A t \in Tasks : proc[t] # "none" => \A d \in Deps[t] : status[d] = "completed"

\* Independent work continues (docs/architecture/phase3-controller.md): when a
\* run ends by itself, a task that neither completed nor failed is behind one
\* that did not complete, or its last admission lacked resources; a failure
\* elsewhere, a full lane or the order of the inventory never stops it.
IndependentWorkContinues ==
  pc = "restoring" /\ ~stopped =>
    \A t \in Tasks :
      \/ status[t] \in {"completed", "failed"}
      \/ status[t] = "blocked" /\ (t \in refused \/ \E d \in Deps[t] : status[d] # "completed")

\* What a completed task loaded and computed is of the sources the controller
\* began with, whenever they were edited: before its process came up or while
\* it computed; an edit after its report does no harm.
CompletedUnderOneSource ==
  \A t \in Tasks : status[t] = "completed" => ran[t] = {Expected}

\* Unless it is killed, a controller leaves no worker behind, in particular
\* none that still holds the pool and job locks.
NoWorkerIsLeft ==
  pc = "restoring" \/ (pc = "ended" /\ exit # "killed") => \A t \in Tasks : ~Alive(t)

\* Each task is started at most once in a run and its outcome is final
\* ("deterministic failures remain retained, not retried").
OutcomesAreFinal ==
  [][\A t \in Tasks :
       /\ status[t] \in {"completed", "failed", "blocked", "interrupted"} => status'[t] = status[t]
       /\ proc[t] # "none" => proc'[t] # "starting" \/ proc[t] = "starting"]_ctrlVars

\* A signal ends the controller, even when a worker hangs and ignores SIGTERM.
StopEnds == stopped ~> pc = "ended"

\* A run ends by itself when its tasks do: resources that never come back, a
\* refused admission or a failed dependency do not keep it polling.
ScheduleEnds == TasksEnd => <>(pc = "ended")

=============================================================================
