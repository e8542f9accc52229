--------------------------- MODULE LocalScheduler ---------------------------
(***************************************************************************)
(* LocalScheduler.run_once (public/experiments/scheduler/local.py): a      *)
(* process claims a run, executes it while a daemon thread renews the      *)
(* lease over a second connection, and records the outcome.  Processes die *)
(* and are suspended; other callers submit and recover through the         *)
(* registry at any time.                                                   *)
(***************************************************************************)
EXTENDS ExperimentRegistry

CONSTANTS
  Processes,        \* processes that call run_once
  BeatEvery,        \* heartbeat_seconds
  ValidateTime      \* longest validation of a stored configuration

\* A lease outlives the worst wait between two renewals: the stamp may be a
\* lock wait old when the claim or renewal commits, the next one comes after
\* validation or a heartbeat interval, and waits for the lock in turn.  The
\* code has 30 s heartbeats, a 30 s lock timeout and at least 300 s leases.
ASSUME SchedulerAssumption ==
  /\ BeatEvery \in Nat \ {0}
  /\ ValidateTime \in Nat
  /\ 2 * LockWait + ValidateTime + BeatEvery <= StaleAfter

VARIABLES
  pc,               \* where each process is in run_once
  held,             \* the claimed run_id, lease_token and worker_id
  report,           \* what the executor returned
  ending,           \* how run_once ends: "returned" or "raised"
  beat,             \* the renewal thread
  since,            \* when validation or the thread's current wait began
  punctual          \* the process has not been suspended since its claim

procVars == <<pc, held, report, ending, beat, since, punctual>>
allVars == <<runs, leases, clock, pc, held, report, ending, beat, since, punctual>>

Nothing == [run |-> 0, token |-> 0, worker |-> NoWorker]

\* The lease is held or believed to be held.
Claimed == {"validating", "executing", "reporting", "checking", "rejecting", "failing"}

-----------------------------------------------------------------------------
(* Steps of a process *)

SchedInit ==
  /\ Init
  /\ pc = [p \in Processes |-> "idle"]
  /\ held = [p \in Processes |-> Nothing]
  /\ report = [p \in Processes |-> NoMetrics]
  /\ ending = [p \in Processes |-> "returned"]
  /\ beat = [p \in Processes |-> "off"]
  /\ since = [p \in Processes |-> 0]
  /\ punctual = [p \in Processes |-> TRUE]

Goto(p, from, to) == pc[p] = from /\ pc' = [pc EXCEPT ![p] = to]

End(p, from, to, how) == Goto(p, from, to) /\ ending' = [ending EXCEPT ![p] = how]

\* A claim that finds no row returns False and changes nothing.
StartRun(p) ==
  /\ Goto(p, "idle", "validating")
  /\ \E w \in Workers, target \in RunIds \cup {AnyRun}, now \in Stamps :
       /\ claim_next(w, target, now)
       /\ held' = [held EXCEPT ![p] = [run |-> CHOOSE i \in RunIds : runs'[i] # runs[i],
                                       token |-> leases', worker |-> w]]
  /\ since' = [since EXCEPT ![p] = clock]
  /\ punctual' = [punctual EXCEPT ![p] = TRUE]
  /\ UNCHANGED <<report, ending, beat>>

\* What finish does for p: record the outcome, raise RegistryError because the
\* lease is gone or the metrics are not finite, or raise OperationalError
\* because the database stayed locked.
Recorded(p, status, m) == finish(held[p].run, held[p].token, status, m)

Refused(p, m) ==
  /\ ~ (Owned(held[p].run, held[p].token) /\ Finite(m))
  /\ UNCHANGED vars

Locked == UNCHANGED vars

\* The stored configuration does not validate any more.
Invalidate(p) ==
  /\ \/ End(p, "validating", "done", "returned") /\ Recorded(p, "INVALID", NoMetrics)
     \/ End(p, "validating", "done", "raised") /\ (Refused(p, NoMetrics) \/ Locked)
  /\ UNCHANGED <<held, report, beat, since, punctual>>

StartExecution(p) ==
  /\ Goto(p, "validating", "executing")
  /\ beat' = [beat EXCEPT ![p] = "waiting"]
  /\ since' = [since EXCEPT ![p] = clock]
  /\ UNCHANGED <<runs, leases, clock, held, report, ending, punctual>>

\* The executor returns metrics, raises RegistryError or another Exception.
Execute(p) ==
  /\ \/ \E m \in Reported : Goto(p, "executing", "reporting") /\ report' = [report EXCEPT ![p] = m]
     \/ Goto(p, "executing", "checking") /\ UNCHANGED report
     \/ Goto(p, "executing", "failing") /\ UNCHANGED report
  /\ UNCHANGED <<runs, leases, clock, held, ending, beat, since, punctual>>

Report(p) ==
  /\ \/ End(p, "reporting", "joining", "returned") /\ Recorded(p, "COMPLETED", report[p])
     \/ Goto(p, "reporting", "checking") /\ UNCHANGED ending /\ Refused(p, report[p])
     \/ Goto(p, "reporting", "failing") /\ UNCHANGED ending /\ Locked
  /\ UNCHANGED <<held, report, beat, since, punctual>>

\* Faulty: takes every RegistryError for a lost lease.
CheckNothing(p) ==
  /\ End(p, "checking", "joining", "returned")
  /\ UNCHANGED <<runs, leases, clock, held, report, beat, since, punctual>>

\* except RegistryError: read the row outside any transaction.
CheckRow(p) ==
  /\ pc[p] = "checking"
  /\ IF runs[held[p].run].status = "RUNNING"
     THEN Goto(p, "checking", "rejecting") /\ UNCHANGED ending
     ELSE End(p, "checking", "joining", "returned")
  /\ UNCHANGED <<runs, leases, clock, held, report, beat, since, punctual>>

\* finish(FAILED, "invalid execution metrics"); nothing catches its errors.
Reject(p) ==
  /\ \/ End(p, "rejecting", "joining", "returned") /\ Recorded(p, "FAILED", NoMetrics)
     \/ End(p, "rejecting", "joining", "raised") /\ (Refused(p, NoMetrics) \/ Locked)
  /\ UNCHANGED <<held, report, beat, since, punctual>>

\* except Exception: finish(FAILED), where a RegistryError is swallowed.
RecordFailure(p) ==
  /\ \/ End(p, "failing", "joining", "returned") /\ Recorded(p, "FAILED", NoMetrics)
     \/ End(p, "failing", "joining", "returned") /\ Refused(p, NoMetrics)
     \/ End(p, "failing", "joining", "raised") /\ Locked
  /\ UNCHANGED <<held, report, beat, since, punctual>>

\* KeyboardInterrupt is no Exception: only the finally clause sees it.
Interrupt(p) ==
  /\ pc[p] \in Claimed
  /\ End(p, pc[p], IF pc[p] = "validating" THEN "done" ELSE "joining", "raised")
  /\ UNCHANGED <<runs, leases, clock, held, report, beat, since, punctual>>

\* finally: stopped.set() and heartbeat.join().
Join(p) ==
  /\ Goto(p, "joining", "done")
  /\ beat[p] \in {"off", "dead"}
  /\ UNCHANGED <<runs, leases, clock, held, report, ending, beat, since, punctual>>

Forget(p) ==
  /\ pc' = [pc EXCEPT ![p] = "idle"]
  /\ held' = [held EXCEPT ![p] = Nothing]
  /\ report' = [report EXCEPT ![p] = NoMetrics]
  /\ ending' = [ending EXCEPT ![p] = "returned"]
  /\ beat' = [beat EXCEPT ![p] = "off"]
  /\ since' = [since EXCEPT ![p] = 0]
  /\ punctual' = [punctual EXCEPT ![p] = TRUE]
  /\ UNCHANGED <<runs, leases, clock>>

Leave(p) == pc[p] = "done" /\ Forget(p)

\* The process is killed; a later one takes its place.
Crash(p) == pc[p] \in Claimed \cup {"joining"} /\ Forget(p)

\* The process is suspended long enough to miss a renewal.
Suspend(p) ==
  /\ pc[p] \in Claimed
  /\ punctual[p]
  /\ punctual' = [punctual EXCEPT ![p] = FALSE]
  /\ UNCHANGED <<runs, leases, clock, pc, held, report, ending, beat, since>>

-----------------------------------------------------------------------------
(* Steps of the renewal thread *)

\* stopped.wait(heartbeat_seconds) times out.
Wake(p) ==
  /\ beat[p] = "waiting"
  /\ pc[p] # "joining"
  /\ clock - since[p] >= BeatEvery
  /\ beat' = [beat EXCEPT ![p] = "renewing"]
  /\ since' = [since EXCEPT ![p] = clock]
  /\ UNCHANGED <<runs, leases, clock, pc, held, report, ending, punctual>>

\* The UPDATE carries the stamp taken before it waited for the lock.  A lost
\* lease ends the thread by RegistryError, a locked database by an
\* OperationalError that renew does not catch.
Renew(p) ==
  /\ beat[p] = "renewing"
  /\ \/ /\ heartbeat(held[p].run, held[p].worker, held[p].token, since[p])
        /\ beat' = [beat EXCEPT ![p] = "waiting"]
        /\ since' = [since EXCEPT ![p] = clock]
     \/ /\ Refused(p, NoMetrics) \/ Locked
        /\ beat' = [beat EXCEPT ![p] = "dead"]
        /\ UNCHANGED since
  /\ UNCHANGED <<pc, held, report, ending, punctual>>

\* Faulty: the thread does not look at the stop event.
StopBeatMissed(p) == beat[p] = "waiting" /\ pc[p] = "joining" /\ UNCHANGED allVars

StopBeat(p) ==
  /\ beat[p] = "waiting"
  /\ pc[p] = "joining"
  /\ beat' = [beat EXCEPT ![p] = "off"]
  /\ UNCHANGED <<runs, leases, clock, pc, held, report, ending, since, punctual>>

-----------------------------------------------------------------------------
(* Other callers, time *)

SubmitOther == Submission /\ UNCHANGED procVars

RecoverOther == Recovery /\ UNCHANGED procVars

\* A process that is not suspended does not sleep through its next step.
OnTime(p) ==
  /\ pc[p] = "validating" => clock - since[p] < ValidateTime
  /\ beat[p] = "waiting" /\ pc[p] # "joining" => clock - since[p] < BeatEvery
  /\ beat[p] = "renewing" => clock - since[p] < LockWait

Pass ==
  /\ \A p \in Processes : punctual[p] => OnTime(p)
  /\ Tick
  /\ UNCHANGED procVars

-----------------------------------------------------------------------------

RunOnce(p) ==
  \/ StartRun(p)
  \/ Invalidate(p)
  \/ StartExecution(p)
  \/ Execute(p)
  \/ Report(p)
  \/ CheckRow(p)
  \/ Reject(p)
  \/ RecordFailure(p)
  \/ Join(p)
  \/ Leave(p)

Thread(p) == Wake(p) \/ Renew(p) \/ StopBeat(p)

SchedNext ==
  \/ \E p \in Processes : RunOnce(p) \/ Thread(p) \/ Interrupt(p) \/ Crash(p) \/ Suspend(p)
  \/ SubmitOther
  \/ RecoverOther
  \/ Pass

\* A process that has claimed a run goes on, as does its thread; nothing says
\* that anybody submits, claims, recovers, interrupts or crashes.
Continue(p) == pc[p] # "idle" /\ RunOnce(p)

SchedFairness == \A p \in Processes : WF_allVars(Continue(p)) /\ WF_allVars(Thread(p))

SchedSpec == SchedInit /\ [][SchedNext]_allVars /\ SchedFairness

-----------------------------------------------------------------------------
(* Properties *)

\* While its process is not suspended and its thread lives, a lease is not
\* recovered: validation, lock waits on both sides and stamps taken before the
\* wait never add up to a stale heartbeat.
PunctualLeaseSurvives ==
  \A p \in Processes :
    /\ pc[p] \in Claimed
    /\ punctual[p]
    /\ pc[p] = "validating" \/ beat[p] \in {"waiting", "renewing"}
    => Owned(held[p].run, held[p].token)

\* When run_once returns True its row has ended, whatever the executor, the
\* database and other callers did; a row is left RUNNING only by raising.
ReturnMeansRecorded ==
  \A p \in Processes :
    pc[p] = "done" /\ ending[p] = "returned" => runs[held[p].run].status \in TERMINAL_STATUSES

\* Two processes hold different leases: no row is executed by two processes,
\* even when one of them has lost its lease to the other's attempt.
LeasesAreNotShared ==
  \A p, q \in Processes :
    held[p].token # 0 /\ (held[p].run = held[q].run \/ held[p].token = held[q].token) => p = q

\* run_once ends once its executor does: joining the renewal thread cannot
\* hang, whether the thread sleeps, waits for the database or has died.
RunOnceEnds == \A p \in Processes : pc[p] # "idle" ~> pc[p] = "idle"

=============================================================================
