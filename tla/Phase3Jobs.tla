----------------------------- MODULE Phase3Jobs -----------------------------
(***************************************************************************)
(* run_registered (tools/phase3/jobs.py) with the executor run_job         *)
(* (tools/phase3/screening.py), the evidence check verify_complete         *)
(* (tools/phase3/evidence.py) and the worker's steps around them           *)
(* (tools/phase3/controller_worker.py): a pilot's worker takes the job's   *)
(* kernel lock, verifies a summary or imports records, and releases it;    *)
(* then a process takes the lock, recovers a stale lease, submits, claims, *)
(* reads and extends one image's checkpoint after another, publishes the   *)
(* paired rows and the summary, verifies them and ends the run, while      *)
(* processes are killed, executions fail and files are lost or corrupted   *)
(* at any moment.  The registry is its abstract life cycle                 *)
(* (ExperimentLifecycle, which ExperimentRegistry implements), the job     *)
(* lock that of WorkerLocks.  Operators marked "Faulty" are plausible      *)
(* mistakes that must break a property.                                    *)
(***************************************************************************)
EXTENDS ExperimentLifecycle, Naturals

CONSTANTS
  Processes,        \* workers and directly started runners
  Direct,           \* the runners started without recover_stale_seconds
  Images,           \* images of a job: a checkpoint file for each
  Backends,         \* backends it declares: a file holds the results of some
  Corrupt,          \* what a file that cannot be used holds
  NoProcess,
  MaxMishaps        \* bound: deaths, failed executions and damaged files

ASSUME JobsAssumption ==
  /\ Direct \subseteq Processes
  /\ Images \in Nat \ {0}
  /\ Backends \in Nat \ {0}
  /\ Corrupt \notin Nat
  /\ MaxMishaps \in Nat
  /\ NoProcess \notin Processes

Jobs == Experiments

VARIABLES
  pc,               \* where each process is in run_registered
  job,              \* the job of its present or last call
  at,               \* the image it has come to
  stored,           \* the number of backends in the record it has read
  answer,           \* how its last call ended
  lock,             \* who holds each job's kernel lock
  owner,            \* who claimed each job's last lease
  fresh,            \* it was renewed in the last recover_stale_seconds
  records,          \* how many backends each image's checkpoint holds
  paired,           \* paired.json of each job is there and intact
  rows,             \* the per-image rows of each job are in the registry
  summary,          \* summary.json: absent, not matching the files, or good
  pilot,            \* the scope in job.json: its workers import records first
  whole,            \* history: the evidence was intact while the lock was held
  mishaps

leaseVars == <<stage, result, owner, fresh>>
fileVars == <<records, paired, rows, summary, pilot>>
callVars == <<pc, job, at, stored, answer, lock>>
jobsVars == <<stage, result, owner, fresh, records, paired, rows, summary, pilot,
              pc, job, at, stored, answer, lock, whole, mishaps>>

\* The process holds a lease or believes it does.
Claimed == {"executing", "extending", "pairing", "storing", "summarising", "checking",
            "finishing", "failing"}

\* It is not under the job lock: not called, or between seed_pilot and the run.
Outside == {"off", "seeded"}

Points == Claimed \cup Outside
            \cup {"seeding", "merging", "recovering", "submitting", "reusing", "claiming"}

Contents == 0..Backends \cup {Corrupt}

Intact(j) == summary[j] = "good" /\ paired[j] /\ \A i \in 1..Images : records[j][i] = Backends

JobsInit ==
  /\ LifecycleInit
  /\ pc = [p \in Processes |-> "off"]
  /\ job \in [Processes -> Jobs]
  /\ at = [p \in Processes |-> 1]
  /\ stored = [p \in Processes |-> 0]
  /\ answer = [p \in Processes |-> "none"]
  /\ lock = [j \in Jobs |-> NoProcess]
  /\ owner = [j \in Jobs |-> NoProcess]
  /\ fresh = [j \in Jobs |-> FALSE]
  /\ records = [j \in Jobs |-> [i \in 1..Images |-> 0]]
  /\ paired = [j \in Jobs |-> FALSE]
  /\ rows = [j \in Jobs |-> FALSE]
  /\ summary = [j \in Jobs |-> "none"]
  /\ pilot \in [Jobs -> BOOLEAN]
  /\ whole = [j \in Jobs |-> FALSE]
  /\ mishaps = 0

-----------------------------------------------------------------------------
(* The call *)

Goto(p, from, to) == pc[p] = from /\ pc' = [pc EXCEPT ![p] = to]

\* The call takes the job's lock.
Enter(p, j, next) ==
  /\ pc' = [pc EXCEPT ![p] = next]
  /\ job' = [job EXCEPT ![p] = j]
  /\ answer' = [answer EXCEPT ![p] = "none"]
  /\ lock' = [lock EXCEPT ![j] = p]
  /\ UNCHANGED <<leaseVars, fileVars, at, stored, mishaps>>

Release(p) == lock' = [j \in Jobs |-> IF lock[j] = p THEN NoProcess ELSE lock[j]]

\* The call ends; a lock it holds is released.
Return(p, how) ==
  /\ pc' = [pc EXCEPT ![p] = "off"]
  /\ answer' = [answer EXCEPT ![p] = how]
  /\ at' = [at EXCEPT ![p] = 1]
  /\ stored' = [stored EXCEPT ![p] = 0]
  /\ Release(p)
  /\ UNCHANGED job

\* A pilot's task runs seed_pilot before run_registered.
Seeds(p, j) == p \notin Direct /\ pilot[j]

\* A direct runner and the worker of a screen start here, a pilot's worker
\* comes here after its import.
Runs(p, j) ==
  \/ pc[p] = "off" /\ ~Seeds(p, j)
  \/ pc[p] = "seeded" /\ job[p] = j

\* Faulty: without the job lock.
StartUnlocked(p, j) ==
  /\ Runs(p, j)
  /\ Enter(p, j, "recovering")
  /\ whole' = [whole EXCEPT ![j] = Intact(j)]

\* job_lock of run_registered.
Start(p, j) ==
  /\ Runs(p, j)
  /\ lock[j] = NoProcess
  /\ Enter(p, j, "recovering")
  /\ whole' = [whole EXCEPT ![j] = Intact(j)]

\* Another process took the lock since the import: job_lock raises.
Refused(p) ==
  /\ pc[p] = "seeded"
  /\ lock[job[p]] # NoProcess
  /\ Return(p, "raised")
  /\ UNCHANGED <<leaseVars, fileVars, whole, mishaps>>

-----------------------------------------------------------------------------
(* seed_pilot, under the job lock *)

StartSeeding(p, j) ==
  /\ pc[p] = "off"
  /\ Seeds(p, j)
  /\ lock[j] = NoProcess
  /\ Enter(p, j, "seeding")
  /\ UNCHANGED whole

\* A compatible job has results this one lacks: the image's file is read, and
\* merge_record raises if it is corrupt.
ReadTarget(p) ==
  LET j == job[p] IN
  /\ pc[p] = "seeding"
  /\ summary[j] = "none"
  /\ \E i \in 1..Images :
       \/ records[j][i] = Corrupt /\ Return(p, "raised")
       \/ /\ records[j][i] \in 0..(Backends - 1)
          /\ Goto(p, "seeding", "merging")
          /\ at' = [at EXCEPT ![p] = i]
          /\ stored' = [stored EXCEPT ![p] = records[j][i]]
          /\ UNCHANGED <<job, answer, lock>>
  /\ UNCHANGED <<leaseVars, fileVars, whole, mishaps>>

\* The file is written whole, what was read and what the other job has.
WriteTarget(p) ==
  /\ Goto(p, "merging", "seeding")
  /\ \E n \in (stored[p] + 1)..Backends :
       records' = [records EXCEPT ![job[p]][at[p]] = n]
  /\ at' = [at EXCEPT ![p] = 1]
  /\ stored' = [stored EXCEPT ![p] = 0]
  /\ UNCHANGED <<leaseVars, job, answer, lock, paired, rows, summary, pilot, whole, mishaps>>

\* There is no more to import, or a summary: it is verified, and without intact
\* evidence the task fails before it comes to run_registered.
EndSeeding(p) ==
  LET j == job[p] IN
  /\ pc[p] = "seeding"
  /\ \/ /\ summary[j] = "none" \/ Intact(j)
        /\ Goto(p, "seeding", "seeded")
        /\ Release(p)
        /\ UNCHANGED <<job, at, stored, answer>>
     \/ summary[j] # "none" /\ ~Intact(j) /\ Return(p, "raised")
  /\ UNCHANGED <<leaseVars, fileVars, whole, mishaps>>

-----------------------------------------------------------------------------
(* Recovery, submission and claim *)


\* recover_stale over this job alone.
Recover(p) ==
  LET j == job[p]
      stale == p \notin Direct /\ stage[j] = "leased" /\ ~fresh[j] IN
  /\ Goto(p, "recovering", "submitting")
  /\ \/ stale /\ Expire({j})
     \/ ~stale /\ UNCHANGED <<stage, result>>
  /\ UNCHANGED <<job, at, stored, answer, lock, owner, fresh, fileVars, whole, mishaps>>

Submit(p) ==
  LET j == job[p] IN
  /\ pc[p] = "submitting"
  /\ \/ /\ stage[j] = "idle"
        /\ Enqueue(j)
        /\ Goto(p, "submitting", "claiming")
        /\ UNCHANGED <<job, at, stored, answer, lock>>
     \/ /\ stage[j] = "queued"
        /\ Goto(p, "submitting", "claiming")
        /\ UNCHANGED <<stage, result, job, at, stored, answer, lock>>
     \/ /\ stage[j] = "done"
        /\ Goto(p, "submitting", "reusing")
        /\ UNCHANGED <<stage, result, job, at, stored, answer, lock>>
     \/ /\ stage[j] = "leased"
        /\ Return(p, "RUNNING")
        /\ UNCHANGED <<stage, result>>
  /\ UNCHANGED <<owner, fresh, fileVars, whole, mishaps>>

\* Faulty: a completed row is answer enough.
ReuseUnverified(p) ==
  /\ pc[p] = "reusing"
  /\ Return(p, "COMPLETED")
  /\ UNCHANGED <<leaseVars, fileVars, whole, mishaps>>

\* Corrupt or missing evidence of a completed run raises.
Reuse(p) ==
  /\ pc[p] = "reusing"
  /\ Return(p, IF Intact(job[p]) THEN "COMPLETED" ELSE "raised")
  /\ UNCHANGED <<leaseVars, fileVars, whole, mishaps>>

Claim(p) ==
  LET j == job[p] IN
  /\ Goto(p, "claiming", "executing")
  /\ Lease(j)
  /\ owner' = [owner EXCEPT ![j] = p]
  /\ fresh' = [fresh EXCEPT ![j] = TRUE]
  /\ UNCHANGED <<job, at, stored, answer, lock, fileVars, whole, mishaps>>

-----------------------------------------------------------------------------
(* run_job *)

\* Faulty: a corrupt checkpoint is executed again like a missing one.
ReadOrRepair(p) ==
  LET held == records[job[p]][at[p]] IN
  /\ at[p] <= Images
  /\ Goto(p, "executing", "extending")
  /\ stored' = [stored EXCEPT ![p] = IF held = Corrupt THEN 0 ELSE held]
  /\ UNCHANGED <<leaseVars, fileVars, job, at, answer, lock, whole, mishaps>>

\* checkpoint(): the image's file is read, a missing one as an empty record, and
\* a corrupt one raises.
ReadCheckpoint(p) ==
  LET held == records[job[p]][at[p]] IN
  /\ at[p] <= Images
  /\ \/ /\ held = Corrupt
        /\ Goto(p, "executing", "failing")
        /\ UNCHANGED stored
     \/ /\ held # Corrupt
        /\ Goto(p, "executing", "extending")
        /\ stored' = [stored EXCEPT ![p] = held]
  /\ UNCHANGED <<leaseVars, fileVars, job, at, answer, lock, whole, mishaps>>

\* A missing backend has been executed and the record in memory is written over
\* whatever the file is by now; an earlier summary has other timings.
SaveBackend(p) ==
  LET j == job[p] IN
  /\ pc[p] = "extending"
  /\ stored[p] < Backends
  /\ stored' = [stored EXCEPT ![p] = @ + 1]
  /\ records' = [records EXCEPT ![j][at[p]] = stored[p] + 1]
  /\ summary' = [summary EXCEPT ![j] = IF @ = "good" THEN "bad" ELSE @]
  /\ UNCHANGED <<leaseVars, pc, job, at, answer, lock, paired, rows, pilot, whole, mishaps>>

NextImage(p) ==
  /\ stored[p] = Backends
  /\ Goto(p, "extending", "executing")
  /\ at' = [at EXCEPT ![p] = @ + 1]
  /\ stored' = [stored EXCEPT ![p] = 0]
  /\ UNCHANGED <<leaseVars, fileVars, job, answer, lock, whole, mishaps>>

AllImages(p) ==
  /\ at[p] > Images
  /\ Goto(p, "executing", "pairing")
  /\ UNCHANGED <<leaseVars, fileVars, job, at, stored, answer, lock, whole, mishaps>>

WritePaired(p) ==
  /\ Goto(p, "pairing", "storing")
  /\ paired' = [paired EXCEPT ![job[p]] = TRUE]
  /\ UNCHANGED <<leaseVars, job, at, stored, answer, lock, records, rows, summary, pilot, whole, mishaps>>

\* store_per_image: rows of an earlier attempt are equal and stay.
StoreRows(p) ==
  /\ Goto(p, "storing", "summarising")
  /\ rows' = [rows EXCEPT ![job[p]] = TRUE]
  /\ UNCHANGED <<leaseVars, job, at, stored, answer, lock, records, paired, summary, pilot, whole, mishaps>>

\* The summary refers to every file by its hash: a file lost since it was read
\* raises, a corrupted one is referred to as it is.
WriteSummary(p) ==
  LET j == job[p] IN
  /\ pc[p] = "summarising"
  /\ IF paired[j] /\ \A i \in 1..Images : records[j][i] # 0
     THEN /\ Goto(p, "summarising", "checking")
          /\ summary' = [summary EXCEPT ![j] = "good"]
          /\ whole' = [whole EXCEPT ![j] = @ \/ \A i \in 1..Images : records[j][i] = Backends]
     ELSE /\ Goto(p, "summarising", "failing")
          /\ UNCHANGED <<summary, whole>>
  /\ UNCHANGED <<leaseVars, job, at, stored, answer, lock, records, paired, rows, pilot, mishaps>>

-----------------------------------------------------------------------------
(* The end of the run *)

\* Faulty: the executor's return value is proof enough.
VerifyNothing(p) ==
  /\ Goto(p, "checking", "finishing")
  /\ UNCHANGED <<leaseVars, fileVars, job, at, stored, answer, lock, whole, mishaps>>

\* checked_executor: the evidence is verified before the registry is told.
Verify(p) ==
  /\ Goto(p, "checking", IF Intact(job[p]) THEN "finishing" ELSE "failing")
  /\ UNCHANGED <<leaseVars, fileVars, job, at, stored, answer, lock, whole, mishaps>>

\* finish finds the lease still owned: see LiveOwnerKeepsLease.
Finish(p) ==
  LET j == job[p] IN
  /\ owner[j] = p
  /\ \/ pc[p] = "finishing" /\ Complete(j) /\ Return(p, "COMPLETED")
     \/ pc[p] = "failing" /\ Fail(j) /\ Return(p, "FAILED")
  /\ UNCHANGED <<owner, fresh, fileVars, whole, mishaps>>

-----------------------------------------------------------------------------
(* What happens besides *)

\* The renewal thread of a process that is not suspended.
Renew(p) ==
  LET j == job[p] IN
  /\ pc[p] \in Claimed
  /\ stage[j] = "leased" /\ owner[j] = p /\ ~fresh[j]
  /\ fresh' = [fresh EXCEPT ![j] = TRUE]
  /\ UNCHANGED <<stage, result, owner, fileVars, callVars, whole, mishaps>>

\* Nobody renews for recover_stale_seconds: the owner died, is suspended, or
\* its renewal thread ended on a locked database.
Age(j) ==
  /\ stage[j] = "leased" /\ fresh[j]
  /\ fresh' = [fresh EXCEPT ![j] = FALSE]
  /\ UNCHANGED <<stage, result, owner, fileVars, callVars, whole, mishaps>>

Mishap == mishaps < MaxMishaps /\ mishaps' = mishaps + 1

\* An exception out of run_job; a configuration that no longer validates ends
\* the run INVALID instead of FAILED, which is the same here.
Raise(p) ==
  /\ Mishap
  /\ pc[p] \in {"executing", "extending", "pairing", "storing", "summarising"}
  /\ pc' = [pc EXCEPT ![p] = "failing"]
  /\ UNCHANGED <<leaseVars, fileVars, job, at, stored, answer, lock, whole>>

\* Killed or interrupted: the kernel releases the lock, the row stays RUNNING.
Die(p) ==
  /\ Mishap
  /\ pc[p] # "off"
  /\ Return(p, "raised")
  /\ UNCHANGED <<leaseVars, fileVars, whole>>

\* A file is lost or corrupted, whoever is working on the job.
Damage(j) ==
  /\ Mishap
  /\ \/ /\ \E i \in 1..Images, s \in {0, Corrupt} :
             records[j][i] \in 1..Backends /\ records' = [records EXCEPT ![j][i] = s]
        /\ UNCHANGED <<paired, summary>>
     \/ paired[j] /\ paired' = [paired EXCEPT ![j] = FALSE] /\ UNCHANGED <<records, summary>>
     \/ /\ \E s \in {"none", "bad"} :
             summary[j] = "good" /\ summary' = [summary EXCEPT ![j] = s]
        /\ UNCHANGED <<records, paired>>
  /\ UNCHANGED <<leaseVars, callVars, rows, pilot, whole>>

-----------------------------------------------------------------------------

Import(p) == ReadTarget(p) \/ WriteTarget(p) \/ EndSeeding(p) \/ Refused(p)

RunJob(p) ==
  \/ ReadCheckpoint(p) \/ SaveBackend(p) \/ NextImage(p) \/ AllImages(p)
  \/ WritePaired(p) \/ StoreRows(p) \/ WriteSummary(p)

Continue(p) ==
  \/ Import(p) \/ Recover(p) \/ Submit(p) \/ Reuse(p) \/ Claim(p)
  \/ RunJob(p) \/ Verify(p) \/ Finish(p)

JobsNext ==
  \/ \E p \in Processes : Continue(p) \/ Renew(p) \/ Raise(p) \/ Die(p)
  \/ \E p \in Processes, j \in Jobs : StartSeeding(p, j) \/ Start(p, j)
  \/ \E j \in Jobs : Age(j) \/ Damage(j)

\* A process that is not killed goes on, an unrenewed lease becomes stale, and
\* the controller calls again: strongly fair, for the import and for the run,
\* since the calls of direct runners in between keep it waiting for the lock.
JobsFairness ==
  /\ \A p \in Processes : WF_jobsVars(Continue(p))
  /\ \A j \in Jobs :
       /\ WF_jobsVars(Age(j))
       /\ SF_jobsVars(\E p \in Processes \ Direct : StartSeeding(p, j))
       /\ SF_jobsVars(\E p \in Processes \ Direct : Start(p, j))

JobsSpec == JobsInit /\ [][JobsNext]_jobsVars /\ JobsFairness

-----------------------------------------------------------------------------
(* Properties *)

JobsTypes ==
  /\ pc \in [Processes -> Points]
  /\ job \in [Processes -> Jobs]
  /\ at \in [Processes -> 1..(Images + 1)]
  /\ stored \in [Processes -> 0..Backends]
  /\ answer \in [Processes -> {"none", "RUNNING", "COMPLETED", "FAILED", "raised"}]
  /\ lock \in [Jobs -> Processes \cup {NoProcess}]
  /\ owner \in [Jobs -> Processes \cup {NoProcess}]
  /\ fresh \in [Jobs -> BOOLEAN]
  /\ stage \in [Jobs -> Stages]
  /\ records \in [Jobs -> [1..Images -> Contents]]
  /\ paired \in [Jobs -> BOOLEAN] /\ rows \in [Jobs -> BOOLEAN] /\ whole \in [Jobs -> BOOLEAN]
  /\ summary \in [Jobs -> {"none", "bad", "good"}]
  /\ pilot \in [Jobs -> BOOLEAN]
  /\ mishaps \in 0..MaxMishaps

\* A job is locked exactly while a call is under its lock.
LockedWhileAlive ==
  \A p \in Processes, j \in Jobs : lock[j] = p <=> pc[p] \notin Outside /\ job[p] = j

JobsTypeOK == JobsTypes /\ LockedWhileAlive

\* A process that executes keeps its lease however long it is suspended and
\* whatever its renewal thread does: recovery needs the lock it holds.  A
\* recovered attempt therefore never runs beside the one it replaces.
LiveOwnerKeepsLease ==
  \A p \in Processes :
    pc[p] \in Claimed => stage[job[p]] = "leased" /\ owner[job[p]] = p

\* A row becomes COMPLETED only if all its evidence was on disk and intact at
\* one moment while its writer held the lock, and its rows are stored: not for
\* files damaged while it ran, nor for what an interrupted attempt left.
CompletionIsBacked ==
  [][\A j \in Jobs : stage[j] # "done" /\ stage'[j] = "done" => whole[j] /\ rows[j]]_jobsVars

\* A call answers COMPLETED, for its own run or an earlier one, only if the
\* evidence was intact during the call ("Completed registry rows are reusable
\* only after their output evidence verifies", phase3-controller.md).
CompletedAnswersAreBacked ==
  [][\A p \in Processes :
       pc[p] # "off" /\ pc'[p] = "off" /\ answer'[p] = "COMPLETED" => whole[job[p]]]_jobsVars

\* The process is about to write the record of image i of job j it has read.
Holds(p, j, i) == pc[p] \in {"extending", "merging"} /\ job[p] = j /\ at[p] = i

\* A corrupt checkpoint is never replaced by results of a fresh execution or by
\* an import ("historical records are not silently repaired"): only the process
\* that read it before the damage and still holds its results writes over it.
CorruptRecordsStay ==
  [][\A j \in Jobs, i \in 1..Images :
       records[j][i] = Corrupt =>
         \/ records'[j][i] = Corrupt
         \/ \E p \in Processes : Holds(p, j, i) /\ stored[p] > 0]_jobsVars

\* What every later call fails on: a corrupt checkpoint, or, for the workers of
\* a pilot, a summary whose files are not intact.
Stuck(j) ==
  \/ \E i \in 1..Images : records[j][i] = Corrupt
  \/ pilot[j] /\ summary[j] # "none" /\ ~Intact(j)


=============================================================================
