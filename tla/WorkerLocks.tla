----------------------------- MODULE WorkerLocks -----------------------------
(***************************************************************************)
(* The kernel locks of the Phase 3 runners (tools/phase3/worker_locks.py). *)
(* A flock belongs to an open file description: a worker that inherits the *)
(* controller's descriptor keeps the pool locked after the controller is   *)
(* gone, and the lock is released when the last descriptor is closed.  A   *)
(* description is represented by the processes that have it open; one that *)
(* failed to lock is closed at once and leaves no trace.  Operators marked *)
(* "Faulty" are plausible mistakes that must break a property.             *)
(***************************************************************************)
EXTENDS FiniteSets

CONSTANTS
  Processes,        \* controllers, workers and directly started runners
  Jobs,             \* job identities
  JobPool,          \* the pool a job's backends need
  NoJob

Pools == {"cuda", "cpu"}

\* controller.lock, native-worker.lock, cpu-native-worker.lock, jobs/<id>.lock
Files == {"controller"} \cup Pools \cup Jobs

ASSUME LocksAssumption ==
  /\ JobPool \in [Jobs -> Pools]
  /\ NoJob \notin Jobs
  /\ Jobs \cap ({"controller"} \cup Pools) = {}

VARIABLES
  pc,               \* what each process is doing
  openers,          \* openers[f]: who has the description locking f open
  job,              \* the job whose lock a process holds
  root              \* the process that locked the pool this one uses

lockVars == <<pc, openers, job, root>>

ProcessStates == {"off", "controller", "cuda", "controlling", "ready", "writing"}

LocksInit ==
  /\ pc = [p \in Processes |-> "off"]
  /\ openers = [f \in Files |-> {}]
  /\ job = [p \in Processes |-> NoJob]
  /\ root = [p \in Processes |-> p]

-----------------------------------------------------------------------------

Free(f) == openers[f] = {}

\* exclusive(path): LOCK_EX | LOCK_NB on a fresh description.
exclusive(p, f) ==
  /\ Free(f)
  /\ openers' = [openers EXCEPT ![f] = {p}]

\* Every way a process ends closes its descriptors.
Exit(p) ==
  /\ pc' = [pc EXCEPT ![p] = "off"]
  /\ openers' = [f \in Files |-> openers[f] \ {p}]
  /\ job' = [job EXCEPT ![p] = NoJob]
  /\ root' = [root EXCEPT ![p] = p]

\* A process name is used again once nothing started by it is alive.
Startable(p) == pc[p] = "off" /\ \A q \in Processes \ {p} : root[q] # p

Take(p, from, f, to) ==
  /\ pc[p] = from
  /\ exclusive(p, f)
  /\ pc' = [pc EXCEPT ![p] = to]
  /\ UNCHANGED <<job, root>>

\* A controller takes controller.lock, then both pools in this order; a lock
\* it cannot have ends it.
StartController(p) == Startable(p) /\ Take(p, "off", "controller", "controller")

TakeCuda(p) ==
  \/ Take(p, "controller", "cuda", "cuda")
  \/ pc[p] = "controller" /\ ~Free("cuda") /\ Exit(p)

\* Faulty: a controller that only takes the GPU lock.
TakeNoCpu(p) ==
  /\ pc[p] = "cuda"
  /\ pc' = [pc EXCEPT ![p] = "controlling"]
  /\ UNCHANGED <<openers, job, root>>

TakeCpu(p) ==
  \/ Take(p, "cuda", "cpu", "controlling")
  \/ pc[p] = "cuda" /\ ~Free("cpu") /\ Exit(p)

\* Popen(..., pass_fds=(fd,), start_new_session=True)
Spawn(p, w, pool) ==
  /\ pc[p] = "controlling"
  /\ Startable(w)
  /\ pc' = [pc EXCEPT ![w] = "ready"]
  /\ openers' = [openers EXCEPT ![pool] = @ \cup {w}]
  /\ root' = [root EXCEPT ![w] = p]
  /\ UNCHANGED job

\* run_registered without pool_fd locks the pool itself.
StartRunner(p, pool) == Startable(p) /\ Take(p, "off", pool, "ready")

\* Faulty: takes the descriptor number for a lock.
TrustsDescriptor(p, j) == TRUE

\* The descriptor must be open on the inode of the pool the job needs; the
\* flock on a shared description then succeeds.
OwnsPool(p, j) == p \in openers[JobPool[j]]

\* Faulty: relies on the pool lock alone.
LockPoolOnly(p, j) ==
  /\ pc[p] = "ready"
  /\ OwnsPool(p, j)
  /\ pc' = [pc EXCEPT ![p] = "writing"]
  /\ job' = [job EXCEPT ![p] = j]
  /\ UNCHANGED <<openers, root>>

job_lock(p, j) ==
  /\ pc[p] = "ready"
  /\ IF OwnsPool(p, j) /\ Free(j)
     THEN /\ exclusive(p, j)
          /\ pc' = [pc EXCEPT ![p] = "writing"]
          /\ job' = [job EXCEPT ![p] = j]
          /\ UNCHANGED root
     ELSE Exit(p)

\* A pilot worker locks its job twice, for seeding and for the run.
ReleaseJob(p) ==
  /\ pc[p] = "writing"
  /\ pc' = [pc EXCEPT ![p] = "ready"]
  /\ openers' = [openers EXCEPT ![job[p]] = @ \ {p}]
  /\ job' = [job EXCEPT ![p] = NoJob]
  /\ UNCHANGED root

\* Any process may be killed; a controller's workers survive it.
Killed(p) == pc[p] # "off" /\ Exit(p)

LocksNext ==
  \E p \in Processes :
    \/ StartController(p)
    \/ TakeCuda(p)
    \/ TakeCpu(p)
    \/ \E w \in Processes \ {p}, pool \in Pools : Spawn(p, w, pool)
    \/ \E pool \in Pools : StartRunner(p, pool)
    \/ \E j \in Jobs : job_lock(p, j)
    \/ ReleaseJob(p)
    \/ Killed(p)

LocksSpec == LocksInit /\ [][LocksNext]_lockVars

-----------------------------------------------------------------------------
(* Properties *)

\* The types, and no lock survives the processes that have it open.
LocksTypeOK ==
  /\ pc \in [Processes -> ProcessStates]
  /\ openers \in [Files -> SUBSET Processes]
  /\ job \in [Processes -> Jobs \cup {NoJob}]
  /\ root \in [Processes -> Processes]
  /\ \A f \in Files : \A p \in openers[f] : pc[p] # "off"

\* Two processes never write the same job, whichever controller or shell
\* started them and whoever has been killed since.
OneWriterPerJob ==
  \A p, q \in Processes :
    pc[p] = "writing" /\ pc[q] = "writing" /\ job[p] = job[q] => p = q

\* Writers on one pool descend from one lock holder: a directly started runner
\* never computes beside a controller's workers, nor beside the orphans of a
\* controller that was killed.
WritersShareOnePoolOwner ==
  \A p, q \in Processes :
    /\ pc[p] = "writing"
    /\ pc[q] = "writing"
    /\ JobPool[job[p]] = JobPool[job[q]]
    => root[p] = root[q]

\* While a controller schedules, every process that may write was started by
\* it: a restarted controller waits for the workers its predecessor left.
ControllerIsAlone ==
  \A c, p \in Processes :
    pc[c] = "controlling" /\ pc[p] \in {"controlling", "ready", "writing"} /\ p # c => root[p] = c

=============================================================================
