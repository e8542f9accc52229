------------------------------ MODULE StudyChain ------------------------------
(* The breadth studies as a chain of detached controllers that know of      *)
(* each other by status files and one lease only: the initial matched       *)
(* controls (src/tools/breadth_study/e1.py), the queue of family and recipe *)
(* studies behind them (study_next.py) and the ternary continuation behind  *)
(* that (ternary_extension.py).                                             *)
EXTENDS PoolLease

e1 == "e1"
main == "main"
ternary == "ternary"
Studies == {e1, main, ternary}

CONSTANTS
  StudyJobs,     \* [Studies -> set of jobs], the registered plans of a study
  Needs,         \* [Studies -> [job -> set of jobs]], inference needs its fitting
  StudyWorkers,  \* [Studies -> Nat], concurrent worker processes
  MaxLaunches,   \* [Studies -> Nat], bound: how often a study is started
  MaxFaults      \* bound: killed controllers and failing workers

VARIABLES
  launched,  \* spawned controllers that have not tried their lock yet
  phase,     \* of the one controller that has the study's lock
  status,    \* status.json of the study, "none" before the first
  todo,      \* jobs not dispatched in this run
  failed,    \* jobs whose worker failed in this run
  live,      \* jobs that have a worker process
  own,       \* those whose worker's controller lives
  sealed,    \* jobs with a sealed summary
  tool,      \* restart-at-checkpoint: "idle" or "probing" the locks
  launches, faults

chainVars ==
  <<launched, phase, status, todo, failed, live, own, sealed, tool, launches, faults>>

Job(s, j) == Worker(s, <<j>>)

\* The study whose status file a study waits for.
Before(s) == CASE s = main -> e1 [] s = ternary -> main [] OTHER -> "none"

-----------------------------------------------------------------------------
(* Starting *)

\* The lock of the study is probed, released, and a process launched that
\* takes it again; start of the main queue starts the continuation too.
Spawn(s) ==
  /\ launches[s] < MaxLaunches[s]
  /\ launches' = [launches EXCEPT ![s] = @ + 1]
  /\ launched' = [t \in Studies |->
       IF t = s \/ (s = main /\ t = ternary /\ phase[t] = "down")
       THEN launched[t] + 1 ELSE launched[t]]

StartStudy(s) ==
  /\ s # ternary /\ phase[s] = "down"
  /\ Spawn(s)
  /\ UNCHANGED <<phase, status, todo, failed, live, own, sealed, tool, faults, holders>>

\* A launched controller takes its lock and writes its status, or exits.
Enter(s) ==
  /\ launched[s] > 0
  /\ launched' = [launched EXCEPT ![s] = @ - 1]
  /\ IF phase[s] = "down"
     THEN /\ phase' = [phase EXCEPT ![s] = "waiting"]
          /\ status' = [status EXCEPT ![s] = "waiting"]
     ELSE UNCHANGED <<phase, status>>
  /\ UNCHANGED <<todo, failed, live, own, sealed, tool, launches, faults, holders>>

EndsAs(s, result) ==
  /\ phase' = [phase EXCEPT ![s] = "down"]
  /\ status' = [status EXCEPT ![s] = result]

\* Faulty: a missing file is taken for a study that need not be waited for.
PriorOrAbsent(s) ==
  IF s = e1 \/ status[Before(s)] = "none" THEN "completed" ELSE status[Before(s)]

\* What the status file of the study before says; e1 waits for none.
Prior(s) == IF s = e1 THEN "completed" ELSE status[Before(s)]

\* Completed: go on; failed, or no file: fail; otherwise sleep, look again.
Look(s) ==
  /\ phase[s] = "waiting"
  /\ \/ /\ Prior(s) = "completed"
        /\ phase' = [phase EXCEPT ![s] = "acquiring"]
        /\ UNCHANGED status
     \/ Prior(s) \in {"failed", "none"} /\ EndsAs(s, "failed")
  /\ UNCHANGED <<launched, todo, failed, live, own, sealed, tool, launches, faults, holders>>

\* A lease that is held is tried again by e1 and by the ternary
\* continuation, and is the end of the main queue.
Acquire(s) ==
  /\ phase[s] = "acquiring"
  /\ IF LeaseFree
     THEN /\ phase' = [phase EXCEPT ![s] = "holding"]
          /\ status' = [status EXCEPT ![s] = "running"]
          /\ holders' = {Controller(s)}
          /\ todo' = [todo EXCEPT ![s] = StudyJobs[s]]
          /\ failed' = [failed EXCEPT ![s] = {}]
     ELSE /\ s = main
          /\ EndsAs(s, "failed")
          /\ UNCHANGED <<todo, failed, holders>>
  /\ UNCHANGED <<launched, live, own, sealed, tool, launches, faults>>

-----------------------------------------------------------------------------
(* Working *)

OwnJobs(s) == {w \in own : w[1] = s}

Ready(s, j) ==
  /\ j \in todo[s]
  /\ \A d \in Needs[s][j] : d \notin todo[s] \cup failed[s] /\ Job(s, d) \notin own

\* Jobs that are sealed already are dispatched too: the worker revalidates.
Dispatch(s, j) ==
  /\ phase[s] = "holding" /\ Ready(s, j)
  /\ Cardinality(OwnJobs(s)) < StudyWorkers[s]
  /\ todo' = [todo EXCEPT ![s] = @ \ {j}]
  /\ live' = live \cup {Job(s, j)}
  /\ own' = own \cup {Job(s, j)}
  /\ holders' = holders \cup {Job(s, j)}
  /\ UNCHANGED <<launched, phase, status, failed, sealed, tool, launches, faults>>

\* A worker seals its summary or fails, under its controller or without it.
WorkerEnds(s, j, ok) ==
  /\ Job(s, j) \in live
  /\ IF ok THEN sealed' = sealed \cup {Job(s, j)} /\ UNCHANGED faults
           ELSE faults < MaxFaults /\ faults' = faults + 1 /\ UNCHANGED sealed
  /\ live' = live \ {Job(s, j)}
  /\ own' = own \ {Job(s, j)}
  /\ holders' = holders \ {Job(s, j)}
  /\ failed' = IF Job(s, j) \in own /\ ~ok THEN [failed EXCEPT ![s] = @ \cup {j}] ELSE failed
  /\ UNCHANGED <<launched, phase, status, todo, tool, launches>>

\* A failure does not cancel what was queued: the pools are drained first.
\* The status is written while the lease is held.
Conclude(s) ==
  /\ phase[s] = "holding" /\ OwnJobs(s) = {}
  /\ \/ todo[s] = {}
     \/ failed[s] # {} /\ \A j \in todo[s] : ~Ready(s, j)
  /\ phase' = [phase EXCEPT ![s] = "closing"]
  /\ status' = [status EXCEPT ![s] = IF failed[s] = {} THEN "completed" ELSE "failed"]
  /\ UNCHANGED <<launched, todo, failed, live, own, sealed, tool, launches, faults, holders>>

Release(s) ==
  /\ phase[s] = "closing"
  /\ phase' = [phase EXCEPT ![s] = "down"]
  /\ holders' = holders \ {Controller(s)}
  /\ UNCHANGED <<launched, status, todo, failed, live, own, sealed, tool, launches, faults>>

-----------------------------------------------------------------------------
(* Deaths, and the restart at a checkpoint *)

\* The controller alone is killed: its workers go on and keep the lease.
KillStudy(s) ==
  /\ phase[s] # "down" /\ faults < MaxFaults
  /\ faults' = faults + 1
  /\ phase' = [phase EXCEPT ![s] = "down"]
  /\ own' = own \ OwnJobs(s)
  /\ holders' = holders \ {Controller(s)}
  /\ UNCHANGED <<launched, status, todo, failed, live, sealed, tool, launches>>

\* restart-at-checkpoint terminates the process group of the main queue,
\* its workers included; its status file keeps what it said.
TerminateMain ==
  /\ tool = "idle" /\ launches[main] < MaxLaunches[main]
  /\ phase[main] = "holding" /\ OwnJobs(main) # {}
  /\ tool' = "probing"
  /\ phase' = [phase EXCEPT ![main] = "down"]
  /\ live' = live \ OwnJobs(main)
  /\ own' = own \ OwnJobs(main)
  /\ holders' = holders \ (OwnJobs(main) \cup {Controller(main)})
  /\ UNCHANGED <<launched, status, todo, failed, sealed, launches, faults>>

\* All locks were free for a moment, none is kept: start again.
RestartMain ==
  /\ tool = "probing" /\ phase[main] = "down" /\ LeaseFree
  /\ Spawn(main)
  /\ tool' = "idle"
  /\ UNCHANGED <<phase, status, todo, failed, live, own, sealed, faults, holders>>

GiveUp ==
  /\ tool = "probing" /\ (phase[main] # "down" \/ ~LeaseFree)
  /\ tool' = "idle"
  /\ UNCHANGED <<launched, phase, status, todo, failed, live, own, sealed, launches, faults,
                 holders>>

-----------------------------------------------------------------------------

ChainInit ==
  /\ launched = [s \in Studies |-> 0]
  /\ phase = [s \in Studies |-> "down"]
  /\ status = [s \in Studies |-> "none"]
  /\ todo = [s \in Studies |-> {}]
  /\ failed = [s \in Studies |-> {}]
  /\ live = {} /\ own = {} /\ sealed = {}
  /\ tool = "idle"
  /\ launches = [s \in Studies |-> 0]
  /\ faults = 0

ChainNext ==
  \/ \E s \in Studies :
       \/ StartStudy(s) \/ Enter(s) \/ Look(s) \/ Acquire(s)
       \/ \E j \in StudyJobs[s] :
            Dispatch(s, j) \/ WorkerEnds(s, j, TRUE) \/ WorkerEnds(s, j, FALSE)
       \/ Conclude(s) \/ Release(s) \/ KillStudy(s)
  \/ TerminateMain \/ RestartMain \/ GiveUp

-----------------------------------------------------------------------------

\* A study computes only on what the study before it has finished, and a
\* status file that says completed is true of the sealed summaries: the
\* studies trust each other's status files, which outlive the runs that
\* wrote them (study_next.py, run_stages; ternary_extension.py, run).
StudiesInOrder ==
  \A s \in Studies :
    /\ status[s] = "completed" => \A j \in StudyJobs[s] : Job(s, j) \in sealed
    /\ s # e1 /\ (\E j \in StudyJobs[s] : Job(s, j) \in live)
         => \A j \in StudyJobs[Before(s)] : Job(Before(s), j) \in sealed

=============================================================================
