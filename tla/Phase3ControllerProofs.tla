----------------------- MODULE Phase3ControllerProofs -----------------------
(***************************************************************************)
(* Proofs about one controller run for every set of tasks, dependencies,   *)
(* lanes and number of edits.                                              *)
(***************************************************************************)
EXTENDS Phase3Controller, FiniteSetTheorems, TLAPS

CtrlTypes ==
  /\ status \in [Tasks -> {"pending", "running", "completed", "failed", "blocked", "interrupted"}]
  /\ proc \in [Tasks -> {"none", "starting", "executing", "reported", "exited", "crashed"}]
  /\ saw \in [Tasks -> Nat] /\ ran \in [Tasks -> SUBSET Nat] /\ source \in Nat

\* A task has a process from its launch on; a live one is that of a running
\* task.
ProcessesAreStarted ==
  \A t \in Tasks :
    /\ proc[t] = "none" <=> status[t] \in {"pending", "blocked"}
    /\ Alive(t) => status[t] = "running"

\* A ready list stays ready for the pass that made it.
ReadyStaysReady ==
  pc = "launching" =>
    \A t \in ready : t \in Tasks /\ status[t] = "pending" /\ \A d \in Deps[t] : status[d] = "completed"

\* What a worker knows of the sources it has loaded, at each of its points.
SourcesAreKnown ==
  \A t \in Tasks :
    /\ proc[t] \in {"starting", "executing"} =>
         Expected \in ran[t] /\ \A n \in ran[t] : n <= source
    /\ proc[t] \in {"reported", "exited"} /\ saw[t] = Expected => ran[t] = {Expected}
    /\ status[t] = "completed" => proc[t] = "exited" /\ saw[t] = Expected

\* After the groups were terminated, nothing is active.
NothingIsActive ==
  pc = "restoring" \/ (pc = "ended" /\ exit # "killed") => \A t \in Tasks : status[t] # "running"

CtrlInv ==
  /\ CtrlTypes /\ ProcessesAreStarted /\ ReadyStaysReady
  /\ DependenciesFirst /\ SourcesAreKnown /\ NothingIsActive

\* Polling ends running tasks and blocks pending ones; it completes a task
\* only if its worker exited with the right sources.
LEMMA PolledAndBlocked ==
  ASSUME CtrlInv, NEW corrupt \in SUBSET Active, NEW s, s = Blocking(Polled(corrupt))
  PROVE  /\ s \in [Tasks -> {"pending", "running", "completed", "failed", "blocked", "interrupted"}]
         /\ \A t \in Tasks :
              /\ status[t] = "pending" => s[t] \in {"pending", "blocked"}
              /\ status[t] = "running" /\ Alive(t) => s[t] = "running"
              /\ status[t] = "running" /\ ~Alive(t) => s[t] = "failed" \/ (s[t] = "completed" /\ Succeeded(t))
              /\ status[t] \notin {"pending", "running"} => s[t] = status[t]
  <1>. DEFINE q == Polled(corrupt)
  <1>1. /\ q \in [Tasks -> {"pending", "running", "completed", "failed", "blocked", "interrupted"}]
        /\ \A t \in Tasks :
             /\ status[t] # "running" \/ Alive(t) => q[t] = status[t]
             /\ status[t] = "running" /\ ~Alive(t) => q[t] = "failed" \/ (q[t] = "completed" /\ Succeeded(t))
    BY DEF Polled, CtrlInv, CtrlTypes
  <1>2. \A t \in Tasks : s[t] = q[t] \/ (q[t] = "pending" /\ s[t] = "blocked")
    BY Zenon DEF Blocking, Doomed
  <1>3. s \in [Tasks -> {"pending", "running", "completed", "failed", "blocked", "interrupted"}]
    <2>1. s = [t \in Tasks |-> s[t]]
      BY Zenon DEF Blocking
    <2>. HIDE DEF q
    <2>. QED
      BY <1>1, <1>2, <2>1
  <1>. HIDE DEF q
  <1>. QED
    BY <1>1, <1>2, <1>3 DEF CtrlInv, CtrlTypes

LEMMA InitiallyPending == CtrlInit => CtrlInv
  BY DEF CtrlInit, CtrlInv, CtrlTypes, ProcessesAreStarted, ReadyStaysReady, DependenciesFirst,
         SourcesAreKnown, NothingIsActive, Alive, Expected

\* A pass reads the table and makes its ready list.
LEMMA ScanKeepsInv ==
  ASSUME CtrlInv, ControllerAssumption, Scan
  PROVE  CtrlInv'
  <1>1. PICK corrupt \in SUBSET Active : status' = Blocking(Polled(corrupt))
    BY DEF Scan
  <1>2. /\ status' \in [Tasks -> {"pending", "running", "completed", "failed", "blocked", "interrupted"}]
        /\ \A t \in Tasks :
              /\ status[t] = "pending" => status'[t] \in {"pending", "blocked"}
              /\ status[t] = "running" /\ Alive(t) => status'[t] = "running"
              /\ status[t] = "running" /\ ~Alive(t) =>
                   status'[t] = "failed" \/ (status'[t] = "completed" /\ Succeeded(t))
              /\ status[t] \notin {"pending", "running"} => status'[t] = status[t]
    BY <1>1, PolledAndBlocked
  <1>3. pc' = "launching" /\ ready' = Ready(status') /\ UNCHANGED <<proc, result, saw, ran, source>>
    BY DEF Scan, workVars
  <1>4. CtrlTypes'
    BY <1>2, <1>3 DEF CtrlInv, CtrlTypes
  <1>5. ProcessesAreStarted'
    BY <1>2, <1>3 DEF CtrlInv, CtrlTypes, ProcessesAreStarted, Alive
  <1>6. ReadyStaysReady'
    BY <1>3 DEF ReadyStaysReady, Ready
  <1>7. DependenciesFirst'
    BY <1>2, <1>3, ControllerAssumption DEF CtrlInv, DependenciesFirst, ControllerAssumption
  <1>8. SourcesAreKnown'
    BY <1>2, <1>3 DEF CtrlInv, CtrlTypes, SourcesAreKnown, Succeeded
  <1>9. NothingIsActive'
    BY <1>3 DEF NothingIsActive
  <1>. QED
    BY <1>4, <1>5, <1>6, <1>7, <1>8, <1>9 DEF CtrlInv

\* The sources a controller starts a worker with are its own.
LEMMA LaunchKeepsInv ==
  ASSUME CtrlInv, ControllerAssumption, NEW t \in Tasks, Launch(t)
  PROVE  CtrlInv'
  <1>. USE DEF CtrlInv, CtrlTypes, Launch, IsNext
  <1>0. t \in ready /\ status[t] = "pending" /\ (\A d \in Deps[t] : status[d] = "completed")
    BY DEF ReadyStaysReady
  <1>1. CtrlTypes'
    OBVIOUS
  <1>2. ProcessesAreStarted'
    BY DEF ProcessesAreStarted, Alive
  <1>3. ReadyStaysReady'
    BY <1>0, ControllerAssumption DEF ReadyStaysReady, ControllerAssumption
  <1>4. DependenciesFirst'
    BY <1>0, ControllerAssumption DEF DependenciesFirst, ControllerAssumption
  <1>5. SourcesAreKnown'
    BY <1>0 DEF SourcesAreKnown, Expected
  <1>6. NothingIsActive'
    BY DEF NothingIsActive
  <1>. QED
    BY <1>1, <1>2, <1>3, <1>4, <1>5, <1>6

\* The other steps of schedule(): they end tasks that are not completed.
LEMMA ControllerKeepsInv ==
  ASSUME CtrlInv, ControllerAssumption,
         Stop \/ (\E t \in Tasks : Refuse(t)) \/ Raise \/ Decide \/ Terminate \/ Reap \/ Finish \/ Signal \/ Killed
  PROVE  CtrlInv'
  <1>1. CtrlTypes'
    BY DEF CtrlInv, CtrlTypes, Stop, Refuse, Raise, Fail, Decide, Terminate, Reap, Finish, Signal, Killed,
           workVars, Alive
  <1>2. ProcessesAreStarted'
    BY DEF CtrlInv, CtrlTypes, ProcessesAreStarted, Stop, Refuse, Raise, Fail, Decide, Terminate, Reap,
           Finish, Signal, Killed, workVars, Alive, Active
  <1>3. ReadyStaysReady'
    BY DEF CtrlInv, ReadyStaysReady, Stop, Refuse, Raise, Fail, Decide, Terminate, Reap,
           Finish, Signal, Killed, workVars
  <1>4. DependenciesFirst'
    BY ControllerAssumption DEF CtrlInv, CtrlTypes, DependenciesFirst, Stop, Refuse, Raise, Fail, Decide,
       Terminate, Reap, Finish, Signal, Killed, workVars, Alive, Active, ControllerAssumption
  <1>5. SourcesAreKnown'
    BY DEF CtrlInv, CtrlTypes, SourcesAreKnown, Stop, Refuse, Raise, Fail, Decide, Terminate, Reap,
           Finish, Signal, Killed, workVars, Alive, Active
  <1>6. NothingIsActive'
    BY DEF CtrlInv, CtrlTypes, NothingIsActive, Stop, Refuse, Raise, Fail, Decide, Terminate, Reap,
           Finish, Signal, Killed, workVars, Active
  <1>. QED
    BY <1>1, <1>2, <1>3, <1>4, <1>5, <1>6 DEF CtrlInv

\* Workers and editors touch neither the table nor the ready list.
LEMMA WorkKeepsInv ==
  ASSUME CtrlInv, NEW t \in Tasks, Work(t)
  PROVE  CtrlInv'
  <1>. USE DEF CtrlInv, CtrlTypes, loopVars, End
  <1>1. /\ UNCHANGED <<pc, status, ready, exit, ran, source>>
        /\ saw' \in [Tasks -> Nat] /\ proc' \in [Tasks -> {"none", "starting", "executing", "reported", "exited", "crashed"}]
        /\ \A u \in Tasks \ {t} : proc'[u] = proc[u] /\ saw'[u] = saw[u]
        /\ \/ proc[t] = "starting" /\ proc'[t] = "executing"
           \/ proc[t] = "executing" /\ source = saw[t] /\ proc'[t] = "reported" /\ saw'[t] = saw[t]
           \/ proc[t] = "reported" /\ proc'[t] = "exited" /\ saw'[t] = saw[t]
           \/ Alive(t) /\ proc'[t] = "crashed" /\ saw'[t] = saw[t]
    BY DEF Work, Begin, RefuseToBegin, Complete, Abandon, Exit, Die, Alive
  <1>2. CtrlTypes'
    BY <1>1
  <1>3. ProcessesAreStarted'
    BY <1>1 DEF ProcessesAreStarted, Alive
  <1>4. ReadyStaysReady' /\ DependenciesFirst' /\ NothingIsActive'
    <2>1. proc[t] # "none"
      BY <1>1 DEF Alive
    <2>. QED
      BY <1>1, <2>1 DEF ReadyStaysReady, DependenciesFirst, NothingIsActive
  <1>5. SourcesAreKnown'
    <2>1. status[t] # "completed"
      BY <1>1 DEF ProcessesAreStarted, Alive, SourcesAreKnown
    <2>2. ASSUME proc[t] = "executing", source = saw[t], saw[t] = Expected
          PROVE  ran[t] = {Expected}
      BY <2>2 DEF SourcesAreKnown, Expected
    <2>3. (proc'[t] \in {"starting", "executing"} => Expected \in ran[t] /\ \A n \in ran[t] : n <= source)
      BY <1>1 DEF SourcesAreKnown
    <2>4. proc'[t] \in {"reported", "exited"} /\ saw'[t] = Expected => ran[t] = {Expected}
      BY <1>1, <2>2 DEF SourcesAreKnown
    <2>. QED
      BY <1>1, <2>1, <2>3, <2>4 DEF SourcesAreKnown
  <1>. QED
    BY <1>2, <1>3, <1>4, <1>5

LEMMA EditKeepsInv ==
  ASSUME CtrlInv, Edit
  PROVE  CtrlInv'
  <1>. USE DEF CtrlInv, CtrlTypes, Edit, loopVars
  <1>1. CtrlTypes'
    OBVIOUS
  <1>2. ProcessesAreStarted' /\ ReadyStaysReady' /\ DependenciesFirst' /\ NothingIsActive'
    BY DEF ProcessesAreStarted, Alive, ReadyStaysReady, DependenciesFirst, NothingIsActive
  <1>3. SourcesAreKnown'
    BY DEF SourcesAreKnown, Expected
  <1>. QED
    BY <1>1, <1>2, <1>3

LEMMA CtrlStep == CtrlInv /\ [CtrlNext]_ctrlVars => CtrlInv'
  <1>. SUFFICES ASSUME CtrlInv, [CtrlNext]_ctrlVars PROVE CtrlInv'
    OBVIOUS
  <1>1. CASE Scan
    BY <1>1, ScanKeepsInv, ControllerAssumption
  <1>2. ASSUME NEW t \in Tasks, Launch(t) PROVE CtrlInv'
    BY <1>2, LaunchKeepsInv, ControllerAssumption
  <1>3. CASE Stop \/ (\E t \in Tasks : Refuse(t)) \/ Raise \/ Decide \/ Finally \/ Signal \/ Killed
    BY <1>3, ControllerKeepsInv, ControllerAssumption DEF Finally
  <1>4. ASSUME NEW t \in Tasks, Work(t) PROVE CtrlInv'
    BY <1>4, WorkKeepsInv
  <1>5. CASE Edit
    BY <1>5, EditKeepsInv
  <1>6. CASE UNCHANGED ctrlVars
    BY <1>6 DEF ctrlVars, CtrlInv, CtrlTypes, ProcessesAreStarted, ReadyStaysReady, DependenciesFirst,
                SourcesAreKnown, NothingIsActive, Alive
  <1>. QED
    BY <1>1, <1>2, <1>3, <1>4, <1>5, <1>6 DEF CtrlNext, Loop

\* The inductive invariant of a controller run: which tasks have processes,
\* what workers know of their sources, and that a ready list stays ready.
THEOREM ControllerInvariant == CtrlSpec => []CtrlInv
  BY InitiallyPending, CtrlStep, PTL DEF CtrlSpec

\* No task is ever started before all its dependencies have completed.
THEOREM DependenciesComeFirst == CtrlSpec => []DependenciesFirst
  <1>1. CtrlInv => DependenciesFirst
    BY DEF CtrlInv
  <1>. QED
    BY <1>1, ControllerInvariant, PTL

\* Completed work was loaded and computed under one version of the sources.
THEOREM OneSourceHolds == CtrlSpec => []CompletedUnderOneSource
  <1>1. CtrlInv => CompletedUnderOneSource
    BY DEF CtrlInv, SourcesAreKnown, CompletedUnderOneSource
  <1>. QED
    BY <1>1, ControllerInvariant, PTL

\* A controller that was not killed leaves no worker behind.
THEOREM NobodyIsLeft == CtrlSpec => []NoWorkerIsLeft
  <1>1. CtrlInv => NoWorkerIsLeft
    BY DEF CtrlInv, NothingIsActive, ProcessesAreStarted, NoWorkerIsLeft
  <1>. QED
    BY <1>1, ControllerInvariant, PTL

\* Nothing is retried in a run and no outcome is taken back.
THEOREM OutcomesStay == CtrlSpec => OutcomesAreFinal
  <1>. DEFINE Stays ==
         \A t \in Tasks :
           /\ status[t] \in {"completed", "failed", "blocked", "interrupted"} => status'[t] = status[t]
           /\ proc[t] # "none" => proc'[t] # "starting" \/ proc[t] = "starting"
  <1>1. ASSUME CtrlInv, Scan PROVE Stays
    <2>1. PICK corrupt \in SUBSET Active : status' = Blocking(Polled(corrupt))
      BY <1>1 DEF Scan
    <2>2. \A t \in Tasks : status[t] \notin {"pending", "running"} => status'[t] = status[t]
      BY <1>1, <2>1, PolledAndBlocked
    <2>3. UNCHANGED proc
      BY <1>1 DEF Scan, workVars
    <2>. QED
      BY <2>2, <2>3
  <1>2. ASSUME CtrlInv, NEW t \in Tasks, Launch(t) PROVE Stays
    BY <1>2 DEF CtrlInv, CtrlTypes, Launch, IsNext, ReadyStaysReady, ProcessesAreStarted
  <1>3. ASSUME CtrlInv, Stop \/ (\E t \in Tasks : Refuse(t)) \/ Raise \/ Decide \/ Finally \/ Signal \/ Killed
        PROVE  Stays
    BY <1>3 DEF CtrlInv, CtrlTypes, Stop, Refuse, Raise, Fail, Decide, Finally, Terminate, Reap, Finish,
                Signal, Killed, workVars, Active, Alive
  <1>4. ASSUME CtrlInv, NEW t \in Tasks, Work(t) PROVE Stays
    BY <1>4 DEF CtrlInv, CtrlTypes, Work, Begin, RefuseToBegin, Complete, Abandon, Exit, Die, End, loopVars
  <1>5. ASSUME CtrlInv, Edit PROVE Stays
    BY <1>5 DEF Edit, loopVars
  <1>6. CtrlInv /\ [CtrlNext]_ctrlVars => [Stays]_ctrlVars
    BY <1>1, <1>2, <1>3, <1>4, <1>5 DEF CtrlNext, Loop
  <1>. QED
    BY <1>6, ControllerInvariant, PTL DEF CtrlSpec, OutcomesAreFinal

-----------------------------------------------------------------------------
(* Independent work *)

Ended == {"failed", "blocked", "interrupted"}

\* While the loop runs, a blocked task has a dependency that will not complete.
BlockedBehindEnded ==
  pc \in {"scan", "launching"} =>
    \A t \in Tasks :
      /\ status[t] # "interrupted"
      /\ status[t] = "blocked" => \E d \in Deps[t] : status[d] \in Ended

\* What a pass does not launch was refused, is not ready, or waits for a slot
\* that somebody has.
PassedOver ==
  pc = "launching" /\ ~stopped =>
    \A t \in Tasks :
      status[t] = "pending" =>
        t \in ready \/ t \in refused \/ Active # {} \/ \E d \in Deps[t] : status[d] # "completed"

\* A run that ends by itself ends in what IndependentWorkContinues says.
EndsByItself ==
  pc \in {"closing", "grace", "restoring"} /\ ~stopped =>
    \A t \in Tasks :
      \/ status[t] \in {"completed", "failed"}
      \/ status[t] = "blocked" /\ (t \in refused \/ \E d \in Deps[t] : status[d] # "completed")

WorkInv == BlockedBehindEnded /\ PassedOver /\ EndsByItself

\* The least closed set is closed, and a row is in it for a reason.
LEMMA DoomedForAReason ==
  ASSUME NEW s, NEW t \in Doomed(s)
  PROVE  \E d \in Deps[t] : s[d] \in Ended \/ d \in Doomed(s)
  <1>. DEFINE pending == {u \in Tasks : s[u] = "pending"}
              closed == {D \in SUBSET pending : \A u \in pending : Behind(s, u, D) => u \in D}
              reasoned == {u \in pending : Behind(s, u, Doomed(s))}
  <1>1. Doomed(s) = {u \in pending : \A D \in closed : u \in D}
    BY Zenon DEF Doomed
  <1>2. reasoned \subseteq Doomed(s)
    <2>. SUFFICES ASSUME NEW u \in pending, Behind(s, u, Doomed(s)), NEW D \in closed
                  PROVE  u \in D
      BY <1>1
    <2>1. Behind(s, u, D)
      BY <1>1 DEF Behind
    <2>. QED
      BY <2>1
  <1>3. reasoned \in closed
    <2>. SUFFICES ASSUME NEW u \in pending, Behind(s, u, reasoned)
                  PROVE  u \in reasoned
      OBVIOUS
    <2>1. Behind(s, u, Doomed(s))
      BY <1>2 DEF Behind
    <2>. QED
      BY <2>1
  <1>4. t \in reasoned
    BY <1>1, <1>3
  <1>. QED
    BY <1>4 DEF Behind, Ended

LEMMA WorkInvInitially == CtrlInit => WorkInv
  BY DEF CtrlInit, WorkInv, BlockedBehindEnded, PassedOver, EndsByItself

LEMMA ScanKeepsWorkInv ==
  ASSUME CtrlInv, WorkInv, ControllerAssumption, Scan
  PROVE  WorkInv'
  <1>1. PICK corrupt \in SUBSET Active : status' = Blocking(Polled(corrupt))
    BY DEF Scan
  <1>. DEFINE q == Polled(corrupt)
  <1>2. /\ pc = "scan" /\ pc' = "launching" /\ ready' = Ready(status')
        /\ status \in [Tasks -> {"pending", "running", "completed", "failed", "blocked", "interrupted"}]
    BY DEF Scan, CtrlInv, CtrlTypes
  <1>3. \A t \in Tasks :
          /\ status[t] # "running" => q[t] = status[t]
          /\ status[t] = "running" => q[t] \in {"running", "completed", "failed"}
    BY DEF Polled
  <1>4. \A t \in Tasks : status'[t] = IF t \in Doomed(q) THEN "blocked" ELSE q[t]
    BY <1>1 DEF Blocking
  <1>5. \A t \in Doomed(q) : t \in Tasks /\ q[t] = "pending"
    BY Zenon DEF Doomed
  <1>6. BlockedBehindEnded'
    <2>. SUFFICES ASSUME NEW t \in Tasks
                  PROVE  /\ status'[t] # "interrupted"
                         /\ status'[t] = "blocked" => \E d \in Deps[t] : status'[d] \in Ended
      BY DEF BlockedBehindEnded
    <2>. HIDE DEF q
    <2>0. Deps[t] \subseteq Tasks
      BY ControllerAssumption DEF ControllerAssumption
    <2>1. status'[t] # "interrupted"
      BY <1>2, <1>3, <1>4 DEF WorkInv, BlockedBehindEnded
    <2>2. \A d \in Tasks : q[d] \in Ended \/ d \in Doomed(q) => status'[d] \in Ended
      BY <1>4 DEF Ended
    <2>3. CASE t \in Doomed(q)
      <3>1. PICK d \in Deps[t] : q[d] \in Ended \/ d \in Doomed(q)
        BY <2>3, DoomedForAReason
      <3>. QED
        BY <2>0, <2>1, <2>2, <3>1
    <2>4. CASE t \notin Doomed(q) /\ status'[t] = "blocked"
      <3>1. status[t] = "blocked"
        BY <1>2, <1>3, <1>4, <2>4
      <3>2. PICK d \in Deps[t] : status[d] \in Ended
        BY <1>2, <3>1 DEF WorkInv, BlockedBehindEnded
      <3>3. q[d] \in Ended
        BY <1>3, <2>0, <3>2 DEF Ended
      <3>. QED
        BY <2>0, <2>1, <2>2, <3>3
    <2>. QED
      BY <2>1, <2>3, <2>4
  <1>7. PassedOver'
    BY <1>2 DEF PassedOver, Ready
  <1>8. EndsByItself'
    BY <1>2 DEF EndsByItself
  <1>. QED
    BY <1>6, <1>7, <1>8 DEF WorkInv

LEMMA LaunchKeepsWorkInv ==
  ASSUME CtrlInv, WorkInv, NEW t \in Tasks, Launch(t)
  PROVE  WorkInv'
  <1>1. status[t] = "pending" /\ status' = [status EXCEPT ![t] = "running"] /\ t \in Active'
    BY DEF CtrlInv, CtrlTypes, ReadyStaysReady, Launch, IsNext, Active
  <1>2. BlockedBehindEnded'
    BY <1>1 DEF CtrlInv, CtrlTypes, WorkInv, BlockedBehindEnded, Launch, Ended
  <1>3. PassedOver'
    BY <1>1 DEF PassedOver
  <1>4. EndsByItself'
    BY DEF EndsByItself, Launch
  <1>. QED
    BY <1>2, <1>3, <1>4 DEF WorkInv

\* A lane without a free slot has a worker.
LEMMA FullLanesAreActive ==
  ASSUME ControllerAssumption, NEW lane, ~SlotFree(lane)
  PROVE  Active # {}
  <1>1. SUFFICES ASSUME Active = {} PROVE FALSE
    OBVIOUS
  <1>2. {t \in Active : Lane[t] = lane} = {}
    BY <1>1
  <1>3. Cardinality({t \in Active : Lane[t] = lane}) = 0
    BY <1>2, FS_EmptySet
  <1>. QED
    BY <1>3 DEF SlotFree, ControllerAssumption

LEMMA RefuseKeepsWorkInv ==
  ASSUME WorkInv, ControllerAssumption, NEW t \in Tasks, Refuse(t)
  PROVE  WorkInv'
  <1>1. UNCHANGED <<pc, status, stopped>> /\ pc = "launching" /\ ready' = ready \ {t}
        /\ refused \subseteq refused'
    BY DEF Refuse
  <1>2. t \in refused' \/ Active # {}
    BY FullLanesAreActive DEF Refuse
  <1>3. BlockedBehindEnded'
    BY <1>1 DEF WorkInv, BlockedBehindEnded
  <1>4. PassedOver'
    BY <1>1, <1>2 DEF WorkInv, PassedOver, Active
  <1>5. EndsByItself'
    BY <1>1 DEF EndsByItself
  <1>. QED
    BY <1>3, <1>4, <1>5 DEF WorkInv

\* The loop ends by itself when nothing is active; the rows left over become
\* blocked, which completes none.
LEMMA DecideKeepsWorkInv ==
  ASSUME CtrlInv, WorkInv, ControllerAssumption, Decide
  PROVE  WorkInv'
  <1>1. CASE Active # {}
    BY <1>1 DEF WorkInv, Decide, BlockedBehindEnded, PassedOver, EndsByItself
  <1>2. CASE Active = {}
    <2>1. /\ pc' = "closing" /\ UNCHANGED <<stopped, refused>>
          /\ status' = [t \in Tasks |-> IF status[t] = "pending" THEN "blocked" ELSE status[t]]
          /\ pc = "launching" /\ (stopped \/ ready = {})
      BY <1>2 DEF Decide
    <2>2. ASSUME ~stopped, NEW t \in Tasks
          PROVE  \/ status'[t] \in {"completed", "failed"}
                 \/ status'[t] = "blocked" /\ (t \in refused' \/ \E d \in Deps[t] : status'[d] # "completed")
      <3>0. status'[t] = IF status[t] = "pending" THEN "blocked" ELSE status[t]
        BY <2>1
      <3>1. status[t] \in {"pending", "completed", "failed", "blocked"}
        <4>1. status[t] # "running"
          BY <1>2 DEF Active
        <4>2. status[t] # "interrupted"
          BY <2>1 DEF WorkInv, BlockedBehindEnded
        <4>. QED
          BY <4>1, <4>2 DEF CtrlInv, CtrlTypes
      <3>2. \A d \in Deps[t] : status[d] # "completed" => status'[d] # "completed"
        BY <2>1, ControllerAssumption DEF ControllerAssumption
      <3>3. CASE status[t] = "pending"
        <4>1. t \in refused \/ \E d \in Deps[t] : status[d] # "completed"
          BY <1>2, <2>1, <2>2, <3>3 DEF WorkInv, PassedOver
        <4>. QED
          BY <2>1, <3>0, <3>2, <3>3, <4>1
      <3>4. CASE status[t] = "blocked"
        <4>1. \E d \in Deps[t] : status[d] # "completed"
          BY <2>1, <3>4 DEF WorkInv, BlockedBehindEnded, Ended
        <4>. QED
          BY <3>0, <3>2, <3>4, <4>1
      <3>5. CASE status[t] \in {"completed", "failed"}
        BY <3>0, <3>5
      <3>. QED
        BY <3>1, <3>3, <3>4, <3>5
    <2>3. BlockedBehindEnded' /\ PassedOver'
      BY <2>1 DEF BlockedBehindEnded, PassedOver
    <2>4. EndsByItself'
      BY <2>1, <2>2 DEF EndsByItself
    <2>. QED
      BY <2>3, <2>4 DEF WorkInv
  <1>. QED
    BY <1>1, <1>2

LEMMA EndKeepsWorkInv ==
  ASSUME CtrlInv, WorkInv, Stop \/ Raise \/ Terminate \/ Reap \/ Finish \/ Signal \/ Killed
  PROVE  WorkInv'
  <1>1. CASE Stop \/ Raise \/ Terminate \/ Finish \/ Signal \/ Killed
    BY <1>1 DEF WorkInv, BlockedBehindEnded, PassedOver, EndsByItself, Stop, Raise, Fail, Terminate, Finish,
                Signal, Killed, Active
  <1>2. CASE Reap
    <2>1. pc = "grace" /\ pc' = "restoring" /\ UNCHANGED <<stopped, refused>>
          /\ status' = [t \in Tasks |-> IF t \in Active THEN "interrupted" ELSE status[t]]
      BY <1>2 DEF Reap
    <2>2. ~stopped => Active = {}
      BY <2>1 DEF WorkInv, EndsByItself, Active
    <2>3. ~stopped => status' = status
      BY <2>1, <2>2 DEF CtrlInv, CtrlTypes
    <2>. QED
      BY <2>1, <2>3 DEF WorkInv, BlockedBehindEnded, PassedOver, EndsByItself
  <1>. QED
    BY <1>1, <1>2

LEMMA OthersKeepWorkInv ==
  ASSUME WorkInv, UNCHANGED loopVars
  PROVE  WorkInv'
  BY DEF WorkInv, BlockedBehindEnded, PassedOver, EndsByItself, Active, loopVars

LEMMA WorkInvStep == CtrlInv /\ WorkInv /\ [CtrlNext]_ctrlVars => WorkInv'
  <1>. SUFFICES ASSUME CtrlInv, WorkInv, [CtrlNext]_ctrlVars PROVE WorkInv'
    OBVIOUS
  <1>1. CASE Scan
    BY <1>1, ScanKeepsWorkInv, ControllerAssumption
  <1>2. ASSUME NEW t \in Tasks, Launch(t) \/ Refuse(t) PROVE WorkInv'
    BY <1>2, LaunchKeepsWorkInv, RefuseKeepsWorkInv, ControllerAssumption
  <1>3. CASE Decide
    BY <1>3, DecideKeepsWorkInv, ControllerAssumption
  <1>4. CASE Stop \/ Raise \/ Finally \/ Signal \/ Killed
    BY <1>4, EndKeepsWorkInv DEF Finally
  <1>5. ASSUME NEW t \in Tasks, Work(t) PROVE UNCHANGED loopVars
    BY <1>5 DEF Work, Begin, RefuseToBegin, Complete, Abandon, Exit, Die, End
  <1>6. Edit \/ UNCHANGED ctrlVars => UNCHANGED loopVars
    BY DEF Edit, ctrlVars, loopVars
  <1>. QED
    BY <1>1, <1>2, <1>3, <1>4, <1>5, <1>6, OthersKeepWorkInv DEF CtrlNext, Loop

\* Independent work continues: what a run that ends by itself leaves undone is
\* behind something that did not complete, or was refused in its last pass.
THEOREM IndependentWorkGoesOn == CtrlSpec => []IndependentWorkContinues
  <1>1. WorkInv => IndependentWorkContinues
    BY DEF WorkInv, EndsByItself, IndependentWorkContinues
  <1>. QED
    BY <1>1, WorkInvInitially, WorkInvStep, ControllerInvariant, PTL DEF CtrlSpec

=============================================================================
