----------------------------- MODULE UsefulQuality -----------------------------
(* The controller of the useful-quality study                               *)
(* (src/tools/breadth_study/useful_quality_v2.py, with its worker           *)
(* useful_quality_v2_worker.py): probes, the eight-image CPU/CUDA gate and  *)
(* the 32-image panels of every case under one lifetime budget, then the    *)
(* promoted extensions.  Its state is files: image records, admissions,     *)
(* allocations, completions and the frozen promotion.                       *)
EXTENDS PoolLease, Sequences, Functions, FiniteSetsExt

CONSTANTS
  CaseOrder,           \* sequence of cases, the frozen candidate order
  Target,              \* [stage -> images], 1, 8, 32 and 128 in the code
  Costs,               \* [stage -> set of Nat], estimates a task may get
  Limit, ExtensionLimit,
  Sunk,                \* v1, benchmark and interruption charges
  MaxQualityStarts,    \* bound: starts of the controller
  MaxQualityFaults,    \* bound: kills and failing workers
  MaxOverrun           \* bound: time a worker runs past its reservation

ASSUME QualityAssumption ==
  /\ CaseOrder \in Seq(Range(CaseOrder))
  /\ Limit \in Nat /\ ExtensionLimit \in Nat /\ Sunk \in Nat /\ MaxOverrun \in Nat
  /\ DOMAIN Target = {"probe", "native_gate", "panel", "extension"}
  /\ \A stage \in DOMAIN Target : Target[stage] \in Nat /\ Costs[stage] \subseteq Nat \ {0}
  /\ Target["probe"] <= Target["native_gate"]

study == "quality"
Modes == <<"exact", "control">>
Backends == <<"cpp", "cuda">>
Rows == (Range(CaseOrder) \X Range(Modes)) \X Range(Backends)
Row(c, m, b) == <<<<c, m>>, b>>
Reference(r) == <<r[1], "cpp">>  \* the CPU record of the same image
CaseOf(r) == r[1][1]
OnGpu(r) == r[2] = "cuda"

VARIABLES
  quality,    \* where the controller is, "down" without one
  images,     \* [Rows -> Nat], sealed image records
  admitted,   \* cases with native-admission.json
  panels,     \* cases with summary-32.json
  promoted,   \* promotion.json: <<>> before it is frozen, then <<set of cases>>
  tasks,      \* [Rows -> task], the workers and what became of them
  spent,      \* [pool -> Nat], wall time of the completions
  lost,       \* [pool -> Nat], reservations whose controller died
  unread,     \* what this pass has still to look at: cases, then rows
  seen,       \* [Rows -> Nat], the counts this pass has read
  ready,      \* tasks still to be considered in this pass
  capacity, blocked,
  qstatus,    \* status.json
  computed,   \* ghost: time that workers really ran
  unpaid,     \* ghost: what they ran past reservations, in no completion
  excess,     \* ghost: [pool -> Nat], what completions charged past their
              \* reservations since the last allocation of the pool
  qualityStarts, qualityFaults

files == <<images, admitted, panels, promoted>>
ledger == <<spent, lost, computed, unpaid, excess>>
pass == <<unread, seen, ready, capacity, blocked>>
qualityBounds == <<qualityStarts, qualityFaults>>
qualityVars == <<quality, files, tasks, ledger, pass, qstatus, qualityBounds>>

Process(r) == Worker(study, <<CaseOf(r), r[1][2], r[2]>>)
Idle == [state |-> "none", stage |-> "probe", reserved |-> 0, elapsed |-> 0]
Live(r) == tasks[r].state = "live"
Running == {r \in Rows : tasks[r].state # "none"}
Finished == {r \in Running : ~Live(r)}

-----------------------------------------------------------------------------
(* The budget *)

Pool(stage) == IF stage = "extension" THEN "extension" ELSE "panel"

\* Faulty: only completions are committed.
NothingReserved(pool) == 0

Reserved(pool) ==
  IF quality = "down" THEN 0
  ELSE MapThenSumSet(LAMBDA r : tasks[r].reserved,
                     {r \in Rows : Live(r) /\ Pool(tasks[r].stage) = pool})

Committed(pool) == spent[pool] + lost[pool] + Reserved(pool)
Used == Sunk + Committed("panel") + Committed("extension")

\* remaining_seconds and extension_remaining_seconds, never below zero.
RemainingSeconds(allowance, committed) == IF committed < allowance THEN allowance - committed ELSE 0

Affordable(stage, cost) ==
  /\ cost <= RemainingSeconds(Limit, Used)
  /\ stage = "extension" => cost <= RemainingSeconds(ExtensionLimit, Committed("extension"))

-----------------------------------------------------------------------------
(* The stages of a case *)

Reached(count, c, ms, bs, stage) ==
  \A m \in ms, b \in bs : count[Row(c, m, b)] >= Target[stage]

FullyProbed(count, c) == Reached(count, c, Range(Modes), Range(Backends), "probe")
GateReached(c) == Reached(images, c, Range(Modes), Range(Backends), "native_gate")
PanelReached(c) == Reached(images, c, Range(Modes), {"cuda"}, "panel")

\* Faulty: the GPU may start the stage when the CPU has started.
CpuStarted(count, r, stage) == OnGpu(r) => count[Reference(r)] > 0

CpuFirst(count, r, stage) == OnGpu(r) => count[Reference(r)] >= Target[stage]

\* ready_tasks: work that can advance now, by the counts that were read.
Wanted(count, r, stage) ==
  /\ count[r] < Target[stage]
  /\ CASE stage = "probe" -> CpuFirst(count, r, stage)
       [] stage = "native_gate" -> FullyProbed(count, CaseOf(r)) /\ CpuFirst(count, r, stage)
       [] stage = "panel" -> OnGpu(r) /\ CaseOf(r) \in admitted
       [] OTHER -> FALSE

Task(r, stage) == [row |-> r, stage |-> stage]
NothingRead == [r \in Rows |-> 0]

Priority == [panel |-> 0, probe |-> 1, native_gate |-> 2, extension |-> 3]
Index(s, x) == CHOOSE i \in DOMAIN s : s[i] = x
Rank(t) == <<Priority[t.stage], Index(CaseOrder, CaseOf(t.row)),
             Index(Modes, t.row[1][2]), Index(Backends, t.row[2])>>
Precedes(a, b) == \E i \in 1..4 : a[i] < b[i] /\ \A k \in 1..(i - 1) : a[k] = b[k]
IsFirst(t, ts) == t \in ts /\ \A u \in ts \ {t} : Precedes(Rank(t), Rank(u))

\* memory_workers: three only after all probes, one when memory is short.
Capacities == {1, 2} \cup {n \in {3} : \A c \in Range(CaseOrder) : FullyProbed(images, c)}

-----------------------------------------------------------------------------
(* The controller *)

StartQuality ==
  /\ quality = "down" /\ LeaseFree /\ qualityStarts < MaxQualityStarts
  /\ quality' = "gates" /\ unread' = Range(CaseOrder)
  /\ holders' = {Controller(study)}
  /\ qualityStarts' = qualityStarts + 1
  /\ qstatus' = "starting"
  /\ UNCHANGED <<files, tasks, ledger, seen, ready, capacity, blocked, qualityFaults>>

\* The head of the loop: case after case, seal the gate and the panel that
\* were reached.
SealGates ==
  /\ quality = "gates"
  /\ \E c \in unread :
       /\ \A d \in unread : Index(CaseOrder, c) <= Index(CaseOrder, d)
       /\ admitted' = admitted \cup {d \in {c} : GateReached(d)}
       /\ panels' = panels \cup {d \in {c} \cap admitted' : PanelReached(d)}
       /\ IF unread = {c} THEN quality' = "scan" /\ unread' = Rows
                         ELSE unread' = unread \ {c} /\ UNCHANGED quality
  /\ UNCHANGED <<images, promoted, tasks, ledger, seen, ready, capacity, blocked, qstatus,
                 qualityBounds, holders>>

\* counts: one listing of a directory per row, while workers seal images.
Count ==
  /\ quality = "scan"
  /\ \E r \in unread :
       /\ IsFirst(Task(r, "probe"), {Task(q, "probe") : q \in unread})
       /\ seen' = [seen EXCEPT ![r] = images[r]]
       /\ unread' = unread \ {r}
  /\ UNCHANGED <<quality, files, tasks, ledger, ready, capacity, blocked, qstatus,
                 qualityBounds, holders>>

\* The tasks of these counts; only the controller itself writes admissions.
Scan ==
  /\ quality = "scan" /\ unread = {}
  /\ quality' = "allocate"
  /\ ready' = {t \in {Task(r, stage) : r \in Rows, stage \in DOMAIN Target} :
                 Wanted(seen, t.row, t.stage)}
  /\ seen' = NothingRead
  /\ capacity' \in Capacities
  /\ blocked' = FALSE
  /\ UNCHANGED <<files, tasks, ledger, unread, qstatus, qualityBounds, holders>>

Gpu == {r \in Running : OnGpu(r)}
CpuLanes == IF capacity - Cardinality(Gpu) > 1 THEN capacity - Cardinality(Gpu) ELSE 1

\* A task that no lane is free for is passed over in this pass; lanes only
\* fill up, so that it stays so.
Eligible ==
  {t \in ready :
     /\ Cardinality(Running) < capacity
     /\ t.row \notin Running
     /\ IF OnGpu(t.row) THEN Gpu = {} ELSE Cardinality(Running \ Gpu) < CpuLanes}

\* allocate and dispatch: the reservation is sealed, then the worker runs.
Dispatched(t, cost) ==
  /\ tasks' = [tasks EXCEPT ![t.row] =
       [state |-> "live", stage |-> t.stage, reserved |-> cost, elapsed |-> 0]]
  /\ holders' = holders \cup {Process(t.row)}
  /\ excess' = [excess EXCEPT ![Pool(t.stage)] = 0]

Allocate ==
  /\ quality = "allocate"
  /\ \E t \in Eligible :
       /\ IsFirst(t, Eligible)
       /\ ready' = ready \ {t}
       /\ \E cost \in Costs[t.stage] :
            IF Affordable(t.stage, cost)
            THEN Dispatched(t, cost) /\ UNCHANGED blocked
            ELSE blocked' = TRUE /\ UNCHANGED <<tasks, holders, excess>>
  /\ UNCHANGED <<quality, files, spent, lost, computed, unpaid, unread, seen, capacity,
                 qstatus, qualityBounds>>

\* What a pass has read and listed lasts no longer than the pass.
ForgetPass ==
  /\ unread' = {} /\ seen' = NothingRead
  /\ ready' = {} /\ capacity' = 1 /\ blocked' = FALSE

\* Faulty: tasks without budget do not keep the study from being complete.
PublishComplete ==
  /\ quality = "allocate" /\ Eligible = {}
  /\ qstatus' = IF Running # {} THEN "running" ELSE "stages_complete"
  /\ quality' = IF Running # {} THEN "wait" ELSE "promote"
  /\ ForgetPass
  /\ UNCHANGED <<files, tasks, ledger, qualityBounds, holders>>

Publish ==
  /\ quality = "allocate" /\ Eligible = {}
  /\ qstatus' = IF Running # {} THEN "running" ELSE IF blocked THEN "budget_limited"
                                                  ELSE "stages_complete"
  /\ quality' = IF Running # {} THEN "wait" ELSE "promote"
  /\ ForgetPass
  /\ UNCHANGED <<files, tasks, ledger, qualityBounds, holders>>

\* Collect what has finished and look again, or stop at a failed worker.
AfterWorkers(done, next) ==
  LET bad == {r \in done : tasks[r].state # "passed"}
  IN  /\ done # {}
      /\ tasks' = [r \in Rows |-> IF r \in done THEN Idle ELSE tasks[r]]
      /\ IF bad = {}
         THEN /\ quality' = next /\ UNCHANGED qstatus
              /\ unread' = IF next = "gates" THEN Range(CaseOrder) ELSE unread
         ELSE /\ quality' = "drain" /\ UNCHANGED unread
              /\ \E r \in bad :
                   qstatus' = IF tasks[r].state = "late" THEN "budget_limited" ELSE "failed"
      /\ UNCHANGED <<files, ledger, seen, ready, capacity, blocked, qualityBounds, holders>>

Collect == quality = "wait" /\ AfterWorkers(Finished, "gates")

\* make_promotion: the decisions are frozen the first time.
Promote ==
  /\ quality = "promote"
  /\ quality' = "extend"
  /\ IF promoted # <<>>
     THEN UNCHANGED promoted
     ELSE \E chosen \in SUBSET panels :
            \E price \in [chosen \X Range(Modes) -> Costs["extension"]] :
              /\ Affordable("extension", MapThenSumSet(LAMBDA a : price[a], DOMAIN price))
              /\ promoted' = <<chosen>>
  /\ ready' = {Task(Row(c, m, "cuda"), "extension") : c \in promoted'[1], m \in Range(Modes)}
  /\ UNCHANGED <<images, admitted, panels, tasks, ledger, unread, seen, capacity, blocked,
                 qstatus, qualityBounds, holders>>

\* The arms are extended one after the other, each costed again; an arm
\* that cannot be paid ends its case.
Extend ==
  /\ quality = "extend"
  /\ \E t \in ready :
       /\ IsFirst(t, ready)
       /\ \/ /\ images[t.row] >= Target["extension"]
             /\ ready' = ready \ {t}
             /\ UNCHANGED <<quality, tasks, holders, excess, qstatus>>
          \/ \E cost \in Costs["extension"] :
               /\ images[t.row] < Target["extension"] /\ Affordable("extension", cost)
               /\ Dispatched(t, cost)
               /\ quality' = "extension"
               /\ ready' = ready \ {t}
               /\ UNCHANGED qstatus
          \/ \E cost \in Costs["extension"] :
               /\ images[t.row] < Target["extension"] /\ ~Affordable("extension", cost)
               /\ ready' = {u \in ready : CaseOf(u.row) # CaseOf(t.row)}
               /\ qstatus' = "budget_limited"
               /\ UNCHANGED <<quality, tasks, holders, excess>>
  /\ UNCHANGED <<files, spent, lost, computed, unpaid, unread, seen, capacity, blocked,
                 qualityBounds>>

ExtensionEnds == quality = "extension" /\ AfterWorkers(Finished, "extend")

\* The thread pool waits for the workers that still run; then the locks go.
EndQuality ==
  /\ quality = "drain" \/ (quality = "extend" /\ ready = {})
  /\ \A r \in Rows : ~Live(r)
  /\ quality' = "down"
  /\ tasks' = [r \in Rows |-> Idle]
  /\ holders' = holders \ {Controller(study)}
  /\ ForgetPass
  /\ UNCHANGED <<files, ledger, qstatus, qualityBounds>>

\* Allocations without a completion stay reserved for good.
KillQuality ==
  /\ quality # "down" /\ qualityFaults < MaxQualityFaults
  /\ quality' = "down"
  /\ lost' = [p \in DOMAIN lost |-> lost[p] + Reserved(p)]
  /\ tasks' = [r \in Rows |-> IF Live(r) THEN tasks[r] ELSE Idle]
  /\ holders' = holders \ {Controller(study)}
  /\ qualityFaults' = qualityFaults + 1
  /\ ForgetPass
  /\ UNCHANGED <<files, spent, computed, unpaid, excess, qstatus, qualityStarts>>

-----------------------------------------------------------------------------
(* The workers *)

\* What the next image is compared with: the CPU record of an image of the
\* gate, the sealed gate beyond it.
Comparable(r) ==
  /\ OnGpu(r) /\ images[r] < Target["native_gate"] => images[Reference(r)] > images[r]
  /\ images[r] >= Target["native_gate"] => CaseOf(r) \in admitted

SealImage(r) ==
  /\ Live(r) /\ images[r] < Target[tasks[r].stage] /\ Comparable(r)
  /\ images' = [images EXCEPT ![r] = @ + 1]
  /\ UNCHANGED <<quality, admitted, panels, promoted, tasks, ledger, pass, qstatus,
                 qualityBounds, holders>>

Overrun(r) == IF tasks[r].elapsed > tasks[r].reserved
              THEN tasks[r].elapsed - tasks[r].reserved ELSE 0

\* The completion takes the place of the reservation, if a controller is
\* there to write it, and charges all the time from the start of the worker
\* to its end, which may be past the reservation.  Only the controller stops
\* a worker that is late.
WorkerReturns(r, how) ==
  /\ Live(r)
  /\ CASE how = "passed" -> images[r] >= Target[tasks[r].stage] /\ UNCHANGED qualityFaults
       [] how = "failed" -> \/ ~Comparable(r) /\ UNCHANGED qualityFaults
                            \/ qualityFaults < MaxQualityFaults /\ qualityFaults' = qualityFaults + 1
       [] how = "late" -> /\ quality # "down" /\ tasks[r].elapsed >= tasks[r].reserved
                          /\ UNCHANGED qualityFaults
  /\ IF quality = "down"
     THEN tasks' = [tasks EXCEPT ![r] = Idle] /\ UNCHANGED <<spent, unpaid, excess>>
     ELSE /\ tasks' = [tasks EXCEPT ![r].state = how]
          /\ spent' = [spent EXCEPT ![Pool(tasks[r].stage)] = @ + tasks[r].elapsed]
          /\ unpaid' = unpaid - Overrun(r)
          /\ excess' = [excess EXCEPT ![Pool(tasks[r].stage)] = @ + Overrun(r)]
  /\ holders' = holders \ {Process(r)}
  /\ UNCHANGED <<quality, files, lost, computed, pass, qstatus, qualityStarts>>

\* Time of a worker.  It goes on past the reservation: by what starting and
\* stopping the process takes, and without an end when its controller died.
Elapse(r) ==
  /\ Live(r) /\ tasks[r].elapsed < tasks[r].reserved + MaxOverrun
  /\ tasks' = [tasks EXCEPT ![r].elapsed = @ + 1]
  /\ computed' = computed + 1
  /\ unpaid' = IF tasks[r].elapsed < tasks[r].reserved THEN unpaid ELSE unpaid + 1
  /\ UNCHANGED <<quality, files, spent, lost, excess, pass, qstatus, qualityBounds, holders>>

-----------------------------------------------------------------------------

NothingCharged == [panel |-> 0, extension |-> 0]

QualityInit ==
  /\ quality = "down" /\ qstatus = "none"
  /\ images = [r \in Rows |-> 0]
  /\ admitted = {} /\ panels = {} /\ promoted = <<>>
  /\ tasks = [r \in Rows |-> Idle]
  /\ spent = NothingCharged /\ lost = NothingCharged
  /\ computed = 0 /\ unpaid = 0 /\ excess = NothingCharged
  /\ unread = {} /\ seen = NothingRead /\ ready = {} /\ capacity = 1 /\ blocked = FALSE
  /\ qualityStarts = 0 /\ qualityFaults = 0

QualityNext ==
  \/ StartQuality \/ SealGates \/ Count \/ Scan \/ Allocate \/ Publish \/ Collect
  \/ Promote \/ Extend \/ ExtensionEnds \/ EndQuality \/ KillQuality
  \/ \E r \in Rows :
       \/ SealImage(r) \/ Elapse(r)
       \/ \E how \in {"passed", "failed", "late"} : WorkerReturns(r, how)

-----------------------------------------------------------------------------

\* A worker never starts an image whose counterpart is missing, though the
\* tasks come from counts that were read before: an image of the gate has
\* its CPU record, an image beyond the gate has the sealed gate of its case
\* (ready_tasks, verify_gate and the checks of the worker).
CounterpartsAreThere ==
  \A r \in Rows : Live(r) /\ images[r] < Target[tasks[r].stage] => Comparable(r)

\* All that workers ran is in the ledger, but for what they ran past their
\* reservations before a completion charges it, or without one when their
\* controller was killed.  What the ledger has committed passes the lifetime
\* allowance and its extension share only by overruns that completions have
\* charged since the last allocation: the next allocation pays for them.
\* When the earlier charges exceed the allowance by themselves nothing is
\* added to them (budget, allocate, dispatch).
AllowanceIsKept ==
  /\ Sunk + computed <= Used + unpaid
  /\ Used <= Limit + excess["panel"] + excess["extension"] \/ Used = Sunk
  /\ Committed("extension") <= ExtensionLimit + excess["extension"]

\* stages_complete is published only when every case has its sealed panel,
\* although gates and panels are sealed from counts read before the tasks
\* are listed and while workers go on sealing images (run).
StagesAreComplete == qstatus = "stages_complete" => panels = Range(CaseOrder)

=============================================================================
