------------------------- MODULE ControllerAdmission -------------------------
(***************************************************************************)
(* admission() of tools/phase3/controller_resources.py as schedule() calls *)
(* it (tools/phase3/controller.py): one snapshot of the host's free memory *)
(* at the start of a pass, and the resident size of every active worker    *)
(* read again for every launch, while the workers go on allocating.  The   *)
(* memory unit is abstract.  Operators marked "Faulty" are plausible       *)
(* mistakes that must break a property.                                    *)
(***************************************************************************)
EXTENDS Integers, FiniteSets, FiniteSetsExt

CONSTANTS
  Tasks,
  Lane,             \* task["resource"]
  GpuWorkers,       \* gpu_workers
  RamPerWorker,     \* ram_per_worker
  RamReserve,       \* ram_reserve
  GpuReserve,       \* gpu_reserve, in units of what a CUDA worker takes
  Ram,              \* RAM available to the controller when nothing runs
  Gpu               \* VRAM free when nothing runs

ASSUME AdmissionAssumption ==
  /\ Lane \in [Tasks -> {"cuda", "cpu"}]
  /\ IsFiniteSet(Tasks)
  /\ GpuWorkers \in 1..6
  /\ RamPerWorker \in Nat \ {0}
  /\ {RamReserve, GpuReserve, Ram, Gpu} \subseteq Nat

CpuWorkers == 1

VARIABLES
  resources,        \* ram_available and gpu_free of this pass's snapshot
  ready,            \* rows of this pass still to be considered
  active,           \* tasks whose worker has not been polled as ended
  ended,            \* those of them whose worker has ended
  rss,              \* resident bytes of each worker
  vram,             \* VRAM units of each worker
  drift,            \* history: what workers allocated since the snapshot
  debt              \* history: drift at the last launch

admVars == <<resources, ready, active, ended, rss, vram, drift, debt>>

Nought == [ram |-> 0, gpu |-> 0]

AdmInit ==
  /\ resources = Nought
  /\ ready = {}
  /\ active = {}
  /\ ended = {}
  /\ rss = [t \in Tasks |-> 0]
  /\ vram = [t \in Tasks |-> 0]
  /\ drift = Nought
  /\ debt = Nought

-----------------------------------------------------------------------------
(* The host *)

RamAvailable == Ram - MapThenSumSet(LAMBDA t : rss[t], active)

GpuFree == Gpu - MapThenSumSet(LAMBDA t : vram[t], active)

\* RAM reserved for the active workers that they have not allocated.
Unallocated == MapThenSumSet(LAMBDA t : RamPerWorker - rss[t], active)

Starting == {t \in active : Lane[t] = "cuda" /\ 2 * rss[t] < RamPerWorker}

-----------------------------------------------------------------------------
(* A pass of the controller *)

Probe ==
  /\ ready = {}
  /\ active' = active \ ended
  /\ ended' = {}
  /\ ready' \in SUBSET (Tasks \ active')
  /\ resources' = [ram |-> RamAvailable, gpu |-> GpuFree]
  /\ drift' = Nought
  /\ UNCHANGED <<rss, vram, debt>>

SlotFree(lane) ==
  Cardinality({t \in active : Lane[t] = lane}) < IF lane = "cuda" THEN GpuWorkers ELSE CpuWorkers

\* Faulty: forgets the workers that have not allocated yet.
EnoughAtSnapshot == resources.ram >= RamReserve + RamPerWorker

EnoughRam == resources.ram - Unallocated >= RamReserve + RamPerWorker

\* Faulty: forgets the CUDA workers that have not allocated yet.
EnoughGpuAtSnapshot(t) == Lane[t] = "cuda" => resources.gpu >= GpuReserve + 1

EnoughGpu(t) == Lane[t] = "cuda" => resources.gpu >= GpuReserve + Cardinality(Starting) + 1

\* A short disk or an absent GPU refuses as well, whatever the memory.
Refuse(t) ==
  /\ t \in ready
  /\ ready' = ready \ {t}
  /\ UNCHANGED <<resources, active, ended, rss, vram, drift, debt>>

Launch(t) ==
  /\ t \in ready
  /\ SlotFree(Lane[t]) /\ EnoughRam /\ EnoughGpu(t)
  /\ ready' = ready \ {t}
  /\ active' = active \cup {t}
  /\ debt' = IF Lane[t] = "cuda" THEN drift ELSE [debt EXCEPT !.ram = drift.ram]
  /\ UNCHANGED <<resources, ended, rss, vram, drift>>

-----------------------------------------------------------------------------
(* Workers.  They take what the controller reserves for them and no more,  *)
(* and a CUDA worker has its VRAM before it is half grown.                 *)

Grow(t) ==
  /\ t \in active \ ended
  /\ rss[t] < RamPerWorker
  /\ Lane[t] = "cuda" /\ 2 * (rss[t] + 1) >= RamPerWorker => vram[t] = 1
  /\ rss' = [rss EXCEPT ![t] = @ + 1]
  /\ drift' = [drift EXCEPT !.ram = @ + 1]
  /\ UNCHANGED <<resources, ready, active, ended, vram, debt>>

TakeGpu(t) ==
  /\ t \in active \ ended
  /\ Lane[t] = "cuda" /\ vram[t] = 0
  /\ vram' = [vram EXCEPT ![t] = 1]
  /\ drift' = [drift EXCEPT !.gpu = @ + 1]
  /\ UNCHANGED <<resources, ready, active, ended, rss, debt>>

\* resident_bytes of a process that has ended is 0: until the next poll it
\* counts as one that has allocated nothing.
WorkerEnds(t) ==
  /\ t \in active \ ended
  /\ ended' = ended \cup {t}
  /\ rss' = [rss EXCEPT ![t] = 0]
  /\ vram' = [vram EXCEPT ![t] = 0]
  /\ UNCHANGED <<resources, ready, active, drift, debt>>

AdmNext ==
  \/ Probe
  \/ \E t \in Tasks : Refuse(t) \/ Launch(t) \/ Grow(t) \/ TakeGpu(t) \/ WorkerEnds(t)

AdmSpec == AdmInit /\ [][AdmNext]_admVars

-----------------------------------------------------------------------------
(* Properties *)

OnGpu == {t \in active : Lane[t] = "cuda"}

Pending == {t \in OnGpu : vram[t] = 0}

\* The reserves are kept ("Reserves are 6 GiB available RAM, 2 GiB free VRAM",
\* docs/architecture/phase3-controller.md) as long as nothing but the workers,
\* within what is reserved for each, takes memory.  Launching on the CPU lane
\* does not look at the GPU.
ReservesAreKept ==
  /\ active # {} => RamAvailable >= RamReserve
  /\ OnGpu # {} => GpuFree >= GpuReserve

\* What admission() does guarantee: with everything the workers may still
\* allocate, the reserves are short by no more than what was allocated between
\* a snapshot and a launch decided on it, however many launches a pass makes
\* and however the workers grow and end.
OvercommitIsDrift ==
  /\ active # {} => RamAvailable - Unallocated >= RamReserve - debt.ram
  /\ OnGpu # {} => GpuFree - Cardinality(Pending) >= GpuReserve - debt.gpu

\* With a snapshot as fresh as the resident sizes, the reserves are kept.
FreshSnapshotsKeepReserves == debt = Nought => ReservesAreKept

=============================================================================
