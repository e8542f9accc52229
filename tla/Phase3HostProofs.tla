--------------------------- MODULE Phase3HostProofs --------------------------
(***************************************************************************)
(* Proofs about what the workers of Phase 3 share of their host: that the  *)
(* kernel locks keep them apart, for every set of processes and jobs and   *)
(* every assignment of jobs to pools, and that what a pass overcommits is  *)
(* bounded by what the workers took after its snapshot, for every set of   *)
(* tasks, host and reserve.                                                *)
(***************************************************************************)
EXTENDS WorkerLocks, ControllerAdmission, SumLaws

-----------------------------------------------------------------------------
(* The kernel locks *)

\* A writer has its job's description to itself and its pool's open.
WritersHoldLocks ==
  \A p \in Processes :
    pc[p] = "writing" => /\ job[p] \in Jobs
                         /\ openers[job[p]] = {p}
                         /\ p \in openers[JobPool[job[p]]]

\* Descriptions are inherited along one line of descent.
PoolsHaveOneOwner ==
  \A k \in Pools : \A p, q \in openers[k] : root[p] = root[q]

\* What a process that takes part has open, and whom it descends from.
MembersHoldPools ==
  \A p \in Processes :
    /\ pc[p] = "off" => \A f \in Files : p \notin openers[f]
    /\ pc[p] \in {"off", "controller", "cuda", "controlling"} => root[p] = p
    /\ pc[p] = "controlling" => \A k \in Pools : p \in openers[k]
    /\ pc[p] \in {"ready", "writing"} => \E k \in Pools : p \in openers[k]
    /\ pc[p] = "cuda" => p \in openers["cuda"]

LocksInv == LocksTypeOK /\ WritersHoldLocks /\ PoolsHaveOneOwner /\ MembersHoldPools

LEMMA FilesDiffer ==
  /\ Pools \subseteq Files /\ Jobs \subseteq Files /\ "controller" \in Files
  /\ \A j \in Jobs : JobPool[j] \in Pools /\ j \notin Pools /\ j # "controller"
  /\ "controller" \notin Pools
  BY LocksAssumption DEF Files, Pools

LEMMA InitiallyUnlocked == LocksInit => LocksInv
  BY FilesDiffer DEF LocksInit, LocksInv, LocksTypeOK, WritersHoldLocks, PoolsHaveOneOwner,
                     MembersHoldPools, ProcessStates

\* Ending a process takes it out of every description.
LEMMA ExitKeepsInv ==
  ASSUME LocksInv, NEW p \in Processes, Exit(p)
  PROVE  LocksInv'
  <1>. USE FilesDiffer DEF LocksInv, LocksTypeOK, Exit
  <1>1. LocksTypeOK'
    BY DEF ProcessStates
  <1>2. WritersHoldLocks'
    BY DEF WritersHoldLocks
  <1>3. PoolsHaveOneOwner'
    BY DEF PoolsHaveOneOwner
  <1>4. MembersHoldPools'
    <2>1. \A f \in Files : openers'[f] = openers[f] \ {p}
      OBVIOUS
    <2>2. \A q \in Processes \ {p} : pc'[q] = pc[q] /\ root'[q] = root[q]
      OBVIOUS
    <2>3. pc'[p] = "off" /\ root'[p] = p
      OBVIOUS
    <2>. QED
      BY ONLY <2>1, <2>2, <2>3, MembersHoldPools, FilesDiffer DEF MembersHoldPools, Pools
  <1>. QED
    BY <1>1, <1>2, <1>3, <1>4

\* Locking a free pool or controller.lock.
LEMMA TakeKeepsInv ==
  ASSUME LocksInv, NEW p \in Processes, NEW from, NEW f \in Pools \cup {"controller"}, NEW to,
         Take(p, from, f, to),
         \/ from = "off" /\ f = "controller" /\ to = "controller"
         \/ from = "controller" /\ f = "cuda" /\ to = "cuda"
         \/ from = "cuda" /\ f = "cpu" /\ to = "controlling"
         \/ from = "off" /\ f \in Pools /\ to = "ready"
  PROVE  LocksInv'
  <1>. USE FilesDiffer DEF LocksInv, LocksTypeOK, Take, exclusive, Free
  <1>1. LocksTypeOK'
    BY DEF ProcessStates
  <1>2. WritersHoldLocks'
    BY DEF WritersHoldLocks
  <1>3. PoolsHaveOneOwner'
    BY DEF PoolsHaveOneOwner
  <1>4. MembersHoldPools'
    BY DEF MembersHoldPools, Pools
  <1>. QED
    BY <1>1, <1>2, <1>3, <1>4

LEMMA SpawnKeepsInv ==
  ASSUME LocksInv, NEW p \in Processes, NEW w \in Processes \ {p}, NEW pool \in Pools, Spawn(p, w, pool)
  PROVE  LocksInv'
  <1>. USE FilesDiffer DEF LocksInv, LocksTypeOK, Spawn, Startable
  <1>1. LocksTypeOK'
    BY DEF ProcessStates
  <1>2. WritersHoldLocks'
    BY DEF WritersHoldLocks
  <1>3. PoolsHaveOneOwner'
    <2>1. root[p] = p /\ p \in openers[pool] /\ \A k \in Pools : w \notin openers[k]
      BY DEF MembersHoldPools
    <2>. QED
      BY <2>1 DEF PoolsHaveOneOwner
  <1>4. MembersHoldPools'
    BY DEF MembersHoldPools
  <1>. QED
    BY <1>1, <1>2, <1>3, <1>4

LEMMA JobLockKeepsInv ==
  ASSUME LocksInv, NEW p \in Processes, NEW j \in Jobs, job_lock(p, j)
  PROVE  LocksInv'
  <1>1. CASE Exit(p)
    BY <1>1, ExitKeepsInv
  <1>2. CASE ~Exit(p)
    <2>. USE FilesDiffer DEF LocksInv, LocksTypeOK
    <2>1. /\ pc[p] = "ready" /\ p \in openers[JobPool[j]] /\ openers[j] = {}
          /\ openers' = [openers EXCEPT ![j] = {p}]
          /\ pc' = [pc EXCEPT ![p] = "writing"]
          /\ job' = [job EXCEPT ![p] = j]
          /\ root' = root
      BY <1>2 DEF job_lock, OwnsPool, exclusive, Free
    <2>2. LocksTypeOK'
      BY <2>1 DEF ProcessStates
    <2>3. WritersHoldLocks'
      BY <2>1 DEF WritersHoldLocks
    <2>4. PoolsHaveOneOwner'
      BY <2>1 DEF PoolsHaveOneOwner
    <2>5. MembersHoldPools'
      BY <2>1 DEF MembersHoldPools
    <2>. QED
      BY <2>2, <2>3, <2>4, <2>5
  <1>. QED
    BY <1>1, <1>2

LEMMA ReleaseKeepsInv ==
  ASSUME LocksInv, NEW p \in Processes, ReleaseJob(p)
  PROVE  LocksInv'
  <1>. USE FilesDiffer DEF LocksInv, LocksTypeOK, ReleaseJob
  <1>0. job[p] \in Jobs /\ openers[job[p]] = {p}
    BY DEF WritersHoldLocks
  <1>1. LocksTypeOK'
    BY <1>0 DEF ProcessStates
  <1>2. WritersHoldLocks'
    BY <1>0 DEF WritersHoldLocks
  <1>3. PoolsHaveOneOwner'
    BY <1>0 DEF PoolsHaveOneOwner
  <1>4. MembersHoldPools'
    BY <1>0 DEF MembersHoldPools
  <1>. QED
    BY <1>1, <1>2, <1>3, <1>4

\* The invariant is inductive.
LEMMA StepKeepsInv == LocksInv /\ [LocksNext]_lockVars => LocksInv'
  <1>. SUFFICES ASSUME LocksInv, [LocksNext]_lockVars
                PROVE  LocksInv'
    OBVIOUS
  <1>1. ASSUME NEW p \in Processes, StartController(p)
        PROVE  LocksInv'
    BY <1>1, TakeKeepsInv DEF StartController
  <1>2. ASSUME NEW p \in Processes, TakeCuda(p)
        PROVE  LocksInv'
    BY <1>2, TakeKeepsInv, ExitKeepsInv DEF TakeCuda, Pools
  <1>3. ASSUME NEW p \in Processes, TakeCpu(p)
        PROVE  LocksInv'
    BY <1>3, TakeKeepsInv, ExitKeepsInv DEF TakeCpu, Pools
  <1>4. ASSUME NEW p \in Processes, NEW w \in Processes \ {p}, NEW pool \in Pools, Spawn(p, w, pool)
        PROVE  LocksInv'
    BY <1>4, SpawnKeepsInv
  <1>5. ASSUME NEW p \in Processes, NEW pool \in Pools, StartRunner(p, pool)
        PROVE  LocksInv'
    BY <1>5, TakeKeepsInv DEF StartRunner
  <1>6. ASSUME NEW p \in Processes, NEW j \in Jobs, job_lock(p, j)
        PROVE  LocksInv'
    BY <1>6, JobLockKeepsInv
  <1>7. ASSUME NEW p \in Processes, ReleaseJob(p)
        PROVE  LocksInv'
    BY <1>7, ReleaseKeepsInv
  <1>8. ASSUME NEW p \in Processes, Killed(p)
        PROVE  LocksInv'
    BY <1>8, ExitKeepsInv DEF Killed
  <1>9. CASE UNCHANGED lockVars
    BY <1>9 DEF lockVars, LocksInv, LocksTypeOK, WritersHoldLocks, PoolsHaveOneOwner, MembersHoldPools
  <1>. QED
    BY <1>1, <1>2, <1>3, <1>4, <1>5, <1>6, <1>7, <1>8, <1>9 DEF LocksNext

(* The locks keep the inductive invariant in every behaviour. *)
THEOREM LocksInvariant == LocksSpec => []LocksInv
  BY InitiallyUnlocked, StepKeepsInv, PTL DEF LocksSpec

(* Two processes never write the same job (worker_locks.job_lock), whoever  *)
(* started them, whoever inherited a descriptor and whoever was killed.     *)
THEOREM OneWriterPerJobHolds == LocksSpec => []OneWriterPerJob
  <1>1. LocksInv => OneWriterPerJob
    BY DEF LocksInv, WritersHoldLocks, OneWriterPerJob
  <1>. QED
    BY <1>1, LocksInvariant, PTL

(* Writers on one pool always descend from one holder of its kernel lock    *)
(* (worker_locks.pool_locks and job_lock).                                  *)
THEOREM WritersShareOnePoolOwnerHolds == LocksSpec => []WritersShareOnePoolOwner
  <1>1. LocksInv => WritersShareOnePoolOwner
    BY FilesDiffer DEF LocksInv, WritersHoldLocks, PoolsHaveOneOwner, WritersShareOnePoolOwner
  <1>. QED
    BY <1>1, LocksInvariant, PTL

(* While a controller schedules, all that may write was started by it, so   *)
(* that a restarted controller never runs beside orphans (pool_locks).      *)
THEOREM ControllerIsAloneHolds == LocksSpec => []ControllerIsAlone
  <1>1. LocksInv => ControllerIsAlone
    <2>. SUFFICES ASSUME LocksInv, NEW c \in Processes, NEW p \in Processes,
                         pc[c] = "controlling", pc[p] \in {"controlling", "ready", "writing"}, p # c
                  PROVE  root[p] = c
      BY DEF ControllerIsAlone
    <2>1. root[c] = c /\ \A k \in Pools : c \in openers[k]
      BY DEF LocksInv, MembersHoldPools
    <2>2. PICK k \in Pools : p \in openers[k]
      BY DEF LocksInv, MembersHoldPools, Pools
    <2>. QED
      BY <2>1, <2>2 DEF LocksInv, PoolsHaveOneOwner
  <1>. QED
    BY <1>1, LocksInvariant, PTL

-----------------------------------------------------------------------------
(* Admission *)

AdmTypes ==
  /\ resources \in [ram : Int, gpu : Int]
  /\ active \subseteq Tasks /\ ended \subseteq active
  /\ ready \subseteq Tasks \ active
  /\ rss \in [Tasks -> 0..RamPerWorker]
  /\ vram \in [Tasks -> {0, 1}]
  /\ drift \in [ram : Nat, gpu : Nat]
  /\ debt \in [ram : Nat, gpu : Nat]

\* Only a worker that runs has memory, and a CUDA worker that is half grown
\* has its VRAM: who has not is counted by the admission.
WorkersAsReserved ==
  \A t \in Tasks :
    /\ t \notin active \ ended => rss[t] = 0 /\ vram[t] = 0
    /\ Lane[t] = "cpu" => vram[t] = 0
    /\ Lane[t] = "cuda" /\ 2 * rss[t] >= RamPerWorker => vram[t] = 1

\* The snapshot ages by what was allocated since, and by nothing else.
SnapshotAges ==
  /\ RamAvailable >= resources.ram - drift.ram
  /\ GpuFree >= resources.gpu - drift.gpu

\* What is left when every active worker takes what is reserved for it.
Slack ==
  /\ active # {} => Ram - RamPerWorker * Cardinality(active) >= RamReserve - debt.ram
  /\ OnGpu # {} => Gpu - Cardinality(OnGpu) >= GpuReserve - debt.gpu

AdmInv == AdmTypes /\ WorkersAsReserved /\ SnapshotAges /\ Slack

-----------------------------------------------------------------------------
(* The host *)

LEMMA Constants ==
  /\ Lane \in [Tasks -> {"cuda", "cpu"}] /\ IsFiniteSet(Tasks)
  /\ RamPerWorker \in Nat \ {0} /\ RamReserve \in Nat /\ GpuReserve \in Nat
  /\ Ram \in Nat /\ Gpu \in Nat
  BY AdmissionAssumption

LEMMA SetsAreFinite ==
  AdmTypes => /\ IsFiniteSet(active) /\ Cardinality(active) \in Nat
              /\ IsFiniteSet(OnGpu) /\ Cardinality(OnGpu) \in Nat
              /\ IsFiniteSet(Pending) /\ Cardinality(Pending) \in Nat
<1>. SUFFICES ASSUME AdmTypes
     PROVE  /\ IsFiniteSet(active) /\ Cardinality(active) \in Nat
            /\ IsFiniteSet(OnGpu) /\ Cardinality(OnGpu) \in Nat
            /\ IsFiniteSet(Pending) /\ Cardinality(Pending) \in Nat
  OBVIOUS
<1>1. active \subseteq Tasks /\ OnGpu \subseteq Tasks /\ Pending \subseteq Tasks
  BY DEF AdmTypes, OnGpu, Pending
<1>. QED
  BY <1>1, Constants, FS_Subset, FS_CardinalityType

LEMMA HostSums ==
  /\ RamAvailable = Ram - Total(rss, active)
  /\ GpuFree = Gpu - Total(vram, active)
  /\ Unallocated = Total([t \in active |-> RamPerWorker - rss[t]], active)
<1>1. RamAvailable = Ram - Total(rss, active)
  BY DEF RamAvailable, MapThenSumSet, MapThenFoldSet, Total, IsTotal
<1>2. GpuFree = Gpu - Total(vram, active)
  BY DEF GpuFree, MapThenSumSet, MapThenFoldSet, Total, IsTotal
<1>3. Unallocated = Total([t \in active |-> RamPerWorker - rss[t]], active)
  BY DEF Unallocated, MapThenSumSet, MapThenFoldSet, Total, IsTotal
<1>. QED
  BY <1>1, <1>2, <1>3

LEMMA HostTypes ==
  AdmTypes => /\ RamAvailable \in Int /\ GpuFree \in Int
              /\ Total(rss, active) \in Nat /\ Total(vram, active) \in Nat
<1>. SUFFICES ASSUME AdmTypes
     PROVE  /\ RamAvailable \in Int /\ GpuFree \in Int
            /\ Total(rss, active) \in Nat /\ Total(vram, active) \in Nat
  OBVIOUS
<1>1. \A t \in active : rss[t] \in Nat /\ vram[t] \in Nat
  BY Constants DEF AdmTypes
<1>2. Total(rss, active) \in Nat /\ Total(vram, active) \in Nat
  BY <1>1, SetsAreFinite, TotalNat
<1>. QED
  BY <1>2, HostSums, Constants

(* Allocated or not, a worker takes what is reserved for it. *)
LEMMA RamIsShared ==
  ASSUME AdmTypes
  PROVE  /\ RamAvailable - Unallocated = Ram - RamPerWorker * Cardinality(active)
         /\ Unallocated \in Nat
<1>. DEFINE free == [t \in active |-> RamPerWorker - rss[t]]
            all == [t \in active |-> RamPerWorker]
<1>1. \A t \in active : /\ rss[t] \in Int /\ free[t] \in Nat /\ all[t] = rss[t] + free[t]
                        /\ all[t] = RamPerWorker
  BY Constants DEF AdmTypes
<1>2. Unallocated = Total(free, active) /\ RamAvailable = Ram - Total(rss, active)
  BY HostSums
<1>. HIDE DEF free, all
<1>3. Total(all, active) = Total(rss, active) + Total(free, active)
  BY <1>1, SetsAreFinite, TotalPlus
<1>4. Total(all, active) = RamPerWorker * Cardinality(active)
  BY <1>1, SetsAreFinite, TotalConstant, Constants
<1>5. Total(free, active) \in Nat
  BY <1>1, SetsAreFinite, TotalNat
<1>6. Total(rss, active) \in Nat
  BY HostTypes
<1>. QED
  BY <1>2, <1>3, <1>4, <1>5, <1>6, Constants

LEMMA GpuIsShared ==
  ASSUME AdmTypes, WorkersAsReserved
  PROVE  GpuFree - Cardinality(Pending) = Gpu - Cardinality(OnGpu)
<1>. DEFINE waits == [t \in active |-> IF t \in Pending THEN 1 ELSE 0]
            uses == [t \in active |-> IF t \in OnGpu THEN 1 ELSE 0]
<1>0. Pending \subseteq active /\ OnGpu \subseteq active
  BY DEF Pending, OnGpu
<1>1. \A t \in active : vram[t] \in Int /\ waits[t] \in Int /\ uses[t] = vram[t] + waits[t]
  BY Constants DEF AdmTypes, WorkersAsReserved, Pending, OnGpu
<1>2. \A t \in active : /\ waits[t] = IF t \in Pending THEN 1 ELSE 0
                        /\ uses[t] = IF t \in OnGpu THEN 1 ELSE 0
  OBVIOUS
<1>. HIDE DEF waits, uses
<1>3. Total(uses, active) = Total(vram, active) + Total(waits, active)
  BY <1>1, SetsAreFinite, TotalPlus
<1>4. Total(waits, active) = Cardinality(Pending) /\ Total(uses, active) = Cardinality(OnGpu)
  <2>1. {t \in active : t \in Pending} = Pending /\ {t \in active : t \in OnGpu} = OnGpu
    BY <1>0
  <2>2. Total(waits, active) = Cardinality({t \in active : t \in Pending})
    BY <1>2, SetsAreFinite, TotalCounts
  <2>3. Total(uses, active) = Cardinality({t \in active : t \in OnGpu})
    BY <1>2, SetsAreFinite, TotalCounts
  <2>. QED
    BY <2>1, <2>2, <2>3
<1>5. Total(vram, active) \in Nat /\ Cardinality(Pending) \in Nat
  BY HostTypes, SetsAreFinite
<1>. QED
  BY <1>3, <1>4, <1>5, HostSums, Constants

LEMMA SlackBoundsOvercommit == AdmInv => OvercommitIsDrift
  BY RamIsShared, GpuIsShared DEF AdmInv, Slack, OvercommitIsDrift

LEMMA FreshKeeps == AdmInv => FreshSnapshotsKeepReserves
<1>. SUFFICES ASSUME AdmInv, debt = Nought
              PROVE  ReservesAreKept
  BY DEF FreshSnapshotsKeepReserves
<1>1. OvercommitIsDrift /\ debt.ram = 0 /\ debt.gpu = 0
  BY SlackBoundsOvercommit DEF Nought
<1>2. Unallocated \in Nat /\ Cardinality(Pending) \in Nat
  BY RamIsShared, SetsAreFinite DEF AdmInv
<1>3. RamAvailable \in Int /\ GpuFree \in Int
  BY HostTypes DEF AdmInv
<1>. QED
  BY <1>1, <1>2, <1>3, Constants DEF ReservesAreKept, OvercommitIsDrift

-----------------------------------------------------------------------------
(* The passes *)

LEMMA AdmInitEstablishes == AdmInit => AdmInv
<1>. SUFFICES ASSUME AdmInit PROVE AdmInv
  OBVIOUS
<1>1. AdmTypes
  BY Constants DEF AdmInit, AdmTypes, Nought
<1>2. WorkersAsReserved
  BY Constants DEF AdmInit, WorkersAsReserved
<1>3. Total(rss, active) = 0 /\ Total(vram, active) = 0
  BY FS_EmptySet, TotalStep DEF AdmInit
<1>4. SnapshotAges
  BY <1>3, HostSums, Constants DEF AdmInit, SnapshotAges, Nought
<1>5. Slack
  BY DEF AdmInit, Slack, OnGpu
<1>. QED
  BY <1>1, <1>2, <1>4, <1>5 DEF AdmInv

(* The same facts after a step. *)
LEMMA NextHost ==
  /\ (RamAvailable = Ram - Total(rss, active))'
  /\ (GpuFree = Gpu - Total(vram, active))'
  /\ AdmTypes' => /\ (RamAvailable \in Int /\ GpuFree \in Int)'
                  /\ (Total(rss, active) \in Nat /\ Total(vram, active) \in Nat)'
                  /\ (Cardinality(active) \in Nat /\ Cardinality(OnGpu) \in Nat)'
<1>1. (RamAvailable = Ram - Total(rss, active))' /\ (GpuFree = Gpu - Total(vram, active))'
  BY HostSums, PTL
<1>2. AdmTypes => /\ RamAvailable \in Int /\ GpuFree \in Int
                  /\ Total(rss, active) \in Nat /\ Total(vram, active) \in Nat
                  /\ Cardinality(active) \in Nat /\ Cardinality(OnGpu) \in Nat
  BY HostTypes, SetsAreFinite
<1>3. (AdmTypes => /\ RamAvailable \in Int /\ GpuFree \in Int
                   /\ Total(rss, active) \in Nat /\ Total(vram, active) \in Nat
                   /\ Cardinality(active) \in Nat /\ Cardinality(OnGpu) \in Nat)'
  BY <1>2, PTL
<1>. QED
  BY <1>1, <1>3

LEMMA ProbeStep ==
  ASSUME AdmInv, Probe
  PROVE  AdmInv'
<1>0. AdmTypes /\ WorkersAsReserved /\ Slack /\ active' = active \ ended /\ UNCHANGED <<rss, vram, debt>>
      /\ ended' = {} /\ ready' \subseteq Tasks \ active' /\ drift' = Nought
      /\ resources' = [ram |-> RamAvailable, gpu |-> GpuFree]
  BY DEF AdmInv, Probe
<1>1. AdmTypes'
  BY <1>0, HostTypes DEF AdmTypes, Nought
<1>2. WorkersAsReserved'
  BY <1>0 DEF WorkersAsReserved, AdmTypes
<1>3. SnapshotAges'
  <2>1. \A t \in active : rss[t] \in Nat /\ vram[t] \in Nat
    BY <1>0, Constants DEF AdmTypes
  <2>2. active' \in SUBSET active
    BY <1>0
  <2>3. Total(rss, active') <= Total(rss, active)
    BY <1>0, <2>1, <2>2, SetsAreFinite, TotalNat
  <2>4. Total(vram, active') <= Total(vram, active)
    BY <1>0, <2>1, <2>2, SetsAreFinite, TotalNat
  <2>5. Total(rss', active') \in Nat /\ Total(vram', active') \in Nat
    BY <1>1, NextHost
  <2>6. Total(rss, active) \in Nat /\ Total(vram, active) \in Nat
    BY <1>0, HostTypes
  <2>7. Ram - Total(rss', active') >= RamAvailable /\ Gpu - Total(vram', active') >= GpuFree
    BY <1>0, <2>3, <2>4, <2>5, <2>6, HostSums, Constants
  <2>8. RamAvailable \in Int /\ GpuFree \in Int
    BY <1>0, HostTypes
  <2>. QED
    BY <1>0, <2>7, <2>8, NextHost DEF SnapshotAges, Nought
<1>4. Slack'
  <2>1. active' \subseteq active /\ OnGpu' \subseteq OnGpu
    BY <1>0 DEF OnGpu
  <2>2. Cardinality(active') <= Cardinality(active) /\ Cardinality(OnGpu') <= Cardinality(OnGpu)
    BY <1>0, <2>1, SetsAreFinite, FS_Subset
  <2>3. /\ Cardinality(active) \in Nat /\ Cardinality(active') \in Nat
        /\ Cardinality(OnGpu) \in Nat /\ Cardinality(OnGpu') \in Nat
    BY <1>0, <1>1, SetsAreFinite, NextHost
  <2>4. RamPerWorker * Cardinality(active') <= RamPerWorker * Cardinality(active)
    BY <2>2, <2>3, Constants
  <2>5. debt'.ram = debt.ram /\ debt'.gpu = debt.gpu /\ debt.ram \in Nat /\ debt.gpu \in Nat
    BY <1>0 DEF AdmTypes
  <2>6. active' # {} => Ram - RamPerWorker * Cardinality(active') >= RamReserve - debt'.ram
    BY <1>0, <2>1, <2>3, <2>4, <2>5, Constants DEF Slack
  <2>7. OnGpu' # {} => Gpu - Cardinality(OnGpu') >= GpuReserve - debt'.gpu
    BY <1>0, <2>1, <2>2, <2>3, <2>5, Constants DEF Slack
  <2>. QED
    BY <2>6, <2>7 DEF Slack
<1>. QED
  BY <1>1, <1>2, <1>3, <1>4 DEF AdmInv

LEMMA LaunchStep ==
  ASSUME AdmInv, NEW t \in Tasks, Launch(t)
  PROVE  AdmInv'
<1>0. /\ AdmTypes /\ WorkersAsReserved /\ SnapshotAges /\ Slack
      /\ t \in ready /\ EnoughRam /\ EnoughGpu(t)
      /\ ready' = ready \ {t} /\ active' = active \cup {t}
      /\ debt' = IF Lane[t] = "cuda" THEN drift ELSE [debt EXCEPT !.ram = drift.ram]
      /\ UNCHANGED <<resources, ended, rss, vram, drift>>
  BY DEF AdmInv, Launch
<1>1. AdmTypes' /\ t \notin active
  BY <1>0 DEF AdmTypes
<1>2. WorkersAsReserved' /\ rss[t] = 0 /\ vram[t] = 0
  BY <1>0, <1>1 DEF WorkersAsReserved, AdmTypes
<1>3. Total(rss', active') = Total(rss, active) /\ Total(vram', active') = Total(vram, active)
  <2>1. \A u \in active \cup {t} : rss[u] \in Int /\ vram[u] \in Int
    BY <1>0 DEF AdmTypes
  <2>2. Total(rss, active \cup {t}) = Total(rss, active) + rss[t]
    BY <1>0, <1>1, <2>1, SetsAreFinite, TotalAdd
  <2>3. Total(vram, active \cup {t}) = Total(vram, active) + vram[t]
    BY <1>0, <1>1, <2>1, SetsAreFinite, TotalAdd
  <2>. QED
    BY <1>0, <1>2, <2>2, <2>3, HostTypes
<1>4. SnapshotAges'
  BY <1>0, <1>3, HostSums, NextHost DEF SnapshotAges
<1>5. /\ resources.ram \in Int /\ resources.gpu \in Int /\ drift.ram \in Nat /\ drift.gpu \in Nat
      /\ RamAvailable \in Int /\ GpuFree \in Int /\ Unallocated \in Nat
  BY <1>0, HostTypes, RamIsShared DEF AdmTypes
<1>6. Cardinality(active') = Cardinality(active) + 1 /\ Cardinality(active) \in Nat
  BY <1>0, <1>1, SetsAreFinite, FS_AddElement
<1>7. Ram - RamPerWorker * Cardinality(active') >= RamReserve - debt'.ram
  <2>1. debt'.ram = drift.ram
    BY <1>0 DEF AdmTypes
  <2>2. RamAvailable - Unallocated - RamPerWorker >= RamReserve - drift.ram
    BY <1>0, <1>5, Constants DEF SnapshotAges, EnoughRam
  <2>3. RamAvailable - Unallocated = Ram - RamPerWorker * Cardinality(active)
    BY <1>0, RamIsShared
  <2>4. RamPerWorker * (Cardinality(active) + 1) = RamPerWorker * Cardinality(active) + RamPerWorker
    BY <1>6, Constants
  <2>5. RamPerWorker * Cardinality(active) \in Nat
    BY <1>6, Constants
  <2>. QED
    BY <1>5, <1>6, <2>1, <2>2, <2>3, <2>4, <2>5, Constants
<1>8. OnGpu' # {} => Gpu - Cardinality(OnGpu') >= GpuReserve - debt'.gpu
  <2>1. CASE Lane[t] = "cuda"
    <3>1. OnGpu' = OnGpu \cup {t} /\ t \notin OnGpu
      BY <1>0, <1>1, <2>1 DEF OnGpu
    <3>2. Cardinality(OnGpu') = Cardinality(OnGpu) + 1 /\ Cardinality(OnGpu) \in Nat
      BY <1>0, <3>1, SetsAreFinite, FS_AddElement
    <3>3. Pending \subseteq Starting
      BY <1>0, Constants DEF Pending, OnGpu, Starting, WorkersAsReserved, AdmTypes
    <3>4. IsFiniteSet(Starting)
      <4>1. Starting \subseteq active
        BY DEF Starting
      <4>. QED
        BY <1>0, <4>1, SetsAreFinite, FS_Subset
    <3>5. Cardinality(Pending) <= Cardinality(Starting) /\ Cardinality(Starting) \in Nat
          /\ Cardinality(Pending) \in Nat
      BY <1>0, <3>3, <3>4, SetsAreFinite, FS_Subset, FS_CardinalityType
    <3>6. GpuFree >= GpuReserve + Cardinality(Starting) + 1 - drift.gpu
      BY <1>0, <1>5, <2>1, <3>5, Constants DEF SnapshotAges, EnoughGpu
    <3>7. GpuFree - Cardinality(Pending) = Gpu - Cardinality(OnGpu)
      BY <1>0, GpuIsShared
    <3>8. debt'.gpu = drift.gpu
      BY <1>0, <2>1
    <3>. QED
      BY <1>5, <3>2, <3>5, <3>6, <3>7, <3>8, Constants
  <2>2. CASE Lane[t] # "cuda"
    <3>1. OnGpu' = OnGpu
      BY <1>0, <2>2 DEF OnGpu
    <3>2. debt'.gpu = debt.gpu
      BY <1>0, <2>2 DEF AdmTypes
    <3>. QED
      BY <1>0, <3>1, <3>2 DEF Slack
  <2>. QED
    BY <2>1, <2>2
<1>9. Slack'
  BY <1>7, <1>8 DEF Slack
<1>. QED
  BY <1>1, <1>2, <1>4, <1>9 DEF AdmInv

LEMMA RefuseStep ==
  ASSUME AdmInv, NEW t \in Tasks, Refuse(t)
  PROVE  AdmInv'
<1>0. /\ AdmTypes /\ WorkersAsReserved /\ SnapshotAges /\ Slack /\ ready' = ready \ {t}
      /\ UNCHANGED <<resources, active, ended, rss, vram, drift, debt>>
  BY DEF AdmInv, Refuse
<1>1. AdmTypes' /\ WorkersAsReserved' /\ Slack'
  BY <1>0 DEF AdmTypes, WorkersAsReserved, Slack, OnGpu
<1>2. SnapshotAges'
  BY <1>0, HostSums, NextHost DEF SnapshotAges
<1>. QED
  BY <1>1, <1>2 DEF AdmInv

-----------------------------------------------------------------------------
(* The workers *)

LEMMA GrowStep ==
  ASSUME AdmInv, NEW t \in Tasks, Grow(t)
  PROVE  AdmInv'
<1>0. /\ AdmTypes /\ WorkersAsReserved /\ SnapshotAges /\ Slack
      /\ t \in active \ ended /\ rss[t] < RamPerWorker
      /\ Lane[t] = "cuda" /\ 2 * (rss[t] + 1) >= RamPerWorker => vram[t] = 1
      /\ rss' = [rss EXCEPT ![t] = rss[t] + 1] /\ drift' = [drift EXCEPT !.ram = drift.ram + 1]
      /\ UNCHANGED <<resources, ready, active, ended, vram, debt>>
  BY DEF AdmInv, Grow
<1>1. rss[t] \in Nat /\ rss'[t] = rss[t] + 1 /\ \A u \in Tasks \ {t} : rss'[u] = rss[u]
  BY <1>0, Constants DEF AdmTypes
<1>2. AdmTypes'
  BY <1>0, <1>1, Constants DEF AdmTypes
<1>3. WorkersAsReserved'
  BY <1>0, <1>1 DEF WorkersAsReserved
<1>4. Total(rss', active) = Total(rss, active) + 1
  <2>1. \A u \in active : rss[u] \in Int /\ rss'[u] \in Int
    BY <1>0, <1>2 DEF AdmTypes
  <2>2. \A u \in active \ {t} : rss'[u] = rss[u]
    BY <1>0, <1>1 DEF AdmTypes
  <2>3. PICK g : g = rss'
    OBVIOUS
  <2>4. Total(g, active) = Total(rss, active) - rss[t] + g[t]
    <3>1. /\ \A u \in active : rss[u] \in Int /\ g[u] \in Int
          /\ \A u \in active \ {t} : g[u] = rss[u]
      BY <2>1, <2>2, <2>3
    <3>2. IsFiniteSet(active) /\ t \in active
      BY <1>0, SetsAreFinite
    <3>. QED
      BY ONLY <3>1, <3>2, TotalChange
  <2>. QED
    BY <1>0, <1>1, <2>3, <2>4, HostTypes
<1>5. SnapshotAges'
  <2>1. /\ resources.ram \in Int /\ drift.ram \in Nat /\ drift'.ram = drift.ram + 1
        /\ drift'.gpu = drift.gpu /\ Total(rss, active) \in Nat
    BY <1>0, HostTypes DEF AdmTypes
  <2>2. RamAvailable' = RamAvailable - 1 /\ GpuFree' = GpuFree /\ RamAvailable \in Int
    BY <1>0, <1>4, <2>1, HostSums, NextHost, Constants
  <2>. QED
    BY <1>0, <2>1, <2>2 DEF SnapshotAges
<1>6. Slack'
  BY <1>0 DEF Slack, OnGpu
<1>. QED
  BY <1>2, <1>3, <1>5, <1>6 DEF AdmInv

LEMMA TakeGpuStep ==
  ASSUME AdmInv, NEW t \in Tasks, TakeGpu(t)
  PROVE  AdmInv'
<1>0. /\ AdmTypes /\ WorkersAsReserved /\ SnapshotAges /\ Slack
      /\ t \in active \ ended /\ Lane[t] = "cuda" /\ vram[t] = 0
      /\ vram' = [vram EXCEPT ![t] = 1] /\ drift' = [drift EXCEPT !.gpu = drift.gpu + 1]
      /\ UNCHANGED <<resources, ready, active, ended, rss, debt>>
  BY DEF AdmInv, TakeGpu
<1>1. vram'[t] = 1 /\ \A u \in Tasks \ {t} : vram'[u] = vram[u]
  BY <1>0 DEF AdmTypes
<1>2. AdmTypes'
  BY <1>0, <1>1 DEF AdmTypes
<1>3. WorkersAsReserved'
  BY <1>0, <1>1 DEF WorkersAsReserved
<1>4. Total(vram', active) = Total(vram, active) + 1
  <2>1. \A u \in active : vram[u] \in Int /\ vram'[u] \in Int
    BY <1>0, <1>2 DEF AdmTypes
  <2>2. \A u \in active \ {t} : vram'[u] = vram[u]
    BY <1>0, <1>1 DEF AdmTypes
  <2>3. PICK g : g = vram'
    OBVIOUS
  <2>4. Total(g, active) = Total(vram, active) - vram[t] + g[t]
    <3>1. /\ \A u \in active : vram[u] \in Int /\ g[u] \in Int
          /\ \A u \in active \ {t} : g[u] = vram[u]
      BY <2>1, <2>2, <2>3
    <3>2. IsFiniteSet(active) /\ t \in active
      BY <1>0, SetsAreFinite
    <3>. QED
      BY ONLY <3>1, <3>2, TotalChange
  <2>. QED
    BY <1>0, <1>1, <2>3, <2>4, HostTypes
<1>5. SnapshotAges'
  <2>1. /\ resources.gpu \in Int /\ drift.gpu \in Nat /\ drift'.gpu = drift.gpu + 1
        /\ drift'.ram = drift.ram /\ Total(vram, active) \in Nat
    BY <1>0, HostTypes DEF AdmTypes
  <2>2. GpuFree' = GpuFree - 1 /\ RamAvailable' = RamAvailable /\ GpuFree \in Int
    BY <1>0, <1>4, <2>1, HostSums, NextHost, Constants
  <2>. QED
    BY <1>0, <2>1, <2>2 DEF SnapshotAges
<1>6. Slack'
  BY <1>0 DEF Slack, OnGpu
<1>. QED
  BY <1>2, <1>3, <1>5, <1>6 DEF AdmInv

LEMMA ExitStep ==
  ASSUME AdmInv, NEW t \in Tasks, WorkerEnds(t)
  PROVE  AdmInv'
<1>0. /\ AdmTypes /\ WorkersAsReserved /\ SnapshotAges /\ Slack
      /\ t \in active \ ended /\ ended' = ended \cup {t}
      /\ rss' = [rss EXCEPT ![t] = 0] /\ vram' = [vram EXCEPT ![t] = 0]
      /\ UNCHANGED <<resources, ready, active, drift, debt>>
  BY DEF AdmInv, WorkerEnds
<1>1. /\ rss'[t] = 0 /\ vram'[t] = 0
      /\ \A u \in Tasks \ {t} : rss'[u] = rss[u] /\ vram'[u] = vram[u]
  BY <1>0 DEF AdmTypes
<1>2. AdmTypes'
  BY <1>0, Constants DEF AdmTypes
<1>3. WorkersAsReserved'
  BY <1>0, <1>1, Constants DEF WorkersAsReserved
<1>4. Total(rss', active) <= Total(rss, active) /\ Total(vram', active) <= Total(vram, active)
  <2>1. \A u \in active : rss[u] \in Int /\ rss'[u] \in Int /\ rss'[u] <= rss[u]
    BY <1>0, <1>1, <1>2, Constants DEF AdmTypes
  <2>2. \A u \in active : vram[u] \in Int /\ vram'[u] \in Int /\ vram'[u] <= vram[u]
    BY <1>0, <1>1, <1>2 DEF AdmTypes
  <2>. QED
    BY <1>0, <2>1, <2>2, SetsAreFinite, TotalBound
<1>5. SnapshotAges'
  <2>1. /\ Total(rss, active) \in Nat /\ Total(vram, active) \in Nat
        /\ Total(rss', active') \in Nat /\ Total(vram', active') \in Nat
    BY <1>0, <1>2, HostTypes, NextHost
  <2>2. RamAvailable' >= RamAvailable /\ GpuFree' >= GpuFree
    BY <1>0, <1>4, <2>1, HostSums, NextHost, Constants
  <2>3. /\ resources.ram \in Int /\ drift.ram \in Nat /\ resources.gpu \in Int /\ drift.gpu \in Nat
        /\ RamAvailable \in Int /\ GpuFree \in Int
    BY <1>0, HostTypes DEF AdmTypes
  <2>4. RamAvailable' \in Int /\ GpuFree' \in Int
    BY <1>2, NextHost
  <2>. QED
    BY <1>0, <2>2, <2>3, <2>4 DEF SnapshotAges
<1>6. Slack'
  BY <1>0 DEF Slack, OnGpu
<1>. QED
  BY <1>2, <1>3, <1>5, <1>6 DEF AdmInv

-----------------------------------------------------------------------------

LEMMA AdmStepPreserves == AdmInv /\ [AdmNext]_admVars => AdmInv'
<1>. SUFFICES ASSUME AdmInv, [AdmNext]_admVars PROVE AdmInv'
  OBVIOUS
<1>1. CASE UNCHANGED admVars
  <2>0. UNCHANGED <<resources, ready, active, ended, rss, vram, drift, debt>>
    BY <1>1 DEF admVars
  <2>1. AdmTypes' /\ WorkersAsReserved' /\ Slack'
    BY <2>0 DEF AdmInv, AdmTypes, WorkersAsReserved, Slack, OnGpu
  <2>2. SnapshotAges'
    BY <2>0, HostSums, NextHost DEF AdmInv, SnapshotAges
  <2>. QED
    BY <2>1, <2>2 DEF AdmInv
<1>. QED
  BY <1>1, ProbeStep, RefuseStep, LaunchStep, GrowStep, TakeGpuStep, ExitStep DEF AdmNext

THEOREM AdmissionInvariantHolds == AdmSpec => []AdmInv
  BY AdmInitEstablishes, AdmStepPreserves, PTL DEF AdmSpec

(* On every host, however many launches a pass makes and however workers grow
   and end, what all of them may take exceeds what is free above the reserves
   by no more than what was allocated between a snapshot and a launch. *)
THEOREM OvercommitIsBounded == AdmSpec => []OvercommitIsDrift
  BY AdmissionInvariantHolds, SlackBoundsOvercommit, PTL

(* The reserves hold whenever the last launches were decided on snapshots
   that nothing was allocated after. *)
THEOREM FreshSnapshotsSuffice == AdmSpec => []FreshSnapshotsKeepReserves
  BY AdmissionInvariantHolds, FreshKeeps, PTL
=============================================================================
