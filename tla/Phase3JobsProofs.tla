-------------------------- MODULE Phase3JobsProofs --------------------------
(***************************************************************************)
(* Proofs about Phase3Jobs, for any processes, jobs, numbers of images and *)
(* backends and number of mishaps.  LiveOwnerKeepsLease is not inductive   *)
(* by itself: between submit and claim_next the row has to stay PENDING,   *)
(* which it does because nobody else gets past the job lock.  The          *)
(* properties about evidence need what the lock holder has already seen at *)
(* each point of the call, the one about corrupt records what it still     *)
(* holds in memory.                                                        *)
(***************************************************************************)
EXTENDS Phase3Jobs, TLAPS

\* The row this process submitted is still there for it to claim.
ClaimingRowIsQueued ==
  \A p \in Processes : pc[p] = "claiming" => stage[job[p]] = "queued"

SeenPoints == {"recovering", "submitting", "reusing", "claiming", "checking"}

\* Before the claim and after the summary is written nothing mends evidence:
\* what is intact now was intact when whole was last set.
EvidenceWasSeen(p) == pc[p] \in SeenPoints /\ Intact(job[p]) => whole[job[p]]

\* The rows come before the summary, the summary before the check.
RowsAreStored(p) == pc[p] \in {"summarising", "checking", "finishing"} => rows[job[p]]

\* Only verified evidence lets the run be finished.
FinishingIsBacked(p) == pc[p] = "finishing" => whole[job[p]]

\* A process that holds a record is at an image of the job, and where it read
\* nothing there still is nothing: nobody else writes, and what is not there is
\* not damaged.
MissingStaysMissing(p) ==
  pc[p] \in {"extending", "merging"} =>
    at[p] \in 1..Images /\ (stored[p] = 0 => records[job[p]][at[p]] = 0)

CallInv(p) ==
  EvidenceWasSeen(p) /\ RowsAreStored(p) /\ FinishingIsBacked(p) /\ MissingStaysMissing(p)

\* The inductive invariant.
JobsInv ==
  /\ JobsTypes /\ LockedWhileAlive /\ LiveOwnerKeepsLease /\ ClaimingRowIsQueued
  /\ \A p \in Processes : CallInv(p)

-----------------------------------------------------------------------------

\* What writing the checkpoint of one image of one job does to the table of them.
LEMMA OneCheckpoint ==
  ASSUME NEW f \in [Jobs -> [1..Images -> Contents]],
         NEW j \in Jobs, NEW v \in 1..Images, NEW s \in Contents,
         NEW g, g = [f EXCEPT ![j][v] = s]
  PROVE  /\ g \in [Jobs -> [1..Images -> Contents]]
         /\ \A k \in Jobs, i \in 1..Images : g[k][i] = IF k = j /\ i = v THEN s ELSE f[k][i]
         /\ \A k \in Jobs : k # j => g[k] = f[k]
<1> DEFINE row == [f[j] EXCEPT ![v] = s]
<1>1. row \in [1..Images -> Contents]
  OBVIOUS
<1>2. \A i \in 1..Images : row[i] = IF i = v THEN s ELSE f[j][i]
  OBVIOUS
<1>3. g = [f EXCEPT ![j] = row]
  OBVIOUS
<1> HIDE DEF row
<1> QED  BY <1>1, <1>2, <1>3

\* The job lock: two calls under the lock of the same job are one call.
LEMMA OneCallPerJob ==
  ASSUME JobsAssumption, JobsInv, NEW p \in Processes, NEW q \in Processes,
         pc[p] \notin Outside, pc[q] \notin Outside, job[p] = job[q]
  PROVE  p = q
BY DEF JobsInv, JobsTypes, LockedWhileAlive

\* What a call has seen still holds after a step that leaves the call and the
\* files of its job alone.
LEMMA CallInvFrame ==
  ASSUME NEW q \in Processes, CallInv(q), UNCHANGED <<pc[q], job[q], at[q], stored[q]>>,
         \/ pc[q] \in Outside
         \/ /\ UNCHANGED <<records[job[q]], paired[job[q]], summary[job[q]]>>
            /\ UNCHANGED <<rows[job[q]], whole[job[q]]>>
  PROVE  CallInv(q)'
BY DEF CallInv, EvidenceWasSeen, RowsAreStored, FinishingIsBacked, MissingStaysMissing, Intact,
   SeenPoints, Outside

\* A step of a call that stays under its lock: it owes the types of what it
\* changes, what it has seen at the point it comes to, and its claim to the row.
LEMMA StepKeeps ==
  ASSUME JobsAssumption, JobsInv, NEW p \in Processes, NEW to \in Points \ Outside,
         pc[p] \notin Outside, pc' = [pc EXCEPT ![p] = to],
         stage' \in [Jobs -> Stages], fresh' \in [Jobs -> BOOLEAN],
         owner' \in [Jobs -> Processes \cup {NoProcess}],
         \A j \in Jobs \ {job[p]} : UNCHANGED <<stage[j], owner[j]>>,
         to \in Claimed => stage'[job[p]] = "leased" /\ owner'[job[p]] = p,
         to = "claiming" => stage'[job[p]] = "queued",
         UNCHANGED <<job, answer, lock, pilot>>, mishaps' \in 0..MaxMishaps,
         at' \in [Processes -> 1..(Images + 1)], stored' \in [Processes -> 0..Backends],
         \A q \in Processes \ {p} : UNCHANGED <<at[q], stored[q]>>,
         records' \in [Jobs -> [1..Images -> Contents]], summary' \in [Jobs -> {"none", "bad", "good"}],
         paired' \in [Jobs -> BOOLEAN], rows' \in [Jobs -> BOOLEAN], whole' \in [Jobs -> BOOLEAN],
         \A j \in Jobs \ {job[p]} :
           UNCHANGED <<records[j], paired[j], summary[j], rows[j], whole[j]>>,
         CallInv(p)'
  PROVE  JobsInv'
<1>1. pc'[p] = to /\ \A q \in Processes \ {p} : pc'[q] = pc[q]
  BY DEF JobsInv, JobsTypes
<1>2. JobsTypes'
  <2>1. pc' \in [Processes -> Points]
    BY DEF JobsInv, JobsTypes
  <2> QED  BY <2>1 DEF JobsInv, JobsTypes
<1>3. LockedWhileAlive'
  BY <1>1 DEF JobsInv, JobsTypes, LockedWhileAlive
<1>4. ASSUME NEW q \in Processes, q # p
      PROVE  /\ pc[q] \in Outside \/ job[q] # job[p]
             /\ job[q] \in Jobs /\ UNCHANGED <<pc[q], job[q], at[q], stored[q]>>
  BY <1>1, <1>4, OneCallPerJob DEF JobsInv, JobsTypes
<1>5. LiveOwnerKeepsLease' /\ ClaimingRowIsQueued'
  <2> SUFFICES ASSUME NEW q \in Processes
               PROVE  /\ pc'[q] \in Claimed => stage'[job'[q]] = "leased" /\ owner'[job'[q]] = q
                      /\ pc'[q] = "claiming" => stage'[job'[q]] = "queued"
    BY DEF LiveOwnerKeepsLease, ClaimingRowIsQueued
  <2>1. CASE q = p
    BY <1>1, <2>1
  <2>2. CASE q # p
    <3>1. pc'[q] = pc[q] /\ job'[q] = job[q]
      BY <1>4, <2>2
    <3>2. pc[q] \notin Outside => stage'[job[q]] = stage[job[q]] /\ owner'[job[q]] = owner[job[q]]
      BY <1>4, <2>2
    <3> QED  BY <3>1, <3>2 DEF JobsInv, LiveOwnerKeepsLease, ClaimingRowIsQueued, Claimed, Outside
  <2> QED  BY <2>1, <2>2
<1>6. ASSUME NEW q \in Processes, q # p  PROVE CallInv(q)'
  BY <1>4, <1>6, CallInvFrame DEF JobsInv
<1> QED  BY <1>2, <1>3, <1>5, <1>6 DEF JobsInv

\* The same for a step that leaves the registry alone.
LEMMA WorkKeeps ==
  ASSUME JobsAssumption, JobsInv, NEW p \in Processes, NEW to \in Points \ Outside,
         pc[p] \notin Outside, pc' = [pc EXCEPT ![p] = to],
         to \in Claimed => pc[p] \in Claimed, to # "claiming",
         UNCHANGED <<leaseVars, job, answer, lock, pilot>>, mishaps' \in 0..MaxMishaps,
         at' \in [Processes -> 1..(Images + 1)], stored' \in [Processes -> 0..Backends],
         \A q \in Processes \ {p} : UNCHANGED <<at[q], stored[q]>>,
         records' \in [Jobs -> [1..Images -> Contents]], summary' \in [Jobs -> {"none", "bad", "good"}],
         paired' \in [Jobs -> BOOLEAN], rows' \in [Jobs -> BOOLEAN], whole' \in [Jobs -> BOOLEAN],
         \A j \in Jobs \ {job[p]} :
           UNCHANGED <<records[j], paired[j], summary[j], rows[j], whole[j]>>,
         CallInv(p)'
  PROVE  JobsInv'
BY StepKeeps DEF JobsInv, JobsTypes, LiveOwnerKeepsLease, leaseVars

\* A call takes a lock nobody holds.
LEMMA EnterKeeps ==
  ASSUME JobsAssumption, JobsInv, NEW p \in Processes, NEW j \in Jobs, pc[p] \in Outside,
         lock[j] = NoProcess, NEW next \in {"seeding", "recovering"}, Enter(p, j, next),
         \/ next = "seeding" /\ whole' = whole
         \/ next = "recovering" /\ whole' = [whole EXCEPT ![j] = Intact(j)]
  PROVE  JobsInv'
<1>1. /\ pc' = [pc EXCEPT ![p] = next] /\ job' = [job EXCEPT ![p] = j]
      /\ UNCHANGED <<leaseVars, fileVars, at, stored, mishaps>>
  BY DEF Enter
<1>2. ASSUME NEW q \in Processes, q # p
      PROVE  pc'[q] = pc[q] /\ job'[q] = job[q] /\ (pc[q] \notin Outside => job[q] # j)
  BY <1>1, <1>2 DEF JobsAssumption, JobsInv, JobsTypes, LockedWhileAlive
<1>3. whole' \in [Jobs -> BOOLEAN] /\ \A k \in Jobs : k # j => whole'[k] = whole[k]
  BY DEF JobsInv, JobsTypes, Intact
<1>4. pc'[p] = next /\ job'[p] = j
  BY <1>1 DEF JobsInv, JobsTypes
<1>5. JobsTypes'
  <2>1. pc' \in [Processes -> Points] /\ job' \in [Processes -> Jobs]
    BY <1>1 DEF JobsInv, JobsTypes, Points
  <2>2. lock' \in [Jobs -> Processes \cup {NoProcess}]
    BY DEF JobsInv, JobsTypes, Enter
  <2>3. answer' \in [Processes -> {"none", "RUNNING", "COMPLETED", "FAILED", "raised"}]
    BY DEF JobsInv, JobsTypes, Enter
  <2> QED  BY <1>1, <1>3, <2>1, <2>2, <2>3 DEF JobsInv, JobsTypes, leaseVars, fileVars
<1>6. LockedWhileAlive'
  BY DEF JobsAssumption, JobsInv, JobsTypes, LockedWhileAlive, Outside, Enter
<1>7. LiveOwnerKeepsLease' /\ ClaimingRowIsQueued'
  BY <1>1, <1>2, <1>4 DEF JobsInv, LiveOwnerKeepsLease, ClaimingRowIsQueued, Claimed, leaseVars
<1>8. ASSUME NEW q \in Processes, q # p  PROVE CallInv(q)'
  <2>1. CallInv(q) /\ job[q] \in Jobs /\ UNCHANGED <<pc[q], job[q], at[q], stored[q]>>
    BY <1>1, <1>2, <1>8 DEF JobsInv, JobsTypes
  <2> QED  BY <1>1, <1>2, <1>3, <1>8, <2>1, CallInvFrame DEF fileVars
<1>9. CallInv(p)'
  <2>1. Intact(j)' => Intact(j)
    BY <1>1 DEF Intact, fileVars
  <2>2. EvidenceWasSeen(p)'
    BY <1>4, <2>1 DEF JobsInv, JobsTypes, EvidenceWasSeen, SeenPoints
  <2> QED  BY <1>4, <2>2 DEF CallInv, RowsAreStored, FinishingIsBacked, MissingStaysMissing
<1> QED  BY <1>5, <1>6, <1>7, <1>8, <1>9 DEF JobsInv

\* A call ends.  Only the row of a job under its own lock may change with it.
LEMMA ReturnKeeps ==
  ASSUME JobsAssumption, JobsInv, NEW p \in Processes,
         NEW how \in {"RUNNING", "COMPLETED", "FAILED", "raised"}, Return(p, how),
         stage' \in [Jobs -> Stages],
         \/ stage' = stage
         \/ pc[p] \notin Outside /\ \A j \in Jobs \ {job[p]} : stage'[j] = stage[j],
         UNCHANGED <<owner, fresh, fileVars, whole>>, mishaps' \in 0..MaxMishaps
  PROVE  JobsInv'
<1>1. pc' = [pc EXCEPT ![p] = "off"] /\ UNCHANGED job
  BY DEF Return
<1>2. ASSUME NEW q \in Processes, pc'[q] \notin Outside
      PROVE  q # p /\ pc'[q] = pc[q] /\ stage'[job[q]] = stage[job[q]]
  <2>1. q # p /\ pc'[q] = pc[q]
    BY <1>1, <1>2 DEF JobsInv, JobsTypes, Outside
  <2>2. pc[p] \notin Outside => job[q] # job[p]
    BY <1>2, <2>1, OneCallPerJob
  <2> QED  BY <2>1, <2>2 DEF JobsInv, JobsTypes
<1>3. JobsTypes'
  <2>1. pc' \in [Processes -> Points]
    BY <1>1 DEF JobsInv, JobsTypes, Points, Outside
  <2>2. lock' \in [Jobs -> Processes \cup {NoProcess}]
    BY DEF JobsInv, JobsTypes, Return, Release
  <2>3. answer' \in [Processes -> {"none", "RUNNING", "COMPLETED", "FAILED", "raised"}]
    BY DEF JobsInv, JobsTypes, Return
  <2>4. at' \in [Processes -> 1..(Images + 1)] /\ stored' \in [Processes -> 0..Backends]
    BY DEF JobsAssumption, JobsInv, JobsTypes, Return
  <2> QED  BY <1>1, <2>1, <2>2, <2>3, <2>4 DEF JobsInv, JobsTypes, fileVars
<1>4. LockedWhileAlive'
  BY <1>1 DEF JobsAssumption, JobsInv, JobsTypes, LockedWhileAlive, Outside, Return, Release
<1>5. LiveOwnerKeepsLease' /\ ClaimingRowIsQueued'
  BY <1>1, <1>2 DEF JobsInv, LiveOwnerKeepsLease, ClaimingRowIsQueued, Claimed, Outside
<1>6. ASSUME NEW q \in Processes, q # p  PROVE CallInv(q)'
  <2>1. CallInv(q) /\ UNCHANGED <<pc[q], job[q], at[q], stored[q]>>
    BY <1>6 DEF JobsInv, JobsTypes, Return
  <2> QED  BY <2>1, CallInvFrame, <1>1 DEF fileVars
<1>7. CallInv(p)'
  <2>1. pc'[p] = "off"
    BY <1>1 DEF JobsInv, JobsTypes
  <2> QED  BY <2>1 DEF CallInv, EvidenceWasSeen, RowsAreStored, FinishingIsBacked,
         MissingStaysMissing, SeenPoints
<1> QED  BY <1>3, <1>4, <1>5, <1>6, <1>7 DEF JobsInv

\* Each action keeps the invariant.  run_registered takes a free lock.
LEMMA StartKeeps ==
  ASSUME JobsAssumption, JobsInv, NEW p \in Processes, NEW j \in Jobs, Start(p, j)
  PROVE  JobsInv'
BY EnterKeeps DEF Start, Runs, Outside

\* So does seed_pilot.
LEMMA StartSeedingKeeps ==
  ASSUME JobsAssumption, JobsInv, NEW p \in Processes, NEW j \in Jobs, StartSeeding(p, j)
  PROVE  JobsInv'
BY EnterKeeps DEF StartSeeding, Outside

\* A worker that finds the lock taken after its import gives up.
LEMMA RefusedKeeps ==
  ASSUME JobsAssumption, JobsInv, NEW p \in Processes, Refused(p)
  PROVE  JobsInv'
<1>1. stage' \in [Jobs -> Stages] /\ mishaps' \in 0..MaxMishaps
  BY DEF JobsInv, JobsTypes, Refused, leaseVars
<1> QED  BY <1>1, ReturnKeeps DEF Refused, leaseVars

\* The import reads a record.
LEMMA ReadTargetKeeps ==
  ASSUME JobsAssumption, JobsInv, NEW p \in Processes, ReadTarget(p)
  PROVE  JobsInv'
<1>1. stage' \in [Jobs -> Stages] /\ mishaps' \in 0..MaxMishaps
  BY DEF JobsInv, JobsTypes, ReadTarget, leaseVars
<1>2. CASE Return(p, "raised")
  BY <1>1, <1>2, ReturnKeeps DEF ReadTarget, leaseVars
<1>3. CASE ~Return(p, "raised")
  <2>1. PICK i \in 1..Images :
          /\ records[job[p]][i] \in 0..(Backends - 1)
          /\ Goto(p, "seeding", "merging")
          /\ at' = [at EXCEPT ![p] = i]
          /\ stored' = [stored EXCEPT ![p] = records[job[p]][i]]
          /\ UNCHANGED <<job, answer, lock>>
    BY <1>3 DEF ReadTarget
  <2>2. pc[p] \notin Outside /\ "merging" \in Points \ Outside /\ pc' = [pc EXCEPT ![p] = "merging"]
    BY <2>1 DEF Outside, Points, Goto
  <2>3. at' \in [Processes -> 1..(Images + 1)] /\ stored' \in [Processes -> 0..Backends]
    BY <2>1 DEF JobsAssumption, JobsInv, JobsTypes
  <2>4. CallInv(p)'
    <3>1. pc'[p] = "merging" /\ at'[p] = i /\ stored'[p] = records[job[p]][i]
      BY <2>1, <2>2 DEF JobsInv, JobsTypes
    <3> QED  BY <2>1, <3>1 DEF CallInv, EvidenceWasSeen, RowsAreStored, FinishingIsBacked,
           MissingStaysMissing, SeenPoints, ReadTarget, fileVars
  <2> QED
    <3>1. \A q \in Processes \ {p} : UNCHANGED <<at[q], stored[q]>>
      BY <2>1 DEF JobsInv, JobsTypes
    <3>2. "merging" \notin Claimed
      BY DEF Claimed
    <3> QED  BY <2>1, <2>2, <2>3, <2>4, <3>1, <3>2, WorkKeeps
             DEF JobsInv, JobsTypes, ReadTarget, leaseVars, fileVars
<1> QED  BY <1>2, <1>3

\* It writes over the file; no call under the lock has seen this job's evidence.
LEMMA WriteTargetKeeps ==
  ASSUME JobsAssumption, JobsInv, NEW p \in Processes, WriteTarget(p)
  PROVE  JobsInv'
<1>1. PICK n \in (stored[p] + 1)..Backends : records' = [records EXCEPT ![job[p]][at[p]] = n]
  BY DEF WriteTarget
<1>2. pc[p] = "merging" /\ job[p] \in Jobs /\ at[p] \in 1..Images /\ n \in Contents
  BY <1>1 DEF JobsAssumption, JobsInv, JobsTypes, CallInv, MissingStaysMissing, WriteTarget, Goto, Contents
<1>3. /\ records' \in [Jobs -> [1..Images -> Contents]]
      /\ \A j \in Jobs \ {job[p]} : records'[j] = records[j]
  BY <1>1, <1>2, OneCheckpoint DEF JobsInv, JobsTypes
<1>4. /\ pc[p] \notin Outside /\ "seeding" \in Points \ Outside /\ "seeding" \notin Claimed
      /\ pc' = [pc EXCEPT ![p] = "seeding"]
  BY <1>2 DEF Outside, Points, Claimed, WriteTarget, Goto
<1>5. /\ at' \in [Processes -> 1..(Images + 1)] /\ stored' \in [Processes -> 0..Backends]
      /\ \A q \in Processes \ {p} : UNCHANGED <<at[q], stored[q]>>
  BY DEF JobsAssumption, JobsInv, JobsTypes, WriteTarget
<1>6. CallInv(p)'
  <2>1. pc'[p] = "seeding"
    BY <1>4 DEF JobsInv, JobsTypes
  <2> QED  BY <2>1 DEF CallInv, EvidenceWasSeen, RowsAreStored, FinishingIsBacked, MissingStaysMissing, SeenPoints
<1> QED  BY <1>3, <1>4, <1>5, <1>6, WorkKeeps DEF JobsInv, JobsTypes, WriteTarget, leaseVars

\* The import ends: the lock is released, with the call or before the run.
LEMMA EndSeedingKeeps ==
  ASSUME JobsAssumption, JobsInv, NEW p \in Processes, EndSeeding(p)
  PROVE  JobsInv'
<1>1. stage' \in [Jobs -> Stages] /\ mishaps' \in 0..MaxMishaps
  BY DEF JobsInv, JobsTypes, EndSeeding, leaseVars
<1>2. CASE Return(p, "raised")
  BY <1>1, <1>2, ReturnKeeps DEF EndSeeding, leaseVars
<1>3. CASE ~Return(p, "raised")
  <2>1. /\ pc[p] = "seeding" /\ pc' = [pc EXCEPT ![p] = "seeded"] /\ Release(p)
        /\ UNCHANGED <<leaseVars, fileVars, whole, mishaps, job, at, stored, answer>>
    BY <1>3 DEF EndSeeding, Goto
  <2>2. pc'[p] = "seeded" /\ \A q \in Processes \ {p} : pc'[q] = pc[q]
    BY <2>1 DEF JobsInv, JobsTypes
  <2>3. JobsTypes'
    <3>1. pc' \in [Processes -> Points]
      BY <2>1 DEF JobsInv, JobsTypes, Points, Outside
    <3>2. lock' \in [Jobs -> Processes \cup {NoProcess}]
      BY <2>1 DEF JobsInv, JobsTypes, Release
    <3> QED  BY <2>1, <3>1, <3>2 DEF JobsInv, JobsTypes, leaseVars, fileVars
  <2>4. LockedWhileAlive'
    BY <2>1 DEF JobsAssumption, JobsInv, JobsTypes, LockedWhileAlive, Outside, Release
  <2>5. LiveOwnerKeepsLease' /\ ClaimingRowIsQueued'
    BY <2>1, <2>2 DEF JobsInv, LiveOwnerKeepsLease, ClaimingRowIsQueued, Claimed, leaseVars
  <2>6. ASSUME NEW q \in Processes, q # p  PROVE CallInv(q)'
    BY <2>1, <2>2, <2>6, CallInvFrame DEF JobsInv, fileVars
  <2>7. CallInv(p)'
    BY <2>2 DEF CallInv, EvidenceWasSeen, RowsAreStored, FinishingIsBacked, MissingStaysMissing, SeenPoints
  <2> QED  BY <2>3, <2>4, <2>5, <2>6, <2>7 DEF JobsInv
<1> QED  BY <1>2, <1>3

\* recover_stale touches this job only, and this process holds its lock: the
\* lease it expires is that of a dead process.
LEMMA RecoverKeeps ==
  ASSUME JobsAssumption, JobsInv, NEW p \in Processes, Recover(p)
  PROVE  JobsInv'
<1>1. /\ pc[p] = "recovering" /\ pc[p] \notin Outside /\ "submitting" \in Points \ Outside
      /\ pc' = [pc EXCEPT ![p] = "submitting"]
  BY DEF Outside, Points, Recover, Goto
<1>2. stage' \in [Jobs -> Stages] /\ \A j \in Jobs \ {job[p]} : stage'[j] = stage[j]
  BY DEF JobsInv, JobsTypes, Jobs, Stages, Recover, Expire
<1>3. CallInv(p)'
  <2>1. pc'[p] = "submitting"
    BY <1>1 DEF JobsInv, JobsTypes
  <2> QED  BY <1>1, <2>1 DEF JobsInv, JobsTypes, CallInv, EvidenceWasSeen, RowsAreStored, FinishingIsBacked, MissingStaysMissing, SeenPoints, Intact, Recover, fileVars
<1> QED  BY <1>1, <1>2, <1>3, StepKeeps DEF JobsInv, JobsTypes, Claimed, Recover, fileVars

\* submit leaves a row this process may claim, or ends the call.
LEMMA SubmitKeeps ==
  ASSUME JobsAssumption, JobsInv, NEW p \in Processes, Submit(p)
  PROVE  JobsInv'
<1>1. /\ pc[p] = "submitting" /\ pc[p] \notin Outside
      /\ UNCHANGED <<owner, fresh, fileVars, whole, mishaps>>
  BY DEF Outside, Submit
<1>2. stage' \in [Jobs -> Stages] /\ \A j \in Jobs \ {job[p]} : stage'[j] = stage[j]
  BY DEF JobsInv, JobsTypes, Jobs, Stages, Submit, Enqueue, Move
<1>3. CASE Return(p, "RUNNING")
  BY <1>1, <1>2, <1>3, ReturnKeeps DEF JobsInv, JobsTypes
<1>4. CASE ~Return(p, "RUNNING")
  <2>1. PICK to \in {"claiming", "reusing"} :
          /\ pc' = [pc EXCEPT ![p] = to]
          /\ to = "claiming" => stage'[job[p]] = "queued"
          /\ UNCHANGED <<job, at, stored, answer, lock>>
    BY <1>4 DEF JobsInv, JobsTypes, Submit, Goto, Enqueue, Move
  <2>2. to \in Points \ Outside /\ to \notin Claimed
    BY DEF Outside, Points, Claimed
  <2>3. CallInv(p)'
    <3>1. pc'[p] = to
      BY <2>1 DEF JobsInv, JobsTypes
    <3> QED  BY <1>1, <2>1, <3>1 DEF JobsInv, JobsTypes, CallInv, EvidenceWasSeen, RowsAreStored, FinishingIsBacked, MissingStaysMissing, SeenPoints, Intact, fileVars
  <2> QED  BY <1>1, <1>2, <2>1, <2>2, <2>3, StepKeeps DEF JobsInv, JobsTypes, fileVars
<1> QED  BY <1>3, <1>4

\* A completed row ends the call.
LEMMA ReuseKeeps ==
  ASSUME JobsAssumption, JobsInv, NEW p \in Processes, Reuse(p)
  PROVE  JobsInv'
<1>1. stage' \in [Jobs -> Stages] /\ mishaps' \in 0..MaxMishaps
  BY DEF JobsInv, JobsTypes, Reuse, leaseVars
<1> QED  BY <1>1, ReturnKeeps DEF Reuse, leaseVars

\* The claim turns the queued row into this process's lease.
LEMMA ClaimKeeps ==
  ASSUME JobsAssumption, JobsInv, NEW p \in Processes, Claim(p)
  PROVE  JobsInv'
<1>1. /\ pc[p] = "claiming" /\ pc[p] \notin Outside /\ "executing" \in Points \ Outside
      /\ pc' = [pc EXCEPT ![p] = "executing"]
  BY DEF Outside, Points, Claimed, Claim, Goto
<1>2. /\ stage' \in [Jobs -> Stages] /\ stage'[job[p]] = "leased"
      /\ owner' \in [Jobs -> Processes \cup {NoProcess}] /\ owner'[job[p]] = p
      /\ \A j \in Jobs \ {job[p]} : UNCHANGED <<stage[j], owner[j]>>
  BY DEF JobsInv, JobsTypes, Jobs, Stages, Claim, Lease, Move
<1>3. CallInv(p)'
  <2>1. pc'[p] = "executing"
    BY <1>1 DEF JobsInv, JobsTypes
  <2> QED  BY <2>1 DEF CallInv, EvidenceWasSeen, RowsAreStored, FinishingIsBacked, MissingStaysMissing, SeenPoints
<1> QED  BY <1>1, <1>2, <1>3, StepKeeps DEF JobsInv, JobsTypes, Claim, fileVars

\* A record is read, or the file is corrupt.
LEMMA ReadCheckpointKeeps ==
  ASSUME JobsAssumption, JobsInv, NEW p \in Processes, ReadCheckpoint(p)
  PROVE  JobsInv'
<1> DEFINE held == records[job[p]][at[p]]
<1>1. pc[p] = "executing" /\ at[p] \in 1..Images /\ job[p] \in Jobs /\ held \in Contents
  BY DEF JobsAssumption, JobsInv, JobsTypes, ReadCheckpoint, Goto
<1>2. PICK to \in {"failing", "extending"} :
        /\ pc' = [pc EXCEPT ![p] = to]
        /\ to = "failing" => UNCHANGED stored
        /\ to = "extending" => held # Corrupt /\ stored' = [stored EXCEPT ![p] = held]
  BY DEF ReadCheckpoint, Goto
<1>3. to \in Points \ Outside /\ pc[p] \notin Outside /\ pc[p] \in Claimed
  BY <1>1 DEF Outside, Points, Claimed
<1>4. stored' \in [Processes -> 0..Backends] /\ \A q \in Processes \ {p} : stored'[q] = stored[q]
  BY <1>1, <1>2 DEF JobsInv, JobsTypes, Contents
<1>5. CallInv(p)'
  <2>1. pc'[p] = to /\ (to = "extending" => stored'[p] = held)
    BY <1>2 DEF JobsInv, JobsTypes
  <2> QED  BY <1>1, <1>2, <2>1 DEF CallInv, EvidenceWasSeen, RowsAreStored, FinishingIsBacked, MissingStaysMissing, SeenPoints, ReadCheckpoint, fileVars
<1> QED  BY <1>2, <1>3, <1>4, <1>5, WorkKeeps DEF JobsInv, JobsTypes, ReadCheckpoint, leaseVars, fileVars

\* The record in memory is written over the file of a job nobody else works on.
LEMMA SaveBackendKeeps ==
  ASSUME JobsAssumption, JobsInv, NEW p \in Processes, SaveBackend(p)
  PROVE  JobsInv'
<1>1. /\ pc[p] = "extending" /\ at[p] \in 1..Images /\ job[p] \in Jobs
      /\ stored[p] \in 0..Backends /\ stored[p] + 1 \in 1..Backends /\ stored[p] + 1 \in Contents
  BY DEF JobsAssumption, JobsInv, JobsTypes, CallInv, MissingStaysMissing, SaveBackend, Contents
<1>2. /\ records' \in [Jobs -> [1..Images -> Contents]]
      /\ \A j \in Jobs \ {job[p]} : records'[j] = records[j]
  BY <1>1, OneCheckpoint DEF JobsInv, JobsTypes, SaveBackend
<1>3. /\ "extending" \in Points \ Outside /\ pc[p] \notin Outside /\ pc[p] \in Claimed
      /\ pc' = [pc EXCEPT ![p] = "extending"]
  BY <1>1 DEF Outside, Points, Claimed, SaveBackend, JobsInv, JobsTypes
<1>4. /\ stored' \in [Processes -> 0..Backends] /\ stored'[p] = stored[p] + 1
      /\ \A q \in Processes \ {p} : stored'[q] = stored[q]
  BY <1>1 DEF JobsInv, JobsTypes, SaveBackend
<1>5. CallInv(p)'
  <2>1. pc'[p] = "extending" /\ at'[p] = at[p] /\ stored'[p] # 0
    BY <1>1, <1>4 DEF SaveBackend
  <2> QED  BY <1>1, <2>1 DEF CallInv, EvidenceWasSeen, RowsAreStored, FinishingIsBacked, MissingStaysMissing, SeenPoints
<1>6. /\ summary' \in [Jobs -> {"none", "bad", "good"}]
      /\ \A j \in Jobs \ {job[p]} : summary'[j] = summary[j]
  BY DEF JobsInv, JobsTypes, SaveBackend
<1> QED  BY <1>2, <1>3, <1>4, <1>5, <1>6, WorkKeeps DEF JobsInv, JobsTypes, SaveBackend, leaseVars

\* The image is complete.
LEMMA NextImageKeeps ==
  ASSUME JobsAssumption, JobsInv, NEW p \in Processes, NextImage(p)
  PROVE  JobsInv'
<1>1. /\ pc[p] = "extending" /\ at[p] \in 1..Images
      /\ "executing" \in Points \ Outside /\ pc[p] \notin Outside /\ pc[p] \in Claimed
      /\ pc' = [pc EXCEPT ![p] = "executing"]
  BY DEF JobsInv, CallInv, MissingStaysMissing, Outside, Points, Claimed, NextImage, Goto
<1>2. /\ at' \in [Processes -> 1..(Images + 1)] /\ stored' \in [Processes -> 0..Backends]
      /\ \A q \in Processes \ {p} : UNCHANGED <<at[q], stored[q]>>
  BY <1>1 DEF JobsAssumption, JobsInv, JobsTypes, NextImage
<1>3. CallInv(p)'
  <2>1. pc'[p] = "executing"
    BY <1>1 DEF JobsInv, JobsTypes
  <2> QED  BY <2>1 DEF CallInv, EvidenceWasSeen, RowsAreStored, FinishingIsBacked, MissingStaysMissing, SeenPoints
<1> QED  BY <1>1, <1>2, <1>3, WorkKeeps DEF JobsInv, JobsTypes, NextImage, leaseVars, fileVars

\* The loop over the images ends.
LEMMA AllImagesKeeps ==
  ASSUME JobsAssumption, JobsInv, NEW p \in Processes, AllImages(p)
  PROVE  JobsInv'
<1>1. /\ pc[p] = "executing" /\ pc[p] \notin Outside /\ "pairing" \in Points \ Outside
      /\ pc' = [pc EXCEPT ![p] = "pairing"]
  BY DEF Outside, Points, Claimed, AllImages, Goto
<1>2. CallInv(p)'
  <2>1. pc'[p] = "pairing"
    BY <1>1 DEF JobsInv, JobsTypes
  <2> QED  BY <1>1, <2>1 DEF JobsInv, JobsTypes, CallInv, EvidenceWasSeen, RowsAreStored, FinishingIsBacked, MissingStaysMissing, SeenPoints, AllImages
<1> QED  BY <1>1, <1>2, WorkKeeps DEF JobsInv, JobsTypes, Claimed, AllImages, leaseVars, fileVars

\* paired.json may complete evidence that nobody has seen whole yet: this
\* process is not at a point where that counts.
LEMMA WritePairedKeeps ==
  ASSUME JobsAssumption, JobsInv, NEW p \in Processes, WritePaired(p)
  PROVE  JobsInv'
<1>1. /\ pc[p] = "pairing" /\ pc[p] \notin Outside /\ "storing" \in Points \ Outside
      /\ pc' = [pc EXCEPT ![p] = "storing"]
  BY DEF Outside, Points, Claimed, WritePaired, Goto
<1>2. CallInv(p)'
  <2>1. pc'[p] = "storing"
    BY <1>1 DEF JobsInv, JobsTypes
  <2> QED  BY <1>1, <2>1 DEF JobsInv, JobsTypes, CallInv, EvidenceWasSeen, RowsAreStored, FinishingIsBacked, MissingStaysMissing, SeenPoints, WritePaired
<1> QED  BY <1>1, <1>2, WorkKeeps DEF JobsInv, JobsTypes, Claimed, WritePaired, leaseVars, fileVars

\* The per-image rows are stored.
LEMMA StoreRowsKeeps ==
  ASSUME JobsAssumption, JobsInv, NEW p \in Processes, StoreRows(p)
  PROVE  JobsInv'
<1>1. /\ pc[p] = "storing" /\ pc[p] \notin Outside /\ "summarising" \in Points \ Outside
      /\ pc' = [pc EXCEPT ![p] = "summarising"]
  BY DEF Outside, Points, Claimed, StoreRows, Goto
<1>2. CallInv(p)'
  <2>1. pc'[p] = "summarising"
    BY <1>1 DEF JobsInv, JobsTypes
  <2> QED  BY <1>1, <2>1 DEF JobsInv, JobsTypes, CallInv, EvidenceWasSeen, RowsAreStored, FinishingIsBacked, MissingStaysMissing, SeenPoints, StoreRows
<1> QED  BY <1>1, <1>2, WorkKeeps DEF JobsInv, JobsTypes, Claimed, StoreRows, leaseVars, fileVars

\* The summary completes the evidence.
LEMMA WriteSummaryKeeps ==
  ASSUME JobsAssumption, JobsInv, NEW p \in Processes, WriteSummary(p)
  PROVE  JobsInv'
<1>1. PICK to \in {"checking", "failing"} :
        /\ pc' = [pc EXCEPT ![p] = to]
        /\ to = "failing" => UNCHANGED <<summary, whole>>
        /\ to = "checking" =>
             whole' = [whole EXCEPT ![job[p]] =
                         whole[job[p]] \/ \A i \in 1..Images : records[job[p]][i] = Backends]
  BY DEF WriteSummary, Goto
<1>2. pc[p] = "summarising" /\ to \in Points \ Outside /\ pc[p] \notin Outside /\ pc[p] \in Claimed
  BY DEF Outside, Points, Claimed, WriteSummary
<1>3. /\ whole' \in [Jobs -> BOOLEAN] /\ summary' \in [Jobs -> {"none", "bad", "good"}]
      /\ \A j \in Jobs \ {job[p]} : UNCHANGED <<whole[j], summary[j]>>
  BY <1>1 DEF JobsInv, JobsTypes, WriteSummary
<1>4. CallInv(p)'
  <2>1. pc'[p] = to /\ job'[p] = job[p] /\ job[p] \in Jobs /\ rows[job[p]]
    BY <1>1, <1>2 DEF JobsInv, JobsTypes, CallInv, RowsAreStored, WriteSummary
  <2>2. EvidenceWasSeen(p)'
    BY <1>1, <2>1 DEF JobsInv, JobsTypes, EvidenceWasSeen, SeenPoints, Intact, WriteSummary
  <2> QED  BY <2>1, <2>2 DEF CallInv, RowsAreStored, FinishingIsBacked, MissingStaysMissing, WriteSummary
<1> QED  BY <1>1, <1>2, <1>3, <1>4, WorkKeeps DEF JobsInv, JobsTypes, WriteSummary, leaseVars

\* The evidence is verified before the run is finished.
LEMMA VerifyKeeps ==
  ASSUME JobsAssumption, JobsInv, NEW p \in Processes, Verify(p)
  PROVE  JobsInv'
<1>1. PICK to \in {"finishing", "failing"} :
        pc' = [pc EXCEPT ![p] = to] /\ (to = "finishing" => Intact(job[p]))
  BY DEF Verify, Goto
<1>2. pc[p] = "checking" /\ to \in Points \ Outside /\ pc[p] \notin Outside /\ pc[p] \in Claimed
  BY DEF Outside, Points, Claimed, Verify, Goto
<1>3. CallInv(p)'
  <2>1. pc'[p] = to
    BY <1>1 DEF JobsInv, JobsTypes
  <2> QED  BY <1>1, <1>2, <2>1 DEF JobsInv, CallInv, EvidenceWasSeen, RowsAreStored, FinishingIsBacked, MissingStaysMissing, SeenPoints, Verify, fileVars
<1> QED  BY <1>1, <1>2, <1>3, WorkKeeps DEF JobsInv, JobsTypes, Verify, leaseVars, fileVars

\* Finishing ends the call and a lease nobody else has.
LEMMA FinishKeeps ==
  ASSUME JobsAssumption, JobsInv, NEW p \in Processes, Finish(p)
  PROVE  JobsInv'
<1>1. PICK how \in {"COMPLETED", "FAILED"}, s \in {"done", "idle"} :
        Return(p, how) /\ stage' = [stage EXCEPT ![job[p]] = s]
  BY DEF Finish, Complete, Fail, Move
<1>2. stage' \in [Jobs -> Stages] /\ \A j \in Jobs \ {job[p]} : stage'[j] = stage[j]
  BY <1>1 DEF JobsInv, JobsTypes, Stages
<1>3. pc[p] \notin Outside /\ UNCHANGED <<owner, fresh, fileVars, whole>> /\ mishaps' \in 0..MaxMishaps
  BY DEF JobsInv, JobsTypes, Finish, Outside
<1> QED  BY <1>1, <1>2, <1>3, ReturnKeeps

\* A death leaves the row and releases the lock.
LEMMA DieKeeps ==
  ASSUME JobsAssumption, JobsInv, NEW p \in Processes, Die(p)
  PROVE  JobsInv'
<1>1. stage' \in [Jobs -> Stages] /\ mishaps' \in 0..MaxMishaps
  BY DEF JobsAssumption, JobsInv, JobsTypes, Die, Mishap, leaseVars
<1> QED  BY <1>1, ReturnKeeps DEF Die, leaseVars

\* An exception of the executor.
LEMMA RaiseKeeps ==
  ASSUME JobsAssumption, JobsInv, NEW p \in Processes, Raise(p)
  PROVE  JobsInv'
<1>1. /\ pc[p] \notin Outside /\ pc[p] \in Claimed /\ "failing" \in Points \ Outside
      /\ pc' = [pc EXCEPT ![p] = "failing"] /\ mishaps' \in 0..MaxMishaps
  BY DEF JobsAssumption, JobsInv, JobsTypes, Outside, Points, Claimed, Raise, Mishap
<1>2. CallInv(p)'
  <2>1. pc'[p] = "failing"
    BY <1>1 DEF JobsInv, JobsTypes
  <2> QED  BY <2>1 DEF CallInv, EvidenceWasSeen, RowsAreStored, FinishingIsBacked, MissingStaysMissing, SeenPoints
<1> QED  BY <1>1, <1>2, WorkKeeps DEF JobsInv, JobsTypes, Raise, leaseVars, fileVars

\* A renewal.
LEMMA RenewKeeps ==
  ASSUME JobsAssumption, JobsInv, NEW p \in Processes, Renew(p)
  PROVE  JobsInv'
<1>1. fresh' \in [Jobs -> BOOLEAN] /\ UNCHANGED <<stage, owner, fileVars, callVars, whole, mishaps>>
  BY DEF JobsInv, JobsTypes, Renew
<1>2. ASSUME NEW q \in Processes  PROVE CallInv(q)'
  BY <1>1, CallInvFrame DEF JobsInv, fileVars, callVars
<1> QED  BY <1>1, <1>2 DEF JobsInv, JobsTypes, LockedWhileAlive, LiveOwnerKeepsLease,
       ClaimingRowIsQueued, fileVars, callVars

\* A lease gets stale.
LEMMA AgeKeeps ==
  ASSUME JobsAssumption, JobsInv, NEW j \in Jobs, Age(j)
  PROVE  JobsInv'
<1>1. fresh' \in [Jobs -> BOOLEAN] /\ UNCHANGED <<stage, owner, fileVars, callVars, whole, mishaps>>
  BY DEF JobsInv, JobsTypes, Age
<1>2. ASSUME NEW q \in Processes  PROVE CallInv(q)'
  BY <1>1, CallInvFrame DEF JobsInv, fileVars, callVars
<1> QED  BY <1>1, <1>2 DEF JobsInv, JobsTypes, LockedWhileAlive, LiveOwnerKeepsLease,
       ClaimingRowIsQueued, fileVars, callVars

\* Only a file with results is damaged.
LEMMA DamagedRecords ==
  ASSUME JobsAssumption, records \in [Jobs -> [1..Images -> Contents]], NEW j \in Jobs, Damage(j)
  PROVE  /\ records' \in [Jobs -> [1..Images -> Contents]]
         /\ \A k \in Jobs, i \in 1..Images :
              records'[k][i] # records[k][i] => records[k][i] \in 1..Backends /\ records'[k][i] \in {0, Corrupt}
<1>1. CASE records' = records
  BY <1>1
<1>2. CASE records' # records
  <2>1. PICK v \in 1..Images, s \in {0, Corrupt} :
          records[j][v] \in 1..Backends /\ records' = [records EXCEPT ![j][v] = s]
    BY <1>2 DEF Damage
  <2>2. s \in Contents
    BY <2>1 DEF JobsAssumption, Contents
  <2>3. /\ records' \in [Jobs -> [1..Images -> Contents]]
        /\ \A k \in Jobs, i \in 1..Images :
             records'[k][i] = IF k = j /\ i = v THEN s ELSE records[k][i]
    BY <2>1, <2>2, OneCheckpoint
  <2> QED  BY <2>1, <2>3
<1> QED  BY <1>1, <1>2

\* Damage never makes evidence intact, nor does it touch what is not there.
LEMMA DamageKeeps ==
  ASSUME JobsAssumption, JobsInv, NEW j \in Jobs, Damage(j)
  PROVE  JobsInv'
<1>1. UNCHANGED <<leaseVars, callVars, rows, pilot, whole>> /\ mishaps' \in 0..MaxMishaps
  BY DEF JobsAssumption, JobsInv, JobsTypes, Damage, Mishap
<1>2. /\ records' \in [Jobs -> [1..Images -> Contents]]
      /\ \A k \in Jobs, i \in 1..Images :
           records'[k][i] # records[k][i] => records[k][i] \in 1..Backends /\ records'[k][i] \in {0, Corrupt}
  BY DamagedRecords DEF JobsInv, JobsTypes
<1>3. /\ paired' \in [Jobs -> BOOLEAN] /\ \A k \in Jobs : paired'[k] => paired[k]
      /\ summary' \in [Jobs -> {"none", "bad", "good"}]
      /\ \A k \in Jobs : summary'[k] = "good" => summary[k] = "good"
  BY DEF JobsInv, JobsTypes, Damage
<1>4. ASSUME NEW q \in Processes  PROVE CallInv(q)'
  <2>1. CallInv(q) /\ job[q] \in Jobs
    BY DEF JobsInv, JobsTypes
  <2>2. UNCHANGED <<pc[q], job[q], at[q], stored[q], rows, whole>>
    BY <1>1 DEF callVars
  <2>3. Intact(job[q])' => Intact(job[q])
    <3>1. \A i \in 1..Images : records'[job[q]][i] = Backends => records[job[q]][i] = Backends
      BY <1>2, <2>1 DEF JobsAssumption
    <3> QED  BY <1>3, <2>1, <2>2, <3>1 DEF Intact
  <2>4. MissingStaysMissing(q)'
    <3> SUFFICES ASSUME pc[q] \in {"extending", "merging"}, stored[q] = 0, at[q] \in 1..Images,
                        records[job[q]][at[q]] = 0
                 PROVE  records'[job[q]][at[q]] = 0
      BY <2>1, <2>2 DEF CallInv, MissingStaysMissing
    <3>1. 0 \notin 1..Backends /\ job[q] \in Jobs
      BY <2>1
    <3> QED  BY <1>2, <3>1
  <2> QED  BY <2>1, <2>2, <2>3, <2>4 DEF CallInv, EvidenceWasSeen, RowsAreStored, FinishingIsBacked
<1> QED  BY <1>1, <1>2, <1>3, <1>4 DEF JobsInv, JobsTypes, LockedWhileAlive, LiveOwnerKeepsLease,
       ClaimingRowIsQueued, leaseVars, callVars

\* The invariant holds in every reachable state.
THEOREM JobsInvariant ==
  ASSUME JobsAssumption  PROVE  JobsSpec => []JobsInv
<1>1. JobsInit => JobsInv
  <2> SUFFICES ASSUME JobsInit  PROVE JobsInv
    OBVIOUS
  <2>1. JobsTypes
    <3>1. records \in [Jobs -> [1..Images -> Contents]]
      BY DEF JobsAssumption, JobsInit, Contents
    <3>2. /\ at \in [Processes -> 1..(Images + 1)] /\ stored \in [Processes -> 0..Backends]
          /\ mishaps \in 0..MaxMishaps
      BY DEF JobsAssumption, JobsInit
    <3>3. /\ pc \in [Processes -> Points] /\ stage \in [Jobs -> Stages]
          /\ answer \in [Processes -> {"none", "RUNNING", "COMPLETED", "FAILED", "raised"}]
      BY DEF JobsInit, LifecycleInit, Points, Outside, Stages, Jobs
    <3> QED  BY <3>1, <3>2, <3>3 DEF JobsInit, JobsTypes
  <2>2. LockedWhileAlive
    BY DEF JobsAssumption, JobsInit, LockedWhileAlive, Outside
  <2>3. LiveOwnerKeepsLease /\ ClaimingRowIsQueued
    BY DEF JobsInit, LiveOwnerKeepsLease, ClaimingRowIsQueued, Claimed
  <2>4. \A p \in Processes : CallInv(p)
    BY DEF JobsInit, CallInv, EvidenceWasSeen, RowsAreStored, FinishingIsBacked, MissingStaysMissing, SeenPoints
  <2> QED  BY <2>1, <2>2, <2>3, <2>4 DEF JobsInv
<1>2. JobsInv /\ [JobsNext]_jobsVars => JobsInv'
  <2> SUFFICES ASSUME JobsInv, [JobsNext]_jobsVars  PROVE JobsInv'
    OBVIOUS
  <2>1. CASE UNCHANGED jobsVars
    BY <2>1 DEF jobsVars, JobsInv, JobsTypes, LockedWhileAlive, LiveOwnerKeepsLease,
       ClaimingRowIsQueued, CallInv, EvidenceWasSeen, RowsAreStored, FinishingIsBacked, MissingStaysMissing, Intact
  <2>2. ASSUME NEW p \in Processes, Import(p)  PROVE JobsInv'
    BY <2>2, ReadTargetKeeps, WriteTargetKeeps, EndSeedingKeeps, RefusedKeeps DEF Import
  <2>3. ASSUME NEW p \in Processes, RunJob(p)  PROVE JobsInv'
    BY <2>3, ReadCheckpointKeeps, SaveBackendKeeps, NextImageKeeps, AllImagesKeeps,
       WritePairedKeeps, StoreRowsKeeps, WriteSummaryKeeps DEF RunJob
  <2>4. ASSUME NEW p \in Processes, Continue(p)  PROVE JobsInv'
    BY <2>2, <2>3, <2>4, RecoverKeeps, SubmitKeeps, ReuseKeeps, ClaimKeeps, VerifyKeeps,
       FinishKeeps DEF Continue
  <2>5. ASSUME NEW p \in Processes, Renew(p) \/ Raise(p) \/ Die(p)  PROVE JobsInv'
    BY <2>5, RenewKeeps, RaiseKeeps, DieKeeps
  <2>6. ASSUME NEW p \in Processes, NEW j \in Jobs, StartSeeding(p, j) \/ Start(p, j)  PROVE JobsInv'
    BY <2>6, StartSeedingKeeps, StartKeeps
  <2>7. ASSUME NEW j \in Jobs, Age(j) \/ Damage(j)  PROVE JobsInv'
    BY <2>7, AgeKeeps, DamageKeeps
  <2> QED  BY <2>1, <2>4, <2>5, <2>6, <2>7 DEF JobsNext
<1> QED  BY <1>1, <1>2, PTL DEF JobsSpec

\* A process that executes a job keeps its lease, however long it is suspended
\* (run_registered takes job_lock before recover_stale).
THEOREM LiveOwnerKeepsLeaseHolds ==
  ASSUME JobsAssumption  PROVE  JobsSpec => []LiveOwnerKeepsLease
<1>1. JobsInv => LiveOwnerKeepsLease
  BY DEF JobsInv
<1> QED  BY <1>1, JobsInvariant, PTL

\* The types, and the correspondence of kernel locks and living calls.
THEOREM JobsTypeCorrect ==
  ASSUME JobsAssumption  PROVE  JobsSpec => []JobsTypeOK
<1>1. JobsInv => JobsTypeOK
  BY DEF JobsInv, JobsTypes, LockedWhileAlive, JobsTypeOK
<1> QED  BY <1>1, JobsInvariant, PTL

\* A row becomes COMPLETED only by the process that verified the evidence.
LEMMA OnlyFinishCompletes ==
  ASSUME JobsInv, [JobsNext]_jobsVars, NEW j \in Jobs, stage[j] # "done", stage'[j] = "done"
  PROVE  \E p \in Processes : pc[p] = "finishing" /\ job[p] = j
<1>1. ASSUME NEW p \in Processes, Continue(p), ~Finish(p)  PROVE FALSE
  <2>1. CASE Recover(p)
    BY <2>1 DEF Recover, Expire, Jobs, JobsInv, JobsTypes
  <2>2. CASE Submit(p)
    BY <2>2 DEF Submit, Enqueue, Move, JobsInv, JobsTypes
  <2>3. CASE Claim(p)
    BY <2>3 DEF Claim, Lease, Move, JobsInv, JobsTypes
  <2>4. CASE RunJob(p) \/ Verify(p) \/ Reuse(p)
    BY <2>4 DEF RunJob, ReadCheckpoint, SaveBackend, NextImage, AllImages, WritePaired, StoreRows,
       WriteSummary, Verify, Reuse, leaseVars
  <2>5. CASE Import(p)
    BY <2>5 DEF Import, ReadTarget, WriteTarget, EndSeeding, Refused, leaseVars
  <2> QED  BY <1>1, <2>1, <2>2, <2>3, <2>4, <2>5 DEF Continue
<1>2. ASSUME NEW p \in Processes, Renew(p) \/ Raise(p) \/ Die(p)  PROVE FALSE
  BY <1>2 DEF Renew, Raise, Die, leaseVars
<1>3. ASSUME NEW p \in Processes, NEW i \in Jobs, StartSeeding(p, i) \/ Start(p, i)  PROVE FALSE
  BY <1>3 DEF StartSeeding, Start, Enter, leaseVars
<1>4. ASSUME NEW i \in Jobs, Age(i) \/ Damage(i)  PROVE FALSE
  BY <1>4 DEF Age, Damage, leaseVars
<1>5. PICK p \in Processes : Finish(p)
  BY <1>1, <1>2, <1>3, <1>4 DEF JobsNext, jobsVars
<1>6. pc[p] = "finishing" /\ job[p] = j
  BY <1>5 DEF Finish, Complete, Fail, Move, JobsInv, JobsTypes
<1> QED  BY <1>6

\* A row becomes COMPLETED only over evidence that was whole and rows that are
\* stored (checked_executor of run_registered).
THEOREM CompletionIsBackedHolds ==
  ASSUME JobsAssumption  PROVE  JobsSpec => CompletionIsBacked
<1> DEFINE Backed == \A j \in Jobs : stage[j] # "done" /\ stage'[j] = "done" => whole[j] /\ rows[j]
<1>1. JobsInv /\ [JobsNext]_jobsVars => [Backed]_jobsVars
  BY OnlyFinishCompletes DEF JobsInv, CallInv, RowsAreStored, FinishingIsBacked
<1> QED  BY <1>1, JobsInvariant, PTL DEF JobsSpec, CompletionIsBacked

\* Which calls can answer COMPLETED.
LEMMA OnlyTheseAnswer ==
  ASSUME JobsInv, [JobsNext]_jobsVars, NEW p \in Processes,
         pc[p] # "off", pc'[p] = "off", answer'[p] = "COMPLETED"
  PROVE  pc[p] = "finishing" \/ (pc[p] = "reusing" /\ Intact(job[p]))
<1>1. ASSUME NEW q \in Processes, Recover(q) \/ Claim(q) \/ Verify(q)  PROVE FALSE
  BY <1>1 DEF Recover, Claim, Verify, Goto, JobsInv, JobsTypes
<1>2. ASSUME NEW q \in Processes, RunJob(q)  PROVE FALSE
  BY <1>2 DEF RunJob, ReadCheckpoint, SaveBackend, NextImage, AllImages, WritePaired, StoreRows,
     WriteSummary, Goto, JobsInv, JobsTypes
<1>3. ASSUME NEW q \in Processes, Import(q)  PROVE FALSE
  BY <1>3 DEF Import, ReadTarget, WriteTarget, EndSeeding, Refused, Goto, Return, JobsInv, JobsTypes
<1>4. ASSUME NEW q \in Processes, Renew(q) \/ Raise(q)  PROVE FALSE
  BY <1>4 DEF Renew, Raise, callVars, JobsInv, JobsTypes
<1>5. ASSUME NEW q \in Processes, NEW j \in Jobs, StartSeeding(q, j) \/ Start(q, j)  PROVE FALSE
  BY <1>5 DEF StartSeeding, Start, Enter, JobsInv, JobsTypes
<1>6. ASSUME NEW j \in Jobs, Age(j) \/ Damage(j)  PROVE FALSE
  BY <1>6 DEF Age, Damage, callVars
<1>7. PICK q \in Processes : Submit(q) \/ Reuse(q) \/ Finish(q) \/ Die(q)
  BY <1>1, <1>2, <1>3, <1>4, <1>5, <1>6 DEF JobsNext, Continue, jobsVars
<1>8. q = p
  BY <1>7 DEF Submit, Reuse, Finish, Die, Return, Goto, JobsInv, JobsTypes
<1>9. ~Submit(p) /\ ~Die(p)
  BY DEF Submit, Die, Return, Goto, JobsInv, JobsTypes
<1> QED  BY <1>7, <1>8, <1>9 DEF Reuse, Finish, Return, JobsInv, JobsTypes

\* run_registered answers COMPLETED, for a run of its own or an earlier one,
\* only if the evidence was whole during the call.
THEOREM CompletedAnswersAreBackedHolds ==
  ASSUME JobsAssumption  PROVE  JobsSpec => CompletedAnswersAreBacked
<1> DEFINE Backed == \A p \in Processes :
             pc[p] # "off" /\ pc'[p] = "off" /\ answer'[p] = "COMPLETED" => whole[job[p]]
<1>1. JobsInv /\ [JobsNext]_jobsVars => [Backed]_jobsVars
  BY OnlyTheseAnswer DEF JobsInv, CallInv, SeenPoints, EvidenceWasSeen, FinishingIsBacked
<1> QED  BY <1>1, JobsInvariant, PTL DEF JobsSpec, CompletedAnswersAreBacked

\* A corrupt checkpoint is replaced by no process but one that still holds what
\* it read of it before (checkpoint and save_checkpoint of screening.py; target
\* and merged of seed_pilot).
THEOREM CorruptRecordsStayHolds ==
  ASSUME JobsAssumption  PROVE  JobsSpec => CorruptRecordsStay
<1> DEFINE Stay == \A j \in Jobs, i \in 1..Images :
             records[j][i] = Corrupt =>
               \/ records'[j][i] = Corrupt
               \/ \E p \in Processes : Holds(p, j, i) /\ stored[p] > 0
<1>1. JobsInv /\ [JobsNext]_jobsVars => [Stay]_jobsVars
  <2> SUFFICES ASSUME JobsInv, [JobsNext]_jobsVars, NEW j \in Jobs, NEW i \in 1..Images,
                      records[j][i] = Corrupt, records'[j][i] # Corrupt
               PROVE  \E p \in Processes : Holds(p, j, i) /\ stored[p] > 0
    OBVIOUS
  <2>0. records \in [Jobs -> [1..Images -> Contents]] /\ Corrupt \notin Nat
    BY DEF JobsAssumption, JobsInv, JobsTypes
  <2>1. ASSUME NEW p \in Processes, NEW n \in Contents, pc[p] \in {"extending", "merging"},
               records' = [records EXCEPT ![job[p]][at[p]] = n]
        PROVE  Holds(p, j, i) /\ stored[p] > 0
    <3>1. /\ job[p] \in Jobs /\ at[p] \in 1..Images /\ stored[p] \in 0..Backends
          /\ stored[p] = 0 => records[job[p]][at[p]] = 0
      BY <2>1 DEF JobsInv, JobsTypes, CallInv, MissingStaysMissing
    <3>2. j = job[p] /\ i = at[p]
      BY <2>0, <2>1, <3>1, OneCheckpoint
    <3>3. stored[p] # 0
      BY <2>0, <3>1, <3>2
    <3> QED  BY <2>1, <3>1, <3>2, <3>3 DEF JobsAssumption, Holds
  <2>2. CASE UNCHANGED records
    BY <2>2
  <2>3. ASSUME NEW p \in Processes, SaveBackend(p)
        PROVE  Holds(p, j, i) /\ stored[p] > 0
    <3>1. stored[p] + 1 \in Contents
      BY <2>3 DEF JobsAssumption, JobsInv, JobsTypes, Contents, SaveBackend
    <3> QED  BY <2>1, <2>3, <3>1 DEF SaveBackend
  <2>4. ASSUME NEW p \in Processes, WriteTarget(p)
        PROVE  Holds(p, j, i) /\ stored[p] > 0
    <3>1. PICK n \in (stored[p] + 1)..Backends : records' = [records EXCEPT ![job[p]][at[p]] = n]
      BY <2>4 DEF WriteTarget
    <3>2. n \in Contents /\ pc[p] = "merging"
      BY <2>4 DEF JobsAssumption, JobsInv, JobsTypes, Contents, WriteTarget, Goto
    <3> QED  BY <2>1, <3>1, <3>2
  <2>5. ASSUME NEW k \in Jobs, Damage(k)  PROVE FALSE
    BY <2>0, <2>5, DamagedRecords DEF JobsAssumption
  <2>6. ASSUME NEW p \in Processes, Continue(p), ~SaveBackend(p), ~WriteTarget(p)
        PROVE  UNCHANGED records
    BY <2>6 DEF Continue, Import, ReadTarget, EndSeeding, Refused, RunJob, ReadCheckpoint, NextImage,
       AllImages, WritePaired, StoreRows, WriteSummary, Recover, Submit, Reuse, Claim, Verify, Finish,
       fileVars
  <2>7. ASSUME NEW p \in Processes, Renew(p) \/ Raise(p) \/ Die(p)  PROVE UNCHANGED records
    BY <2>7 DEF Renew, Raise, Die, fileVars
  <2>8. ASSUME NEW p \in Processes, NEW k \in Jobs, StartSeeding(p, k) \/ Start(p, k)
        PROVE  UNCHANGED records
    BY <2>8 DEF StartSeeding, Start, Enter, fileVars
  <2>9. ASSUME NEW k \in Jobs, Age(k)  PROVE UNCHANGED records
    BY <2>9 DEF Age, fileVars
  <2> QED  BY <2>2, <2>3, <2>4, <2>5, <2>6, <2>7, <2>8, <2>9 DEF JobsNext, jobsVars
<1> QED  BY <1>1, JobsInvariant, PTL DEF JobsSpec, CorruptRecordsStay

=============================================================================
