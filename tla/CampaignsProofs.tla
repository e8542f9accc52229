---------------------------- MODULE CampaignsProofs ----------------------------
(* Proofs about the campaigns for every set of jobs, cases, budgets and     *)
(* bounds: the order of the studies; that the lease leaves the machine to   *)
(* one campaign at a time; the budget of the bridge; and, of the            *)
(* useful-quality study, the counterparts of its images, the truth of its   *)
(* status and its allowance.                                                *)
EXTENDS Campaigns, SequenceTheorems, SumLaws, TLAPS

-----------------------------------------------------------------------------
(* The order of the studies *)

AllSealed(s) == \A j \in StudyJobs[s] : Job(s, j) \in sealed

ChainDomains ==
  /\ DOMAIN phase = Studies /\ DOMAIN status = Studies
  /\ DOMAIN todo = Studies /\ DOMAIN failed = Studies

\* Whom a study trusts has sealed everything: by its status file, from the
\* moment the study goes on, and as long as one of its workers lives.
TrustIsBacked ==
  \A s \in Studies :
    /\ status[s] = "completed" => AllSealed(s)
    /\ s # e1 /\ phase[s] \in {"acquiring", "holding", "closing"} => AllSealed(Before(s))
    /\ s # e1 /\ (\E j \in StudyJobs[s] : Job(s, j) \in live) => AllSealed(Before(s))

\* A run accounts for every job of its study.
JobsAccounted ==
  \A s \in Studies : phase[s] = "holding" =>
    \A j \in StudyJobs[s] :
      j \in todo[s] \/ j \in failed[s] \/ Job(s, j) \in own \/ Job(s, j) \in sealed

OrderInv == ChainDomains /\ TrustIsBacked /\ JobsAccounted

LEMMA StudiesAreThree ==
  /\ e1 \in Studies /\ main \in Studies /\ ternary \in Studies
  /\ \A s \in Studies : s # e1 => Before(s) \in Studies
  BY DEF Studies, e1, main, ternary, Before

LEMMA JobsDiffer ==
  ASSUME NEW s, NEW t, NEW j, NEW k, Job(s, j) = Job(t, k)
  PROVE  s = t /\ j = k
  BY DEF Job, Worker

LEMMA OrderInitially == ChainInit => OrderInv
  BY DEF ChainInit, OrderInv, ChainDomains, TrustIsBacked, JobsAccounted, Studies

\* Steps that seal nothing less, start nothing and complete nothing.
LEMMA QuietStep ==
  ASSUME OrderInv, ChainDomains',
         sealed \subseteq sealed',
         \A s \in Studies : \A j \in StudyJobs[s] : Job(s, j) \in live' => Job(s, j) \in live,
         \A s \in Studies : status'[s] = "completed" => status[s] = "completed",
         \A s \in Studies : phase'[s] \in {"acquiring", "holding", "closing"} =>
           phase[s] \in {"acquiring", "holding", "closing"},
         \A s \in Studies : phase'[s] = "holding" =>
           /\ phase[s] = "holding"
           /\ \A j \in StudyJobs[s] :
                j \in todo[s] \/ j \in failed[s] \/ Job(s, j) \in own \/ Job(s, j) \in sealed
                => j \in todo'[s] \/ j \in failed'[s] \/ Job(s, j) \in own' \/ Job(s, j) \in sealed'
  PROVE  OrderInv'
<1>1. TrustIsBacked'
  BY StudiesAreThree DEF OrderInv, TrustIsBacked, AllSealed
<1>2. JobsAccounted'
  BY DEF OrderInv, JobsAccounted
<1>. QED
  BY <1>1, <1>2 DEF OrderInv

LEMMA OrderKept == OrderInv /\ ChainNext => OrderInv'
<1>. SUFFICES ASSUME OrderInv, ChainNext
     PROVE  OrderInv'
  OBVIOUS
<1>. USE StudiesAreThree DEF ChainDomains
<1>0. ChainDomains /\ TrustIsBacked /\ JobsAccounted
  BY DEF OrderInv
<1>1. ASSUME NEW s \in Studies, StartStudy(s) \/ Enter(s)
      PROVE  OrderInv'
  <2>1. ChainDomains'
    BY <1>0, <1>1 DEF StartStudy, Enter, Spawn
  <2>. QED
    BY <1>0, <1>1, <2>1, QuietStep DEF StartStudy, Enter, Spawn
<1>2. ASSUME NEW s \in Studies, Look(s)
      PROVE  OrderInv'
  <2>1. ChainDomains'
    BY <1>0, <1>2 DEF Look, EndsAs
  <2>2. CASE Prior(s) = "completed" /\ phase' = [phase EXCEPT ![s] = "acquiring"] /\ status' = status
    <3>1. s # e1 => AllSealed(Before(s))
      BY <1>0, <2>2 DEF Prior, TrustIsBacked
    <3>2. TrustIsBacked'
      BY <1>0, <1>2, <2>2, <3>1 DEF Look, TrustIsBacked, AllSealed
    <3>3. JobsAccounted'
      BY <1>0, <1>2, <2>2 DEF Look, JobsAccounted
    <3>. QED
      BY <2>1, <3>2, <3>3 DEF OrderInv
  <2>3. CASE EndsAs(s, "failed")
    BY <1>0, <1>2, <2>1, <2>3, QuietStep DEF Look, EndsAs
  <2>. QED
    BY <1>2, <2>2, <2>3 DEF Look
<1>3. ASSUME NEW s \in Studies, Acquire(s)
      PROVE  OrderInv'
  <2>1. ChainDomains'
    BY <1>0, <1>3 DEF Acquire, EndsAs
  <2>2. TrustIsBacked'
    BY <1>0, <1>3 DEF Acquire, EndsAs, TrustIsBacked, AllSealed
  <2>3. JobsAccounted'
    BY <1>0, <1>3 DEF Acquire, EndsAs, JobsAccounted
  <2>. QED
    BY <2>1, <2>2, <2>3 DEF OrderInv
<1>4. ASSUME NEW s \in Studies, NEW j \in StudyJobs[s], Dispatch(s, j)
      PROVE  OrderInv'
  <2>1. ChainDomains'
    BY <1>0, <1>4 DEF Dispatch
  <2>2. TrustIsBacked'
    BY <1>0, <1>4, JobsDiffer DEF Dispatch, TrustIsBacked, AllSealed
  <2>3. JobsAccounted'
    BY <1>0, <1>4 DEF Dispatch, JobsAccounted
  <2>. QED
    BY <2>1, <2>2, <2>3 DEF OrderInv
<1>5. ASSUME NEW s \in Studies, NEW j \in StudyJobs[s], NEW ok \in BOOLEAN, WorkerEnds(s, j, ok)
      PROVE  OrderInv'
  <2>1. ChainDomains'
    BY <1>0, <1>5 DEF WorkerEnds
  <2>2. \A t \in Studies : \A k \in StudyJobs[t] :
          k \in failed[t] \/ Job(t, k) \in own \/ Job(t, k) \in sealed
          => k \in failed'[t] \/ Job(t, k) \in own' \/ Job(t, k) \in sealed'
    BY <1>0, <1>5, JobsDiffer DEF WorkerEnds
  <2>. QED
    BY <1>0, <1>5, <2>1, <2>2, QuietStep DEF WorkerEnds
<1>6. ASSUME NEW s \in Studies, Conclude(s)
      PROVE  OrderInv'
  <2>1. ChainDomains'
    BY <1>0, <1>6 DEF Conclude
  <2>2. failed[s] = {} => AllSealed(s)
    <3>1. \A j \in StudyJobs[s] : Job(s, j) \notin own
      BY <1>6 DEF Conclude, OwnJobs, Job, Worker
    <3>. QED
      BY <1>0, <1>6, <3>1 DEF Conclude, JobsAccounted, AllSealed
  <2>3. TrustIsBacked'
    BY <1>0, <1>6, <2>2 DEF Conclude, TrustIsBacked, AllSealed
  <2>4. JobsAccounted'
    BY <1>0, <1>6 DEF Conclude, JobsAccounted
  <2>. QED
    BY <2>1, <2>3, <2>4 DEF OrderInv
<1>7. ASSUME NEW s \in Studies, Release(s)
      PROVE  OrderInv'
  <2>1. ChainDomains'
    BY <1>0, <1>7 DEF Release
  <2>. QED
    BY <1>0, <1>7, <2>1, QuietStep DEF Release
<1>8. ASSUME NEW s \in Studies, KillStudy(s)
      PROVE  OrderInv'
  <2>1. ChainDomains'
    BY <1>0, <1>8 DEF KillStudy
  <2>2. \A t \in Studies \ {s} : \A k \in StudyJobs[t] : Job(t, k) \in own => Job(t, k) \in own'
    BY <1>8 DEF KillStudy, OwnJobs, Job, Worker
  <2>. QED
    BY <1>0, <1>8, <2>1, <2>2, QuietStep DEF KillStudy
<1>9. CASE TerminateMain
  <2>1. ChainDomains'
    BY <1>0, <1>9 DEF TerminateMain
  <2>2. \A t \in Studies \ {main} : \A k \in StudyJobs[t] : Job(t, k) \in own => Job(t, k) \in own'
    BY <1>9 DEF TerminateMain, OwnJobs, Job, Worker
  <2>. QED
    BY <1>0, <1>9, <2>1, <2>2, QuietStep DEF TerminateMain
<1>10. CASE RestartMain \/ GiveUp
  <2>1. ChainDomains'
    BY <1>0, <1>10 DEF RestartMain, GiveUp
  <2>. QED
    BY <1>0, <1>10, <2>1, QuietStep DEF RestartMain, GiveUp
<1>. QED
  BY <1>1, <1>2, <1>3, <1>4, <1>5, <1>6, <1>7, <1>8, <1>9, <1>10 DEF ChainNext

\* A step of another campaign, or none, leaves the chain alone.
LEMMA OrderUntouched == OrderInv /\ UNCHANGED chainVars => OrderInv'
  BY DEF OrderInv, ChainDomains, TrustIsBacked, JobsAccounted, AllSealed, chainVars

\* StudiesInOrder for every set of jobs, bound and mixture of campaigns: a
\* study computes only on what the one before has sealed, however runs of
\* both were killed, restarted or failed.
THEOREM StudiesKeepTheirOrder == CampaignsSpec => []StudiesInOrder
<1>1. OrderInv => StudiesInOrder
  BY DEF OrderInv, TrustIsBacked, StudiesInOrder, AllSealed
<1>2. CampaignsInit => OrderInv
  BY OrderInitially DEF CampaignsInit
<1>3. OrderInv /\ [CampaignsNext]_campaignVars => OrderInv'
  BY OrderKept, OrderUntouched
     DEF CampaignsNext, ChainStep, BridgeStep, QualityStep, campaignVars
<1>. QED
  BY <1>1, <1>2, <1>3, PTL DEF CampaignsSpec

-----------------------------------------------------------------------------
(* The lease *)

OneUser == \A g, h \in holders : g[1] = h[1]

ChainHeld ==
  /\ DOMAIN phase = Studies
  /\ own \subseteq live /\ live \subseteq holders
  /\ \A w \in live : w[1] \in Studies /\ w[2] = "worker"
  /\ \A s \in Studies : phase[s] \in {"holding", "closing"} =>
       Controller(s) \in holders /\ live = own

WorkerStates == {"none", "starting", "running", "passed", "failed", "killed"}

AttemptRecord ==
  [reserved : Nat, elapsed : Nat, worked : Nat, worker : WorkerStates, settled : BOOLEAN,
   charged : Nat]

BridgeHeld ==
  /\ attempts \in Seq(AttemptRecord)
  /\ bridge # "down" => Controller(scaled) \in holders
  /\ bridge \in {"reserved", "waiting"} => Newest \in DOMAIN attempts
  /\ \A i \in DOMAIN attempts : Alive(i) => Attempt(i) \in holders

QualityHeld ==
  /\ DOMAIN tasks = Rows
  /\ \A r \in Rows : "state" \in DOMAIN tasks[r]
  /\ quality # "down" => Controller(study) \in holders
  /\ \A r \in Rows : Live(r) => Process(r) \in holders

\* Who commands or computes has the descriptors, and they are one campaign's.
LeaseInv == OneUser /\ ChainHeld /\ BridgeHeld /\ QualityHeld

LEMMA UsersDiffer == scaled \notin Studies /\ study \notin Studies /\ scaled # study
  BY DEF scaled, study, Studies, e1, main, ternary

LEMMA ProcessesDiffer ==
  ASSUME NEW q \in Rows, NEW r \in Rows, Process(q) = Process(r)
  PROVE  q = r
  BY DEF Process, Worker, Rows, CaseOf

LEMMA LeaseInitially == CampaignsInit => LeaseInv
<1>. SUFFICES ASSUME CampaignsInit
     PROVE  LeaseInv
  OBVIOUS
<1>1. OneUser
  BY DEF CampaignsInit, OneUser
<1>2. ChainHeld
  BY DEF CampaignsInit, ChainInit, ChainHeld
<1>3. BridgeHeld
  BY DEF CampaignsInit, BridgeInit, BridgeHeld
<1>4. QualityHeld
  BY DEF CampaignsInit, QualityInit, QualityHeld, Idle, Live
<1>. QED
  BY <1>1, <1>2, <1>3, <1>4 DEF LeaseInv

\* The chain.
LEMMA ChainKeepsLease ==
  OneUser /\ ChainHeld /\ ChainNext =>
    /\ OneUser' /\ ChainHeld'
    /\ \A h \in holders : h[1] \notin Studies => h \in holders'
<1>. DEFINE Kept == \A h \in holders : h[1] \notin Studies => h \in holders'
<1>. SUFFICES ASSUME OneUser, ChainHeld, ChainNext
     PROVE  OneUser' /\ ChainHeld' /\ Kept
  OBVIOUS
<1>. USE StudiesAreThree DEF OneUser, ChainHeld
<1>1. ASSUME NEW s \in Studies, StartStudy(s) \/ Enter(s) \/ Look(s) \/ Conclude(s)
      PROVE  OneUser' /\ ChainHeld' /\ Kept
  BY <1>1 DEF StartStudy, Spawn, Enter, Look, EndsAs, Conclude
<1>2. ASSUME NEW s \in Studies, Acquire(s)
      PROVE  OneUser' /\ ChainHeld' /\ Kept
  BY <1>2 DEF Acquire, EndsAs, LeaseFree, Controller
<1>3. ASSUME NEW s \in Studies, NEW j \in StudyJobs[s], Dispatch(s, j)
      PROVE  OneUser' /\ ChainHeld' /\ Kept
  <2>1. Controller(s) \in holders /\ live = own /\ \A h \in holders : h[1] = s
    BY <1>3 DEF Dispatch, Controller
  <2>2. Job(s, j)[1] = s /\ Job(s, j)[2] = "worker"
    BY DEF Job, Worker
  <2>. QED
    BY <1>3, <2>1, <2>2 DEF Dispatch
<1>4. ASSUME NEW s \in Studies, NEW j \in StudyJobs[s], NEW ok \in BOOLEAN, WorkerEnds(s, j, ok)
      PROVE  OneUser' /\ ChainHeld' /\ Kept
  BY <1>4 DEF WorkerEnds, Job, Worker, Controller
<1>5. ASSUME NEW s \in Studies, Release(s)
      PROVE  OneUser' /\ ChainHeld' /\ Kept
  BY <1>5 DEF Release, Controller
<1>6. ASSUME NEW s \in Studies, KillStudy(s)
      PROVE  OneUser' /\ ChainHeld' /\ Kept
  BY <1>6 DEF KillStudy, OwnJobs, Controller
<1>7. CASE TerminateMain
  BY <1>7 DEF TerminateMain, OwnJobs, Controller
<1>8. CASE RestartMain \/ GiveUp
  BY <1>8 DEF RestartMain, Spawn, GiveUp
<1>. QED
  BY <1>1, <1>2, <1>3, <1>4, <1>5, <1>6, <1>7, <1>8 DEF ChainNext

\* The bridge.
LEMMA NewAttempt ==
  ASSUME NEW r \in Nat
  PROVE  [reserved |-> r, elapsed |-> 0, worked |-> 0,
          worker |-> "none", settled |-> FALSE, charged |-> 0] \in AttemptRecord
  BY DEF AttemptRecord, WorkerStates

LEMMA WorkerChanges ==
  ASSUME NEW a \in AttemptRecord, NEW w \in WorkerStates
  PROVE  [a EXCEPT !.worker = w] \in AttemptRecord /\ [a EXCEPT !.worker = w].worker = w
<1>1. [a EXCEPT !.worker = w] \in AttemptRecord
  BY DEF AttemptRecord
<1>2. [a EXCEPT !.worker = w].worker = w
  BY DEF AttemptRecord
<1>. QED
  BY <1>1, <1>2

LEMMA AttemptSettles ==
  ASSUME NEW a \in AttemptRecord, NEW n \in Nat
  PROVE  /\ [a EXCEPT !.settled = TRUE, !.charged = n] \in AttemptRecord
         /\ [a EXCEPT !.settled = TRUE, !.charged = n].worker = a.worker
<1>. DEFINE b == [a EXCEPT !.settled = TRUE]
<1>1. b \in AttemptRecord /\ b.worker = a.worker
  BY DEF AttemptRecord
<1>2. [a EXCEPT !.settled = TRUE, !.charged = n] = [b EXCEPT !.charged = n]
  OBVIOUS
<1>. HIDE DEF b
<1>3. [b EXCEPT !.charged = n] \in AttemptRecord
  BY <1>1 DEF AttemptRecord
<1>4. [b EXCEPT !.charged = n].worker = b.worker
  BY <1>1 DEF AttemptRecord
<1>. QED
  BY <1>1, <1>2, <1>3, <1>4

LEMMA AttemptAges ==
  ASSUME NEW a \in AttemptRecord, NEW n \in Nat
  PROVE  /\ [a EXCEPT !.elapsed = @ + 1, !.worked = n] \in AttemptRecord
         /\ [a EXCEPT !.elapsed = @ + 1, !.worked = n].worker = a.worker
<1>. DEFINE b == [a EXCEPT !.elapsed = a.elapsed + 1]
<1>1. b \in AttemptRecord /\ b.worker = a.worker
  BY DEF AttemptRecord
<1>2. [a EXCEPT !.elapsed = @ + 1, !.worked = n] = [b EXCEPT !.worked = n]
  BY DEF AttemptRecord
<1>. HIDE DEF b
<1>3. [b EXCEPT !.worked = n] \in AttemptRecord
  BY <1>1 DEF AttemptRecord
<1>4. [b EXCEPT !.worked = n].worker = b.worker
  BY <1>1 DEF AttemptRecord
<1>. QED
  BY <1>1, <1>2, <1>3, <1>4

LEMMA AttemptReplaced ==
  ASSUME NEW as \in Seq(AttemptRecord), NEW i \in DOMAIN as, NEW a \in AttemptRecord
  PROVE  [as EXCEPT ![i] = a] \in Seq(AttemptRecord)
  BY ExceptSeq, LenProperties

LEMMA AttemptsReplaced ==
  ASSUME NEW as \in Seq(AttemptRecord), NEW bs,
         bs = [i \in DOMAIN as |-> bs[i]], \A i \in DOMAIN as : bs[i] \in AttemptRecord
  PROVE  bs \in Seq(AttemptRecord)
<1>1. DOMAIN as = 1..Len(as) /\ Len(as) \in Nat
  BY LenProperties
<1>2. bs \in [1..Len(as) -> AttemptRecord]
  BY <1>1
<1>. QED
  BY <1>1, <1>2, SeqDef

LEMMA SameInterval ==
  ASSUME NEW m \in Nat, NEW n \in Nat, 1..m = 1..n
  PROVE  m = n
<1>1. ASSUME m < n PROVE FALSE
  <2>1. n \in 1..n
    BY <1>1
  <2>2. n \notin 1..m
    BY <1>1
  <2>. QED
    BY <2>1, <2>2
<1>2. ASSUME n < m PROVE FALSE
  <2>1. m \in 1..m
    BY <1>2
  <2>2. m \notin 1..n
    BY <1>2
  <2>. QED
    BY <2>1, <2>2
<1>. QED
  BY <1>1, <1>2

LEMMA SameLength ==
  ASSUME NEW as \in Seq(AttemptRecord), NEW bs \in Seq(AttemptRecord), DOMAIN as = DOMAIN bs
  PROVE  Len(as) = Len(bs)
<1>1. /\ Len(as) \in Nat /\ Len(bs) \in Nat
      /\ 1..Len(as) = 1..Len(bs)
  BY LenProperties
<1>. QED
  BY <1>1, SameInterval

LEMMA BridgeKeepsLease ==
  OneUser /\ BridgeHeld /\ BridgeNext =>
    /\ OneUser' /\ BridgeHeld'
    /\ \A h \in holders : h[1] # scaled => h \in holders'
<1>. DEFINE Kept == \A h \in holders : h[1] # scaled => h \in holders'
            Goal == OneUser' /\ BridgeHeld' /\ Kept
<1>. SUFFICES ASSUME OneUser, BridgeHeld, BridgeNext
     PROVE  Goal
  OBVIOUS
<1>. USE BridgeAssumption DEF OneUser
<1>0. /\ attempts \in Seq(AttemptRecord)
      /\ \A i \in DOMAIN attempts : attempts[i] \in AttemptRecord
  BY ElementOfSeq, LenProperties DEF BridgeHeld
<1>names. /\ \A i : Attempt(i)[1] = scaled /\ Attempt(i) # Controller(scaled)
          /\ \A i, k : Attempt(i) = Attempt(k) => i = k
          /\ Controller(scaled)[1] = scaled
  BY DEF Attempt, Worker, Controller
<1>1. CASE StartBridge
  BY <1>1, <1>names DEF StartBridge, LeaseFree, BridgeHeld, Alive
<1>2. ASSUME NEW r \in Reservations, Reserve(r)
      PROVE  Goal
  <2>. DEFINE new == [reserved |-> r, elapsed |-> 0, worked |-> 0,
                      worker |-> "none", settled |-> FALSE, charged |-> 0]
  <2>1. new \in AttemptRecord /\ new.worker = "none"
    BY NewAttempt
  <2>2. attempts' = Append(attempts, new)
    BY <1>2 DEF Reserve
  <2>. HIDE DEF new
  <2>3. attempts' \in Seq(AttemptRecord)
    BY <1>0, <2>1, <2>2
  <2>4. \A i \in DOMAIN attempts' : Alive(i)' => i \in DOMAIN attempts /\ Alive(i)
    BY <1>0, <2>1, <2>2, AppendProperties, LenProperties DEF Alive
  <2>5. Newest' \in DOMAIN attempts'
    BY <1>0, <2>1, <2>2, <2>3, AppendProperties, LenProperties DEF Newest
  <2>. QED
    BY <1>2, <2>3, <2>4, <2>5 DEF Reserve, BridgeHeld
<1>3. CASE Launch
  <2>. DEFINE new == [attempts[Newest] EXCEPT !.worker = "starting"]
  <2>1. Newest \in DOMAIN attempts
    BY <1>3 DEF Launch, BridgeHeld
  <2>2. "starting" \in WorkerStates
    BY DEF WorkerStates
  <2>3. new \in AttemptRecord
    BY <1>0, <2>1, <2>2, WorkerChanges
  <2>4. attempts' = [attempts EXCEPT ![Newest] = new]
    BY <1>3 DEF Launch
  <2>. HIDE DEF new
  <2>5. attempts' \in Seq(AttemptRecord) /\ DOMAIN attempts' = DOMAIN attempts /\ Newest' = Newest
    BY <1>0, <2>1, <2>3, <2>4, AttemptReplaced, ExceptSeq, LenProperties DEF Newest
  <2>. QED
    BY <1>3, <1>names, <2>1, <2>4, <2>5 DEF Launch, BridgeHeld, Alive
<1>4. ASSUME NEW i \in DOMAIN attempts, Validate(i)
      PROVE  Goal
  <2>1. PICK w \in {"running", "failed"} :
          attempts' = [attempts EXCEPT ![i] = [attempts[i] EXCEPT !.worker = w]]
          /\ (w = "failed" \/ holders' = holders)
    BY <1>4 DEF Validate
  <2>. DEFINE new == [attempts[i] EXCEPT !.worker = w]
  <2>2. w \in WorkerStates
    BY <2>1 DEF WorkerStates
  <2>5. new \in AttemptRecord /\ new.worker = w
    BY <1>0, <2>2, WorkerChanges
  <2>. HIDE DEF new
  <2>3. attempts' \in Seq(AttemptRecord)
    BY <1>0, <2>1, <2>5, AttemptReplaced DEF new
  <2>4. /\ DOMAIN attempts' = DOMAIN attempts
        /\ \A k \in DOMAIN attempts : Alive(k)' => Alive(k) /\ (k # i \/ holders' = holders)
    BY <1>0, <1>4, <2>1, <2>5 DEF Alive, Validate, new
  <2>6. Newest' = Newest
    BY <1>0, <2>3, <2>4, SameLength DEF Newest
  <2>. QED
    BY <1>4, <1>names, <2>3, <2>4, <2>6 DEF Validate, BridgeHeld
<1>5. CASE Tick
  <2>1. \A i \in DOMAIN attempts : attempts'[i] \in AttemptRecord /\ attempts'[i].worker = attempts[i].worker
    <3>. TAKE i \in DOMAIN attempts
    <3>1. attempts[i].worked \in Nat /\ attempts[i].worked + 1 \in Nat
      BY <1>0 DEF AttemptRecord
    <3>. QED
      BY <1>0, <1>5, <3>1, AttemptAges DEF Tick
  <2>2. DOMAIN attempts' = DOMAIN attempts /\ attempts' = [i \in DOMAIN attempts |-> attempts'[i]]
    BY <1>5 DEF Tick
  <2>3. attempts' \in Seq(AttemptRecord)
    BY <1>0, <2>1, <2>2, AttemptsReplaced
  <2>4. Newest' = Newest
    BY <1>0, <2>2, <2>3, SameLength DEF Newest
  <2>. QED
    BY <1>5, <2>1, <2>2, <2>3, <2>4 DEF Tick, BridgeHeld, Alive
<1>6. ASSUME NEW i \in DOMAIN attempts, NEW how \in {"passed", "failed", "killed"},
             AttemptEnds(i, how)
      PROVE  Goal
  <2>. DEFINE new == [attempts[i] EXCEPT !.worker = how]
  <2>0. how \in WorkerStates
    BY DEF WorkerStates
  <2>1. new \in AttemptRecord /\ new.worker = how
    BY <1>0, <2>0, WorkerChanges
  <2>2. attempts' = [attempts EXCEPT ![i] = new]
    BY <1>6 DEF AttemptEnds
  <2>. HIDE DEF new
  <2>3. attempts' \in Seq(AttemptRecord)
    BY <1>0, <2>1, <2>2, AttemptReplaced
  <2>4. /\ DOMAIN attempts' = DOMAIN attempts
        /\ \A k \in DOMAIN attempts : Alive(k)' => k # i /\ Alive(k)
    BY <1>0, <2>1, <2>2 DEF Alive
  <2>5. Newest' = Newest
    BY <1>0, <2>3, <2>4, SameLength DEF Newest
  <2>. QED
    BY <1>6, <1>names, <2>3, <2>4, <2>5 DEF AttemptEnds, BridgeHeld
<1>7. CASE Settle
  <2>. DEFINE i == Newest
  <2>1. i \in DOMAIN attempts
    BY <1>7 DEF Settle, BridgeHeld
  <2>2. attempts[i].elapsed \in Nat /\ attempts[i].reserved \in Nat
    BY <1>0, <2>1 DEF AttemptRecord
  <2>3. PICK n \in Nat :
          attempts' = [attempts EXCEPT ![i].settled = TRUE, ![i].charged = n]
    BY <1>7, <2>2 DEF Settle
  <2>. DEFINE new == [attempts[i] EXCEPT !.settled = TRUE, !.charged = n]
  <2>4. new \in AttemptRecord /\ new.worker = attempts[i].worker
    BY <1>0, <2>1, AttemptSettles
  <2>5. attempts' = [attempts EXCEPT ![i] = new]
    BY <2>1, <2>3
  <2>. HIDE DEF i, new
  <2>6. /\ attempts' \in Seq(AttemptRecord)
        /\ DOMAIN attempts' = DOMAIN attempts
        /\ \A k \in DOMAIN attempts : attempts'[k].worker = attempts[k].worker
    BY <1>0, <2>1, <2>4, <2>5, AttemptReplaced
  <2>. QED
    BY <1>7, <1>names, <2>6 DEF Settle, BridgeHeld, Alive
<1>8. CASE EndBridge \/ KillBridge
  BY <1>8, <1>names DEF EndBridge, KillBridge, BridgeHeld, Alive
<1>. QED
  BY <1>1, <1>2, <1>3, <1>4, <1>5, <1>6, <1>7, <1>8 DEF BridgeNext

\* The useful-quality study.
LEMMA QualityKeepsLease ==
  OneUser /\ QualityHeld /\ QualityNext =>
    /\ OneUser' /\ QualityHeld'
    /\ \A h \in holders : h[1] # study => h \in holders'
<1>. DEFINE Kept == \A h \in holders : h[1] # study => h \in holders'
            Goal == OneUser' /\ QualityHeld' /\ Kept
<1>. SUFFICES ASSUME OneUser, QualityHeld, QualityNext
     PROVE  Goal
  OBVIOUS
<1>names. /\ \A r : Process(r)[1] = study /\ Process(r) # Controller(study)
          /\ Controller(study)[1] = study
  BY DEF Process, Worker, Controller
<1>. USE <1>names DEF OneUser, QualityHeld, Live
<1>1. CASE StartQuality
  BY <1>1 DEF StartQuality, LeaseFree
<1>2. CASE SealGates \/ Count \/ Scan \/ Publish \/ Promote
  <2>1. quality # "down" /\ quality' # "down" /\ UNCHANGED <<tasks, holders>>
    <3>1. CASE SealGates
      BY <3>1 DEF SealGates
    <3>2. CASE Count \/ Scan
      BY <3>2 DEF Count, Scan
    <3>3. CASE Publish
      BY <3>3 DEF Publish
    <3>4. CASE Promote
      BY <3>4 DEF Promote
    <3>. QED
      BY <1>2, <3>1, <3>2, <3>3, <3>4
  <2>. QED
    BY <2>1
<1>dispatch. ASSUME quality # "down", NEW t, NEW cost, Dispatched(t, cost)
             PROVE  /\ OneUser' /\ Kept /\ DOMAIN tasks' = Rows
                    /\ \A r \in Rows : "state" \in DOMAIN tasks'[r]
                    /\ \A r \in Rows : Live(r)' => Process(r) \in holders'
                    /\ Controller(study) \in holders'
  BY <1>dispatch DEF Dispatched
<1>3. CASE Allocate
  BY <1>3, <1>dispatch DEF Allocate
<1>4. ASSUME NEW next, quality # "down", AfterWorkers(Finished, next)
      PROVE  Goal
  BY <1>4 DEF AfterWorkers, Idle
<1>5. CASE Collect \/ ExtensionEnds
  BY <1>4, <1>5 DEF Collect, ExtensionEnds
<1>6. CASE Extend
  BY <1>6, <1>dispatch DEF Extend
<1>7. CASE EndQuality
  BY <1>7 DEF EndQuality, Idle
<1>8. CASE KillQuality
  BY <1>8 DEF KillQuality, Idle
<1>9. ASSUME NEW r \in Rows, SealImage(r) \/ Elapse(r)
      PROVE  Goal
  BY <1>9 DEF SealImage, Elapse
<1>10. ASSUME NEW r \in Rows, NEW how \in {"passed", "failed", "late"}, WorkerReturns(r, how)
       PROVE  Goal
  <2>1. /\ DOMAIN tasks' = Rows
        /\ \A q \in Rows : "state" \in DOMAIN tasks'[q]
        /\ \A q \in Rows : Live(q)' => q # r /\ Live(q)
    BY <1>10 DEF WorkerReturns, Idle
  <2>2. \A q \in Rows : q # r => Process(q) # Process(r)
    BY ProcessesDiffer
  <2>. QED
    BY <1>10, <2>1, <2>2 DEF WorkerReturns
<1>. QED
  BY <1>1, <1>2, <1>3, <1>5, <1>6, <1>7, <1>8, <1>9, <1>10 DEF QualityNext

\* The campaigns together: a step of one touches its own descriptors only,
\* and takes the lease only when nobody has it.
LEMMA LeaseKept == LeaseInv /\ CampaignsNext => LeaseInv'
<1>. SUFFICES ASSUME LeaseInv, CampaignsNext
     PROVE  LeaseInv'
  OBVIOUS
<1>. USE UsersDiffer DEF LeaseInv
<1>chain. ASSUME UNCHANGED chainVars, \A h \in holders : h[1] \in Studies => h \in holders'
          PROVE  ChainHeld'
  <2>1. \A s \in Studies : Controller(s)[1] = s
    BY DEF Controller
  <2>. QED
    BY <1>chain, <2>1 DEF chainVars, ChainHeld
<1>bridge. ASSUME UNCHANGED bridgeVars, \A h \in holders : h[1] = scaled => h \in holders'
           PROVE  BridgeHeld'
  <2>1. Controller(scaled)[1] = scaled /\ \A i : Attempt(i)[1] = scaled
    BY DEF Controller, Attempt, Worker
  <2>. QED
    BY <1>bridge, <2>1 DEF bridgeVars, BridgeHeld, Alive, Newest
<1>quality. ASSUME UNCHANGED qualityVars, \A h \in holders : h[1] = study => h \in holders'
            PROVE  QualityHeld'
  <2>1. Controller(study)[1] = study /\ \A r : Process(r)[1] = study
    BY DEF Controller, Process, Worker
  <2>. QED
    BY <1>quality, <2>1 DEF qualityVars, QualityHeld, Live
<1>1. CASE ChainStep
  BY <1>1, <1>bridge, <1>quality, ChainKeepsLease DEF ChainStep
<1>2. CASE BridgeStep
  BY <1>2, <1>chain, <1>quality, BridgeKeepsLease DEF BridgeStep
<1>3. CASE QualityStep
  BY <1>3, <1>chain, <1>bridge, QualityKeepsLease DEF QualityStep
<1>. QED
  BY <1>1, <1>2, <1>3 DEF CampaignsNext

LEMMA LeaseUntouched == LeaseInv /\ UNCHANGED campaignVars => LeaseInv'
  BY DEF campaignVars, chainVars, bridgeVars, qualityVars, LeaseInv, OneUser, ChainHeld,
         BridgeHeld, QualityHeld, Alive, Live, Newest

\* OneCampaignComputes for every mixture of campaigns, set of jobs, budget
\* and bound: whoever commands or computes has the inherited descriptors.
THEOREM OneCampaignAtATime == CampaignsSpec => []OneCampaignComputes
<1>1. LeaseInv => OneCampaignComputes
  <2>. SUFFICES ASSUME LeaseInv
       PROVE  OneCampaignComputes
    OBVIOUS
  <2>1. \A a \in Computing \cup Commanding : \E h \in holders : h[1] = a
    BY DEF LeaseInv, ChainHeld, BridgeHeld, QualityHeld, Computing, Commanding, Alive,
           Controller, Attempt, Process, Worker
  <2>. QED
    BY <2>1 DEF LeaseInv, OneUser, ChainHeld, OneCampaignComputes
<1>2. LeaseInv /\ [CampaignsNext]_campaignVars => LeaseInv'
  BY LeaseKept, LeaseUntouched
<1>. QED
  BY <1>1, <1>2, LeaseInitially, PTL DEF CampaignsSpec

-----------------------------------------------------------------------------
(* The budget of the bridge *)

Ended == {"passed", "failed", "killed"}

\* A worker computes within its reservation, and what settles it covers it;
\* it is settled after its end.
AttemptFits(a) ==
  /\ a.worked <= a.elapsed /\ a.elapsed <= a.reserved
  /\ a.settled => a.worker \in Ended /\ a.worked <= a.charged /\ a.charged <= a.reserved

BudgetInv ==
  /\ attempts \in Seq(AttemptRecord)
  /\ \A i \in DOMAIN attempts : AttemptFits(attempts[i])
  /\ bridge \in {"reserved", "waiting"} => Newest \in DOMAIN attempts /\ ~attempts[Newest].settled
  /\ bridge = "waiting" => attempts[Newest].worker # "none"
  /\ Remaining(attempts) >= 0

LEMMA AttemptTypes ==
  ASSUME NEW as \in Seq(AttemptRecord)
  PROVE  /\ Len(as) \in Nat /\ DOMAIN as = 1..Len(as) /\ IsFiniteSet(DOMAIN as)
         /\ \A i \in DOMAIN as : /\ as[i] \in AttemptRecord /\ Charge(as[i]) \in Nat
                                /\ Charge(as[i]) \in Int
<1>1. Len(as) \in Nat /\ DOMAIN as = 1..Len(as)
  BY LenProperties
<1>2. IsFiniteSet(DOMAIN as)
  <2>1. PICK n \in Nat : DOMAIN as = 1..n
    BY <1>1
  <2>2. 1 \in Int /\ n \in Int
    OBVIOUS
  <2>3. IsFiniteSet(1..n)
    BY ONLY <2>2, FS_Interval
  <2>. QED
    BY <2>1, <2>3
<1>3. \A i \in DOMAIN as : as[i] \in AttemptRecord
  BY <1>1, ElementOfSeq
<1>4. \A a \in AttemptRecord : Charge(a) \in Nat /\ Charge(a) \in Int
  BY DEF Charge, AttemptRecord
<1>. QED
  BY <1>1, <1>2, <1>3, <1>4

LEMMA RemainingIsTotal ==
  ASSUME NEW as
  PROVE  Remaining(as) = Ceiling - Total([i \in DOMAIN as |-> Charge(as[i])], DOMAIN as)
<1>1. MapThenSumSet(LAMBDA i : Charge(as[i]), DOMAIN as)
      = Total([i \in DOMAIN as |-> Charge(as[i])], DOMAIN as)
  BY DEF MapThenSumSet, MapThenFoldSet, Total, IsTotal
<1>. QED
  BY <1>1 DEF Remaining

\* No charge grows: the rest does not shrink.
LEMMA RestKept ==
  ASSUME NEW as \in Seq(AttemptRecord), NEW bs \in Seq(AttemptRecord), DOMAIN bs = DOMAIN as,
         \A i \in DOMAIN as : Charge(bs[i]) <= Charge(as[i]),
         Remaining(as) >= 0
  PROVE  Remaining(bs) >= 0
<1>. DEFINE f == [i \in DOMAIN as |-> Charge(as[i])]
            g == [i \in DOMAIN as |-> Charge(bs[i])]
<1>1. /\ IsFiniteSet(DOMAIN as)
      /\ \A i \in DOMAIN as : f[i] \in Int /\ g[i] \in Int /\ g[i] <= f[i]
  <2>1. IsFiniteSet(DOMAIN as) /\ \A i \in DOMAIN as : Charge(as[i]) \in Int
    BY AttemptTypes
  <2>2. \A i \in DOMAIN bs : Charge(bs[i]) \in Int
    BY AttemptTypes
  <2>3. \A i \in DOMAIN as : f[i] = Charge(as[i]) /\ g[i] = Charge(bs[i])
    OBVIOUS
  <2>4. DOMAIN bs = DOMAIN as /\ \A i \in DOMAIN as : Charge(bs[i]) <= Charge(as[i])
    OBVIOUS
  <2>. HIDE DEF f, g
  <2>. QED
    BY ONLY <2>1, <2>2, <2>3, <2>4
<1>2. Remaining(as) = Ceiling - Total(f, DOMAIN as) /\ Remaining(bs) = Ceiling - Total(g, DOMAIN as)
  BY RemainingIsTotal
<1>. HIDE DEF f, g
<1>3. Total(g, DOMAIN as) <= Total(f, DOMAIN as)
  BY <1>1, TotalBound
<1>4. Total(g, DOMAIN as) \in Int /\ Total(f, DOMAIN as) \in Int
  BY <1>1, TotalType
<1>5. Remaining(as) >= 0 /\ Ceiling \in Nat
  BY BridgeAssumption
<1>6. PICK m \in Int, n \in Int : m = Total(f, DOMAIN as) /\ n = Total(g, DOMAIN as)
  BY <1>4
<1>7. n <= m /\ Remaining(as) = Ceiling - m /\ Remaining(bs) = Ceiling - n
  BY <1>2, <1>3, <1>6
<1>. QED
  BY <1>5, <1>7

LEMMA RestAfterReserve ==
  ASSUME NEW as \in Seq(AttemptRecord), NEW a \in AttemptRecord,
         ~a.settled, a.reserved <= Remaining(as)
  PROVE  Remaining(Append(as, a)) >= 0
<1>. DEFINE bs == Append(as, a)
            e == Len(as) + 1
            f == [i \in DOMAIN as |-> Charge(as[i])]
            g == [i \in DOMAIN bs |-> Charge(bs[i])]
<1>1. /\ bs \in Seq(AttemptRecord) /\ bs[e] = a /\ DOMAIN bs = DOMAIN as \cup {e}
      /\ e \notin DOMAIN as /\ \A i \in DOMAIN as : bs[i] = as[i]
  <2>1. Len(as) \in Nat /\ DOMAIN as = 1..Len(as)
    BY LenProperties
  <2>2. /\ bs \in Seq(AttemptRecord) /\ Len(bs) = Len(as) + 1
        /\ bs[e] = a /\ \A i \in 1..Len(as) : bs[i] = as[i]
    <3>1. Append(as, a) \in Seq(AttemptRecord)
      BY AppendProperties
    <3>2. Len(Append(as, a)) = Len(as) + 1
      BY AppendProperties
    <3>3. Append(as, a)[Len(as) + 1] = a
      BY AppendProperties
    <3>4. \A i \in 1..Len(as) : Append(as, a)[i] = as[i]
      BY AppendProperties
    <3>. QED
      BY <3>1, <3>2, <3>3, <3>4
  <2>. HIDE DEF bs
  <2>3. DOMAIN bs = 1..Len(bs)
    BY <2>2, LenProperties
  <2>4. DOMAIN bs = 1..(Len(as) + 1)
    BY <2>2, <2>3
  <2>5. DOMAIN bs = DOMAIN as \cup {e} /\ e \notin DOMAIN as
    <3>1. PICK n \in Nat : n = Len(as)
      BY <2>1
    <3>2. 1..(n + 1) = (1..n) \cup {n + 1} /\ n + 1 \notin 1..n
      BY ONLY n \in Nat
    <3>. QED
      BY <2>1, <2>4, <3>1, <3>2
  <2>. QED
    BY <2>1, <2>2, <2>5
<1>2. /\ IsFiniteSet(DOMAIN as)
      /\ \A i \in DOMAIN as : f[i] \in Int /\ g[i] = f[i]
      /\ \A i \in DOMAIN as \cup {e} : g[i] \in Int
      /\ g[e] = a.reserved /\ a.reserved \in Nat
  <2>. HIDE DEF bs, e
  <2>1. IsFiniteSet(DOMAIN as) /\ \A i \in DOMAIN as : Charge(as[i]) \in Int
    BY AttemptTypes
  <2>2. \A i \in DOMAIN bs : Charge(bs[i]) \in Int
    BY <1>1, AttemptTypes
  <2>3. Charge(a) = a.reserved /\ a.reserved \in Nat
    BY DEF Charge, AttemptRecord
  <2>4. \A i \in DOMAIN bs : g[i] = Charge(bs[i])
    OBVIOUS
  <2>5. \A i \in DOMAIN as : f[i] = Charge(as[i])
    OBVIOUS
  <2>. HIDE DEF f, g
  <2>. QED
    BY ONLY <1>1, <2>1, <2>2, <2>3, <2>4, <2>5
<1>3. Remaining(as) = Ceiling - Total(f, DOMAIN as) /\ Remaining(bs) = Ceiling - Total(g, DOMAIN as \cup {e})
  BY <1>1, RemainingIsTotal
<1>. HIDE DEF f, g, bs, e
<1>4. Total(g, DOMAIN as \cup {e}) = Total(g, DOMAIN as) + g[e]
  <2>1. PICK S : S = DOMAIN as
    OBVIOUS
  <2>2. IsFiniteSet(S) /\ e \notin S /\ \A i \in S \cup {e} : g[i] \in Int
    BY <1>1, <1>2, <2>1
  <2>3. Total(g, S \cup {e}) = Total(g, S) + g[e]
    BY ONLY <2>2, TotalAdd
  <2>. QED
    BY <2>1, <2>3
<1>5. Total(g, DOMAIN as) = Total(f, DOMAIN as) /\ Total(f, DOMAIN as) \in Int
  BY <1>2, TotalSame, TotalType
<1>6. Remaining(bs) >= 0
  <2>1. Ceiling \in Nat /\ a.reserved <= Remaining(as)
    BY BridgeAssumption
  <2>2. PICK n \in Int : n = Total(f, DOMAIN as)
    BY <1>5
  <2>3. Remaining(as) = Ceiling - n /\ Remaining(bs) = Ceiling - (n + a.reserved)
    BY <1>2, <1>3, <1>4, <1>5, <2>2
  <2>. QED
    BY <1>2, <2>1, <2>3
<1>. QED
  BY <1>6 DEF bs

LEMMA BudgetInitially == BridgeInit => BudgetInv
<1>. SUFFICES ASSUME BridgeInit
     PROVE  BudgetInv
  OBVIOUS
<1>1. attempts = <<>> /\ attempts \in Seq(AttemptRecord) /\ DOMAIN attempts = {}
  BY DEF BridgeInit
<1>2. Remaining(attempts) = Ceiling
  <2>. DEFINE f == [i \in DOMAIN attempts |-> Charge(attempts[i])]
  <2>1. Remaining(attempts) = Ceiling - Total(f, {})
    BY <1>1, RemainingIsTotal
  <2>. HIDE DEF f
  <2>2. Total(f, {}) = 0
    BY FS_EmptySet, TotalStep
  <2>. QED
    BY <2>1, <2>2, BridgeAssumption
<1>. QED
  BY <1>1, <1>2, BridgeAssumption DEF BridgeInit, BudgetInv

\* One attempt of the sequence changes, and costs no more than before.
LEMMA OneAttemptChanges ==
  ASSUME BudgetInv, NEW i \in DOMAIN attempts, NEW a \in AttemptRecord,
         attempts' = [attempts EXCEPT ![i] = a],
         AttemptFits(a), Charge(a) <= Charge(attempts[i]),
         bridge' \in {"reserved", "waiting"} =>
           bridge \in {"reserved", "waiting"} /\ (i = Newest => ~a.settled),
         bridge' = "waiting" /\ (bridge = "reserved" \/ i = Newest) => i = Newest /\ a.worker # "none"
  PROVE  BudgetInv'
<1>1. /\ attempts \in Seq(AttemptRecord)
      /\ \A k \in DOMAIN attempts : AttemptFits(attempts[k]) /\ Charge(attempts[k]) \in Nat
  BY AttemptTypes DEF BudgetInv
<1>2. /\ attempts' \in Seq(AttemptRecord) /\ DOMAIN attempts' = DOMAIN attempts
      /\ \A k \in DOMAIN attempts : attempts'[k] = IF k = i THEN a ELSE attempts[k]
  BY <1>1, AttemptReplaced
<1>3. Newest' = Newest
  BY <1>1, <1>2, SameLength DEF Newest
<1>4. Remaining(attempts') >= 0
  <2>1. \A k \in DOMAIN attempts : Charge(attempts'[k]) <= Charge(attempts[k])
    BY <1>1, <1>2
  <2>. QED
    BY <1>1, <1>2, <2>1, RestKept DEF BudgetInv
<1>. QED
  BY <1>1, <1>2, <1>3, <1>4 DEF BudgetInv

LEMMA BudgetKept == BudgetInv /\ BridgeNext => BudgetInv'
<1>. SUFFICES ASSUME BudgetInv, BridgeNext
     PROVE  BudgetInv'
  OBVIOUS
<1>0. /\ attempts \in Seq(AttemptRecord)
      /\ \A i \in DOMAIN attempts : /\ attempts[i] \in AttemptRecord /\ Charge(attempts[i]) \in Nat
                                    /\ AttemptFits(attempts[i])
  BY AttemptTypes DEF BudgetInv
<1>1. CASE StartBridge \/ EndBridge \/ KillBridge
  BY <1>1 DEF StartBridge, EndBridge, KillBridge, BudgetInv, Newest
<1>2. ASSUME NEW r \in Reservations, Reserve(r)
      PROVE  BudgetInv'
  <2>. DEFINE new == [reserved |-> r, elapsed |-> 0, worked |-> 0,
                      worker |-> "none", settled |-> FALSE, charged |-> 0]
  <2>1. new \in AttemptRecord /\ ~new.settled /\ new.reserved = r /\ AttemptFits(new)
    BY NewAttempt, BridgeAssumption DEF AttemptFits
  <2>2. attempts' = Append(attempts, new) /\ r <= Remaining(attempts) /\ bridge' = "reserved"
    BY <1>2 DEF Reserve
  <2>. HIDE DEF new
  <2>3. /\ attempts' \in Seq(AttemptRecord)
        /\ Newest' \in DOMAIN attempts' /\ attempts'[Newest'] = new
        /\ \A i \in DOMAIN attempts' : attempts'[i] = new \/ (i \in DOMAIN attempts /\ attempts'[i] = attempts[i])
    BY <1>0, <2>1, <2>2, AppendProperties, LenProperties DEF Newest
  <2>4. Remaining(attempts') >= 0
    BY <1>0, <2>1, <2>2, RestAfterReserve
  <2>. QED
    BY <1>0, <2>1, <2>2, <2>3, <2>4 DEF BudgetInv
<1>worker. ASSUME NEW i \in DOMAIN attempts, NEW w \in WorkerStates, ~attempts[i].settled \/ w \in Ended
           PROVE  LET a == [attempts[i] EXCEPT !.worker = w]
                  IN  /\ a \in AttemptRecord /\ a.worker = w /\ a.settled = attempts[i].settled
                      /\ AttemptFits(a) /\ Charge(a) <= Charge(attempts[i])
  <2>. DEFINE a == [attempts[i] EXCEPT !.worker = w]
  <2>1. a \in AttemptRecord /\ a.worker = w
    BY <1>0, WorkerChanges
  <2>2. /\ a.worked = attempts[i].worked /\ a.elapsed = attempts[i].elapsed
        /\ a.reserved = attempts[i].reserved /\ a.settled = attempts[i].settled
        /\ a.charged = attempts[i].charged
    OBVIOUS
  <2>. HIDE DEF a
  <2>3. AttemptFits(a) /\ Charge(a) = Charge(attempts[i])
    BY <1>0, <1>worker, <2>1, <2>2 DEF AttemptFits, Charge
  <2>4. Charge(a) <= Charge(attempts[i])
    BY <1>0, <2>3
  <2>. QED
    BY <2>1, <2>2, <2>3, <2>4 DEF a
<1>3. CASE Launch
  <2>1. Newest \in DOMAIN attempts /\ ~attempts[Newest].settled /\ bridge = "reserved" /\ bridge' = "waiting"
        /\ attempts' = [attempts EXCEPT ![Newest] = [attempts[Newest] EXCEPT !.worker = "starting"]]
    BY <1>3 DEF Launch, BudgetInv
  <2>2. "starting" \in WorkerStates
    BY DEF WorkerStates
  <2>. DEFINE a == [attempts[Newest] EXCEPT !.worker = "starting"]
  <2>3. /\ a \in AttemptRecord /\ a.worker = "starting" /\ ~a.settled
        /\ AttemptFits(a) /\ Charge(a) <= Charge(attempts[Newest])
    BY <1>worker, <2>1, <2>2
  <2>4. attempts' = [attempts EXCEPT ![Newest] = a]
    BY <2>1
  <2>. HIDE DEF a
  <2>. QED
    BY <2>1, <2>3, <2>4, OneAttemptChanges
<1>4. ASSUME NEW i \in DOMAIN attempts, NEW w \in {"running"} \cup Ended,
             attempts[i].worker \in {"starting", "running"}, UNCHANGED bridge,
             attempts' = [attempts EXCEPT ![i] = [attempts[i] EXCEPT !.worker = w]]
      PROVE  BudgetInv'
  <2>1. w \in WorkerStates /\ w # "none" /\ ~attempts[i].settled
    BY <1>0, <1>4 DEF WorkerStates, Ended, AttemptFits
  <2>. DEFINE a == [attempts[i] EXCEPT !.worker = w]
  <2>2. a \in AttemptRecord /\ a.worker = w /\ a.settled = attempts[i].settled
        /\ AttemptFits(a) /\ Charge(a) <= Charge(attempts[i])
    BY <1>worker, <2>1
  <2>3. attempts' = [attempts EXCEPT ![i] = a]
    BY <1>4
  <2>. HIDE DEF a
  <2>4. ~a.settled /\ a.worker # "none" /\ bridge' = bridge
    BY <1>4, <2>1, <2>2
  <2>. QED
    BY ONLY BudgetInv, i \in DOMAIN attempts, <2>2, <2>3, <2>4, OneAttemptChanges
<1>5. ASSUME NEW i \in DOMAIN attempts, Validate(i)
      PROVE  BudgetInv'
  BY <1>4, <1>5 DEF Validate, Ended
<1>6. ASSUME NEW i \in DOMAIN attempts, NEW how \in {"passed", "failed", "killed"}, AttemptEnds(i, how)
      PROVE  BudgetInv'
  BY <1>4, <1>6 DEF AttemptEnds, Alive, Ended
<1>7. CASE Settle
  <2>. DEFINE i == Newest
              n == IF attempts[i].worker = "passed" /\ attempts[i].elapsed < attempts[i].reserved
                   THEN attempts[i].elapsed ELSE attempts[i].reserved
              a == [attempts[i] EXCEPT !.settled = TRUE, !.charged = n]
  <2>1. /\ i \in DOMAIN attempts /\ ~attempts[i].settled /\ attempts[i].worker \in Ended
        /\ attempts' = [attempts EXCEPT ![i] = a] /\ bridge' \in {"idle", "down"}
    <3>1. i \in DOMAIN attempts /\ ~attempts[i].settled /\ attempts[i].worker # "none" /\ ~Alive(i)
      BY <1>7 DEF Settle, BudgetInv
    <3>2. attempts[i].worker \in WorkerStates
      BY <1>0, <3>1 DEF AttemptRecord
    <3>. QED
      BY <1>7, <3>1, <3>2 DEF Settle, Alive, WorkerStates, Ended
  <2>2. /\ attempts[i].worked \in Nat /\ attempts[i].elapsed \in Nat /\ attempts[i].reserved \in Nat
        /\ attempts[i].charged \in Nat
        /\ attempts[i].worked <= attempts[i].elapsed /\ attempts[i].elapsed <= attempts[i].reserved
    BY <1>0, <2>1 DEF AttemptRecord, AttemptFits
  <2>3. n \in Nat /\ attempts[i].worked <= n /\ n <= attempts[i].reserved
    BY <2>2
  <2>4. a \in AttemptRecord /\ a.worker = attempts[i].worker
    BY <1>0, <2>1, <2>3, AttemptSettles
  <2>5. /\ a.worked = attempts[i].worked /\ a.elapsed = attempts[i].elapsed
        /\ a.reserved = attempts[i].reserved
        /\ a.settled = TRUE /\ a.charged = n
    <3>1. attempts[i] \in AttemptRecord
      BY <1>0, <2>1
    <3>. QED
      BY <3>1 DEF AttemptRecord
  <2>. HIDE DEF a, n, i
  <2>6. AttemptFits(a)
    BY <2>1, <2>2, <2>3, <2>4, <2>5 DEF AttemptFits
  <2>7. Charge(a) <= Charge(attempts[i])
    BY <2>1, <2>3, <2>5 DEF Charge
  <2>. QED
    BY <2>1, <2>4, <2>6, <2>7, OneAttemptChanges
<1>8. CASE Tick
  <2>1. /\ DOMAIN attempts' = DOMAIN attempts /\ attempts' = [i \in DOMAIN attempts |-> attempts'[i]]
        /\ UNCHANGED bridge
    BY <1>8 DEF Tick
  <2>2. ASSUME NEW i \in DOMAIN attempts
        PROVE  /\ attempts'[i] \in AttemptRecord /\ AttemptFits(attempts'[i])
               /\ Charge(attempts'[i]) = Charge(attempts[i])
               /\ attempts'[i].worker = attempts[i].worker /\ attempts'[i].settled = attempts[i].settled
    <3>1. CASE ~Alive(i)
      BY <1>0, <1>8, <3>1 DEF Tick
    <3>2. CASE Alive(i)
      <4>1. ~attempts[i].settled /\ attempts[i].elapsed < attempts[i].reserved
        BY <1>0, <1>8, <3>2 DEF Tick, Alive, AttemptFits, Ended
      <4>2. PICK n \in {attempts[i].worked, attempts[i].worked + 1} :
              attempts'[i] = [attempts[i] EXCEPT !.elapsed = @ + 1, !.worked = n]
        BY <1>8, <3>2 DEF Tick
      <4>3. /\ attempts[i].worked \in Nat /\ attempts[i].elapsed \in Nat /\ attempts[i].reserved \in Nat
            /\ attempts[i].worked <= attempts[i].elapsed /\ n \in Nat
        BY <1>0, <4>2 DEF AttemptRecord, AttemptFits
      <4>4. attempts'[i] \in AttemptRecord /\ attempts'[i].worker = attempts[i].worker
        <5>1. attempts[i] \in AttemptRecord /\ n \in Nat
          BY <1>0, <4>3
        <5>. QED
          BY ONLY <4>2, <5>1, AttemptAges
      <4>5. /\ attempts'[i].worked = n /\ attempts'[i].elapsed = attempts[i].elapsed + 1
            /\ attempts'[i].reserved = attempts[i].reserved
            /\ attempts'[i].settled = attempts[i].settled
        <5>1. attempts[i] \in AttemptRecord
          BY <1>0
        <5>. QED
          BY <4>2, <5>1 DEF AttemptRecord
      <4>. QED
        BY <4>1, <4>2, <4>3, <4>4, <4>5 DEF AttemptFits, Charge
    <3>. QED
      BY <3>1, <3>2
  <2>3. attempts' \in Seq(AttemptRecord)
    BY <1>0, <2>1, <2>2, AttemptsReplaced
  <2>4. Newest' = Newest
    BY <1>0, <2>1, <2>3, SameLength DEF Newest
  <2>5. Remaining(attempts') >= 0
    <3>1. \A i \in DOMAIN attempts : Charge(attempts'[i]) <= Charge(attempts[i])
      BY <1>0, <2>2
    <3>. QED
      BY <1>0, <2>1, <2>3, <3>1, RestKept DEF BudgetInv
  <2>. QED
    BY <2>1, <2>2, <2>3, <2>4, <2>5 DEF BudgetInv
<1>. QED
  BY <1>1, <1>2, <1>3, <1>5, <1>6, <1>7, <1>8 DEF BridgeNext

\* BridgeBudgetIsKept for every ceiling, margin, set of reservations and
\* bound, in every mixture of campaigns: a reservation covers the time of
\* its worker until the settlement that replaces it does, orphans included.
THEOREM BridgeStaysInBudget == CampaignsSpec => []BridgeBudgetIsKept
<1>1. BudgetInv => BridgeBudgetIsKept
  <2>. SUFFICES ASSUME BudgetInv, NEW i \in DOMAIN attempts
       PROVE  attempts[i].worked <= Charge(attempts[i])
    BY DEF BudgetInv, BridgeBudgetIsKept
  <2>1. attempts[i] \in AttemptRecord /\ AttemptFits(attempts[i])
    BY AttemptTypes DEF BudgetInv
  <2>. QED
    BY <2>1 DEF AttemptFits, AttemptRecord, Charge
<1>2. CampaignsInit => BudgetInv
  BY BudgetInitially DEF CampaignsInit
<1>3. BudgetInv /\ [CampaignsNext]_campaignVars => BudgetInv'
  <2>1. BudgetInv /\ UNCHANGED bridgeVars => BudgetInv'
    BY DEF bridgeVars, BudgetInv, Newest
  <2>. QED
    BY <2>1, BudgetKept DEF CampaignsNext, ChainStep, BridgeStep, QualityStep, campaignVars
<1>. QED
  BY <1>1, <1>2, <1>3, PTL DEF CampaignsSpec

-----------------------------------------------------------------------------
(* The useful-quality study: what it starts, and what it says of itself.    *)
(* Both are about counts that were read before they are used.              *)

Cases == Range(CaseOrder)

LEMMA TwoBackends == Range(Backends) = {"cpp", "cuda"}
  BY DEF Range, Backends

LEMMA RowsAreRows ==
  /\ \A c \in Cases : \A m \in Range(Modes) : \A b \in Range(Backends) : Row(c, m, b) \in Rows
  /\ \A r \in Rows : /\ CaseOf(r) \in Cases /\ Reference(r) \in Rows
                     /\ \E m \in Range(Modes) : Reference(r) = Row(CaseOf(r), m, "cpp")
  BY TwoBackends DEF Rows, Row, CaseOf, Reference, Cases

-----------------------------------------------------------------------------
(* Counterparts *)

QualityTypes ==
  /\ images \in [Rows -> Nat]
  /\ DOMAIN tasks = Rows
  /\ \A r \in Rows : /\ {"state", "stage", "reserved", "elapsed"} \subseteq DOMAIN tasks[r]
                     /\ tasks[r].stage \in DOMAIN Target

UnreadIsKnown ==
  /\ quality = "gates" => unread \subseteq Cases
  /\ quality = "scan" => unread \subseteq Rows

\* Nothing that was read exceeds what is there.
ReadsAreOld ==
  /\ UnreadIsKnown /\ seen \in [Rows -> Nat]
  /\ \A r \in Rows : seen[r] <= images[r]

\* What makes a row ready for a stage, and stays true while it is worked on.
Justified(r, stage) ==
  /\ stage \in {"probe", "native_gate"} => CpuFirst(images, r, stage)
  /\ stage \in {"panel", "extension"} => CaseOf(r) \in admitted

\* The files say no more than the image records.
FilesAreTrue ==
  /\ \A c \in admitted : c \in Cases /\ GateReached(c)
  /\ panels \subseteq admitted
  /\ promoted # <<>> => promoted[1] \subseteq panels

TasksAreJustified ==
  /\ \A t \in ready : /\ t.row \in Rows /\ t.stage \in DOMAIN Target
                      /\ Justified(t.row, t.stage)
  /\ \A r \in Rows : Live(r) => Justified(r, tasks[r].stage)

CounterInv == QualityTypes /\ ReadsAreOld /\ FilesAreTrue /\ TasksAreJustified

LEMMA CounterInitially == QualityInit => CounterInv
<1>. SUFFICES ASSUME QualityInit
     PROVE  CounterInv
  OBVIOUS
<1>1. QualityTypes
  BY QualityAssumption DEF QualityInit, QualityTypes, Idle
<1>2. ReadsAreOld /\ FilesAreTrue
  BY DEF QualityInit, FilesAreTrue, ReadsAreOld, NothingRead, UnreadIsKnown
<1>3. TasksAreJustified
  BY DEF QualityInit, TasksAreJustified, Live, Idle
<1>. QED
  BY <1>1, <1>2, <1>3 DEF CounterInv

\* Counts and admissions only grow, so that what they justified stays.
Grows ==
  /\ \A r \in Rows : images'[r] >= images[r]
  /\ admitted \subseteq admitted'

LEMMA JustifiedStays ==
  ASSUME QualityTypes, QualityTypes', Grows
  PROVE  /\ \A r \in Rows : \A stage \in DOMAIN Target : Justified(r, stage) => Justified(r, stage)'
         /\ \A c \in Cases : GateReached(c) => GateReached(c)'
<1>1. \A r \in Rows : \A n \in Nat : images[r] >= n => images'[r] >= n
  BY DEF Grows, QualityTypes
<1>2. ASSUME NEW r \in Rows, NEW stage \in DOMAIN Target, Justified(r, stage)
      PROVE  Justified(r, stage)'
  <2>1. Target[stage] \in Nat
    BY QualityAssumption
  <2>. QED
    BY <1>1, <1>2, <2>1, RowsAreRows DEF Justified, CpuFirst, Grows
<1>3. ASSUME NEW c \in Cases, GateReached(c)
      PROVE  GateReached(c)'
  <2>1. Target["native_gate"] \in Nat
    BY QualityAssumption
  <2>. QED
    BY <1>1, <1>3, <2>1, RowsAreRows DEF GateReached, Reached
<1>. QED
  BY <1>2, <1>3

\* Old reads stay old.
LEMMA ReadsStayOld ==
  ASSUME ReadsAreOld, QualityTypes, QualityTypes', Grows,
         UNCHANGED seen \/ seen' = NothingRead, UnreadIsKnown'
  PROVE  ReadsAreOld'
<1>1. CASE UNCHANGED seen
  BY <1>1 DEF ReadsAreOld, Grows, QualityTypes
<1>2. CASE seen' = NothingRead
  BY <1>2 DEF ReadsAreOld, Grows, QualityTypes, NothingRead
<1>. QED
  BY <1>1, <1>2

\* A step that seals no file and adds no task.
LEMMA OldTasks ==
  ASSUME CounterInv, QualityTypes', Grows, UNCHANGED <<admitted, panels, promoted>>,
         UNCHANGED seen \/ seen' = NothingRead, UnreadIsKnown',
         ready' \subseteq ready,
         \A r \in Rows : Live(r)' =>
           \/ Live(r) /\ tasks'[r].stage = tasks[r].stage
           \/ \E t \in ready : t.row = r /\ tasks'[r].stage = t.stage
  PROVE  CounterInv'
<1>1. FilesAreTrue'
  BY JustifiedStays DEF CounterInv, FilesAreTrue
<1>2. TasksAreJustified'
  BY JustifiedStays DEF CounterInv, TasksAreJustified, QualityTypes
<1>. QED
  BY <1>1, <1>2, ReadsStayOld DEF CounterInv

LEMMA CounterKept == CounterInv /\ QualityNext => CounterInv'
<1>. SUFFICES ASSUME CounterInv, QualityNext
     PROVE  CounterInv'
  OBVIOUS
<1>0. QualityTypes /\ ReadsAreOld /\ FilesAreTrue /\ TasksAreJustified
  BY DEF CounterInv
<1>same. UNCHANGED images => \A r \in Rows : images'[r] >= images[r]
  BY <1>0 DEF QualityTypes
<1>1. CASE StartQuality \/ Publish
  <2>1. /\ UNCHANGED <<files, tasks>> /\ ready' \subseteq ready /\ UnreadIsKnown'
        /\ UNCHANGED seen \/ seen' = NothingRead
    BY <1>1 DEF StartQuality, Publish, ForgetPass, UnreadIsKnown, Cases
  <2>2. QualityTypes' /\ Grows
    BY <1>0, <1>same, <2>1 DEF QualityTypes, Grows, files
  <2>. QED
    BY <2>1, <2>2, OldTasks DEF files, Live
<1>2. CASE SealGates
  <2>1. /\ UNCHANGED <<images, promoted, tasks, seen, ready>> /\ admitted \subseteq admitted'
        /\ quality = "gates" /\ UnreadIsKnown'
    BY <1>0, <1>2 DEF SealGates, ReadsAreOld, UnreadIsKnown
  <2>2. QualityTypes' /\ Grows
    BY <1>0, <1>same, <2>1 DEF QualityTypes, Grows
  <2>0. PICK c \in unread :
          /\ admitted' = admitted \cup {d \in {c} : GateReached(d)}
          /\ panels' = panels \cup {d \in {c} \cap admitted' : PanelReached(d)}
    BY <1>2 DEF SealGates
  <2>3. FilesAreTrue'
    <3>1. \A d \in Cases : GateReached(d) => GateReached(d)'
      BY <1>0, <2>2, JustifiedStays
    <3>2. panels \subseteq panels' /\ panels' \subseteq admitted'
      BY <1>0, <2>0, <2>1 DEF FilesAreTrue
    <3>3. \A d \in admitted' : d \in Cases /\ GateReached(d)
      BY <1>0, <2>0, <2>1 DEF FilesAreTrue, ReadsAreOld, UnreadIsKnown
    <3>. QED
      BY <1>0, <2>1, <3>1, <3>2, <3>3 DEF FilesAreTrue
  <2>4. TasksAreJustified'
    BY <1>0, <2>1, <2>2, JustifiedStays DEF TasksAreJustified, QualityTypes, Live
  <2>5. ReadsAreOld'
    BY <1>0, <2>1, <2>2, ReadsStayOld
  <2>. QED
    BY <2>2, <2>3, <2>4, <2>5 DEF CounterInv
<1>count. CASE Count
  <2>1. /\ UNCHANGED <<files, tasks, ready, quality>> /\ quality = "scan"
        /\ \E r \in unread : seen' = [seen EXCEPT ![r] = images[r]] /\ unread' = unread \ {r}
    BY <1>count DEF Count
  <2>2. QualityTypes' /\ FilesAreTrue' /\ TasksAreJustified'
    BY <1>0, <2>1 DEF QualityTypes, FilesAreTrue, TasksAreJustified, Justified, CpuFirst, files,
                      GateReached, Reached, Live
  <2>3. ReadsAreOld'
    BY <1>0, <2>1 DEF ReadsAreOld, UnreadIsKnown, QualityTypes, files
  <2>. QED
    BY <2>2, <2>3 DEF CounterInv
<1>3. CASE Scan
  <2>1. UNCHANGED <<files, tasks>> /\ seen' = NothingRead /\ quality' # "scan"
    BY <1>3 DEF Scan
  <2>2. QualityTypes' /\ FilesAreTrue'
    BY <1>0, <2>1 DEF QualityTypes, FilesAreTrue, files, GateReached, Reached
  <2>3. ASSUME NEW t \in ready'
        PROVE  t.row \in Rows /\ t.stage \in DOMAIN Target /\ Justified(t.row, t.stage)
    <3>1. PICK r \in Rows, stage \in DOMAIN Target : t = Task(r, stage) /\ Wanted(seen, t.row, t.stage)
      BY <1>3, <2>3 DEF Scan
    <3>2. t.row = r /\ t.stage = stage
      BY <3>1 DEF Task
    <3>3. stage \in {"probe", "native_gate"} => CpuFirst(seen, r, stage)
      BY <3>1, <3>2 DEF Wanted
    <3>4. CpuFirst(seen, r, stage) => CpuFirst(images, r, stage)
      <4>1. /\ seen[Reference(r)] \in Nat /\ images[Reference(r)] \in Nat /\ Target[stage] \in Nat
            /\ seen[Reference(r)] <= images[Reference(r)]
        BY <1>0, QualityAssumption, RowsAreRows DEF ReadsAreOld, QualityTypes
      <4>. QED
        BY <4>1 DEF CpuFirst
    <3>. QED
      BY <3>1, <3>2, <3>3, <3>4, QualityAssumption DEF Wanted, Justified
  <2>4. TasksAreJustified'
    BY <1>0, <2>1, <2>3 DEF TasksAreJustified, Justified, CpuFirst, files, Live
  <2>5. Grows
    BY <1>0, <1>same, <2>1 DEF Grows, files
  <2>6. ReadsAreOld'
    <3>1. UnreadIsKnown'
      BY <1>3 DEF Scan, UnreadIsKnown
    <3>. QED
      BY <1>0, <2>1, <2>2, <2>5, <3>1, ReadsStayOld
  <2>. QED
    BY <2>2, <2>4, <2>6 DEF CounterInv
<1>dispatch. ASSUME NEW t \in ready, NEW cost, Dispatched(t, cost),
                    UNCHANGED <<files, seen>>, UnreadIsKnown', ready' \subseteq ready
             PROVE  CounterInv'
  <2>1. t.row \in Rows /\ t.stage \in DOMAIN Target
    BY <1>0, <1>dispatch DEF TasksAreJustified
  <2>2. /\ QualityTypes'
        /\ \A r \in Rows : tasks'[r] = IF r = t.row
             THEN [state |-> "live", stage |-> t.stage, reserved |-> cost, elapsed |-> 0]
             ELSE tasks[r]
    BY <1>0, <1>dispatch, <2>1 DEF QualityTypes, Dispatched, files
  <2>. QED
    BY <1>0, <1>dispatch, <1>same, <2>1, <2>2, OldTasks DEF Grows, files, Live
<1>4. CASE Allocate
  <2>1. PICK t \in ready : \E cost :
          /\ ready' = ready \ {t}
          /\ Dispatched(t, cost) \/ UNCHANGED <<tasks, holders>>
    BY <1>4 DEF Allocate, Eligible
  <2>2. UNCHANGED <<files, seen>> /\ UnreadIsKnown'
    BY <1>4 DEF Allocate, UnreadIsKnown
  <2>3. CASE UNCHANGED <<tasks, holders>>
    BY <1>0, <1>same, <2>1, <2>2, <2>3, OldTasks DEF QualityTypes, Grows, files, Live
  <2>. QED
    BY <1>dispatch, <2>1, <2>2, <2>3
<1>idle. ASSUME UNCHANGED files, ready' \subseteq ready, UNCHANGED seen \/ seen' = NothingRead,
                UnreadIsKnown', DOMAIN tasks' = Rows,
                \A r \in Rows : tasks'[r] = Idle \/ tasks'[r] = tasks[r]
         PROVE  CounterInv'
  <2>1. QualityTypes'
    BY <1>0, <1>idle, QualityAssumption DEF QualityTypes, files, Idle
  <2>. QED
    BY <1>0, <1>same, <1>idle, <2>1, OldTasks DEF Grows, files, Live, Idle
<1>5. CASE Collect \/ ExtensionEnds
  BY <1>5, <1>idle DEF Collect, ExtensionEnds, AfterWorkers, UnreadIsKnown, Cases
<1>6. CASE Promote
  <2>1. UNCHANGED <<images, admitted, panels, tasks, seen>>
    BY <1>6 DEF Promote
  <2>2. promoted' # <<>> /\ promoted'[1] \subseteq panels
    <3>1. CASE promoted # <<>> /\ UNCHANGED promoted
      BY <1>0, <3>1 DEF FilesAreTrue
    <3>2. ASSUME NEW chosen \in SUBSET panels, promoted' = <<chosen>>
          PROVE  promoted' # <<>> /\ promoted'[1] \subseteq panels
      BY <3>2
    <3>. QED
      BY <1>6, <3>1, <3>2 DEF Promote
  <2>3. QualityTypes' /\ FilesAreTrue'
    BY <1>0, <2>1, <2>2 DEF QualityTypes, FilesAreTrue, GateReached, Reached
  <2>4. ASSUME NEW t \in ready'
        PROVE  t.row \in Rows /\ t.stage \in DOMAIN Target /\ Justified(t.row, t.stage)
    <3>1. PICK c \in promoted'[1], m \in Range(Modes) : t = Task(Row(c, m, "cuda"), "extension")
      BY <1>6, <2>4 DEF Promote
    <3>2. c \in admitted /\ c \in Cases
      BY <1>0, <2>2, <3>1 DEF FilesAreTrue
    <3>3. t.row = Row(c, m, "cuda") /\ t.stage = "extension"
      BY <3>1 DEF Task
    <3>4. CaseOf(t.row) = c /\ t.row \in Rows
      <4>1. CaseOf(t.row) = c
        BY <3>3 DEF CaseOf, Row
      <4>2. "cuda" \in Range(Backends)
        BY TwoBackends
      <4>3. t.row \in Rows
        BY <3>1, <3>2, <3>3, <4>2, RowsAreRows
      <4>. QED
        BY <4>1, <4>3
    <3>. QED
      BY <3>2, <3>3, <3>4, QualityAssumption DEF Justified
  <2>5. TasksAreJustified'
    BY <1>0, <2>1, <2>4 DEF TasksAreJustified, Justified, CpuFirst, Live
  <2>6. ReadsAreOld'
    BY <1>0, <1>6, <2>1 DEF ReadsAreOld, UnreadIsKnown, Promote
  <2>. QED
    BY <2>3, <2>5, <2>6 DEF CounterInv
<1>7. CASE Extend
  <2>1. PICK t \in ready : \E cost :
          /\ ready' \subseteq ready
          /\ Dispatched(t, cost) \/ UNCHANGED <<tasks, holders>>
    BY <1>7 DEF Extend
  <2>2. UNCHANGED <<files, seen>> /\ UnreadIsKnown'
    BY <1>7 DEF Extend, UnreadIsKnown
  <2>3. CASE UNCHANGED <<tasks, holders>>
    BY <1>0, <1>same, <2>1, <2>2, <2>3, OldTasks DEF QualityTypes, Grows, files, Live
  <2>. QED
    BY <1>dispatch, <2>1, <2>2, <2>3
<1>8. CASE EndQuality \/ KillQuality
  BY <1>8, <1>idle DEF EndQuality, KillQuality, ForgetPass, UnreadIsKnown
<1>9. ASSUME NEW r \in Rows, SealImage(r)
      PROVE  CounterInv'
  <2>1. /\ images' = [images EXCEPT ![r] = @ + 1]
        /\ UNCHANGED <<admitted, panels, promoted, tasks, ready, seen>> /\ UnreadIsKnown'
    BY <1>0, <1>9 DEF SealImage, pass, ReadsAreOld, UnreadIsKnown
  <2>2. QualityTypes' /\ Grows
    BY <1>0, <2>1 DEF QualityTypes, Grows
  <2>. QED
    BY <2>1, <2>2, OldTasks DEF Live
<1>10. ASSUME NEW r \in Rows, Elapse(r) \/ \E how \in {"passed", "failed", "late"} : WorkerReturns(r, how)
       PROVE  CounterInv'
  <2>1. UNCHANGED <<files, ready, seen>> /\ UnreadIsKnown'
    BY <1>0, <1>10 DEF Elapse, WorkerReturns, pass, ReadsAreOld, UnreadIsKnown
  <2>2. /\ QualityTypes'
        /\ \A q \in Rows : Live(q)' => Live(q) /\ tasks'[q].stage = tasks[q].stage
    <3>1. "probe" \in DOMAIN Target
      BY QualityAssumption
    <3>2. CASE Elapse(r)
      BY <1>0, <2>1, <3>2 DEF QualityTypes, Elapse, Live, files
    <3>3. CASE \E how \in {"passed", "failed", "late"} : WorkerReturns(r, how)
      BY <1>0, <2>1, <3>1, <3>3 DEF QualityTypes, WorkerReturns, Live, Idle, files
    <3>. QED
      BY <1>10, <3>2, <3>3
  <2>. QED
    BY <1>same, <2>1, <2>2, OldTasks DEF Grows, files
<1>. QED
  BY <1>1, <1>2, <1>count, <1>3, <1>4, <1>5, <1>6, <1>7, <1>8, <1>9, <1>10 DEF QualityNext

LEMMA CounterUntouched == CounterInv /\ UNCHANGED qualityVars => CounterInv'
  BY DEF qualityVars, files, pass, CounterInv, QualityTypes, ReadsAreOld, UnreadIsKnown,
         FilesAreTrue, GateReached, Reached, TasksAreJustified, Justified, CpuFirst, Live

\* CounterpartsAreThere for every order of cases, stage sizes and costs: the
\* counts a task was listed from are old when its worker starts, but counts
\* and admissions only grow.
THEOREM CounterpartsStayThere == CampaignsSpec => []CounterpartsAreThere
<1>1. CounterInv => CounterpartsAreThere
  <2>. SUFFICES ASSUME CounterInv, NEW r \in Rows, Live(r), images[r] < Target[tasks[r].stage]
       PROVE  Comparable(r)
    BY DEF CounterpartsAreThere
  <2>. DEFINE stage == tasks[r].stage
              gate == Target["native_gate"]
  <2>1. /\ Justified(r, stage) /\ stage \in DOMAIN Target
        /\ images[r] \in Nat /\ images[Reference(r)] \in Nat
    BY RowsAreRows DEF CounterInv, TasksAreJustified, QualityTypes
  <2>2. gate \in Nat /\ Target[stage] \in Nat
    BY <2>1, QualityAssumption
  <2>3. CASE stage \in {"probe", "native_gate"}
    <3>1. Target[stage] <= gate
      BY <2>2, <2>3, QualityAssumption
    <3>. HIDE DEF stage, gate
    <3>2. OnGpu(r) => images[Reference(r)] >= Target[stage]
      BY <2>1, <2>3 DEF Justified, CpuFirst
    <3>. QED
      BY <2>1, <2>2, <3>1, <3>2 DEF Comparable, stage, gate
  <2>4. CASE stage \in {"panel", "extension"}
    <3>1. CaseOf(r) \in admitted /\ GateReached(CaseOf(r))
      BY <2>1, <2>4 DEF Justified, CounterInv, FilesAreTrue
    <3>2. images[Reference(r)] >= gate
      BY <3>1, RowsAreRows, TwoBackends DEF GateReached, Reached
    <3>. QED
      BY <2>1, <2>2, <3>1, <3>2 DEF Comparable
  <2>. QED
    BY <2>1, <2>3, <2>4, QualityAssumption
<1>2. CampaignsInit => CounterInv
  BY CounterInitially DEF CampaignsInit
<1>3. CounterInv /\ [CampaignsNext]_campaignVars => CounterInv'
  BY CounterKept, CounterUntouched
     DEF CampaignsNext, ChainStep, BridgeStep, QualityStep, campaignVars
<1>. QED
  BY <1>1, <1>2, <1>3, PTL DEF CampaignsSpec

-----------------------------------------------------------------------------
(* Completeness *)

SealedUp(cases) ==
  /\ \A c \in cases : GateReached(c) => c \in admitted
  /\ \A c \in admitted \cap cases : PanelReached(c) => c \in panels

\* As long as no worker runs, what the controller has sealed, counted and
\* listed is what the records say.
ListIsCurrent ==
  /\ quality = "gates" /\ Running = {} => SealedUp(Cases \ unread)
  /\ quality \in {"scan", "allocate"} /\ Running = {} => SealedUp(Cases)
  /\ quality = "scan" /\ Running = {} => \A r \in Rows \ unread : seen[r] = images[r]
  /\ quality = "allocate" /\ Running = {} /\ ~blocked =>
       \A r \in Rows : \A stage \in DOMAIN Target :
         Wanted(images, r, stage) => Task(r, stage) \in ready
  /\ quality = "allocate" => capacity \in {1, 2, 3}

CompleteInv == ListIsCurrent /\ StagesAreComplete

LEMMA CompleteInitially == QualityInit => CompleteInv
  BY DEF QualityInit, CompleteInv, ListIsCurrent, StagesAreComplete

\* Without a worker every task that is listed has a lane.
LEMMA LanesAreFree ==
  ASSUME ListIsCurrent, quality = "allocate", Running = {}
  PROVE  Eligible = ready
<1>1. Gpu = {} /\ Running \ Gpu = {} /\ Cardinality({}) = 0
  BY FS_EmptySet DEF Gpu
<1>2. capacity > 0 /\ CpuLanes > 0
  BY <1>1 DEF ListIsCurrent, CpuLanes
<1>. QED
  BY <1>1, <1>2 DEF Eligible

\* With nothing left to do, every case has its panel.
LEMMA NothingLeft ==
  ASSUME CounterInv, SealedUp(Cases),
         \A r \in Rows : \A stage \in DOMAIN Target : ~Wanted(images, r, stage)
  PROVE  panels = Cases
<1>1. panels \subseteq Cases
  BY DEF CounterInv, FilesAreTrue
<1>2. ASSUME NEW c \in Cases
      PROVE  c \in panels
  <2>1. ASSUME NEW m \in Range(Modes), NEW b \in Range(Backends)
        PROVE  /\ Row(c, m, b) \in Rows /\ CaseOf(Row(c, m, b)) = c
               /\ Reference(Row(c, m, b)) = Row(c, m, "cpp")
               /\ OnGpu(Row(c, m, b)) <=> b = "cuda"
               /\ images[Row(c, m, b)] \in Nat
    BY RowsAreRows, <1>2 DEF Row, CaseOf, Reference, OnGpu, CounterInv, QualityTypes
  <2>2. \A stage \in DOMAIN Target : Target[stage] \in Nat
    BY QualityAssumption
  <2>3. ASSUME NEW stage \in {"probe", "native_gate"}, stage = "native_gate" => FullyProbed(images, c)
        PROVE  \A m \in Range(Modes) : \A b \in Range(Backends) : images[Row(c, m, b)] >= Target[stage]
    <3>. TAKE m \in Range(Modes)
    <3>0. stage \in DOMAIN Target
      BY QualityAssumption
    <3>1. images[Row(c, m, "cpp")] >= Target[stage]
      <4>1. Row(c, m, "cpp") \in Rows /\ ~OnGpu(Row(c, m, "cpp")) /\ CaseOf(Row(c, m, "cpp")) = c
            /\ images[Row(c, m, "cpp")] \in Nat
        BY <2>1, TwoBackends
      <4>. QED
        BY <2>2, <2>3, <3>0, <4>1 DEF Wanted, CpuFirst
    <3>2. images[Row(c, m, "cuda")] >= Target[stage]
      <4>1. Row(c, m, "cuda") \in Rows /\ CaseOf(Row(c, m, "cuda")) = c
            /\ Reference(Row(c, m, "cuda")) = Row(c, m, "cpp")
            /\ images[Row(c, m, "cuda")] \in Nat
        BY <2>1, TwoBackends
      <4>. QED
        BY <2>2, <2>3, <3>0, <3>1, <4>1 DEF Wanted, CpuFirst
    <3>. QED
      BY <3>1, <3>2, TwoBackends
  <2>4. FullyProbed(images, c)
    BY <2>3 DEF FullyProbed, Reached
  <2>5. GateReached(c) /\ c \in admitted
    BY <1>2, <2>3, <2>4 DEF GateReached, Reached, SealedUp
  <2>6. PanelReached(c)
    <3>. SUFFICES ASSUME NEW m \in Range(Modes)
         PROVE  images[Row(c, m, "cuda")] >= Target["panel"]
      BY DEF PanelReached, Reached
    <3>1. Row(c, m, "cuda") \in Rows /\ CaseOf(Row(c, m, "cuda")) = c /\ OnGpu(Row(c, m, "cuda"))
          /\ images[Row(c, m, "cuda")] \in Nat
      BY <2>1, TwoBackends
    <3>2. "panel" \in DOMAIN Target
      BY QualityAssumption
    <3>. QED
      BY <2>2, <2>5, <3>1, <3>2 DEF Wanted
  <2>. QED
    BY <2>5, <2>6 DEF SealedUp
<1>. QED
  BY <1>1, <1>2

LEMMA CompleteKept == CounterInv /\ CounterInv' /\ CompleteInv /\ QualityNext => CompleteInv'
<1>. SUFFICES ASSUME CounterInv, CounterInv', CompleteInv, QualityNext
     PROVE  CompleteInv'
  OBVIOUS
<1>0. ListIsCurrent /\ StagesAreComplete /\ DOMAIN tasks = Rows /\ panels \subseteq Cases
      /\ \A r \in Rows : {"state", "stage", "reserved", "elapsed"} \subseteq DOMAIN tasks[r]
  BY DEF CompleteInv, CounterInv, QualityTypes, FilesAreTrue
<1>away. ASSUME quality' \notin {"gates", "scan", "allocate"}
         PROVE  ListIsCurrent'
  BY <1>away DEF ListIsCurrent
<1>fresh. ASSUME quality' = "gates", unread' = Cases
          PROVE  ListIsCurrent'
  BY <1>fresh DEF ListIsCurrent, SealedUp
<1>said. ASSUME panels \subseteq panels', qstatus' = "stages_complete" => qstatus = "stages_complete"
         PROVE  StagesAreComplete'
  <2>1. panels' \subseteq Cases
    BY DEF CounterInv, FilesAreTrue
  <2>. QED
    BY <1>0, <1>said, <2>1 DEF StagesAreComplete, Cases
<1>1. CASE StartQuality
  BY <1>1, <1>fresh, <1>said DEF StartQuality, CompleteInv, files, Cases
<1>2. CASE SealGates
  <2>1. PICK c \in unread :
          /\ admitted' = admitted \cup {d \in {c} : GateReached(d)}
          /\ panels' = panels \cup {d \in {c} \cap admitted' : PanelReached(d)}
          /\ IF unread = {c} THEN quality' = "scan" /\ unread' = Rows
                            ELSE unread' = unread \ {c} /\ UNCHANGED quality
    BY <1>2 DEF SealGates
  <2>2. UNCHANGED <<images, tasks, qstatus>> /\ quality = "gates"
    BY <1>2 DEF SealGates
  <2>visited. PICK visited : visited = (Cases \ unread) \cup {c}
    OBVIOUS
  <2>3. Running = {} => SealedUp(visited)'
    BY <1>0, <2>1, <2>2, <2>visited DEF ListIsCurrent, SealedUp, GateReached, PanelReached, Reached
  <2>4. ListIsCurrent'
    <3>1. Running' = Running
      BY <2>2 DEF Running
    <3>2. CASE unread = {c}
      <4>1. visited = Cases /\ quality' = "scan" /\ unread' = Rows
        BY <2>1, <2>2, <2>visited, <3>2 DEF CounterInv, ReadsAreOld, UnreadIsKnown
      <4>. QED
        BY <2>3, <3>1, <4>1 DEF ListIsCurrent, SealedUp
    <3>3. CASE unread # {c}
      <4>1. Cases \ unread' = visited /\ quality' = "gates"
        BY <2>1, <2>2, <2>visited, <3>3 DEF CounterInv, ReadsAreOld, UnreadIsKnown
      <4>. QED
        BY <2>3, <3>1, <4>1 DEF ListIsCurrent, SealedUp
    <3>. QED
      BY <3>2, <3>3
  <2>. QED
    BY <1>said, <2>1, <2>2, <2>4 DEF CompleteInv
<1>count. CASE Count
  <2>1. /\ UNCHANGED <<quality, files, tasks, qstatus>> /\ quality = "scan"
        /\ \E r \in unread : seen' = [seen EXCEPT ![r] = images[r]] /\ unread' = unread \ {r}
    BY <1>count DEF Count
  <2>2. Running' = Running
    BY <2>1 DEF Running
  <2>3. ListIsCurrent'
    BY <1>0, <2>1, <2>2 DEF ListIsCurrent, SealedUp, GateReached, PanelReached, Reached, files,
                            CounterInv, ReadsAreOld
  <2>. QED
    BY <1>said, <2>1, <2>3 DEF CompleteInv, files
<1>3. CASE Scan
  <2>1. UNCHANGED <<files, tasks>> /\ Running' = Running
    BY <1>3 DEF Scan, Running
  <2>2. Running = {} => SealedUp(Cases)'
    BY <1>0, <1>3, <2>1 DEF Scan, ListIsCurrent, SealedUp, GateReached, PanelReached, Reached, files
  <2>3. ASSUME Running = {}
        PROVE  \A r \in Rows : \A stage \in DOMAIN Target :
                 Wanted(images, r, stage)' => Task(r, stage) \in ready'
    <3>. TAKE r \in Rows
    <3>. TAKE stage \in DOMAIN Target
    <3>1. seen = images
      BY <1>0, <1>3, <2>3 DEF Scan, ListIsCurrent, CounterInv, ReadsAreOld, QualityTypes
    <3>2. Wanted(images, r, stage)' => Wanted(images, r, stage)
      BY <2>1 DEF Wanted, CpuFirst, FullyProbed, Reached, files
    <3>3. Wanted(images, r, stage) => Wanted(seen, r, stage)
      BY <3>1
    <3>4. Task(r, stage).row = r /\ Task(r, stage).stage = stage
      BY DEF Task
    <3>. QED
      BY <1>3, <3>2, <3>3, <3>4 DEF Scan
  <2>4. capacity' \in {1, 2, 3}
    BY <1>3 DEF Scan, Capacities
  <2>5. ListIsCurrent'
    BY <1>3, <2>1, <2>2, <2>3, <2>4 DEF Scan, ListIsCurrent
  <2>. QED
    BY <1>3, <1>said, <2>1, <2>5 DEF Scan, CompleteInv, files
<1>4. CASE Allocate
  <2>1. PICK t \in ready : \E cost :
          \/ Dispatched(t, cost)
          \/ blocked' = TRUE /\ UNCHANGED tasks
    BY <1>4 DEF Allocate, Eligible
  <2>2. UNCHANGED <<quality, files, capacity, qstatus>> /\ quality = "allocate"
    BY <1>4 DEF Allocate
  <2>3. CASE \E cost : Dispatched(t, cost)
    <3>1. Running' # {}
      BY <1>0, <2>3 DEF Dispatched, Running, CounterInv, TasksAreJustified
    <3>. QED
      BY <1>0, <1>said, <2>2, <3>1 DEF ListIsCurrent, CompleteInv, files
  <2>4. CASE blocked' = TRUE /\ UNCHANGED tasks
    <3>1. Running' = Running
      BY <2>4 DEF Running
    <3>2. ListIsCurrent'
      BY <1>0, <2>2, <2>4, <3>1 DEF ListIsCurrent, SealedUp, GateReached, PanelReached, Reached, files
    <3>. QED
      BY <1>said, <2>2, <3>2 DEF CompleteInv, files
  <2>. QED
    BY <2>1, <2>3, <2>4
<1>5. CASE Publish
  <2>1. quality = "allocate" /\ Eligible = {} /\ UNCHANGED files /\ quality' \notin {"gates", "scan", "allocate"}
    BY <1>5 DEF Publish
  <2>2. ASSUME qstatus' = "stages_complete"
        PROVE  panels = Cases
    <3>1. Running = {} /\ ~blocked
      BY <1>5, <2>2 DEF Publish
    <3>2. ready = {} /\ SealedUp(Cases)
      BY <1>0, <2>1, <3>1, LanesAreFree DEF ListIsCurrent
    <3>. QED
      BY <1>0, <2>1, <3>1, <3>2, NothingLeft DEF ListIsCurrent
  <2>. QED
    BY <1>away, <2>1, <2>2 DEF CompleteInv, StagesAreComplete, Cases, files
<1>6. CASE Collect \/ ExtensionEnds \/ Promote \/ Extend \/ EndQuality \/ KillQuality
  <2>1. /\ quality' \notin {"gates", "scan", "allocate"} \/ (quality' = "gates" /\ unread' = Cases)
        /\ UNCHANGED panels /\ (qstatus' = "stages_complete" => qstatus = "stages_complete")
    <3>1. CASE Collect \/ ExtensionEnds
      BY <3>1 DEF Collect, ExtensionEnds, AfterWorkers, files, Cases
    <3>2. CASE Promote
      BY <3>2 DEF Promote
    <3>3. CASE Extend
      BY <3>3 DEF Extend, files
    <3>4. CASE EndQuality \/ KillQuality
      BY <3>4 DEF EndQuality, KillQuality, files
    <3>. QED
      BY <1>6, <3>1, <3>2, <3>3, <3>4
  <2>. QED
    BY <1>away, <1>fresh, <1>said, <2>1 DEF CompleteInv
<1>7. ASSUME NEW r \in Rows,
             SealImage(r) \/ Elapse(r) \/ \E how \in {"passed", "failed", "late"} : WorkerReturns(r, how)
      PROVE  CompleteInv'
  <2>1. Live(r) /\ UNCHANGED <<quality, panels, qstatus>>
    BY <1>7 DEF SealImage, Elapse, WorkerReturns, files
  <2>2. UNCHANGED capacity
    BY <1>7 DEF SealImage, Elapse, WorkerReturns, pass
  <2>3. quality # "down" => Running' # {}
    <3>1. tasks'[r].state # "none" \/ quality = "down"
      BY <1>0, <1>7, <2>1 DEF SealImage, Elapse, WorkerReturns, Live
    <3>. QED
      BY <3>1 DEF Running
  <2>. QED
    BY <1>0, <1>said, <2>1, <2>2, <2>3 DEF ListIsCurrent, CompleteInv
<1>. QED
  BY <1>1, <1>2, <1>count, <1>3, <1>4, <1>5, <1>6, <1>7 DEF QualityNext

\* StagesAreComplete for every order of cases, stage sizes, costs and
\* capacity: without a worker since the last look at the records, a list
\* that was emptied without being blocked leaves nothing to do.
THEOREM CompletionIsTrue == CampaignsSpec => []StagesAreComplete
<1>1. CampaignsInit => CounterInv /\ CompleteInv
  BY CounterInitially, CompleteInitially DEF CampaignsInit
<1>2. CounterInv /\ CompleteInv /\ [CampaignsNext]_campaignVars => CounterInv' /\ CompleteInv'
  <2>1. CounterInv /\ UNCHANGED qualityVars => CounterInv'
    BY CounterUntouched
  <2>2. CompleteInv /\ UNCHANGED qualityVars => CompleteInv'
    BY DEF qualityVars, files, pass, CompleteInv, ListIsCurrent, SealedUp, GateReached,
           PanelReached, Reached, Running, Wanted, CpuFirst, FullyProbed, StagesAreComplete
  <2>. QED
    BY <2>1, <2>2, CounterKept, CompleteKept
       DEF CampaignsNext, ChainStep, BridgeStep, QualityStep, campaignVars
<1>3. CompleteInv => StagesAreComplete
  BY DEF CompleteInv
<1>. QED
  BY <1>1, <1>2, <1>3, PTL DEF CampaignsSpec

-----------------------------------------------------------------------------
(* The allowance of the useful-quality study *)

Pools == {"panel", "extension"}

MoneyTypes ==
  /\ \A r \in Rows : /\ tasks[r].reserved \in Nat /\ tasks[r].elapsed \in Nat
                     /\ Live(r) => tasks[r].reserved > 0
  /\ spent \in [Pools -> Nat] /\ lost \in [Pools -> Nat] /\ excess \in [Pools -> Nat]
  /\ computed \in Nat /\ unpaid \in Int

\* What the ledger has to hold by now.
Due == computed - unpaid

\* What a row holds of a pool, and what its worker may run within it.
Held(pool) ==
  [r \in Rows |-> IF Live(r) /\ Pool(tasks[r].stage) = pool THEN tasks[r].reserved ELSE 0]
Rest == [r \in Rows |-> IF Live(r) /\ tasks[r].elapsed < tasks[r].reserved
                        THEN tasks[r].reserved - tasks[r].elapsed ELSE 0]

HeldOf(pool) == Total(Held(pool), Rows)
RestOf == Total(Rest, Rows)

\* Before the promotion, and between extensions, nothing runs, and from the
\* promotion on only extensions are listed.
OneExtension ==
  /\ quality \in {"promote", "extend"} => Running = {}
  /\ quality = "extension" => \A q, r \in Running : q = r
  /\ quality \in {"extend", "extension"} => \A t \in ready : t.stage = "extension"

\* What is due, and what live workers may run within their reservations, is
\* committed.
TimeIsCommitted ==
  /\ Sunk + Due + RestOf <= Used
  /\ Used <= Limit + excess["panel"] + excess["extension"] \/ Used = Sunk
  /\ Committed("extension") <= ExtensionLimit + excess["extension"]

MoneyInv == MoneyTypes /\ OneExtension /\ TimeIsCommitted

LEMMA RowsAreFinite == IsFiniteSet(Rows)
<1>1. IsFiniteSet(Range(CaseOrder))
  <2>1. PICK n \in Nat : DOMAIN CaseOrder = 1..n
    BY QualityAssumption, LenProperties
  <2>2. IsFiniteSet(1..n)
    BY FS_Interval
  <2>3. CaseOrder \in Surjection(1..n, Range(CaseOrder))
    <3>1. CaseOrder \in [1..n -> Range(CaseOrder)]
      BY <2>1, QualityAssumption, LenProperties DEF Range
    <3>. QED
      BY <2>1, <3>1 DEF Range, Surjection
  <2>. QED
    BY <2>2, <2>3, FS_Surjection
<1>2. IsFiniteSet(Range(Modes)) /\ IsFiniteSet(Range(Backends))
  <2>1. Range(Modes) = {"exact", "control"} /\ Range(Backends) = {"cpp", "cuda"}
    BY DEF Range, Modes, Backends
  <2>2. \A a, b : IsFiniteSet({a, b})
    <3>. TAKE a, b
    <3>1. IsFiniteSet({a} \cup {b})
      BY FS_Singleton, FS_AddElement
    <3>2. {a} \cup {b} = {a, b}
      OBVIOUS
    <3>. QED
      BY <3>1, <3>2
  <2>. QED
    BY <2>1, <2>2
<1>3. IsFiniteSet(Range(CaseOrder) \X Range(Modes))
  BY <1>1, <1>2, FS_Product
<1>. QED
  BY <1>2, <1>3, FS_Product DEF Rows

LEMMA ShareTypes ==
  MoneyTypes =>
    /\ \A p \in Pools : /\ HeldOf(p) \in Nat
                        /\ \A r \in Rows : Held(p)[r] \in Int /\ Held(p)[r] \in Nat
    /\ RestOf \in Nat
    /\ \A r \in Rows : Rest[r] \in Int /\ Rest[r] \in Nat
<1>. SUFFICES ASSUME MoneyTypes
     PROVE  /\ \A p \in Pools : /\ HeldOf(p) \in Nat
                                /\ \A r \in Rows : Held(p)[r] \in Int /\ Held(p)[r] \in Nat
            /\ RestOf \in Nat
            /\ \A r \in Rows : Rest[r] \in Int /\ Rest[r] \in Nat
  OBVIOUS
<1>1. ASSUME NEW p \in Pools
      PROVE  HeldOf(p) \in Nat /\ \A r \in Rows : Held(p)[r] \in Int /\ Held(p)[r] \in Nat
  <2>1. \A r \in Rows : Held(p)[r] \in Int /\ Held(p)[r] \in Nat
    BY DEF MoneyTypes, Held
  <2>2. PICK f : f = Held(p)
    OBVIOUS
  <2>3. \A r \in Rows : f[r] \in Nat
    BY <2>1, <2>2
  <2>4. Total(f, Rows) \in Nat
    BY <2>3, RowsAreFinite, TotalNat
  <2>. QED
    BY <2>1, <2>2, <2>4 DEF HeldOf
<1>2. \A r \in Rows : Rest[r] \in Int /\ Rest[r] \in Nat
  BY DEF MoneyTypes, Rest
<1>3. RestOf \in Nat
  <2>1. PICK f : f = Rest
    OBVIOUS
  <2>2. \A r \in Rows : f[r] \in Nat
    BY <1>2, <2>1
  <2>3. Total(f, Rows) \in Nat
    BY <2>2, RowsAreFinite, TotalNat
  <2>. QED
    BY <2>1, <2>3 DEF RestOf
<1>. QED
  BY <1>1, <1>2, <1>3

\* The code's sum over the live rows of a pool.
LEMMA ReservedIsHeld ==
  MoneyTypes => \A p \in Pools : Reserved(p) = IF quality = "down" THEN 0 ELSE HeldOf(p)
<1>. SUFFICES ASSUME MoneyTypes, NEW p \in Pools
     PROVE  Reserved(p) = IF quality = "down" THEN 0 ELSE HeldOf(p)
  OBVIOUS
<1>. DEFINE A == {r \in Rows : Live(r) /\ Pool(tasks[r].stage) = p}
            g == [r \in A |-> tasks[r].reserved]
<1>1. MapThenSumSet(LAMBDA r : tasks[r].reserved, A) = Total(g, A)
  BY DEF MapThenSumSet, MapThenFoldSet, Total, IsTotal
<1>2. PICK f : f = Held(p)
  OBVIOUS
<1>3. \A r \in Rows : f[r] \in Int /\ f[r] = IF r \in A THEN g[r] ELSE 0
  BY <1>2, ShareTypes DEF Held
<1>4. Rows \cap A = A
  OBVIOUS
<1>. HIDE DEF A, g
<1>5. Total(f, Rows) = Total(g, Rows \cap A)
  BY <1>3, RowsAreFinite, TotalFilter
<1>6. HeldOf(p) = Total(g, A)
  BY <1>2, <1>4, <1>5 DEF HeldOf
<1>. QED
  BY <1>1, <1>6 DEF Reserved, A

LEMMA CommittedIsHeld ==
  MoneyTypes =>
    /\ \A p \in Pools : /\ Committed(p) = spent[p] + lost[p] + (IF quality = "down" THEN 0 ELSE HeldOf(p))
                        /\ Committed(p) \in Nat
    /\ Used = Sunk + Committed("panel") + Committed("extension") /\ Used \in Nat
<1>. SUFFICES ASSUME MoneyTypes
     PROVE  /\ \A p \in Pools : /\ Committed(p) = spent[p] + lost[p] + (IF quality = "down" THEN 0 ELSE HeldOf(p))
                                /\ Committed(p) \in Nat
            /\ Used = Sunk + Committed("panel") + Committed("extension") /\ Used \in Nat
  OBVIOUS
<1>1. ASSUME NEW p \in Pools
      PROVE  /\ Committed(p) = spent[p] + lost[p] + (IF quality = "down" THEN 0 ELSE HeldOf(p))
             /\ Committed(p) \in Nat
  <2>1. Reserved(p) = IF quality = "down" THEN 0 ELSE HeldOf(p)
    BY ReservedIsHeld
  <2>2. spent[p] \in Nat /\ lost[p] \in Nat /\ HeldOf(p) \in Nat
    BY ShareTypes DEF MoneyTypes
  <2>. QED
    BY <2>1, <2>2 DEF Committed
<1>2. "panel" \in Pools /\ "extension" \in Pools
  BY DEF Pools
<1>3. Committed("panel") \in Nat /\ Committed("extension") \in Nat
  BY <1>1, <1>2
<1>4. Used = Sunk + Committed("panel") + Committed("extension")
  BY DEF Used
<1>. QED
  BY <1>1, <1>3, <1>4, QualityAssumption

\* One row changes its share of each pool and what it may still run.
LEMMA ShareChanges ==
  ASSUME MoneyTypes, MoneyTypes', NEW r \in Rows, \A q \in Rows \ {r} : tasks'[q] = tasks[q]
  PROVE  /\ \A p \in Pools : HeldOf(p)' = HeldOf(p) - Held(p)[r] + (Held(p)')[r]
         /\ RestOf' = RestOf - Rest[r] + (Rest')[r]
<1>1. ASSUME NEW p \in Pools
      PROVE  HeldOf(p)' = HeldOf(p) - Held(p)[r] + (Held(p)')[r]
  <2>1. PICK f, g : f = Held(p) /\ g = Held(p)'
    OBVIOUS
  <2>2. \A q \in Rows : f[q] \in Int
    BY <2>1, ShareTypes
  <2>3. \A q \in Rows : g[q] \in Int
    BY <2>1 DEF MoneyTypes, Held
  <2>4. \A q \in Rows \ {r} : g[q] = f[q]
    BY <2>1 DEF Held, Live
  <2>5. Total(g, Rows) = Total(f, Rows) - f[r] + g[r]
    BY <2>2, <2>3, <2>4, RowsAreFinite, TotalChange
  <2>. QED
    BY <2>1, <2>5 DEF HeldOf
<1>2. RestOf' = RestOf - Rest[r] + (Rest')[r]
  <2>1. PICK f, g : f = Rest /\ g = Rest'
    OBVIOUS
  <2>2. \A q \in Rows : f[q] \in Int
    BY <2>1, ShareTypes
  <2>3. \A q \in Rows : g[q] \in Int
    BY <2>1 DEF MoneyTypes, Rest
  <2>4. \A q \in Rows \ {r} : g[q] = f[q]
    BY <2>1 DEF Rest, Live
  <2>5. Total(g, Rows) = Total(f, Rows) - f[r] + g[r]
    BY <2>2, <2>3, <2>4, RowsAreFinite, TotalChange
  <2>. QED
    BY <2>1, <2>5 DEF RestOf
<1>. QED
  BY <1>1, <1>2

\* Live rows stay as they are, and no others become live.
LEMMA SharesStay ==
  ASSUME \A q \in Rows : Live(q)' <=> Live(q), \A q \in Rows : Live(q) => tasks'[q] = tasks[q]
  PROVE  /\ \A p \in Pools : HeldOf(p)' = HeldOf(p)
         /\ RestOf' = RestOf
<1>1. \A p \in Pools : Held(p)' = Held(p)
  BY DEF Held
<1>2. Rest' = Rest
  BY DEF Rest
<1>. QED
  BY <1>1, <1>2 DEF HeldOf, RestOf

\* Without a live row nothing is held.
LEMMA NothingHeld ==
  ASSUME \A q \in Rows : ~Live(q)
  PROVE  /\ \A p \in Pools : HeldOf(p) = 0
         /\ RestOf = 0
<1>1. ASSUME NEW p \in Pools
      PROVE  HeldOf(p) = 0
  <2>1. PICK f : f = Held(p)
    OBVIOUS
  <2>2. \A q \in Rows : f[q] = 0
    BY <2>1 DEF Held
  <2>3. Total(f, Rows) = 0 * Cardinality(Rows)
    BY <2>2, RowsAreFinite, TotalConstant
  <2>. QED
    BY <2>1, <2>3, RowsAreFinite, FS_CardinalityType DEF HeldOf
<1>2. RestOf = 0
  <2>1. PICK f : f = Rest
    OBVIOUS
  <2>2. \A q \in Rows : f[q] = 0
    BY <2>1 DEF Rest
  <2>3. Total(f, Rows) = 0 * Cardinality(Rows)
    BY <2>2, RowsAreFinite, TotalConstant
  <2>. QED
    BY <2>1, <2>3, RowsAreFinite, FS_CardinalityType DEF RestOf
<1>. QED
  BY <1>1, <1>2

AccountTypes ==
  /\ RestOf \in Nat /\ Due \in Int
  /\ excess["panel"] \in Nat /\ excess["extension"] \in Nat
  /\ Committed("panel") \in Nat /\ Committed("extension") \in Nat
  /\ Used = Sunk + Committed("panel") + Committed("extension")

LEMMA AccountsAreTyped == MoneyTypes => AccountTypes
  BY CommittedIsHeld, ShareTypes DEF Pools, MoneyTypes, AccountTypes, Due

LEMMA NextAccountsAreTyped == MoneyTypes' => AccountTypes'
<1>1. (MoneyTypes => AccountTypes)'
  BY AccountsAreTyped, PTL
<1>. QED
  BY <1>1

\* A step that changes what is committed by no more than the overruns it
\* charges.
LEMMA TimeStays ==
  ASSUME MoneyTypes, MoneyTypes', TimeIsCommitted, NEW x \in Int, NEW y \in Int,
         Committed("panel")' = Committed("panel") + x,
         Committed("extension")' = Committed("extension") + y,
         Due' + RestOf' <= Due + RestOf + x + y,
         excess'["panel"] >= excess["panel"] + x,
         excess'["extension"] >= excess["extension"] + y,
         Used = Sunk => x + y <= 0
  PROVE  TimeIsCommitted'
<1>1. AccountTypes /\ AccountTypes'
  BY AccountsAreTyped, NextAccountsAreTyped
<1>2. PICK a, b, c, d, e, f, g, h, i, j, k, l :
        /\ a = Committed("panel") /\ b = Committed("extension") /\ c = RestOf /\ d = Due
        /\ e = Committed("panel")' /\ f = Committed("extension")' /\ g = RestOf' /\ h = Due'
        /\ i = excess["panel"] /\ j = excess["extension"]
        /\ k = excess'["panel"] /\ l = excess'["extension"]
  OBVIOUS
<1>3. /\ a \in Nat /\ b \in Nat /\ c \in Nat /\ d \in Int /\ e \in Nat /\ f \in Nat /\ g \in Nat
      /\ h \in Int /\ i \in Nat /\ j \in Nat /\ k \in Nat /\ l \in Nat
  BY <1>1, <1>2 DEF AccountTypes
<1>4. Used = Sunk + a + b /\ Used' = Sunk + e + f
  BY <1>1, <1>2 DEF AccountTypes
<1>5. /\ Sunk + d + c <= Sunk + a + b
      /\ Sunk + a + b <= Limit + i + j \/ Sunk + a + b = Sunk
      /\ b <= ExtensionLimit + j
  BY <1>2, <1>4 DEF TimeIsCommitted
<1>6. /\ e = a + x /\ f = b + y /\ h + g <= d + c + x + y
      /\ k >= i + x /\ l >= j + y
      /\ Sunk + a + b = Sunk => x + y <= 0
  BY <1>2, <1>4
<1>7. Sunk \in Nat /\ Limit \in Nat /\ ExtensionLimit \in Nat
  BY QualityAssumption
<1>8. /\ Sunk + h + g <= Sunk + e + f
      /\ Sunk + e + f <= Limit + k + l \/ Sunk + e + f = Sunk
      /\ f <= ExtensionLimit + l
  BY ONLY <1>3, <1>5, <1>6, <1>7, x \in Int, y \in Int
<1>. QED
  BY <1>2, <1>4, <1>8 DEF TimeIsCommitted

\* A new reservation.
LEMMA TimeReserved ==
  ASSUME MoneyTypes, MoneyTypes', TimeIsCommitted, NEW stage, NEW cost \in Nat \ {0},
         Affordable(stage, cost),
         Committed("panel")' = IF stage = "extension" THEN Committed("panel") ELSE Committed("panel") + cost,
         Committed("extension")' = IF stage = "extension" THEN Committed("extension") + cost
                                   ELSE Committed("extension"),
         stage # "extension" => excess'["extension"] = excess["extension"],
         Due' = Due, RestOf' = RestOf + cost
  PROVE  TimeIsCommitted'
<1>1. AccountTypes /\ AccountTypes'
  BY AccountsAreTyped, NextAccountsAreTyped
<1>2. PICK a, b, c, d, e, f, g, h, j, k, l :
        /\ a = Committed("panel") /\ b = Committed("extension") /\ c = RestOf /\ d = Due
        /\ e = Committed("panel")' /\ f = Committed("extension")' /\ g = RestOf' /\ h = Due'
        /\ j = excess["extension"] /\ k = excess'["panel"] /\ l = excess'["extension"]
  OBVIOUS
<1>3. /\ a \in Nat /\ b \in Nat /\ c \in Nat /\ d \in Int /\ e \in Nat /\ f \in Nat /\ g \in Nat
      /\ h \in Int /\ j \in Nat /\ k \in Nat /\ l \in Nat
  BY <1>1, <1>2 DEF AccountTypes
<1>4. Used = Sunk + a + b /\ Used' = Sunk + e + f
  BY <1>1, <1>2 DEF AccountTypes
<1>7. Sunk \in Nat /\ Limit \in Nat /\ ExtensionLimit \in Nat
  BY QualityAssumption
<1>5. /\ Sunk + d + c <= Sunk + a + b
      /\ Sunk + a + b + cost <= Limit
      /\ b <= ExtensionLimit + j
      /\ stage = "extension" => b + cost <= ExtensionLimit
  BY <1>2, <1>3, <1>4, <1>7 DEF TimeIsCommitted, Affordable, RemainingSeconds
<1>6. /\ e = IF stage = "extension" THEN a ELSE a + cost
      /\ f = IF stage = "extension" THEN b + cost ELSE b
      /\ g = c + cost /\ h = d
      /\ stage # "extension" => l = j
  BY <1>2
<1>8. /\ Sunk + h + g <= Sunk + e + f
      /\ Sunk + e + f <= Limit + k + l
      /\ f <= ExtensionLimit + l
  BY ONLY <1>3, <1>5, <1>6, <1>7, cost \in Nat \ {0}
<1>. QED
  BY <1>2, <1>4, <1>8 DEF TimeIsCommitted

LEMMA NextCommitted ==
  MoneyTypes' => \A p \in Pools : Committed(p)' = spent'[p] + lost'[p] + (IF quality' = "down" THEN 0 ELSE HeldOf(p)')
<1>1. MoneyTypes => \A p \in Pools : Committed(p) = spent[p] + lost[p] + (IF quality = "down" THEN 0 ELSE HeldOf(p))
  BY CommittedIsHeld
<1>2. (MoneyTypes => \A p \in Pools : Committed(p) = spent[p] + lost[p] + (IF quality = "down" THEN 0 ELSE HeldOf(p)))'
  BY <1>1, PTL
<1>. QED
  BY <1>2

LEMMA NextHeld == MoneyTypes' => \A p \in Pools : HeldOf(p)' \in Nat
<1>1. MoneyTypes => \A p \in Pools : HeldOf(p) \in Nat
  BY ShareTypes
<1>2. (MoneyTypes => \A p \in Pools : HeldOf(p) \in Nat)'
  BY <1>1, PTL
<1>. QED
  BY <1>2

\* A step that moves nothing between the pools.
LEMMA PoolsStay ==
  ASSUME MoneyTypes, MoneyTypes', TimeIsCommitted, UNCHANGED excess,
         \A p \in Pools : Committed(p)' = Committed(p),
         Due' + RestOf' <= Due + RestOf
  PROVE  TimeIsCommitted'
<1>1. AccountTypes /\ AccountTypes'
  BY AccountsAreTyped, NextAccountsAreTyped
<1>2. /\ Committed("panel")' = Committed("panel") + 0
      /\ Committed("extension")' = Committed("extension") + 0
      /\ excess'["panel"] >= excess["panel"] + 0
      /\ excess'["extension"] >= excess["extension"] + 0
  BY <1>1 DEF Pools, AccountTypes
<1>3. Due' + RestOf' <= Due + RestOf + 0 + 0
  <2>1. PICK a, b, c, d : a = Due /\ b = RestOf /\ c = Due' /\ d = RestOf'
    OBVIOUS
  <2>2. a \in Int /\ b \in Nat /\ c \in Int /\ d \in Nat
    BY <1>1, <2>1 DEF AccountTypes
  <2>3. c + d <= a + b
    BY <2>1
  <2>4. c + d <= a + b + 0 + 0
    BY ONLY <2>2, <2>3
  <2>. QED
    BY <2>1, <2>4
<1>. QED
  BY <1>2, <1>3, TimeStays

\* A step that leaves the live workers and the accounts alone.
LEMMA AccountsStay ==
  ASSUME MoneyTypes, MoneyTypes', TimeIsCommitted,
         UNCHANGED <<spent, lost, computed, unpaid, excess>>,
         (quality' = "down") <=> (quality = "down"),
         \A q \in Rows : Live(q)' <=> Live(q), \A q \in Rows : Live(q) => tasks'[q] = tasks[q]
  PROVE  TimeIsCommitted'
<1>1. (\A p \in Pools : HeldOf(p)' = HeldOf(p)) /\ RestOf' = RestOf
  BY SharesStay
<1>2. \A p \in Pools : Committed(p)' = Committed(p)
  BY <1>1, CommittedIsHeld, NextCommitted
<1>3. Due' + RestOf' <= Due + RestOf
  BY <1>1, AccountsAreTyped DEF AccountTypes, Due
<1>. QED
  BY <1>2, <1>3, PoolsStay

LEMMA MoneyInitially == QualityInit => MoneyInv
<1>. SUFFICES ASSUME QualityInit
     PROVE  MoneyInv
  OBVIOUS
<1>1. MoneyTypes
  BY DEF QualityInit, MoneyTypes, Idle, NothingCharged, Pools, Live
<1>2. OneExtension
  BY DEF QualityInit, OneExtension
<1>3. TimeIsCommitted
  <2>1. RestOf = 0
    BY NothingHeld DEF QualityInit, Live, Idle
  <2>2. /\ quality = "down" /\ computed = 0 /\ unpaid = 0
        /\ excess["panel"] = 0 /\ excess["extension"] = 0
        /\ spent["panel"] = 0 /\ spent["extension"] = 0 /\ lost["panel"] = 0 /\ lost["extension"] = 0
    BY DEF QualityInit, NothingCharged
  <2>3. Committed("panel") = 0 /\ Committed("extension") = 0
    BY <1>1, <2>2, CommittedIsHeld DEF Pools
  <2>4. Used = Sunk
    BY <2>3, QualityAssumption DEF Used
  <2>. QED
    BY <2>1, <2>2, <2>3, <2>4, QualityAssumption DEF TimeIsCommitted, Due
<1>. QED
  BY <1>1, <1>2, <1>3 DEF MoneyInv

\* allocate and dispatch.
LEMMA DispatchIsPaid ==
  ASSUME CounterInv, MoneyTypes, TimeIsCommitted, quality # "down", quality' # "down",
         NEW t \in ready, t.row \notin Running, NEW cost \in Costs[t.stage],
         Affordable(t.stage, cost), Dispatched(t, cost), UNCHANGED <<spent, lost, computed, unpaid>>
  PROVE  MoneyTypes' /\ TimeIsCommitted'
<1>. DEFINE r == t.row
<1>1. r \in Rows /\ t.stage \in DOMAIN Target /\ cost \in Nat \ {0}
  BY QualityAssumption DEF CounterInv, TasksAreJustified
<1>2. /\ tasks'[r] = [state |-> "live", stage |-> t.stage, reserved |-> cost, elapsed |-> 0]
      /\ \A q \in Rows \ {r} : tasks'[q] = tasks[q]
      /\ ~Live(r)
  BY <1>1 DEF CounterInv, QualityTypes, Dispatched, Running, Live
<1>3. MoneyTypes'
  <2>1. excess' \in [Pools -> Nat]
    BY DEF MoneyTypes, Dispatched
  <2>. QED
    BY <1>1, <1>2, <2>1 DEF MoneyTypes, Live
<1>. HIDE DEF r
<1>4. /\ \A p \in Pools : HeldOf(p)' = HeldOf(p) - Held(p)[r] + (Held(p)')[r]
      /\ RestOf' = RestOf - Rest[r] + (Rest')[r]
  BY <1>1, <1>2, <1>3, ShareChanges
<1>5. /\ \A p \in Pools : Held(p)[r] = 0 /\ (Held(p)')[r] = IF Pool(t.stage) = p THEN cost ELSE 0
      /\ Rest[r] = 0 /\ (Rest')[r] = cost
  BY <1>1, <1>2 DEF Held, Rest, Live
<1>6. AccountTypes /\ \A p \in Pools : HeldOf(p) \in Nat
  BY AccountsAreTyped, ShareTypes
<1>7. RestOf' = RestOf + cost
  BY <1>1, <1>4, <1>5, <1>6 DEF AccountTypes
<1>8. \A p \in Pools : Committed(p)' = IF Pool(t.stage) = p THEN Committed(p) + cost ELSE Committed(p)
  <2>. SUFFICES ASSUME NEW p \in Pools
       PROVE  Committed(p)' = IF Pool(t.stage) = p THEN Committed(p) + cost ELSE Committed(p)
    OBVIOUS
  <2>1. HeldOf(p)' = IF Pool(t.stage) = p THEN HeldOf(p) + cost ELSE HeldOf(p)
    BY <1>1, <1>4, <1>5, <1>6
  <2>2. Committed(p)' = spent[p] + lost[p] + HeldOf(p)'
    BY <1>3, NextCommitted
  <2>3. Committed(p) = spent[p] + lost[p] + HeldOf(p)
    BY CommittedIsHeld
  <2>4. spent[p] \in Nat /\ lost[p] \in Nat
    BY DEF MoneyTypes
  <2>. QED
    BY <1>1, <1>6, <2>1, <2>2, <2>3, <2>4
<1>9. /\ Committed("panel")' = IF t.stage = "extension" THEN Committed("panel") ELSE Committed("panel") + cost
      /\ Committed("extension")' = IF t.stage = "extension" THEN Committed("extension") + cost
                                   ELSE Committed("extension")
  BY <1>8 DEF Pool, Pools
<1>10. t.stage # "extension" => excess'["extension"] = excess["extension"]
  BY DEF Dispatched, MoneyTypes, Pool, Pools
<1>11. Due' = Due
  BY DEF Due
<1>. QED
  BY <1>1, <1>3, <1>7, <1>9, <1>10, <1>11, TimeReserved

\* The completion takes the place of the reservation, overrun included.
LEMMA ReturnFrees ==
  ASSUME CounterInv, MoneyTypes, TimeIsCommitted, NEW r \in Rows,
         NEW how \in {"passed", "failed", "late"}, WorkerReturns(r, how)
  PROVE  MoneyTypes' /\ TimeIsCommitted'
<1>1. /\ Live(r) /\ UNCHANGED <<quality, lost, computed>>
      /\ DOMAIN tasks = Rows
      /\ {"state", "stage", "reserved", "elapsed"} \subseteq DOMAIN tasks[r]
      /\ tasks[r].reserved \in Nat /\ tasks[r].elapsed \in Nat /\ tasks[r].reserved > 0
  BY DEF WorkerReturns, CounterInv, QualityTypes, MoneyTypes
<1>2. /\ \A q \in Rows \ {r} : tasks'[q] = tasks[q]
      /\ ~Live(r)'
      /\ tasks'[r].reserved \in Nat /\ tasks'[r].elapsed \in Nat
  BY <1>1 DEF WorkerReturns, Idle, Live
<1>. DEFINE stage == Pool(tasks[r].stage)
            left == IF tasks[r].elapsed < tasks[r].reserved
                    THEN tasks[r].reserved - tasks[r].elapsed ELSE 0
            over == Overrun(r)
            change == tasks[r].elapsed - tasks[r].reserved
<1>3. /\ stage \in Pools /\ left \in Nat /\ over \in Nat /\ change \in Int
      /\ change = over - left /\ change + tasks[r].reserved = tasks[r].elapsed
  BY <1>1 DEF Pool, Pools, Overrun
<1>4. /\ spent' \in [Pools -> Nat] /\ excess' \in [Pools -> Nat] /\ unpaid' \in Int
      /\ quality # "down" => /\ unpaid' = unpaid - over
                             /\ spent' = [spent EXCEPT ![stage] = @ + tasks[r].elapsed]
                             /\ excess' = [excess EXCEPT ![stage] = @ + over]
      /\ quality = "down" => UNCHANGED <<spent, unpaid, excess>>
  <2>1. CASE quality = "down"
    BY <2>1 DEF WorkerReturns, MoneyTypes
  <2>2. CASE quality # "down"
    <3>1. /\ unpaid' = unpaid - over
          /\ spent' = [spent EXCEPT ![stage] = @ + tasks[r].elapsed]
          /\ excess' = [excess EXCEPT ![stage] = @ + over]
      BY <2>2 DEF WorkerReturns
    <3>. HIDE DEF over, stage
    <3>. QED
      BY <1>1, <1>3, <2>2, <3>1 DEF MoneyTypes
  <2>. QED
    BY <2>1, <2>2
<1>5. MoneyTypes'
  BY <1>1, <1>2, <1>4 DEF MoneyTypes, Live
<1>7. /\ \A p \in Pools : HeldOf(p)' = HeldOf(p) - Held(p)[r] + (Held(p)')[r]
      /\ RestOf' = RestOf - Rest[r] + (Rest')[r]
  BY <1>2, <1>5, ShareChanges
<1>8. /\ \A p \in Pools : Held(p)[r] = (IF stage = p THEN tasks[r].reserved ELSE 0) /\ (Held(p)')[r] = 0
      /\ Rest[r] = left /\ (Rest')[r] = 0
  BY <1>1, <1>2 DEF Held, Rest
<1>9. AccountTypes /\ \A p \in Pools : HeldOf(p) \in Nat /\ HeldOf(p)' \in Nat
  BY <1>5, AccountsAreTyped, ShareTypes, NextHeld
<1>. HIDE DEF stage, left, over, change
<1>10. RestOf' = RestOf - left
  BY <1>3, <1>7, <1>8, <1>9 DEF AccountTypes
<1>11. CASE quality = "down"
  <2>1. \A p \in Pools : Committed(p)' = Committed(p)
    BY <1>1, <1>4, <1>5, <1>11, CommittedIsHeld, NextCommitted
  <2>2. Due' + RestOf' <= Due + RestOf
    <3>1. Due' = Due
      BY <1>1, <1>4, <1>11 DEF Due
    <3>. QED
      BY <1>3, <1>9, <1>10, <3>1 DEF AccountTypes
  <2>. QED
    BY <1>4, <1>5, <1>11, <2>1, <2>2, PoolsStay
<1>12. CASE quality # "down"
  <2>0. \A p \in Pools : HeldOf(p)' = HeldOf(p) - (IF stage = p THEN tasks[r].reserved ELSE 0)
    BY <1>1, <1>7, <1>8, <1>9
  <2>1. \A p \in Pools : Committed(p)' = Committed(p) + (IF stage = p THEN change ELSE 0)
    <3>. SUFFICES ASSUME NEW p \in Pools
         PROVE  Committed(p)' = Committed(p) + (IF stage = p THEN change ELSE 0)
      OBVIOUS
    <3>2. spent'[p] = spent[p] + (IF stage = p THEN tasks[r].elapsed ELSE 0)
      BY <1>1, <1>4, <1>12 DEF MoneyTypes
    <3>3. Committed(p)' = spent'[p] + lost[p] + HeldOf(p)'
      BY <1>1, <1>5, <1>12, NextCommitted
    <3>4. Committed(p) = spent[p] + lost[p] + HeldOf(p)
      BY <1>12, CommittedIsHeld
    <3>5. spent[p] \in Nat /\ lost[p] \in Nat
      BY DEF MoneyTypes
    <3>. QED
      BY <1>1, <1>3, <1>9, <2>0, <3>2, <3>3, <3>4, <3>5
  <2>. DEFINE x == IF stage = "panel" THEN change ELSE 0
              y == IF stage = "extension" THEN change ELSE 0
  <2>2. x \in Int /\ y \in Int /\ x + y = change
    BY <1>3 DEF Pools
  <2>3. Committed("panel")' = Committed("panel") + x /\ Committed("extension")' = Committed("extension") + y
    BY <2>1 DEF Pools
  <2>4. excess'["panel"] >= excess["panel"] + x /\ excess'["extension"] >= excess["extension"] + y
    BY <1>3, <1>4, <1>12 DEF MoneyTypes, Pools
  <2>5. Used # Sunk
    <3>1. Committed(stage) > 0
      <4>1. Committed(stage) = spent[stage] + lost[stage] + HeldOf(stage)
        BY <1>3, <1>12, CommittedIsHeld
      <4>2. HeldOf(stage) >= tasks[r].reserved
        BY <1>1, <1>3, <1>9, <2>0
      <4>3. spent[stage] \in Nat /\ lost[stage] \in Nat /\ HeldOf(stage) \in Nat
        BY <1>3, <1>9 DEF MoneyTypes
      <4>. QED
        BY <1>1, <4>1, <4>2, <4>3
    <3>. QED
      BY <1>3, <1>9, <3>1, QualityAssumption DEF AccountTypes, Pools
  <2>6. Due' + RestOf' <= Due + RestOf + x + y
    <3>1. Due' = Due + over
      BY <1>1, <1>3, <1>4, <1>12 DEF Due, MoneyTypes
    <3>. HIDE DEF x, y
    <3>. QED
      BY <1>3, <1>9, <1>10, <2>2, <3>1 DEF AccountTypes
  <2>. HIDE DEF x, y
  <2>. QED
    BY <1>5, <2>2, <2>3, <2>4, <2>5, <2>6, TimeStays
<1>. QED
  BY <1>5, <1>11, <1>12

LEMMA MoneyKept == LeaseInv /\ CounterInv /\ CounterInv' /\ MoneyInv /\ QualityNext => MoneyInv'
<1>. SUFFICES ASSUME LeaseInv, CounterInv, CounterInv', MoneyInv, QualityNext
     PROVE  MoneyInv'
  OBVIOUS
<1>0. /\ MoneyTypes /\ OneExtension /\ TimeIsCommitted
      /\ DOMAIN tasks = Rows
      /\ \A r \in Rows : {"state", "stage", "reserved", "elapsed"} \subseteq DOMAIN tasks[r]
  BY DEF MoneyInv, CounterInv, QualityTypes
<1>quiet. ASSUME UNCHANGED <<spent, lost, computed, unpaid, excess, tasks>>, (quality' = "down") <=> (quality = "down"), OneExtension'
          PROVE  MoneyInv'
  <2>1. MoneyTypes'
    BY <1>0, <1>quiet DEF MoneyTypes, Live
  <2>2. TimeIsCommitted'
    BY <1>0, <1>quiet, <2>1, AccountsStay DEF Live
  <2>. QED
    BY <1>quiet, <2>1, <2>2 DEF MoneyInv
<1>1. CASE StartQuality
  <2>1. \A r \in Rows : ~Live(r) /\ ~Live(r)'
    BY <1>1 DEF StartQuality, LeaseFree, LeaseInv, QualityHeld, Live
  <2>2. UNCHANGED <<tasks, spent, lost, computed, unpaid, excess>> /\ quality' = "gates"
    BY <1>1 DEF StartQuality, ledger
  <2>3. MoneyTypes' /\ OneExtension'
    BY <1>0, <2>2 DEF MoneyTypes, OneExtension, Live
  <2>4. (\A p \in Pools : HeldOf(p) = 0 /\ HeldOf(p)' = 0) /\ RestOf' = RestOf
    BY <2>1, <2>2, NothingHeld, SharesStay
  <2>5. \A p \in Pools : Committed(p)' = Committed(p)
    BY <1>0, <2>2, <2>3, <2>4, CommittedIsHeld, NextCommitted
  <2>6. Due' + RestOf' <= Due + RestOf
    BY <1>0, <2>2, <2>4, AccountsAreTyped DEF AccountTypes, Due
  <2>. QED
    BY <1>0, <2>2, <2>3, <2>5, <2>6, PoolsStay DEF MoneyInv
<1>2. CASE SealGates \/ Count \/ Scan \/ Publish \/ Promote
  <2>1. UNCHANGED <<spent, lost, computed, unpaid, excess, tasks>> /\ quality # "down" /\ quality' # "down"
    <3>1. CASE SealGates
      BY <3>1 DEF SealGates, ledger
    <3>2. CASE Count \/ Scan
      BY <3>2 DEF Count, Scan, ledger
    <3>3. CASE Publish
      BY <3>3 DEF Publish, ledger
    <3>4. CASE Promote
      BY <3>4 DEF Promote, ledger
    <3>. QED
      BY <1>2, <3>1, <3>2, <3>3, <3>4
  <2>2. Running' = Running
    BY <2>1 DEF Running
  <2>3. OneExtension'
    <3>1. CASE SealGates \/ Count \/ Scan
      BY <3>1 DEF SealGates, Count, Scan, OneExtension
    <3>2. CASE Publish
      BY <2>2, <3>2 DEF Publish, OneExtension
    <3>3. CASE Promote
      <4>1. \A t \in ready' : t.stage = "extension"
        BY <3>3 DEF Promote, Task
      <4>. QED
        BY <1>0, <2>2, <3>3, <4>1 DEF Promote, OneExtension
    <3>. QED
      BY <1>2, <3>1, <3>2, <3>3
  <2>. QED
    BY <1>quiet, <2>1, <2>3
<1>3. CASE Allocate
  <2>1. quality = "allocate" /\ quality' = quality /\ UNCHANGED <<spent, lost, computed, unpaid>> /\ OneExtension'
    BY <1>3 DEF Allocate, ledger, OneExtension
  <2>2. PICK t \in Eligible : \E cost \in Costs[t.stage] :
          \/ Affordable(t.stage, cost) /\ Dispatched(t, cost)
          \/ UNCHANGED <<tasks, excess>>
    BY <1>3 DEF Allocate
  <2>3. t \in ready /\ t.row \notin Running
    BY DEF Eligible
  <2>4. CASE UNCHANGED <<tasks, excess>>
    BY <1>quiet, <2>1, <2>4
  <2>5. ASSUME NEW cost \in Costs[t.stage], Affordable(t.stage, cost), Dispatched(t, cost)
        PROVE  MoneyInv'
    BY <1>0, <2>1, <2>3, <2>5, DispatchIsPaid DEF MoneyInv
  <2>. QED
    BY <2>2, <2>4, <2>5
<1>4. CASE Extend
  <2>1. /\ quality = "extend" /\ quality' \in {"extend", "extension"}
        /\ UNCHANGED <<spent, lost, computed, unpaid>> /\ ready' \subseteq ready
    BY <1>4 DEF Extend, ledger
  <2>2. Running = {} /\ \A t \in ready : t.stage = "extension"
    BY <1>0, <2>1 DEF OneExtension
  <2>3. CASE UNCHANGED <<tasks, excess>> /\ quality' = "extend"
    <3>1. OneExtension'
      BY <2>1, <2>2, <2>3 DEF OneExtension, Running
    <3>. QED
      BY <1>quiet, <2>1, <2>3, <3>1
  <2>4. ASSUME NEW t \in ready, NEW cost \in Costs["extension"], Affordable("extension", cost),
               Dispatched(t, cost), quality' = "extension"
        PROVE  MoneyInv'
    <3>1. MoneyTypes' /\ TimeIsCommitted'
      <4>1. t.stage = "extension" /\ t.row \notin Running
        BY <2>2
      <4>. QED
        BY <1>0, <2>1, <2>4, <4>1, DispatchIsPaid
    <3>2. \A r \in Rows : r # t.row => tasks'[r].state = "none"
      BY <1>0, <2>2, <2>4 DEF Dispatched, Running
    <3>3. OneExtension'
      BY <2>1, <2>2, <2>4, <3>2 DEF OneExtension, Running
    <3>. QED
      BY <3>1, <3>3 DEF MoneyInv
  <2>. QED
    BY <1>4, <2>3, <2>4 DEF Extend
<1>5. CASE Collect \/ ExtensionEnds
  <2>1. PICK next \in {"gates", "extend"} : AfterWorkers(Finished, next) /\ quality # "down"
                                           /\ (next = "extend" => quality = "extension")
    BY <1>5 DEF Collect, ExtensionEnds
  <2>2. /\ UNCHANGED <<spent, lost, computed, unpaid, excess, ready>> /\ quality' \in {next, "drain"} /\ Finished # {}
        /\ tasks' = [r \in Rows |-> IF r \in Finished THEN Idle ELSE tasks[r]]
    BY <2>1 DEF AfterWorkers, ledger
  <2>3. /\ \A r \in Rows : Live(r)' <=> Live(r)
        /\ \A r \in Rows : Live(r) => tasks'[r] = tasks[r]
        /\ Running' = Running \ Finished
    BY <2>2 DEF Live, Finished, Running, Idle
  <2>4. MoneyTypes'
    BY <1>0, <2>2 DEF MoneyTypes, Idle, Live
  <2>5. TimeIsCommitted'
    BY <1>0, <2>1, <2>2, <2>3, <2>4, AccountsStay
  <2>6. OneExtension'
    <3>1. CASE quality' = "extend"
      BY <1>0, <2>1, <2>2, <2>3, <3>1 DEF OneExtension, Finished
    <3>2. CASE quality' # "extend"
      BY <2>2, <3>2 DEF OneExtension
    <3>. QED
      BY <3>1, <3>2
  <2>. QED
    BY <2>4, <2>5, <2>6 DEF MoneyInv
<1>6. CASE EndQuality
  <2>1. /\ \A r \in Rows : ~Live(r) /\ ~Live(r)'
        /\ UNCHANGED <<spent, lost, computed, unpaid, excess>> /\ quality' = "down" /\ quality # "down"
        /\ tasks' = [r \in Rows |-> Idle]
    BY <1>6 DEF EndQuality, ledger, Live, Idle
  <2>2. MoneyTypes' /\ OneExtension'
    BY <1>0, <2>1 DEF MoneyTypes, OneExtension, Idle, Live
  <2>3. (\A p \in Pools : HeldOf(p) = 0 /\ HeldOf(p)' = 0) /\ RestOf' = RestOf
    BY <2>1, NothingHeld, SharesStay
  <2>4. \A p \in Pools : Committed(p)' = Committed(p)
    <3>1. \A p \in Pools : spent[p] \in Nat /\ lost[p] \in Nat
      BY <1>0 DEF MoneyTypes
    <3>. QED
      BY <1>0, <2>1, <2>2, <2>3, <3>1, CommittedIsHeld, NextCommitted
  <2>5. Due' + RestOf' <= Due + RestOf
    BY <1>0, <2>1, <2>3, AccountsAreTyped DEF AccountTypes, Due
  <2>. QED
    BY <1>0, <2>1, <2>2, <2>4, <2>5, PoolsStay DEF MoneyInv
<1>7. CASE KillQuality
  <2>1. /\ quality # "down" /\ quality' = "down" /\ UNCHANGED <<spent, computed, unpaid, excess>>
        /\ lost' = [p \in DOMAIN lost |-> lost[p] + Reserved(p)]
        /\ tasks' = [r \in Rows |-> IF Live(r) THEN tasks[r] ELSE Idle]
    BY <1>7 DEF KillQuality
  <2>2. \A p \in Pools : Reserved(p) = HeldOf(p) /\ HeldOf(p) \in Nat /\ spent[p] \in Nat /\ lost[p] \in Nat
    BY <1>0, <2>1, ReservedIsHeld, ShareTypes DEF MoneyTypes
  <2>3. \A p \in Pools : lost'[p] = lost[p] + HeldOf(p)
    BY <1>0, <2>1, <2>2 DEF MoneyTypes
  <2>4. MoneyTypes'
    <3>1. lost' \in [Pools -> Nat]
      BY <1>0, <2>1, <2>2 DEF MoneyTypes
    <3>. QED
      BY <1>0, <2>1, <3>1 DEF MoneyTypes, Idle, Live
  <2>5. OneExtension'
    BY <2>1 DEF OneExtension
  <2>6. RestOf' = RestOf
    <3>1. /\ \A r \in Rows : Live(r)' <=> Live(r)
          /\ \A r \in Rows : Live(r) => tasks'[r] = tasks[r]
      BY <2>1 DEF Live, Idle
    <3>. QED
      BY <3>1, SharesStay
  <2>7. \A p \in Pools : Committed(p)' = Committed(p)
    <3>. SUFFICES ASSUME NEW p \in Pools
         PROVE  Committed(p)' = Committed(p)
      OBVIOUS
    <3>1. Committed(p)' = spent'[p] + lost'[p] + 0
      BY <2>1, <2>4, NextCommitted
    <3>2. Committed(p) = spent[p] + lost[p] + HeldOf(p)
      BY <1>0, <2>1, CommittedIsHeld
    <3>3. spent'[p] = spent[p] /\ lost'[p] = lost[p] + HeldOf(p)
      BY <2>1, <2>3
    <3>. QED
      BY <2>2, <3>1, <3>2, <3>3
  <2>8. Due' + RestOf' <= Due + RestOf
    BY <1>0, <2>1, <2>6, AccountsAreTyped DEF AccountTypes, Due
  <2>. QED
    BY <1>0, <2>1, <2>4, <2>5, <2>7, <2>8, PoolsStay DEF MoneyInv
<1>8. ASSUME NEW r \in Rows, SealImage(r)
      PROVE  MoneyInv'
  BY <1>0, <1>8, <1>quiet DEF SealImage, ledger, pass, OneExtension, Running
<1>9. ASSUME NEW r \in Rows, NEW how \in {"passed", "failed", "late"}, WorkerReturns(r, how)
      PROVE  MoneyInv'
  <2>1. MoneyTypes' /\ TimeIsCommitted'
    BY <1>0, <1>9, ReturnFrees
  <2>2. UNCHANGED <<quality, ready>> /\ Live(r) /\ Running' \subseteq Running
    BY <1>0, <1>9 DEF WorkerReturns, Running, Live, Idle, pass
  <2>3. OneExtension'
    BY <1>0, <2>2 DEF OneExtension
  <2>. QED
    BY <2>1, <2>3 DEF MoneyInv
<1>10. ASSUME NEW r \in Rows, Elapse(r)
       PROVE  MoneyInv'
  <2>1. /\ Live(r) /\ UNCHANGED <<quality, spent, lost, excess, ready>>
        /\ tasks' = [tasks EXCEPT ![r].elapsed = @ + 1] /\ computed' = computed + 1
        /\ unpaid' = IF tasks[r].elapsed < tasks[r].reserved THEN unpaid ELSE unpaid + 1
    BY <1>10 DEF Elapse, pass
  <2>2. /\ tasks[r].elapsed \in Nat /\ tasks[r].reserved \in Nat
        /\ tasks'[r].state = tasks[r].state /\ tasks'[r].stage = tasks[r].stage
        /\ tasks'[r].reserved = tasks[r].reserved /\ tasks'[r].elapsed = tasks[r].elapsed + 1
        /\ \A q \in Rows \ {r} : tasks'[q] = tasks[q]
    BY <1>0, <2>1 DEF MoneyTypes
  <2>3. MoneyTypes'
    <3>1. unpaid' \in Int
      BY <1>0, <2>1 DEF MoneyTypes
    <3>. QED
      BY <1>0, <2>1, <2>2, <3>1 DEF MoneyTypes, Live
  <2>4. OneExtension'
    <3>1. Running' = Running
      BY <2>2 DEF Running
    <3>. QED
      BY <1>0, <2>1, <3>1 DEF OneExtension
  <2>5. /\ \A p \in Pools : HeldOf(p)' = HeldOf(p) - Held(p)[r] + (Held(p)')[r]
        /\ RestOf' = RestOf - Rest[r] + (Rest')[r]
    BY <1>0, <2>2, <2>3, ShareChanges
  <2>6. /\ \A p \in Pools : (Held(p)')[r] = Held(p)[r] /\ Held(p)[r] \in Nat /\ HeldOf(p) \in Nat
        /\ Rest[r] \in Nat
    <3>1. \A p \in Pools : (Held(p)')[r] = Held(p)[r]
      BY <2>2 DEF Held, Live
    <3>. QED
      BY <1>0, <3>1, ShareTypes
  <2>7. \A p \in Pools : Committed(p)' = Committed(p)
    <3>1. \A p \in Pools : HeldOf(p)' = HeldOf(p)
      BY <2>5, <2>6
    <3>. QED
      BY <1>0, <2>1, <2>3, <3>1, CommittedIsHeld, NextCommitted
  <2>8. Due' + RestOf' <= Due + RestOf
    <3>1. RestOf \in Nat /\ Due \in Int /\ computed \in Nat /\ unpaid \in Int
      BY <1>0, AccountsAreTyped DEF AccountTypes, MoneyTypes
    <3>2. CASE tasks[r].elapsed < tasks[r].reserved
      <4>1. (Rest')[r] = Rest[r] - 1
        BY <2>1, <2>2, <3>2 DEF Rest, Live
      <4>2. RestOf' = RestOf - 1
        BY <2>5, <2>6, <3>1, <4>1
      <4>3. Due' = Due + 1
        BY <2>1, <3>1, <3>2 DEF Due
      <4>. QED
        BY <3>1, <4>2, <4>3
    <3>3. CASE ~(tasks[r].elapsed < tasks[r].reserved)
      <4>1. Rest[r] = 0 /\ (Rest')[r] = 0
        BY <2>2, <3>3 DEF Rest
      <4>2. RestOf' = RestOf
        BY <2>5, <3>1, <4>1
      <4>3. Due' = Due
        BY <2>1, <3>1, <3>3 DEF Due
      <4>. QED
        BY <3>1, <4>2, <4>3
    <3>. QED
      BY <3>2, <3>3
  <2>. QED
    BY <1>0, <2>1, <2>3, <2>4, <2>7, <2>8, PoolsStay DEF MoneyInv
<1>. QED
  BY <1>1, <1>2, <1>3, <1>4, <1>5, <1>6, <1>7, <1>8, <1>9, <1>10 DEF QualityNext

\* AllowanceIsKept for every order of cases, cost, limit and bound, in every
\* mixture of campaigns: a reservation covers the time its worker may still
\* run within it until the completion, or for good the loss, that replaces
\* it; a completion adds its overrun to what is due, to what is committed
\* and to the excess alike; and what an allocation commits fits the allowance
\* with every overrun charged before it.
THEOREM StudyStaysInAllowance == CampaignsSpec => []AllowanceIsKept
<1>1. MoneyInv => AllowanceIsKept
  <2>. SUFFICES ASSUME MoneyInv
       PROVE  AllowanceIsKept
    OBVIOUS
  <2>1. AccountTypes /\ TimeIsCommitted
    BY AccountsAreTyped DEF MoneyInv
  <2>2. Sunk + computed <= Used + unpaid
    <3>1. Sunk \in Nat /\ computed \in Nat /\ unpaid \in Int /\ RestOf \in Nat /\ Used \in Nat
      BY <2>1, CommittedIsHeld, QualityAssumption DEF AccountTypes, MoneyInv, MoneyTypes
    <3>2. Sunk + (computed - unpaid) + RestOf <= Used
      BY <2>1 DEF TimeIsCommitted, Due
    <3>. QED
      BY <3>1, <3>2
  <2>. QED
    BY <2>1, <2>2 DEF TimeIsCommitted, AllowanceIsKept
<1>2. CampaignsInit => LeaseInv /\ CounterInv /\ MoneyInv
  BY LeaseInitially, CounterInitially, MoneyInitially DEF CampaignsInit
<1>3. LeaseInv /\ CounterInv /\ MoneyInv /\ [CampaignsNext]_campaignVars
      => LeaseInv' /\ CounterInv' /\ MoneyInv'
  <2>1. LeaseInv /\ [CampaignsNext]_campaignVars => LeaseInv'
    BY LeaseKept, LeaseUntouched
  <2>2. CounterInv /\ [CampaignsNext]_campaignVars => CounterInv'
    BY CounterKept, CounterUntouched DEF CampaignsNext, ChainStep, BridgeStep, QualityStep, campaignVars
  <2>3. MoneyInv /\ UNCHANGED qualityVars => MoneyInv'
    <3>. SUFFICES ASSUME MoneyInv, UNCHANGED qualityVars
         PROVE  MoneyInv'
      OBVIOUS
    <3>1. UNCHANGED <<quality, tasks, spent, lost, computed, unpaid, excess, ready>>
      BY DEF qualityVars, ledger, pass
    <3>2. MoneyTypes' /\ OneExtension'
      BY <3>1 DEF MoneyInv, MoneyTypes, OneExtension, Running, Live
    <3>. QED
      BY <3>1, <3>2, AccountsStay DEF MoneyInv, Live
  <2>4. LeaseInv /\ CounterInv /\ CounterInv' /\ MoneyInv /\ [CampaignsNext]_campaignVars => MoneyInv'
    BY <2>3, MoneyKept DEF CampaignsNext, ChainStep, BridgeStep, QualityStep, campaignVars
  <2>. QED
    BY <2>1, <2>2, <2>4
<1>. QED
  BY <1>1, <1>2, <1>3, PTL DEF CampaignsSpec

=============================================================================
