-------------------------- MODULE AccumulatorSweep --------------------------
(* The resumable runners of the accumulator sweep                          *)
(* (src/tools/run/accumulator_sweep_run.py).  A location runner measures a *)
(* ladder of register widths on 128 images of every case and refines it    *)
(* next to the two transitions; a screen runner measures the bracket that  *)
(* results on 1000 images and extends it.  Neither keeps a state of its    *)
(* own on disk: both read the sealed prediction files.  Every measurement  *)
(* is a process that outlives its runner, so a runner that is started again *)
(* finds the jobs of its predecessor in /proc.                             *)
EXTENDS AccumulatorPlan, Sequences, SequencesExt

CONSTANTS
  Cases,          \* the cases that enter the sweep
  CaseOrder,      \* the order in which the protocol lists them
  WCert,          \* [Cases -> Nat], W_cert_abs
  Wide,           \* the policy of the exact arm
  Static,         \* [Cases -> set of float policies of the location phase]
  Others,         \* [Cases -> set of <<policy, priority>> of the 1k grid]
  Truths,         \* what the engine would measure, see TruthsAssumption
  Jobs,           \* --jobs
  Retries,        \* RETRIES
  MaxStarts,      \* [Runners -> Nat], bound: how often a runner is started
  MaxFaults       \* bound: runners killed and jobs that fail on their own

LOCATION == 128
SCREEN == 1000

location == "location"
screen == "screen"
nobody == "nobody"
Runners == {location, screen}

Widths(c) == MIN_WIDTH..(WCert[c] - 1)
Policies(c) == Widths(c) \cup {Wide} \cup Static[c] \cup {o[1] : o \in Others[c]}

\* A narrower register overflows whenever a wider one does, and what happens
\* on 128 images happens on 1000; without an event the output is the exact arm.
TruthsAssumption ==
  /\ CaseOrder \in Seq(Cases) /\ ToSet(CaseOrder) = Cases
  /\ \A t \in Truths :
       /\ t.event[LOCATION] <= t.event[SCREEN]
       /\ \A n \in {LOCATION, SCREEN} :
            t.event[n] \in Int /\ t.low[n] \in Int /\ t.low[n] <= t.event[n]

ASSUME TruthsAssumption

ASSUME WCertAssumption == WCert \in [Cases -> Nat]

\* The exact arm and the float policies are not registers.
ASSUME PolicyAssumption ==
  \A c \in Cases :
    /\ IsFiniteSet(Static[c])
    /\ ({Wide} \cup Static[c]) \cap Widths(c) = {}

ASSUME JobsAssumption == Jobs \in Nat

VARIABLES
  truth,     \* [Cases -> Truths]: widest width with an event, widest at half
  files,     \* [Cases -> [policy -> set of sealed ranges <<start, stop>>]]
  live,      \* the predict processes
  markers,   \* runners whose <phase>.done exists
  phase,     \* of each runner: down, up, done
  agenda,    \* what is left to visit in this pass
  attempt,   \* the keys this visit (or pass) still tries to launch
  descend,   \* the location runner tries ladder rungs: one new rung per visit
  chosen,    \* the key that passed its checks and is being launched
  pending,   \* something of this pass is not measured yet
  hopeful,   \* some queued key of the screen pass has not failed for good
  ended,     \* exited children that were not polled yet
  failures,  \* [runner -> [<<case, policy>> -> Nat]], in memory
  extra,     \* widths the extension rules added, in the screen runner's memory
  starts, faults

passVars == <<agenda, attempt, descend, chosen, pending, hopeful>>
bounds == <<starts, faults>>
sweepVars == <<truth, files, live, markers, phase, passVars, ended, failures, extra, bounds>>

-----------------------------------------------------------------------------
(* Sealed files *)

Ranges == {<<0, LOCATION>>, <<0, SCREEN>>, <<LOCATION, SCREEN>>}

\* The ranges tile start..stop, taking the longest file first.
Covering(ranges, start, stop) ==
  LET from[at \in {0, LOCATION, SCREEN}] ==
        at = stop \/ LET options == {f \in ranges : f[1] = at /\ f[2] <= stop}
                     IN  options # {} /\ from[Max({f[2] : f \in options})]
  IN  from[start]

PrefixEnd(c, p, stop) ==
  Max({0} \cup {f[2] : f \in {g \in files[c][p] : g[2] <= stop /\ Covering(files[c][p], 0, g[2])}})

Covered(c, p, stop) == Covering(files[c][p], 0, stop)

Result(c, w, stop) ==
  [event |-> w <= truth[c].event[stop], low |-> w <= truth[c].low[stop]]

Measured(c) == [w \in {v \in Widths(c) : Covered(c, v, LOCATION)} |-> Result(c, w, LOCATION)]

LadderOver(c) ==
  /\ Covered(c, Wide, LOCATION)
  /\ LadderDone(Measured(c)) \/ Ladder(WCert[c]) \subseteq DOMAIN Measured(c)

\* Faulty: the refinement of the ladder is forgotten.
LadderMeasured(c) == DOMAIN Measured(c) # {} /\ LadderOver(c)

LocationComplete(c) ==
  /\ DOMAIN Measured(c) # {}
  /\ LadderOver(c)
  /\ Refine(Measured(c), WCert[c]) = {}

-----------------------------------------------------------------------------
(* The pool of one runner *)

Own(r) == {j \in live : j.owner = r} \cup {e.job : e \in ended[r]}
External(r) == {j \in live : j.owner # r}

\* Faulty: a runner that knows of its own jobs only.
OwnBusy(r, k) == \E j \in Own(r) : j.case = k.case /\ j.policy = k.policy

Busy(r, k) == \E j \in Own(r) \cup External(r) : j.case = k.case /\ j.policy = k.policy

\* Faulty: a limit per runner.
OwnFull(r) == Cardinality(Own(r)) >= Jobs

Full(r) == Cardinality(Own(r)) + Cardinality(External(r)) >= Jobs
Failed(r, c, p) == failures[r][<<c, p>>] > Retries

Stop(r) == IF r = location THEN LOCATION ELSE SCREEN

Key(c, p, priority) == [case |-> c, policy |-> p, priority |-> priority]

\* Descending widths within a visit, priorities within the screen queue.
Before(r, j, k) ==
  IF r = screen THEN j.priority < k.priority
  ELSE j.policy \in Widths(j.case) /\ k.policy \in Widths(k.case) /\ j.policy > k.policy

Urgent(r, keys) == {k \in keys : \A j \in keys : ~Before(r, j, k)}

\* The range that is not sealed yet.
Launch(r) ==
  /\ phase[r] = "up"
  /\ \E k \in chosen[r] :
       live' = live \cup {[case |-> k.case, policy |-> k.policy, owner |-> r,
                           start |-> PrefixEnd(k.case, k.policy, Stop(r)), stop |-> Stop(r)]}
  /\ chosen' = [chosen EXCEPT ![r] = {}]
  /\ UNCHANGED <<truth, files, markers, phase, agenda, attempt, descend, pending, hopeful,
                 ended, failures, extra, bounds>>

\* Look for a slot for the next key that is not running yet; a full pool ends
\* the visit.  The ladder takes one new rung per visit.
Try(r) ==
  /\ phase[r] = "up" /\ chosen[r] = {} /\ attempt[r] # {}
  /\ r = screen => agenda[r] = <<>>
  /\ LET idle == {k \in attempt[r] : ~Busy(r, k) /\ ~Failed(r, k.case, k.policy)}
     IN  IF idle = {} \/ Full(r)
         THEN /\ attempt' = [attempt EXCEPT ![r] = {}]
              /\ UNCHANGED chosen
         ELSE \E k \in Urgent(r, idle) :
                /\ attempt' = [attempt EXCEPT ![r] = IF r = location /\ descend THEN {} ELSE idle \ {k}]
                /\ chosen' = [chosen EXCEPT ![r] = {k}]
  /\ UNCHANGED <<truth, files, live, markers, phase, agenda, descend, pending, hopeful,
                 ended, failures, extra, bounds>>

-----------------------------------------------------------------------------
(* Passes *)

\* What a pass visits: for the location runner the static jobs of a case and
\* then its ladder, for the screen runner the case.
Visits(r, c) ==
  IF r = screen THEN <<[case |-> c, static |-> {}]>>
  ELSE Append([i \in 1..(1 + Cardinality(Static[c])) |->
                 [case |-> c, static |-> {IF i = 1 THEN Wide ELSE SetToSeq(Static[c])[i - 1]}]],
              [case |-> c, static |-> {}])

Agenda(r) == FlattenSeq([i \in 1..Len(CaseOrder) |-> Visits(r, CaseOrder[i])])

\* What a process has in memory at the start of a pass, and after its end.
Fresh(r, visits) ==
  /\ agenda' = [agenda EXCEPT ![r] = visits]
  /\ attempt' = [attempt EXCEPT ![r] = {}]
  /\ chosen' = [chosen EXCEPT ![r] = {}]
  /\ pending' = [pending EXCEPT ![r] = FALSE]
  /\ hopeful' = IF r = screen THEN FALSE ELSE hopeful
  /\ descend' = IF r = location THEN FALSE ELSE descend

Forget(r) ==
  /\ Fresh(r, <<>>)
  /\ ended' = [ended EXCEPT ![r] = {}]
  /\ failures' = [failures EXCEPT ![r] = [x \in DOMAIN @ |-> 0]]
  /\ extra' = IF r = screen THEN [c \in Cases |-> {}] ELSE extra

\* poll() counts the exits since the last pass.
Polled(r) ==
  [x \in DOMAIN failures[r] |->
     failures[r][x] + Cardinality({e \in ended[r] : ~e.ok /\ <<e.job.case, e.job.policy>> = x})]

Visiting(r) == phase[r] = "up" /\ chosen[r] = {} /\ agenda[r] # <<>>

VisitLocation ==
  /\ Visiting(location) /\ attempt[location] = {}
  /\ LET c == Head(agenda[location]).case
         static == Head(agenda[location]).static
         missing == IF static # {} THEN {p \in static : ~Covered(c, p, LOCATION)}
                    ELSE IF ~LadderOver(c) THEN Ladder(WCert[c]) \ DOMAIN Measured(c)
                    ELSE Refine(Measured(c), WCert[c])
         \* refinement waits for every started rung (of this runner)
         wait == /\ static = {} /\ LadderOver(c)
                 /\ \E j \in Own(location) : j.case = c /\ j.policy \in Widths(c)
         keys == {Key(c, p, 0) : p \in {q \in missing : ~Failed(location, c, q)}}
     IN  /\ attempt' = [attempt EXCEPT ![location] = IF wait THEN {} ELSE keys]
         /\ pending' = [pending EXCEPT ![location] = @ \/ wait \/ keys # {}]
         /\ descend' = (static = {} /\ ~LadderOver(c))
  /\ agenda' = [agenda EXCEPT ![location] = Tail(@)]
  /\ UNCHANGED <<truth, files, live, markers, phase, chosen, hopeful, ended, failures, extra, bounds>>

BracketWidths(c) ==
  LET b == Bracket(Measured(c), WCert[c]) IN (b.bottom..b.top) \cup extra[c]

Grid(c) ==
  {Key(c, p, 1) : p \in BracketWidths(c) \cup {Wide}} \cup {Key(c, o[1], o[2]) : o \in Others[c]}

\* The widths the extension rules ask for, on complete 1k results only.
Extensions(c) ==
  LET results == [w \in BracketWidths(c) |-> Result(c, w, SCREEN)]
  IN  IF \A p \in BracketWidths(c) \cup {Wide} : Covered(c, p, SCREEN)
      THEN ExtendTop(results, WCert[c]) \cup ExtendBottom(results) ELSE {}

SkipCase(c) ==
  /\ ~LocationComplete(c)
  /\ pending' = [pending EXCEPT ![screen] = @ \/ location \notin markers]
  /\ UNCHANGED <<attempt, hopeful, extra>>

QueueCase(c) ==
  /\ LocationComplete(c)
  /\ LET queue == {k \in Grid(c) : PrefixEnd(c, k.policy, SCREEN) < SCREEN}
     IN  /\ attempt' = [attempt EXCEPT ![screen] = @ \cup queue]
         /\ pending' = [pending EXCEPT ![screen] = @ \/ queue # {} \/ Extensions(c) \ extra[c] # {}]
         /\ hopeful' = (hopeful \/ \E k \in queue : ~Failed(screen, c, k.policy))
  /\ extra' = [extra EXCEPT ![c] = @ \cup Extensions(c)]

VisitScreen ==
  /\ Visiting(screen)
  /\ LET c == Head(agenda[screen]).case IN SkipCase(c) \/ QueueCase(c)
  /\ agenda' = [agenda EXCEPT ![screen] = Tail(@)]
  /\ UNCHANGED <<truth, files, live, markers, phase, descend, chosen, ended, failures, bounds>>

PassOver(r) == phase[r] = "up" /\ agenda[r] = <<>> /\ attempt[r] = {} /\ chosen[r] = {}

\* Faulty: the end of the last child is the end.
OverWhenIdle(r) == Own(r) = {}
\* Faulty: waits for jobs that have failed for good.
OverWhenSealed(r) == Own(r) = {} /\ ~pending[r]

\* Nothing is left to wait for: the marker is written.
Over(r) ==
  /\ Own(r) = {}
  /\ ~pending[r] \/ (r = screen /\ ~hopeful)

Finish(r) ==
  /\ PassOver(r) /\ Over(r)
  /\ phase' = [phase EXCEPT ![r] = "done"]
  /\ markers' = markers \cup {r}
  /\ Forget(r)
  /\ UNCHANGED <<truth, files, live, bounds>>

NextPass(r) ==
  /\ PassOver(r) /\ ~Over(r)
  /\ failures' = [failures EXCEPT ![r] = Polled(r)]
  /\ ended' = [ended EXCEPT ![r] = {}]
  /\ Fresh(r, Agenda(r))
  /\ UNCHANGED <<truth, files, live, markers, phase, extra, bounds>>

-----------------------------------------------------------------------------
(* The processes around the runners *)

Exited(j, ok) ==
  /\ live' = live \ {j}
  /\ ended' = [r \in Runners |-> IF r = j.owner THEN ended[r] \cup {[job |-> j, ok |-> ok]} ELSE ended[r]]
  /\ UNCHANGED <<truth, markers, phase, passVars, failures, extra, starts>>

\* predict refuses an empty range and a register above the 63 bits of its
\* contract.
Accepted(j) == j.start < j.stop /\ (j.policy \in Widths(j.case) => j.policy <= MAX_WIDTH)

\* predict seals one file.
Seal(j) ==
  /\ Accepted(j)
  /\ files' = [files EXCEPT ![j.case][j.policy] = @ \cup {<<j.start, j.stop>>}]
  /\ Exited(j, TRUE)
  /\ UNCHANGED faults

Fail(j) ==
  /\ IF Accepted(j) THEN faults < MaxFaults /\ faults' = faults + 1 ELSE UNCHANGED faults
  /\ Exited(j, FALSE)
  /\ UNCHANGED files

Start(r) ==
  /\ phase[r] = "down" /\ starts[r] < MaxStarts[r]
  /\ starts' = [starts EXCEPT ![r] = @ + 1]
  /\ phase' = [phase EXCEPT ![r] = "up"]
  /\ Fresh(r, Agenda(r))
  /\ UNCHANGED <<truth, files, live, markers, ended, failures, extra, faults>>

\* A runner dies; its jobs go on.
Kill(r) ==
  /\ phase[r] = "up" /\ faults < MaxFaults
  /\ faults' = faults + 1
  /\ phase' = [phase EXCEPT ![r] = "down"]
  /\ live' = {[j EXCEPT !.owner = IF @ = r THEN nobody ELSE @] : j \in live}
  /\ Forget(r)
  /\ UNCHANGED <<truth, files, markers, starts>>

-----------------------------------------------------------------------------

SweepInit ==
  /\ truth \in [Cases -> Truths]
  /\ files = [c \in Cases |-> [p \in Policies(c) |-> {}]]
  /\ live = {} /\ markers = {}
  /\ phase = [r \in Runners |-> "down"]
  /\ agenda = [r \in Runners |-> <<>>]
  /\ attempt = [r \in Runners |-> {}]
  /\ descend = FALSE
  /\ chosen = [r \in Runners |-> {}]
  /\ pending = [r \in Runners |-> FALSE]
  /\ hopeful = FALSE
  /\ ended = [r \in Runners |-> {}]
  /\ failures = [r \in Runners |-> [x \in UNION {{c} \X Policies(c) : c \in Cases} |-> 0]]
  /\ extra = [c \in Cases |-> {}]
  /\ starts = [r \in Runners |-> 0]
  /\ faults = 0

Run(r) ==
  \/ Launch(r) \/ Try(r) \/ Finish(r) \/ NextPass(r)
  \/ r = location /\ VisitLocation
  \/ r = screen /\ VisitScreen

Exit == \E j \in live : Seal(j) \/ Fail(j)

SweepNext ==
  \/ \E r \in Runners : Run(r) \/ Start(r) \/ Kill(r)
  \/ Exit

\* What every step of a runner changes, and else only its start or death.
Progress(r) == <<phase[r], agenda[r], attempt[r], chosen[r]>>

\* The runners sleep and go on, and every predict process exits (it has a
\* deadline for its memory and then works through its range): weak fairness
\* of Run and Exit, with the conditions under which they are enabled written
\* out and their steps known by what they change.
SweepSpec ==
  /\ SweepInit /\ [][SweepNext]_sweepVars
  /\ \A r \in Runners : []<>(phase[r] # "up") \/ []<><<phase[r] = "up">>_(Progress(r))
  /\ []<>(live = {}) \/ []<><<Cardinality(live') < Cardinality(live)>>_live

-----------------------------------------------------------------------------
(* Properties *)

\* "At most 3 GPU jobs of this lane at a time" (--jobs), the jobs of dead
\* runners included.  One runner keeps the limit whenever it is killed and
\* started again; two runners read /proc before either launches, which can
\* add one job, and never more.
LaneLimit ==
  Cardinality(live) + Cardinality(chosen[location]) + Cardinality(chosen[screen])
    <= Jobs + (IF \A r \in Runners : starts[r] > 0 THEN 1 ELSE 0)

\* "Their (case, policy) is never launched twice": no two processes measure
\* the same range, whoever started them and whatever was sealed between the
\* pass that read the files and the launch (which can then only launch an
\* empty range, that predict refuses).
NoRangeTwice ==
  \A j, k \in live :
    /\ j.start < j.stop /\ k.start < k.stop
    /\ <<j.case, j.policy, j.stop>> = <<k.case, k.policy, k.stop>>
    => j = k

\* What every admissible width would measure on the 128 images.
Exhaustive(c) == [w \in MIN_WIDTH..Widest(WCert[c]) |-> Result(c, w, LOCATION)]

\* The ladder has 12 rungs: both transitions lie at or above its narrowest one,
\* or that one is so narrow that the bracket starts at 2 bits anyway.
WithinReach(c) ==
  \E w \in Ladder(WCert[c]) :
    /\ w - 1 <= truth[c].event[LOCATION]
    /\ w <= truth[c].low[LOCATION] \/ w - BOTTOM_MARGIN <= MIN_WIDTH

\* The location phase measures few widths and stops early; once it calls a
\* case complete, the bracket is the one all widths would have given, in
\* whatever order the rungs came back and whichever of them failed, if the
\* ladder reaches down to the transitions at all.
BracketIsExact ==
  \A c \in Cases :
    LocationComplete(c) /\ WithinReach(c) =>
      Bracket(Measured(c), WCert[c]) = Bracket(Exhaustive(c), WCert[c])

\* The widths that only the sweep of a case asks for.
Swept(c) == Widths(c) \ ({Wide} \cup {o[1] : o \in Others[c]})

\* The screen runner spends 1k runs on the bracket and on what the extension
\* rules can ask for, also while location jobs are still landing.
ScreenStaysInBracket ==
  \A c \in Cases : \A w \in Swept(c) :
    WithinReach(c) /\ (\E j \in live : <<j.case, j.policy, j.stop>> = <<c, w, SCREEN>>) =>
      LET b == Bracket(Exhaustive(c), WCert[c])
      IN  /\ w <= b.top \/ w <= truth[c].event[SCREEN] + 1
          /\ w >= b.bottom \/ w >= truth[c].low[SCREEN] - BOTTOM_MARGIN

\* location.done tells the screen runner that a case that is not complete
\* never will be.  It is written only over complete cases, unless a job failed
\* for good: rungs of an earlier runner that still land do not make a complete
\* case incomplete.  (Below 4 bits there is no ladder.)
LocationEndsComplete ==
  [][\A c \in Cases :
       phase[location] = "up" /\ phase'[location] = "done" =>
         \/ LocationComplete(c)
         \/ Ladder(WCert[c]) = {}
         \/ \E p \in Policies(c) : Failed(location, c, p)]_sweepVars

\* A runner does not poll for ever: not for jobs that failed for good, not
\* for slots that orphans hold.
RunnersEnd == \A r \in Runners : phase[r] = "up" ~> phase[r] # "up"

\* "While the 1k run at the widest bracket width has any saturation event, add
\* the next wider width" (accumulator-sweep-protocol-v1.json, and the same
\* downward): the screen runner does not end before the widths it added are
\* measured.  It does: with an empty queue, `all(...)` over the queue is true.
ExtensionsAreRun ==
  [][phase[screen] = "up" /\ phase'[screen] = "done" =>
       \A c \in Cases : \A w \in extra[c] : Covered(c, w, SCREEN) \/ Failed(screen, c, w)]_sweepVars

=============================================================================
