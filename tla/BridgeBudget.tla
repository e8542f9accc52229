----------------------------- MODULE BridgeBudget -----------------------------
(* The worker-time budget of the scaled bridge                              *)
(* (src/tools/scaled_bridge_v1/controller.py): every worker is reserved in  *)
(* an immutable attempt record before it starts and settled in a second     *)
(* record after it ended; an attempt without the second record is charged   *)
(* in full.  Time is counted in ticks.                                      *)
EXTENDS PoolLease, Sequences, FiniteSetsExt

CONSTANTS
  Ceiling,          \* LIMIT
  Margin,           \* the deadline is this long before the end of a reservation
  Reservations,     \* what a dispatch may ask for
  MaxAttempts,      \* bound: attempt records
  MaxBridgeStarts,  \* bound: starts of the controller
  MaxBridgeFaults   \* bound: kills of the controller and failing workers

ASSUME BridgeAssumption ==
  /\ Ceiling \in Nat /\ Margin \in Nat /\ MaxAttempts \in Nat
  /\ MaxBridgeStarts \in Nat /\ MaxBridgeFaults \in Nat
  /\ Reservations \subseteq Nat

VARIABLES
  bridge,    \* controller: "down", "idle", "reserved", "waiting" (for the worker)
  attempts,  \* the records, in the order of their dispatch
  bridgeStarts, bridgeFaults

bridgeVars == <<bridge, attempts, bridgeStarts, bridgeFaults>>

scaled == "bridge"
Attempt(i) == Worker(scaled, <<i>>)
Newest == Len(attempts)

\* Faulty: attempts that were never settled cost nothing.
SettledCharge(a) == IF a.settled THEN a.charged ELSE 0

Charge(a) == IF a.settled THEN a.charged ELSE a.reserved
Remaining(as) == Ceiling - MapThenSumSet(LAMBDA i : Charge(as[i]), DOMAIN as)
Deadline(a) == a.reserved - Margin

-----------------------------------------------------------------------------

\* run: one controller, and the pool locks without a retry.
StartBridge ==
  /\ bridge = "down" /\ bridgeStarts < MaxBridgeStarts /\ LeaseFree
  /\ bridge' = "idle"
  /\ holders' = {Controller(scaled)}
  /\ bridgeStarts' = bridgeStarts + 1
  /\ UNCHANGED <<attempts, bridgeFaults>>

\* dispatch: the attempt record is written first.
Reserve(r) ==
  /\ bridge = "idle" /\ r <= Remaining(attempts) /\ Len(attempts) < MaxAttempts
  /\ bridge' = "reserved"
  /\ attempts' = Append(attempts, [reserved |-> r, elapsed |-> 0, worked |-> 0,
                                   worker |-> "none", settled |-> FALSE, charged |-> 0])
  /\ UNCHANGED <<bridgeStarts, bridgeFaults, holders>>

Launch ==
  /\ bridge = "reserved"
  /\ bridge' = "waiting"
  /\ attempts' = [attempts EXCEPT ![Newest].worker = "starting"]
  /\ holders' = holders \cup {Attempt(Newest)}
  /\ UNCHANGED <<bridgeStarts, bridgeFaults>>

\* validate_lease: refuse an expired reservation, or arm the alarm.
Validate(i) ==
  /\ attempts[i].worker = "starting"
  /\ IF attempts[i].elapsed < Deadline(attempts[i])
     THEN attempts' = [attempts EXCEPT ![i].worker = "running"] /\ UNCHANGED holders
     ELSE /\ attempts' = [attempts EXCEPT ![i].worker = "failed"]
          /\ holders' = holders \ {Attempt(i)}
  /\ UNCHANGED <<bridge, bridgeStarts, bridgeFaults>>

Alive(i) == attempts[i].worker \in {"starting", "running"}
Expired(i) == attempts[i].elapsed >= Deadline(attempts[i])

\* Time passes for every worker; none runs on past its alarm.  A worker
\* that has not armed it is followed to the end of its reservation.
Tick ==
  /\ \E i \in DOMAIN attempts : Alive(i)
  /\ \A i \in DOMAIN attempts :
       /\ attempts[i].worker = "running" => ~Expired(i)
       /\ Alive(i) => attempts[i].elapsed < attempts[i].reserved
  /\ attempts' = [i \in DOMAIN attempts |->
       IF Alive(i)
       THEN [attempts[i] EXCEPT !.elapsed = @ + 1,
                                !.worked = IF attempts[i].worker = "running" THEN @ + 1 ELSE @]
       ELSE attempts[i]]
  /\ UNCHANGED <<bridge, bridgeStarts, bridgeFaults, holders>>

\* A worker ends by itself, or is killed: by its own alarm, or, when the
\* wait of the controller runs out, by the controller.
AttemptEnds(i, how) ==
  /\ Alive(i)
  /\ \/ how = "passed" /\ attempts[i].worker = "running" /\ UNCHANGED bridgeFaults
     \/ how = "failed" /\ bridgeFaults < MaxBridgeFaults /\ bridgeFaults' = bridgeFaults + 1
     \/ /\ how = "killed" /\ Expired(i) /\ UNCHANGED bridgeFaults
        /\ attempts[i].worker = "running" \/ (i = Newest /\ bridge = "waiting")
  /\ attempts' = [attempts EXCEPT ![i].worker = how]
  /\ holders' = holders \ {Attempt(i)}
  /\ UNCHANGED <<bridge, bridgeStarts>>

\* The completion record: the time taken when the worker returned 0, the
\* whole reservation otherwise, and then the exception leaves the locks.
Settle ==
  /\ bridge = "waiting" /\ ~Alive(Newest)
  /\ LET a == attempts[Newest]
         passed == a.worker = "passed"
         charge == IF passed /\ a.elapsed < a.reserved THEN a.elapsed ELSE a.reserved
     IN  /\ attempts' = [attempts EXCEPT ![Newest].settled = TRUE, ![Newest].charged = charge]
         /\ bridge' = IF passed THEN "idle" ELSE "down"
         /\ holders' = IF passed THEN holders ELSE holders \ {Controller(scaled)}
  /\ UNCHANGED <<bridgeStarts, bridgeFaults>>

\* The panels are complete, or a reservation exceeds what remains.
EndBridge ==
  /\ bridge = "idle"
  /\ bridge' = "down"
  /\ holders' = holders \ {Controller(scaled)}
  /\ UNCHANGED <<attempts, bridgeStarts, bridgeFaults>>

\* The worker has a session of its own and outlives the controller.
KillBridge ==
  /\ bridge # "down" /\ bridgeFaults < MaxBridgeFaults
  /\ bridge' = "down"
  /\ holders' = holders \ {Controller(scaled)}
  /\ bridgeFaults' = bridgeFaults + 1
  /\ UNCHANGED <<attempts, bridgeStarts>>

-----------------------------------------------------------------------------

BridgeInit == bridge = "down" /\ attempts = <<>> /\ bridgeStarts = 0 /\ bridgeFaults = 0

BridgeNext ==
  \/ StartBridge \/ Launch \/ Tick \/ Settle \/ EndBridge \/ KillBridge
  \/ \E r \in Reservations : Reserve(r)
  \/ \E i \in DOMAIN attempts :
       Validate(i) \/ AttemptEnds(i, "passed") \/ AttemptEnds(i, "failed") \/ AttemptEnds(i, "killed")

-----------------------------------------------------------------------------

\* However controllers and workers die, the time that workers computed,
\* orphans included, is in the ledger, and the ledger is within the ceiling.
BridgeBudgetIsKept ==
  /\ \A i \in DOMAIN attempts : attempts[i].worked <= Charge(attempts[i])
  /\ Remaining(attempts) >= 0

=============================================================================
