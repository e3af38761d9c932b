-------------------------- MODULE BackendProtector --------------------------
(***************************************************************************)
(* BackendProtector (crates/elura-gateway/src/protection.rs): the bounded  *)
(* concurrency and the circuit breaker around the calls a gateway makes to *)
(* its worlds.                                                             *)
(*                                                                         *)
(* A call waits for a semaphore slot, asks the circuit under its lock,     *)
(* runs, reports under the lock again, and later drops its permit, which   *)
(* takes the lock a third time.  A dropped call goes straight to the last  *)
(* step.  The open period is the time left of it; 0 means it has passed.   *)
(***************************************************************************)
EXTENDS Naturals, FiniteSets

CONSTANTS Callers,           \* concurrent users of execute()
          MaxConcurrent, FailureThreshold, OpenTimeout, HalfOpenMax,  \* config
          MaxFaults          \* bound on cancelled calls and backend outages

ASSUME ProtectionAssumption ==
    /\ MaxConcurrent \in Nat \ {0} /\ FailureThreshold \in Nat \ {0}
    /\ OpenTimeout \in Nat \ {0} /\ HalfOpenMax \in Nat \ {0}
    /\ MaxFaults \in Nat /\ IsFiniteSet(Callers)

VARIABLES circuit,  \* [state, fails, left, half]
          pc,       \* where each caller is in execute()
          probe,    \* whether the caller's permit has half set
          healthy,  \* whether the backend answers
          faults    \* cancelled calls and outages so far

permitVars == <<pc, probe>>
vars == <<circuit, pc, probe, healthy, faults>>

HoldingSlot == {c \in Callers : pc[c] \in {"slot", "running", "completed"}}
Probes == {c \in Callers : pc[c] \in {"running", "completed"} /\ probe[c]}

Init ==
    /\ circuit = [state |-> "Closed", fails |-> 0, left |-> 0, half |-> 0]
    /\ pc = [c \in Callers |-> "idle"] /\ probe = [c \in Callers |-> FALSE]
    /\ healthy = TRUE /\ faults = 0

Goto(c, label) == pc' = [pc EXCEPT ![c] = label]

(* execute: the caller queues for a slot. *)
Request(c) ==
    /\ pc[c] = "idle"
    /\ Goto(c, "waiting")
    /\ UNCHANGED <<circuit, probe, healthy, faults>>

(* acquire, the semaphore. *)
TakeSlot(c) ==
    /\ pc[c] = "waiting" /\ Cardinality(HoldingSlot) < MaxConcurrent
    /\ Goto(c, "slot")
    /\ UNCHANGED <<circuit, probe, healthy, faults>>

(* queue_timeout, or try_acquire when it is zero: QueueFull. *)
QueueFull(c) ==
    /\ pc[c] = "waiting" /\ Cardinality(HoldingSlot) = MaxConcurrent
    /\ Goto(c, "idle")
    /\ UNCHANGED <<circuit, probe, healthy, faults>>

(* Mutant: any call after the circuit opened probes it. *)
ObservedEarly ==
    IF circuit.state = "Open"
    THEN [circuit EXCEPT !.state = "HalfOpen", !.half = 0] ELSE circuit

(* acquire, what the circuit looks like once its open period has passed. *)
Observed ==
    IF circuit.state = "Open" /\ circuit.left = 0
    THEN [circuit EXCEPT !.state = "HalfOpen", !.half = 0] ELSE circuit

(* acquire under the lock: closed, or half-open with probes left.  A       *)
(* refused call gives its slot back: Unavailable.                          *)
Admit(c) ==
    LET half == Observed.state = "HalfOpen" /\ Observed.half < HalfOpenMax
    IN  /\ pc[c] = "slot"
        /\ circuit' = IF half THEN [Observed EXCEPT !.half = @ + 1] ELSE Observed
        /\ IF Observed.state = "Closed" \/ half
           THEN Goto(c, "running") /\ probe' = [probe EXCEPT ![c] = half]
           ELSE Goto(c, "idle") /\ UNCHANGED probe
        /\ UNCHANGED <<healthy, faults>>

(* Mutant: the circuit opens one failure later. *)
AfterFailureLate(c) ==
    IF probe[c] \/ circuit.fails + 1 > FailureThreshold
    THEN [state |-> "Open", fails |-> 0, left |-> OpenTimeout, half |-> 0]
    ELSE [circuit EXCEPT !.fails = @ + 1]

(* complete, a transient failure: a failed probe or the threshold opens.   *)
AfterFailure(c) ==
    IF probe[c] \/ circuit.fails + 1 >= FailureThreshold
    THEN [state |-> "Open", fails |-> 0, left |-> OpenTimeout, half |-> 0]
    ELSE [circuit EXCEPT !.fails = @ + 1]

(* Mutant: a success in a half-open circuit leaves it half-open. *)
SuccessLeavesHalfOpen == [circuit EXCEPT !.fails = 0]

(* complete, anything else: the first success closes a half-open circuit.  *)
AfterSuccess ==
    IF circuit.state = "HalfOpen"
    THEN [state |-> "Closed", fails |-> 0, left |-> 0, half |-> 0]
    ELSE [circuit EXCEPT !.fails = 0]

(* The operation ends and complete() records it; the permit is still held. *)
Complete(c) ==
    /\ pc[c] = "running"
    /\ circuit' = IF healthy THEN AfterSuccess ELSE AfterFailure(c)
    /\ Goto(c, "completed")
    /\ UNCHANGED <<probe, healthy, faults>>

(* The future of execute is dropped at one of its awaits. *)
Cancel(c) ==
    /\ faults < MaxFaults /\ faults' = faults + 1
    /\ \/ pc[c] = "waiting" /\ Goto(c, "idle")
       \/ pc[c] = "running" /\ Goto(c, "completed")
    /\ UNCHANGED <<circuit, probe, healthy>>

(* Mutant: the drop does not return the probe. *)
DropForgetsProbe(c) ==
    /\ pc[c] = "completed"
    /\ Goto(c, "idle")
    /\ probe' = [probe EXCEPT ![c] = FALSE]
    /\ UNCHANGED <<circuit, healthy, faults>>

(* Permit::drop: a probe leaves the count, without going below zero. *)
DropPermit(c) ==
    /\ pc[c] = "completed"
    /\ circuit' = IF probe[c] /\ circuit.half > 0 THEN [circuit EXCEPT !.half = @ - 1] ELSE circuit
    /\ Goto(c, "idle")
    /\ probe' = [probe EXCEPT ![c] = FALSE]
    /\ UNCHANGED <<healthy, faults>>

(* The backend starts or stops failing. *)
Outage ==
    /\ healthy /\ faults < MaxFaults
    /\ healthy' = FALSE /\ faults' = faults + 1
    /\ UNCHANGED <<circuit, permitVars>>
Repair ==
    /\ ~healthy /\ healthy' = TRUE
    /\ UNCHANGED <<circuit, permitVars, faults>>

(* Time passes while the circuit is open. *)
Tick ==
    /\ circuit.state = "Open" /\ circuit.left > 0
    /\ circuit' = [circuit EXCEPT !.left = @ - 1]
    /\ UNCHANGED <<permitVars, healthy, faults>>

CallerStep(c) == Request(c) \/ TakeSlot(c) \/ QueueFull(c) \/ Admit(c) \/ Complete(c) \/ DropPermit(c)
Next == (\E c \in Callers : CallerStep(c) \/ Cancel(c)) \/ Outage \/ Repair \/ Tick
Spec == Init /\ [][Next]_vars

(* Traffic goes on, calls end, slots are handed out in turn, time passes.  *)
FairSpec ==
    /\ Spec
    /\ \A c \in Callers : WF_vars(CallerStep(c)) /\ SF_vars(TakeSlot(c))
    /\ WF_vars(Tick)
-----------------------------------------------------------------------------
(* The variables keep their types, no more calls than max_concurrent hold  *)
(* a slot, and a failure count never stays at the threshold.               *)
TypeOK ==
    /\ circuit \in [state : {"Closed", "Open", "HalfOpen"}, fails : 0 .. FailureThreshold - 1,
                    left : 0 .. OpenTimeout, half : 0 .. HalfOpenMax]
    /\ pc \in [Callers -> {"idle", "waiting", "slot", "running", "completed"}]
    /\ probe \in [Callers -> BOOLEAN]
    /\ healthy \in BOOLEAN /\ faults \in 0 .. MaxFaults
    /\ Cardinality(HoldingSlot) <= MaxConcurrent

(* Permit::drop and acquire: every probe the circuit counts is a permit    *)
(* that somebody still holds and will give back, so a half-open circuit    *)
(* can never refuse every call for ever, even if its probes were cancelled *)
(* or belong to an earlier half-open period.                               *)
ProbesAreHeld == circuit.half <= Cardinality(Probes)

(* A half-open circuit is entered only after the whole open period, and    *)
(* an open circuit does not close without a half-open period: late results *)
(* of calls admitted earlier do not cut it short.                          *)
OpenIsServed ==
    [][circuit.state = "Open" /\ circuit'.state # "Open"
         => circuit.left = 0 /\ circuit'.state = "HalfOpen"]_vars

(* complete: once the backend answers for good and calls go on, the        *)
(* circuit closes, and stays closed.                                       *)
Recovers == (<>[]healthy) => <>[](circuit.state = "Closed")
=============================================================================
