----------------------- MODULE BackendProtectorProofs -----------------------
(***************************************************************************)
(* The safety of BackendProtector for every number of callers and every    *)
(* valid configuration.                                                    *)
(***************************************************************************)
EXTENDS BackendProtector, FiniteSetTheorems, TLAPS

(* The slots in use and the probes held are finite sets of callers.        *)
LEMMA CountedSets ==
    /\ IsFiniteSet(HoldingSlot) /\ Cardinality(HoldingSlot) \in Nat
    /\ IsFiniteSet(Probes) /\ Cardinality(Probes) \in Nat
<1>1. HoldingSlot \subseteq Callers /\ Probes \subseteq Callers
  BY DEF HoldingSlot, Probes
<1> QED
  BY <1>1, FS_Subset, FS_CardinalityType, ProtectionAssumption

(* The circuits the configuration allows. *)
Circuit == [state : {"Closed", "Open", "HalfOpen"}, fails : 0 .. FailureThreshold - 1,
            left : 0 .. OpenTimeout, half : 0 .. HalfOpenMax]

(* The shape of the state, without the bound on the slots.                 *)
StateOK ==
    /\ circuit \in Circuit
    /\ pc \in [Callers -> {"idle", "waiting", "slot", "running", "completed"}]
    /\ probe \in [Callers -> BOOLEAN]
    /\ healthy \in BOOLEAN /\ faults \in 0 .. MaxFaults

(* Every step keeps the shape of the state. *)
LEMMA StateStep == StateOK /\ [Next]_vars => StateOK'
<1> SUFFICES ASSUME StateOK, [Next]_vars PROVE StateOK'
  OBVIOUS
<1> USE ProtectionAssumption DEF StateOK, ProtectionAssumption
<1>1. ASSUME NEW c \in Callers, Request(c) \/ TakeSlot(c) \/ QueueFull(c) PROVE StateOK'
  BY <1>1 DEF Request, TakeSlot, QueueFull, Goto
<1>2. ASSUME NEW c \in Callers, Admit(c) PROVE StateOK'
  <2>1. Observed \in Circuit
    <3>1. 0 \in 0 .. HalfOpenMax
      OBVIOUS
    <3> QED
      BY <3>1, Zenon DEF Observed, Circuit
  <2>2. circuit' \in Circuit
    <3>1. CASE Observed.state = "HalfOpen" /\ Observed.half < HalfOpenMax
      <4>1. Observed.half + 1 \in 0 .. HalfOpenMax
        BY <2>1, <3>1 DEF Circuit
      <4>2. circuit' = [Observed EXCEPT !.half = Observed.half + 1]
        BY <1>2, <3>1 DEF Admit
      <4> QED
        BY <2>1, <4>1, <4>2, Zenon DEF Circuit
    <3>2. CASE ~(Observed.state = "HalfOpen" /\ Observed.half < HalfOpenMax)
      BY <1>2, <2>1, <3>2 DEF Admit
    <3> QED
      BY <3>1, <3>2
  <2>3. UNCHANGED <<healthy, faults>>
    BY <1>2 DEF Admit
  <2>4. /\ pc' \in [Callers -> {"idle", "waiting", "slot", "running", "completed"}]
        /\ probe' \in [Callers -> BOOLEAN]
    BY <1>2 DEF Admit, Goto
  <2> QED
    BY <2>2, <2>3, <2>4
<1>3. ASSUME NEW c \in Callers, Complete(c) PROVE StateOK'
  <2>1. AfterSuccess \in Circuit
    <3>1. 0 \in 0 .. HalfOpenMax /\ 0 \in 0 .. OpenTimeout /\ 0 \in 0 .. FailureThreshold - 1
      OBVIOUS
    <3> QED
      BY <3>1, Zenon DEF AfterSuccess, Circuit
  <2>2. AfterFailure(c) \in Circuit
    <3>1. CASE probe[c] \/ circuit.fails + 1 >= FailureThreshold
      <4>1. AfterFailure(c) = [state |-> "Open", fails |-> 0, left |-> OpenTimeout, half |-> 0]
        BY <3>1 DEF AfterFailure
      <4> QED
        BY <4>1 DEF Circuit
    <3>2. CASE ~(probe[c] \/ circuit.fails + 1 >= FailureThreshold)
      <4>1. circuit.fails + 1 \in 0 .. FailureThreshold - 1
        BY <3>2 DEF Circuit
      <4>2. AfterFailure(c) = [circuit EXCEPT !.fails = circuit.fails + 1]
        BY <3>2 DEF AfterFailure
      <4> QED
        BY <4>1, <4>2, Zenon DEF Circuit
    <3> QED
      BY <3>1, <3>2
  <2> QED
    BY <1>3, <2>1, <2>2 DEF Complete, Goto
<1>4. ASSUME NEW c \in Callers, DropPermit(c) PROVE StateOK'
  <2>1. circuit' \in Circuit
    <3>1. CASE circuit.half > 0 /\ probe[c]
      <4>1. circuit.half - 1 \in 0 .. HalfOpenMax
        BY <3>1 DEF Circuit
      <4>2. circuit' = [circuit EXCEPT !.half = circuit.half - 1]
        BY <1>4, <3>1 DEF DropPermit
      <4> QED
        BY <4>1, <4>2, Zenon DEF Circuit
    <3> QED
      BY <1>4, <3>1 DEF DropPermit
  <2> QED
    BY <1>4, <2>1 DEF DropPermit, Goto
<1>5. ASSUME NEW c \in Callers, Cancel(c) PROVE StateOK'
  BY <1>5 DEF Cancel, Goto
<1>6. CASE Outage \/ Repair
  <2>1. faults' \in 0 .. MaxFaults
    BY <1>6 DEF Outage, Repair
  <2>2. healthy' \in BOOLEAN /\ UNCHANGED <<circuit, pc, probe>>
    BY <1>6, Zenon DEF Outage, Repair, permitVars
  <2> QED
    BY <2>1, <2>2
<1>8. CASE Tick
  <2>1. circuit.left - 1 \in 0 .. OpenTimeout
    BY <1>8 DEF Tick, Circuit
  <2>2. circuit' = [circuit EXCEPT !.left = circuit.left - 1] /\ UNCHANGED <<permitVars, healthy, faults>>
    BY <1>8 DEF Tick
  <2>3. circuit' \in Circuit
    BY <2>1, <2>2, Zenon DEF Circuit
  <2> QED
    BY <2>2, <2>3 DEF permitVars
<1>7. CASE UNCHANGED vars
  BY <1>7 DEF vars
<1> QED
  BY <1>1, <1>2, <1>3, <1>4, <1>5, <1>6, <1>7, <1>8 DEF Next, CallerStep

(* What is inductive: the shape of the state, the slots in use within the  *)
(* semaphore, and no more probes counted than held.                        *)
ProtectorInv == StateOK /\ Cardinality(HoldingSlot) <= MaxConcurrent /\ ProbesAreHeld

(* How the two sets of callers follow the program counters: a step moves   *)
(* at most one caller into or out of each.                                 *)
LEMMA OnlyOneMoves ==
    ASSUME StateOK, StateOK', NEW c \in Callers,
           \A d \in Callers \ {c} : pc'[d] = pc[d] /\ probe'[d] = probe[d]
    PROVE  /\ HoldingSlot' = IF pc'[c] \in {"slot", "running", "completed"}
                             THEN HoldingSlot \cup {c} ELSE HoldingSlot \ {c}
           /\ Probes' = IF pc'[c] \in {"running", "completed"} /\ probe'[c]
                        THEN Probes \cup {c} ELSE Probes \ {c}
<1>1. HoldingSlot' = IF pc'[c] \in {"slot", "running", "completed"}
                     THEN HoldingSlot \cup {c} ELSE HoldingSlot \ {c}
  BY Zenon DEF HoldingSlot
<1>2. Probes' = IF pc'[c] \in {"running", "completed"} /\ probe'[c]
                THEN Probes \cup {c} ELSE Probes \ {c}
  BY Zenon DEF Probes
<1> QED
  BY <1>1, <1>2

(* The cardinalities after one caller moved. *)
LEMMA MovedCardinalities ==
    ASSUME NEW c, NEW S, IsFiniteSet(S)
    PROVE  /\ Cardinality(S) \in Nat
           /\ c \in S => Cardinality(S \cup {c}) = Cardinality(S) /\ Cardinality(S \ {c}) = Cardinality(S) - 1
           /\ c \notin S => Cardinality(S \cup {c}) = Cardinality(S) + 1 /\ Cardinality(S \ {c}) = Cardinality(S)
BY FS_CardinalityType, FS_AddElement, FS_RemoveElement

(* Every step keeps the slots and the probes accounted for. *)
LEMMA AccountStep == ProtectorInv /\ [Next]_vars => ProtectorInv'
<1> SUFFICES ASSUME ProtectorInv, [Next]_vars PROVE ProtectorInv'
  OBVIOUS
<1>0. StateOK /\ StateOK' /\ Cardinality(HoldingSlot) <= MaxConcurrent /\ circuit.half <= Cardinality(Probes)
  BY StateStep DEF ProtectorInv, ProbesAreHeld
<1>n. /\ circuit.half \in Nat /\ circuit'.half \in Nat /\ circuit.fails \in Nat
      /\ HalfOpenMax \in Nat /\ MaxConcurrent \in Nat
  BY <1>0, ProtectionAssumption DEF StateOK, Circuit, ProtectionAssumption
<1>s. SUFFICES Cardinality(HoldingSlot)' <= MaxConcurrent /\ circuit'.half <= Cardinality(Probes)'
  BY <1>0 DEF ProtectorInv, ProbesAreHeld
<1>a. ASSUME NEW c \in Callers, CallerStep(c) \/ Cancel(c)
      PROVE  Cardinality(HoldingSlot)' <= MaxConcurrent /\ circuit'.half <= Cardinality(Probes)'
  <2>1. \A d \in Callers \ {c} : pc'[d] = pc[d] /\ probe'[d] = probe[d]
    BY <1>a, <1>0 DEF CallerStep, Request, TakeSlot, QueueFull, Admit, Complete, DropPermit, Cancel, Goto, StateOK
  <2>2. /\ HoldingSlot' = IF pc'[c] \in {"slot", "running", "completed"}
                          THEN HoldingSlot \cup {c} ELSE HoldingSlot \ {c}
        /\ Probes' = IF pc'[c] \in {"running", "completed"} /\ probe'[c]
                     THEN Probes \cup {c} ELSE Probes \ {c}
    BY <1>0, <2>1, OnlyOneMoves, Zenon
  <2>3. /\ Cardinality(HoldingSlot) \in Nat /\ Cardinality(Probes) \in Nat
        /\ c \in HoldingSlot => /\ Cardinality(HoldingSlot \cup {c}) = Cardinality(HoldingSlot)
                                /\ Cardinality(HoldingSlot \ {c}) = Cardinality(HoldingSlot) - 1
        /\ c \notin HoldingSlot => /\ Cardinality(HoldingSlot \cup {c}) = Cardinality(HoldingSlot) + 1
                                   /\ Cardinality(HoldingSlot \ {c}) = Cardinality(HoldingSlot)
        /\ c \in Probes => /\ Cardinality(Probes \cup {c}) = Cardinality(Probes)
                           /\ Cardinality(Probes \ {c}) = Cardinality(Probes) - 1
        /\ c \notin Probes => /\ Cardinality(Probes \cup {c}) = Cardinality(Probes) + 1
                              /\ Cardinality(Probes \ {c}) = Cardinality(Probes)
    BY CountedSets, MovedCardinalities
  <2>4. /\ c \in HoldingSlot <=> pc[c] \in {"slot", "running", "completed"}
        /\ c \in Probes <=> pc[c] \in {"running", "completed"} /\ probe[c]
    BY DEF HoldingSlot, Probes
  <2>5. CASE Request(c) \/ QueueFull(c)
    <3>1. /\ pc[c] \in {"idle", "waiting"} /\ pc'[c] \in {"idle", "waiting"} /\ circuit' = circuit
      BY <2>5, <1>0 DEF Request, QueueFull, Goto, StateOK
    <3> QED
      BY <3>1, <2>2, <2>3, <2>4, <1>0, <1>n
  <2>6. CASE TakeSlot(c)
    <3>1. /\ pc[c] = "waiting" /\ pc'[c] = "slot" /\ circuit' = circuit
          /\ Cardinality(HoldingSlot) < MaxConcurrent
      BY <2>6, <1>0 DEF TakeSlot, Goto, StateOK
    <3> QED
      BY <3>1, <2>2, <2>3, <2>4, <1>0, <1>n
  <2>7. CASE Admit(c)
    <3> DEFINE half == Observed.state = "HalfOpen" /\ Observed.half < HalfOpenMax
    <3>1. Observed.half <= circuit.half /\ Observed.half \in Nat
      BY <1>0, <1>n DEF Observed, StateOK, Circuit
    <3>2. pc[c] = "slot" /\ c \notin Probes
      BY <2>7, <2>4 DEF Admit
    <3>3. CASE half
      <4>1. circuit' = [Observed EXCEPT !.half = Observed.half + 1]
        BY <2>7, <3>3 DEF Admit
      <4>2. pc'[c] = "running" /\ probe'[c] = TRUE
        BY <2>7, <3>3, <1>0 DEF Admit, Goto, StateOK
      <4>3. circuit'.half = Observed.half + 1
        BY <4>1, <1>0 DEF StateOK, Circuit, Observed
      <4> QED
        BY <4>2, <4>3, <3>1, <3>2, <2>2, <2>3, <2>4, <1>0, <1>n
    <3>4. CASE ~half
      <4>1. circuit' = Observed
        BY <2>7, <3>4 DEF Admit
      <4>2. \/ pc'[c] = "running" /\ probe'[c] = FALSE
            \/ pc'[c] = "idle"
        BY <2>7, <3>4, <1>0 DEF Admit, Goto, StateOK
      <4> QED
        BY <4>1, <4>2, <3>1, <3>2, <2>2, <2>3, <2>4, <1>0, <1>n
    <3> QED
      BY <3>3, <3>4
  <2>8. CASE Complete(c)
    <3>1. circuit'.half <= circuit.half
      BY <2>8, <1>0, <1>n DEF Complete, AfterSuccess, AfterFailure, StateOK, Circuit
    <3>2. pc[c] = "running" /\ pc'[c] = "completed" /\ probe'[c] = probe[c]
      BY <2>8, <1>0 DEF Complete, Goto, StateOK
    <3> QED
      BY <3>1, <3>2, <2>2, <2>3, <2>4, <1>0, <1>n
  <2>9. CASE DropPermit(c)
    <3>1. pc[c] = "completed" /\ pc'[c] = "idle"
      BY <2>9, <1>0 DEF DropPermit, Goto, StateOK
    <3>2. CASE probe[c]
      <4>1. circuit'.half = IF circuit.half > 0 THEN circuit.half - 1 ELSE circuit.half
        BY <2>9, <3>2, <1>0 DEF DropPermit, StateOK, Circuit
      <4>2. c \in HoldingSlot /\ c \in Probes /\ HoldingSlot' = HoldingSlot \ {c} /\ Probes' = Probes \ {c}
        BY <3>1, <3>2, <2>2, <2>4
      <4>3. Cardinality(Probes \ {c}) \in Nat
        BY CountedSets, FS_RemoveElement, FS_CardinalityType
      <4> QED
        BY <4>1, <4>2, <4>3, <2>3, <1>0, <1>n
    <3>3. CASE ~probe[c]
      <4>1. circuit' = circuit
        BY <2>9, <3>3 DEF DropPermit
      <4> QED
        BY <4>1, <3>1, <3>3, <2>2, <2>3, <2>4, <1>0, <1>n
    <3> QED
      BY <3>2, <3>3
  <2>10. CASE Cancel(c)
    <3>1. /\ circuit' = circuit /\ probe' = probe
          /\ \/ pc[c] = "waiting" /\ pc'[c] = "idle"
             \/ pc[c] = "running" /\ pc'[c] = "completed"
      BY <2>10, <1>0 DEF Cancel, Goto, StateOK
    <3> QED
      BY <3>1, <2>2, <2>3, <2>4, <1>0, <1>n
  <2> QED
    BY <1>a, <2>5, <2>6, <2>7, <2>8, <2>9, <2>10 DEF CallerStep
<1>b. CASE Outage \/ Repair \/ Tick \/ UNCHANGED vars
  <2>1. UNCHANGED <<pc, probe>> /\ circuit'.half = circuit.half
    BY <1>b, <1>0 DEF Outage, Repair, Tick, vars, permitVars, StateOK, Circuit
  <2>2. HoldingSlot' = HoldingSlot /\ Probes' = Probes
    BY <2>1 DEF HoldingSlot, Probes
  <2> QED
    BY <2>1, <2>2, <1>0
<1> QED
  BY <1>a, <1>b DEF Next

(* The invariant holds in every reachable state. *)
LEMMA ProtectorAlways == Spec => []ProtectorInv
<1>1. Init => ProtectorInv
  <2> SUFFICES ASSUME Init PROVE ProtectorInv
    OBVIOUS
  <2>1. StateOK
    BY ProtectionAssumption DEF Init, StateOK, Circuit, ProtectionAssumption
  <2>2. HoldingSlot = {} /\ Probes = {}
    BY DEF Init, HoldingSlot, Probes
  <2> QED
    BY <2>1, <2>2, FS_EmptySet, ProtectionAssumption DEF Init, ProtectorInv, ProbesAreHeld, ProtectionAssumption
<1> QED
  BY <1>1, AccountStep, PTL DEF Spec

(* The state keeps its types and no more than max_concurrent calls hold a  *)
(* slot of the semaphore, for every configuration.                         *)
THEOREM ProtectorTypeCorrect == Spec => []TypeOK
<1>1. ProtectorInv => TypeOK
  BY DEF ProtectorInv, StateOK, Circuit, TypeOK
<1> QED
  BY <1>1, ProtectorAlways, PTL

(* Every probe a half-open circuit counts is held by a caller that will    *)
(* return it (Permit::drop), so the circuit cannot be wedged.              *)
THEOREM ProtectorProbesAreHeld == Spec => []ProbesAreHeld
<1>1. ProtectorInv => ProbesAreHeld
  BY DEF ProtectorInv
<1> QED
  BY <1>1, ProtectorAlways, PTL

(* An open circuit is left only when its open period has passed, and only  *)
(* for the half-open state (acquire and complete).                         *)
THEOREM ProtectorOpenIsServed == Spec => OpenIsServed
<1>1. ProtectorInv /\ [Next]_vars =>
        [circuit.state = "Open" /\ circuit'.state # "Open"
           => circuit.left = 0 /\ circuit'.state = "HalfOpen"]_vars
  <2> SUFFICES ASSUME ProtectorInv, [Next]_vars, circuit.state = "Open", circuit'.state # "Open"
               PROVE  circuit.left = 0 /\ circuit'.state = "HalfOpen"
    OBVIOUS
  <2>0. circuit \in Circuit
    BY DEF ProtectorInv, StateOK
  <2>1. ASSUME NEW c \in Callers, Admit(c) PROVE circuit.left = 0 /\ circuit'.state = "HalfOpen"
    BY <2>0, <2>1 DEF Admit, Observed, Circuit
  <2>2. ASSUME NEW c \in Callers, Complete(c) PROVE FALSE
    BY <2>0, <2>2 DEF Complete, AfterSuccess, AfterFailure, Circuit
  <2>3. ASSUME NEW c \in Callers, DropPermit(c) PROVE FALSE
    BY <2>0, <2>3 DEF DropPermit, Circuit
  <2>4. ASSUME NEW c \in Callers, Request(c) \/ TakeSlot(c) \/ QueueFull(c) \/ Cancel(c) PROVE FALSE
    BY <2>4 DEF Request, TakeSlot, QueueFull, Cancel
  <2>5. CASE Outage \/ Repair \/ Tick \/ UNCHANGED vars
    BY <2>0, <2>5 DEF Outage, Repair, Tick, vars, Circuit
  <2> QED
    BY <2>1, <2>2, <2>3, <2>4, <2>5 DEF Next, CallerStep
<1> QED
  BY <1>1, ProtectorAlways, PTL DEF Spec, OpenIsServed
=============================================================================
