-------------------------- MODULE OutboxDispatcher --------------------------
(***************************************************************************)
(* Dispatcher (crates/elura-runtime/src/outbox.rs): processes that poll an *)
(* outbox store, run a handler for each delivery of a batch while renewing *)
(* its lease, and settle it with ack, retry or dead_letter.                *)
(*                                                                         *)
(* A process is at one await at a time in each delivery, and the delivery  *)
(* steps of a batch interleave (FuturesUnordered).  A settling call is a   *)
(* request in calls: the store serves it some time later, even after the   *)
(* future that waits for it was dropped by a failed renewal, a crash or a  *)
(* shutdown.  Processes may share a worker id, as the default does.        *)
(***************************************************************************)
EXTENDS MemoryOutbox

CONSTANTS Procs,        \* running dispatchers
          WorkerOf,     \* the worker_id each is configured with
          MaxAttempts,  \* config.max_attempts
          InitialBackoff, \* config.initial_backoff, in ticks
          Idempotent,   \* whether config.idempotency is set
          LongReasons,  \* whether every error of a handler may exceed 4096 bytes
          MaxFaults     \* bound on crashes, stalls, lost answers and refused calls

ASSUME WorkerOfAssumption == WorkerOf \in [Procs -> Workers]
ASSUME AttemptsAssumption == MaxAttempts \in 1 .. AttemptCap
ASSUME BackoffAssumption == InitialBackoff \in 1 .. MaxDelay
ASSUME FlagsAssumption ==
    Idempotent \in BOOLEAN /\ LongReasons \in BOOLEAN /\ MaxFaults \in Nat

VARIABLES run,      \* what run() of each process is doing
          task,     \* the deliveries of its batch that are not finished
          failing,  \* whether run_once has a first_error
          calls,    \* settling requests the store has not served yet
          marked,   \* ids in the idempotency store
          handled,  \* ids some handler returned Ok or AlreadyProcessed for
          faults    \* faults so far

dispatcherVars == <<run, task, failing, calls, marked, handled, faults>>
vars == <<memoryVars, dispatcherVars>>

RunStates == {"polling", "batch", "failed", "stopped"}
Settling == {"ack", "retry", "dead"}
Steps == {"start", "handle", "mark", "ok", "error"} \cup Settling

NoTasks == [e \in {} |-> e]

Init ==
    /\ MemoryInit
    /\ run = [p \in Procs |-> "polling"]
    /\ task = [p \in Procs |-> NoTasks]
    /\ failing = [p \in Procs |-> FALSE]
    /\ calls = {} /\ marked = {} /\ handled = {} /\ faults = 0

(* The deliveries some task or some request still has. *)
InUse(tasks, requests) ==
    {tasks[q][e].d : <<q, e>> \in {x \in Procs \X Events : x[2] \in DOMAIN tasks[x[1]]}}
        \cup {c.d : c \in requests}

StillHeld == held' = held \cap InUse(task', calls')

At(p, e, step) == e \in DOMAIN task[p] /\ task[p][e].step = step

Goto(p, e, step) == task' = [task EXCEPT ![p][e].step = step]

(* finish_delivery reaches store.ack, store.retry or store.dead_letter. *)
Request(p, e, op, delay) ==
    /\ Goto(p, e, op)
    /\ calls' = calls \cup {[op |-> op, d |-> task[p][e].d, delay |-> delay]}

(* A delivery's future returned an error: run_once keeps the first. *)
FailTask(p, e) ==
    /\ task' = [task EXCEPT ![p] = Remove(@, e)]
    /\ failing' = [failing EXCEPT ![p] = TRUE]

Fault == faults < MaxFaults /\ faults' = faults + 1

(* run_once: acquire a batch and start a future for each delivery.         *)
(* An empty batch leaves run() polling after its sleep.                    *)
Poll(p) ==
    /\ run[p] = "polling"
    /\ \E batch \in SUBSET Available \ {{}} : \E f \in [batch -> Tokens] :
          /\ IsBatch(batch, MaxBatch)
          /\ Acquire(WorkerOf[p], batch, f)
          /\ held' = held \cup Deliveries(WorkerOf[p], batch, f)
          /\ task' = [task EXCEPT ![p] =
                [e \in batch |-> [d |-> CHOOSE d \in Deliveries(WorkerOf[p], batch, f) : d.id = e,
                                  step |-> "start"]]]
    /\ run' = [run EXCEPT ![p] = "batch"]
    /\ UNCHANGED <<failing, calls, marked, handled, faults>>

(* acquire leased a batch and its answer was lost: run() ends on the error *)
(* and nobody knows the tokens.                                            *)
PollAnswerLost(p) ==
    /\ run[p] = "polling"
    /\ \E batch \in SUBSET Available \ {{}} : \E f \in [batch -> Tokens] :
          /\ IsBatch(batch, MaxBatch)
          /\ Acquire(WorkerOf[p], batch, f)
    /\ run' = [run EXCEPT ![p] = "failed"]
    /\ Fault
    /\ UNCHANGED <<held, task, failing, calls, marked, handled>>

(* Mutant: the id is recorded as seen before its handler runs. *)
CheckSeenAndMark(p, e) ==
    /\ At(p, e, "start")
    /\ IF Idempotent /\ e \in marked
       THEN Request(p, e, "ack", 0)
       ELSE Goto(p, e, "handle") /\ UNCHANGED calls
    /\ marked' = marked \cup {e}
    /\ StillHeld
    /\ UNCHANGED <<storeVars, run, failing, handled, faults>>

(* finish_delivery, up to the handler: an id the idempotency store has     *)
(* seen is acknowledged without handling it again.                         *)
CheckSeen(p, e) ==
    /\ At(p, e, "start")
    /\ IF Idempotent /\ e \in marked
       THEN Request(p, e, "ack", 0)
       ELSE Goto(p, e, "handle") /\ UNCHANGED calls
    /\ StillHeld
    /\ UNCHANGED <<storeVars, run, failing, marked, handled, faults>>

(* The handler returned Ok or AlreadyProcessed. *)
HandlerSucceeds(p, e) ==
    /\ At(p, e, "handle")
    /\ handled' = handled \cup {e}
    /\ IF Idempotent
       THEN Goto(p, e, "mark") /\ UNCHANGED calls
       ELSE Request(p, e, "ack", 0)
    /\ StillHeld
    /\ UNCHANGED <<storeVars, run, failing, marked, faults>>

Mark(p, e) ==
    /\ At(p, e, "mark")
    /\ marked' = marked \cup {e}
    /\ Request(p, e, "ack", 0)
    /\ StillHeld
    /\ UNCHANGED <<storeVars, run, failing, handled, faults>>

(* backoff: initial_backoff doubled with every attempt after the first, the *)
(* multiplier within u32, up to max_backoff (MaxDelay).                    *)
Backoff(attempt) ==
    LET multiplier == IF attempt <= 32 THEN 2^(attempt - 1) ELSE 2^32 - 1
        backoff == InitialBackoff * multiplier
    IN  IF backoff \in Delays THEN backoff ELSE MaxDelay

(* Mutant: the attempt is counted once too often. *)
HandlerFailsEarly(p, e) ==
    /\ At(p, e, "handle")
    /\ IF task[p][e].d.attempt + 1 >= MaxAttempts
       THEN Request(p, e, "dead", 0)
       ELSE Request(p, e, "retry", Backoff(task[p][e].d.attempt))
    /\ StillHeld
    /\ UNCHANGED <<storeVars, run, failing, marked, handled, faults>>

(* Mutant: every failure is retried. *)
HandlerFailsForever(p, e) ==
    /\ At(p, e, "handle")
    /\ Request(p, e, "retry", Backoff(task[p][e].d.attempt))
    /\ StillHeld
    /\ UNCHANGED <<storeVars, run, failing, marked, handled, faults>>

(* The handler failed or timed out: another attempt, or the dead letters   *)
(* when this was the last one.                                             *)
HandlerFails(p, e) ==
    /\ At(p, e, "handle")
    /\ IF task[p][e].d.attempt >= MaxAttempts
       THEN Request(p, e, "dead", 0)
       ELSE Request(p, e, "retry", Backoff(task[p][e].d.attempt))
    /\ StillHeld
    /\ UNCHANGED <<storeVars, run, failing, marked, handled, faults>>

(* The same with an error text that validate_failure_reason refuses: both  *)
(* calls return InvalidConfig before they touch the store.  LongReasons:   *)
(* it may happen on every delivery, otherwise it is one of the faults.     *)
HandlerFailsAtLength(p, e) ==
    /\ At(p, e, "handle")
    /\ IF LongReasons THEN UNCHANGED faults ELSE Fault
    /\ FailTask(p, e)
    /\ calls' = calls /\ StillHeld
    /\ UNCHANGED <<storeVars, run, marked, handled>>

Answer(c, step) ==
    task' = [p \in Procs |->
               [e \in DOMAIN task[p] |->
                  IF task[p][e].d = c.d /\ task[p][e].step = c.op
                  THEN [task[p][e] EXCEPT !.step = step] ELSE task[p][e]]]

(* The store serves a request, and the waiting future, if there is still   *)
(* one, gets the answer.                                                   *)
Serve(c) ==
    /\ c \in calls
    /\ calls' = calls \ {c}
    /\ IF Leased(c.d)
       THEN /\ \/ c.op = "ack" /\ Ack(c.d)
               \/ c.op = "retry" /\ Retry(c.d, c.delay)
               \/ c.op = "dead" /\ DeadLetterIt(c.d)
            /\ Answer(c, "ok")
       ELSE Answer(c, "error") /\ UNCHANGED storeVars
    /\ StillHeld
    /\ UNCHANGED <<run, failing, marked, handled, faults>>

(* A request without a waiting future is lost with its connection. *)
LoseRequest(c) ==
    /\ c \in calls
    /\ \A p \in Procs : \A e \in DOMAIN task[p] : task[p][e].d # c.d
    /\ calls' = calls \ {c}
    /\ Fault
    /\ task' = task /\ StillHeld
    /\ UNCHANGED <<storeVars, run, failing, marked, handled>>

(* The select of process_delivery sees the finished future. *)
Finish(p, e) ==
    /\ \/ At(p, e, "ok") /\ task' = [task EXCEPT ![p] = Remove(@, e)] /\ UNCHANGED failing
       \/ At(p, e, "error") /\ FailTask(p, e)
    /\ calls' = calls /\ StillHeld
    /\ UNCHANGED <<storeVars, run, marked, handled, faults>>

(* The renewal timer fires first.  A renewal that fails drops the future   *)
(* of the delivery wherever it is, an answer it has not read included.     *)
RenewTimer(p, e) ==
    /\ e \in DOMAIN task[p]
    /\ IF Leased(task[p][e].d)
       THEN Renew(task[p][e].d) /\ UNCHANGED <<task, failing>>
       ELSE FailTask(p, e) /\ UNCHANGED storeVars
    /\ calls' = calls /\ StillHeld
    /\ UNCHANGED <<run, marked, handled, faults>>

(* seen, mark or a settling call returned a store error; a request that is *)
(* already out may still be served.                                        *)
CallFails(p, e) ==
    /\ \E step \in {"start", "mark"} \cup Settling : At(p, e, step)
    /\ FailTask(p, e)
    /\ Fault
    /\ calls' = calls /\ StillHeld
    /\ UNCHANGED <<storeVars, run, marked, handled>>

(* All futures of the batch are done: run() polls again or returns Err. *)
BatchDone(p) ==
    /\ run[p] = "batch"
    /\ DOMAIN task[p] = {}
    /\ run' = [run EXCEPT ![p] = IF failing[p] THEN "failed" ELSE "polling"]
    /\ failing' = [failing EXCEPT ![p] = FALSE]
    /\ UNCHANGED <<memoryVars, task, calls, marked, handled, faults>>

(* Every future of the process is dropped where it is. *)
Abandon(p, to) ==
    /\ run[p] \in {"polling", "batch"}
    /\ run' = [run EXCEPT ![p] = to]
    /\ task' = [task EXCEPT ![p] = NoTasks]
    /\ failing' = [failing EXCEPT ![p] = FALSE]
    /\ calls' = calls /\ StillHeld
    /\ UNCHANGED <<storeVars, marked, handled>>

(* The biased select of run() sees the shutdown signal. *)
Shutdown(p) == Abandon(p, "stopped") /\ UNCHANGED faults

Crash(p) == Abandon(p, "failed") /\ Fault

(* Whoever runs the process starts it again. *)
Restart(p) ==
    /\ run[p] = "failed"
    /\ run' = [run EXCEPT ![p] = "polling"]
    /\ UNCHANGED <<memoryVars, task, failing, calls, marked, handled, faults>>

(* The retention of an idempotency record ends. *)
ForgetMark(e) ==
    /\ e \in marked
    /\ marked' = marked \ {e}
    /\ UNCHANGED <<memoryVars, run, task, failing, calls, handled, faults>>

(* A unit of time passes.  The renewal timer is set to a third of the      *)
(* lease, so that the lease of a running delivery ends only if its process *)
(* is stalled beyond it, which is a fault like a crash.                    *)
EndsRunning ==
    \E p \in Procs : \E e \in DOMAIN task[p] :
        Leased(task[p][e].d) /\ active[e].lease = 1
TimePasses ==
    /\ Tick
    /\ IF EndsRunning THEN Fault ELSE UNCHANGED faults
    /\ UNCHANGED <<held, run, task, failing, calls, marked, handled>>

Produce(e, c, d) == AppendEvent(e, c, d) /\ UNCHANGED <<held, dispatcherVars>>

Replay(e, d) == ReplayDeadLetter(e, d) /\ UNCHANGED <<held, dispatcherVars>>

ProcStep(p) ==
    \/ Poll(p) \/ BatchDone(p)
    \/ \E e \in Events : \/ CheckSeen(p, e) \/ HandlerSucceeds(p, e) \/ Mark(p, e)
                         \/ HandlerFails(p, e) \/ HandlerFailsAtLength(p, e)
                         \/ Finish(p, e)

Others ==
    \/ \E p \in Procs : \/ PollAnswerLost(p) \/ Shutdown(p) \/ Crash(p) \/ Restart(p)
                        \/ \E e \in Events : RenewTimer(p, e) \/ CallFails(p, e)
    \/ \E c \in calls : Serve(c) \/ LoseRequest(c)
    \/ \E e \in Events : ForgetMark(e)
    \/ \E e \in Events, c \in Contents, d \in Delays : Produce(e, c, d)
    \/ \E e \in Events, d \in Delays : Replay(e, d)

Next == (\E p \in Procs : ProcStep(p)) \/ Others \/ TimePasses

Spec == Init /\ [][Next]_vars

(* Fair scheduling: a process that runs gets its steps, the store serves   *)
(* every request, a failed process is restarted, and time passes.          *)
FairSpec ==
    /\ Spec
    /\ \A p \in Procs : WF_vars(ProcStep(p)) /\ WF_vars(Restart(p))
    /\ WF_vars(\E c \in calls : Serve(c))
    /\ WF_vars(TimePasses)
-----------------------------------------------------------------------------

(* The types of the dispatchers' state, and held exactly what is in use. *)
DispatcherTypeOK ==
    /\ MemoryTypeOK
    /\ run \in [Procs -> RunStates]
    /\ \A p \in Procs : \A e \in DOMAIN task[p] :
          e \in Events /\ task[p][e].d \in held /\ task[p][e].d.id = e
            /\ task[p][e].step \in Steps
    /\ failing \in [Procs -> BOOLEAN]
    /\ \A c \in calls : c.op \in Settling /\ c.d \in held /\ c.delay \in Delays
    /\ marked \subseteq Events /\ handled \subseteq Events
    /\ faults \in 0 .. MaxFaults

(* At-least-once: no event is acknowledged unless some handler returned    *)
(* success for it, whatever requests arrive late and whoever renews.       *)
CompletedWasHandled == DOMAIN completed \subseteq handled

(* An event is dead-lettered only from its max_attempts-th delivery on,    *)
(* although the decision is taken on the attempt the delivery was acquired *)
(* with and the request may be served after other processes acquired it.   *)
DeadOnlyAfterMaxAttempts == \A e \in DOMAIN dead : dead[e].attempt >= MaxAttempts

(* Every accepted event is in the end acknowledged or dead-lettered, as    *)
(* long as some dispatcher is not shut down.                               *)
EventuallySettled ==
    \A e \in Events :
        e \in DOMAIN active ~> \/ e \in DOMAIN completed \cup DOMAIN dead
                               \/ \A p \in Procs : run[p] = "stopped"
=============================================================================
