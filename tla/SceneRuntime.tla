---------------------------- MODULE SceneRuntime ----------------------------
(***************************************************************************)
(* SceneRuntime (crates/elura-world/src/scene.rs): a registry of scene     *)
(* actors, each a task with a bounded mailbox and a control channel, and   *)
(* the callers that spawn, call, stop and shut down from other threads.    *)
(*                                                                         *)
(* An actor is an instance: spawning an id again makes a new one.  A       *)
(* caller is one step per lock or channel operation, an actor one step per *)
(* await of run_scene.  Time-outs of a hook are one of its outcomes.       *)
(***************************************************************************)
EXTENDS Naturals, Sequences, FiniteSets, Functions

CONSTANTS Ids,        \* scene identifiers
          MaxSpawns,  \* bound on the instances made in one behaviour
          Calls,      \* call() invocations
          Capacity,   \* config.mailbox_capacity
          Ticks       \* whether config.tick_interval is set

ASSUME ConfigAssumption == Capacity \in Nat \ {0} /\ MaxSpawns \in Nat /\ Ticks \in BOOLEAN

Instances == 1 .. MaxSpawns

VARIABLES registry,  \* scenes: id -> instance, of the registered handles
          closing,   \* the closing flag
          shut,      \* shutdown() has taken the registry
          dropped,   \* the last clone of the runtime is gone
          idOf,      \* instance -> id, of the instances made so far
          phase,     \* where each instance's run_scene is
          done,      \* each instance's done flag
          mailbox,   \* the calls waiting in each instance's channel
          current,   \* the call an instance is executing, if any
          spawner,   \* what spawn() of each instance is doing
          control,   \* the Stop message of each instance
          stopAnswer,\* what its sender was told
          call       \* each call's state: [at, to, answer]

registryVars == <<registry, closing, shut, dropped>>
actorVars == <<idOf, phase, done, mailbox, current>>
callerVars == <<spawner, control, stopAnswer, call>>
vars == <<registryVars, actorVars, callerVars>>

Phases == {"starting", "failed", "idle", "command", "tick", "stopping", "stopped", "gone"}
Made == DOMAIN idOf
NewCall == [at |-> "new", to |-> 0, answer |-> "none"]
Only(f, S) == Restrict(f, DOMAIN f \cap S)

Init ==
    /\ registry = [i \in {} |-> i] /\ idOf = [i \in {} |-> i]
    /\ closing = FALSE /\ shut = FALSE /\ dropped = FALSE
    /\ phase = [i \in Instances |-> "starting"]
    /\ done = [i \in Instances |-> FALSE]
    /\ mailbox = [i \in Instances |-> <<>>]
    /\ current = [i \in Instances |-> {}]
    /\ spawner = [i \in Instances |-> "none"]
    /\ control = [i \in Instances |-> "none"]
    /\ stopAnswer = [i \in Instances |-> "none"]
    /\ call = [c \in Calls |-> NewCall]

Register(id, i) == registry' = [x \in DOMAIN registry \cup {id} |-> IF x = id THEN i ELSE registry[x]]
Unregister(id) == registry' = Only(registry, Ids \ {id})

(* Mutant: closing is read only before the lock is taken. *)
SpawnUnchecked(id) ==
    LET i == Cardinality(Made) + 1
    IN  /\ ~dropped /\ i \in Instances
        /\ id \in DOMAIN registry => done[registry[id]]
        /\ Register(id, i)
        /\ idOf' = [x \in Made \cup {i} |-> IF x = i THEN id ELSE idOf[x]]
        /\ spawner' = [spawner EXCEPT ![i] = "waiting"]
        /\ UNCHANGED <<closing, shut, dropped, phase, done, mailbox, current,
                       control, stopAnswer, call>>

(* spawn, up to started_rx.await: closing and the current handle are read  *)
(* under the lock that inserts the new handle.                             *)
Spawn(id) ==
    LET i == Cardinality(Made) + 1
    IN  /\ ~dropped /\ i \in Instances
        /\ ~closing
        /\ id \in DOMAIN registry => done[registry[id]]
        /\ Register(id, i)
        /\ idOf' = [x \in Made \cup {i} |-> IF x = i THEN id ELSE idOf[x]]
        /\ spawner' = [spawner EXCEPT ![i] = "waiting"]
        /\ UNCHANGED <<closing, shut, dropped, phase, done, mailbox, current,
                       control, stopAnswer, call>>

(* run_scene's start hook.  Success opens the mailbox. *)
StartSucceeds(i) ==
    /\ i \in Made /\ phase[i] = "starting"
    /\ phase' = [phase EXCEPT ![i] = "idle"]
    /\ spawner' = [spawner EXCEPT ![i] = "started"]
    /\ UNCHANGED <<registryVars, idOf, done, mailbox, current, control, stopAnswer, call>>

StartFails(i) ==
    /\ i \in Made /\ phase[i] = "starting"
    /\ phase' = [phase EXCEPT ![i] = "failed"]
    /\ done' = [done EXCEPT ![i] = TRUE]
    /\ UNCHANGED <<registryVars, idOf, mailbox, current, callerVars>>

(* Mutant: spawn unregisters whatever is registered under its id. *)
SpawnReturnsBlindly(i) ==
    /\ \/ /\ spawner[i] = "started"
          /\ spawner' = [spawner EXCEPT ![i] = "ok"]
          /\ UNCHANGED registry
       \/ /\ spawner[i] = "refused"
          /\ spawner' = [spawner EXCEPT ![i] = "error"]
          /\ Unregister(idOf[i])
    /\ UNCHANGED <<closing, shut, dropped, actorVars, control, stopAnswer, call>>

(* spawn returns.  After a failed start it unregisters its own handle      *)
(* (remove_if_current) and no other.                                       *)
SpawnReturns(i) ==
    /\ \/ /\ spawner[i] = "started"
          /\ spawner' = [spawner EXCEPT ![i] = "ok"]
          /\ UNCHANGED registry
       \/ /\ spawner[i] = "refused"
          /\ spawner' = [spawner EXCEPT ![i] = "error"]
          /\ IF idOf[i] \in DOMAIN registry /\ registry[idOf[i]] = i
             THEN Unregister(idOf[i]) ELSE UNCHANGED registry
    /\ UNCHANGED <<closing, shut, dropped, actorVars, control, stopAnswer, call>>

Answered(c, result) == [call[c] EXCEPT !.at = "answered", !.answer = result]

(* call: handle() reads the registry; a handle that is done is removed. *)
CallLookup(c, id) ==
    /\ ~dropped /\ call[c].at = "new"
    /\ LET live == id \in DOMAIN registry /\ ~done[registry[id]]
       IN  /\ call' = [call EXCEPT ![c] =
                IF closing THEN Answered(c, "closed")
                ELSE IF id \notin DOMAIN registry THEN Answered(c, "not_found")
                ELSE IF live THEN [@ EXCEPT !.at = "sending", !.to = registry[id]]
                ELSE Answered(c, "unavailable")]
           /\ IF ~closing /\ id \in DOMAIN registry /\ ~live
              THEN Unregister(id) ELSE UNCHANGED registry
    /\ UNCHANGED <<closing, shut, dropped, actorVars, spawner, control, stopAnswer>>

(* try_send into the mailbox, which may have filled or closed since. *)
CallSend(c) ==
    LET i == call[c].to
    IN  /\ call[c].at = "sending"
        /\ \/ /\ phase[i] = "gone"
              /\ call' = [call EXCEPT ![c] = Answered(c, "unavailable")]
              /\ UNCHANGED mailbox
           \/ /\ phase[i] # "gone" /\ Len(mailbox[i]) = Capacity
              /\ call' = [call EXCEPT ![c] = Answered(c, "queue_full")]
              /\ UNCHANGED mailbox
           \/ /\ phase[i] # "gone" /\ Len(mailbox[i]) < Capacity
              /\ call' = [call EXCEPT ![c].at = "queued"]
              /\ mailbox' = [mailbox EXCEPT ![i] = Append(@, c)]
        /\ UNCHANGED <<registryVars, idOf, phase, done, current, spawner, control, stopAnswer>>

(* The three branches of the actor's select. *)
TakeCommand(i) ==
    /\ i \in Made /\ phase[i] = "idle" /\ mailbox[i] # <<>>
    /\ current' = [current EXCEPT ![i] = {Head(mailbox[i])}]
    /\ mailbox' = [mailbox EXCEPT ![i] = Tail(@)]
    /\ phase' = [phase EXCEPT ![i] = "command"]
    /\ UNCHANGED <<registryVars, idOf, done, callerVars>>

TakeTick(i) ==
    /\ Ticks /\ i \in Made /\ phase[i] = "idle"
    /\ phase' = [phase EXCEPT ![i] = "tick"]
    /\ UNCHANGED <<registryVars, idOf, done, mailbox, current, callerVars>>

TakeStop(i) ==
    /\ i \in Made /\ phase[i] = "idle" /\ control[i] = "sent"
    /\ control' = [control EXCEPT ![i] = "received"]
    /\ phase' = [phase EXCEPT ![i] = "stopping"]
    /\ UNCHANGED <<registryVars, idOf, done, mailbox, current, spawner, stopAnswer, call>>

(* Both channels are closed: nobody has a handle any more. *)
SeesClosed(i) ==
    /\ dropped /\ i \in Made /\ phase[i] = "idle" /\ mailbox[i] = <<>> /\ control[i] = "none"
    /\ phase' = [phase EXCEPT ![i] = "stopping"]
    /\ UNCHANGED <<registryVars, idOf, done, mailbox, current, callerVars>>

(* Mutant: a command that panics drops its response channel. *)
CommandEndsSilently(i) ==
    /\ phase[i] = "command"
    /\ \E outcome \in {"ok", "unavailable"} :
          /\ call' = [c \in Calls |-> IF c \in current[i] THEN Answered(c, outcome) ELSE call[c]]
          /\ phase' = [phase EXCEPT ![i] = IF outcome = "ok" THEN "idle" ELSE "stopping"]
    /\ current' = [current EXCEPT ![i] = {}]
    /\ UNCHANGED <<registryVars, idOf, done, mailbox, spawner, control, stopAnswer>>

(* A command ends: only a panic ends the scene, and every outcome is told. *)
CommandEnds(i) ==
    /\ phase[i] = "command"
    /\ \E outcome \in {"ok", "handler_error", "timeout", "panicked"} :
          /\ call' = [c \in Calls |-> IF c \in current[i] THEN Answered(c, outcome) ELSE call[c]]
          /\ phase' = [phase EXCEPT ![i] = IF outcome = "panicked" THEN "stopping" ELSE "idle"]
    /\ current' = [current EXCEPT ![i] = {}]
    /\ UNCHANGED <<registryVars, idOf, done, mailbox, spawner, control, stopAnswer>>

(* A tick ends: an error, a time-out and a panic all end the scene. *)
TickEnds(i) ==
    /\ phase[i] = "tick"
    /\ \E next \in {"idle", "stopping"} : phase' = [phase EXCEPT ![i] = next]
    /\ UNCHANGED <<registryVars, idOf, done, mailbox, current, callerVars>>

(* The stop hook ends, however it does. *)
StopHookEnds(i) ==
    /\ phase[i] = "stopping"
    /\ phase' = [phase EXCEPT ![i] = "stopped"]
    /\ done' = [done EXCEPT ![i] = TRUE]
    /\ UNCHANGED <<registryVars, idOf, mailbox, current, callerVars>>

(* Mutant: the receiver outlives the task, its calls wait for ever. *)
ExitKeepsMailbox(i) ==
    /\ phase[i] \in {"failed", "stopped"}
    /\ phase' = [phase EXCEPT ![i] = "gone"]
    /\ spawner' = [spawner EXCEPT ![i] = IF phase[i] = "failed" THEN "refused" ELSE @]
    /\ UNCHANGED <<registryVars, idOf, done, mailbox, current, control, stopAnswer, call>>

(* run_scene answers whom it knows of and returns.  Its receivers are      *)
(* dropped with what is in them: those callers see a closed oneshot.       *)
Exit(i) ==
    /\ phase[i] \in {"failed", "stopped"}
    /\ phase' = [phase EXCEPT ![i] = "gone"]
    /\ mailbox' = [mailbox EXCEPT ![i] = <<>>]
    /\ call' = [c \in Calls |-> IF call[c].at = "queued" /\ call[c].to = i
                                THEN Answered(c, "unavailable") ELSE call[c]]
    /\ spawner' = [spawner EXCEPT ![i] = IF phase[i] = "failed" THEN "refused" ELSE @]
    /\ \E result \in {"ok", "hook_error"} :
          stopAnswer' = [stopAnswer EXCEPT ![i] =
              IF @ = "none" /\ control[i] = "received" THEN result
              ELSE IF @ = "none" /\ control[i] = "sent" THEN "unavailable" ELSE @]
    /\ UNCHANGED <<registryVars, idOf, done, current, control>>

(* stop: the handle leaves the registry first. *)
StopTake(id) ==
    /\ ~dropped /\ id \in DOMAIN registry
    /\ control' = [control EXCEPT ![registry[id]] = "taken"]
    /\ Unregister(id)
    /\ UNCHANGED <<closing, shut, dropped, actorVars, spawner, stopAnswer, call>>

(* shutdown: closing is set before the registry is taken. *)
ShutdownBegin ==
    /\ ~dropped /\ ~closing
    /\ closing' = TRUE
    /\ UNCHANGED <<registry, shut, dropped, actorVars, callerVars>>

ShutdownTake ==
    /\ closing /\ ~shut
    /\ shut' = TRUE
    /\ registry' = Only(registry, {})
    /\ control' = [i \in Instances |-> IF i \in Range(registry) THEN "taken" ELSE control[i]]
    /\ UNCHANGED <<closing, dropped, actorVars, spawner, stopAnswer, call>>

(* Mutant: a scene that is still starting is not signalled. *)
SendStopWhenRunning(i) ==
    /\ control[i] = "taken"
    /\ control' = [control EXCEPT ![i] = IF done[i] \/ phase[i] = "starting" THEN "unsent" ELSE "sent"]
    /\ stopAnswer' = [stopAnswer EXCEPT ![i] = IF done[i] THEN "not_found" ELSE @]
    /\ UNCHANGED <<registryVars, actorVars, spawner, call>>

(* Whoever took a handle signals it, unless it is done or its task gone. *)
SendStop(i) ==
    /\ control[i] = "taken"
    /\ control' = [control EXCEPT ![i] = IF done[i] THEN "unsent" ELSE "sent"]
    /\ stopAnswer' = [stopAnswer EXCEPT ![i] = IF done[i] THEN "not_found" ELSE @]
    /\ UNCHANGED <<registryVars, actorVars, spawner, call>>

(* The wait of stop or shutdown is bounded; the actor goes on. *)
StopTimesOut(i) ==
    /\ control[i] \in {"sent", "received"} /\ stopAnswer[i] = "none"
    /\ stopAnswer' = [stopAnswer EXCEPT ![i] = "timeout"]
    /\ UNCHANGED <<registryVars, actorVars, spawner, control, call>>

(* The last clone of the runtime is dropped: no method of it is running. *)
DropRuntime ==
    /\ ~dropped
    /\ closing => shut
    /\ \A c \in Calls : call[c].at \in {"new", "answered"}
    /\ \A i \in Instances : /\ spawner[i] \in {"none", "ok", "error"}
                            /\ control[i] # "none" => stopAnswer[i] # "none"
    /\ dropped' = TRUE
    /\ registry' = Only(registry, {})
    /\ UNCHANGED <<closing, shut, actorVars, callerVars>>

ActorProgress(i) ==
    \/ StartSucceeds(i) \/ StartFails(i) \/ CommandEnds(i) \/ TickEnds(i)
    \/ StopHookEnds(i) \/ Exit(i) \/ SeesClosed(i)

Next ==
    \/ \E id \in Ids : Spawn(id) \/ StopTake(id)
    \/ \E c \in Calls : CallSend(c) \/ \E id \in Ids : CallLookup(c, id)
    \/ \E i \in Instances : \/ ActorProgress(i) \/ SpawnReturns(i)
                            \/ TakeCommand(i) \/ TakeTick(i) \/ TakeStop(i)
                            \/ SendStop(i) \/ StopTimesOut(i)
    \/ ShutdownBegin \/ ShutdownTake \/ DropRuntime

Spec == Init /\ [][Next]_vars

(* Handlers end (each is under a time-out), callers take their next step,  *)
(* and the select of the actor, which polls its branches in random order,  *)
(* does not pass over a branch for ever.                                   *)
FairSpec ==
    /\ Spec
    /\ \A i \in Instances : /\ WF_vars(ActorProgress(i)) /\ WF_vars(SendStop(i))
                            /\ SF_vars(TakeCommand(i)) /\ SF_vars(TakeStop(i))
    /\ \A c \in Calls : WF_vars(CallSend(c))
    /\ WF_vars(ShutdownTake)
-----------------------------------------------------------------------------

(* A scene that was neither stopped nor shut down stays addressable until  *)
(* its task is done: no failed spawn, lookup or replacement of another     *)
(* instance takes its registration away.                                   *)
LiveIsAddressable ==
    \A i \in Made : ~done[i] /\ control[i] = "none" /\ ~dropped
                        => idOf[i] \in DOMAIN registry /\ registry[idOf[i]] = i

(* Once shutdown has taken the registry nothing is registered again, so no *)
(* scene escapes the stop signal.                                          *)
NothingAfterShutdown == shut => DOMAIN registry = {}

(* A caller that is told "unavailable" can send its command again: the     *)
(* scene did not execute it and never will.                                *)
UnavailableMeansNotRun ==
    [][\A c \in Calls : \A i \in Instances :
          c \in current[i] => call'[c].answer # "unavailable"]_vars

(* Commands and ticks of one scene never overlap, also across a stop and a *)
(* new spawn of the same id.                                               *)
SerialPerScene ==
    \A i, j \in Made : i # j /\ idOf[i] = idOf[j]
        => ~(phase[i] \in {"command", "tick"} /\ phase[j] \in {"command", "tick"})

(* Every command that got into a mailbox is answered. *)
CallsAnswered == \A c \in Calls : call[c].at = "queued" ~> call[c].at = "answered"

(* shutdown ends every scene, whatever its mailbox holds. *)
ShutdownEndsScenes == shut ~> \A i \in Made : phase[i] = "gone"
=============================================================================
