----------------------------- MODULE WorldServer -----------------------------
(***************************************************************************)
(* The life of a World process (serve_core, start_modules, stop_modules,   *)
(* serve_inner, serve_connection and renew_registration in                 *)
(* crates/elura-world/src/server.rs) around the commands it executes:      *)
(* modules, registration with discovery and its renewal, the listener, the *)
(* connections of the gateways, and an orderly or a failed end.            *)
(***************************************************************************)
EXTENDS WorldCommands

CONSTANTS Conns, ConnOf,   \* gateway connections, and the one a command uses
          Modules,         \* number of modules
          MaxInFlight      \* max_in_flight_per_connection

ASSUME WorldAssumption ==
    /\ ConnOf \in [Commands -> Conns] /\ Modules \in Nat /\ MaxInFlight \in Nat \ {0}
    /\ MaxEpoch \in Nat \ {0} /\ MaxFaults \in Nat /\ LocksPerShard \in Nat \ {0}

VARIABLES phase,       \* where serve_core is
          up,          \* modules started and not stopped: 1 .. up
          listening,   \* the listener is bound
          registered,  \* discovery has the entry of this World
          renewal,     \* renew_registration is "idle", has "sent" a renewal or is "over"
          conn,        \* connection -> "none", "open", "closed" (its input), "aborted",
                       \* "cut" (aborted and past its last step) or "gone"
          served,      \* serve_inner has returned
          lost         \* history: the entry outlived this World's control

processVars == <<phase, up, listening, registered, renewal, conn, served, lost>>
worldVars == <<commandVars, processVars>>

WorldInit ==
    /\ CommandsInit
    /\ phase = "new" /\ up = 0 /\ listening = FALSE /\ registered = FALSE /\ renewal = "idle"
    /\ conn = [k \in Conns |-> "none"] /\ served = FALSE /\ lost = FALSE

On(k) == {c \in Commands : ConnOf[c] = k /\ step[c] \in Inside}

(* serve_core, up to the loop. *)
Bind ==
    /\ phase = "new"
    /\ \/ phase' = "starting" /\ listening' = TRUE /\ UNCHANGED faults
       \/ Fault /\ phase' = "ended" /\ UNCHANGED listening
    /\ UNCHANGED <<step, stamp, arrived, epoch, lockVars, tx, background, answer>>
    /\ UNCHANGED <<up, registered, renewal, conn, served, lost>>
(* start_modules: the modules before one that fails are stopped. *)
StartModule ==
    /\ phase = "starting" /\ up < Modules
    /\ \/ up' = up + 1 /\ UNCHANGED <<phase, faults>>
       \/ Fault /\ phase' = "stopping" /\ UNCHANGED up
    /\ UNCHANGED <<step, stamp, arrived, epoch, lockVars, tx, background, answer>>
    /\ UNCHANGED <<listening, registered, renewal, conn, served, lost>>
(* register; a call that fails may have reached discovery. *)
Register ==
    /\ phase = "starting" /\ up = Modules
    /\ \/ phase' = "serving" /\ registered' = TRUE /\ UNCHANGED <<lost, faults>>
       \/ Fault /\ phase' = "stopping" /\ registered' \in BOOLEAN /\ lost' = registered'
    /\ UNCHANGED <<step, stamp, arrived, epoch, lockVars, tx, background, answer>>
    /\ UNCHANGED <<up, listening, renewal, conn, served>>

(* renew_registration: a renewal that was sent is waited for, also when    *)
(* the loop has been told to end; a tick that is due may still win.        *)
RenewStarts ==
    /\ phase \in {"serving", "withdrawing"} /\ renewal = "idle" /\ renewal' = "sent"
    /\ UNCHANGED <<commandVars, phase, up, listening, registered, conn, served, lost>>
RenewEnds ==
    /\ renewal = "sent"
    /\ \/ renewal' = "idle" /\ registered' = TRUE /\ UNCHANGED <<phase, faults>>
       \/ /\ Fault /\ renewal' = "over" /\ UNCHANGED registered
          /\ phase' = IF phase = "serving" THEN "withdrawing" ELSE phase
    /\ UNCHANGED <<step, stamp, arrived, epoch, lockVars, tx, background, answer>>
    /\ UNCHANGED <<up, listening, conn, served, lost>>

(* serve_inner is polled while serving, not between the shutdown and the   *)
(* end of the drain delay; what it accepts after that has no input.  It    *)
(* reads up to max_in_flight requests of a connection, until the end of    *)
(* input, shutdown or a bad frame, and the connection goes once every      *)
(* command is answered.                                                    *)
Accept(k) ==
    /\ phase = "serving" /\ conn[k] = "none" /\ conn' = [conn EXCEPT ![k] = "open"]
    /\ UNCHANGED <<commandVars, phase, up, listening, registered, renewal, served, lost>>
ReadCommand(c) ==
    /\ conn[ConnOf[c]] = "open" /\ Cardinality(On(ConnOf[c])) < MaxInFlight
    /\ Receive(c) /\ UNCHANGED processVars
CloseInput(k) ==
    /\ conn[k] = "open" /\ conn' = [conn EXCEPT ![k] = "closed"]
    /\ UNCHANGED <<commandVars, phase, up, listening, registered, renewal, served, lost>>
ConnectionEnds(k) ==
    /\ conn[k] = "closed" /\ On(k) = {} /\ conn' = [conn EXCEPT ![k] = "gone"]
    /\ UNCHANGED <<commandVars, phase, up, listening, registered, renewal, served, lost>>
(* A response cannot be sent or the stream breaks: the commands of the     *)
(* connection are dropped with it.                                         *)
ConnectionBreaks(k) ==
    /\ conn[k] \in {"open", "closed"} /\ Fault
    /\ conn' = [conn EXCEPT ![k] = "gone"] /\ Drop(On(k), "unknown")
    /\ UNCHANGED <<phase, up, listening, registered, renewal, served, lost>>

(* abort_all, or the drop of the JoinSet: a task that is being polled      *)
(* finishes its step first, and nobody waits for it.                       *)
Aborted == [k \in Conns |-> IF conn[k] \in {"open", "closed"} THEN "aborted" ELSE conn[k]]
Works(c) == \/ CommandNext(c) /\ conn[ConnOf[c]] \in {"open", "closed"} /\ UNCHANGED conn
            \/ CommandNext(c) /\ conn[ConnOf[c]] = "aborted" /\ conn' = [conn EXCEPT ![ConnOf[c]] = "cut"]
            \/ BackgroundRollback(c) /\ UNCHANGED conn
CommandWorks(c) ==
    Works(c) /\ UNCHANGED <<phase, up, listening, registered, renewal, served, lost>>
AbortTakesEffect(k) ==
    /\ conn[k] \in {"aborted", "cut"} /\ conn' = [conn EXCEPT ![k] = "gone"]
    /\ Drop(On(k), "unknown") /\ UNCHANGED faults
    /\ UNCHANGED <<phase, up, listening, registered, renewal, served, lost>>

(* accept fails: serve_inner returns and drops its connections. *)
ServingFails ==
    /\ phase \in {"serving", "draining"} /\ Fault
    /\ served' = TRUE /\ listening' = FALSE /\ conn' = Aborted
    /\ phase' = IF phase = "serving" THEN "withdrawing" ELSE "stopping"
    /\ lost' = (lost \/ registered)
    /\ UNCHANGED <<step, stamp, arrived, epoch, lockVars, tx, background, answer>>
    /\ UNCHANGED <<up, registered, renewal>>

(* Shutdown was asked for: ready is cleared and the renewal told to stop. *)
Withdraw ==
    /\ phase = "serving" /\ phase' = "withdrawing"
    /\ UNCHANGED <<commandVars, up, listening, registered, renewal, conn, served, lost>>
(* Mutant: unregister does not wait for the renewal. *)
AwaitNothing ==
    /\ phase = "withdrawing" /\ phase' = "unregistering"
    /\ UNCHANGED <<commandVars, up, listening, registered, renewal, conn, served, lost>>
AwaitRenewal ==
    /\ phase = "withdrawing" /\ renewal # "sent" /\ phase' = "unregistering" /\ renewal' = "over"
    /\ UNCHANGED <<commandVars, up, listening, registered, conn, served, lost>>
Unregister ==
    /\ phase = "unregistering" /\ phase' = IF served THEN "stopping" ELSE "delaying"
    /\ \/ registered' = FALSE /\ UNCHANGED <<lost, faults>>
       \/ Fault /\ lost' = TRUE /\ UNCHANGED registered
    /\ UNCHANGED <<step, stamp, arrived, epoch, lockVars, tx, background, answer>>
    /\ UNCHANGED <<up, listening, renewal, conn, served>>

(* After discovery_drain_delay the listener is closed. *)
CloseListener ==
    /\ phase = "delaying" /\ phase' = "draining" /\ listening' = FALSE
    /\ UNCHANGED <<commandVars, up, registered, renewal, conn, served, lost>>
(* Mutant: nobody waits for the connections. *)
DrainIgnored ==
    /\ phase = "draining" /\ phase' = "stopping" /\ served' = TRUE
    /\ UNCHANGED <<commandVars, up, listening, registered, renewal, conn, lost>>
(* serve_inner waits for its connections and after shutdown_timeout aborts *)
(* the ones left.                                                          *)
DrainEnds ==
    /\ phase = "draining" /\ phase' = "stopping" /\ served' = TRUE /\ conn' = Aborted
    /\ IF Aborted = conn THEN UNCHANGED faults ELSE Fault
    /\ UNCHANGED <<step, stamp, arrived, epoch, lockVars, tx, background, answer>>
    /\ UNCHANGED <<up, listening, registered, renewal, lost>>

(* Mutant: one stop too many. *)
StopPast ==
    /\ phase = "stopping"
    /\ IF up >= 0 THEN up' = up - 1 /\ UNCHANGED <<phase, listening>>
       ELSE phase' = "ended" /\ listening' = FALSE /\ UNCHANGED up
    /\ UNCHANGED <<commandVars, registered, renewal, conn, served, lost>>
(* stop_modules: in reverse order, whatever each stop returns. *)
StopModule ==
    /\ phase = "stopping"
    /\ IF up > 0 THEN up' = up - 1 /\ UNCHANGED <<phase, listening>>
       ELSE phase' = "ended" /\ listening' = FALSE /\ UNCHANGED up
    /\ UNCHANGED <<commandVars, registered, renewal, conn, served, lost>>

WorldNext ==
    \/ Bind \/ StartModule \/ Register \/ RenewStarts \/ RenewEnds
    \/ \E k \in Conns : \/ Accept(k) \/ CloseInput(k) \/ ConnectionEnds(k)
                        \/ ConnectionBreaks(k) \/ AbortTakesEffect(k)
    \/ \E c \in Commands : ReadCommand(c) \/ CommandWorks(c)
    \/ MoveShard /\ UNCHANGED processVars
    \/ ServingFails \/ Withdraw \/ AwaitRenewal \/ Unregister \/ CloseListener \/ DrainEnds \/ StopModule

WorldSpec == WorldInit /\ [][WorldNext]_worldVars
-----------------------------------------------------------------------------
(* The variables of the process and of its commands keep their types. *)
WorldTypeOK ==
    /\ CommandsTypeOK
    /\ phase \in {"new", "starting", "serving", "withdrawing", "unregistering",
                  "delaying", "draining", "stopping", "ended"}
    /\ up \in 0 .. Modules /\ {listening, registered, served, lost} \subseteq BOOLEAN
    /\ renewal \in {"idle", "sent", "over"}
    /\ conn \in [Conns -> {"none", "open", "closed", "aborted", "cut", "gone"}]

(* serve_core: a command is inside the World only while every module runs, *)
(* on every way out, except the last step of one that was aborted.         *)
CommandsHaveModules ==
    \A c \in Commands : step[c] \in Inside /\ conn[ConnOf[c]] \notin {"aborted", "cut"} => up = Modules

(* "Withdraw traffic before closing the listener": while discovery lists   *)
(* this World its listener is open, and no late renewal lists it again,    *)
(* unless registering, unregistering or the listener failed.               *)
ListedIsListening == registered => listening \/ lost
=============================================================================
