---------------------------- MODULE WorldCommands ----------------------------
(***************************************************************************)
(* A command inside a World (crates/elura-world/src: server.rs, runtime.rs,*)
(* keyed.rs, middleware.rs): the ownership check, the lock of its player   *)
(* taken from a bounded cache, and a handler inside a unit of work.        *)
(*                                                                         *)
(* A step ends where the code awaits.  The future of a command can be      *)
(* dropped at any await (time-out, lost connection, aborted task); its     *)
(* lock and its transaction are then given up by the drop guards.          *)
(***************************************************************************)
EXTENDS Naturals, FiniteSets, Functions

CONSTANTS Commands, PlayerOf,
          LocksPerShard,   \* LOCKS_PER_SHARD; the players share one shard
          MaxEpoch,        \* bound on ownership changes
          MaxFaults        \* bound on failures of any kind

VARIABLES step,        \* command -> where its future is
          stamp,       \* command -> the owner epoch the gateway stamped on it
          epoch,       \* the epoch of the current assignment; odd: this World
          cache,       \* partial: player -> lock
          lockOf,      \* partial: command -> the lock it has a reference to
          holder,      \* partial: lock -> the command that holds it
          locks,       \* locks created so far
          tx,          \* command -> its transaction
          background,  \* commands whose rollback was spawned
          answer,      \* command -> what was answered
          faults,      \* failures so far
          arrived      \* history: command -> the epoch when it was received

lockVars == <<cache, lockOf, holder, locks>>
commandVars == <<step, stamp, epoch, lockVars, tx, background, answer, faults, arrived>>

Holding == {"locked", "running", "committing", "undoing"}
Inside == Holding \cup {"received", "validated", "queued"}
Set(f, x, v) == [y \in DOMAIN f \cup {x} |-> IF y = x THEN v ELSE f[y]]
Del(f, S) == Restrict(f, DOMAIN f \ S)
Goes(c, s) == step' = [step EXCEPT ![c] = s]
Fault == faults < MaxFaults /\ faults' = faults + 1

CommandsInit ==
    /\ step = [c \in Commands |-> "out"] /\ stamp = [c \in Commands |-> 0] /\ epoch = 1
    /\ cache = [p \in {} |-> 0] /\ lockOf = [c \in {} |-> 0] /\ holder = [l \in {} |-> 0] /\ locks = 0
    /\ tx = [c \in Commands |-> "none"] /\ background = {}
    /\ answer = [c \in Commands |-> "none"] /\ faults = 0
    /\ arrived = [c \in Commands |-> 0]

(* The gateway stamped the assignment it knew, perhaps an old one. *)
Receive(c) ==
    /\ step[c] = "out" /\ Goes(c, "received")
    /\ \E e \in 1 .. epoch : stamp' = [stamp EXCEPT ![c] = e]
    /\ arrived' = [arrived EXCEPT ![c] = epoch]
    /\ UNCHANGED <<epoch, lockVars, tx, background, answer, faults>>

(* The end of a command: the lock guard and reference are dropped with its *)
(* future, in one go.                                                      *)
Release(c) ==
    /\ lockOf' = Del(lockOf, {c})
    /\ holder' = Restrict(holder, {l \in DOMAIN holder : holder[l] # c})
    /\ UNCHANGED <<cache, locks>>
Answers(c, what) ==
    /\ Goes(c, "done") /\ answer' = [answer EXCEPT ![c] = what] /\ Release(c)

Owner(e) == e % 2 = 1
(* validate_ownership: this World, and the epoch the resolver knows now;   *)
(* the resolver may fail.                                                  *)
Validate(c) ==
    /\ step[c] = "received"
    /\ \/ Owner(epoch) /\ stamp[c] = epoch /\ Goes(c, "validated") /\ UNCHANGED <<lockVars, answer, faults>>
       \/ ~(Owner(epoch) /\ stamp[c] = epoch) /\ Answers(c, "error") /\ UNCHANGED faults
       \/ Fault /\ Answers(c, "error")
    /\ UNCHANGED <<stamp, arrived, epoch, tx, background>>

(* Mutant: any lock may be evicted. *)
IdleAlways(p) == TRUE
(* The locks only the cache refers to (strong_count = 1). *)
Idle(p) == \A c \in DOMAIN lockOf : lockOf[c] # cache[p]
(* KeyedExecutor::execute: now and then locks idle for long are pruned;    *)
(* over the limit one idle lock is evicted, if there is one.               *)
TakeReference(c) ==
    /\ step[c] = "validated" /\ Goes(c, "queued")
    /\ \E pruned \in SUBSET {p \in DOMAIN cache : Idle(p)} :
       LET kept == Del(cache, pruned)
           p == PlayerOf[c]
           idle == {q \in DOMAIN kept : Idle(q)}
           full == p \notin DOMAIN kept /\ Cardinality(DOMAIN kept) >= LocksPerShard
       IN  \E evicted \in IF full /\ idle # {} THEN {{q} : q \in idle} ELSE {{}} :
           LET left == Del(kept, evicted)
           IN  /\ cache' = IF p \in DOMAIN left THEN left ELSE Set(left, p, locks + 1)
               /\ locks' = IF p \in DOMAIN left THEN locks ELSE locks + 1
               /\ lockOf' = Set(lockOf, c, cache'[p])
    /\ UNCHANGED <<stamp, arrived, epoch, holder, tx, background, answer, faults>>

Lock(c) ==
    /\ step[c] = "queued" /\ lockOf[c] \notin DOMAIN holder
    /\ holder' = Set(holder, lockOf[c], c) /\ Goes(c, "locked")
    /\ UNCHANGED <<stamp, arrived, epoch, cache, lockOf, locks, tx, background, answer, faults>>

(* execute_serial and UnitOfWorkMiddleware::handle: begin, then the rest   *)
(* of the chain; an unknown route or a failing begin has nothing to undo.  *)
Begin(c) ==
    /\ step[c] = "locked"
    /\ \/ tx' = [tx EXCEPT ![c] = "open"] /\ Goes(c, "running") /\ UNCHANGED <<lockVars, answer, faults>>
       \/ Fault /\ Answers(c, "error") /\ UNCHANGED tx
    /\ UNCHANGED <<stamp, arrived, epoch, background>>
HandlerEnds(c) ==
    /\ step[c] = "running" /\ (Goes(c, "committing") \/ Goes(c, "undoing"))
    /\ UNCHANGED <<stamp, arrived, epoch, lockVars, tx, background, answer, faults>>

(* Mutant: the answer is given whether or not the commit succeeds. *)
CommitBlindly(c) ==
    /\ step[c] = "committing" /\ Answers(c, "ok")
    /\ \/ tx' = [tx EXCEPT ![c] = "committed"] /\ UNCHANGED <<background, faults>>
       \/ Fault /\ background' = background \cup {c} /\ UNCHANGED tx
    /\ UNCHANGED <<stamp, arrived, epoch>>
(* commit and rollback; one that fails leaves the transaction to the drop  *)
(* guard, and a commit that fails may have reached the store.              *)
Commit(c) ==
    /\ step[c] = "committing"
    /\ \/ tx' = [tx EXCEPT ![c] = "committed"] /\ Answers(c, "ok") /\ UNCHANGED <<background, faults>>
       \/ /\ Fault /\ background' = background \cup {c} /\ Answers(c, "unknown")
          /\ \E t \in {"open", "committed"} : tx' = [tx EXCEPT ![c] = t]
    /\ UNCHANGED <<stamp, arrived, epoch>>
Rollback(c) ==
    /\ step[c] = "undoing" /\ Answers(c, "error")
    /\ \/ tx' = [tx EXCEPT ![c] = "undone"] /\ UNCHANGED <<background, faults>>
       \/ Fault /\ background' = background \cup {c} /\ UNCHANGED tx
    /\ UNCHANGED <<stamp, arrived, epoch>>

(* Mutant: the guard is disarmed when the handler returns. *)
GuardedEarly == {c \in Commands : step[c] = "running"}
(* The drop guards: armed from the begin of the transaction to its end. *)
Guarded == {c \in Commands : step[c] \in {"running", "committing", "undoing"}}

(* The futures of S are dropped; a commit may have reached the store.      *)
Drop(S, what) ==
    /\ step' = [c \in Commands |-> IF c \in S THEN "done" ELSE step[c]]
    /\ answer' = [c \in Commands |-> IF c \in S THEN what ELSE answer[c]]
    /\ lockOf' = Del(lockOf, S)
    /\ holder' = Restrict(holder, {l \in DOMAIN holder : holder[l] \notin S})
    /\ background' = background \cup (S \cap Guarded)
    /\ \E done \in SUBSET {c \in S : step[c] = "committing"} :
           tx' = [c \in Commands |-> IF c \in done THEN "committed" ELSE tx[c]]
    /\ UNCHANGED <<stamp, arrived, epoch, cache, locks>>

(* handler_timeout, counted from the moment the lock is held, or a panic.  *)
TimeOut(c) == step[c] \in Holding /\ Fault /\ Drop({c}, "unknown")

(* The spawned rollback; after a commit it changes nothing, and one that   *)
(* fails is only logged.                                                   *)
BackgroundRollback(c) ==
    /\ c \in background /\ background' = background \ {c}
    /\ \/ tx' = [tx EXCEPT ![c] = IF @ = "open" THEN "undone" ELSE @] /\ UNCHANGED faults
       \/ Fault /\ tx' = [tx EXCEPT ![c] = IF @ = "open" THEN "abandoned" ELSE @]
    /\ UNCHANGED <<step, stamp, arrived, epoch, lockVars, answer>>

(* Another assignment of the shard is observed by the resolver. *)
MoveShard ==
    /\ epoch < MaxEpoch /\ epoch' = epoch + 1
    /\ UNCHANGED <<step, stamp, arrived, lockVars, tx, background, answer, faults>>

CommandNext(c) ==
    \/ Validate(c) \/ TakeReference(c) \/ Lock(c) \/ Begin(c) \/ HandlerEnds(c)
    \/ Commit(c) \/ Rollback(c) \/ TimeOut(c) \/ BackgroundRollback(c)
-----------------------------------------------------------------------------
(* The variables keep their types, and a held lock is referred to. *)
CommandsTypeOK ==
    /\ step \in [Commands -> Inside \cup {"out", "done"}]
    /\ stamp \in [Commands -> 0 .. epoch] /\ epoch \in 1 .. MaxEpoch
    /\ Range(cache) \subseteq 1 .. locks /\ DOMAIN lockOf \subseteq Commands
    /\ Range(lockOf) \subseteq 1 .. locks /\ DOMAIN holder \subseteq Range(lockOf)
    /\ tx \in [Commands -> {"none", "open", "committed", "undone", "abandoned"}] /\ background \subseteq Commands
    /\ answer \in [Commands -> {"none", "ok", "error", "unknown"}]

(* KeyedExecutor: two commands of one player never run at the same time,   *)
(* although locks are pruned, evicted and created again meanwhile.         *)
SerialPerPlayer ==
    \A c, d \in Commands :
        c # d /\ PlayerOf[c] = PlayerOf[d] => ~(step[c] \in Holding /\ step[d] \in Holding)

(* UnitOfWorkMiddleware: a command answered Ok is committed; one answered  *)
(* with an error, other than of the commit or of a time-out, is not.       *)
AnswerIsOutcome ==
    \A c \in Commands : /\ answer[c] = "ok" => tx[c] = "committed"
                        /\ answer[c] = "error" => tx[c] # "committed"

(* SharedRollbackOnDrop and RollbackOnDrop: an open transaction belongs to *)
(* a handler still running or has a rollback on its way, wherever the      *)
(* command was cut short.                                                  *)
NoOrphanTransaction ==
    \A c \in Commands : tx[c] = "open" =>
        step[c] \in {"running", "committing", "undoing"} \/ c \in background

=============================================================================
