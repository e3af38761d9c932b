---------------------------- MODULE MemoryOutbox ----------------------------
(***************************************************************************)
(* MemoryOutbox (crates/elura-core/src/outbox/memory.rs): three hash maps  *)
(* behind one mutex.  Every method runs to its end under the mutex, so     *)
(* each is one atomic action here.                                         *)
(*                                                                         *)
(* Instants are kept as the time that is left until them, 0 for "now or    *)
(* earlier": lease_until <= now is lease = 0, and available_at <= now is   *)
(* delay = 0.  Tick lets one unit of time pass for every timer at once.    *)
(* An Option that is None is the constant None, a lease_until that is None *)
(* is 0 (the code treats None and a past instant alike).                   *)
(*                                                                         *)
(* held is the set of OutboxDelivery values that are in some client's      *)
(* hands or inside a request on its way: acquire adds to it and any client *)
(* may forget one (it finished, crashed, lost the answer).                 *)
(***************************************************************************)
EXTENDS Naturals, FiniteSets, Functions

CONSTANTS Events,      \* event ids, numbered in (created_at, id) order
          Contents,    \* the part of an event that same_identity compares
          Workers,     \* worker ids
          Tokens,      \* UUIDs
          None,        \* Option::None
          MaxBatch,    \* largest limit a client passes to acquire
          Lease,       \* the lease a worker asks for, in ticks
          MaxDelay,    \* longest delay asked for by append, retry or replay
          AttemptCap   \* u32::MAX, where attempt saturates

ASSUME EventsAssumption == Events \subseteq Nat
ASSUME NoneAssumption == None \notin Tokens \cup Workers
ASSUME TimingAssumption == Lease \in Nat \ {0} /\ MaxDelay \in Nat
ASSUME CountAssumption == MaxBatch \in Nat \ {0} /\ AttemptCap \in Nat \ {0}

VARIABLES active, dead, completed, held

storeVars == <<active, dead, completed>>
memoryVars == <<active, dead, completed, held>>

Delays == 0 .. MaxDelay

Entry == [content : Contents, attempt : 0 .. AttemptCap, delay : Delays,
          worker : Workers \cup {None}, token : Tokens \cup {None},
          lease : 0 .. Lease]

DeadLetter == [content : Contents, attempt : 0 .. AttemptCap]

OutboxDelivery == [id : Events, attempt : 1 .. AttemptCap,
                   worker : Workers, token : Tokens]

(* HashMap::insert and HashMap::remove. *)
Insert(f, k, v) == [x \in DOMAIN f \cup {k} |-> IF x = k THEN v ELSE f[x]]
Remove(f, k) == Restrict(f, DOMAIN f \ {k})

MemoryInit ==
    /\ active = [e \in {} |-> e]
    /\ dead = [e \in {} |-> e]
    /\ completed = [e \in {} |-> e]
    /\ held = {}

FreshEntry(c, d) == [content |-> c, attempt |-> 0, delay |-> d,
                     worker |-> None, token |-> None, lease |-> 0]

Known == DOMAIN active \cup DOMAIN dead \cup DOMAIN completed

(* append.  An id that is stored already leaves the store as it is: the    *)
(* answer is Ok for the same identity and DuplicateEvent for another.      *)
AppendEvent(e, c, d) ==
    /\ e \notin Known
    /\ active' = Insert(active, e, FreshEntry(c, d))
    /\ UNCHANGED <<dead, completed>>

(* Mutant: acquire forgets to look at the lease. *)
AvailableWhileLeased == {e \in DOMAIN active : active[e].delay = 0}

(* The entries that acquire may hand out. *)
Available == {e \in DOMAIN active : active[e].delay = 0 /\ active[e].lease = 0}

(* The first `limit` of them in (created_at, id) order. *)
IsBatch(batch, limit) ==
    /\ batch \subseteq Available
    /\ \A x \in batch, y \in Available \ batch : x < y
    /\ Cardinality(batch) <= limit
    /\ batch # Available => Cardinality(batch) = limit

(* Uuid::new_v4 returns a token that nobody has for this event. *)
IsFresh(e, t) ==
    /\ t # active[e].token
    /\ \A d \in held : d.id = e => d.token # t

(* Mutant: attempt grows past u32. *)
AttemptWithoutCap(n) == n + 1

NextAttempt(n) == IF n < AttemptCap THEN n + 1 ELSE AttemptCap

Deliveries(w, batch, f) ==
    {[id |-> e, attempt |-> NextAttempt(active[e].attempt), worker |-> w,
      token |-> f[e]] : e \in batch}

(* Mutant: the entry keeps its old attempt, only the delivery counts it. *)
AcquireUncounted(w, batch, f) ==
    /\ \A e \in batch : IsFresh(e, f[e])
    /\ active' = [e \in DOMAIN active |->
                    IF e \in batch
                    THEN [active[e] EXCEPT !.worker = w, !.token = f[e], !.lease = Lease]
                    ELSE active[e]]
    /\ UNCHANGED <<dead, completed>>

(* acquire by worker w; f gives the token of each event of the batch. *)
Acquire(w, batch, f) ==
    /\ \A e \in batch : IsFresh(e, f[e])
    /\ active' = [e \in DOMAIN active |->
                    IF e \in batch
                    THEN [active[e] EXCEPT !.attempt = NextAttempt(@),
                                           !.worker = w,
                                           !.token = f[e],
                                           !.lease = Lease]
                    ELSE active[e]]
    /\ UNCHANGED <<dead, completed>>

(* Mutant: the owner is recognised by its worker id alone. *)
LeasedByWorker(d) ==
    /\ d.id \in DOMAIN active
    /\ active[d.id].worker = d.worker
    /\ active[d.id].lease > 0

(* leased: the entry is active, is this worker's under this token, and its *)
(* lease has not ended.  Otherwise OutboxNotFound or OutboxLeaseLost.      *)
Leased(d) ==
    /\ d.id \in DOMAIN active
    /\ active[d.id].worker = d.worker
    /\ active[d.id].token = d.token
    /\ active[d.id].lease > 0

Ack(d) ==
    /\ Leased(d)
    /\ active' = Remove(active, d.id)
    /\ completed' = Insert(completed, d.id, active[d.id].content)
    /\ UNCHANGED dead

Renew(d) ==
    /\ Leased(d)
    /\ active' = [active EXCEPT ![d.id].lease = Lease]
    /\ UNCHANGED <<dead, completed>>

Retry(d, delay) ==
    /\ Leased(d)
    /\ active' = [active EXCEPT ![d.id].delay = delay,
                                ![d.id].worker = None,
                                ![d.id].token = None,
                                ![d.id].lease = 0]
    /\ UNCHANGED <<dead, completed>>

DeadLetterIt(d) ==
    /\ Leased(d)
    /\ active' = Remove(active, d.id)
    /\ dead' = Insert(dead, d.id, [content |-> active[d.id].content,
                                   attempt |-> active[d.id].attempt])
    /\ UNCHANGED completed

(* Mutant: the dead letter is copied, not taken. *)
ReplayKeepsLetter(e, delay) ==
    /\ e \in DOMAIN dead
    /\ active' = Insert(active, e, FreshEntry(dead[e].content, delay))
    /\ UNCHANGED <<dead, completed>>

ReplayDeadLetter(e, delay) ==
    /\ e \in DOMAIN dead
    /\ dead' = Remove(dead, e)
    /\ active' = Insert(active, e, FreshEntry(dead[e].content, delay))
    /\ UNCHANGED completed

Down(n) == IF n = 0 THEN 0 ELSE n - 1

(* One unit of time.  The clock is outside the program. *)
Tick ==
    /\ active' = [e \in DOMAIN active |->
                    [active[e] EXCEPT !.delay = Down(@), !.lease = Down(@)]]
    /\ UNCHANGED <<dead, completed>>

(* Any client, at any time, with any delivery it still has: late and       *)
(* repeated calls included.                                                *)
MemoryNext ==
    \/ \E e \in Events, c \in Contents, d \in Delays :
          AppendEvent(e, c, d) /\ UNCHANGED held
    \/ \E w \in Workers, limit \in 1 .. MaxBatch :
       \E batch \in SUBSET Available : \E f \in [batch -> Tokens] :
          /\ IsBatch(batch, limit)
          /\ Acquire(w, batch, f)
          /\ held' = held \cup Deliveries(w, batch, f)
    \/ \E d \in held : Ack(d) /\ UNCHANGED held
    \/ \E d \in held : Renew(d) /\ UNCHANGED held
    \/ \E d \in held, delay \in Delays : Retry(d, delay) /\ UNCHANGED held
    \/ \E d \in held : DeadLetterIt(d) /\ UNCHANGED held
    \/ \E e \in Events, delay \in Delays :
          ReplayDeadLetter(e, delay) /\ UNCHANGED held
    \/ Tick /\ UNCHANGED held
    \/ \E d \in held : held' = held \ {d} /\ UNCHANGED storeVars

MemorySpec == MemoryInit /\ [][MemoryNext]_memoryVars

-----------------------------------------------------------------------------

(* Every map holds entries of its own kind under event ids, and every      *)
(* delivery in flight is one that acquire can build.                       *)
MemoryTypeOK ==
    /\ active \in [DOMAIN active -> Entry] /\ DOMAIN active \subseteq Events
    /\ dead \in [DOMAIN dead -> DeadLetter] /\ DOMAIN dead \subseteq Events
    /\ completed \in [DOMAIN completed -> Contents]
    /\ DOMAIN completed \subseteq Events
    /\ held \subseteq OutboxDelivery

(* No call sequence stores one event in two of the three maps: a replay,   *)
(* an acknowledgement and a dead-lettering that race leave it one home.    *)
StoredOnce ==
    /\ DOMAIN active \cap DOMAIN dead = {}
    /\ DOMAIN active \cap DOMAIN completed = {}
    /\ DOMAIN dead \cap DOMAIN completed = {}

(* The delivery that the store would honour is the one the last acquire    *)
(* built: its attempt, on which the dispatcher decides between retry and   *)
(* dead_letter, is the stored one, however many stale deliveries of the    *)
(* same event are still around.                                            *)
HonouredDeliveryIsCurrent ==
    \A d \in held :
        d.id \in DOMAIN active /\ active[d.id].token = d.token
            => d.attempt = active[d.id].attempt /\ d.worker = active[d.id].worker

ContentOf(e) == CASE e \in DOMAIN active    -> active[e].content
                  [] e \in DOMAIN dead      -> dead[e].content
                  [] e \in DOMAIN completed -> completed[e]

DurableStep ==
    /\ \A e \in Known : e \in Known' /\ ContentOf(e)' = ContentOf(e)
    /\ DOMAIN completed \subseteq DOMAIN completed'

(* An accepted event is never lost and never changes: it stays in some map *)
(* with the content it was first appended with, and once acknowledged it   *)
(* is acknowledged for good, whatever late calls arrive.                   *)
Durable == [][DurableStep]_memoryVars

(* The refinement: an entry is under lease while its timer runs. *)
HomeOf == [e \in Events |-> IF e \in DOMAIN active THEN "active"
                            ELSE IF e \in DOMAIN completed THEN "completed"
                            ELSE IF e \in DOMAIN dead THEN "dead" ELSE "absent"]
BodyOf == [e \in Known |-> ContentOf(e)]
ValidNow == {<<e, active[e].token>> : e \in {x \in DOMAIN active : active[x].lease > 0}}
Outstanding == {<<d.id, d.token>> : d \in held}

Contract == INSTANCE OutboxContract
            WITH home <- HomeOf, body <- BodyOf,
                 valid <- ValidNow, outstanding <- Outstanding

(* The store keeps the promise of the OutboxStore trait: only the delivery *)
(* whose token is the one honoured can settle an event, a token is issued  *)
(* only while no other is honoured, and nothing else moves an event.       *)
ImplementsContract == Contract!ContractSpec
=============================================================================
