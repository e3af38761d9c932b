----------------------------- MODULE PlayerCache -----------------------------
(***************************************************************************)
(* The bookkeeping of PlayerCache (player/cache.rs) that decides which     *)
(* entry is evicted: a clock read before the map is locked, the access     *)
(* each entry was last used with, and a queue of accesses that is drained  *)
(* from the front at the capacity and compacted when it grows too long.    *)
(* Snapshots and versions are in PlayerLoads; here an entry is its access. *)
(***************************************************************************)
EXTENDS Naturals, Sequences, SequencesExt

CONSTANTS CachePlayers,  \* player keys
          Threads,       \* threads inside lookup or store
          MaxEntries,    \* config.max_entries
          MaxClock       \* bound on the operations of one behaviour

ASSUME CacheAssumption == MaxEntries \in Nat \ {0} /\ MaxClock \in Nat

VARIABLES entries,  \* partial function player -> access
          order,    \* the queue of <<player, access>>
          clock,    \* the next access
          pending   \* thread -> the operation it is about to apply

cacheStructure == <<entries, order, clock>>
lruVars == <<entries, order, clock, pending>>

NoOp == [op |-> "none"]
Operation == [op : {"lookup", "store"}, player : CachePlayers, access : 0 .. MaxClock]
With(f, x, v) == [y \in DOMAIN f \cup {x} |-> IF y = x THEN v ELSE f[y]]
Pairs(f) == {<<p, f[p]>> : p \in DOMAIN f}

CacheInit ==
    /\ entries = [p \in {} |-> 0] /\ order = <<>> /\ clock = 0
    /\ pending = [t \in Threads |-> NoOp]

(* Mutant: the compaction keeps the newest first. *)
CompactedBackwards(f) == SetToSortSeq(Pairs(f), LAMBDA a, b : a[2] > b[2])
(* Mutant: the compaction uses the entries as they were before this use. *)
CompactedBeforeUse(f) == SetToSortSeq(Pairs(entries), LAMBDA a, b : a[2] < b[2])
(* The compacted queue: the current access of every entry, oldest first. *)
Compacted(f) == SetToSortSeq(Pairs(f), LAMBDA a, b : a[2] < b[2])

(* Mutant: the queue is never compacted. *)
RecordAccessAlways(f, p, access) == Append(order, <<p, access>>)
(* record_access, given the entries as they are now. *)
RecordAccess(f, p, access) ==
    IF Len(order) + 1 > 4 * MaxEntries THEN Compacted(f) ELSE Append(order, <<p, access>>)

(* The eviction loop of store: pop the front until the entries fit or the  *)
(* queue is empty; a popped access removes the entry it is current for.    *)
Surviving(f, q, k) == {p \in DOMAIN f : <<p, f[p]>> \notin {q[i] : i \in 1 .. k}}
Enough(f, q, k) == Cardinality(Surviving(f, q, k)) <= MaxEntries \/ k = Len(q)
Pops(f, q) == CHOOSE k \in 0 .. Len(q) : Enough(f, q, k) /\ \A j \in 0 .. k - 1 : ~Enough(f, q, j)

(* lookup and store read the clock before they take the lock. *)
Draw(t, op, p) ==
    /\ pending[t] = NoOp /\ clock < MaxClock
    /\ pending' = [pending EXCEPT ![t] = [op |-> op, player |-> p, access |-> clock]]
    /\ clock' = clock + 1
    /\ UNCHANGED <<entries, order>>

(* lookup under the lock: a miss, an expired entry, or a use. *)
ApplyLookup(t) ==
    LET p == pending[t].player
        f == With(entries, p, pending[t].access)
    IN  /\ pending[t].op = "lookup"
        /\ \/ p \notin DOMAIN entries /\ UNCHANGED <<entries, order>>
           \/ p \in DOMAIN entries /\ entries' = Restrict(entries, DOMAIN entries \ {p}) /\ UNCHANGED order
           \/ /\ p \in DOMAIN entries
              /\ entries' = f
              /\ order' = RecordAccess(f, p, pending[t].access)
        /\ pending' = [pending EXCEPT ![t] = NoOp]
        /\ UNCHANGED clock

(* store under the lock, when the version is not refused. *)
ApplyStore(t) ==
    LET p == pending[t].player
        f == With(entries, p, pending[t].access)
        q == RecordAccess(f, p, pending[t].access)
        k == Pops(f, q)
    IN  /\ pending[t].op = "store"
        /\ entries' = Restrict(f, Surviving(f, q, k))
        /\ order' = SubSeq(q, k + 1, Len(q))
        /\ pending' = [pending EXCEPT ![t] = NoOp]
        /\ UNCHANGED clock

(* store under the lock, when a newer version is cached. *)
RefuseStore(t) ==
    /\ pending[t].op = "store" /\ pending[t].player \in DOMAIN entries
    /\ pending' = [pending EXCEPT ![t] = NoOp]
    /\ UNCHANGED cacheStructure

(* invalidate removes one entry, len the expired ones; the queue keeps     *)
(* their accesses.                                                         *)
RemoveEntries(S) ==
    /\ S # {} /\ S \subseteq DOMAIN entries
    /\ entries' = Restrict(entries, DOMAIN entries \ S)
    /\ UNCHANGED <<order, clock, pending>>

CacheNext ==
    \/ \E t \in Threads : \/ \E op \in {"lookup", "store"}, p \in CachePlayers : Draw(t, op, p)
                          \/ ApplyLookup(t) \/ ApplyStore(t) \/ RefuseStore(t)
    \/ \E S \in SUBSET CachePlayers : RemoveEntries(S)

CacheSpec == CacheInit /\ [][CacheNext]_lruVars
-----------------------------------------------------------------------------
(* The variables keep their types: store and record_access never leave     *)
(* more than max_entries entries, nor a queue longer than four accesses    *)
(* per allowed entry.                                                      *)
CacheTypeOK ==
    /\ DOMAIN entries \subseteq CachePlayers /\ Cardinality(DOMAIN entries) <= MaxEntries
    /\ \A p \in DOMAIN entries : entries[p] \in 0 .. MaxClock
    /\ order \in Seq(CachePlayers \X (0 .. MaxClock)) /\ Len(order) <= 4 * MaxEntries
    /\ clock \in 0 .. MaxClock
    /\ pending \in [Threads -> Operation \cup {NoOp}]

(* The current access of every entry is in the queue, so the eviction loop *)
(* finds a victim before the queue is empty, although accesses are drawn   *)
(* outside the lock and stale ones stay queued.                            *)
EntriesQueued == Pairs(entries) \subseteq ToSet(order)

(* store: when accesses were applied in the order they were drawn, the     *)
(* entries evicted are the least recently used, never the one stored.      *)
InOrder(q, access) ==
    /\ \A i, j \in DOMAIN q : i < j => q[i][2] < q[j][2]
    /\ \A i \in DOMAIN q : q[i][2] < access
EvictsOldest ==
    [][\A t \in Threads :
          LET f == With(entries, pending[t].player, pending[t].access)
          IN  /\ pending[t] # NoOp /\ pending'[t] = NoOp
              /\ pending[t].op = "store" /\ order' # order
              /\ InOrder(order, pending[t].access)
              => \A p \in DOMAIN f \ DOMAIN entries', q \in DOMAIN entries' : f[p] < f[q]]_lruVars
=============================================================================
