----------------------------- MODULE PlayerLoads -----------------------------
(***************************************************************************)
(* The player caches of several worlds over one database: the load path    *)
(* of PlayerCache with its single-flight locks (player/cache.rs), the      *)
(* loader the middleware calls it with (player/loader.rs), and the         *)
(* synchronizer that stores committed snapshots and tells the other        *)
(* worlds to drop older ones (player/invalidation.rs).                     *)
(*                                                                         *)
(* A reader runs load(); each await, lock and reference-count test is a    *)
(* step of its own.  A writer commits to the database and then calls       *)
(* store_committed or delete_committed.  An entry keeps the time it has    *)
(* left; 0 means expired, which lookup treats as absent.  Which entry is   *)
(* evicted at the capacity is PlayerCache's business: here it is any other.*)
(***************************************************************************)
EXTENDS Naturals, FiniteSets, Functions

CONSTANTS Worlds, Players,
          Readers, Writers,  \* tasks that call load, and that commit
          WorldOf,           \* the world each task runs in
          MaxEntries, Ttl,   \* config.max_entries, config.ttl in ticks
          MaxVersion,        \* bound on the versions of a player
          MaxFaults          \* bound on failed or cancelled loads and lost messages

ASSUME LoadsAssumption ==
    /\ MaxEntries \in Nat \ {0} /\ Ttl \in Nat \ {0}
    /\ MaxVersion \in Nat \ {0} /\ MaxFaults \in Nat
    /\ WorldOf \in [Readers \cup Writers -> Worlds]

VARIABLES db,      \* player -> [version, alive]: the stored state
          cache,   \* world -> partial function player -> [version, ttl]
          loads,   \* world -> partial function player -> lock: the Weak map
          reader,  \* reader -> [pc, player, lock, version]
          writer,  \* writer -> [pc, player, version]
          bus,     \* invalidations on their way: [to, player, minimum]
          faults,  \* faults so far
          loadings,\* world -> player -> loaders started (stats.loads), up to 2
          calm     \* history: no entry of the player was lost and no load of it failed

cacheVars == <<cache, loads, loadings>>
syncVars == <<db, writer, bus>>
loadVars == <<cacheVars, syncVars, reader, faults, calm>>

Locks == 1 .. Cardinality(Readers) + Cardinality(Players) * Cardinality(Worlds)
NoLock == 0
Idle == [pc |-> "idle", player |-> CHOOSE p \in Players : TRUE, lock |-> NoLock, version |-> 0]

Put(f, x, v) == [y \in DOMAIN f \cup {x} |-> IF y = x THEN v ELSE f[y]]
Without(f, x) == Restrict(f, DOMAIN f \ {x})

(* Arc::strong_count of a lock: the tasks that still own a reference. *)
Owners(l) == {r \in Readers : reader[r].lock = l}
(* The task inside the lock, from lock().await to the drop of its guard. *)
Inside(l) == {r \in Owners(l) : reader[r].pc \in {"second", "loading", "loaded"}}

Live(w, p) == p \in DOMAIN cache[w] /\ cache[w][p].ttl > 0

LoadsInit ==
    /\ db = [p \in Players |-> [version |-> 1, alive |-> TRUE]]
    /\ cache = [w \in Worlds |-> [p \in {} |-> p]]
    /\ loads = [w \in Worlds |-> [p \in {} |-> p]]
    /\ reader = [r \in Readers |-> Idle]
    /\ writer = [t \in Writers |-> [pc |-> "idle", player |-> Idle.player, version |-> 0]]
    /\ bus = {} /\ faults = 0
    /\ loadings = [w \in Worlds |-> [p \in Players |-> 0]]
    /\ calm = [w \in Worlds |-> [p \in Players |-> TRUE]]

CountLoad(w, p) == loadings' = [loadings EXCEPT ![w][p] = IF @ = 2 THEN 2 ELSE @ + 1]
Go(r, pc) == reader' = [reader EXCEPT ![r].pc = pc]
Finish(r) == reader' = [reader EXCEPT ![r] = Idle]

(* The history variable: a live entry of p went, or a load of p ended      *)
(* without one.                                                            *)
Disturbed(w, p) ==
    \/ Live(w, p) /\ ~Live(w, p)'
    \/ /\ ~Live(w, p)'
       /\ \E r \in Readers : /\ WorldOf[r] = w /\ reader[r].player = p
                             /\ reader[r].pc # "unlocked" /\ reader[r].pc' = "unlocked"
Remember == calm' = [w \in Worlds |-> [p \in Players |-> calm[w][p] /\ ~Disturbed(w, p)]]


(* Mutant: a hit renews the entry's time. *)
LookupRenews(w, p) ==
    cache' = [cache EXCEPT ![w] = IF p \in DOMAIN @ /\ @[p].ttl = 0 THEN Without(@, p)
                                  ELSE IF p \in DOMAIN @ THEN [@ EXCEPT ![p].ttl = Ttl] ELSE @]


(* lookup: an expired entry is removed. *)
Lookup(w, p) ==
    cache' = [cache EXCEPT ![w] = IF p \in DOMAIN @ /\ @[p].ttl = 0 THEN Without(@, p) ELSE @]

(* store: refused when a newer version is cached.  The entry starts a new  *)
(* ttl and, over the capacity, other entries go.                           *)
StoreRefused(w, p, v) == p \in DOMAIN cache[w] /\ cache[w][p].version > v
Store(w, p, v) ==
    \E keep \in SUBSET (DOMAIN cache[w] \ {p}) :
        /\ Cardinality(keep) < MaxEntries
        /\ Cardinality(DOMAIN cache[w] \ {p}) < MaxEntries => keep = DOMAIN cache[w] \ {p}
        /\ cache' = [cache EXCEPT ![w] = Put(Restrict(@, keep), p, [version |-> v, ttl |-> Ttl])]

-----------------------------------------------------------------------------
(* load, first lookup: a hit returns. *)
Call(r, p) ==
    /\ reader[r].pc = "idle"
    /\ Lookup(WorldOf[r], p)
    /\ reader' = IF Live(WorldOf[r], p) THEN reader
                 ELSE [reader EXCEPT ![r] = [Idle EXCEPT !.pc = "missed", !.player = p]]
    /\ UNCHANGED <<loads, loadings, syncVars, faults>>
    /\ Remember

(* load_lock: the Weak in the map is upgraded if some task still owns the  *)
(* lock, otherwise a new lock replaces it.                                 *)
LoadLock(r) ==
    LET w == WorldOf[r]
        p == reader[r].player
        upgrades == p \in DOMAIN loads[w] /\ Owners(loads[w][p]) # {}
        weak == UNION {Range(loads[v]) : v \in Worlds}
        fresh == CHOOSE l \in Locks : Owners(l) = {} /\ l \notin weak
        lock == IF upgrades THEN loads[w][p] ELSE fresh
    IN  /\ reader[r].pc = "missed"
        /\ reader' = [reader EXCEPT ![r].pc = "waiting", ![r].lock = lock]
        /\ loads' = [loads EXCEPT ![w] = Put(@, p, lock)]
        /\ UNCHANGED <<cache, loadings, syncVars, faults>>
        /\ Remember

(* lock().await returns. *)
Acquire(r) ==
    /\ reader[r].pc = "waiting" /\ Inside(reader[r].lock) = {}
    /\ Go(r, "second")
    /\ UNCHANGED <<cacheVars, syncVars, faults>>
    /\ Remember

(* Mutant: the waiter does not look again before it loads. *)
SecondLookupSkipped(r) ==
    /\ reader[r].pc = "second"
    /\ Go(r, "loading")
    /\ CountLoad(WorldOf[r], reader[r].player)
    /\ UNCHANGED <<cache, loads, syncVars, faults>>
    /\ Remember

(* The second lookup, and the start of the loader if it misses too. *)
SecondLookup(r) ==
    LET w == WorldOf[r]
        p == reader[r].player
    IN  /\ reader[r].pc = "second"
        /\ Lookup(w, p)
        /\ IF Live(w, p) THEN Go(r, "unlocked") /\ UNCHANGED loadings
           ELSE Go(r, "loading") /\ CountLoad(w, p)
        /\ UNCHANGED <<loads, syncVars, faults>>
        /\ Remember

(* The loader reads the database; its answer is still on the way. *)
LoaderReads(r) ==
    /\ reader[r].pc = "loading" /\ db[reader[r].player].alive
    /\ reader' = [reader EXCEPT ![r].pc = "loaded", ![r].version = db[reader[r].player].version]
    /\ UNCHANGED <<cacheVars, syncVars, faults>>
    /\ Remember

(* The loader fails: the player is gone, or the database does not answer. *)
LoaderFails(r) ==
    /\ reader[r].pc = "loading"
    /\ \/ ~db[reader[r].player].alive /\ UNCHANGED faults
       \/ faults < MaxFaults /\ faults' = faults + 1
    /\ Go(r, "unlocked")
    /\ UNCHANGED <<cacheVars, syncVars>>
    /\ Remember

(* The loaded snapshot is stored and returned; a refused store is the      *)
(* error of the load.  The mutex guard is dropped.                         *)
StoreLoaded(r) ==
    LET w == WorldOf[r]
        p == reader[r].player
    IN  /\ reader[r].pc = "loaded"
        /\ IF StoreRefused(w, p, reader[r].version) THEN UNCHANGED cache
           ELSE Store(w, p, reader[r].version)
        /\ Go(r, "unlocked")
        /\ UNCHANGED <<loads, loadings, syncVars, faults>>
        /\ Remember

(* The load is dropped at one of its awaits (a time-out, a disconnect). *)
Cancel(r) ==
    /\ reader[r].pc \in {"waiting", "loading", "loaded"} /\ faults < MaxFaults
    /\ Go(r, "unlocked")
    /\ faults' = faults + 1
    /\ UNCHANGED <<cacheVars, syncVars>>
    /\ Remember

(* LoadGuard::drop reads the reference count before it takes the map. *)
CountOwners(r) ==
    /\ reader[r].pc = "unlocked"
    /\ Go(r, IF Owners(reader[r].lock) = {r} THEN "removing" ELSE "releasing")
    /\ UNCHANGED <<cacheVars, syncVars, faults>>
    /\ Remember

(* LoadGuard::drop under the write lock: the map's entry goes if it is     *)
(* still this lock.                                                        *)
RemoveLock(r) ==
    LET w == WorldOf[r]
        p == reader[r].player
    IN  /\ reader[r].pc = "removing"
        /\ loads' = [loads EXCEPT ![w] = IF p \in DOMAIN @ /\ @[p] = reader[r].lock
                                         THEN Without(@, p) ELSE @]
        /\ Go(r, "releasing")
        /\ UNCHANGED <<cache, loadings, syncVars, faults>>
        /\ Remember

(* The Arc itself is dropped after LoadGuard::drop returned. *)
Release(r) ==
    /\ reader[r].pc = "releasing"
    /\ Finish(r)
    /\ UNCHANGED <<cacheVars, syncVars, faults>>
    /\ Remember
-----------------------------------------------------------------------------
(* The application commits a new version, or a deletion, to the database. *)
Commit(t, p, alive) ==
    /\ writer[t].pc = "idle" /\ db[p].alive /\ db[p].version < MaxVersion
    /\ db' = [db EXCEPT ![p] = [version |-> @.version + 1, alive |-> alive]]
    /\ writer' = [writer EXCEPT ![t] = [pc |-> IF alive THEN "store" ELSE "delete",
                                        player |-> p, version |-> db[p].version + 1]]
    /\ UNCHANGED <<cacheVars, reader, bus, faults>>
    /\ Remember

(* store_committed, the local store: a refusal ends the call before the    *)
(* publication.                                                            *)
StoreCommitted(t) ==
    LET w == WorldOf[t]
        p == writer[t].player
    IN  /\ writer[t].pc = "store"
        /\ IF StoreRefused(w, p, writer[t].version)
           THEN writer' = [writer EXCEPT ![t].pc = "idle"] /\ UNCHANGED cache
           ELSE writer' = [writer EXCEPT ![t].pc = "publish"] /\ Store(w, p, writer[t].version)
        /\ UNCHANGED <<db, loads, loadings, reader, bus, faults>>
        /\ Remember

(* delete_committed, the local invalidation: every version goes. *)
DeleteCommitted(t) ==
    /\ writer[t].pc = "delete"
    /\ cache' = [cache EXCEPT ![WorldOf[t]] = Without(@, writer[t].player)]
    /\ writer' = [writer EXCEPT ![t].pc = "publish", ![t].version = 0]
    /\ UNCHANGED <<db, loads, loadings, reader, bus, faults>>
    /\ Remember

(* bus.publish: every other subscriber is sent the invalidation (handle    *)
(* drops the one from its own source).                                     *)
Publish(t) ==
    /\ writer[t].pc = "publish"
    /\ bus' = bus \cup {[to |-> w, player |-> writer[t].player, minimum |-> writer[t].version] :
                        w \in Worlds \ {WorldOf[t]}}
    /\ writer' = [writer EXCEPT ![t].pc = "idle"]
    /\ UNCHANGED <<db, cacheVars, reader, faults>>
    /\ Remember

(* invalidate: minimum 0 removes any version. *)
Outdated(entry, minimum) == minimum = 0 \/ entry.version < minimum

(* handle: the invalidation reaches a world, in any order. *)
Handle(m) ==
    /\ m \in bus
    /\ cache' = [cache EXCEPT ![m.to] =
                     IF m.player \in DOMAIN @ /\ Outdated(@[m.player], m.minimum)
                     THEN Without(@, m.player) ELSE @]
    /\ bus' = bus \ {m}
    /\ UNCHANGED <<db, loads, loadings, reader, writer, faults>>
    /\ Remember

(* The bus loses an invalidation. *)
Lose(m) ==
    /\ m \in bus /\ faults < MaxFaults
    /\ bus' = bus \ {m}
    /\ faults' = faults + 1
    /\ UNCHANGED <<db, cacheVars, reader, writer>>
    /\ Remember

(* Time passes for every entry. *)
Tick ==
    /\ \E w \in Worlds, p \in Players : Live(w, p)
    /\ cache' = [w \in Worlds |-> [p \in DOMAIN cache[w] |->
                     [cache[w][p] EXCEPT !.ttl = IF @ = 0 THEN 0 ELSE @ - 1]]]
    /\ UNCHANGED <<loads, loadings, syncVars, reader, faults>>
    /\ Remember

ReaderStep(r) ==
    \/ LoadLock(r) \/ Acquire(r) \/ SecondLookup(r) \/ LoaderReads(r) \/ LoaderFails(r)
    \/ StoreLoaded(r) \/ CountOwners(r) \/ RemoveLock(r) \/ Release(r)
WriterStep(t) == StoreCommitted(t) \/ DeleteCommitted(t) \/ Publish(t)

LoadsNext ==
    \/ \E r \in Readers : ReaderStep(r) \/ Cancel(r) \/ \E p \in Players : Call(r, p)
    \/ \E t \in Writers : WriterStep(t) \/ \E p \in Players, a \in BOOLEAN : Commit(t, p, a)
    \/ \E m \in bus : Handle(m) \/ Lose(m)
    \/ Tick

LoadsSpec == LoadsInit /\ [][LoadsNext]_loadVars

(* A polled load runs to its next await, the database answers, published   *)
(* invalidations arrive or are lost, and time passes.                      *)
FairLoads ==
    /\ LoadsSpec
    /\ \A r \in Readers : WF_loadVars(ReaderStep(r))
    /\ \A t \in Writers : WF_loadVars(WriterStep(t))
    /\ WF_loadVars(\E m \in bus : Handle(m))
    /\ WF_loadVars(Tick)
-----------------------------------------------------------------------------


(* load: as long as no load of a player failed and its entry was not lost, *)
(* the concurrent loads of the player in a world called the loader once.   *)
Coalesced == \A w \in Worlds, p \in Players : calm[w][p] => loadings[w][p] <= 1

(* lookup and invalidate: once the commits have ended, no world goes on    *)
(* serving an old or deleted player for ever, even if invalidations were   *)
(* lost or overtaken by a load: an entry's time is never renewed by hits.  *)
AllFresh ==
    \A w \in Worlds, p \in Players :
        Live(w, p) => db[p].alive /\ cache[w][p].version = db[p].version
EventuallyFresh == <>[]AllFresh
=============================================================================
