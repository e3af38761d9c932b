---------------------------- MODULE MemoryOnline ----------------------------
(***************************************************************************)
(* MemoryOnlineDirectory (crates/elura-gateway/src/presence.rs): every     *)
(* operation runs under one mutex, so each is one step.  A lease keeps the *)
(* time it has left; at 0 it has expired and waits for the next purge.     *)
(* A session id belongs to one gateway for its whole life.                 *)
(***************************************************************************)
EXTENDS Naturals, FiniteSets, Functions

CONSTANTS Sessions, Users, Realms, UserOf, RealmOf, Mode, MaxSessions,
          Groups, Ttl   \* online groups; length of a lease in ticks

ASSUME OnlineAssumption ==
    /\ UserOf \in [Sessions -> Users] /\ RealmOf \in [Users -> Realms]
    /\ Mode \in {"AllowMultiple", "RejectNew", "KickExisting"}
    /\ MaxSessions \in Nat /\ Ttl \in Nat \ {0} /\ IsFiniteSet(Sessions)

VARIABLES sessions,  \* partial function session -> time left of its lease
          groups,    \* group -> session ids
          single,    \* partial function user -> the session of its last login
          capacity   \* realm -> session ids

onlineVars == <<sessions, groups, single, capacity>>

Live == {s \in DOMAIN sessions : sessions[s] > 0}

OnlineInit ==
    /\ sessions = [s \in {} |-> 0] /\ single = [u \in {} |-> u]
    /\ groups = [g \in Groups |-> {}]
    /\ capacity = [r \in Realms |-> {}]

(* purge: what the four maps are once expired leases are dropped. *)
PurgedSessions == Restrict(sessions, Live)
PurgedGroups == [g \in Groups |-> groups[g] \cap Live]
PurgedSingle == Restrict(single, {u \in DOMAIN single : single[u] \in Live})
PurgedCapacity == [r \in Realms |-> capacity[r] \cap Live]

Previous(s) == {t \in {PurgedSingle[u] : u \in DOMAIN PurgedSingle \cap {UserOf[s]}} : t # s}
(* Mutant: the seat of a kicked session is not handed over. *)
NothingTransferred(s) == {}
(* The seat a kicked session hands over. *)
Transferred(s) ==
    IF Mode = "KickExisting" THEN Previous(s) \cap PurgedCapacity[RealmOf[UserOf[s]]] ELSE {}

(* acquire: the two refusals. *)
Duplicate(s) == Mode = "RejectNew" /\ Previous(s) # {}
RealmFull(s) ==
    LET slots == PurgedCapacity[RealmOf[UserOf[s]]]
    IN  s \notin slots /\ MaxSessions > 0 /\ Cardinality(slots \ Transferred(s)) >= MaxSessions

(* Mutant: the login is not recorded for its user. *)
AcquireUnrecorded(s) ==
    /\ ~Duplicate(s) /\ ~RealmFull(s)
    /\ sessions' = [t \in DOMAIN PurgedSessions \cup {s} |-> IF t = s THEN Ttl ELSE sessions[t]]
    /\ capacity' = [PurgedCapacity EXCEPT ![RealmOf[UserOf[s]]] = (@ \ Transferred(s)) \cup {s}]
    /\ single' = PurgedSingle
    /\ groups' = PurgedGroups

(* acquire, accepted. *)
Acquire(s) ==
    /\ ~Duplicate(s) /\ ~RealmFull(s)
    /\ sessions' = [t \in DOMAIN PurgedSessions \cup {s} |-> IF t = s THEN Ttl ELSE sessions[t]]
    /\ capacity' = [PurgedCapacity EXCEPT ![RealmOf[UserOf[s]]] = (@ \ Transferred(s)) \cup {s}]
    /\ single' = IF Mode = "AllowMultiple" THEN PurgedSingle
                 ELSE [u \in DOMAIN PurgedSingle \cup {UserOf[s]} |->
                          IF u = UserOf[s] THEN s ELSE single[u]]
    /\ groups' = PurgedGroups

(* acquire refused, a renewal refused, and every query: only the purge. *)
PurgeOnly ==
    /\ sessions' = PurgedSessions /\ groups' = PurgedGroups
    /\ single' = PurgedSingle /\ capacity' = PurgedCapacity

(* Mutant: an expired lease that was not purged yet is renewed. *)
RenewExpired(s) ==
    /\ s \in DOMAIN sessions
    /\ sessions' = [sessions EXCEPT ![s] = Ttl]
    /\ UNCHANGED <<groups, single, capacity>>
(* renew, while the lease is live. *)
Renew(s) ==
    /\ s \in Live
    /\ sessions' = [PurgedSessions EXCEPT ![s] = Ttl]
    /\ groups' = PurgedGroups /\ single' = PurgedSingle /\ capacity' = PurgedCapacity

(* Mutant: the realm loses all its seats. *)
UnregisterClearsRealm(s) ==
    /\ s \in DOMAIN sessions
    /\ sessions' = Restrict(sessions, DOMAIN sessions \ {s})
    /\ groups' = [g \in Groups |-> groups[g] \ {s}]
    /\ capacity' = [capacity EXCEPT ![RealmOf[UserOf[s]]] = {}]
    /\ single' = Restrict(single, {u \in DOMAIN single : u # UserOf[s] \/ single[u] # s})

(* unregister: no purge, and only the session's own realm and user.        *)
Unregister(s) ==
    /\ s \in DOMAIN sessions
    /\ sessions' = Restrict(sessions, DOMAIN sessions \ {s})
    /\ groups' = [g \in Groups |-> groups[g] \ {s}]
    /\ capacity' = [capacity EXCEPT ![RealmOf[UserOf[s]]] = @ \ {s}]
    /\ single' = Restrict(single, {u \in DOMAIN single : u # UserOf[s] \/ single[u] # s})

(* track_group: membership does not depend on the session being online. *)
TrackGroup(s, g, join) ==
    /\ groups' = [groups EXCEPT ![g] = IF join THEN @ \cup {s} ELSE @ \ {s}]
    /\ UNCHANGED <<sessions, single, capacity>>

Tick ==
    /\ Live # {}
    /\ sessions' = [s \in DOMAIN sessions |-> IF sessions[s] = 0 THEN 0 ELSE sessions[s] - 1]
    /\ UNCHANGED <<groups, single, capacity>>

OnlineNext ==
    \/ \E s \in Sessions : Acquire(s) \/ Renew(s) \/ Unregister(s)
    \/ \E s \in Sessions, g \in Groups, join \in BOOLEAN : TrackGroup(s, g, join)
    \/ PurgeOnly \/ Tick

OnlineSpec == OnlineInit /\ [][OnlineNext]_onlineVars
-----------------------------------------------------------------------------
(* The variables keep their types; seats are kept under the realm of the   *)
(* session that holds them.                                                *)
OnlineTypeOK ==
    /\ DOMAIN sessions \subseteq Sessions /\ \A s \in DOMAIN sessions : sessions[s] \in 0 .. Ttl
    /\ groups \in [Groups -> SUBSET Sessions]
    /\ DOMAIN single \subseteq Users
    /\ \A u \in DOMAIN single : single[u] \in Sessions /\ UserOf[single[u]] = u
    /\ capacity \in [Realms -> SUBSET Sessions]
    /\ \A r \in Realms : \A s \in capacity[r] : RealmOf[UserOf[s]] = r

Seated == (UNION {capacity[r] : r \in Realms}) \cap Live
Contract == INSTANCE OnlineContract WITH live <- Live, seated <- Seated

(* The directory implements the contract: who is online changes only as    *)
(* the trait documents, although the four maps are cleaned lazily and      *)
(* expired entries stay in them between operations.                        *)
ImplementsContract == Contract!ContractSpec

(* acquire and unregister: a realm's seats never exceed max_sessions, and  *)
(* a user has one live (RejectNew) or one seated (KickExisting) session.   *)
PolicyHolds == Contract!WithinCapacity /\ Contract!OnePerUser
=============================================================================
