----------------------------- MODULE RedisOnline -----------------------------
(***************************************************************************)
(* RedisOnlineDirectory (crates/elura-adapters/src/distributed.rs).  A Lua *)
(* script or MULTI pipeline is one step; an operation made of several      *)
(* commands is several steps, between which other clients run and keys     *)
(* expire.  A key keeps the time it has left and is gone at 0; the scores  *)
(* of the capacity set only lose their meaning at 0.                       *)
(*                                                                         *)
(* The user, realm and group sets have one shape, a set of session ids     *)
(* with an expiry, and are the keys of "index".  A session id is used by   *)
(* one connection: it is acquired once and never again after it closed.    *)
(***************************************************************************)
EXTENDS Naturals, FiniteSets, Functions

CONSTANTS Sessions, Users, Realms, UserOf, RealmOf, Mode, MaxSessions, Groups, Ttl,
          Joiners   \* bound: the sessions that join and leave groups

ASSUME RedisOnlineAssumption == MaxSessions \in Nat /\ Ttl \in Nat \ {0}

VARIABLES session,        \* partial: session -> left
          single,         \* partial: user -> [id, left]
          index,          \* partial: user, realm or group -> [ids, left]
          sessionGroups,  \* partial: session -> [groups, left]
          capacity,       \* partial: realm -> [scores, left]
          conn,           \* session -> what its connection is doing
          removing,       \* session -> the groups its removal has read
          joining,        \* joins that have passed their session check
          query           \* a lookup in progress: [at, key, ids]

keyVars == <<session, single, index, sessionGroups, capacity>>
clientVars == <<conn, removing, joining, query>>
redisVars == <<keyVars, clientVars>>

NoQuery == [at |-> "none"]
Set(f, x, v) == [y \in DOMAIN f \cup {x} |-> IF y = x THEN v ELSE f[y]]
Del(f, S) == Restrict(f, DOMAIN f \ S)
(* SADD ... PEXPIRE, SREM and PEXPIRE on the keys K of an index. *)
Sadd(f, K, s) ==
    [k \in DOMAIN f \cup K |->
        IF k \in K THEN [ids |-> {s} \cup (IF k \in DOMAIN f THEN f[k].ids ELSE {}), left |-> Ttl] ELSE f[k]]
Srem(f, K, S) ==
    LET g == [k \in DOMAIN f |-> IF k \in K THEN [f[k] EXCEPT !.ids = @ \ S] ELSE f[k]]
    IN  Restrict(g, {k \in DOMAIN g : g[k].ids # {}})
Pexpire(f, K) == [k \in DOMAIN f |-> IF k \in K THEN [f[k] EXCEPT !.left = Ttl] ELSE f[k]]

Own(s) == {UserOf[s], RealmOf[UserOf[s]]}
GroupsOf(s) == IF s \in DOMAIN sessionGroups THEN sessionGroups[s].groups ELSE {}
Scores(r) == IF r \in DOMAIN capacity THEN capacity[r].scores ELSE [s \in {} |-> 0]
Zset(r, scores, left) ==
    IF DOMAIN scores = {} THEN Del(capacity, {r}) ELSE Set(capacity, r, [scores |-> scores, left |-> left])

RedisInit ==
    /\ session = [s \in {} |-> 0] /\ single = [u \in {} |-> 0] /\ index = [k \in {} |-> 0]
    /\ sessionGroups = [s \in {} |-> 0] /\ capacity = [r \in {} |-> 0]
    /\ conn = [s \in Sessions |-> "new"] /\ removing = [s \in Sessions |-> {}]
    /\ joining = {} /\ query = NoQuery

(* The acquire script: the recorded session of the user, unless its lease  *)
(* is gone; the seats once that one and the expired ones are removed.      *)
Recorded(s) == {single[u].id : u \in DOMAIN single \cap {UserOf[s]}} \ {s}
Previous(s) == Recorded(s) \cap DOMAIN session
Vanished(s) == Recorded(s) \ DOMAIN session
Seats(s) ==
    LET scores == Scores(RealmOf[UserOf[s]])
    IN  Restrict(scores, {t \in DOMAIN scores \ Vanished(s) : scores[t] > 0})
Transferred(s) == IF Mode = "KickExisting" THEN Previous(s) \cap DOMAIN Seats(s) ELSE {}
Full(s) ==
    /\ MaxSessions > 0 /\ s \notin DOMAIN Seats(s)
    /\ Cardinality(DOMAIN Seats(s) \ Transferred(s)) >= MaxSessions

(* The acquire script, accepted. *)
Acquire(s) ==
    LET r == RealmOf[UserOf[s]]
        kept == IF Vanished(s) = {} THEN single ELSE Del(single, {UserOf[s]})
    IN  /\ conn[s] = "new"
        /\ ~(Mode = "RejectNew" /\ Previous(s) # {}) /\ ~Full(s)
        /\ capacity' = Zset(r, Set(Del(Seats(s), Transferred(s)), s, Ttl), Ttl)
        /\ session' = Set(session, s, Ttl)
        /\ index' = Pexpire(Sadd(index, Own(s), s), GroupsOf(s))
        /\ single' = IF Mode = "AllowMultiple" THEN kept
                     ELSE Set(kept, UserOf[s], [id |-> s, left |-> Ttl])
        /\ sessionGroups' = Pexpire(sessionGroups, {s})
        /\ conn' = [conn EXCEPT ![s] = "online"]
        /\ UNCHANGED <<removing, joining, query>>

(* The acquire script, refused with full: it has cleaned up all the same.  *)
AcquireFull(s) ==
    LET r == RealmOf[UserOf[s]]
    IN  /\ conn[s] = "new" /\ Full(s)
        /\ ~(Mode = "RejectNew" /\ Previous(s) # {})
        /\ single' = IF Vanished(s) = {} THEN single ELSE Del(single, {UserOf[s]})
        /\ capacity' = IF r \in DOMAIN capacity THEN Zset(r, Seats(s), capacity[r].left) ELSE capacity
        /\ UNCHANGED <<session, index, sessionGroups, clientVars>>

(* renew, the first GET: a missing lease ends the connection. *)
RenewCheck(s) ==
    /\ conn[s] = "online"
    /\ conn' = [conn EXCEPT ![s] = IF s \in DOMAIN session THEN "renewing" ELSE "closed"]
    /\ UNCHANGED <<keyVars, removing, joining, query>>



(* The renew script, while the lease exists: every key of the session is   *)
(* extended and the session is put (back) in the capacity set.             *)
Renew(s) ==
    LET r == RealmOf[UserOf[s]]
    IN  /\ conn[s] = "renewing" /\ s \in DOMAIN session
        /\ session' = Set(session, s, Ttl)
        /\ index' = Pexpire(index, Own(s) \cup GroupsOf(s))
        /\ single' = [u \in DOMAIN single |-> IF single[u].id = s THEN [single[u] EXCEPT !.left = Ttl] ELSE single[u]]
        /\ sessionGroups' = Pexpire(sessionGroups, {s})
        /\ capacity' = Zset(r, Set(Scores(r), s, Ttl), Ttl)
        /\ conn' = [conn EXCEPT ![s] = "online"]
        /\ UNCHANGED <<removing, joining, query>>

(* The renew script returns 0: SessionRevoked. *)
RenewRevoked(s) ==
    /\ conn[s] = "renewing" /\ s \notin DOMAIN session
    /\ conn' = [conn EXCEPT ![s] = "closed"]
    /\ UNCHANGED <<keyVars, removing, joining, query>>

(* unregister: the two reads of the lease and of the memberships. *)
RemoveRead(s) ==
    /\ conn[s] = "online"
    /\ IF s \in DOMAIN session
       THEN conn' = [conn EXCEPT ![s] = "removing"] /\ removing' = [removing EXCEPT ![s] = GroupsOf(s)]
       ELSE conn' = [conn EXCEPT ![s] = "closed"] /\ UNCHANGED removing
    /\ UNCHANGED <<keyVars, joining, query>>

(* Mutant: the removal deletes the whole capacity set. *)
RemoveClearsRealm(s) ==
    /\ conn[s] = "removing"
    /\ session' = Del(session, {s}) /\ sessionGroups' = Del(sessionGroups, {s})
    /\ index' = Srem(index, Own(s) \cup removing[s], {s})
    /\ single' = Restrict(single, {u \in DOMAIN single : u # UserOf[s] \/ single[u].id # s})
    /\ capacity' = Del(capacity, {RealmOf[UserOf[s]]})
    /\ conn' = [conn EXCEPT ![s] = "closed"] /\ removing' = [removing EXCEPT ![s] = {}]
    /\ UNCHANGED <<joining, query>>

(* The remove script, with the memberships read before. *)
Remove(s) ==
    LET r == RealmOf[UserOf[s]]
    IN  /\ conn[s] = "removing"
        /\ session' = Del(session, {s}) /\ sessionGroups' = Del(sessionGroups, {s})
        /\ index' = Srem(index, Own(s) \cup removing[s], {s})
        /\ capacity' = IF r \in DOMAIN capacity
                       THEN Zset(r, Del(Scores(r), {s}), capacity[r].left) ELSE capacity
        /\ single' = Restrict(single, {u \in DOMAIN single : u # UserOf[s] \/ single[u].id # s})
        /\ conn' = [conn EXCEPT ![s] = "closed"] /\ removing' = [removing EXCEPT ![s] = {}]
        /\ UNCHANGED <<joining, query>>

(* track, join: the lease is checked before the pipeline is sent. *)
JoinCheck(s, g) ==
    /\ s \in DOMAIN session
    /\ joining' = joining \cup {<<s, g>>}
    /\ UNCHANGED <<keyVars, conn, removing, query>>
Join(s, g) ==
    /\ <<s, g>> \in joining
    /\ index' = Sadd(index, {g}, s)
    /\ sessionGroups' = Set(sessionGroups, s, [groups |-> GroupsOf(s) \cup {g}, left |-> Ttl])
    /\ joining' = joining \ {<<s, g>>}
    /\ UNCHANGED <<session, single, capacity, conn, removing, query>>
Leave(s, g) ==
    /\ index' = Srem(index, {g}, {s})
    /\ sessionGroups' = IF GroupsOf(s) \subseteq {g} THEN Del(sessionGroups, {s})
                        ELSE [sessionGroups EXCEPT ![s].groups = @ \ {g}]
    /\ UNCHANGED <<session, single, capacity, clientVars>>

(* sessions_in: SMEMBERS, then MGET, then the pipeline that drops what had *)
(* no lease at the MGET.                                                   *)
QueryMembers(k) ==
    /\ query = NoQuery /\ k \in DOMAIN index
    /\ query' = [at |-> "members", key |-> k, ids |-> index[k].ids]
    /\ UNCHANGED <<keyVars, conn, removing, joining>>
QueryLeases ==
    /\ query.at = "members"
    /\ query' = IF query.ids \subseteq DOMAIN session THEN NoQuery
                ELSE [query EXCEPT !.at = "stale", !.ids = @ \ DOMAIN session]
    /\ UNCHANGED <<keyVars, conn, removing, joining>>
QueryClean ==
    /\ query.at = "stale"
    /\ index' = Srem(index, {query.key}, query.ids)
    /\ sessionGroups' = Del(sessionGroups, query.ids)
    /\ query' = NoQuery
    /\ UNCHANGED <<session, single, capacity, conn, removing, joining>>

Aged(f) == LET keys == {k \in DOMAIN f : f[k].left > 1}
           IN  [k \in keys |-> [f[k] EXCEPT !.left = @ - 1]]
(* Time passes: keys expire by themselves. *)
Tick ==
    /\ DOMAIN session # {} \/ DOMAIN index # {} \/ DOMAIN capacity # {}
    /\ session' = [s \in {t \in DOMAIN session : session[t] > 1} |-> session[s] - 1]
    /\ single' = Aged(single) /\ index' = Aged(index) /\ sessionGroups' = Aged(sessionGroups)
    /\ capacity' = LET f == Aged(capacity)
                   IN  [r \in DOMAIN f |->
                           [f[r] EXCEPT !.scores = [s \in DOMAIN @ |-> IF @[s] = 0 THEN 0 ELSE @[s] - 1]]]
    /\ UNCHANGED clientVars

RedisNext ==
    \/ \E s \in Sessions : \/ Acquire(s) \/ AcquireFull(s) \/ RenewCheck(s) \/ Renew(s)
                           \/ RenewRevoked(s) \/ RemoveRead(s) \/ Remove(s)
    \/ \E s \in Joiners, g \in Groups : JoinCheck(s, g) \/ Join(s, g) \/ Leave(s, g)
    \/ \E k \in Users \cup Realms \cup Groups : QueryMembers(k)
    \/ QueryLeases \/ QueryClean \/ Tick

RedisSpec == RedisInit /\ [][RedisNext]_redisVars
-----------------------------------------------------------------------------
RedisLive == DOMAIN session
RedisSeated == UNION {{s \in DOMAIN Scores(r) : Scores(r)[s] > 0} : r \in Realms}
Contract == INSTANCE OnlineContract WITH live <- RedisLive, seated <- RedisSeated

(* The directory implements the contract, with every key expiring on its   *)
(* own and operations made of several commands.                            *)
ImplementsContract == Contract!ContractSpec

(* OnlineAdmissionPolicy: the sessions counted in a realm stay within the  *)
(* configured maximum.                                                     *)
RealmCapacity == Contract!WithinCapacity


(* track, renew and sessions_in: a session that stays live drops out of a  *)
(* group only by leaving it.                                               *)
Member(s, g) == g \in DOMAIN index /\ s \in index[g].ids
=============================================================================
