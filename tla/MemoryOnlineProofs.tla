------------------------- MODULE MemoryOnlineProofs -------------------------
(***************************************************************************)
(* MemoryOnlineDirectory implements the contract of OnlineDirectory for    *)
(* every set of sessions, users and realms, every policy and every lease   *)
(* length.                                                                 *)
(*                                                                         *)
(* The policy alone is not inductive: that a user has one live session     *)
(* follows from the login recorded for the user, so the invariant also     *)
(* says that the recorded login is the user's live (RejectNew) or seated   *)
(* (KickExisting) session.                                                 *)
(***************************************************************************)
EXTENDS MemoryOnline, FiniteSetTheorems, TLAPS

(* The recorded login of every user is the session the policy is about. *)
LoginsRecorded ==
    /\ Mode = "RejectNew" =>
          \A s \in Live : UserOf[s] \in DOMAIN single /\ single[UserOf[s]] = s
    /\ Mode = "KickExisting" =>
          \A s \in Seated : UserOf[s] \in DOMAIN single /\ single[UserOf[s]] = s

(* A realm's live seats are within the maximum. *)
SeatsFit == MaxSessions = 0 \/ \A r \in Realms : Cardinality(capacity[r] \cap Live) <= MaxSessions

OnlineInv == OnlineTypeOK /\ LoginsRecorded /\ SeatsFit

(* The contract counts with the same cardinality. *)
LEMMA SameCount == \A S : Contract!Cardinality(S) = Cardinality(S)
BY Zenon DEF Contract!Cardinality, Cardinality

(* The live seats of a realm are the seated sessions of its users. *)
LEMMA SeatsByRealm ==
    ASSUME OnlineTypeOK, NEW r \in Realms
    PROVE  Contract!InRealm(Seated, r) = capacity[r] \cap Live
BY OnlineAssumption DEF OnlineTypeOK, Seated, Live, Contract!InRealm, OnlineAssumption

(* Finite sets: what the capacity check compares. *)
LEMMA SeatSetsFinite ==
    ASSUME OnlineTypeOK, NEW S, S \subseteq Live
    PROVE  IsFiniteSet(S) /\ Cardinality(S) \in Nat
<1>1. S \subseteq Sessions
  BY DEF OnlineTypeOK, Live
<1> QED
  BY <1>1, OnlineAssumption, FS_Subset, FS_CardinalityType DEF OnlineAssumption

-----------------------------------------------------------------------------
(* purge: it removes expired leases only, so the live sessions and the     *)
(* seated ones are what they were.                                         *)
LEMMA PurgeStep ==
    ASSUME OnlineInv, PurgeOnly
    PROVE  OnlineTypeOK' /\ Live' = Live /\ Seated' = Seated
           /\ capacity' = [r \in Realms |-> capacity[r] \cap Live]
<1> USE DEF OnlineInv
<1>1. DOMAIN sessions' = Live /\ \A s \in Live : sessions'[s] = sessions[s]
  BY DEF PurgeOnly, PurgedSessions, Restrict, Live
<1>2. Live' = Live
  BY <1>1 DEF Live
<1>3. DOMAIN single' \subseteq DOMAIN single /\ \A u \in DOMAIN single' : single'[u] = single[u]
  BY DEF PurgeOnly, PurgedSingle, Restrict
<1>4. groups' \in [Groups -> SUBSET Sessions] /\ capacity' = [r \in Realms |-> capacity[r] \cap Live]
  BY DEF PurgeOnly, PurgedGroups, PurgedCapacity, OnlineTypeOK
<1>5. OnlineTypeOK'
  BY <1>1, <1>3, <1>4 DEF OnlineTypeOK, Live
<1>6. Seated' = Seated
  BY <1>2, <1>4 DEF Seated
<1> QED
  BY <1>2, <1>4, <1>5, <1>6

(* The invariant follows the live sessions down: when leases end, the      *)
(* recorded logins of the remaining sessions are kept, and nothing is      *)
(* added to the seats, it still holds.                                     *)
LEMMA EndingKeepsInv ==
    ASSUME OnlineInv, OnlineTypeOK', Live' \subseteq Live,
           \A r \in Realms : capacity'[r] \cap Live' = capacity[r] \cap Live',
           \A t \in Live' : UserOf[t] \in DOMAIN single /\ single[UserOf[t]] = t
                            => UserOf[t] \in DOMAIN single' /\ single'[UserOf[t]] = t
    PROVE  OnlineInv' /\ Seated' = Seated \cap Live'
<1>1. Seated' = Seated \cap Live'
  <2>1. (UNION {capacity'[r] : r \in Realms}) \cap Live' = (UNION {capacity[r] : r \in Realms}) \cap Live'
    OBVIOUS
  <2> QED
    BY <2>1 DEF Seated
<1>2. LoginsRecorded'
  BY <1>1 DEF OnlineInv, LoginsRecorded
<1>3. SeatsFit'
  <2> SUFFICES ASSUME MaxSessions # 0, NEW r \in Realms
               PROVE  Cardinality(capacity'[r] \cap Live') <= MaxSessions
    BY DEF SeatsFit
  <2>1. capacity'[r] \cap Live' \subseteq capacity[r] \cap Live
    OBVIOUS
  <2>2. IsFiniteSet(capacity[r] \cap Live) /\ Cardinality(capacity[r] \cap Live) \in Nat
    BY SeatSetsFinite DEF OnlineInv
  <2>3. /\ Cardinality(capacity'[r] \cap Live') \in Nat
        /\ Cardinality(capacity'[r] \cap Live') <= Cardinality(capacity[r] \cap Live)
    BY <2>1, <2>2, FS_Subset, FS_CardinalityType
  <2>4. Cardinality(capacity[r] \cap Live) <= MaxSessions
    BY DEF OnlineInv, SeatsFit
  <2> QED
    BY <2>2, <2>3, <2>4, OnlineAssumption DEF OnlineAssumption
<1> QED
  BY <1>1, <1>2, <1>3 DEF OnlineInv

(* unregister ends one lease. *)
LEMMA UnregisterStep ==
    ASSUME OnlineInv, NEW s \in Sessions, Unregister(s)
    PROVE  OnlineInv' /\ Live' = Live \ {s} /\ Seated' = Seated \ {s}
<1>1. DOMAIN sessions' = DOMAIN sessions \ {s} /\ \A t \in DOMAIN sessions \ {s} : sessions'[t] = sessions[t]
  BY DEF Unregister, Restrict
<1>2. Live' = Live \ {s}
  BY <1>1 DEF Live
<1>3. /\ DOMAIN single' \subseteq DOMAIN single
      /\ \A u \in DOMAIN single' : single'[u] = single[u]
      /\ \A u \in DOMAIN single : single[u] # s => u \in DOMAIN single'
  BY DEF Unregister, Restrict
<1>4. /\ groups' \in [Groups -> SUBSET Sessions]
      /\ capacity' = [capacity EXCEPT ![RealmOf[UserOf[s]]] = capacity[RealmOf[UserOf[s]]] \ {s}]
      /\ RealmOf[UserOf[s]] \in Realms
  BY OnlineAssumption DEF Unregister, OnlineInv, OnlineTypeOK, OnlineAssumption
<1>5. OnlineTypeOK'
  <2>1. capacity' \in [Realms -> SUBSET Sessions] /\ \A r \in Realms : capacity'[r] \subseteq capacity[r]
    BY <1>4 DEF OnlineInv, OnlineTypeOK
  <2> QED
    BY <1>1, <1>3, <1>4, <2>1 DEF OnlineInv, OnlineTypeOK
<1>6. \A r \in Realms : capacity'[r] \cap Live' = capacity[r] \cap Live'
  BY <1>2, <1>4 DEF OnlineInv, OnlineTypeOK
<1>7. OnlineInv' /\ Seated' = Seated \cap Live'
  BY <1>2, <1>3, <1>5, <1>6, EndingKeepsInv
<1>8. Seated \subseteq Live
  BY DEF Seated
<1> QED
  BY <1>2, <1>7, <1>8

(* Time ends some leases. *)
LEMMA TickStep ==
    ASSUME OnlineInv, Tick
    PROVE  OnlineInv' /\ Live' \subseteq Live /\ Seated' = Seated \cap Live'
<1>1. /\ DOMAIN sessions' = DOMAIN sessions /\ UNCHANGED <<groups, single, capacity>>
      /\ \A s \in DOMAIN sessions : sessions'[s] = IF sessions[s] = 0 THEN 0 ELSE sessions[s] - 1
  BY DEF Tick
<1>2. Live' \subseteq Live
  BY <1>1 DEF Live, OnlineInv, OnlineTypeOK
<1>3. OnlineTypeOK'
  BY <1>1, OnlineAssumption DEF OnlineInv, OnlineTypeOK, OnlineAssumption
<1> QED
  BY <1>1, <1>2, <1>3, EndingKeepsInv

(* The purge, a renewal and track_group change nobody's presence. *)
LEMMA QuietStep ==
    ASSUME OnlineInv, PurgeOnly \/ \E s \in Sessions : Renew(s) \/ \E g \in Groups, j \in BOOLEAN : TrackGroup(s, g, j)
    PROVE  OnlineInv' /\ Live' = Live /\ Seated' = Seated
<1>a. Seated \subseteq Live
  BY DEF Seated
<1>1. CASE PurgeOnly
  <2>1. OnlineTypeOK' /\ Live' = Live /\ \A r \in Realms : capacity'[r] \cap Live' = capacity[r] \cap Live'
    BY <1>1, PurgeStep
  <2>2. \A t \in Live' : UserOf[t] \in DOMAIN single /\ single[UserOf[t]] = t
                         => UserOf[t] \in DOMAIN single' /\ single'[UserOf[t]] = t
    BY <1>1, <2>1 DEF PurgeOnly, PurgedSingle, Restrict
  <2> QED
    BY <1>a, <2>1, <2>2, EndingKeepsInv
<1>2. ASSUME NEW s \in Sessions, Renew(s) PROVE OnlineInv' /\ Live' = Live /\ Seated' = Seated
  <2>1. /\ DOMAIN sessions' = Live
        /\ \A t \in Live : sessions'[t] = IF t = s THEN Ttl ELSE sessions[t]
        /\ s \in Live
    BY <1>2 DEF Renew, PurgedSessions, Restrict, Live
  <2>2. Live' = Live
    BY <2>1, OnlineAssumption DEF Live, OnlineAssumption
  <2>3. DOMAIN single' \subseteq DOMAIN single /\ \A u \in DOMAIN single' : single'[u] = single[u]
    BY <1>2 DEF Renew, PurgedSingle, Restrict
  <2>4. groups' \in [Groups -> SUBSET Sessions] /\ capacity' = [r \in Realms |-> capacity[r] \cap Live]
    BY <1>2 DEF Renew, PurgedGroups, PurgedCapacity, OnlineInv, OnlineTypeOK
  <2>5. \A t \in DOMAIN sessions' : sessions'[t] \in 0 .. Ttl
    BY <2>1, OnlineAssumption DEF OnlineInv, OnlineTypeOK, Live, OnlineAssumption
  <2>6. OnlineTypeOK'
    BY <2>1, <2>3, <2>4, <2>5 DEF OnlineInv, OnlineTypeOK, Live
  <2>7. \A t \in Live' : UserOf[t] \in DOMAIN single /\ single[UserOf[t]] = t
                         => UserOf[t] \in DOMAIN single' /\ single'[UserOf[t]] = t
    BY <1>2, <2>2 DEF Renew, PurgedSingle, Restrict
  <2> QED
    BY <1>a, <2>2, <2>4, <2>6, <2>7, EndingKeepsInv
<1>3. ASSUME NEW s \in Sessions, NEW g \in Groups, NEW j \in BOOLEAN, TrackGroup(s, g, j)
      PROVE  OnlineInv' /\ Live' = Live /\ Seated' = Seated
  <2>1. UNCHANGED <<sessions, single, capacity>> /\ groups' \in [Groups -> SUBSET Sessions]
    BY <1>3 DEF TrackGroup, OnlineInv, OnlineTypeOK
  <2>2. Live' = Live /\ Seated' = Seated
    BY <2>1 DEF Live, Seated
  <2> QED
    BY <2>1, <2>2 DEF OnlineInv, OnlineTypeOK, LoginsRecorded, SeatsFit
<1> QED
  BY <1>1, <1>2, <1>3

-----------------------------------------------------------------------------
(* acquire: a session whose login is replaced is found through the login   *)
(* recorded for the user.                                                  *)
LEMMA PreviousIsRecorded ==
    ASSUME OnlineInv, NEW s \in Sessions
    PROVE  /\ \A t : t \in Previous(s) <=> /\ UserOf[s] \in DOMAIN single
                                           /\ t = single[UserOf[s]] /\ t \in Live /\ t # s
           /\ Mode = "RejectNew" => Live \cap Contract!Rivals(s) = Previous(s)
           /\ Mode = "KickExisting" => Seated \cap Contract!Rivals(s) = Transferred(s)
           /\ Transferred(s) \subseteq Live \ {s}
<1>1. \A t : t \in Previous(s) <=> /\ UserOf[s] \in DOMAIN single
                                   /\ t = single[UserOf[s]] /\ t \in Live /\ t # s
  BY DEF Previous, PurgedSingle, Restrict
<1>2. \A t \in Previous(s) : t \in Contract!Rivals(s) \cap Live
  BY <1>1 DEF OnlineInv, OnlineTypeOK, Contract!Rivals
<1>3. Live \subseteq Sessions /\ Seated \subseteq Live
  BY DEF OnlineInv, OnlineTypeOK, Live, Seated
<1>4. Mode = "RejectNew" => Live \cap Contract!Rivals(s) = Previous(s)
  BY <1>1, <1>2, <1>3 DEF OnlineInv, LoginsRecorded, Contract!Rivals
<1>5. ASSUME Mode = "KickExisting" PROVE Seated \cap Contract!Rivals(s) = Transferred(s)
  <2>r. RealmOf[UserOf[s]] \in Realms
    BY OnlineAssumption DEF OnlineAssumption
  <2>1. \A t \in Seated \cap Contract!Rivals(s) : t \in Previous(s)
    BY <1>1, <1>3, <1>5 DEF OnlineInv, LoginsRecorded, Contract!Rivals
  <2>2. \A t \in Seated \cap Contract!Rivals(s) : t \in capacity[RealmOf[UserOf[s]]]
    BY DEF OnlineInv, OnlineTypeOK, Contract!Rivals, Seated
  <2>3. PurgedCapacity[RealmOf[UserOf[s]]] = capacity[RealmOf[UserOf[s]]] \cap Live
    BY <2>r DEF PurgedCapacity
  <2>4. Transferred(s) = Previous(s) \cap PurgedCapacity[RealmOf[UserOf[s]]]
    BY <1>5 DEF Transferred
  <2>5. \A t \in Transferred(s) : t \in Seated
    BY <2>r, <2>3, <2>4 DEF Seated
  <2> QED
    BY <1>2, <1>3, <2>1, <2>2, <2>3, <2>4, <2>5
<1>6. Transferred(s) \subseteq Live \ {s}
  BY <1>1 DEF Transferred
<1> QED
  BY <1>1, <1>4, <1>5, <1>6

(* acquire, accepted, is an admission of the contract. *)
LEMMA AcquireStep ==
    ASSUME OnlineInv, NEW s \in Sessions, Acquire(s)
    PROVE  OnlineInv' /\ Contract!Admitted(s)
<1> DEFINE realm == RealmOf[UserOf[s]]
           slots == capacity[realm] \cap Live
<1>r. realm \in Realms /\ UserOf[s] \in Users
  BY OnlineAssumption DEF OnlineAssumption
<1>1. /\ DOMAIN sessions' = Live \cup {s}
      /\ \A t \in Live \cup {s} : sessions'[t] = IF t = s THEN Ttl ELSE sessions[t]
  BY DEF Acquire, PurgedSessions, Restrict, Live
<1>2. Live' = Live \cup {s}
  BY <1>1, OnlineAssumption DEF Live, OnlineAssumption
<1>3. /\ PurgedCapacity[realm] = slots
      /\ capacity' = [r \in Realms |-> IF r = realm THEN (slots \ Transferred(s)) \cup {s}
                                                    ELSE capacity[r] \cap Live]
  BY <1>r DEF Acquire, PurgedCapacity
<1>4. /\ \A u \in DOMAIN single' : IF u = UserOf[s] /\ Mode # "AllowMultiple"
                                     THEN single'[u] = s ELSE u \in DOMAIN single /\ single'[u] = single[u]
      /\ Mode # "AllowMultiple" => UserOf[s] \in DOMAIN single' /\ single'[UserOf[s]] = s
      /\ \A u \in DOMAIN single : u # UserOf[s] /\ single[u] \in Live
                                  => u \in DOMAIN single' /\ single'[u] = single[u]
  BY DEF Acquire, PurgedSingle, Restrict
<1>5. OnlineTypeOK'
  <2>1. \A t \in DOMAIN sessions' : sessions'[t] \in 0 .. Ttl
    BY <1>1, OnlineAssumption DEF OnlineInv, OnlineTypeOK, Live, OnlineAssumption
  <2>2. DOMAIN sessions' \subseteq Sessions
    BY <1>1 DEF OnlineInv, OnlineTypeOK, Live
  <2>3. groups' \in [Groups -> SUBSET Sessions]
    BY DEF Acquire, PurgedGroups, OnlineInv, OnlineTypeOK
  <2>4. /\ capacity' \in [Realms -> SUBSET Sessions]
        /\ \A r \in Realms : \A t \in capacity'[r] : RealmOf[UserOf[t]] = r
    BY <1>r, <1>3 DEF OnlineInv, OnlineTypeOK
  <2>5. DOMAIN single' \subseteq Users /\ \A u \in DOMAIN single' : single'[u] \in Sessions /\ UserOf[single'[u]] = u
    BY <1>r, <1>4 DEF OnlineInv, OnlineTypeOK
  <2> QED
    BY <2>1, <2>2, <2>3, <2>4, <2>5 DEF OnlineTypeOK
<1>6. /\ Mode = "RejectNew" => Live \cap Contract!Rivals(s) = {}
      /\ Mode = "KickExisting" => Seated \cap Contract!Rivals(s) = Transferred(s)
      /\ Mode # "KickExisting" => Transferred(s) = {}
      /\ Transferred(s) \subseteq Live \ {s}
  BY PreviousIsRecorded DEF Acquire, Duplicate, Transferred
<1>7. Seated' = (Seated \ Transferred(s)) \cup {s}
  <2>1. \A t \in Transferred(s) : \A r \in Realms \ {realm} : t \notin capacity[r]
    BY PreviousIsRecorded DEF OnlineInv, OnlineTypeOK, Transferred
  <2>2. \A r \in Realms : capacity'[r] \cap Live' = ((capacity[r] \cap Live) \ Transferred(s)) \cup (IF r = realm THEN {s} ELSE capacity[r] \cap Live \cap {s})
    BY <1>2, <1>3, <1>6, <2>1
  <2>3. \A t : t \in Seated' <=> \E r \in Realms : t \in capacity'[r] \cap Live'
    BY DEF Seated
  <2>4. \A t : t \in Seated <=> \E r \in Realms : t \in capacity[r] \cap Live
    BY DEF Seated
  <2>5. \A t : t \in Seated' <=> t \in (Seated \ Transferred(s)) \cup {s}
    BY <1>r, <1>6, <2>2, <2>3, <2>4
  <2> QED
    BY <2>5
<1>8. Seated' = (IF Mode = "KickExisting" THEN Seated \ Contract!Rivals(s) ELSE Seated) \cup {s}
  BY <1>6, <1>7
<1>9. LoginsRecorded'
  <2>1. ASSUME Mode = "RejectNew", NEW t \in Live'
        PROVE  UserOf[t] \in DOMAIN single' /\ single'[UserOf[t]] = t
    <3>1. CASE t = s
      BY <1>4, <2>1, <3>1
    <3>2. CASE t # s
      <4>1. t \in Live /\ t \in Sessions /\ UserOf[t] # UserOf[s]
        BY <1>2, <1>6, <2>1, <3>2 DEF Contract!Rivals, Live, OnlineInv, OnlineTypeOK
      <4> QED
        BY <1>4, <2>1, <4>1 DEF OnlineInv, LoginsRecorded
    <3> QED
      BY <3>1, <3>2
  <2>2. ASSUME Mode = "KickExisting", NEW t \in Seated'
        PROVE  UserOf[t] \in DOMAIN single' /\ single'[UserOf[t]] = t
    <3>1. CASE t = s
      BY <1>4, <2>2, <3>1
    <3>2. CASE t # s
      <4>1. t \in Seated /\ t \in Live /\ t \in Sessions /\ UserOf[t] # UserOf[s]
        BY <1>8, <2>2, <3>2 DEF Contract!Rivals, Live, Seated, OnlineInv, OnlineTypeOK
      <4> QED
        BY <1>4, <2>2, <4>1 DEF OnlineInv, LoginsRecorded
    <3> QED
      BY <3>1, <3>2
  <2> QED
    BY <2>1, <2>2 DEF LoginsRecorded
<1>10. SeatsFit'
  <2> SUFFICES ASSUME MaxSessions # 0, NEW r \in Realms
               PROVE  Cardinality(capacity'[r] \cap Live') <= MaxSessions
    BY DEF SeatsFit
  <2>m. MaxSessions \in Nat
    BY OnlineAssumption DEF OnlineAssumption
  <2>1. Cardinality(capacity[r] \cap Live) <= MaxSessions
    BY DEF OnlineInv, SeatsFit
  <2>2. IsFiniteSet(capacity[r] \cap Live) /\ Cardinality(capacity[r] \cap Live) \in Nat
    BY SeatSetsFinite DEF OnlineInv
  <2>3. CASE r # realm
    <3>1. capacity'[r] \cap Live' \subseteq capacity[r] \cap Live
      BY <1>2, <1>3, <2>3
    <3>2. /\ Cardinality(capacity'[r] \cap Live') \in Nat
          /\ Cardinality(capacity'[r] \cap Live') <= Cardinality(capacity[r] \cap Live)
      BY <2>2, <3>1, FS_Subset, FS_CardinalityType
    <3> QED
      BY <2>m, <2>1, <2>2, <3>2
  <2>4. CASE r = realm
    <3>1. capacity'[r] \cap Live' = (slots \ Transferred(s)) \cup {s}
      BY <1>2, <1>3, <2>4
    <3>2. CASE s \in slots
      <4>1. (slots \ Transferred(s)) \cup {s} \subseteq slots
        BY <3>2
      <4>2. /\ Cardinality((slots \ Transferred(s)) \cup {s}) \in Nat
            /\ Cardinality((slots \ Transferred(s)) \cup {s}) <= Cardinality(slots)
        BY <2>2, <2>4, <4>1, FS_Subset, FS_CardinalityType
      <4> QED
        BY <2>m, <2>1, <2>2, <2>4, <3>1, <4>2
    <3>3. CASE s \notin slots
      <4>1. IsFiniteSet(slots \ Transferred(s)) /\ Cardinality(slots \ Transferred(s)) \in Nat
        BY <2>2, <2>4, FS_Subset, FS_CardinalityType
      <4>2. ~ (Cardinality(slots \ Transferred(s)) >= MaxSessions)
        BY <1>3, <2>m, <3>3 DEF Acquire, RealmFull
      <4>3. Cardinality((slots \ Transferred(s)) \cup {s}) = Cardinality(slots \ Transferred(s)) + 1
        BY <3>3, <4>1, FS_AddElement
      <4> QED
        BY <2>m, <3>1, <4>1, <4>2, <4>3
    <3> QED
      BY <3>2, <3>3
  <2> QED
    BY <2>3, <2>4
<1>11. Contract!Fits(Seated')
  <2>1. \A r \in Realms : Contract!InRealm(Seated', r) = capacity'[r] \cap Live'
    <3> TAKE r \in Realms
    <3>1. Contract!InRealm(Seated', r) = {t \in Seated' : RealmOf[UserOf[t]] = r}
      BY DEF Contract!InRealm
    <3> QED
      BY <1>5, <3>1 DEF OnlineTypeOK, Seated
  <2> QED
    BY <1>10, <2>1, SameCount DEF Contract!Fits, SeatsFit
<1> QED
  BY <1>2, <1>5, <1>6, <1>8, <1>9, <1>10, <1>11 DEF OnlineInv, Contract!Admitted

-----------------------------------------------------------------------------
LEMMA InitInv == OnlineInit => OnlineInv /\ Contract!ContractInit
<1> SUFFICES ASSUME OnlineInit PROVE OnlineInv /\ Contract!ContractInit
  OBVIOUS
<1>1. Live = {} /\ Seated = {}
  BY DEF OnlineInit, Live, Seated
<1>2. OnlineTypeOK
  BY DEF OnlineInit, OnlineTypeOK
<1>3. \A r \in Realms : capacity[r] \cap Live = {}
  BY <1>1
<1>4. SeatsFit
  <2>1. 0 <= MaxSessions
    BY OnlineAssumption DEF OnlineAssumption
  <2> QED
    BY <1>3, <2>1, FS_EmptySet, Zenon DEF SeatsFit
<1> QED
  BY <1>1, <1>2, <1>4 DEF OnlineInv, LoginsRecorded, Contract!ContractInit

(* Every step keeps the invariant and is a step of the contract. *)
LEMMA StepRefines ==
    OnlineInv /\ [OnlineNext]_onlineVars => OnlineInv' /\ [Contract!ContractNext]_(Contract!contractVars)
<1> SUFFICES ASSUME OnlineInv, [OnlineNext]_onlineVars
             PROVE  OnlineInv' /\ [Contract!ContractNext]_(Contract!contractVars)
  OBVIOUS
<1>a. Seated \subseteq Live
  BY DEF Seated
<1>1. ASSUME NEW s \in Sessions, Acquire(s) PROVE OnlineInv' /\ Contract!ContractNext
  BY <1>1, AcquireStep DEF Contract!ContractNext
<1>2. ASSUME NEW s \in Sessions, Unregister(s)
      PROVE  OnlineInv' /\ [Contract!ContractNext]_(Contract!contractVars)
  <2>1. OnlineInv' /\ Live' = Live \ {s} /\ Seated' = Seated \ {s}
    BY <1>2, UnregisterStep
  <2>2. CASE s \in Live
    <3>1. Contract!Ended({s}) /\ {s} \in SUBSET Live
      BY <2>1, <2>2 DEF Contract!Ended
    <3> QED
      BY <2>1, <3>1 DEF Contract!ContractNext
  <2>3. CASE s \notin Live
    BY <1>a, <2>1, <2>3 DEF Contract!contractVars
  <2> QED
    BY <2>2, <2>3
<1>3. ASSUME Tick PROVE OnlineInv' /\ Contract!ContractNext
  <2>1. OnlineInv' /\ Live' \subseteq Live /\ Seated' = Seated \cap Live'
    BY <1>3, TickStep
  <2>2. Contract!Ended(Live \ Live') /\ Live \ Live' \in SUBSET Live
    BY <1>a, <2>1 DEF Contract!Ended
  <2> QED
    BY <2>1, <2>2 DEF Contract!ContractNext
<1>4. ASSUME PurgeOnly \/ \E s \in Sessions : Renew(s) \/ \E g \in Groups, j \in BOOLEAN : TrackGroup(s, g, j)
      PROVE  OnlineInv' /\ UNCHANGED Contract!contractVars
  BY <1>4, QuietStep DEF Contract!contractVars
<1>5. CASE UNCHANGED onlineVars
  <2>1. Live' = Live /\ Seated' = Seated
    BY <1>5 DEF onlineVars, Live, Seated
  <2> QED
    BY <1>5, <2>1 DEF onlineVars, OnlineInv, OnlineTypeOK, LoginsRecorded, SeatsFit, Contract!contractVars
<1> QED
  BY <1>1, <1>2, <1>3, <1>4, <1>5 DEF OnlineNext

(* The invariant gives the policy. *)
LEMMA InvGivesPolicy == OnlineInv => PolicyHolds
<1> SUFFICES ASSUME OnlineInv PROVE PolicyHolds
  OBVIOUS
<1>1. Seated \subseteq Live
  BY DEF Seated
<1>2. Contract!Fits(Seated)
  BY SeatsByRealm, SameCount DEF OnlineInv, SeatsFit, Contract!Fits
<1>3. Contract!OnePerUser
  BY <1>1 DEF OnlineInv, LoginsRecorded, Contract!OnePerUser, Contract!Rivals
<1> QED
  BY <1>1, <1>2, <1>3 DEF PolicyHolds, Contract!WithinCapacity

(* presence.rs, every operation: the four maps keep their types and every  *)
(* seat is kept under the realm of its session.                            *)
THEOREM OnlineTypeCorrect == OnlineSpec => []OnlineTypeOK
<1>1. OnlineInv => OnlineTypeOK
  BY DEF OnlineInv
<1> QED
  BY <1>1, InitInv, StepRefines, PTL DEF OnlineSpec

(* acquire, renew, unregister and the purge keep the admission policy: no  *)
(* realm above max_sessions, one session of a user under RejectNew, one    *)
(* seat of a user under KickExisting.                                      *)
THEOREM OnlinePolicy == OnlineSpec => []PolicyHolds
BY InitInv, StepRefines, InvGivesPolicy, PTL DEF OnlineSpec

(* MemoryOnlineDirectory implements the contract of OnlineDirectory.       *)
THEOREM OnlineImplementsContract == OnlineSpec => ImplementsContract
BY InitInv, StepRefines, PTL DEF OnlineSpec, ImplementsContract, Contract!ContractSpec
=============================================================================
