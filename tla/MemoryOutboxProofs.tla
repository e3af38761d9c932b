------------------------- MODULE MemoryOutboxProofs -------------------------
(***************************************************************************)
(* Proofs about MemoryOutbox, for every set of events, workers and tokens  *)
(* and every lease.  The three invariants are inductive together: typing   *)
(* gives the shape of the maps, StoredOnce that a moved event leaves no    *)
(* copy behind, and HonouredDeliveryIsCurrent rests on IsFresh.            *)
(***************************************************************************)
EXTENDS MemoryOutbox, TLAPS

MemoryInv == MemoryTypeOK /\ StoredOnce /\ HonouredDeliveryIsCurrent

(* An attempt counter stays within u32 and leaves 0 behind. *)
LEMMA NextAttemptType ==
    ASSUME NEW n \in 0 .. AttemptCap
    PROVE  NextAttempt(n) \in 1 .. AttemptCap
BY CountAssumption DEF NextAttempt

LEMMA InitInv == MemoryInit => MemoryInv
BY DEF MemoryInit, MemoryInv, MemoryTypeOK, StoredOnce, HonouredDeliveryIsCurrent

LEMMA AppendInv ==
    ASSUME MemoryInv, NEW e \in Events, NEW c \in Contents, NEW d \in Delays,
           AppendEvent(e, c, d), UNCHANGED held
    PROVE  MemoryInv'
<1> DEFINE n == FreshEntry(c, d)
<1>1. n \in Entry
  BY TimingAssumption, CountAssumption DEF FreshEntry, Entry
<1>2. /\ active' \in [DOMAIN active \cup {e} -> Entry]
      /\ DOMAIN active' = DOMAIN active \cup {e}
      /\ active'[e] = n
      /\ \A x \in DOMAIN active : x # e => active'[x] = active[x]
  <2>1. active' = Insert(active, e, n) /\ active \in [DOMAIN active -> Entry]
    BY DEF AppendEvent, MemoryInv, MemoryTypeOK
  <2> QED BY <1>1, <2>1 DEF Insert
<1>3. MemoryTypeOK' /\ StoredOnce'
  BY <1>2 DEF AppendEvent, Known, MemoryInv, MemoryTypeOK, StoredOnce
<1>4. HonouredDeliveryIsCurrent'
  BY <1>2, NoneAssumption
  DEF FreshEntry, MemoryInv, MemoryTypeOK, HonouredDeliveryIsCurrent, OutboxDelivery
<1> QED BY <1>3, <1>4 DEF MemoryInv

LEMMA AcquireInv ==
    ASSUME MemoryInv, NEW w \in Workers, NEW batch \in SUBSET Available,
           NEW f \in [batch -> Tokens],
           Acquire(w, batch, f), held' = held \cup Deliveries(w, batch, f)
    PROVE  MemoryInv'
<1>1. /\ DOMAIN active' = DOMAIN active
      /\ batch \subseteq DOMAIN active
      /\ \A e \in DOMAIN active \ batch : active'[e] = active[e]
  BY DEF Acquire, Available
<1>2. \A e \in batch :
        /\ active'[e] \in Entry
        /\ active'[e].attempt = NextAttempt(active[e].attempt)
        /\ active'[e].worker = w
        /\ active'[e].token = f[e]
  <2> SUFFICES ASSUME NEW e \in batch
               PROVE  /\ active'[e] \in Entry
                      /\ active'[e].attempt = NextAttempt(active[e].attempt)
                      /\ active'[e].worker = w
                      /\ active'[e].token = f[e]
    OBVIOUS
  <2>1. active[e] \in Entry
    BY <1>1 DEF MemoryInv, MemoryTypeOK
  <2>2. active'[e] = [active[e] EXCEPT !.attempt = NextAttempt(@), !.worker = w,
                                       !.token = f[e], !.lease = Lease]
    BY <1>1 DEF Acquire
  <2>3. NextAttempt(active[e].attempt) \in 0 .. AttemptCap
    BY <2>1, NextAttemptType DEF Entry
  <2>4. Lease \in 0 .. Lease /\ w \in Workers \cup {None} /\ f[e] \in Tokens \cup {None}
    BY TimingAssumption
  <2> QED BY <2>1, <2>2, <2>3, <2>4, Zenon DEF Entry
<1>3. active' \in [DOMAIN active' -> Entry]
  <2>1. \A e \in DOMAIN active' : active'[e] \in Entry
    BY <1>1, <1>2 DEF MemoryInv, MemoryTypeOK
  <2>2. active' = [e \in DOMAIN active |-> active'[e]]
    BY DEF Acquire
  <2> QED BY <1>1, <2>1, <2>2
<1>4. Deliveries(w, batch, f) \subseteq OutboxDelivery
  <2> SUFFICES ASSUME NEW e \in batch
               PROVE  [id |-> e, attempt |-> NextAttempt(active[e].attempt),
                       worker |-> w, token |-> f[e]] \in OutboxDelivery
    BY DEF Deliveries
  <2>1. e \in Events /\ active[e].attempt \in 0 .. AttemptCap
    BY <1>1 DEF MemoryInv, MemoryTypeOK, Entry
  <2> QED BY <2>1, NextAttemptType DEF OutboxDelivery
<1>5. MemoryTypeOK' /\ StoredOnce'
  BY <1>1, <1>3, <1>4 DEF Acquire, MemoryInv, MemoryTypeOK, StoredOnce
<1>6. HonouredDeliveryIsCurrent'
  <2> SUFFICES ASSUME NEW d \in held', d.id \in DOMAIN active',
                      active'[d.id].token = d.token
               PROVE  d.attempt = active'[d.id].attempt /\ d.worker = active'[d.id].worker
    BY DEF HonouredDeliveryIsCurrent
  <2>1. CASE d \in Deliveries(w, batch, f)
    BY <1>2, <2>1 DEF Deliveries
  <2>2. CASE d \in held
    <3>1. d.id \notin batch
      <4>1. \A e \in batch : IsFresh(e, f[e])
        BY DEF Acquire
      <4> QED BY <1>2, <2>2, <4>1 DEF IsFresh
    <3> QED BY <1>1, <2>2, <3>1 DEF MemoryInv, HonouredDeliveryIsCurrent
  <2> QED BY <2>1, <2>2
<1> QED BY <1>5, <1>6 DEF MemoryInv

(* Ack and DeadLetterIt take the entry out of active. *)
LEMMA RemoveEntry ==
    ASSUME MemoryTypeOK, NEW e, active' = Remove(active, e)
    PROVE  /\ DOMAIN active' = DOMAIN active \ {e}
           /\ active' \in [DOMAIN active' -> Entry]
           /\ \A x \in DOMAIN active' : active'[x] = active[x]
BY DEF MemoryTypeOK, Remove, Restrict

LEMMA AckInv ==
    ASSUME MemoryInv, NEW d \in held, Ack(d), UNCHANGED held
    PROVE  MemoryInv'
<1>1. /\ DOMAIN active' = DOMAIN active \ {d.id}
      /\ active' \in [DOMAIN active' -> Entry]
      /\ \A x \in DOMAIN active' : active'[x] = active[x]
  BY RemoveEntry DEF Ack, MemoryInv
<1>2. d.id \in DOMAIN active /\ active[d.id].content \in Contents
  BY DEF Ack, Leased, MemoryInv, MemoryTypeOK, Entry
<1>3. completed' \in [DOMAIN completed' -> Contents]
      /\ DOMAIN completed' = DOMAIN completed \cup {d.id}
  BY <1>2 DEF Ack, Insert, MemoryInv, MemoryTypeOK
<1>4. MemoryTypeOK' /\ StoredOnce'
  BY <1>1, <1>2, <1>3 DEF Ack, MemoryInv, MemoryTypeOK, StoredOnce
<1>5. HonouredDeliveryIsCurrent'
  BY <1>1 DEF MemoryInv, HonouredDeliveryIsCurrent
<1> QED BY <1>4, <1>5 DEF MemoryInv

LEMMA DeadLetterInv ==
    ASSUME MemoryInv, NEW d \in held, DeadLetterIt(d), UNCHANGED held
    PROVE  MemoryInv'
<1>1. /\ DOMAIN active' = DOMAIN active \ {d.id}
      /\ active' \in [DOMAIN active' -> Entry]
      /\ \A x \in DOMAIN active' : active'[x] = active[x]
  BY RemoveEntry DEF DeadLetterIt, MemoryInv
<1>2. /\ d.id \in DOMAIN active
      /\ [content |-> active[d.id].content, attempt |-> active[d.id].attempt] \in DeadLetter
  BY DEF DeadLetterIt, Leased, MemoryInv, MemoryTypeOK, Entry, DeadLetter
<1>3. dead' \in [DOMAIN dead' -> DeadLetter]
      /\ DOMAIN dead' = DOMAIN dead \cup {d.id}
  BY <1>2 DEF DeadLetterIt, Insert, MemoryInv, MemoryTypeOK
<1>4. MemoryTypeOK' /\ StoredOnce'
  BY <1>1, <1>2, <1>3 DEF DeadLetterIt, MemoryInv, MemoryTypeOK, StoredOnce
<1>5. HonouredDeliveryIsCurrent'
  BY <1>1 DEF MemoryInv, HonouredDeliveryIsCurrent
<1> QED BY <1>4, <1>5 DEF MemoryInv

LEMMA RenewInv ==
    ASSUME MemoryInv, NEW d \in held, Renew(d), UNCHANGED held
    PROVE  MemoryInv'
<1>1. d.id \in DOMAIN active /\ active[d.id] \in Entry
  BY DEF Renew, Leased, MemoryInv, MemoryTypeOK
<1>2. Lease \in 0 .. Lease
  BY TimingAssumption
<1>3. /\ active'[d.id] = [active[d.id] EXCEPT !.lease = Lease]
      /\ DOMAIN active' = DOMAIN active
      /\ \A x \in DOMAIN active : x # d.id => active'[x] = active[x]
      /\ active' = [x \in DOMAIN active |-> active'[x]]
  BY <1>1 DEF Renew, MemoryInv, MemoryTypeOK
<1>4. /\ active'[d.id] \in Entry
      /\ active'[d.id].token = active[d.id].token
      /\ active'[d.id].attempt = active[d.id].attempt
      /\ active'[d.id].worker = active[d.id].worker
  BY <1>1, <1>2, <1>3 DEF Entry
<1>5. MemoryTypeOK' /\ StoredOnce'
  BY <1>3, <1>4 DEF Renew, MemoryInv, MemoryTypeOK, StoredOnce
<1>6. \A x \in DOMAIN active' : /\ x \in DOMAIN active
                                  /\ active'[x].token = active[x].token
                                  /\ active'[x].attempt = active[x].attempt
                                  /\ active'[x].worker = active[x].worker
  BY <1>3, <1>4
<1>7. HonouredDeliveryIsCurrent'
  BY <1>6 DEF MemoryInv, HonouredDeliveryIsCurrent
<1> QED BY <1>5, <1>7 DEF MemoryInv

LEMMA RetryInv ==
    ASSUME MemoryInv, NEW d \in held, NEW delay \in Delays, Retry(d, delay),
           UNCHANGED held
    PROVE  MemoryInv'
<1>1. d.id \in DOMAIN active /\ active[d.id] \in Entry
  BY DEF Retry, Leased, MemoryInv, MemoryTypeOK
<1>2. 0 \in 0 .. Lease
  BY TimingAssumption
<1>3. /\ active'[d.id] = [active[d.id] EXCEPT !.delay = delay, !.worker = None,
                                              !.token = None, !.lease = 0]
      /\ DOMAIN active' = DOMAIN active
      /\ \A x \in DOMAIN active : x # d.id => active'[x] = active[x]
      /\ active' = [x \in DOMAIN active |-> active'[x]]
  BY <1>1 DEF Retry, MemoryInv, MemoryTypeOK
<1>4. active'[d.id] \in Entry /\ active'[d.id].token = None
  BY <1>1, <1>2, <1>3, Zenon DEF Entry
<1>5. MemoryTypeOK' /\ StoredOnce'
  BY <1>3, <1>4 DEF Retry, MemoryInv, MemoryTypeOK, StoredOnce
<1>6. \A x \in held : x.token # None
  BY NoneAssumption DEF MemoryInv, MemoryTypeOK, OutboxDelivery
<1>7. HonouredDeliveryIsCurrent'
  BY <1>3, <1>4, <1>6 DEF MemoryInv, HonouredDeliveryIsCurrent
<1> QED BY <1>5, <1>7 DEF MemoryInv

LEMMA ReplayInv ==
    ASSUME MemoryInv, NEW e \in Events, NEW delay \in Delays,
           ReplayDeadLetter(e, delay), UNCHANGED held
    PROVE  MemoryInv'
<1> DEFINE n == FreshEntry(dead[e].content, delay)
<1>1. e \in DOMAIN dead /\ dead[e].content \in Contents
  BY DEF ReplayDeadLetter, MemoryInv, MemoryTypeOK, DeadLetter
<1>2. n \in Entry /\ n.token = None
  BY <1>1, TimingAssumption, CountAssumption DEF FreshEntry, Entry
<1> HIDE DEF n
<1>3. /\ DOMAIN active' = DOMAIN active \cup {e}
      /\ active' \in [DOMAIN active' -> Entry]
      /\ active'[e] = n
      /\ \A x \in DOMAIN active : x # e => active'[x] = active[x]
  <2>1. active' = Insert(active, e, n) /\ active \in [DOMAIN active -> Entry]
    BY DEF ReplayDeadLetter, MemoryInv, MemoryTypeOK, n
  <2> QED BY <1>2, <2>1 DEF Insert
<1>4. DOMAIN dead' = DOMAIN dead \ {e} /\ dead' \in [DOMAIN dead' -> DeadLetter]
  BY DEF ReplayDeadLetter, Remove, Restrict, MemoryInv, MemoryTypeOK
<1>5. MemoryTypeOK' /\ StoredOnce'
  BY <1>1, <1>3, <1>4 DEF ReplayDeadLetter, MemoryInv, MemoryTypeOK, StoredOnce
<1>6. \A x \in held : x.token # None
  BY NoneAssumption DEF MemoryInv, MemoryTypeOK, OutboxDelivery
<1>7. HonouredDeliveryIsCurrent'
  BY <1>2, <1>3, <1>6 DEF MemoryInv, HonouredDeliveryIsCurrent
<1> QED BY <1>5, <1>7 DEF MemoryInv

LEMMA TickInv ==
    ASSUME MemoryInv, Tick, UNCHANGED held
    PROVE  MemoryInv'
<1>1. /\ DOMAIN active' = DOMAIN active
      /\ active' = [e \in DOMAIN active |-> active'[e]]
      /\ \A e \in DOMAIN active :
            active'[e] = [active[e] EXCEPT !.delay = Down(@), !.lease = Down(@)]
  BY DEF Tick
<1>2. /\ \A n \in Delays : Down(n) \in Delays
      /\ \A n \in 0 .. Lease : Down(n) \in 0 .. Lease
  BY TimingAssumption DEF Down, Delays
<1>3. \A e \in DOMAIN active : /\ active'[e] \in Entry
                               /\ active'[e].token = active[e].token
                               /\ active'[e].attempt = active[e].attempt
                               /\ active'[e].worker = active[e].worker
  <2> SUFFICES ASSUME NEW e \in DOMAIN active
               PROVE  /\ active'[e] \in Entry
                      /\ active'[e].token = active[e].token
                      /\ active'[e].attempt = active[e].attempt
                      /\ active'[e].worker = active[e].worker
    OBVIOUS
  <2>1. active[e] \in Entry
    BY DEF MemoryInv, MemoryTypeOK
  <2>2. Down(active[e].delay) \in Delays /\ Down(active[e].lease) \in 0 .. Lease
    BY <1>2, <2>1 DEF Entry
  <2> QED BY <1>1, <2>1, <2>2, Zenon DEF Entry
<1>4. MemoryTypeOK' /\ StoredOnce'
  BY <1>1, <1>3 DEF Tick, MemoryInv, MemoryTypeOK, StoredOnce
<1>5. HonouredDeliveryIsCurrent'
  BY <1>1, <1>3 DEF MemoryInv, HonouredDeliveryIsCurrent
<1> QED BY <1>4, <1>5 DEF MemoryInv

LEMMA ForgetInv ==
    ASSUME MemoryInv, held' \subseteq held, UNCHANGED storeVars
    PROVE  MemoryInv'
BY DEF MemoryInv, MemoryTypeOK, StoredOnce, HonouredDeliveryIsCurrent, storeVars

LEMMA NextInv == MemoryInv /\ [MemoryNext]_memoryVars => MemoryInv'
<1> SUFFICES ASSUME MemoryInv, [MemoryNext]_memoryVars PROVE MemoryInv'
  OBVIOUS
<1>1. ASSUME NEW e \in Events, NEW c \in Contents, NEW d \in Delays,
             AppendEvent(e, c, d) /\ UNCHANGED held
      PROVE  MemoryInv'
  BY <1>1, AppendInv
<1>2. ASSUME NEW w \in Workers, NEW batch \in SUBSET Available,
             NEW f \in [batch -> Tokens], Acquire(w, batch, f),
             held' = held \cup Deliveries(w, batch, f)
      PROVE  MemoryInv'
  BY <1>2, AcquireInv
<1>3. ASSUME NEW d \in held, Ack(d) /\ UNCHANGED held PROVE MemoryInv'
  BY <1>3, AckInv
<1>4. ASSUME NEW d \in held, Renew(d) /\ UNCHANGED held PROVE MemoryInv'
  BY <1>4, RenewInv
<1>5. ASSUME NEW d \in held, NEW delay \in Delays, Retry(d, delay) /\ UNCHANGED held
      PROVE  MemoryInv'
  BY <1>5, RetryInv
<1>6. ASSUME NEW d \in held, DeadLetterIt(d) /\ UNCHANGED held PROVE MemoryInv'
  BY <1>6, DeadLetterInv
<1>7. ASSUME NEW e \in Events, NEW delay \in Delays,
             ReplayDeadLetter(e, delay) /\ UNCHANGED held
      PROVE  MemoryInv'
  BY <1>7, ReplayInv
<1>8. CASE Tick /\ UNCHANGED held
  BY <1>8, TickInv
<1>9. ASSUME NEW d \in held, held' = held \ {d}, UNCHANGED storeVars PROVE MemoryInv'
  BY <1>9, ForgetInv
<1>10. CASE UNCHANGED memoryVars
  BY <1>10, ForgetInv DEF memoryVars, storeVars
<1> QED BY <1>1, <1>2, <1>3, <1>4, <1>5, <1>6, <1>7, <1>8, <1>9, <1>10 DEF MemoryNext

(* The three maps keep their types whatever the clients call. *)
THEOREM MemoryTypeCorrect == MemorySpec => []MemoryTypeOK
<1>1. MemoryInv => MemoryTypeOK
  BY DEF MemoryInv
<1> QED BY InitInv, NextInv, <1>1, PTL DEF MemorySpec

(* No interleaving of late, repeated or stale calls to the store leaves an *)
(* event in two of its three maps.                                         *)
THEOREM MemoryStoredOnce == MemorySpec => []StoredOnce
<1>1. MemoryInv => StoredOnce
  BY DEF MemoryInv
<1> QED BY InitInv, NextInv, <1>1, PTL DEF MemorySpec

(* The delivery that the store honours carries the stored attempt. *)
THEOREM MemoryHonoured == MemorySpec => []HonouredDeliveryIsCurrent
<1>1. MemoryInv => HonouredDeliveryIsCurrent
  BY DEF MemoryInv
<1> QED BY InitInv, NextInv, <1>1, PTL DEF MemorySpec
-----------------------------------------------------------------------------

(* While the maps are disjoint, an event's content is the content field of *)
(* whichever map has it.                                                   *)
LEMMA ContentCases ==
    ASSUME StoredOnce
    PROVE  /\ \A e \in DOMAIN active : ContentOf(e) = active[e].content
           /\ \A e \in DOMAIN dead : ContentOf(e) = dead[e].content
           /\ \A e \in DOMAIN completed : ContentOf(e) = completed[e]
BY DEF StoredOnce, ContentOf

LEMMA ContentCasesNext ==
    ASSUME StoredOnce'
    PROVE  /\ \A e \in DOMAIN active' : ContentOf(e)' = active'[e].content
           /\ \A e \in DOMAIN dead' : ContentOf(e)' = dead'[e].content
           /\ \A e \in DOMAIN completed' : ContentOf(e)' = completed'[e]
BY DEF StoredOnce, ContentOf

LEMMA AppendRefines ==
    ASSUME MemoryInv, MemoryInv', NEW e \in Events, NEW c \in Contents, NEW d \in Delays,
           AppendEvent(e, c, d), held' \subseteq held
    PROVE  Contract!Accept(e, c)
<1>1. /\ DOMAIN active' = DOMAIN active \cup {e}
      /\ active'[e] = FreshEntry(c, d)
      /\ \A x \in DOMAIN active : x # e => active'[x] = active[x]
      /\ dead' = dead /\ completed' = completed /\ e \notin Known
  BY DEF AppendEvent, Insert
<1>2. active'[e].content = c /\ active'[e].lease = 0
  BY <1>1 DEF FreshEntry
<1>3. HomeOf[e] = "absent" /\ HomeOf' = [HomeOf EXCEPT ![e] = "active"]
  BY <1>1 DEF HomeOf, Known
<1>4. BodyOf' = [x \in DOMAIN BodyOf \cup {e} |-> IF x = e THEN c ELSE BodyOf[x]]
  <2>1. Known' = Known \cup {e}
    BY <1>1 DEF Known
  <2>2. ContentOf(e)' = c
    BY <1>1, <1>2, ContentCasesNext DEF MemoryInv
  <2>3. \A x \in Known : ContentOf(x)' = ContentOf(x)
    BY <1>1, ContentCases, ContentCasesNext DEF MemoryInv, Known
  <2> QED BY <2>1, <2>2, <2>3 DEF BodyOf
<1>5. ValidNow' = ValidNow
  <2>1. {x \in DOMAIN active' : active'[x].lease > 0} = {x \in DOMAIN active : active[x].lease > 0}
    BY <1>1, <1>2 DEF Known
  <2> QED BY <1>1, <2>1 DEF ValidNow, Known
<1>6. Outstanding' \subseteq Outstanding
  BY DEF Outstanding
<1> QED BY <1>3, <1>4, <1>5, <1>6 DEF Contract!Accept, Contract!OnlyForget

LEMMA AcquireRefines ==
    ASSUME MemoryInv, MemoryInv', NEW w \in Workers, NEW batch \in SUBSET Available,
           NEW f \in [batch -> Tokens],
           Acquire(w, batch, f), held' \subseteq held \cup Deliveries(w, batch, f)
    PROVE  Contract!Issue(batch, f)
<1> DEFINE new == {<<e, f[e]>> : e \in batch}
<1>1. /\ DOMAIN active' = DOMAIN active
      /\ batch \subseteq DOMAIN active
      /\ \A e \in DOMAIN active \ batch : active'[e] = active[e]
      /\ dead' = dead /\ completed' = completed
  BY DEF Acquire, Available
<1>2. \A e \in batch : /\ active'[e].content = active[e].content
                       /\ active'[e].token = f[e]
                       /\ active'[e].lease = Lease
                       /\ active[e].lease = 0
  <2> SUFFICES ASSUME NEW e \in batch
               PROVE  /\ active'[e].content = active[e].content
                      /\ active'[e].token = f[e]
                      /\ active'[e].lease = Lease
                      /\ active[e].lease = 0
    OBVIOUS
  <2>1. active[e] \in Entry
    BY <1>1 DEF MemoryInv, MemoryTypeOK
  <2>2. active'[e] = [active[e] EXCEPT !.attempt = NextAttempt(@), !.worker = w,
                                       !.token = f[e], !.lease = Lease]
    BY <1>1 DEF Acquire
  <2>3. active[e].lease = 0
    BY DEF Available
  <2> QED BY <2>1, <2>2, <2>3 DEF Entry
<1>3. HomeOf' = HomeOf /\ \A e \in batch : HomeOf[e] = "active"
  BY <1>1 DEF HomeOf, MemoryInv, MemoryTypeOK
<1>4. BodyOf' = BodyOf
  <2>1. Known' = Known
    BY <1>1 DEF Known
  <2>2. \A x \in Known : ContentOf(x)' = ContentOf(x)
    BY <1>1, <1>2, ContentCases, ContentCasesNext DEF MemoryInv, Known
  <2> QED BY <2>1, <2>2 DEF BodyOf
<1>5. ValidNow' = ValidNow \cup new
  <2>1. {x \in DOMAIN active' : active'[x].lease > 0}
          = {x \in DOMAIN active : active[x].lease > 0} \cup batch
    BY <1>1, <1>2, TimingAssumption
  <2>2. \A x \in DOMAIN active : active[x].lease > 0 => active'[x].token = active[x].token
    BY <1>1, <1>2
  <2> QED BY <1>2, <2>1, <2>2 DEF ValidNow
<1>6. \A e \in batch : Contract!Honoured(e) = {}
  BY <1>2 DEF Contract!Honoured, ValidNow
<1>7. new \cap (Outstanding \cup ValidNow) = {}
  <2>1. \A e \in batch : \A d \in held : d.id = e => d.token # f[e]
    BY DEF Acquire, IsFresh
  <2>2. new \cap Outstanding = {}
    BY <2>1 DEF Outstanding
  <2>3. new \cap ValidNow = {}
    BY <1>2 DEF ValidNow
  <2> QED BY <2>2, <2>3
<1>8. Outstanding' \subseteq Outstanding \cup new
  <2>1. \A d \in Deliveries(w, batch, f) : <<d.id, d.token>> \in new
    BY DEF Deliveries
  <2> QED BY <2>1 DEF Outstanding
<1> QED BY <1>3, <1>4, <1>5, <1>6, <1>7, <1>8 DEF Contract!Issue

LEMMA AckRefines ==
    ASSUME MemoryInv, MemoryInv', NEW d \in held, Ack(d), held' \subseteq held
    PROVE  Contract!Settle(<<d.id, d.token>>, "completed")
<1>1. /\ DOMAIN active' = DOMAIN active \ {d.id}
      /\ \A x \in DOMAIN active' : active'[x] = active[x]
      /\ Leased(d)
  BY RemoveEntry DEF Ack, MemoryInv
<1>2. /\ DOMAIN completed' = DOMAIN completed \cup {d.id}
      /\ completed'[d.id] = active[d.id].content
      /\ \A x \in DOMAIN completed : x # d.id => completed'[x] = completed[x]
      /\ dead' = dead
  BY DEF Ack, Insert
<1>3. d.id \in Events /\ d.id \in DOMAIN active
  BY <1>1 DEF Leased, MemoryInv, MemoryTypeOK
<1>4. <<d.id, d.token>> \in ValidNow \cap Outstanding
  BY <1>1 DEF Leased, ValidNow, Outstanding
<1>5. HomeOf[d.id] = "active" /\ HomeOf' = [HomeOf EXCEPT ![d.id] = "completed"]
  BY <1>1, <1>2, <1>3 DEF HomeOf, MemoryInv, StoredOnce
<1>6. BodyOf' = BodyOf
  <2>1. Known' = Known
    BY <1>1, <1>2, <1>3 DEF Known
  <2>2. \A x \in Known : ContentOf(x)' = ContentOf(x)
    BY <1>1, <1>2, <1>3, ContentCases, ContentCasesNext DEF MemoryInv, Known
  <2> QED BY <2>1, <2>2 DEF BodyOf
<1>7. ValidNow' = ValidNow \ {<<d.id, d.token>>}
  <2>1. {x \in DOMAIN active' : active'[x].lease > 0}
          = {x \in DOMAIN active : active[x].lease > 0} \ {d.id}
    BY <1>1
  <2> QED BY <1>1, <2>1 DEF ValidNow, Leased
<1>8. Outstanding' \subseteq Outstanding
  BY DEF Outstanding
<1> QED BY <1>4, <1>5, <1>6, <1>7, <1>8 DEF Contract!Settle, Contract!OnlyForget

LEMMA DeadLetterRefines ==
    ASSUME MemoryInv, MemoryInv', NEW d \in held, DeadLetterIt(d), held' \subseteq held
    PROVE  Contract!Settle(<<d.id, d.token>>, "dead")
<1>1. /\ DOMAIN active' = DOMAIN active \ {d.id}
      /\ \A x \in DOMAIN active' : active'[x] = active[x]
      /\ Leased(d)
  BY RemoveEntry DEF DeadLetterIt, MemoryInv
<1>2. /\ DOMAIN dead' = DOMAIN dead \cup {d.id}
      /\ dead'[d.id].content = active[d.id].content
      /\ \A x \in DOMAIN dead : x # d.id => dead'[x] = dead[x]
      /\ completed' = completed
  BY DEF DeadLetterIt, Insert
<1>3. d.id \in Events /\ d.id \in DOMAIN active
  BY <1>1 DEF Leased, MemoryInv, MemoryTypeOK
<1>4. <<d.id, d.token>> \in ValidNow \cap Outstanding
  BY <1>1 DEF Leased, ValidNow, Outstanding
<1>5. HomeOf[d.id] = "active" /\ HomeOf' = [HomeOf EXCEPT ![d.id] = "dead"]
  BY <1>1, <1>2, <1>3 DEF HomeOf, MemoryInv, StoredOnce
<1>6. BodyOf' = BodyOf
  <2>1. Known' = Known
    BY <1>1, <1>2, <1>3 DEF Known
  <2>2. \A x \in Known : ContentOf(x)' = ContentOf(x)
    BY <1>1, <1>2, <1>3, ContentCases, ContentCasesNext DEF MemoryInv, Known
  <2> QED BY <2>1, <2>2 DEF BodyOf
<1>7. ValidNow' = ValidNow \ {<<d.id, d.token>>}
  <2>1. {x \in DOMAIN active' : active'[x].lease > 0}
          = {x \in DOMAIN active : active[x].lease > 0} \ {d.id}
    BY <1>1
  <2> QED BY <1>1, <2>1 DEF ValidNow, Leased
<1>8. Outstanding' \subseteq Outstanding
  BY DEF Outstanding
<1> QED BY <1>4, <1>5, <1>6, <1>7, <1>8 DEF Contract!Settle, Contract!OnlyForget

LEMMA RetryRefines ==
    ASSUME MemoryInv, MemoryInv', NEW d \in held, NEW delay \in Delays,
           Retry(d, delay), held' \subseteq held
    PROVE  Contract!Settle(<<d.id, d.token>>, "active")
<1>1. Leased(d) /\ d.id \in DOMAIN active /\ d.id \in Events
      /\ active[d.id] \in Entry /\ dead' = dead /\ completed' = completed
  BY DEF Retry, Leased, MemoryInv, MemoryTypeOK
<1>2. /\ DOMAIN active' = DOMAIN active
      /\ \A x \in DOMAIN active : x # d.id => active'[x] = active[x]
  BY <1>1 DEF Retry, MemoryInv, MemoryTypeOK
<1>3. active'[d.id].content = active[d.id].content /\ active'[d.id].lease = 0
  <2>1. active'[d.id] = [active[d.id] EXCEPT !.delay = delay, !.worker = None,
                                             !.token = None, !.lease = 0]
    BY <1>1 DEF Retry
  <2> QED BY <1>1, <2>1 DEF Entry
<1>4. <<d.id, d.token>> \in ValidNow \cap Outstanding
  BY <1>1 DEF Leased, ValidNow, Outstanding
<1>5. HomeOf[d.id] = "active" /\ HomeOf' = [HomeOf EXCEPT ![d.id] = "active"]
  BY <1>1, <1>2 DEF HomeOf
<1>6. BodyOf' = BodyOf
  <2>1. Known' = Known
    BY <1>1, <1>2 DEF Known
  <2>2. \A x \in Known : ContentOf(x)' = ContentOf(x)
    BY <1>1, <1>2, <1>3, ContentCases, ContentCasesNext DEF MemoryInv, Known
  <2> QED BY <2>1, <2>2 DEF BodyOf
<1>7. ValidNow' = ValidNow \ {<<d.id, d.token>>}
  <2>1. {x \in DOMAIN active' : active'[x].lease > 0}
          = {x \in DOMAIN active : active[x].lease > 0} \ {d.id}
    BY <1>2, <1>3
  <2> QED BY <1>1, <1>2, <2>1 DEF ValidNow, Leased
<1>8. Outstanding' \subseteq Outstanding
  BY DEF Outstanding
<1> QED BY <1>4, <1>5, <1>6, <1>7, <1>8 DEF Contract!Settle, Contract!OnlyForget

LEMMA ReplayRefines ==
    ASSUME MemoryInv, MemoryInv', NEW e \in Events, NEW delay \in Delays,
           ReplayDeadLetter(e, delay), held' \subseteq held
    PROVE  Contract!Revive(e)
<1>1. /\ DOMAIN active' = DOMAIN active \cup {e}
      /\ active'[e] = FreshEntry(dead[e].content, delay)
      /\ \A x \in DOMAIN active : x # e => active'[x] = active[x]
      /\ e \in DOMAIN dead /\ completed' = completed
  BY DEF ReplayDeadLetter, Insert
<1>2. DOMAIN dead' = DOMAIN dead \ {e} /\ \A x \in DOMAIN dead' : dead'[x] = dead[x]
  BY DEF ReplayDeadLetter, Remove, Restrict
<1>3. active'[e].content = dead[e].content /\ active'[e].lease = 0
  BY <1>1 DEF FreshEntry
<1>4. HomeOf[e] = "dead" /\ HomeOf' = [HomeOf EXCEPT ![e] = "active"]
  BY <1>1, <1>2 DEF HomeOf, MemoryInv, StoredOnce
<1>5. BodyOf' = BodyOf
  <2>1. Known' = Known
    BY <1>1, <1>2 DEF Known
  <2>2. \A x \in Known : ContentOf(x)' = ContentOf(x)
    BY <1>1, <1>2, <1>3, ContentCases, ContentCasesNext DEF MemoryInv, Known
  <2> QED BY <2>1, <2>2 DEF BodyOf
<1>6. ValidNow' = ValidNow
  <2>1. {x \in DOMAIN active' : active'[x].lease > 0}
          = {x \in DOMAIN active : active[x].lease > 0}
    BY <1>1, <1>3 DEF MemoryInv, StoredOnce
  <2> QED BY <1>1, <1>3, <2>1 DEF ValidNow
<1>7. Outstanding' \subseteq Outstanding
  BY DEF Outstanding
<1> QED BY <1>4, <1>5, <1>6, <1>7 DEF Contract!Revive, Contract!OnlyForget

LEMMA RenewRefines ==
    ASSUME MemoryInv, MemoryInv', NEW d \in held, Renew(d), held' \subseteq held
    PROVE  Contract!ClientsForget
<1>1. Leased(d) /\ d.id \in DOMAIN active /\ active[d.id] \in Entry
      /\ dead' = dead /\ completed' = completed
  BY DEF Renew, Leased, MemoryInv, MemoryTypeOK
<1>2. /\ DOMAIN active' = DOMAIN active
      /\ \A x \in DOMAIN active : x # d.id => active'[x] = active[x]
  BY <1>1 DEF Renew
<1>3. /\ active'[d.id].content = active[d.id].content
      /\ active'[d.id].token = active[d.id].token
      /\ active'[d.id].lease > 0
  <2>1. active'[d.id] = [active[d.id] EXCEPT !.lease = Lease]
    BY <1>1 DEF Renew
  <2> QED BY <1>1, <2>1, TimingAssumption DEF Entry
<1>4. HomeOf' = HomeOf
  BY <1>1, <1>2 DEF HomeOf
<1>5. BodyOf' = BodyOf
  <2>1. Known' = Known
    BY <1>1, <1>2 DEF Known
  <2>2. \A x \in Known : ContentOf(x)' = ContentOf(x)
    BY <1>1, <1>2, <1>3, ContentCases, ContentCasesNext DEF MemoryInv, Known
  <2> QED BY <2>1, <2>2 DEF BodyOf
<1>6. ValidNow' = ValidNow
  <2>1. {x \in DOMAIN active' : active'[x].lease > 0}
          = {x \in DOMAIN active : active[x].lease > 0}
    BY <1>1, <1>2, <1>3 DEF Leased
  <2> QED BY <1>2, <1>3, <2>1 DEF ValidNow
<1> QED BY <1>4, <1>5, <1>6 DEF Contract!ClientsForget, Contract!OnlyForget, Outstanding

LEMMA TickRefines ==
    ASSUME MemoryInv, MemoryInv', Tick, held' \subseteq held
    PROVE  Contract!LeasesEnd(ValidNow \ ValidNow')
<1>1. DOMAIN active' = DOMAIN active /\ dead' = dead /\ completed' = completed
  BY DEF Tick
<1>2. \A e \in DOMAIN active : /\ active'[e].content = active[e].content
                               /\ active'[e].token = active[e].token
                               /\ active'[e].lease > 0 => active[e].lease > 0
  <2> SUFFICES ASSUME NEW e \in DOMAIN active
               PROVE  /\ active'[e].content = active[e].content
                      /\ active'[e].token = active[e].token
                      /\ active'[e].lease > 0 => active[e].lease > 0
    OBVIOUS
  <2>1. active[e] \in Entry
    BY DEF MemoryInv, MemoryTypeOK
  <2>2. active'[e] = [active[e] EXCEPT !.delay = Down(@), !.lease = Down(@)]
    BY DEF Tick
  <2>3. active[e].lease \in Nat /\ active'[e].lease = Down(active[e].lease)
    BY <2>1, <2>2, TimingAssumption DEF Entry
  <2>4. active'[e].content = active[e].content /\ active'[e].token = active[e].token
    BY <2>1, <2>2 DEF Entry
  <2> QED BY <2>3, <2>4 DEF Down
<1>3. HomeOf' = HomeOf
  BY <1>1 DEF HomeOf
<1>4. BodyOf' = BodyOf
  <2>1. Known' = Known
    BY <1>1 DEF Known
  <2>2. \A x \in Known : ContentOf(x)' = ContentOf(x)
    BY <1>1, <1>2, ContentCases, ContentCasesNext DEF MemoryInv, Known
  <2> QED BY <2>1, <2>2 DEF BodyOf
<1>5. ValidNow' \subseteq ValidNow
  BY <1>1, <1>2 DEF ValidNow
<1> QED BY <1>3, <1>4, <1>5 DEF Contract!LeasesEnd, Contract!OnlyForget, Outstanding

LEMMA ForgetRefines ==
    ASSUME held' \subseteq held, UNCHANGED storeVars
    PROVE  Contract!ClientsForget
BY DEF storeVars, HomeOf, BodyOf, ValidNow, Known, ContentOf, Outstanding,
       Contract!ClientsForget, Contract!OnlyForget

LEMMA InitRefines == MemoryInit => Contract!ContractInit
<1> SUFFICES ASSUME MemoryInit PROVE Contract!ContractInit
  OBVIOUS
<1>1. Known = {} /\ DOMAIN active = {} /\ DOMAIN dead = {} /\ DOMAIN completed = {} /\ held = {}
  BY DEF MemoryInit, Known
<1> QED BY <1>1 DEF HomeOf, BodyOf, ValidNow, Outstanding, Contract!ContractInit

(* Every step of the store is a step of the contract or none. *)
LEMMA StepRefines ==
    ASSUME MemoryInv, MemoryInv', [MemoryNext]_memoryVars
    PROVE  [Contract!ContractNext]_(Contract!contractVars)
<1>1. ASSUME NEW e \in Events, NEW c \in Contents, NEW d \in Delays,
             AppendEvent(e, c, d) /\ UNCHANGED held
      PROVE  Contract!ContractNext
  BY <1>1, AppendRefines DEF Contract!ContractNext
<1>2. ASSUME NEW w \in Workers, NEW batch \in SUBSET Available,
             NEW f \in [batch -> Tokens], Acquire(w, batch, f),
             held' = held \cup Deliveries(w, batch, f)
      PROVE  Contract!ContractNext
  <2>1. batch \in SUBSET Events
    BY DEF Available, MemoryInv, MemoryTypeOK
  <2> QED BY <1>2, <2>1, AcquireRefines DEF Contract!ContractNext
<1>3. ASSUME NEW d \in held, NEW delay \in Delays, UNCHANGED held,
             Ack(d) \/ Retry(d, delay) \/ DeadLetterIt(d)
      PROVE  Contract!ContractNext
  <2>1. \E to \in {"active", "completed", "dead"} : Contract!Settle(<<d.id, d.token>>, to)
    BY <1>3, AckRefines, RetryRefines, DeadLetterRefines
  <2> QED BY <2>1 DEF Contract!ContractNext, Contract!Settle
<1>4. ASSUME NEW d \in held, Renew(d) /\ UNCHANGED held PROVE Contract!ContractNext
  BY <1>4, RenewRefines DEF Contract!ContractNext
<1>5. ASSUME NEW e \in Events, NEW delay \in Delays,
             ReplayDeadLetter(e, delay) /\ UNCHANGED held
      PROVE  Contract!ContractNext
  BY <1>5, ReplayRefines DEF Contract!ContractNext
<1>6. CASE Tick /\ UNCHANGED held
  BY <1>6, TickRefines DEF Contract!ContractNext
<1>7. ASSUME held' \subseteq held, UNCHANGED storeVars PROVE Contract!ContractNext
  BY <1>7, ForgetRefines DEF Contract!ContractNext
<1>8. CASE UNCHANGED memoryVars
  BY <1>7, <1>8 DEF memoryVars, storeVars
<1>9. 0 \in Delays
  BY TimingAssumption DEF Delays
<1> QED BY <1>1, <1>2, <1>3, <1>4, <1>5, <1>6, <1>7, <1>8, <1>9 DEF MemoryNext

(* MemoryOutbox implements the promise of the OutboxStore trait: a stale   *)
(* token settles nothing, and at most one token per event is honoured.     *)
THEOREM MemoryImplementsContract == MemorySpec => ImplementsContract
<1>1. MemoryInv /\ MemoryInv' /\ [MemoryNext]_memoryVars
        => [Contract!ContractNext]_(Contract!contractVars)
  BY StepRefines
<1> QED BY InitInv, NextInv, InitRefines, <1>1, PTL
        DEF MemorySpec, ImplementsContract, Contract!ContractSpec

(* A step of the contract keeps the content of accepted events and leaves  *)
(* completed events completed; so does the store, read through the mapping.*)
LEMMA StepDurable ==
    ASSUME MemoryInv, MemoryInv', [Contract!ContractNext]_(Contract!contractVars)
    PROVE  DurableStep
<1>1. \A e \in Known : e \in DOMAIN BodyOf' /\ BodyOf'[e] = BodyOf[e]
  <2>1. ASSUME NEW e \in Events, NEW c \in Contents, Contract!Accept(e, c)
        PROVE  \A x \in Known : x \in DOMAIN BodyOf' /\ BodyOf'[x] = BodyOf[x]
    <3>1. e \notin Known
      BY <2>1 DEF Contract!Accept, HomeOf, Known
    <3> QED BY <2>1, <3>1 DEF Contract!Accept, BodyOf
  <2>2. CASE BodyOf' = BodyOf
    BY <2>2 DEF BodyOf
  <2> QED BY <2>1, <2>2 DEF Contract!ContractNext, Contract!contractVars, Contract!Issue,
             Contract!LeasesEnd, Contract!Settle, Contract!Revive, Contract!ClientsForget
<1>2. \A e \in Events : HomeOf[e] = "completed" => HomeOf'[e] = "completed"
  <2>1. ASSUME NEW e, NEW to, HomeOf' = [HomeOf EXCEPT ![e] = to], HomeOf[e] # "completed"
        PROVE  \A x \in Events : HomeOf[x] = "completed" => HomeOf'[x] = "completed"
    BY <2>1 DEF HomeOf
  <2>2. CASE HomeOf' = HomeOf
    BY <2>2
  <2> QED BY <2>1, <2>2 DEF Contract!ContractNext, Contract!contractVars, Contract!Issue,
             Contract!Accept, Contract!LeasesEnd, Contract!Settle, Contract!Revive,
             Contract!ClientsForget
<1>3. \A e \in Known : e \in Known' /\ ContentOf(e)' = ContentOf(e)
  BY <1>1 DEF BodyOf
<1>4. DOMAIN completed \subseteq DOMAIN completed'
  <2>1. \A e \in DOMAIN completed : e \in Events /\ HomeOf[e] = "completed"
    BY DEF HomeOf, MemoryInv, MemoryTypeOK, StoredOnce
  <2>2. \A e \in Events : HomeOf'[e] = "completed" => e \in DOMAIN completed'
    BY DEF HomeOf
  <2> QED BY <1>2, <2>1, <2>2
<1> QED BY <1>3, <1>4 DEF DurableStep

(* An accepted event is never lost, never changes its content, and once    *)
(* acknowledged is acknowledged for good.                                  *)
THEOREM MemoryDurable == MemorySpec => Durable
<1>1. MemoryInv /\ MemoryInv' /\ [MemoryNext]_memoryVars => [DurableStep]_memoryVars
  BY StepRefines, StepDurable
<1> QED BY InitInv, NextInv, <1>1, PTL DEF MemorySpec, Durable
=============================================================================
