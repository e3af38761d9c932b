--------------------------- MODULE OutboxContract ---------------------------
(***************************************************************************)
(* What the OutboxStore trait (crates/elura-core/src/outbox.rs) promises   *)
(* its clients, whatever backend is behind it: durable at-least-once       *)
(* storage of events, delivered under leases that a fresh token fences.    *)
(* There is no clock and no entry here.  An event has a home, the content  *)
(* it was accepted with, and at most one token that the store honours; a   *)
(* lease may end at any moment.  MemoryOutbox is shown to implement this.  *)
(***************************************************************************)
EXTENDS FiniteSets

CONSTANTS Events,      \* event ids
          Contents,    \* what OutboxEvent::same_identity compares
          Tokens       \* delivery tokens

VARIABLES home,         \* where each event is stored
          body,         \* the content each accepted event was stored with
          valid,        \* <<event, token>> pairs that the store honours now
          outstanding   \* <<event, token>> pairs that some client may still use

contractVars == <<home, body, valid, outstanding>>

Homes == {"absent", "active", "completed", "dead"}

(* The pairs of valid that concern event e. *)
Honoured(e) == {p \in valid : p[1] = e}

ContractInit ==
    /\ home = [e \in Events |-> "absent"]
    /\ body = [e \in {} |-> e]
    /\ valid = {}
    /\ outstanding = {}

(* A client may forget a delivery at any time; it never invents one. *)
OnlyForget == outstanding' \subseteq outstanding

(* append of an id that is stored nowhere. *)
Accept(e, c) ==
    /\ home[e] = "absent"
    /\ home' = [home EXCEPT ![e] = "active"]
    /\ body' = [x \in DOMAIN body \cup {e} |-> IF x = e THEN c ELSE body[x]]
    /\ UNCHANGED valid
    /\ OnlyForget

(* acquire: a batch of active events that nobody validly holds, each with  *)
(* a token that neither the store nor any client knows yet.                *)
Issue(batch, f) ==
    LET new == {<<e, f[e]>> : e \in batch}
    IN  /\ \A e \in batch : home[e] = "active" /\ Honoured(e) = {}
        /\ new \cap (outstanding \cup valid) = {}
        /\ valid' = valid \cup new
        /\ outstanding' \subseteq outstanding \cup new
        /\ UNCHANGED <<home, body>>

(* Time passes: any of the leases may end. *)
LeasesEnd(gone) ==
    /\ gone \subseteq valid
    /\ valid' = valid \ gone
    /\ OnlyForget
    /\ UNCHANGED <<home, body>>

(* ack, dead_letter and retry by the client whose token is honoured: the   *)
(* event moves to "completed", "dead" or back to the queue.                *)
Settle(p, to) ==
    /\ p \in valid \cap outstanding
    /\ home[p[1]] = "active"
    /\ home' = [home EXCEPT ![p[1]] = to]
    /\ valid' = valid \ {p}
    /\ OnlyForget
    /\ UNCHANGED body

(* replay_dead_letter. *)
Revive(e) ==
    /\ home[e] = "dead"
    /\ home' = [home EXCEPT ![e] = "active"]
    /\ OnlyForget
    /\ UNCHANGED <<body, valid>>

(* Steps of clients alone. *)
ClientsForget ==
    /\ OnlyForget
    /\ UNCHANGED <<home, body, valid>>

ContractNext ==
    \/ \E e \in Events, c \in Contents : Accept(e, c)
    \/ \E batch \in SUBSET Events : \E f \in [batch -> Tokens] : Issue(batch, f)
    \/ \E gone \in SUBSET valid : LeasesEnd(gone)
    \/ \E p \in valid, to \in {"active", "completed", "dead"} : Settle(p, to)
    \/ \E e \in Events : Revive(e)
    \/ ClientsForget

ContractSpec == ContractInit /\ [][ContractNext]_contractVars
=============================================================================
