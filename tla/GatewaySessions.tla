--------------------------- MODULE GatewaySessions ---------------------------
(***************************************************************************)
(* The life of a session on one of several gateways                        *)
(* (crates/elura-gateway/src: connection.rs, server.rs, transport/drain.rs *)
(* and session_state.rs) over the shared online directory, the single-use  *)
(* ticket store and the two at-least-once transports that carry login      *)
(* events and kicks between gateways.                                      *)
(*                                                                         *)
(* A step ends where the code awaits another party.  A request handler is  *)
(* dropped at its await when it times out or when the session is told to   *)
(* disconnect; what it has done by then stays done.                        *)
(***************************************************************************)
EXTENDS MemoryOnline

CONSTANTS Gateways, GatewayOf,    \* the gateway each session connects to
          Tickets, TicketsOf,     \* the tickets a client may present
          ReconnectTickets,       \* those issued for reconnecting
          RenewInterval,          \* config.renew_interval
          Draining,               \* bound: the gateways that are drained
          MaxFaults               \* bound on time-outs, failures and drains

(* Builder: renew_interval is shorter than lease_ttl. *)
ASSUME GatewayAssumption ==
    /\ GatewayOf \in [Sessions -> Gateways] /\ TicketsOf \in [Sessions -> SUBSET Tickets]
    /\ RenewInterval \in 1 .. Ttl - 1 /\ MaxFaults \in Nat

VARIABLES at,        \* session -> where its task is
          named,     \* sessions with an identity, in the session index
          told,      \* sessions whose disconnect watch is set
          ticket,    \* session -> the ticket its handler holds
          previous,  \* session -> the sessions its admission displaced
          guard,     \* session -> time left until lease_valid_until
          spent,     \* tickets reserved in the replay store
          events,    \* login events to handle: <<gateway, kept session>>
          kicks,     \* sessions a Disconnect push is on its way to
          drain,     \* gateway -> progress of GatewayServer::drain
          faults,    \* failures so far
          uses,      \* history: ticket -> how often it was accepted
          cut        \* history: sessions whose login or cleanup was not finished

held == <<ticket, previous, guard>>
netVars == <<events, kicks, drain>>
sharedVars == <<named, told, spent, netVars, faults, uses, cut>>
gatewayVars == <<onlineVars, at, held, sharedVars>>

Login == {"checking", "admitted", "undoing", "announcing", "kicking"}
Listening == Login \cup {"idle", "busy"}
Registered == Listening \cup {"closing"}
Counted == Registered \cup {"counted", "entered"}
NoTicket == "none"

On(g) == {s \in Sessions : GatewayOf[s] = g}
Handles == {s \in Sessions : at[s] \in Registered}
Active(g) == {s \in On(g) : at[s] \in Counted}
Goes(s, step) == at' = [at EXCEPT ![s] = step]
Tell(S) == told' = told \cup {s \in S : at[s] \in Listening}
Fault == faults < MaxFaults /\ faults' = faults + 1

GatewayInit ==
    /\ OnlineInit
    /\ at = [s \in Sessions |-> "new"] /\ named = {} /\ told = {}
    /\ ticket = [s \in Sessions |-> NoTicket]
    /\ previous = [s \in Sessions |-> {}] /\ guard = [s \in Sessions |-> 0]
    /\ spent = {} /\ events = {} /\ kicks = {}
    /\ drain = [g \in Gateways |-> "open"]
    /\ faults = 0 /\ uses = [t \in Tickets |-> 0] /\ cut = {}

(* DrainController::enter: look, count, look again. *)
Arrive(s) ==
    /\ at[s] = "new" /\ drain[GatewayOf[s]] = "open" /\ Goes(s, "arriving")
    /\ UNCHANGED <<onlineVars, held, sharedVars>>
Count(s) ==
    /\ at[s] = "arriving" /\ Goes(s, "counted")
    /\ UNCHANGED <<onlineVars, held, sharedVars>>
(* Mutant: enter does not look again. *)
LookOnce(s) ==
    /\ at[s] = "counted" /\ Goes(s, "entered")
    /\ UNCHANGED <<onlineVars, held, sharedVars>>
LookAgain(s) ==
    /\ at[s] = "counted"
    /\ Goes(s, IF drain[GatewayOf[s]] = "open" THEN "entered" ELSE "closed")
    /\ UNCHANGED <<onlineVars, held, sharedVars>>

(* serve, up to the loop: the connection limits and the admission check of *)
(* the Connected stage, then the handle is registered.                     *)
Register(s) ==
    /\ at[s] = "entered" /\ (Goes(s, "idle") \/ Goes(s, "closed"))
    /\ UNCHANGED <<onlineVars, held, sharedVars>>

(* The loop receives a frame it lets through. *)
Receive(s) ==
    /\ at[s] = "idle"
    /\ \/ /\ s \notin named /\ Goes(s, "checking")
          /\ \E t \in TicketsOf[s] : ticket' = [ticket EXCEPT ![s] = t]
       \/ /\ s \in named /\ Goes(s, "busy")
          /\ \E t \in (TicketsOf[s] \cap ReconnectTickets) \cup {NoTicket} : ticket' = [ticket EXCEPT ![s] = t]
    /\ UNCHANGED <<onlineVars, previous, guard, sharedVars>>

(* A handler is over or dropped; if it is over, the loop goes on, and a    *)
(* session that just got its identity starts guarding its lease.           *)
Drops(s) ==
    ticket' = [ticket EXCEPT ![s] = NoTicket] /\ previous' = [previous EXCEPT ![s] = {}]
Return(s) ==
    /\ Goes(s, "idle") /\ Drops(s)
    /\ guard' = IF s \in named /\ at[s] \in Login THEN [guard EXCEPT ![s] = Ttl - RenewInterval] ELSE guard

(* ROUTE_AUTHENTICATE: the admission check of the Authenticated stage or   *)
(* the account version refuses, or admit_online does.                      *)
Refused(s) ==
    /\ at[s] = "checking" /\ Return(s)
    /\ UNCHANGED onlineVars \/ ((Duplicate(s) \/ RealmFull(s)) /\ PurgeOnly)
    /\ UNCHANGED sharedVars
(* admit_online: acquire accepts. *)
Admit(s) ==
    /\ at[s] = "checking" /\ Acquire(s) /\ Goes(s, "admitted")
    /\ previous' = [previous EXCEPT ![s] = IF Mode = "KickExisting" THEN Previous(s) ELSE {}]
    /\ UNCHANGED <<ticket, guard, sharedVars>>
(* verified.consume: the ticket is reserved, or was already used. *)
Accept(s) ==
    /\ ticket[s] \notin spent
    /\ spent' = spent \cup {ticket[s]}
    /\ uses' = [uses EXCEPT ![ticket[s]] = @ + 1]
(* With the ticket reserved the session gets its identity and is indexed. *)
Consume(s) ==
    /\ at[s] = "admitted"
    /\ \/ Accept(s) /\ named' = named \cup {s} /\ Goes(s, "announcing")
       \/ ticket[s] \in spent /\ Goes(s, "undoing") /\ UNCHANGED <<spent, uses, named>>
    /\ UNCHANGED <<onlineVars, held, told, netVars, faults, cut>>

(* Mutant: a login that was refused late keeps its seat. *)
UndoNothing(s) ==
    /\ at[s] = "undoing" /\ Return(s)
    /\ UNCHANGED <<onlineVars, sharedVars>>
(* remove_online, which ignores what the directory answers. *)
RemoveOnline(s) == Unregister(s) \/ (s \notin DOMAIN sessions /\ UNCHANGED onlineVars)
Undo(s) ==
    /\ at[s] = "undoing" /\ RemoveOnline(s) /\ Return(s)
    /\ UNCHANGED sharedVars

(* Mutant: the Login event stays on its own gateway. *)
AnnounceHere(s) ==
    /\ at[s] = "announcing" /\ Goes(s, "kicking")
    /\ events' = events \cup {<<GatewayOf[s], s>>}
    /\ UNCHANGED <<onlineVars, held, named, told, spent, kicks, drain, uses, faults, cut>>
(* The Login event is published to every gateway; a failure is ignored.    *)
(* Only gateways that other sessions of the user connect to can act on it. *)
Audience(s) == {GatewayOf[t] : t \in {x \in Sessions \ {s} : UserOf[x] = UserOf[s]}}
Announce(s) ==
    /\ at[s] = "announcing" /\ Goes(s, "kicking")
    /\ \/ events' = events \cup {<<g, s>> : g \in Audience(s)} /\ UNCHANGED <<faults, cut>>
       \/ Fault /\ cut' = cut \cup {s} /\ UNCHANGED events
    /\ UNCHANGED <<onlineVars, held, named, told, spent, kicks, drain, uses>>

(* kick_previous: a session of this gateway is told at once; a push finds  *)
(* the gateway of another in the directory; a failure is ignored.          *)
KickPrevious(s) ==
    LET here == previous[s] \cap Handles \cap On(GatewayOf[s])
        away == previous[s] \ here
    IN  /\ at[s] = "kicking" /\ Return(s)
        /\ Tell(here)
        /\ \/ /\ kicks' = kicks \cup (away \cap Live) /\ UNCHANGED faults
              /\ IF away = {} THEN UNCHANGED onlineVars ELSE PurgeOnly
           \/ away # {} /\ Fault /\ UNCHANGED <<onlineVars, kicks>>
        /\ UNCHANGED <<named, spent, events, drain, uses, cut>>

(* ROUTE_RECONNECT trades a ticket for a new one; any other route ends     *)
(* with a response or an error.                                            *)
Respond(s) ==
    /\ at[s] = "busy" /\ Return(s)
    /\ \/ ticket[s] # NoTicket /\ Accept(s)
       \/ ticket[s] \in spent \cup {NoTicket} /\ UNCHANGED <<spent, uses>>
    /\ UNCHANGED <<onlineVars, named, told, netVars, faults, cut>>

(* handler_timeout: the handler is dropped where it waits, with or without *)
(* the ticket it asked for.                                                *)
TimeOut(s) ==
    /\ at[s] \in Listening \ {"idle"} /\ Fault /\ Return(s)
    /\ cut' = IF at[s] \in Login \ {"checking"} THEN cut \cup {s} ELSE cut
    /\ \/ at[s] = "admitted" /\ Accept(s)
       \/ UNCHANGED <<spent, uses>>
    /\ UNCHANGED <<onlineVars, named, told, netVars>>

(* The loop is left. *)
Break(s) ==
    /\ Goes(s, "closing") /\ Drops(s)
    /\ guard' = [guard EXCEPT ![s] = 0] /\ told' = told \ {s}

(* The renewal tick: a failure ends the session once the guard has passed. *)
EndsUnguarded(s) == IF guard[s] = 0 THEN Break(s) ELSE UNCHANGED <<at, held, told>>
RenewLease(s) ==
    /\ at[s] = "idle" /\ s \in named
    /\ \/ /\ Renew(s) /\ guard' = [guard EXCEPT ![s] = Ttl - RenewInterval]
          /\ UNCHANGED <<at, ticket, previous, told>>
       \/ s \notin Live /\ PurgeOnly /\ EndsUnguarded(s)
    /\ UNCHANGED <<named, spent, netVars, faults, uses, cut>>
RenewUnreachable(s) ==
    /\ at[s] = "idle" /\ s \in named /\ Fault /\ EndsUnguarded(s)
    /\ UNCHANGED <<onlineVars, named, spent, netVars, uses, cut>>

(* The loop or a handler sees the disconnect watch; the handler is dropped.*)
Disconnect(s) ==
    /\ s \in told /\ Break(s)
    /\ cut' = IF at[s] \in Login \ {"checking"} THEN cut \cup {s} ELSE cut
    /\ UNCHANGED <<onlineVars, named, spent, netVars, faults, uses>>
(* The loop ends by itself: the peer closed, the authentication or idle    *)
(* deadline passed, too many violations, or a full response queue.         *)
LoopEnds(s) ==
    /\ at[s] = "idle" /\ Break(s)
    /\ UNCHANGED <<onlineVars, named, spent, netVars, faults, uses, cut>>

(* Mutant: a closed session stays in the index. *)
CloseIndexed(s) ==
    /\ at[s] = "closing" /\ Goes(s, "closed")
    /\ IF s \in named THEN RemoveOnline(s) ELSE UNCHANGED onlineVars
    /\ kicks' = kicks \ {s}
    /\ UNCHANGED <<held, named, told, spent, events, drain, uses, faults, cut>>
(* After the loop: remove_online within 200 ms, then the session leaves    *)
(* the tables of its gateway and the drain count.  Its id is never used    *)
(* again, so a kick still on its way has nobody to reach.                  *)
Close(s) ==
    /\ at[s] = "closing" /\ Goes(s, "closed")
    /\ \/ /\ IF s \in named THEN RemoveOnline(s) ELSE UNCHANGED onlineVars
          /\ UNCHANGED <<faults, cut>>
       \/ s \in named /\ Fault /\ cut' = cut \cup {s} /\ UNCHANGED onlineVars
    /\ named' = named \ {s} /\ kicks' = kicks \ {s}
    /\ UNCHANGED <<held, told, spent, events, drain, uses>>

(* apply_session_control_local for a Login event: every other session of   *)
(* the user here is told.  With a full push queue the handler stops after  *)
(* that session and fails; an event that failed or was not acknowledged is *)
(* delivered again.                                                        *)
Selected(g, kept) == {s \in named \cap On(g) : s # kept /\ UserOf[s] = UserOf[kept]}
HandleLogin(g, kept) ==
    /\ <<g, kept>> \in events
    /\ \/ Tell(Selected(g, kept)) /\ events' = events \ {<<g, kept>>} /\ UNCHANGED faults
       \/ /\ Fault /\ UNCHANGED events
          /\ \E S \in SUBSET Selected(g, kept) \ {{}} : Tell(S)
    /\ UNCHANGED <<onlineVars, at, held, named, spent, kicks, drain, uses, cut>>

(* deliver_inner for a Disconnect push: only a session in the index is     *)
(* told; until then the push fails and is delivered again.                 *)
DeliverKick(s) ==
    /\ s \in kicks \cap named
    /\ Tell({s}) /\ kicks' = kicks \ {s}
    /\ UNCHANGED <<onlineVars, at, held, named, spent, events, drain, faults, uses, cut>>

(* GatewayServer::drain: the flag, the sessions without an identity, the   *)
(* wait, and at the deadline every session that is registered.             *)
BeginDrain(g) ==
    /\ drain[g] = "open" /\ Fault /\ drain' = [drain EXCEPT ![g] = "begun"]
    /\ UNCHANGED <<onlineVars, at, held, named, told, spent, events, kicks, uses, cut>>
TellAnonymous(g) ==
    /\ drain[g] = "begun" /\ drain' = [drain EXCEPT ![g] = "waiting"]
    /\ Tell((Handles \cap On(g)) \ named)
    /\ UNCHANGED <<onlineVars, at, held, named, spent, events, kicks, faults, uses, cut>>
DrainEnds(g) ==
    /\ drain[g] = "waiting"
    /\ \/ Active(g) = {} /\ drain' = [drain EXCEPT ![g] = "drained"] /\ UNCHANGED told
       \/ /\ Active(g) # {} /\ drain' = [drain EXCEPT ![g] = "expired"]
          /\ Tell(Handles \cap On(g))
    /\ UNCHANGED <<onlineVars, at, held, named, spent, events, kicks, faults, uses, cut>>

TimePasses ==
    /\ Live # {} \/ \E s \in Sessions : guard[s] > 0
    /\ sessions' = [s \in DOMAIN sessions |-> IF sessions[s] = 0 THEN 0 ELSE sessions[s] - 1]
    /\ guard' = [s \in Sessions |-> IF guard[s] = 0 THEN 0 ELSE guard[s] - 1]
    /\ UNCHANGED <<groups, single, capacity, at, ticket, previous, sharedVars>>

SessionNext(s) ==
    \/ Arrive(s) \/ Count(s) \/ LookAgain(s) \/ Register(s) \/ Receive(s)
    \/ Refused(s) \/ Admit(s) \/ Consume(s) \/ Undo(s) \/ Announce(s) \/ KickPrevious(s)
    \/ Respond(s) \/ TimeOut(s) \/ RenewLease(s) \/ RenewUnreachable(s)
    \/ Disconnect(s) \/ LoopEnds(s) \/ Close(s) \/ DeliverKick(s)
GatewayNext ==
    \/ \E s \in Sessions : SessionNext(s)
    \/ \E g \in Gateways, s \in Sessions : HandleLogin(g, s)
    \/ \E g \in Draining : BeginDrain(g) \/ TellAnonymous(g) \/ DrainEnds(g)
    \/ TimePasses

GatewaySpec == GatewayInit /\ [][GatewayNext]_gatewayVars
-----------------------------------------------------------------------------
(* The variables keep their types; only a registered session has an        *)
(* identity, and only one whose task listens is told to go.                *)
GatewayTypeOK ==
    /\ OnlineTypeOK
    /\ at \in [Sessions -> Counted \cup {"new", "arriving", "closed"}]
    /\ named \subseteq Handles /\ \A s \in told : at[s] \in Listening
    /\ ticket \in [Sessions -> Tickets \cup {NoTicket}]
    /\ previous \in [Sessions -> SUBSET Sessions]
    /\ guard \in [Sessions -> 0 .. Ttl - RenewInterval]
    /\ spent \subseteq Tickets /\ kicks \subseteq Sessions /\ events \subseteq Gateways \X Sessions
    /\ drain \in [Gateways -> {"open", "begun", "waiting", "drained", "expired"}]


(* handle and serve: a session without an identity that is not logging in, *)
(* or one that is closed, keeps a lease only if its login or its cleanup   *)
(* was cut short; every refusal gives the seat back.                       *)
NoSeatLeft ==
    \A s \in DOMAIN sessions \ cut : s \in named \/ at[s] \in Login

(* DrainController: when drain returns Ok no session of the gateway is     *)
(* being served, and none will be, although sessions enter concurrently.   *)
DrainedIsEmpty ==
    \A g \in Gateways : drain[g] = "drained" =>
        \A s \in On(g) : at[s] \in {"new", "arriving", "counted", "closed"}

(* handle publishes only after it has indexed its session: of two sessions *)
(* of one user one is always on its way out, told by an event that is      *)
(* still to be handled if need be, unless one of the logins was cut short. *)
Leaving(s) == s \in told \/ at[s] = "closing"
DuplicateIsLeaving ==
    \A s, t \in named \ cut :
        s # t /\ UserOf[s] = UserOf[t] =>
            \/ Leaving(s) \/ Leaving(t)
            \/ at[s] = "announcing" \/ at[t] = "announcing"
            \/ <<GatewayOf[s], t>> \in events \/ <<GatewayOf[t], s>> \in events
=============================================================================
