--------------------------- MODULE OnlineContract ---------------------------
(***************************************************************************)
(* What an OnlineDirectory promises (the traits and policies at the top of *)
(* crates/elura-gateway/src/presence.rs): sessions are admitted under the  *)
(* duplicate-login and capacity policy in one step, leases end by being    *)
(* given up or by expiring, and nothing else changes who is online.        *)
(***************************************************************************)
EXTENDS Naturals, FiniteSets

CONSTANTS Sessions, Users, Realms,
          UserOf,       \* session -> user
          RealmOf,      \* user -> (region, realm)
          Mode,         \* policy.duplicate_login
          MaxSessions   \* policy.max_sessions; 0 leaves the realm unbounded

VARIABLES live,   \* sessions with an unexpired lease
          seated  \* the live sessions that count towards their realm's capacity

contractVars == <<live, seated>>

Rivals(s) == {t \in Sessions \ {s} : UserOf[t] = UserOf[s]}
InRealm(S, r) == {s \in S : RealmOf[UserOf[s]] = r}
Fits(S) == MaxSessions = 0 \/ \A r \in Realms : Cardinality(InRealm(S, r)) <= MaxSessions

ContractInit == live = {} /\ seated = {}

(* acquire, accepted: no rival if duplicates are refused; a kicked rival   *)
(* hands its seat over and stays live until its gateway lets go of it.     *)
Admitted(s) ==
    /\ Mode = "RejectNew" => live \cap Rivals(s) = {}
    /\ live' = live \cup {s}
    /\ seated' = (IF Mode = "KickExisting" THEN seated \ Rivals(s) ELSE seated) \cup {s}
    /\ Fits(seated')

(* unregister, or the end of leases that were not renewed. *)
Ended(S) ==
    /\ live' = live \ S
    /\ seated' = seated \ S

ContractNext == (\E s \in Sessions : Admitted(s)) \/ (\E S \in SUBSET live : Ended(S))
ContractSpec == ContractInit /\ [][ContractNext]_contractVars
-----------------------------------------------------------------------------
(* OnlineAdmissionPolicy: seats belong to live sessions and no realm has   *)
(* more of them than max_sessions.                                         *)
WithinCapacity == seated \subseteq live /\ Fits(seated)

(* DuplicateLoginMode: with RejectNew a user has at most one live session, *)
(* with KickExisting at most one that keeps its seat.                      *)
OnePerUser ==
    /\ Mode = "RejectNew" => \A s \in live : live \cap Rivals(s) = {}
    /\ Mode = "KickExisting" => \A s \in seated : seated \cap Rivals(s) = {}
=============================================================================
