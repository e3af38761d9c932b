------------------------- MODULE MCOutboxDispatcher -------------------------
(* Bounded instances of OutboxDispatcher for TLC.  The processes share one *)
(* worker id, the default of DispatcherConfig.                             *)
EXTENDS OutboxDispatcher, TLC

CONSTANTS p1, p2, t1, t2, t3

SharedWorker == [p \in Procs |-> "outbox-worker"]
TokenSymmetry == Permutations({t1, t2, t3})
ProcSymmetry == TokenSymmetry \cup Permutations({p1, p2})
=============================================================================
