CONSTANTS
    p1 = p1
    p2 = p2
    t1 = t1
    t2 = t2
    t3 = t3
    None = None
    Events = {1}
    Contents = {"c"}
    Workers = {"outbox-worker"}
    Tokens = {t1, t2, t3}
    MaxBatch = 2
    Lease = 2
    MaxDelay = 1
    AttemptCap = 3
    Procs = {p1, p2}
    WorkerOf <- SharedWorker
    MaxAttempts = 2
    InitialBackoff = 1
    Idempotent = TRUE
    LongReasons = FALSE
    MaxFaults = 1
SPECIFICATION FairSpec
INVARIANTS
    DispatcherTypeOK
    StoredOnce
    HonouredDeliveryIsCurrent
    CompletedWasHandled
    DeadOnlyAfterMaxAttempts
PROPERTIES
    ImplementsContract
    EventuallySettled
