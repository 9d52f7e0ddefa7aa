\* Four deliveries in any order, any number of times each, one worker process.
SPECIFICATION InboxSpec
CONSTANTS
    alice = alice
    d1 = d1
    d2 = d2
    d3 = d3
    d4 = d4
    NoOwner = NoOwner
    Nobody = Nobody
    Workers = {alice}
    CleanupOnDone = FALSE
    AutoPush = TRUE
    MaxRevision = 2
    MaxAttempts = 2
    MaxEdits = 1
    MaxUpstream = 0
    MaxStray = 0
    Delivery = {d1, d2, d3, d4}
    Requests <- MCRequests
INVARIANTS EffectsMatchEvents OneRecoveryPerFailure
SYMMETRY AnyDelivery
CONSTRAINT FewTroubles
\* When every delivery has been answered and no job is left nothing happens.
CHECK_DEADLOCK FALSE
