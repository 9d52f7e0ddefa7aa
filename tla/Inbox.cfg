\* Five deliveries in any order, any number of times each, one worker process.
SPECIFICATION InboxSpec
CONSTANTS
    alice = alice
    d1 = d1
    d2 = d2
    d3 = d3
    d4 = d4
    d5 = d5
    NoOwner = NoOwner
    Nobody = Nobody
    Workers = {alice}
    OwnerOf <- MCOwner
    MaxRevision = 2
    MaxAttempts = 2
    Delivery = {d1, d2, d3, d4, d5}
    Requests <- MCRequests
INVARIANTS EffectsMatchEvents RefusalsAreTold
SYMMETRY AnyDelivery
CONSTRAINT UpToSpec
\* When every delivery has been answered and no job is left nothing happens.
CHECK_DEADLOCK FALSE
