\* One worker process, with the liveness its polling loop gives.
SPECIFICATION FairSpec
CONSTANTS
    alice = alice
    bob = bob
    NoOwner = NoOwner
    Workers = {alice}
    OwnerOf <- DistinctOwner
    MaxRevision = 2
    MaxAttempts = 2
INVARIANTS NoStrandedWork FailureNoticeTruthful Provenance
PROPERTY ImplementsLifecycle
\* A feature that failed or was handed over has nothing left to do.
CHECK_DEADLOCK FALSE
