\* Two processes: the failure of an attempt that lost its lease.
SPECIFICATION Spec
CONSTANTS
    alice = alice
    bob = bob
    NoOwner = NoOwner
    Workers = {alice, bob}
    OwnerOf <- DistinctOwner
    MaxRevision = 1
    MaxAttempts = 2
PROPERTY FeatureWritesAreChecked
\* A feature that failed or was handed over has nothing left to do.
CHECK_DEADLOCK FALSE
