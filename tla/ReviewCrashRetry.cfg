\* One process that dies after the directory was finalised.
SPECIFICATION Spec
CONSTANTS
    alice = alice
    bob = bob
    NoOwner = NoOwner
    Workers = {alice}
    OwnerOf <- DistinctOwner
    MaxRevision = 1
    MaxAttempts = 2
PROPERTY RetryAfterCrashContinues
\* A feature that failed or was handed over has nothing left to do.
CHECK_DEADLOCK FALSE
