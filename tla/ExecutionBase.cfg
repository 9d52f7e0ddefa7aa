\* One worker, and a default branch that moves.
SPECIFICATION Spec
CONSTANTS
    alice = alice
    bob = bob
    NoOwner = NoOwner
    Workers = {alice}
    CleanupOnDone = TRUE
    AutoPush = TRUE
    MaxRevision = 1
    MaxAttempts = 2
    MaxEdits = 0
    MaxUpstream = 1
    MaxStray = 0
INVARIANTS BaseIsForkPoint
\* An execution that is closed or cleaned up has nothing left to do.
CHECK_DEADLOCK FALSE
