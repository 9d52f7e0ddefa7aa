\* One worker that may die, which gets its turns.
SPECIFICATION FairSpec
CONSTANTS
    alice = alice
    bob = bob
    NoOwner = NoOwner
    Workers = {alice}
    CleanupOnDone = TRUE
    AutoPush = TRUE
    MaxRevision = 2
    MaxAttempts = 2
    MaxEdits = 1
    MaxUpstream = 0
    MaxStray = 0
INVARIANTS RemoteIsReviewed CleanedUp
PROPERTIES DecisionsEnd ImplementsLifecycle
\* Neither they nor any step read the histories of what was verified or intruded.
VIEW NoHistory
\* An execution that is closed or cleaned up has nothing left to do.
CHECK_DEADLOCK FALSE
