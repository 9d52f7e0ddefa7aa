\* Two worker processes with ids of their own, the first artifact.
SPECIFICATION Spec
CONSTANTS
    alice = alice
    bob = bob
    NoOwner = NoOwner
    Workers = {alice, bob}
    OwnerOf <- DistinctOwner
    MaxRevision = 2
    MaxAttempts = 3
INVARIANTS ClaimsConsistent RevisionHistory PublishedContent OneWinner ApprovalChain
PROPERTIES ImmutableRevisions ClosedByHolder FollowsLifecycle
CONSTRAINT UpToSpec
\* A feature that failed or was handed over has nothing left to do.
CHECK_DEADLOCK FALSE
