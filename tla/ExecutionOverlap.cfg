\* Two workers whose leases may run out under them, a default branch that moves,
\* and an overtaken artifact attempt that fails late.
SPECIFICATION Spec
CONSTANTS
    alice = alice
    bob = bob
    NoOwner = NoOwner
    Workers = {alice, bob}
    CleanupOnDone = FALSE
    AutoPush = TRUE
    MaxRevision = 2
    MaxAttempts = 2
    MaxEdits = 2
    MaxUpstream = 1
    MaxStray = 1
INVARIANTS OneOperation StageMatchesRevision RevisionHistory WorktreeKept NoticesTruthful NeverStranded ReviewedWasChecked
PROPERTIES HistoryIsFinal FollowsLifecycle
SYMMETRY Symmetry
CONSTRAINT FewTroubles
\* An execution that is closed or cleaned up has nothing left to do.
CHECK_DEADLOCK FALSE
