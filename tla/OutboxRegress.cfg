\* One worker that may die once.
SPECIFICATION Spec
CONSTANTS
    alice = alice
    bob = bob
    Workers = {alice}
    Stages <- SomeStages
    Bound <- SomeBound
    MaxMessages = 2
    MaxCrashes = 1
    Refused = {}
INVARIANTS PlaneFollows
\* When everything is sent there is nothing left to do.
CHECK_DEADLOCK FALSE
