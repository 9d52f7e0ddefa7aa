\* Two workers that may die, whose leases run out, and an outage that ends.
SPECIFICATION FairSpec
CONSTANTS
    alice = alice
    bob = bob
    Workers = {alice, bob}
    Stages <- SomeStages
    Bound <- SomeBound
    MaxMessages = 2
    MaxCrashes = 2
    Refused = {}
INVARIANTS RepeatedInDoubt SentWasDelivered PlaneFollowsTheLiving
PROPERTIES SentIsFinal EverySent
\* When everything is sent there is nothing left to do.
CHECK_DEADLOCK FALSE
