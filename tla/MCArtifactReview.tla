--------------------------- MODULE MCArtifactReview ---------------------------
(* ArtifactReview on small instances.                                      *)
EXTENDS ArtifactReview

CONSTANTS alice, bob  \* worker ids

\* Every process has a worker id of its own (the default of enzo-worker).
DistinctOwner == [w \in Workers |-> w]

\* Nothing is explored beyond the first state of the second stage.
UpToSpec == stage \in {"ABSENT", "INTENT", "SPEC"} /\ job[<<"SPEC", 1>>].attempts = 0
===============================================================================
