--------------------------- MODULE FeatureLifecycle ---------------------------
(***************************************************************************)
(* What the artifact workflow promises about one feature, without jobs,    *)
(* workers, leases, files or messages: a feature walks through the three   *)
(* artifact stages, a person decides at every gate, and each piece of work *)
(* ends in exactly one outcome, a reviewable revision or a failure.        *)
(* ArtifactReview implements this specification.                           *)
(***************************************************************************)
EXTENDS Naturals

CONSTANT MaxRevision  \* bound: revisions of one artifact


\* The stage an approval opens (next_stage of the artifact definitions).
NextStage == [INTENT |-> "SPEC", SPEC |-> "PLAN", PLAN |-> "IMPLEMENTATION"]

VARIABLES
    stage,     \* the stage the feature is in; "ABSENT" before it is ingested
    gate,      \* what the stage waits for: "NONE" before the feature exists,
               \* "WORKING", "REVIEW", "CHANGES_REQUESTED", "FAILED", or
               \* "HANDED_OFF" once implementation has taken over
    revision   \* number of the revision the stage works on; 0 outside them

vars == <<stage, gate, revision>>

Init == stage = "ABSENT" /\ gate = "NONE" /\ revision = 0

\* A work item of the task manager becomes a feature: its intent is being written.
Start ==
    /\ stage = "ABSENT"
    /\ stage' = "INTENT"
    /\ gate' = "WORKING"
    /\ revision' = 1

\* The work in progress is put before the reviewer.
Publish ==
    /\ gate = "WORKING"
    /\ gate' = "REVIEW"
    /\ UNCHANGED <<stage, revision>>

\* The work in progress is given up; the feature stays there.
Fail ==
    /\ gate = "WORKING"
    /\ gate' = "FAILED"
    /\ UNCHANGED <<stage, revision>>

\* The reviewer lets the feature into its next stage.
Approve ==
    /\ gate = "REVIEW"
    /\ stage' = NextStage[stage]
    /\ IF stage = "PLAN"
       THEN gate' = "HANDED_OFF" /\ revision' = 0
       ELSE gate' = "WORKING" /\ revision' = 1

\* The reviewer asks for another revision.
RequestChanges ==
    /\ gate = "REVIEW"
    /\ gate' = "CHANGES_REQUESTED"
    /\ UNCHANGED <<stage, revision>>

\* The changes are given to the agent ...
Address ==
    /\ gate = "CHANGES_REQUESTED"
    /\ revision < MaxRevision
    /\ gate' = "WORKING"
    /\ revision' = revision + 1
    /\ UNCHANGED stage

\* ... or made by a person, and reviewed at once.
Edit ==
    /\ gate = "CHANGES_REQUESTED"
    /\ revision < MaxRevision
    /\ gate' = "REVIEW"
    /\ revision' = revision + 1
    /\ UNCHANGED stage

Next == Start \/ Publish \/ Fail \/ Approve \/ RequestChanges \/ Address \/ Edit

SafeSpec == Init /\ [][Next]_vars

\* People may take for ever; the machine's own work ends.
Spec == SafeSpec /\ WF_vars(Publish \/ Fail)
===============================================================================
