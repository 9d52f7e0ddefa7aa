-------------------------- MODULE ExecutionLifecycle --------------------------
(***************************************************************************)
(* What the execution of an approved plan promises, without jobs, workers, *)
(* leases, worktrees or commits: the workspace is prepared once, each      *)
(* revision of the implementation is built and then reviewed or failed, a  *)
(* person decides at every gate and after every failure, and the execution *)
(* ends in DONE or abandoned, for good. Execution implements it.           *)
(***************************************************************************)
EXTENDS Naturals

CONSTANT MaxRevision  \* bound: implementation revisions

VARIABLES
    gate,      \* "PREPARING", "WORKING", "FAILED", "REVIEW", "CHANGES_REQUESTED",
               \* "APPROVED", "DONE" or "ABANDONED"
    revision   \* the revision at the gate; 0 until the workspace is prepared

vars == <<gate, revision>>

Init == gate = "PREPARING" /\ revision = 0

\* The workspace is ready and the first revision is begun.
Open ==
    /\ gate = "PREPARING"
    /\ gate' = "WORKING"
    /\ revision' = 1

\* A revision passed its checks and was pushed.
Publish == gate = "WORKING" /\ gate' = "REVIEW" /\ UNCHANGED revision

\* The workspace or the revision failed.
Fail == gate \in {"PREPARING", "WORKING"} /\ gate' = "FAILED" /\ UNCHANGED revision

\* A person has the same operation tried again ...
Retry ==
    /\ gate = "FAILED"
    /\ gate' = IF revision = 0 THEN "PREPARING" ELSE "WORKING"
    /\ UNCHANGED revision

\* ... or gives the execution up.
Abandon == gate = "FAILED" /\ gate' = "ABANDONED" /\ UNCHANGED revision

Approve == gate = "REVIEW" /\ gate' = "APPROVED" /\ UNCHANGED revision

RequestChanges == gate = "REVIEW" /\ gate' = "CHANGES_REQUESTED" /\ UNCHANGED revision

\* The next revision is begun from the one that was sent back.
Address ==
    /\ gate = "CHANGES_REQUESTED"
    /\ revision < MaxRevision
    /\ gate' = "WORKING"
    /\ revision' = revision + 1

\* The feature is closed with what was approved.
Finish == gate = "APPROVED" /\ gate' = "DONE" /\ UNCHANGED revision

Next ==
    \/ Open \/ Publish \/ Fail \/ Retry \/ Abandon
    \/ Approve \/ RequestChanges \/ Address \/ Finish

SafeSpec == Init /\ [][Next]_vars

\* People may take for ever; preparing and building end.
Spec == SafeSpec /\ WF_vars(Open \/ Publish \/ Fail)
===============================================================================
