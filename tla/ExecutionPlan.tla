----------------------------- MODULE ExecutionPlan -----------------------------
(***************************************************************************)
(* The execution plan that comes with the document of a plan: tasks with   *)
(* keys that depend on each other. normalize_execution_plan accepts a plan *)
(* whose tasks can be carried out in some order, and refuses any other. It *)
(* takes the tasks away round by round, each time those that wait for none *)
(* of the rest; a round is one step here.                                  *)
(***************************************************************************)
EXTENDS Naturals, Sequences, FiniteSets

CONSTANTS
    TaskKeys,  \* what a task may be called, or may name as a dependency
    MaxTasks,  \* the most tasks a plan may have
    Plans      \* what an agent or a person may propose

\* formed: a title, a description, verification_refs and a key of the right form.
Task == [key: TaskKeys, dependsOn: Seq(TaskKeys), formed: BOOLEAN]

ASSUME PlansAssumption == Plans \subseteq Seq(Task)
ASSUME MaxTasksAssumption == MaxTasks \in Nat

VARIABLES
    plan,       \* the plan under examination
    remaining,  \* keys of the tasks that have not been taken away
    verdict     \* what has become of it

planVars == <<plan, remaining, verdict>>

PlanTypeOK ==
    /\ plan \in Seq(Task)
    /\ remaining \subseteq TaskKeys
    /\ verdict \in {"none", "checking", "accepted", "refused"}

PlanInit == plan = <<>> /\ remaining = {} /\ verdict = "none"

-------------------------------------------------------------------------------
Elements(s) == {s[i] : i \in DOMAIN s}
Keys(p) == {p[i].key : i \in DOMAIN p}

\* What the tasks called k wait for.
Dependencies(p, k) ==
    {d \in TaskKeys : \E i \in DOMAIN p : p[i].key = k /\ d \in Elements(p[i].dependsOn)}

Distinct(s) == \A i, j \in DOMAIN s : s[i] = s[j] => i = j

\* Each task by itself, and the names it uses.
WellFormed(p) ==
    /\ Len(p) \in 1..MaxTasks
    /\ Distinct([i \in DOMAIN p |-> p[i].key])
    /\ \A i \in DOMAIN p :
           /\ p[i].formed
           /\ Distinct(p[i].dependsOn)
           /\ p[i].key \notin Elements(p[i].dependsOn)
           /\ Elements(p[i].dependsOn) \subseteq Keys(p)

\* Mutant: one dependency that is done is enough.
ReadyIfSomeDone(p, left) ==
    {k \in left : Dependencies(p, k) = {} \/ ~(Dependencies(p, k) \subseteq left)}

\* The tasks that wait for none of the rest.
ReadyTasks(p, left) == {k \in left : Dependencies(p, k) \cap left = {}}

Propose(p) ==
    /\ verdict # "checking"
    /\ plan' = p
    /\ IF WellFormed(p)
       THEN verdict' = "checking" /\ remaining' = Keys(p)
       ELSE verdict' = "refused" /\ remaining' = {}

TakeAway ==
    /\ verdict = "checking"
    /\ ReadyTasks(plan, remaining) # {}
    /\ remaining' = remaining \ ReadyTasks(plan, remaining)
    /\ UNCHANGED <<plan, verdict>>

RefuseCycle ==
    /\ verdict = "checking"
    /\ remaining # {} /\ ReadyTasks(plan, remaining) = {}
    /\ verdict' = "refused"
    /\ UNCHANGED <<plan, remaining>>

AcceptPlan ==
    /\ verdict = "checking"
    /\ remaining = {}
    /\ verdict' = "accepted"
    /\ UNCHANGED <<plan, remaining>>

Examine == TakeAway \/ RefuseCycle \/ AcceptPlan

PlanNext == Examine \/ \E p \in Plans : Propose(p)

PlanSpec == PlanInit /\ [][PlanNext]_planVars

-------------------------------------------------------------------------------
\* Tasks of which none can be the first: each waits for another of them.
Knot(p, S) ==
    /\ S # {}
    /\ S \subseteq Keys(p)
    /\ \A k \in S : Dependencies(p, k) \cap S # {}

\* An accepted plan can be carried out: whatever tasks of it are left, one of
\* them waits for none of the others. A refused one is malformed or cannot.
VerdictIsRight ==
    /\ verdict = "accepted" => WellFormed(plan) /\ \A S \in SUBSET TaskKeys : ~Knot(plan, S)
    /\ verdict = "refused" => ~WellFormed(plan) \/ \E S \in SUBSET TaskKeys : Knot(plan, S)
===============================================================================
