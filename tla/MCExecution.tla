----------------------------- MODULE MCExecution -----------------------------
(* Execution on small instances.                                           *)
EXTENDS Execution, TLC

CONSTANTS alice, bob  \* worker ids

\* The two workers run the same program.
Symmetry == Permutations({alice, bob})

\* At most two troubles in one behaviour: a job that is claimed more than once,
\* a default branch that moves, an overtaken artifact attempt that fails, a write
\* by somebody without the job, a change of the worktree after the first.
Repeated == {j \in Job : job[j].attempts > 1}
FewTroubles ==
    Cardinality(Repeated) + upstream + stray + Cardinality(intruded) + Cardinality(2..edits) <= 2

\* What the next steps depend on: no guard reads the other histories.
NoHistory == <<database, claim, git, stray>>
===============================================================================
