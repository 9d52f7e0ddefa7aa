----------------------------- MODULE MCWorkerProcess -----------------------------
(* WorkerProcess on a small instance, and the reference for plans: the      *)
(* transitive closure of the dependencies.                                  *)
EXTENDS WorkerProcess, Relation

CONSTANTS worker, web
CONSTANTS a, b, c  \* task keys

\* Two migrations: one of tables, which cannot be repeated, and one of columns.
MCDatabases ==
    {[schema |-> s, ledger |-> l, dangling |-> d] :
        s \in {{}, {1}, {1, 2}}, l \in {{}, {1}, {1, 2}}, d \in BOOLEAN}
    \cap {d \in DatabaseFile : Findable(d)}

T(k, deps) == [key |-> k, dependsOn |-> deps, formed |-> TRUE]

\* Every way in which three tasks can depend on each other, and what is
\* malformed.
Others == [{a, b, c} -> {<<>>, <<a>>, <<b>>, <<c>>, <<a, b>>, <<b, c>>, <<c, a>>}]
Graphs3 == {<<T(a, f[a]), T(b, f[b]), T(c, f[c])>> :
                f \in {g \in Others : \A k \in {a, b, c} : k \notin Elements(g[k])}}
MCPlans ==
    Graphs3 \cup
    {<<>>, <<T(a, <<>>), T(a, <<>>)>>, <<T(a, <<a>>)>>, <<T(a, <<b>>)>>,
     <<T(a, <<>>), T(b, <<a, a>>)>>, <<[T(a, <<>>) EXCEPT !.formed = FALSE]>>,
     <<T(a, <<>>), T(b, <<>>), T(c, <<>>), T(a, <<>>)>>}

\* A plan has a knot if and only if a task precedes itself.
ASSUME KnotsAreCycles ==
    \A p \in Graphs3 :
        LET before == TransitiveClosure(
                [x, y \in Keys(p) |-> y \in Dependencies(p, x)], Keys(p)) IN
        (\E S \in SUBSET TaskKeys : Knot(p, S)) <=> \E k \in Keys(p) : before[k, k]
===============================================================================
