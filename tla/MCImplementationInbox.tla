-------------------------- MODULE MCImplementationInbox --------------------------
(* ImplementationInbox on a small instance.                                 *)
EXTENDS ImplementationInbox, TLC

CONSTANTS alice, d1, d2, d3, d4

Ask(a, r) == [action |-> a, revision |-> r, via |-> "SURFACE", allowed |-> TRUE, usable |-> TRUE]

MCRequests ==
    {[Ask("APPROVE", 1) EXCEPT !.via = "COMMENT"], Ask("APPROVE", 2),
     Ask("REQUEST_CHANGES", 1), Ask("ADDRESS", 1), Ask("RETRY", 1), Ask("ABANDON", 1),
     [Ask("REQUEST_CHANGES", 1) EXCEPT !.usable = FALSE],
     [Ask("RETRY", 1) EXCEPT !.allowed = FALSE]}

\* Delivery ids are only compared.
AnyDelivery == Permutations(Delivery)

\* At most one job is claimed more than once in one behaviour, and at most one
\* delivery is refused whatever the state and one because of the state.
Repeated == {j \in Job : job[j].attempts > 1}
Refused == {d \in Delivery : inbox[d].outcome = "REJECTED"}
Overtaken == {d \in Delivery : inbox[d].outcome = "STALE"}
FewTroubles == {Cardinality(Repeated), Cardinality(Refused), Cardinality(Overtaken)} \subseteq 0..1
===============================================================================
