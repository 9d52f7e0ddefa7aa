------------------------------- MODULE MCInbox -------------------------------
(* Inbox on a small instance: requests about the first artifact, and one    *)
(* about an artifact that does not exist yet.                               *)
EXTENDS Inbox, TLC

CONSTANTS alice, d1, d2, d3, d4, d5

MCOwner == [w \in Workers |-> w]

Ask(a, n) == [action |-> a, rev |-> <<"INTENT", n>>, via |-> "COMMENT",
              allowed |-> TRUE, usable |-> TRUE]

MCRequests ==
    {Ask("FEATURE", 1), Ask("CHAT", 1), Ask("APPROVE", 1), Ask("APPROVE", 2),
     Ask("REQUEST_CHANGES", 1), Ask("ADDRESS", 1),
     [Ask("MANUAL", 1) EXCEPT !.via = "SURFACE"],
     [Ask("REQUEST_CHANGES", 1) EXCEPT !.usable = FALSE],
     [Ask("APPROVE", 2) EXCEPT !.via = "SURFACE"],
     [Ask("APPROVE", 1) EXCEPT !.allowed = FALSE],
     [Ask("APPROVE", 1) EXCEPT !.rev = <<"SPEC", 1>>]}

\* Delivery ids are only compared.
AnyDelivery == Permutations(Delivery)

\* Nothing is explored beyond the first state of the second stage.
UpToSpec == stage \in {"ABSENT", "INTENT", "SPEC"} /\ job[<<"SPEC", 1>>].attempts = 0
===============================================================================
