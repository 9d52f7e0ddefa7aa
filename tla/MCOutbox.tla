------------------------------- MODULE MCOutbox -------------------------------
(* Outbox on small instances.                                              *)
EXTENDS Outbox

CONSTANTS alice, bob  \* worker processes

\* Three of the stages; INTENT stands for one without a Plane state.
SomeStages == {"INTENT", "IMPLEMENTATION", "VERIFICATION"}
SomeBound == {"IMPLEMENTATION", "VERIFICATION"}
===============================================================================
