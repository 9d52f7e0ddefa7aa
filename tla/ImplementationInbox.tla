-------------------------- MODULE ImplementationInbox --------------------------
(***************************************************************************)
(* The way into the execution: comments and requests of the review surface *)
(* about an implementation revision, and requests to retry or abandon a    *)
(* failed execution. They are recorded in inbox_events under the id of     *)
(* their delivery, and come late, out of order, repeatedly and from        *)
(* several people, who may each have seen another state. A decision names  *)
(* a revision; a recovery names the execution only. Recording the event,   *)
(* deciding what becomes of it and its effect are one transaction. Of a    *)
(* refusal nobody is told.                                                 *)
(*                                                                         *)
(* The workflow itself is Execution, whose actions are the effects.        *)
(***************************************************************************)
EXTENDS Execution

CONSTANTS
    Delivery,  \* comment ids and request ids
    Nobody,    \* a NULL source_event_id
    Requests   \* what people may send

Decision == {"APPROVE", "REQUEST_CHANGES"}
Recovery == {"RETRY", "ABANDON"}

\* revision: what a decision names, the first for a recovery. allowed: the
\* actor is a reviewer. usable: there is feedback.
Request == [action: Decision \cup Recovery \cup {"ADDRESS"},
            revision: Revision,
            via: {"COMMENT", "SURFACE"},
            allowed: BOOLEAN,
            usable: BOOLEAN]

ASSUME RequestsAssumption ==
    Requests \subseteq {q \in Request : q.action \in Recovery => q.via = "SURFACE"}
ASSUME NobodyAssumption == Nobody \notin Delivery

NoRequest == [action |-> "NONE", revision |-> 1, via |-> "COMMENT",
              allowed |-> FALSE, usable |-> FALSE]
NoEvent == [request |-> NoRequest, outcome |-> "NONE"]
Event == [request: Requests \cup {NoRequest}, outcome: {"NONE", "APPLIED", "REJECTED", "STALE"}]

VARIABLES
    inbox,    \* inbox_events: payload and outcome by delivery
    decider   \* source_event_id of the review of each revision

inboxVars == <<vars, inbox, decider>>

InboxTypeOK ==
    /\ inbox \in [Delivery -> Event]
    /\ decider \in [Revision -> Delivery \cup {Nobody}]

InboxInit ==
    /\ Init
    /\ inbox = [d \in Delivery |-> NoEvent]
    /\ decider = [r \in Revision |-> Nobody]

-------------------------------------------------------------------------------
\* Mutant: the inbox is not consulted.
NeverRecorded(d) == FALSE

\* The delivery has been answered before.
Recorded(d) == inbox[d].outcome # "NONE"

\* There is no execution, or none with a revision, or no revision of that id.
Unknown(q) ==
    IF q.action \in Recovery
    THEN exec.status = "NONE"
    ELSE \/ exec.current = 0
         \/ q.via = "SURFACE" /\ rev[q.revision].status = "NONE"

\* An operation has failed and may be tried again.
Recoverable == \E j \in Job : job[j].status = "FAILED" /\ RetryAllowed(j)

\* The revision was sent back, and its execution is at rest.
Addressable(r) ==
    /\ stage = "IMPLEMENTATION"
    /\ rev[r].status = "CHANGES_REQUESTED"
    /\ exec.status = "SUCCEEDED"

\* What is asked for is not, or no longer, to be had.
TooLate(q) ==
    CASE q.action = "RETRY" -> ~Recoverable
      [] q.action = "ABANDON" -> exec.status # "FAILED"
      [] q.action \in Decision -> exec.current # q.revision \/ ~Reviewable(q.revision)
      [] q.action = "ADDRESS" -> exec.current # q.revision \/ ~Addressable(q.revision)

\* A request is refused for what it lacks after its revision is found to be the
\* current one, and before the state of that is looked at.
Lacking(q) ==
    /\ q.action = "REQUEST_CHANGES" /\ ~q.usable
    /\ exec.current = q.revision

OutcomeOf(q) ==
    IF ~q.allowed \/ Unknown(q) \/ Lacking(q) THEN "REJECTED"
    ELSE IF TooLate(q) THEN "STALE"
    ELSE "APPLIED"

\* What is done for a request that is applied.
Effect(q) ==
    \/ q.action = "APPROVE" /\ Approve(q.revision)
    \/ q.action = "REQUEST_CHANGES" /\ RequestChanges(q.revision)
    \/ q.action = "ADDRESS" /\ AddressWithAgent(q.revision)
    \/ q.action = "RETRY" /\ \E j \in Job : Retry(j)
    \/ q.action = "ABANDON" /\ Abandon

\* The first transaction of a delivery that commits; a repetition is answered
\* without doing anything. What would exceed a bound is not explored.
Receive(d, q) ==
    /\ ~Recorded(d)
    /\ inbox' = [inbox EXCEPT ![d] = [request |-> q, outcome |-> OutcomeOf(q)]]
    /\ IF OutcomeOf(q) = "APPLIED" THEN Effect(q) ELSE UNCHANGED vars
    /\ decider' = IF OutcomeOf(q) = "APPLIED" /\ q.action \in Decision
                  THEN [decider EXCEPT ![q.revision] = d]
                  ELSE decider

\* Meanwhile the world and the workers go on.
Machine ==
    /\ \/ UpstreamMoves \/ ArtifactAttemptFails \/ LeftoverWrites
       \/ \E j \in Job : LeaseExpires(j)
       \/ \E w \in Workers : \/ \E j \in Job : Claim(w, j)
                             \/ Proceed(w) \/ AgentEdits(w) \/ Crash(w)
    /\ UNCHANGED <<inbox, decider>>

InboxNext ==
    \/ \E d \in Delivery, q \in Requests : Receive(d, q)
    \/ Machine

InboxSpec == InboxInit /\ [][InboxNext]_inboxVars

-------------------------------------------------------------------------------
(* Safety.                                                                 *)

Applied(actions) == {d \in Delivery : /\ inbox[d].outcome = "APPLIED"
                                      /\ inbox[d].request.action \in actions}

\* Each review was decided by one event, which asked for this decision by the
\* name of this very revision.
OneDecider ==
    /\ \A d \in Applied(Decision) : decider[inbox[d].request.revision] = d
    /\ \A r \in Revision :
           LET d == decider[r] IN
           /\ d # Nobody => d \in Applied(Decision) /\ inbox[d].request.revision = r
           /\ rev[r].review \in {"APPROVED", "CHANGES_REQUESTED"} <=> d # Nobody
           /\ rev[r].review = "APPROVED" => inbox[d].request.action = "APPROVE"
           /\ rev[r].review = "CHANGES_REQUESTED" =>
                  inbox[d].request.action = "REQUEST_CHANGES"

\* Each further revision was asked for by one event, by the name of its parent.
OneAuthor ==
    /\ \A r \in Revision :
           r < exec.current <=> \E d \in Applied({"ADDRESS"}) : inbox[d].request.revision = r
    /\ \A d, e \in Applied({"ADDRESS"}) :
           inbox[d].request.revision = inbox[e].request.revision => d = e

\* The execution was abandoned by one event.
OneEnd ==
    /\ exec.status = "CANCELLED" <=> Applied({"ABANDON"}) # {}
    /\ \A d, e \in Applied({"ABANDON"}) : d = e

\* The events recorded as applied are exactly those behind the rows: nothing
\* that is asked for once is done twice or done to another revision, and of
\* competing requests one wins.
EffectsMatchEvents == OneDecider /\ OneAuthor /\ OneEnd

Notices(kind) == {n \in outbox : n[1] = kind}

\* A failure is answered once: of the people who saw it fail, one retries it or
\* one abandons it, although none of their requests says which failure is meant.
OneRecoveryPerFailure ==
    /\ Cardinality(Applied({"RETRY"})) = Cardinality(Notices("RETRY_QUEUED"))
    /\ Cardinality(Applied(Recovery)) <= Cardinality(Notices("FAILED"))
===============================================================================
