-------------------------------- MODULE Inbox --------------------------------
(***************************************************************************)
(* The way into the artifact workflow: webhooks of the task manager and    *)
(* requests of the review surface, recorded in inbox_events under the id   *)
(* of their delivery. Deliveries come late, out of order, repeatedly and   *)
(* from several people; a request may name any revision, whether its       *)
(* author saw the present state or not. Recording the event, deciding what *)
(* becomes of it, its effect and its notice are one transaction.           *)
(*                                                                         *)
(* The workflow itself is ArtifactReview, whose actions are the effects.   *)
(***************************************************************************)
EXTENDS ArtifactReview

CONSTANTS
    Delivery,  \* delivery ids, comment ids and request ids
    Nobody,    \* a NULL source_event_id
    Requests   \* what people and the task manager may send

Decision == {"APPROVE", "REQUEST_CHANGES"}
Command == Decision \cup {"ADDRESS"}
Writing == {"ADDRESS", "MANUAL"}

\* A webhook about the work item, a comment without a command, a command of a
\* comment or of the review surface, or a manual edit. allowed: the actor is
\* a reviewer; usable: feedback is given, not blank and its selections match,
\* or the edit is a valid document.
\* Edits come from the review surface.
Request == {q \in [action: Command \cup {"FEATURE", "CHAT", "MANUAL"},
                   rev: Revision,
                   via: {"COMMENT", "SURFACE"},
                   allowed: BOOLEAN,
                   usable: BOOLEAN] : q.action = "MANUAL" => q.via = "SURFACE"}

ASSUME RequestsAssumption == Requests \subseteq Request
ASSUME NobodyAssumption == Nobody \notin Delivery

\* The payload of a delivery that has not come yet.
NoRequest == [action |-> "NONE", rev |-> <<"INTENT", 1>>, via |-> "COMMENT",
              allowed |-> FALSE, usable |-> FALSE]
Outcome == {"NONE", "APPLIED", "IGNORED", "DUPLICATE", "REJECTED", "STALE"}

VARIABLES
    inbox,    \* inbox_events: payload and outcome by delivery
    notices,  \* deliveries with a COMMAND_REJECTED message in the outbox
    decider   \* source_event_id of the review of each revision

inboxVars == <<stage, version, current, rev, job, run, disk, outbox, handoff, claim,
               inbox, notices, decider>>

NoEvent == [request |-> NoRequest, outcome |-> "NONE"]

InboxTypeOK ==
    /\ inbox \in [Delivery -> [request: Requests \cup {NoRequest}, outcome: Outcome]]
    /\ notices \subseteq Delivery
    /\ decider \in [Revision -> Delivery \cup {Nobody}]

InboxInit ==
    /\ Init
    /\ inbox = [d \in Delivery |-> NoEvent]
    /\ notices = {}
    /\ decider = [r \in Revision |-> Nobody]

-------------------------------------------------------------------------------
(* What becomes of a request.                                              *)

\* Mutant: the inbox is not consulted.
NeverRecorded(d) == FALSE

\* The delivery has been answered before.
Recorded(d) == inbox[d].outcome # "NONE"

\* There is no revision of that name. A comment names it by number and is only
\* told so when the artifact does not exist at all.
Unknown(q) ==
    \/ current[TypeOf(q.rev)] = 0
    \/ q.via = "SURFACE" /\ rev[q.rev].status = "NONE"

\* The feature is in another stage, or the artifact at another revision.
Elsewhere(q) ==
    \/ stage # TypeOf(q.rev)
    \/ current[TypeOf(q.rev)] # NumberOf(q.rev)

\* The revision does not wait for what is asked.
NotDue(q) ==
    \/ /\ q.action \in Decision
       /\ rev[q.rev].status # "REVIEW" \/ rev[q.rev].review # "PENDING"
    \/ q.action \in Writing /\ rev[q.rev].status # "CHANGES_REQUESTED"
    \/ q.action = "ADDRESS" /\ rev[q.rev].feedback # "OPEN"

\* The outcome of a command or an edit.
CommandOutcome(q) ==
    IF ~q.allowed \/ Unknown(q) THEN "REJECTED"
    ELSE IF Elsewhere(q) \/ NotDue(q) THEN "STALE"
    ELSE IF q.action = "REQUEST_CHANGES" /\ ~q.usable THEN "REJECTED"
    ELSE "APPLIED"

\* The outcome of any request.
OutcomeOf(q) ==
    CASE q.action = "CHAT" -> "IGNORED"
      [] q.action = "FEATURE" -> IF stage = "ABSENT" THEN "APPLIED" ELSE "DUPLICATE"
      [] OTHER -> CommandOutcome(q)

\* An edit that is refused before the event is recorded: by someone who is no
\* reviewer, of a revision that does not exist, or with an invalid document.
RefusedUnrecorded(q) == q.action = "MANUAL" /\ (~q.allowed \/ Unknown(q) \/ ~q.usable)

\* Mutant: only commands that name an earlier revision are answered.
ToldWhenElsewhere(q) == q.action \in Command /\ q.allowed /\ ~Unknown(q) /\ Elsewhere(q)

\* A refused command of a reviewer is answered by a notice, unless the
\* artifact it names does not exist.
Told(q) ==
    /\ q.action \in Command
    /\ q.allowed /\ ~Unknown(q)
    /\ CommandOutcome(q) \in {"STALE", "REJECTED"}

\* What is done for a request that is applied.
Effect(q) ==
    \/ q.action = "FEATURE" /\ IngestFeature
    \/ q.action = "APPROVE" /\ Approve(q.rev)
    \/ q.action = "REQUEST_CHANGES" /\ RequestChanges(q.rev)
    \/ q.action = "ADDRESS" /\ AddressWithAgent(q.rev)
    \/ q.action = "MANUAL" /\ SubmitManualRevision(q.rev)

\* The first transaction of a delivery that commits. Its content is the same
\* whenever it comes, and a repetition is answered without doing anything. A
\* transaction that raises leaves nothing (an edit that meets a directory), and
\* what would exceed MaxRevision is not explored.
Receive(d, q) ==
    /\ ~Recorded(d)
    /\ inbox[d].request \in {NoRequest, q}
    /\ ~RefusedUnrecorded(q)
    /\ inbox' = [inbox EXCEPT ![d] = [request |-> q, outcome |-> OutcomeOf(q)]]
    /\ IF OutcomeOf(q) = "APPLIED" THEN Effect(q) ELSE UNCHANGED vars
    /\ notices' = IF Told(q) THEN notices \cup {d} ELSE notices
    /\ decider' = IF OutcomeOf(q) = "APPLIED" /\ q.action \in Decision
                  THEN [decider EXCEPT ![q.rev] = d]
                  ELSE decider

\* The transaction of an edit is lost, event and all, but not the directory it
\* has made.
Interrupted(q) ==
    /\ q.action = "MANUAL" /\ ~RefusedUnrecorded(q)
    /\ ManualRevisionRolledBack(q.rev)
    /\ UNCHANGED <<inbox, notices, decider>>

\* Meanwhile the workers go on.
Machine ==
    /\ \/ \E r \in Revision : LeaseExpires(r)
       \/ \E w \in Workers : \/ \E r \in Revision : Claim(w, r)
                             \/ Proceed(w) \/ ApplyRolledBack(w) \/ Crash(w)
    /\ UNCHANGED <<inbox, notices, decider>>

InboxNext ==
    \/ \E d \in Delivery, q \in Requests : Receive(d, q)
    \/ \E q \in Requests : Interrupted(q)
    \/ Machine

InboxSpec == InboxInit /\ [][InboxNext]_inboxVars

-------------------------------------------------------------------------------
(* Safety.                                                                 *)

Applied(actions) == {d \in Delivery : /\ inbox[d].outcome = "APPLIED"
                                      /\ inbox[d].request.action \in actions}

\* One event started the feature.
OneStart ==
    /\ stage # "ABSENT" <=> Applied({"FEATURE"}) # {}
    /\ \A d, e \in Applied({"FEATURE"}) : d = e

\* Each decision is that of one event, which asked for it by the name of this
\* very revision.
OneDecider ==
    /\ \A d \in Applied(Decision) : decider[inbox[d].request.rev] = d
    /\ \A r \in Revision :
           LET d == decider[r] IN
           /\ d # Nobody => d \in Applied(Decision) /\ inbox[d].request.rev = r
           /\ rev[r].review \in {"APPROVED", "CHANGES_REQUESTED"} <=> d # Nobody
           /\ rev[r].review = "APPROVED" => inbox[d].request.action = "APPROVE"
           /\ rev[r].review = "CHANGES_REQUESTED" =>
                  inbox[d].request.action = "REQUEST_CHANGES"

\* Each further revision was asked for by one event, by the name of its parent.
OneAuthor ==
    /\ \A r \in Revision :
           NumberOf(r) < current[TypeOf(r)] <=>
               \E d \in Applied(Writing) : inbox[d].request.rev = r
    /\ \A d, e \in Applied(Writing) : inbox[d].request.rev = inbox[e].request.rev => d = e

\* The events recorded as applied are exactly those behind the rows, so that
\* nothing a delivery asks for is done twice or done to another revision, and
\* of competing requests one wins.
EffectsMatchEvents == OneStart /\ OneDecider /\ OneAuthor

\* A reviewer whose command came too late is told so, and nobody is told of a
\* refusal that did not happen.
RefusalsAreTold ==
    \A d \in Delivery :
        LET q == inbox[d].request IN
        /\ inbox[d].outcome = "STALE" /\ q.action \in Command => d \in notices
        /\ d \in notices => /\ inbox[d].outcome \in {"STALE", "REJECTED"}
                            /\ q.action \in Command /\ q.allowed

\* Whatever is delivered, the workflow takes only the steps of ArtifactReview,
\* so that all that holds of it holds behind the inbox.
FollowsWorkflow == Init /\ [][Next]_vars
===============================================================================
