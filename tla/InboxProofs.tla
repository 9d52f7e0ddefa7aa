----------------------------- MODULE InboxProofs -----------------------------
(* Proofs about Inbox, for any deliveries and requests: the workflow behind *)
(* it is that of ArtifactReview, and the events recorded as applied are     *)
(* exactly those behind the rows.                                           *)
EXTENDS Inbox, ArtifactReviewProofs

-------------------------------------------------------------------------------
(* The workflow behind the inbox.                                          *)

\* A request names a revision.
LEMMA RequestShape ==
    \A q \in Requests : /\ q \in Request
                        /\ q.rev \in Revision
                        /\ q.action \in Command \cup {"FEATURE", "CHAT", "MANUAL"}
                        /\ q.allowed \in BOOLEAN
  BY RequestsAssumption DEF Request

\* What is done for a request is a step of the workflow.
LEMMA EffectIsStep == ASSUME NEW q \in Requests, Effect(q) PROVE Next
  BY RequestShape DEF Effect, Next, Decide

\* Every step is one of the workflow, or leaves the workflow alone.
LEMMA StepIsStep == ASSUME [InboxNext]_inboxVars PROVE [Next]_vars
<1>1. CASE UNCHANGED inboxVars
  BY <1>1 DEF inboxVars, vars
<1>2. ASSUME NEW d \in Delivery, NEW q \in Requests, Receive(d, q) PROVE [Next]_vars
  BY <1>2, EffectIsStep DEF Receive
<1>3. ASSUME NEW q \in Requests, Interrupted(q) PROVE [Next]_vars
  BY <1>3, RequestShape DEF Interrupted, Next, Decide
<1>4. CASE Machine
  BY <1>4 DEF Machine, Next
<1> QED
  BY <1>1, <1>2, <1>3, <1>4 DEF InboxNext

\* Deliveries that come late, repeatedly or out of order never make the
\* artifact workflow do what ArtifactReview does not.
THEOREM WorkflowTheorem == InboxSpec => FollowsWorkflow
<1>1. InboxInit => Init
  BY DEF InboxInit
<1>2. [InboxNext]_inboxVars => [Next]_vars
  BY StepIsStep
<1> QED
  BY <1>1, <1>2, PTL DEF InboxSpec, FollowsWorkflow

\* So the invariants of the workflow hold behind the inbox.
LEMMA Behind == InboxSpec => []Inv
<1>1. InboxSpec => Spec
  BY WorkflowTheorem DEF FollowsWorkflow, Spec
<1> QED
  BY <1>1, Inductive, PTL

-------------------------------------------------------------------------------
(* Types and notices.                                                      *)

\* The outcomes of requests.
LEMMA OutcomeShape ==
    ASSUME NEW q \in Requests
    PROVE  /\ OutcomeOf(q) \in Outcome \ {"NONE"}
           /\ q.action \notin {"CHAT", "FEATURE"} => OutcomeOf(q) = CommandOutcome(q)
           /\ OutcomeOf(q) = "APPLIED" =>
                  \/ q.action = "FEATURE" /\ stage = "ABSENT"
                  \/ /\ q.action \in Command \cup {"MANUAL"}
                     /\ q.allowed /\ ~Elsewhere(q) /\ ~NotDue(q)
  BY RequestShape DEF OutcomeOf, CommandOutcome, Outcome, Command, Decision

\* How the inbox changes.
LEMMA Events ==
    ASSUME InboxTypeOK, NEW d \in Delivery, NEW q \in Requests, Receive(d, q)
    PROVE  /\ inbox'[d] = [request |-> q, outcome |-> OutcomeOf(q)]
           /\ \A e \in Delivery \ {d} : inbox'[e] = inbox[e]
           /\ InboxTypeOK'
<1>1. inbox' = [inbox EXCEPT ![d] = [request |-> q, outcome |-> OutcomeOf(q)]]
  BY DEF Receive
<1>2. /\ inbox'[d] = [request |-> q, outcome |-> OutcomeOf(q)]
      /\ \A e \in Delivery \ {d} : inbox'[e] = inbox[e]
  BY <1>1 DEF InboxTypeOK
<1>3. inbox' \in [Delivery -> [request: Requests \cup {NoRequest}, outcome: Outcome]]
  BY <1>1, OutcomeShape DEF InboxTypeOK
<1>4. notices' \subseteq Delivery
  BY DEF Receive, InboxTypeOK
<1>5. decider' \in [Revision -> Delivery \cup {Nobody}]
  BY RequestShape DEF Receive, InboxTypeOK
<1> QED
  BY <1>2, <1>3, <1>4, <1>5 DEF InboxTypeOK

\* The inbox is well typed in every reachable state.
THEOREM InboxTypeTheorem == InboxSpec => []InboxTypeOK
<1>1. InboxInit => InboxTypeOK
  BY DEF InboxInit, InboxTypeOK, NoEvent, Outcome
<1>2. InboxTypeOK /\ [InboxNext]_inboxVars => InboxTypeOK'
  <2> SUFFICES ASSUME InboxTypeOK, [InboxNext]_inboxVars PROVE InboxTypeOK'
    OBVIOUS
  <2>1. CASE UNCHANGED <<inbox, notices, decider>>
    BY <2>1 DEF InboxTypeOK
  <2>2. ASSUME NEW d \in Delivery, NEW q \in Requests, Receive(d, q) PROVE InboxTypeOK'
    BY <2>2, Events
  <2> QED
    BY <2>1, <2>2 DEF InboxNext, inboxVars, Interrupted, Machine
<1> QED
  BY <1>1, <1>2, PTL DEF InboxSpec

\* A reviewer whose command came too late is told so, and nobody is told of a
\* refusal that did not happen.
THEOREM NoticeTheorem == InboxSpec => []RefusalsAreTold
<1> DEFINE Told2 == InboxTypeOK /\ RefusalsAreTold
<1>1. InboxInit => RefusalsAreTold
  BY DEF InboxInit, RefusalsAreTold, NoEvent
<1>2. Told2 /\ [InboxNext]_inboxVars => RefusalsAreTold'
  <2> SUFFICES ASSUME InboxTypeOK, RefusalsAreTold, [InboxNext]_inboxVars
               PROVE  RefusalsAreTold'
    OBVIOUS
  <2>1. CASE UNCHANGED <<inbox, notices, decider>>
    BY <2>1 DEF RefusalsAreTold
  <2>2. ASSUME NEW d \in Delivery, NEW q \in Requests, Receive(d, q)
        PROVE  RefusalsAreTold'
    <3>1. d \notin notices
      BY <2>2 DEF Receive, Recorded, RefusalsAreTold
    <3>2. /\ d \in notices' <=> Told(q)
          /\ \A e \in Delivery \ {d} : e \in notices' <=> e \in notices
      BY <2>2, <3>1 DEF Receive
    <3>3. q.action \in Command => OutcomeOf(q) = CommandOutcome(q)
      BY OutcomeShape DEF Command, Decision
    <3>4. CommandOutcome(q) = "STALE" => q.allowed /\ ~Unknown(q)
      BY DEF CommandOutcome
    <3> SUFFICES ASSUME NEW e \in Delivery
                 PROVE  LET p == inbox'[e].request IN
                        /\ inbox'[e].outcome = "STALE" /\ p.action \in Command => e \in notices'
                        /\ e \in notices' => /\ inbox'[e].outcome \in {"STALE", "REJECTED"}
                                             /\ p.action \in Command /\ p.allowed
      BY DEF RefusalsAreTold
    <3>5. CASE e = d
      <4>1. inbox'[d].request = q /\ inbox'[d].outcome = OutcomeOf(q)
        <5>1. inbox'[d] = [request |-> q, outcome |-> OutcomeOf(q)]
          BY <2>2, Events
        <5> QED
          BY <5>1
      <4> QED
        BY <3>2, <3>3, <3>4, <3>5, <4>1 DEF Told
    <3>6. CASE e # d
      <4>1. inbox'[e] = inbox[e]
        BY <2>2, <3>6, Events
      <4> QED
        BY <3>2, <3>6, <4>1 DEF RefusalsAreTold
    <3> QED
      BY <3>5, <3>6
  <2> QED
    BY <2>1, <2>2 DEF InboxNext, inboxVars, Interrupted, Machine
<1> QED
  BY <1>1, <1>2, InboxTypeTheorem, PTL DEF InboxSpec

-------------------------------------------------------------------------------
(* The events and the rows.                                                *)

\* One request is applied, or none: the events recorded as applied afterwards.
LEMMA AppliedBy ==
    ASSUME InboxTypeOK, NEW d \in Delivery, NEW q \in Requests, Receive(d, q), NEW A
    PROVE  /\ d \notin Applied(A)
           /\ \A e \in Delivery :
                  e \in Applied(A)' <=> \/ e \in Applied(A)
                                        \/ e = d /\ OutcomeOf(q) = "APPLIED" /\ q.action \in A
           /\ \A e \in Applied(A) : inbox'[e] = inbox[e]
           /\ Applied(A) \subseteq Delivery /\ Applied(A)' \subseteq Delivery
           /\ inbox'[d].request = q
<1>1. inbox'[d].request = q /\ inbox'[d].outcome = OutcomeOf(q)
  <2>1. inbox'[d] = [request |-> q, outcome |-> OutcomeOf(q)]
    BY Events
  <2> QED
    BY <2>1
<1>2. \A e \in Delivery \ {d} : inbox'[e] = inbox[e]
  BY Events
<1>3. d \notin Applied(A)
  BY DEF Receive, Recorded, Applied
<1>4. \A e \in Applied(A) : e \in Delivery
  BY DEF Applied
<1>5. Applied(A) \subseteq Delivery /\ Applied(A)' \subseteq Delivery
  BY DEF Applied
<1>6. \A e \in Delivery :
          e \in Applied(A)' <=> \/ e \in Applied(A)
                                \/ e = d /\ OutcomeOf(q) = "APPLIED" /\ q.action \in A
  <2> TAKE e \in Delivery
  <2>1. CASE e = d
    BY <1>1, <1>3, <2>1 DEF Applied
  <2>2. CASE e # d
    <3>1. inbox'[e] = inbox[e]
      BY <1>2, <2>2
    <3> QED
      BY <2>2, <3>1 DEF Applied
  <2> QED
    BY <2>1, <2>2
<1> QED
  BY <1>1, <1>2, <1>3, <1>4, <1>5, <1>6

\* What the workers do decides nothing and opens nothing but reviews.
LEMMA MachineRows ==
    ASSUME Inv, Machine
    PROVE  /\ stage' = stage /\ current' = current
           /\ \A r \in Revision :
                  \/ rev'[r].review = rev[r].review
                  \/ rev[r].review = "NONE" /\ rev'[r].review = "PENDING"
<1>1. CASE \E r \in Revision : LeaseExpires(r)
  BY <1>1 DEF LeaseExpires
<1>2. ASSUME NEW w \in Workers, NEW r \in Revision, Claim(w, r)
      PROVE  stage' = stage /\ current' = current /\ rev' = rev
  BY <1>2 DEF Claim
<1>3. ASSUME NEW w \in Workers, Apply(w)
      PROVE  /\ stage' = stage /\ current' = current
             /\ \A r \in Revision :
                    \/ rev'[r].review = rev[r].review
                    \/ rev[r].review = "NONE" /\ rev'[r].review = "PENDING"
  <2> DEFINE c == claim[w].rev
  <2>1. c \in Revision /\ rev[c].status \in {"GENERATING", "UPDATING"}
    BY <1>3 DEF Apply, Fence, Preconditions, ExpectedStatus, Inv, TypeOK, ClaimedJob
  <2>2. rev[c].review = "NONE"
    BY <2>1 DEF Inv, PublishedContent
  <2>3. rev' = Published(c, claim[w].attempt, "AGENT")
    BY <1>3 DEF Apply
  <2>4. \A r \in Revision : rev'[r].review = IF r = c THEN "PENDING" ELSE rev[r].review
    BY <2>1, <2>3, PublishedFields DEF Inv
  <2> QED
    BY <1>3, <2>2, <2>4 DEF Apply
<1>4. ASSUME NEW w \in Workers, StartRun(w) \/ FailJob(w)
      PROVE  /\ stage' = stage /\ current' = current
             /\ \A r \in Revision : rev'[r].review = rev[r].review
  <2>1. claim[w].rev \in Revision /\ \A r \in Revision : rev[r] \in RevisionRow
    BY DEF Inv, TypeOK, ClaimedJob
  <2>2. rev \in [Revision -> RevisionRow]
    BY DEF Inv, TypeOK
  <2> QED
    BY <1>4, <2>1, <2>2 DEF StartRun, FailJob, RevisionRow
<1>5. ASSUME NEW w \in Workers,
             \/ LoadContext(w) \/ CancelStaleJob(w) \/ AgentEnds(w) \/ Supersede(w)
             \/ ApplyFindsDirectory(w) \/ ApplyRolledBack(w) \/ Crash(w)
      PROVE  stage' = stage /\ current' = current /\ rev' = rev
  BY <1>5 DEF LoadContext, CancelStaleJob, AgentEnds, Supersede, ApplyFindsDirectory,
              ApplyRolledBack, Crash
<1> QED
  BY <1>1, <1>2, <1>3, <1>4, <1>5 DEF Machine, Proceed

\* What holds of the inbox and of the workflow behind it.
InboxInv == Inv /\ InboxTypeOK /\ EffectsMatchEvents

\* As long as nothing is applied, events and rows go on to agree.
LEMMA NothingApplied ==
    ASSUME InboxInv,
           stage' = stage, current' = current, decider' = decider,
           \A r \in Revision :
               \/ rev'[r].review = rev[r].review
               \/ rev[r].review = "NONE" /\ rev'[r].review = "PENDING",
           \A A : /\ Applied(A)' = Applied(A)
                  /\ \A e \in Applied(A) : inbox'[e] = inbox[e]
    PROVE  EffectsMatchEvents'
<1>1. OneStart'
  BY DEF InboxInv, EffectsMatchEvents, OneStart
<1>2. OneDecider'
  <2>1. Applied(Decision)' = Applied(Decision)
        /\ \A e \in Applied(Decision) : inbox'[e] = inbox[e]
    OBVIOUS
  <2> QED
    BY <2>1 DEF InboxInv, EffectsMatchEvents, OneDecider
<1>3. OneAuthor'
  <2>1. Applied(Writing)' = Applied(Writing)
        /\ \A e \in Applied(Writing) : inbox'[e] = inbox[e]
    OBVIOUS
  <2> QED
    BY <2>1 DEF InboxInv, EffectsMatchEvents, OneAuthor
<1> QED
  BY <1>1, <1>2, <1>3 DEF EffectsMatchEvents

\* A delivery that starts nothing leaves the start of the feature as it was.
LEMMA StartKept ==
    ASSUME InboxInv, NEW d \in Delivery, NEW q \in Requests, Receive(d, q),
           ~(OutcomeOf(q) = "APPLIED" /\ q.action = "FEATURE"),
           stage' = "ABSENT" <=> stage = "ABSENT"
    PROVE  OneStart'
<1>1. Applied({"FEATURE"})' = Applied({"FEATURE"})
  BY AppliedBy DEF InboxInv
<1> QED
  BY <1>1 DEF InboxInv, EffectsMatchEvents, OneStart

\* A delivery that decides nothing leaves the decisions as they were.
LEMMA DeciderKept ==
    ASSUME InboxInv, NEW d \in Delivery, NEW q \in Requests, Receive(d, q),
           ~(OutcomeOf(q) = "APPLIED" /\ q.action \in Decision),
           \A r \in Revision :
               \/ rev'[r].review = rev[r].review
               \/ rev[r].review = "NONE" /\ rev'[r].review = "PENDING"
    PROVE  OneDecider'
<1>1. /\ Applied(Decision)' = Applied(Decision)
      /\ \A e \in Applied(Decision) : inbox'[e] = inbox[e]
  BY AppliedBy DEF InboxInv
<1>2. decider' = decider
  BY DEF Receive
<1> QED
  BY <1>1, <1>2 DEF InboxInv, EffectsMatchEvents, OneDecider

\* A delivery that begins no further revision leaves their authors as they were.
LEMMA AuthorKept ==
    ASSUME InboxInv, NEW d \in Delivery, NEW q \in Requests, Receive(d, q),
           ~(OutcomeOf(q) = "APPLIED" /\ q.action \in Writing),
           \A t \in ArtifactType :
               current'[t] = current[t] \/ (current[t] = 0 /\ current'[t] = 1)
    PROVE  OneAuthor'
<1>1. /\ Applied(Writing)' = Applied(Writing)
      /\ \A e \in Applied(Writing) : inbox'[e] = inbox[e]
  BY AppliedBy DEF InboxInv
<1>2. \A r \in Revision : NumberOf(r) < current'[TypeOf(r)] <=> NumberOf(r) < current[TypeOf(r)]
  BY RevisionShape, MaxRevisionAssumption
<1> QED
  BY <1>1, <1>2 DEF InboxInv, EffectsMatchEvents, OneAuthor

\* A delivery that is refused, ignored or known by another id.
LEMMA ReceiveRefused ==
    ASSUME InboxInv, NEW d \in Delivery, NEW q \in Requests, Receive(d, q),
           OutcomeOf(q) # "APPLIED"
    PROVE  EffectsMatchEvents'
<1>1. UNCHANGED vars
  BY DEF Receive
<1>2. stage' = stage /\ current' = current /\ rev' = rev
  BY <1>1 DEF vars
<1>3. OneStart'
  BY <1>2, StartKept
<1>4. OneDecider'
  BY <1>2, DeciderKept
<1>5. OneAuthor'
  BY <1>2, AuthorKept
<1> QED
  BY <1>3, <1>4, <1>5 DEF EffectsMatchEvents

\* The webhook that starts the feature.
LEMMA ReceiveFeature ==
    ASSUME InboxInv, NEW d \in Delivery, NEW q \in Requests, Receive(d, q),
           OutcomeOf(q) = "APPLIED", q.action = "FEATURE"
    PROVE  EffectsMatchEvents'
<1>1. IngestFeature
  BY DEF Receive, Effect
<1>2. stage = "ABSENT" /\ stage' = "INTENT"
  BY <1>1 DEF IngestFeature
<1>3. \A t \in ArtifactType : current[t] = 0
  BY <1>2 DEF InboxInv, Inv, ApprovalChain, Before, ArtifactType
<1>4. \A t \in ArtifactType : current'[t] = current[t] \/ (current[t] = 0 /\ current'[t] = 1)
  <2>1. current' = [current EXCEPT !["INTENT"] = 1]
    BY <1>1 DEF IngestFeature
  <2>2. current \in [ArtifactType -> 0..MaxRevision]
    BY DEF InboxInv, Inv, TypeOK
  <2> QED
    BY <1>3, <2>1, <2>2
<1>5. \A r \in Revision : rev'[r].review = rev[r].review
  <2>1. rev \in [Revision -> RevisionRow] /\ <<"INTENT", 1>> \in Revision
    BY RevisionShape, MaxRevisionAssumption DEF InboxInv, Inv, TypeOK, ArtifactType
  <2> QED
    BY <1>1, <2>1 DEF IngestFeature, RevisionRow
<1>6. OneStart'
  <2>1. Applied({"FEATURE"}) = {}
    BY <1>2 DEF InboxInv, EffectsMatchEvents, OneStart
  <2>2. \A e \in Delivery : e \in Applied({"FEATURE"})' <=> e = d
    BY <2>1, AppliedBy DEF InboxInv
  <2>3. Applied({"FEATURE"})' \subseteq Delivery
    BY AppliedBy DEF InboxInv
  <2> QED
    BY <1>2, <2>2, <2>3 DEF OneStart
<1>7. OneDecider'
  BY <1>5, DeciderKept DEF Decision
<1>8. OneAuthor'
  BY <1>4, AuthorKept DEF Writing
<1> QED
  BY <1>6, <1>7, <1>8 DEF EffectsMatchEvents

\* A decision that is taken.
LEMMA ReceiveDecision ==
    ASSUME InboxInv, NEW d \in Delivery, NEW q \in Requests, Receive(d, q),
           OutcomeOf(q) = "APPLIED", q.action \in Decision
    PROVE  EffectsMatchEvents'
<1> DEFINE t == TypeOf(q.rev)
           verdict == IF q.action = "APPROVE" THEN "APPROVED" ELSE "CHANGES_REQUESTED"
<1>0. /\ q.rev \in Revision
      /\ rev \in [Revision -> RevisionRow]
      /\ current \in [ArtifactType -> 0..MaxRevision]
      /\ \A r \in Revision : rev[r] \in RevisionRow
  BY RequestShape DEF InboxInv, Inv, TypeOK
<1>1. \/ q.action = "APPROVE" /\ Approve(q.rev)
      \/ q.action = "REQUEST_CHANGES" /\ RequestChanges(q.rev)
  BY DEF Receive, Effect, Decision
<1>2. Reviewable(q.rev) /\ t \in ArtifactType
  BY <1>0, <1>1, RevisionShape DEF Approve, RequestChanges
<1>3. stage = t /\ stage # "ABSENT" /\ stage' # "ABSENT"
  BY <1>1, <1>2 DEF Reviewable, ArtifactType, Approve, RequestChanges, NextStage
<1>4. \A s \in ArtifactType : current'[s] = current[s] \/ (current[s] = 0 /\ current'[s] = 1)
  <2>1. CASE Approve(q.rev)
    <3> DEFINE next == NextStage[stage]
    <3>1. next \in {"SPEC", "PLAN", "IMPLEMENTATION"}
      BY <1>2, <1>3 DEF NextStage, ArtifactType
    <3>2. CASE next = "IMPLEMENTATION"
      BY <2>1, <3>2 DEF Approve
    <3>3. CASE next # "IMPLEMENTATION"
      <4>1. current' = [current EXCEPT ![next] = 1]
        BY <2>1, <3>3 DEF Approve
      <4>2. next \in ArtifactType /\ next \notin Before[stage] \cup {stage}
        BY <1>2, <1>3, <3>1, <3>3 DEF NextStage, ArtifactType, Before
      <4>3. current[next] = 0
        BY <4>2 DEF InboxInv, Inv, ApprovalChain
      <4> QED
        BY <1>0, <4>1, <4>2, <4>3
    <3> QED
      BY <3>2, <3>3
  <2>2. CASE RequestChanges(q.rev)
    BY <2>2 DEF RequestChanges
  <2> QED
    BY <1>1, <2>1, <2>2
<1>5. \A r \in Revision : rev'[r].review = IF r = q.rev THEN verdict ELSE rev[r].review
  <2>1. CASE q.action = "APPROVE"
    <3> DEFINE first == <<NextStage[stage], 1>>
               approved == [rev EXCEPT ![q.rev].status = "APPROVED", ![q.rev].review = "APPROVED"]
    <3>1. rev' = approved \/ rev' = [approved EXCEPT ![first].status = "GENERATING"]
      BY <1>1, <2>1 DEF Approve
    <3>2. \A r \in Revision :
              approved[r] = IF r = q.rev
                            THEN [rev[r] EXCEPT !.status = "APPROVED", !.review = "APPROVED"]
                            ELSE rev[r]
      BY <1>0
    <3>3. approved \in [Revision -> RevisionRow]
      BY <1>0 DEF RevisionRow, RevisionStatus, ReviewStatus
    <3>4. \A r \in Revision : rev'[r].review = approved[r].review
      BY <3>1, <3>3 DEF RevisionRow
    <3>5. \A r \in Revision : approved[r].review = IF r = q.rev THEN "APPROVED" ELSE rev[r].review
      BY <1>0, <3>2 DEF RevisionRow
    <3> QED
      BY <2>1, <3>4, <3>5
  <2>2. CASE q.action = "REQUEST_CHANGES"
    BY <1>0, <1>1, <2>2 DEF RequestChanges, RevisionRow
  <2> QED
    BY <2>1, <2>2 DEF Decision
<1>6. /\ d \notin Applied(Decision)
      /\ \A e \in Delivery : e \in Applied(Decision)' <=> e \in Applied(Decision) \/ e = d
      /\ \A e \in Applied(Decision) : inbox'[e] = inbox[e]
      /\ Applied(Decision) \subseteq Delivery /\ Applied(Decision)' \subseteq Delivery
      /\ inbox'[d].request = q
  BY AppliedBy DEF InboxInv
<1>7. decider[q.rev] = Nobody
  BY <1>0, <1>2 DEF Reviewable, InboxInv, EffectsMatchEvents, OneDecider
<1>8. \A r \in Revision : decider'[r] = IF r = q.rev THEN d ELSE decider[r]
  BY <1>0 DEF Receive, InboxInv, InboxTypeOK
<1>9. OneDecider'
  <2>1. ASSUME NEW e \in Applied(Decision)' PROVE decider'[inbox'[e].request.rev] = e
    <3>1. CASE e = d
      BY <1>0, <1>6, <1>8, <3>1
    <3>2. CASE e # d
      <4>1. e \in Applied(Decision) /\ inbox'[e] = inbox[e]
        BY <1>6, <2>1, <3>2
      <4>2. decider[inbox[e].request.rev] = e
        BY <4>1 DEF InboxInv, EffectsMatchEvents, OneDecider
      <4>3. inbox[e].request \in Requests
        BY <1>6, <4>1 DEF Applied, InboxInv, InboxTypeOK, NoRequest, Decision
      <4>4. inbox[e].request.rev \in Revision /\ e # Nobody
        BY <1>6, <4>1, <4>3, RequestShape, NobodyAssumption
      <4> QED
        BY <1>7, <1>8, <4>1, <4>2, <4>4
    <3> QED
      BY <3>1, <3>2
  <2>2. ASSUME NEW r \in Revision
        PROVE  LET e == decider'[r] IN
               /\ e # Nobody => e \in Applied(Decision)' /\ inbox'[e].request.rev = r
               /\ rev'[r].review \in {"APPROVED", "CHANGES_REQUESTED"} <=> e # Nobody
               /\ rev'[r].review = "APPROVED" => inbox'[e].request.action = "APPROVE"
               /\ rev'[r].review = "CHANGES_REQUESTED" =>
                      inbox'[e].request.action = "REQUEST_CHANGES"
    <3>1. CASE r = q.rev
      BY <1>5, <1>6, <1>8, <3>1, NobodyAssumption DEF Decision
    <3>2. CASE r # q.rev
      <4>1. decider'[r] = decider[r] /\ rev'[r].review = rev[r].review
        BY <1>5, <1>8, <3>2
      <4>2. LET e == decider[r] IN
               /\ e # Nobody => e \in Applied(Decision) /\ inbox[e].request.rev = r
               /\ rev[r].review \in {"APPROVED", "CHANGES_REQUESTED"} <=> e # Nobody
               /\ rev[r].review = "APPROVED" => inbox[e].request.action = "APPROVE"
               /\ rev[r].review = "CHANGES_REQUESTED" =>
                      inbox[e].request.action = "REQUEST_CHANGES"
        BY DEF InboxInv, EffectsMatchEvents, OneDecider
      <4>3. CASE decider[r] = Nobody
        BY <4>1, <4>2, <4>3
      <4>4. CASE decider[r] # Nobody
        <5>1. decider[r] \in Applied(Decision) /\ decider[r] \in Delivery
          BY <1>6, <4>2, <4>4
        <5>2. decider[r] \in Applied(Decision)' /\ inbox'[decider[r]] = inbox[decider[r]]
          BY <1>6, <5>1
        <5> QED
          BY <4>1, <4>2, <4>4, <5>2
      <4> QED
        BY <4>3, <4>4
    <3> QED
      BY <3>1, <3>2
  <2> QED
    BY <2>1, <2>2 DEF OneDecider
<1>10. OneStart'
  BY <1>3, StartKept DEF Decision
<1>11. OneAuthor'
  BY <1>4, AuthorKept DEF Decision, Writing
<1> QED
  BY <1>9, <1>10, <1>11 DEF EffectsMatchEvents

\* A further revision that is asked for or handed in.
LEMMA ReceiveWriting ==
    ASSUME InboxInv, NEW d \in Delivery, NEW q \in Requests, Receive(d, q),
           OutcomeOf(q) = "APPLIED", q.action \in Writing
    PROVE  EffectsMatchEvents'
<1> DEFINE t == TypeOf(q.rev)
           n == NumberOf(q.rev)
<1>0. /\ q.rev \in Revision
      /\ rev \in [Revision -> RevisionRow]
      /\ current \in [ArtifactType -> 0..MaxRevision]
      /\ t \in ArtifactType /\ n \in Nat
  BY RequestShape, RevisionShape DEF InboxInv, Inv, TypeOK
<1>1. \/ q.action = "ADDRESS" /\ AddressWithAgent(q.rev)
      \/ q.action = "MANUAL" /\ SubmitManualRevision(q.rev)
  BY DEF Receive, Effect, Writing
<1>2. Addressable(q.rev)
  BY <1>1 DEF AddressWithAgent, SubmitManualRevision
<1>3. stage = t /\ stage' = stage /\ current[t] = n /\ n < MaxRevision
  BY <1>1, <1>2 DEF Addressable, AddressWithAgent, SubmitManualRevision
<1>4. \A s \in ArtifactType : current'[s] = IF s = t THEN n + 1 ELSE current[s]
  <2>1. current' = [current EXCEPT ![t] = n + 1]
    BY <1>1 DEF AddressWithAgent, SubmitManualRevision
  <2> QED
    BY <1>0, <2>1
<1>5. \A r \in Revision : \/ rev'[r].review = rev[r].review
                          \/ rev[r].review = "NONE" /\ rev'[r].review = "PENDING"
  <2>0. Child(q.rev) \in Revision /\ NumberOf(Child(q.rev)) > current[TypeOf(Child(q.rev))]
    BY <1>0, <1>3, RevisionShape, RevisionOrder
  <2>1. CASE AddressWithAgent(q.rev)
    <3>1. rev' = [rev EXCEPT ![Child(q.rev)].status = "UPDATING"]
      BY <2>1 DEF AddressWithAgent
    <3> QED
      BY <1>0, <2>0, <3>1 DEF RevisionRow
  <2>2. CASE SubmitManualRevision(q.rev)
    <3>1. rev[Child(q.rev)].review = "NONE"
      BY <2>0 DEF InboxInv, Inv, RevisionHistory, NoRevision
    <3>2. rev' = Published(Child(q.rev), ByHuman, "MANUAL")
      BY <2>2 DEF SubmitManualRevision
    <3>3. \A r \in Revision : rev'[r].review = IF r = Child(q.rev) THEN "PENDING" ELSE rev[r].review
      BY <2>0, <3>2, PublishedFields DEF InboxInv, Inv
    <3> QED
      BY <3>1, <3>3
  <2> QED
    BY <1>1, <2>1, <2>2
<1>6. /\ d \notin Applied(Writing)
      /\ \A e \in Delivery : e \in Applied(Writing)' <=> e \in Applied(Writing) \/ e = d
      /\ \A e \in Applied(Writing) : inbox'[e] = inbox[e]
      /\ Applied(Writing) \subseteq Delivery /\ Applied(Writing)' \subseteq Delivery
      /\ inbox'[d].request = q
  BY AppliedBy DEF InboxInv
<1>7. \A e \in Applied(Writing) : inbox[e].request.rev # q.rev
  BY <1>0, <1>3 DEF InboxInv, EffectsMatchEvents, OneAuthor
<1>8. OneAuthor'
  <2>1. ASSUME NEW r \in Revision
        PROVE  NumberOf(r) < current'[TypeOf(r)] <=>
                   \E e \in Applied(Writing)' : inbox'[e].request.rev = r
    <3>1. CASE r = q.rev
      BY <1>0, <1>4, <1>6, <3>1
    <3>2. CASE r # q.rev
      <4>1. NumberOf(r) < current'[TypeOf(r)] <=> NumberOf(r) < current[TypeOf(r)]
        <5>1. TypeOf(r) \in ArtifactType /\ NumberOf(r) \in Nat
          BY RevisionShape, RevisionOrder
        <5>2. TypeOf(r) = t => NumberOf(r) # n
          BY <1>0, <3>2, RevisionOrder
        <5> QED
          BY <1>0, <1>3, <1>4, <5>1, <5>2
      <4>2. NumberOf(r) < current[TypeOf(r)] <=>
                \E e \in Applied(Writing) : inbox[e].request.rev = r
        BY DEF InboxInv, EffectsMatchEvents, OneAuthor
      <4>3. (\E e \in Applied(Writing)' : inbox'[e].request.rev = r) <=>
                \E e \in Applied(Writing) : inbox[e].request.rev = r
        BY <1>6, <3>2
      <4> QED
        BY <4>1, <4>2, <4>3
    <3> QED
      BY <3>1, <3>2
  <2>2. ASSUME NEW e \in Applied(Writing)', NEW f \in Applied(Writing)',
               inbox'[e].request.rev = inbox'[f].request.rev
        PROVE  e = f
    BY <1>6, <1>7, <2>2 DEF InboxInv, EffectsMatchEvents, OneAuthor
  <2> QED
    BY <2>1, <2>2 DEF OneAuthor
<1>9. OneStart'
  BY <1>3, StartKept DEF Writing
<1>10. OneDecider'
  BY <1>5, DeciderKept DEF Decision, Writing
<1> QED
  BY <1>8, <1>9, <1>10 DEF EffectsMatchEvents

\* A step of anyone keeps events and rows together.
LEMMA EffectsStep ==
    ASSUME InboxInv, [InboxNext]_inboxVars
    PROVE  EffectsMatchEvents'
<1>1. ASSUME inbox' = inbox, decider' = decider, stage' = stage, current' = current,
             \A r \in Revision :
                 \/ rev'[r].review = rev[r].review
                 \/ rev[r].review = "NONE" /\ rev'[r].review = "PENDING"
      PROVE  EffectsMatchEvents'
  <2>1. \A A : /\ Applied(A)' = Applied(A)
               /\ \A e \in Applied(A) : inbox'[e] = inbox[e]
    BY <1>1 DEF Applied
  <2> QED
    BY <1>1, <2>1, NothingApplied
<1>2. CASE UNCHANGED inboxVars
  BY <1>1, <1>2 DEF inboxVars
<1>3. ASSUME NEW q \in Requests, Interrupted(q) PROVE EffectsMatchEvents'
  BY <1>1, <1>3 DEF Interrupted, ManualRevisionRolledBack
<1>4. CASE Machine
  <2>1. inbox' = inbox /\ decider' = decider
    BY <1>4 DEF Machine
  <2> QED
    BY <1>1, <1>4, <2>1, MachineRows DEF InboxInv
<1>5. ASSUME NEW d \in Delivery, NEW q \in Requests, Receive(d, q)
      PROVE  EffectsMatchEvents'
  <2>1. CASE OutcomeOf(q) # "APPLIED"
    BY <1>5, <2>1, ReceiveRefused
  <2>2. CASE OutcomeOf(q) = "APPLIED"
    <3>1. \/ q.action = "FEATURE" \/ q.action \in Decision \/ q.action \in Writing
      BY <2>2, OutcomeShape DEF Decision, Writing, Command
    <3> QED
      BY <1>5, <2>2, <3>1, ReceiveFeature, ReceiveDecision, ReceiveWriting
  <2> QED
    BY <2>1, <2>2
<1> QED
  BY <1>2, <1>3, <1>4, <1>5 DEF InboxNext

\* Initially there are no events and no rows.
LEMMA EffectsInit == InboxInit => EffectsMatchEvents
<1> SUFFICES ASSUME InboxInit PROVE EffectsMatchEvents
  OBVIOUS
<1>1. \A A : Applied(A) = {}
  BY DEF InboxInit, NoEvent, Applied
<1>2. OneStart
  BY <1>1 DEF OneStart, InboxInit, Init
<1>3. OneDecider
  BY <1>1 DEF OneDecider, InboxInit, Init, NoRevision
<1>4. OneAuthor
  BY <1>1, RevisionShape DEF OneAuthor, InboxInit, Init
<1> QED
  BY <1>2, <1>3, <1>4 DEF EffectsMatchEvents

\* Each applied event has its effect exactly once, on what it named, and there
\* is no effect without one.
THEOREM EffectsTheorem == InboxSpec => []EffectsMatchEvents
<1>1. InboxInit => EffectsMatchEvents
  BY EffectsInit
<1>2. Inv /\ InboxTypeOK /\ EffectsMatchEvents /\ [InboxNext]_inboxVars => EffectsMatchEvents'
  BY EffectsStep DEF InboxInv
<1> QED
  BY <1>1, <1>2, Behind, InboxTypeTheorem, PTL DEF InboxSpec
===============================================================================
