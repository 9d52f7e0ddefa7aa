---------------------- MODULE ImplementationInboxProofs ----------------------
(* Proofs about ImplementationInbox, for any deliveries, requests, workers  *)
(* and bounds: the execution behind the inbox is that of Execution, the     *)
(* events recorded as applied are exactly those behind the rows, and each   *)
(* failure is answered once.                                                *)
EXTENDS ImplementationInbox, ExecutionProofs, FiniteSetTheorems, FunctionTheorems

-------------------------------------------------------------------------------
(* The execution behind the inbox.                                         *)

\* A request names a revision.
LEMMA RequestShape ==
    \A q \in Requests : /\ q \in Request
                        /\ q.revision \in Revision
                        /\ q.action \in Decision \cup Recovery \cup {"ADDRESS"}
  BY RequestsAssumption DEF Request

\* Every step is one of the execution, or leaves the execution alone.
LEMMA StepIsStep == ASSUME [InboxNext]_inboxVars PROVE [Next]_vars
<1>1. CASE UNCHANGED inboxVars
  BY <1>1 DEF inboxVars, vars
<1>2. ASSUME NEW d \in Delivery, NEW q \in Requests, Receive(d, q) PROVE [Next]_vars
  <2>1. ASSUME Effect(q) PROVE Decide
    BY <2>1, RequestShape DEF Effect, Decide
  <2> QED
    BY <1>2, <2>1 DEF Receive, Next
<1>3. CASE Machine
  BY <1>3 DEF Machine, Next
<1> QED
  BY <1>1, <1>2, <1>3 DEF InboxNext

\* Requests that come late, repeatedly or out of order never make the execution
\* do what Execution does not: all that is true of it is true behind the inbox.
THEOREM ExecutionTheorem == InboxSpec => Spec
<1>1. InboxInit => Init
  BY DEF InboxInit
<1>2. [InboxNext]_inboxVars => [Next]_vars
  BY StepIsStep
<1> QED
  BY <1>1, <1>2, PTL DEF InboxSpec, Spec

-------------------------------------------------------------------------------
(* What the machine leaves to people.                                      *)

Decided == {"APPROVED", "CHANGES_REQUESTED"}

\* A revision and its review agree on what was decided.
ReviewsAgree ==
    \A r \in Revision :
        rev[r].status \in Decided \/ rev[r].review \in Decided => rev[r].status = rev[r].review

\* What no step of the machine changes: the decisions, the number of revisions,
\* the abandonment and the retries.
LeftToPeople ==
    /\ \A r \in Revision :
           \/ /\ rev[r].review \in Decided
              /\ rev'[r].review = rev[r].review /\ rev'[r].status = rev[r].status
           \/ /\ rev[r].review \notin Decided
              /\ rev'[r].review \notin Decided /\ rev'[r].status \notin Decided
    /\ \A r \in Revision : r < exec'.current <=> r < exec.current
    /\ exec'.status = "CANCELLED" <=> exec.status = "CANCELLED"
    /\ outbox \subseteq outbox'
    /\ \A n \in outbox' : n[1] = "RETRY_QUEUED" => n \in outbox
    /\ IsFiniteSet(outbox) => IsFiniteSet(outbox')

\* A step that leaves the rows of people alone.
LEMMA RowsLeft ==
    ASSUME Inv, ReviewsAgree, UNCHANGED <<rev, outbox>>,
           exec'.current = exec.current,
           exec'.status = "CANCELLED" <=> exec.status = "CANCELLED"
    PROVE  LeftToPeople
  BY DEF LeftToPeople, ReviewsAgree

\* The steps of the machine.
LEMMA MachineLeaves == ASSUME Inv, ReviewsAgree, Machine PROVE LeftToPeople
<1>0. /\ exec \in ExecutionRow /\ exec.current \in Nat /\ rev \in [Revision -> RevisionRow]
      /\ \A r \in Revision : rev[r] \in RevisionRow
  BY DEF Inv, Typed, TypeOK, ExecutionRow
<1>1. CASE UpstreamMoves \/ ArtifactAttemptFails \/ LeftoverWrites
  BY <1>1, RowsLeft DEF UpstreamMoves, ArtifactAttemptFails, LeftoverWrites, database
<1>2. ASSUME NEW j \in Job, LeaseExpires(j) \/ \E w \in Workers : Claim(w, j)
      PROVE  LeftToPeople
  BY <1>2, RowsLeft DEF LeaseExpires, Claim
<1>3. ASSUME NEW w \in Workers,
             \/ Load(w) \/ CancelStaleJob(w) \/ GiveUp(w) \/ OperationFails(w) \/ Crash(w)
             \/ PrepareWorktree(w) \/ Bootstrap(w) \/ AgentEdits(w) \/ AgentReturns(w)
             \/ QueueVerification(w) \/ RunChecks(w) \/ CommitAndPush(w) \/ PushFails(w)
             \/ PublishRaises(w) \/ CompareRemote(w) \/ RemoveWorktree(w) \/ ForceRemove(w)
      PROVE  LeftToPeople
  <2>1. UNCHANGED <<rev, outbox, exec>>
    BY <1>3 DEF Load, CancelStaleJob, GiveUp, OperationFails, Crash, PrepareWorktree, Bootstrap,
       AgentEdits, AgentReturns, QueueVerification, RunChecks, CommitAndPush, PushFails,
       PublishRaises, CompareRemote, RemoveWorktree, ForceRemove, database
  <2> QED
    BY <2>1, RowsLeft
<1>4. ASSUME NEW w \in Workers, OpenExecution(w) \/ RecordWorktree(w) \/ RecordCleanup(w)
      PROVE  LeftToPeople
  <2>1. /\ UNCHANGED <<rev, outbox>> /\ exec'.current = exec.current
        /\ exec'.status = "CANCELLED" <=> exec.status = "CANCELLED"
    BY <1>0, <1>4 DEF OpenExecution, RecordWorktree, RecordCleanup, ExecutionRow, Moved
  <2> QED
    BY <2>1, RowsLeft
<1>5. ASSUME NEW w \in Workers, OpenFirstRevision(w) PROVE LeftToPeople
  <2>1. exec.current = 0 /\ 1 \in Revision
    BY <1>5, Holding, JobShape DEF OpenFirstRevision, ClaimMatches
  <2>2. rev[1] = NoRevision
    BY <2>1 DEF Inv, RevisionHistory
  <2>3. /\ \A r \in Revision : r # 1 => rev'[r] = rev[r]
        /\ rev'[1].status = "UPDATING" /\ rev'[1].review = "NONE"
    BY <1>0, <1>5, <2>1, <2>2 DEF OpenFirstRevision, NoRevision
  <2>4. /\ exec'.current \in {0, 1} /\ exec'.status = exec.status /\ outbox' = outbox
    BY <1>0, <1>5, <2>1 DEF OpenFirstRevision, ExecutionRow
  <2>5. \A r \in Revision : ~(r < 0) /\ ~(r < 1)
    BY DEF Revision
  <2>6. rev[1].review = "NONE"
    BY <2>2 DEF NoRevision
  <2> QED
    BY <2>1, <2>3, <2>4, <2>5, <2>6 DEF LeftToPeople, ReviewsAgree, Decided
<1>6. ASSUME NEW w \in Workers, PublishReview(w) PROVE LeftToPeople
  <2>1. PICK r \in Revision : r = Target(w)
    BY ClaimTypes DEF Inv
  <2>2. exec.status = "RUNNING" /\ rev[r].status = "UPDATING" /\ exec.current = r
    BY <1>6, <2>1, Holding DEF PublishReview, ClaimMatches
  <2>3. rev'[r].status = "REVIEW" /\ rev'[r].review = "PENDING" /\ rev[r].review \notin Decided
    BY <1>0, <1>6, <2>1, <2>2 DEF PublishReview, RevisionRow, Moved, ReviewsAgree, Decided
  <2>4. ASSUME NEW q \in Revision, q # r
        PROVE  rev'[q].review = rev[q].review /\ rev'[q].status = rev[q].status
    BY <1>0, <1>6, <2>1, <2>4 DEF PublishReview, RevisionRow
  <2>5. exec'.current = exec.current /\ exec'.status = "SUCCEEDED"
    BY <1>0, <1>6, <2>2 DEF PublishReview, ExecutionRow, Moved
  <2>6. outbox' = (outbox \cup {<<"STAGE_UPDATED", "VERIFICATION", version + 1>>})
                      \cup {<<"REVIEW_REQUIRED", r>>}
    BY <1>6, <2>1 DEF PublishReview
  <2>7. IsFiniteSet(outbox) => IsFiniteSet(outbox')
    BY <2>6, FS_AddElement
  <2>8. \A q \in Revision : rev'[q].review \in Decided <=> rev[q].review \in Decided
    BY <2>3, <2>4 DEF Decided
  <2> QED
    BY <2>2, <2>3, <2>4, <2>5, <2>6, <2>7, <2>8 DEF LeftToPeople, ReviewsAgree, Decided
<1>7. ASSUME NEW w \in Workers, CloseExecution(w) PROVE LeftToPeople
  <2>1. exec.status = "SUCCEEDED" /\ rev' = rev
    BY <1>7, Holding DEF CloseExecution
  <2>2. /\ exec'.current = exec.current /\ exec'.status \in {"SUCCEEDED", "CLOSED"}
    BY <1>0, <1>7, <2>1 DEF CloseExecution, ExecutionRow, Moved
  <2>3. outbox' = outbox \/ outbox' = outbox \cup {<<"STAGE_UPDATED", "DONE", version + 1>>}
    BY <1>7 DEF CloseExecution
  <2>4. IsFiniteSet(outbox) => IsFiniteSet(outbox')
    BY <2>3, FS_AddElement
  <2> QED
    BY <2>1, <2>2, <2>3, <2>4 DEF LeftToPeople, ReviewsAgree
<1>8. ASSUME NEW w \in Workers, Fail(w) PROVE LeftToPeople
  <2>1. CASE ~JobIsCurrent(w)
    BY <1>8, <2>1, RowsLeft DEF Fail
  <2>2. CASE JobIsCurrent(w)
    <3>1. PICK r \in Revision : r = Target(w)
      BY ClaimTypes DEF Inv
    <3>2. /\ exec'.current = exec.current
          /\ exec'.status = "CANCELLED" <=> exec.status = "CANCELLED"
      BY <1>0, <1>8, <2>2 DEF Fail, ExecutionRow, Moved
    <3>3. outbox' = outbox \cup {FailureNotice(w)} /\ FailureNotice(w)[1] = "FAILED"
      BY <1>8, <2>2 DEF Fail, FailureNotice
    <3>4. IsFiniteSet(outbox) => IsFiniteSet(outbox')
      BY <3>3, FS_AddElement
    <3>5. ASSUME NEW q \in Revision
          PROVE  /\ rev'[q].review = rev[q].review
                 /\ \/ rev'[q].status = rev[q].status
                    \/ rev[q].status = "UPDATING" /\ rev'[q].status = "FAILED"
      BY <1>0, <1>8, <2>2, <3>1 DEF Fail, RevisionRow, Moved
    <3> QED
      BY <3>2, <3>3, <3>4, <3>5 DEF LeftToPeople, ReviewsAgree, Decided
  <2> QED
    BY <2>1, <2>2
<1> QED
  BY <1>1, <1>2, <1>3, <1>4, <1>5, <1>6, <1>7, <1>8 DEF Machine, Proceed

-------------------------------------------------------------------------------
(* The events.                                                             *)

\* The invariant: the rows of people agree with each other and with the events.
InboxInv ==
    /\ InboxTypeOK
    /\ ReviewsAgree
    /\ EffectsMatchEvents

\* A delivery is recorded once, and joins those that were applied if it is.
LEMMA EventStep ==
    ASSUME InboxTypeOK, NEW d \in Delivery, NEW q \in Requests, Receive(d, q)
    PROVE  /\ InboxTypeOK'
           /\ inbox'[d].request = q /\ inbox'[d].outcome = OutcomeOf(q)
           /\ inbox[d].outcome = "NONE"
           /\ \A e \in Delivery : e # d => inbox'[e] = inbox[e]
<1>1. OutcomeOf(q) \in {"APPLIED", "REJECTED", "STALE"}
  BY DEF OutcomeOf
<1>2. [request |-> q, outcome |-> OutcomeOf(q)] \in Event
  BY <1>1 DEF Event
<1>3. decider' \in [Revision -> Delivery \cup {Nobody}]
  BY DEF Receive, InboxTypeOK
<1>4. inbox' = [inbox EXCEPT ![d] = [request |-> q, outcome |-> OutcomeOf(q)]]
  BY DEF Receive
<1> QED
  BY <1>1, <1>2, <1>3, <1>4 DEF Receive, Recorded, InboxTypeOK

\* The applied events of a kind, after a delivery.
LEMMA AppliedStep ==
    ASSUME InboxTypeOK, NEW d \in Delivery, NEW q \in Requests, Receive(d, q), NEW A
    PROVE  /\ d \notin Applied(A)
           /\ Applied(A)' = IF OutcomeOf(q) = "APPLIED" /\ q.action \in A
                            THEN Applied(A) \cup {d} ELSE Applied(A)
           /\ \A e \in Applied(A) : e \in Delivery /\ inbox'[e] = inbox[e]
<1>1. /\ inbox'[d].request = q /\ inbox'[d].outcome = OutcomeOf(q)
      /\ inbox[d].outcome = "NONE"
      /\ \A e \in Delivery : e # d => inbox'[e] = inbox[e]
  BY EventStep
<1> QED
  BY <1>1 DEF Applied

\* While the machine works, what people did stays, and so do their events.
LEMMA MachineEvents ==
    ASSUME Inv, InboxInv, LeftToPeople, UNCHANGED <<inbox, decider>> PROVE InboxInv'
<1>1. \A A : Applied(A)' = Applied(A)
  BY DEF Applied
<1>2. \A r \in Revision :
          \/ /\ rev[r].review \in Decided
             /\ rev'[r].review = rev[r].review /\ rev'[r].status = rev[r].status
          \/ /\ rev[r].review \notin Decided
             /\ rev'[r].review \notin Decided /\ rev'[r].status \notin Decided
  BY DEF LeftToPeople
<1>3. ReviewsAgree' /\ InboxTypeOK'
  BY <1>2 DEF InboxInv, ReviewsAgree, InboxTypeOK
<1>4. OneDecider'
  BY <1>1, <1>2 DEF InboxInv, EffectsMatchEvents, OneDecider, Decided
<1>5. OneAuthor' /\ OneEnd'
  BY <1>1 DEF InboxInv, EffectsMatchEvents, OneAuthor, OneEnd, LeftToPeople
<1> QED
  BY <1>3, <1>4, <1>5 DEF InboxInv, EffectsMatchEvents

\* A delivery that is refused, or overtaken, leaves no trace but itself.
LEMMA RefusedEvents ==
    ASSUME Inv, InboxInv, NEW d \in Delivery, NEW q \in Requests, Receive(d, q),
           OutcomeOf(q) # "APPLIED"
    PROVE  InboxInv'
<1>1. UNCHANGED <<rev, exec, decider>>
  BY DEF Receive, vars, database
<1>2. InboxTypeOK /\ InboxTypeOK'
  BY EventStep DEF InboxInv
<1>3. \A A : Applied(A)' = Applied(A) /\ \A e \in Applied(A) : inbox'[e] = inbox[e]
  BY <1>2, AppliedStep
<1>4. ReviewsAgree' /\ OneAuthor' /\ OneEnd'
  BY <1>1, <1>3 DEF InboxInv, ReviewsAgree, EffectsMatchEvents, OneAuthor, OneEnd
<1>5. OneDecider'
  <2>1. \A e \in Applied(Decision) : decider[inbox'[e].request.revision] = e
    BY <1>3 DEF InboxInv, EffectsMatchEvents, OneDecider
  <2>2. ASSUME NEW r \in Revision
        PROVE  /\ decider[r] # Nobody =>
                      decider[r] \in Applied(Decision) /\ inbox'[decider[r]] = inbox[decider[r]]
               /\ rev[r].review \in {"APPROVED", "CHANGES_REQUESTED"} <=> decider[r] # Nobody
               /\ decider[r] # Nobody => inbox[decider[r]].request.revision = r
               /\ rev[r].review = "APPROVED" => inbox[decider[r]].request.action = "APPROVE"
               /\ rev[r].review = "CHANGES_REQUESTED" =>
                      inbox[decider[r]].request.action = "REQUEST_CHANGES"
    BY <1>3 DEF InboxInv, EffectsMatchEvents, OneDecider
  <2> QED
    BY <1>1, <1>3, <2>1, <2>2 DEF OneDecider
<1> QED
  BY <1>2, <1>4, <1>5 DEF InboxInv, EffectsMatchEvents

\* What is applied was to be had.
LEMMA AppliedEffect ==
    ASSUME NEW d \in Delivery, NEW q \in Requests, Receive(d, q), OutcomeOf(q) = "APPLIED"
    PROVE  /\ Effect(q) /\ ~TooLate(q)
           /\ decider' = IF q.action \in Decision
                         THEN [decider EXCEPT ![q.revision] = d] ELSE decider
  BY DEF Receive, OutcomeOf

\* A decision becomes that of the revision it names.
LEMMA DecisionEvents ==
    ASSUME Inv, InboxInv, NEW d \in Delivery, NEW q \in Requests, Receive(d, q),
           OutcomeOf(q) = "APPLIED", q.action \in Decision
    PROVE  InboxInv'
<1>0. InboxTypeOK /\ InboxTypeOK' /\ rev \in [Revision -> RevisionRow]
      /\ \A s \in Revision : rev[s] \in RevisionRow
  BY EventStep DEF InboxInv, Inv, Typed, TypeOK
<1>r. PICK r \in Revision : r = q.revision
  BY RequestShape
<1>1. /\ \/ q.action = "APPROVE" /\ Approve(r)
         \/ q.action = "REQUEST_CHANGES" /\ RequestChanges(r)
      /\ decider' = [decider EXCEPT ![r] = d]
  <2>1. Effect(q) /\ decider' = [decider EXCEPT ![r] = d]
    BY <1>r, AppliedEffect
  <2>2. CASE q.action = "APPROVE"
    <3>1. Approve(q.revision)
      BY <2>1, <2>2 DEF Effect
    <3> QED
      BY <1>r, <2>1, <2>2, <3>1
  <2>3. CASE q.action = "REQUEST_CHANGES"
    <3>1. RequestChanges(q.revision)
      BY <2>1, <2>3 DEF Effect
    <3> QED
      BY <1>r, <2>1, <2>3, <3>1
  <2> QED
    BY <2>2, <2>3 DEF Decision
<1>2. rev[r].status = "REVIEW" /\ rev[r].review = "PENDING" /\ exec' = exec
  BY <1>1 DEF Approve, RequestChanges, Reviewable
<1>3. /\ \A s \in Revision : s # r => rev'[s] = rev[s]
      /\ rev'[r].status = rev'[r].review
      /\ rev'[r].review = IF q.action = "APPROVE" THEN "APPROVED" ELSE "CHANGES_REQUESTED"
  BY <1>0, <1>1 DEF Approve, RequestChanges, RevisionRow
<1>4. /\ inbox'[d].request = q
      /\ d \notin Applied(Decision) /\ Applied(Decision)' = Applied(Decision) \cup {d}
      /\ \A e \in Applied(Decision) : inbox'[e] = inbox[e]
  BY <1>0, EventStep, AppliedStep
<1>5. decider[r] = Nobody
  BY <1>2 DEF InboxInv, EffectsMatchEvents, OneDecider
<1>6. \A s \in Revision : decider'[s] = IF s = r THEN d ELSE decider[s]
  BY <1>0, <1>1 DEF InboxTypeOK
<1>7. OneDecider'
  <2>1. ASSUME NEW e \in Applied(Decision)'
        PROVE  decider'[inbox'[e].request.revision] = e
    <3>1. CASE e = d
      BY <1>r, <1>4, <1>6, <3>1
    <3>2. CASE e # d
      <4>1. /\ e \in Applied(Decision) /\ inbox'[e] = inbox[e] /\ e \in Delivery
            /\ decider[inbox[e].request.revision] = e
        BY <1>4, <2>1, <3>2 DEF InboxInv, EffectsMatchEvents, OneDecider, Applied
      <4>2. inbox[e].request.revision \in Revision
        <5>1. inbox[e].request \in Requests \/ inbox[e].request = NoRequest
          BY <1>0, <4>1 DEF InboxTypeOK, Event
        <5>2. NoRequest.revision = 1 /\ 1 \in Revision
          BY JobShape DEF NoRequest
        <5> QED
          BY <5>1, <5>2, RequestShape
      <4>3. inbox[e].request.revision # r
        BY <1>5, <4>1, NobodyAssumption
      <4> QED
        BY <1>6, <4>1, <4>2, <4>3
    <3> QED
      BY <3>1, <3>2
  <2>2. ASSUME NEW s \in Revision, s # r
        PROVE  /\ decider'[s] # Nobody =>
                      decider'[s] \in Applied(Decision)' /\ inbox'[decider'[s]].request.revision = s
               /\ rev'[s].review \in {"APPROVED", "CHANGES_REQUESTED"} <=> decider'[s] # Nobody
               /\ rev'[s].review = "APPROVED" => inbox'[decider'[s]].request.action = "APPROVE"
               /\ rev'[s].review = "CHANGES_REQUESTED" =>
                      inbox'[decider'[s]].request.action = "REQUEST_CHANGES"
    BY <1>3, <1>4, <1>6, <2>2 DEF InboxInv, EffectsMatchEvents, OneDecider
  <2>3. /\ decider'[r] = d /\ d # Nobody /\ d \in Applied(Decision)'
        /\ inbox'[d].request.revision = r
        /\ rev'[r].review = "APPROVED" => q.action = "APPROVE"
        /\ rev'[r].review = "CHANGES_REQUESTED" => q.action = "REQUEST_CHANGES"
        /\ rev'[r].review \in {"APPROVED", "CHANGES_REQUESTED"}
    BY <1>r, <1>1, <1>3, <1>4, <1>6, NobodyAssumption
  <2> QED
    BY <1>4, <2>1, <2>2, <2>3 DEF OneDecider
<1>8. OneAuthor' /\ OneEnd'
  <2>1. "ADDRESS" # q.action /\ "ABANDON" # q.action
    BY <1>1
  <2>2. /\ Applied({"ADDRESS"})' = Applied({"ADDRESS"}) /\ Applied({"ABANDON"})' = Applied({"ABANDON"})
        /\ \A e \in Applied({"ADDRESS"}) : inbox'[e] = inbox[e]
    BY <1>0, <2>1, AppliedStep
  <2> QED
    BY <1>2, <2>2 DEF InboxInv, EffectsMatchEvents, OneAuthor, OneEnd
<1>9. ReviewsAgree'
  BY <1>3 DEF InboxInv, ReviewsAgree
<1> QED
  BY <1>0, <1>7, <1>8, <1>9 DEF InboxInv, EffectsMatchEvents

\* An event that decides nothing leaves every decision with its decider.
LEMMA DecidersKept ==
    ASSUME InboxInv, NEW d \in Delivery, NEW q \in Requests, Receive(d, q),
           q.action \notin Decision,
           \A r \in Revision : rev'[r].review = rev[r].review
    PROVE  OneDecider'
<1>1. InboxTypeOK /\ decider' = decider
  BY DEF Receive, InboxInv
<1>2. /\ Applied(Decision)' = Applied(Decision)
      /\ \A e \in Applied(Decision) : inbox'[e] = inbox[e]
  BY <1>1, AppliedStep
<1>3. \A r \in Revision : decider[r] # Nobody => inbox'[decider[r]] = inbox[decider[r]]
  BY <1>2 DEF InboxInv, EffectsMatchEvents, OneDecider
<1>4. \A r \in Revision : rev[r].review \in {"APPROVED", "CHANGES_REQUESTED"} <=> decider[r] # Nobody
  BY DEF InboxInv, EffectsMatchEvents, OneDecider
<1>5. ASSUME NEW r \in Revision
      PROVE  /\ decider'[r] # Nobody =>
                    decider'[r] \in Applied(Decision)' /\ inbox'[decider'[r]].request.revision = r
             /\ rev'[r].review \in {"APPROVED", "CHANGES_REQUESTED"} <=> decider'[r] # Nobody
             /\ rev'[r].review = "APPROVED" => inbox'[decider'[r]].request.action = "APPROVE"
             /\ rev'[r].review = "CHANGES_REQUESTED" =>
                    inbox'[decider'[r]].request.action = "REQUEST_CHANGES"
  BY <1>1, <1>2, <1>3, <1>4 DEF InboxInv, EffectsMatchEvents, OneDecider
<1>6. \A e \in Applied(Decision)' : decider'[inbox'[e].request.revision] = e
  BY <1>1, <1>2 DEF InboxInv, EffectsMatchEvents, OneDecider
<1> QED
  BY <1>5, <1>6 DEF OneDecider

\* The next revision is that of the event that asked for it.
LEMMA AddressEvents ==
    ASSUME Inv, InboxInv, NEW d \in Delivery, NEW q \in Requests, Receive(d, q),
           OutcomeOf(q) = "APPLIED", q.action = "ADDRESS"
    PROVE  InboxInv'
<1>0. InboxTypeOK /\ InboxTypeOK' /\ rev \in [Revision -> RevisionRow] /\ exec \in ExecutionRow
      /\ \A s \in Revision : rev[s] \in RevisionRow
  BY EventStep DEF InboxInv, Inv, Typed, TypeOK
<1>r. PICK r \in Revision : r = q.revision
  BY RequestShape
<1>1. AddressWithAgent(r)
  BY <1>r, AppliedEffect DEF Effect, Decision
<1>2. /\ exec.current = r /\ exec.status = "SUCCEEDED" /\ r \in Nat /\ r + 1 \in Revision
      /\ ~(r + 1 <= r) /\ r + 1 > r
  BY <1>1, BoundsAssumption DEF AddressWithAgent, Revision
<1>3. rev[r + 1] = NoRevision
  BY <1>2 DEF Inv, RevisionHistory
<1>4. /\ \A s \in Revision : rev'[s].review = rev[s].review
      /\ \A s \in Revision : s # r + 1 => rev'[s] = rev[s]
      /\ rev'[r + 1].status = "UPDATING" /\ rev'[r + 1].review = "NONE"
  BY <1>0, <1>1, <1>2, <1>3 DEF AddressWithAgent, RevisionRow, NoRevision
<1>5. exec'.current = r + 1 /\ exec'.status = "RUNNING"
  BY <1>0, <1>1 DEF AddressWithAgent, ExecutionRow
<1>6. OneDecider'
  BY <1>4, DecidersKept DEF Decision
<1>7. ReviewsAgree'
  BY <1>4 DEF InboxInv, ReviewsAgree, Decided
<1>8. /\ inbox'[d].request = q
      /\ d \notin Applied({"ADDRESS"}) /\ Applied({"ADDRESS"})' = Applied({"ADDRESS"}) \cup {d}
      /\ \A e \in Applied({"ADDRESS"}) : inbox'[e] = inbox[e]
      /\ Applied({"ABANDON"})' = Applied({"ABANDON"})
  BY <1>0, EventStep, AppliedStep
<1>9. \A s \in Revision : s < r + 1 <=> s < r \/ s = r
  BY <1>2 DEF Revision
<1>10. \A e \in Applied({"ADDRESS"}) : inbox[e].request.revision # r
  <2> SUFFICES ASSUME NEW e \in Applied({"ADDRESS"}), inbox[e].request.revision = r PROVE FALSE
    OBVIOUS
  <2>1. r < exec.current
    BY DEF InboxInv, EffectsMatchEvents, OneAuthor
  <2> QED
    BY <1>2, <2>1
<1>11. OneAuthor'
  <2>1. ASSUME NEW s \in Revision
        PROVE  s < exec'.current <=> \E e \in Applied({"ADDRESS"})' : inbox'[e].request.revision = s
    BY <1>r, <1>2, <1>5, <1>8, <1>9 DEF InboxInv, EffectsMatchEvents, OneAuthor
  <2>2. ASSUME NEW e \in Applied({"ADDRESS"})', NEW f \in Applied({"ADDRESS"})',
               inbox'[e].request.revision = inbox'[f].request.revision
        PROVE  e = f
    BY <1>r, <1>8, <1>10, <2>2 DEF InboxInv, EffectsMatchEvents, OneAuthor
  <2> QED
    BY <2>1, <2>2 DEF OneAuthor
<1>12. OneEnd'
  BY <1>2, <1>5, <1>8 DEF InboxInv, EffectsMatchEvents, OneEnd
<1> QED
  BY <1>0, <1>6, <1>7, <1>11, <1>12 DEF InboxInv, EffectsMatchEvents

\* A recovery leaves the revisions and their reviews, and ends the execution or
\* not.
LEMMA RecoveryEvents ==
    ASSUME Inv, InboxInv, NEW d \in Delivery, NEW q \in Requests, Receive(d, q),
           OutcomeOf(q) = "APPLIED", q.action \in Recovery
    PROVE  InboxInv'
<1>0. InboxTypeOK /\ InboxTypeOK' /\ rev \in [Revision -> RevisionRow] /\ exec \in ExecutionRow
      /\ (\A s \in Revision : rev[s] \in RevisionRow) /\ q.action \notin Decision
  BY EventStep DEF InboxInv, Inv, Typed, TypeOK, Recovery, Decision
<1>1. \/ q.action = "ABANDON" /\ Abandon
      \/ q.action = "RETRY" /\ \E j \in Job : Retry(j)
  BY AppliedEffect DEF Effect, Recovery
<1>2. /\ exec'.current = exec.current
      /\ \A s \in Revision : rev'[s].review = rev[s].review
      /\ \A s \in Revision : \/ rev'[s].status = rev[s].status
                             \/ rev[s].status = "FAILED" /\ rev'[s].status = "UPDATING"
  <2>1. CASE Abandon
    BY <1>0, <2>1 DEF Abandon, ExecutionRow
  <2>2. ASSUME NEW j \in Job, Retry(j)
        PROVE  /\ exec'.current = exec.current
               /\ \A s \in Revision : rev'[s].review = rev[s].review
               /\ \A s \in Revision : \/ rev'[s].status = rev[s].status
                                      \/ rev[s].status = "FAILED" /\ rev'[s].status = "UPDATING"
    BY <1>0, <2>2 DEF Retry, RetryAllowed, RevisionRow, ExecutionRow
  <2> QED
    BY <1>1, <2>1, <2>2
<1>3. /\ exec'.status = "CANCELLED" <=> exec.status = "CANCELLED" \/ q.action = "ABANDON"
      /\ q.action = "ABANDON" => exec.status # "CANCELLED"
  <2>1. CASE q.action = "ABANDON"
    BY <1>0, <1>1, <2>1 DEF Abandon, ExecutionRow
  <2>2. CASE q.action = "RETRY"
    <3>1. PICK j \in Job : Retry(j)
      BY <1>1, <2>2
    <3> QED
      BY <1>0, <2>2, <3>1 DEF Retry, RetryAllowed, ExecutionRow
  <2> QED
    BY <1>1, <2>1, <2>2
<1>4. OneDecider'
  BY <1>0, <1>2, DecidersKept
<1>5. ReviewsAgree'
  BY <1>2 DEF InboxInv, ReviewsAgree, Decided
<1>6. OneAuthor'
  <2>1. /\ Applied({"ADDRESS"})' = Applied({"ADDRESS"})
        /\ \A e \in Applied({"ADDRESS"}) : inbox'[e] = inbox[e]
    BY <1>0, <1>1, AppliedStep
  <2> QED
    BY <1>2, <2>1 DEF InboxInv, EffectsMatchEvents, OneAuthor
<1>7. OneEnd'
  <2>1. Applied({"ABANDON"})' = IF q.action = "ABANDON" THEN Applied({"ABANDON"}) \cup {d}
                                ELSE Applied({"ABANDON"})
    BY <1>0, AppliedStep
  <2> QED
    BY <1>3, <2>1 DEF InboxInv, EffectsMatchEvents, OneEnd
<1> QED
  BY <1>0, <1>4, <1>5, <1>6, <1>7 DEF InboxInv, EffectsMatchEvents

\* Initially nobody has asked for anything.
LEMMA InboxStarts == InboxInit => InboxInv
<1> SUFFICES ASSUME InboxInit PROVE InboxInv
  OBVIOUS
<1>1. InboxTypeOK
  BY DEF InboxInit, InboxTypeOK, NoEvent, Event
<1>2. \A A : Applied(A) = {}
  BY DEF InboxInit, Applied, NoEvent
<1>3. /\ \A r \in Revision : rev[r] = NoRevision /\ decider[r] = Nobody /\ ~(r < 0)
      /\ exec.current = 0 /\ exec.status = "NONE"
  BY DEF InboxInit, Init, Revision
<1> QED
  BY <1>1, <1>2, <1>3 DEF InboxInv, ReviewsAgree, Decided, NoRevision, EffectsMatchEvents,
     OneDecider, OneAuthor, OneEnd

\* Every step of the inbox keeps rows and events together.
LEMMA InboxSteps == Inv /\ InboxInv /\ [InboxNext]_inboxVars => InboxInv'
<1> SUFFICES ASSUME Inv, InboxInv, [InboxNext]_inboxVars PROVE InboxInv'
  OBVIOUS
<1>1. ASSUME NEW d \in Delivery, NEW q \in Requests, Receive(d, q) PROVE InboxInv'
  <2>1. q.action \in Decision \cup Recovery \cup {"ADDRESS"}
    BY RequestShape
  <2> QED
    BY <1>1, <2>1, RefusedEvents, DecisionEvents, AddressEvents, RecoveryEvents
<1>2. CASE Machine
  BY <1>2, MachineLeaves, MachineEvents DEF Machine, InboxInv
<1>3. CASE UNCHANGED inboxVars
  <2>1. UNCHANGED <<rev, exec, outbox, inbox, decider>>
    BY <1>3 DEF inboxVars, vars, database
  <2> QED
    BY <2>1, RowsLeft, MachineEvents DEF InboxInv
<1> QED
  BY <1>1, <1>2, <1>3 DEF InboxNext

\* The invariants of the execution hold behind the inbox, with its own.
LEMMA Behind == InboxSpec => [](Inv /\ InboxInv)
<1>1. InboxInit => Inv /\ InboxInv
  BY InvInit, InboxStarts DEF InboxInit
<1>2. Inv /\ InboxInv /\ [InboxNext]_inboxVars => Inv' /\ InboxInv'
  BY StepIsStep, InvNext, InboxSteps
<1> QED
  BY <1>1, <1>2, PTL DEF InboxSpec

\* Each event that is recorded as applied had its effect, on the revision it
\* named, and nothing was decided, asked for or given up but by such an event.
THEOREM EffectsTheorem == InboxSpec => []EffectsMatchEvents
<1>1. InboxInv => EffectsMatchEvents
  BY DEF InboxInv
<1> QED
  BY <1>1, Behind, PTL

\* The inbox and the deciders are well typed.
THEOREM InboxTypeTheorem == InboxSpec => []InboxTypeOK
<1>1. InboxInv => InboxTypeOK
  BY DEF InboxInv
<1> QED
  BY <1>1, Behind, PTL

-------------------------------------------------------------------------------
(* The failures and their answers.                                         *)

\* A retry that was announced is of an earlier attempt than the one that runs
\* or has failed.
RetriesFresh ==
    \A j \in Job, a \in 1..MaxAttempts : <<"RETRY_QUEUED", j, a>> \in outbox =>
        \/ a <= job[j].attempts
        \/ a = job[j].attempts + 1 /\ job[j].status \notin {"RUNNING", "FAILED"}

\* The a-th attempt of j has failed and was not tried again.
Unanswered(j, a) ==
    /\ <<"FAILED", j, a>> \in outbox
    /\ <<"RETRY_QUEUED", j, a + 1>> \notin outbox

\* Behind a failed execution there is a failed operation of it, and behind an
\* abandoned one the failure it was abandoned for.
FailuresLast ==
    /\ exec.status = "FAILED" => \E j \in Job : j # Cleanup /\ job[j].status = "FAILED"
    /\ exec.status = "CANCELLED" =>
           \E j \in Job, a \in 1..MaxAttempts : j # Cleanup /\ Unanswered(j, a)

\* As many retries were applied as were announced.
RetriesCounted ==
    /\ IsFiniteSet(outbox)
    /\ IsFiniteSet(Applied({"RETRY"}))
    /\ Cardinality(Applied({"RETRY"})) = Cardinality(Notices("RETRY_QUEUED"))

RecoveryInv == RetriesFresh /\ FailuresLast /\ RetriesCounted

\* What a row of a job does when nobody recovers it.
RowFollows(i) ==
    /\ job[i].status = "FAILED" => job'[i].status = "FAILED"
    /\ \/ /\ job'[i].attempts = job[i].attempts
          /\ job'[i].status \in {"RUNNING", "FAILED"} => job[i].status \in {"RUNNING", "FAILED"}
       \/ job'[i].attempts = job[i].attempts + 1

FailuresStay ==
    /\ \A i \in Job : RowFollows(i)
    /\ exec'.status = "FAILED" =>
           exec.status = "FAILED" \/ \E j \in Job : j # Cleanup /\ job'[j].status = "FAILED"

\* A notice of a retry tells of which job and which attempt.
LEMMA NoticeShape ==
    ASSUME TypeOK, NEW n \in outbox, n[1] \in {"RETRY_QUEUED", "FAILED"}
    PROVE  \E j \in Job, a \in 1..MaxAttempts : n = <<n[1], j, a>>
<1>1. n \in Notice
  BY DEF TypeOK
<1>2. CASE n \in {"STAGE_UPDATED"} \X Stage \X Nat
  BY <1>2
<1>3. CASE n \in {"REVIEW_REQUIRED", "CHANGES_REQUESTED"} \X Revision
  BY <1>3
<1>4. CASE n \in {"FAILED", "RETRY_QUEUED"} \X Job \X (1..MaxAttempts)
  BY <1>4
<1>5. CASE n = <<"ABANDONED">>
  BY <1>5
<1> QED
  BY <1>1, <1>2, <1>3, <1>4, <1>5 DEF Notice

\* Closing and queueing leave the failed rows and count no attempts.
LEMMA ClosedFollows ==
    ASSUME Inv, NEW w \in Workers, NEW s \in {"SUCCEEDED", "FAILED", "CANCELLED"},
           NEW jobs, jobs = Closed(w, s),
           \/ job' = jobs
           \/ \E k \in Job, e \in Nat : job' = Queued(jobs, k, e)
    PROVE  \A i \in Job : RowFollows(i)
<1>1. TypeOK /\ job \in [Job -> JobRow] /\ s \in JobStatus
  BY DEF Inv, Typed, TypeOK, JobStatus
<1>2. /\ jobs \in [Job -> JobRow] /\ JobOf(w) \in Job
      /\ \A i \in Job : i # JobOf(w) => jobs[i] = job[i]
      /\ job[JobOf(w)].owner # w => jobs[JobOf(w)] = job[JobOf(w)]
      /\ job[JobOf(w)].owner = w =>
             jobs[JobOf(w)].status = s /\ jobs[JobOf(w)].attempts = job[JobOf(w)].attempts
  BY <1>1, ClosedRows
<1>3. job[JobOf(w)].owner = w => job[JobOf(w)].status = "RUNNING"
  BY <1>2, WorkersAssumption DEF Inv, JobsMatch
<1>4. \A i \in Job : /\ jobs[i].attempts = job[i].attempts
                     /\ \/ jobs[i].status = job[i].status
                        \/ job[i].status = "RUNNING" /\ jobs[i].status = s
  BY <1>2, <1>3
<1>5. CASE job' = jobs
  BY <1>4, <1>5 DEF RowFollows
<1>6. ASSUME NEW k \in Job, NEW e \in Nat, job' = Queued(jobs, k, e)
      PROVE  \A i \in Job : RowFollows(i)
  <2>1. /\ \A i \in Job : i # k => job'[i] = jobs[i]
        /\ jobs[k].status # "NONE" => job'[k] = jobs[k]
        /\ jobs[k].status = "NONE" => job'[k].status = "PENDING" /\ job'[k].attempts = 0
    BY <1>2, <1>6, QueuedRows
  <2>2. jobs[k].status = "NONE" => job[k].status = "NONE" /\ job[k].attempts = 0
    BY <1>4 DEF Inv, JobsMatch
  <2> QED
    BY <1>4, <2>1, <2>2 DEF RowFollows
<1> QED
  BY <1>5, <1>6

\* Queueing alone.
LEMMA QueuedFollows ==
    ASSUME Inv, NEW k \in Job, NEW e \in Nat, job' = Queued(job, k, e)
    PROVE  \A i \in Job : RowFollows(i)
<1>1. job \in [Job -> JobRow]
  BY DEF Inv, Typed, TypeOK
<1>2. /\ \A i \in Job : i # k => job'[i] = job[i]
      /\ job[k].status # "NONE" => job'[k] = job[k]
      /\ job[k].status = "NONE" => job'[k].status = "PENDING" /\ job'[k].attempts = 0
  BY <1>1, QueuedRows
<1>3. job[k].status = "NONE" => job[k].attempts = 0
  BY DEF Inv, JobsMatch
<1> QED
  BY <1>2, <1>3 DEF RowFollows

\* The machine leaves what has failed, and an execution fails with one of its
\* operations.
LEMMA MachineFails == ASSUME Inv, Machine PROVE FailuresStay
<1>0. /\ exec \in ExecutionRow /\ version \in Nat
      /\ job \in [Job -> JobRow] /\ claim \in [Workers -> ClaimedJob]
      /\ \A i \in Job : job[i] \in JobRow /\ job[i].expects \in Nat /\ job[i].attempts \in Nat
  BY DEF Inv, Typed, TypeOK, JobRow
<1>same. ASSUME UNCHANGED job PROVE \A i \in Job : RowFollows(i)
  BY <1>same DEF RowFollows
<1>1. CASE UpstreamMoves \/ ArtifactAttemptFails \/ LeftoverWrites
  BY <1>1, <1>same DEF UpstreamMoves, ArtifactAttemptFails, LeftoverWrites, database, FailuresStay
<1>2. ASSUME NEW j \in Job, LeaseExpires(j) PROVE FailuresStay
  <2>1. /\ \A i \in Job : i # j => job'[i] = job[i]
        /\ job'[j].status = job[j].status /\ job'[j].attempts = job[j].attempts /\ exec' = exec
    BY <1>0, <1>2 DEF LeaseExpires, JobRow
  <2> QED
    BY <2>1 DEF FailuresStay, RowFollows
<1>3. ASSUME NEW j \in Job, NEW w \in Workers, Claim(w, j) PROVE FailuresStay
  <2>1. /\ \A i \in Job : i # j => job'[i] = job[i]
        /\ job[j].status # "FAILED" /\ job'[j].attempts = job[j].attempts + 1 /\ exec' = exec
    BY <1>0, <1>3 DEF Claim, Claimable, JobRow
  <2> QED
    BY <2>1 DEF FailuresStay, RowFollows
<1>4. ASSUME NEW w \in Workers,
             \/ Load(w) \/ GiveUp(w) \/ OperationFails(w) \/ Crash(w)
             \/ PrepareWorktree(w) \/ Bootstrap(w) \/ AgentEdits(w) \/ AgentReturns(w)
             \/ RunChecks(w) \/ CommitAndPush(w) \/ PushFails(w)
             \/ PublishRaises(w) \/ CompareRemote(w) \/ RemoveWorktree(w) \/ ForceRemove(w)
      PROVE  FailuresStay
  <2>1. UNCHANGED <<job, exec>>
    BY <1>4 DEF Load, GiveUp, OperationFails, Crash, PrepareWorktree, Bootstrap,
       AgentEdits, AgentReturns, RunChecks, CommitAndPush, PushFails,
       PublishRaises, CompareRemote, RemoveWorktree, ForceRemove, database
  <2> QED
    BY <1>same, <2>1 DEF FailuresStay
<1>5. ASSUME NEW w \in Workers, CancelStaleJob(w) PROVE FailuresStay
  BY <1>5, ClosedFollows DEF CancelStaleJob, FailuresStay
<1>6. ASSUME NEW w \in Workers, OpenExecution(w) PROVE FailuresStay
  <2>1. exec'.status = "FAILED" => exec.status = "FAILED"
    BY <1>0, <1>6 DEF OpenExecution, ExecutionRow, Moved
  <2>2. \A i \in Job : RowFollows(i)
    BY <1>6, <1>same, ClosedFollows DEF OpenExecution
  <2> QED
    BY <2>1, <2>2 DEF FailuresStay
<1>7. ASSUME NEW w \in Workers, RecordWorktree(w) PROVE FailuresStay
  <2>1. exec'.status = "FAILED" => exec.status = "FAILED"
    BY <1>0, <1>7 DEF RecordWorktree, ExecutionRow
  <2> QED
    BY <1>7, <1>same, <2>1 DEF RecordWorktree, FailuresStay
<1>8. ASSUME NEW w \in Workers, OpenFirstRevision(w) PROVE FailuresStay
  <2>1. exec'.status = exec.status
    BY <1>0, <1>8 DEF OpenFirstRevision, ExecutionRow
  <2>2. Run(1) \in Job /\ job[Prepare].expects \in Nat
    BY <1>0, JobShape
  <2>3. \A i \in Job : RowFollows(i)
    BY <1>8, <2>2, ClosedFollows DEF OpenFirstRevision
  <2> QED
    BY <2>1, <2>3 DEF FailuresStay
<1>9. ASSUME NEW w \in Workers, QueueVerification(w) PROVE FailuresStay
  <2>1. claim[w].phase # "idle" /\ JobIsCurrent(w)
    BY <1>9 DEF QueueVerification
  <2>2. Verify(Target(w)) \in Job /\ job[JobOf(w)].expects \in Nat
    BY <1>0, <2>1, Holding, JobNames
  <2>3. \A i \in Job : RowFollows(i)
    BY <1>9, <2>2, ClosedFollows DEF QueueVerification
  <2> QED
    BY <1>9, <2>3 DEF FailuresStay, QueueVerification
<1>10. ASSUME NEW w \in Workers, PublishReview(w) \/ RecordCleanup(w) PROVE FailuresStay
  <2>1. exec'.status = "FAILED" => exec.status = "FAILED"
    BY <1>0, <1>10 DEF PublishReview, RecordCleanup, ExecutionRow, Moved
  <2>2. \A i \in Job : RowFollows(i)
    BY <1>10, ClosedFollows DEF PublishReview, RecordCleanup
  <2> QED
    BY <2>1, <2>2 DEF FailuresStay
<1>11. ASSUME NEW w \in Workers, CloseExecution(w) PROVE FailuresStay
  <2>1. exec'.status = "FAILED" => exec.status = "FAILED"
    BY <1>0, <1>11 DEF CloseExecution, ExecutionRow, Moved
  <2>2. \A i \in Job : RowFollows(i)
    BY <1>11, <1>same, ClosedFollows DEF CloseExecution
  <2> QED
    BY <2>1, <2>2 DEF FailuresStay
<1>12. ASSUME NEW w \in Workers, Fail(w) PROVE FailuresStay
  <2>1. CASE ~JobIsCurrent(w)
    BY <1>12, <1>same, <2>1 DEF Fail, FailuresStay
  <2>2. CASE JobIsCurrent(w)
    <3>1. job' = Closed(w, "FAILED")
      BY <1>12, <2>2 DEF Fail
    <3>2. \A i \in Job : RowFollows(i)
      BY <3>1, ClosedFollows
    <3>3. JobOf(w) \in Job /\ job[JobOf(w)].owner = w /\ TypeOK
      BY <1>12, <2>2, Holding DEF Fail, Inv, Typed
    <3>4. job'[JobOf(w)].status = "FAILED"
      BY <3>1, <3>3, ClosedRows DEF JobStatus
    <3>5. exec'.status = "FAILED" => exec.status = "FAILED" \/ exec.status \in {"PENDING", "RUNNING"}
      BY <1>0, <1>12, <2>2 DEF Fail, ExecutionRow, Moved
    <3>6. JobOf(w) = Cleanup => exec.status = "CANCELLED"
      <4>1. /\ claim[w].phase # "idle" /\ JobOf(w)[1] = Kind(w)
            /\ Kind(w) = "CLEANUP" => exec.status = "CANCELLED"
        BY <1>12, <2>2, Holding DEF Fail
      <4> QED
        BY <4>1 DEF Cleanup
    <3> QED
      BY <3>2, <3>3, <3>4, <3>5, <3>6 DEF FailuresStay
  <2> QED
    BY <2>1, <2>2
<1> QED
  BY <1>1, <1>2, <1>3, <1>4, <1>5, <1>6, <1>7, <1>8, <1>9, <1>10, <1>11, <1>12
     DEF Machine, Proceed

\* The retries that were announced stay the same.
LEMMA NoticesFollow ==
    ASSUME outbox \subseteq outbox',
           \A n \in outbox' : n[1] = "RETRY_QUEUED" => n \in outbox
    PROVE  /\ Notices("RETRY_QUEUED")' = Notices("RETRY_QUEUED")
           /\ \A j, a : <<"RETRY_QUEUED", j, a>> \in outbox' <=> <<"RETRY_QUEUED", j, a>> \in outbox
           /\ \A j, a : Unanswered(j, a) => Unanswered(j, a)'
<1>1. \A j, a : <<"RETRY_QUEUED", j, a>>[1] = "RETRY_QUEUED"
  OBVIOUS
<1>2. \A j, a : <<"RETRY_QUEUED", j, a>> \in outbox' <=> <<"RETRY_QUEUED", j, a>> \in outbox
  BY <1>1
<1>3. \A j, a : Unanswered(j, a) => Unanswered(j, a)'
  BY <1>2 DEF Unanswered
<1> QED
  BY <1>2, <1>3 DEF Notices

\* A step that recovers nothing.
LEMMA RecoveryKept ==
    ASSUME Inv, RecoveryInv, FailuresStay,
           outbox \subseteq outbox',
           \A n \in outbox' : n[1] = "RETRY_QUEUED" => n \in outbox,
           IsFiniteSet(outbox'),
           exec'.status = "CANCELLED" => exec.status = "CANCELLED",
           Applied({"RETRY"})' = Applied({"RETRY"})
    PROVE  RecoveryInv'
<1>1. RetriesCounted'
  BY NoticesFollow DEF RecoveryInv, RetriesCounted
<1>2. RetriesFresh'
  <2> SUFFICES ASSUME NEW j \in Job, NEW a \in 1..MaxAttempts, <<"RETRY_QUEUED", j, a>> \in outbox'
               PROVE  \/ a <= job'[j].attempts
                      \/ a = job'[j].attempts + 1 /\ job'[j].status \notin {"RUNNING", "FAILED"}
    BY DEF RetriesFresh
  <2>1. <<"RETRY_QUEUED", j, a>> \in outbox
    BY NoticesFollow
  <2>2. \/ a <= job[j].attempts
        \/ a = job[j].attempts + 1 /\ job[j].status \notin {"RUNNING", "FAILED"}
    BY <2>1 DEF RecoveryInv, RetriesFresh
  <2>3. job[j].attempts \in Nat /\ a \in Nat
    BY DEF Inv, Typed, TypeOK, JobRow
  <2>4. RowFollows(j)
    BY DEF FailuresStay
  <2> QED
    BY <2>2, <2>3, <2>4 DEF RowFollows
<1>3. FailuresLast'
  <2>1. ASSUME exec'.status = "FAILED"
        PROVE  \E j \in Job : j # Cleanup /\ job'[j].status = "FAILED"
    BY <2>1 DEF RecoveryInv, FailuresLast, FailuresStay, RowFollows
  <2>2. ASSUME exec'.status = "CANCELLED"
        PROVE  \E j \in Job, a \in 1..MaxAttempts : j # Cleanup /\ Unanswered(j, a)'
    BY <2>2, NoticesFollow DEF RecoveryInv, FailuresLast
  <2> QED
    BY <2>1, <2>2 DEF FailuresLast
<1> QED
  BY <1>1, <1>2, <1>3 DEF RecoveryInv

\* A delivery that asks for no recovery, or in vain, recovers nothing.
LEMMA OthersRecoverNothing ==
    ASSUME Inv, InboxInv, RecoveryInv, NEW d \in Delivery, NEW q \in Requests, Receive(d, q),
           ~(OutcomeOf(q) = "APPLIED" /\ q.action \in Recovery)
    PROVE  RecoveryInv'
<1>0. /\ exec \in ExecutionRow /\ version \in Nat /\ InboxTypeOK
      /\ IsFiniteSet(outbox)
  BY DEF Inv, Typed, TypeOK, InboxInv, RecoveryInv, RetriesCounted
<1>1. Applied({"RETRY"})' = Applied({"RETRY"})
  BY <1>0, AppliedStep DEF Recovery
<1>2. CASE OutcomeOf(q) # "APPLIED"
  <2>1. UNCHANGED <<job, exec, outbox>>
    BY <1>2 DEF Receive, vars, database
  <2>2. FailuresStay
    BY <2>1 DEF FailuresStay, RowFollows
  <2> QED
    BY <1>0, <1>1, <2>1, <2>2, RecoveryKept
<1>3. CASE OutcomeOf(q) = "APPLIED"
  <2>1. PICK r \in Revision : r = q.revision
    BY RequestShape
  <2>2. Approve(r) \/ RequestChanges(r) \/ AddressWithAgent(r)
    BY <1>3, <2>1, AppliedEffect DEF Effect, Recovery
  <2>3. CASE Approve(r)
    <3>1. /\ job' = Queued(job, Close(r), version + 1) /\ Close(r) \in Job /\ version + 1 \in Nat
          /\ UNCHANGED <<exec, outbox>>
      <4>1. Close(r) \in Job /\ version + 1 \in Nat
        <5>1. Close(r) \in Job
          BY JobNames
        <5> QED
          BY <1>0, <5>1
      <4> QED
        BY <2>3, <4>1 DEF Approve
    <3>2. FailuresStay
      BY <3>1, QueuedFollows DEF FailuresStay
    <3> QED
      BY <1>0, <1>1, <3>1, <3>2, RecoveryKept
  <2>4. CASE RequestChanges(r)
    <3>1. UNCHANGED <<job, exec>>
      BY <2>4 DEF RequestChanges
    <3>2. outbox' = (outbox \cup {<<"STAGE_UPDATED", "IMPLEMENTATION", version + 1>>})
                        \cup {<<"CHANGES_REQUESTED", r>>}
      BY <2>4 DEF RequestChanges
    <3>3. IsFiniteSet(outbox')
      BY <1>0, <3>2, FS_AddElement
    <3>4. \A n \in outbox' : n[1] = "RETRY_QUEUED" => n \in outbox
      BY <3>2
    <3>5. FailuresStay /\ outbox \subseteq outbox'
      BY <3>1, <3>2 DEF FailuresStay, RowFollows
    <3> QED
      BY <1>1, <3>1, <3>3, <3>4, <3>5, RecoveryKept
  <2>5. CASE AddressWithAgent(r)
    <3>1. /\ job' = Queued(job, Run(r + 1), version) /\ outbox' = outbox
          /\ r + 1 \in Revision
      BY <2>5, BoundsAssumption DEF AddressWithAgent, Revision
    <3>2. Run(r + 1) \in Job
      BY <3>1, JobShape
    <3>3. exec'.status = "RUNNING"
      BY <1>0, <2>5 DEF AddressWithAgent, ExecutionRow
    <3>4. FailuresStay
      BY <1>0, <3>1, <3>2, <3>3, QueuedFollows DEF FailuresStay
    <3> QED
      BY <1>0, <1>1, <3>1, <3>3, <3>4, RecoveryKept
  <2> QED
    BY <2>2, <2>3, <2>4, <2>5
<1> QED
  BY <1>2, <1>3

\* A retry answers a failure that was not answered, and counts once.
LEMMA RetryRecovers ==
    ASSUME Inv, InboxInv, RecoveryInv, NEW d \in Delivery, NEW q \in Requests, Receive(d, q),
           OutcomeOf(q) = "APPLIED", q.action = "RETRY"
    PROVE  RecoveryInv'
<1>0. /\ exec \in ExecutionRow /\ job \in [Job -> JobRow] /\ InboxTypeOK
      /\ \A i \in Job : job[i] \in JobRow /\ job[i].attempts \in Nat
      /\ outbox \subseteq Notice
  BY DEF Inv, Typed, TypeOK, InboxInv, JobRow
<1>1. PICK k \in Job : Retry(k)
  BY AppliedEffect DEF Effect
<1>2. PICK n : n = <<"RETRY_QUEUED", k, job[k].attempts + 1>>
  OBVIOUS
<1>3. /\ job[k].status = "FAILED" /\ outbox' = outbox \cup {n}
      /\ \A i \in Job : i # k => job'[i] = job[i]
      /\ job'[k].status = "PENDING" /\ job'[k].attempts = job[k].attempts
  BY <1>0, <1>1, <1>2 DEF Retry, JobRow
<1>4. n \notin outbox
  <2> SUFFICES ASSUME n \in outbox PROVE FALSE
    OBVIOUS
  <2>1. n[1] = "RETRY_QUEUED" /\ n[3] = job[k].attempts + 1
    BY <1>2
  <2>2. job[k].attempts + 1 \in 1..MaxAttempts
    <3>1. PICK j \in Job, a \in 1..MaxAttempts : n = <<n[1], j, a>>
      BY <2>1, NoticeShape DEF Inv, Typed
    <3>2. n[3] = a
      BY <3>1
    <3> QED
      BY <2>1, <3>2
  <2> QED
    BY <1>0, <1>2, <1>3, <2>2 DEF RecoveryInv, RetriesFresh
<1>5. RetriesCounted'
  <2>1. /\ d \notin Applied({"RETRY"}) /\ Applied({"RETRY"})' = Applied({"RETRY"}) \cup {d}
    BY <1>0, AppliedStep
  <2>2. /\ n \notin Notices("RETRY_QUEUED")
        /\ Notices("RETRY_QUEUED")' = Notices("RETRY_QUEUED") \cup {n}
    BY <1>2, <1>3, <1>4 DEF Notices
  <2>3. IsFiniteSet(outbox) /\ Notices("RETRY_QUEUED") \in SUBSET outbox
    BY DEF RecoveryInv, RetriesCounted, Notices
  <2>4. IsFiniteSet(Notices("RETRY_QUEUED")) /\ IsFiniteSet(outbox')
    BY <1>3, <2>3, FS_Subset, FS_AddElement
  <2>5. Cardinality(Notices("RETRY_QUEUED")') = Cardinality(Notices("RETRY_QUEUED")) + 1
    BY <2>2, <2>4, FS_AddElement
  <2>6. /\ IsFiniteSet(Applied({"RETRY"})')
        /\ Cardinality(Applied({"RETRY"})') = Cardinality(Applied({"RETRY"})) + 1
    BY <2>1, FS_AddElement DEF RecoveryInv, RetriesCounted
  <2> QED
    BY <2>4, <2>5, <2>6 DEF RecoveryInv, RetriesCounted
<1>6. RetriesFresh'
  <2> SUFFICES ASSUME NEW j \in Job, NEW a \in 1..MaxAttempts, <<"RETRY_QUEUED", j, a>> \in outbox'
               PROVE  \/ a <= job'[j].attempts
                      \/ a = job'[j].attempts + 1 /\ job'[j].status \notin {"RUNNING", "FAILED"}
    BY DEF RetriesFresh
  <2>1. CASE <<"RETRY_QUEUED", j, a>> \in outbox
    BY <1>3, <2>1 DEF RecoveryInv, RetriesFresh
  <2>2. CASE <<"RETRY_QUEUED", j, a>> = <<"RETRY_QUEUED", k, job[k].attempts + 1>>
    BY <1>3, <2>2
  <2> QED
    BY <1>2, <1>3, <2>1, <2>2 DEF RecoveryInv, RetriesFresh
<1>7. FailuresLast'
  <2>1. CASE k = Cleanup
    <3>1. exec.status = "CANCELLED" /\ exec' = exec
      BY <1>1, <2>1 DEF Retry, RetryAllowed, Cleanup
    <3>2. PICK j \in Job, a \in 1..MaxAttempts : j # Cleanup /\ Unanswered(j, a)
      BY <3>1 DEF RecoveryInv, FailuresLast
    <3>3. <<"RETRY_QUEUED", j, a + 1>> # n
      BY <1>2, <2>1, <3>2
    <3>4. Unanswered(j, a)'
      BY <1>3, <3>2, <3>3 DEF Unanswered
    <3> QED
      BY <3>1, <3>2, <3>4 DEF FailuresLast
  <2>2. CASE k # Cleanup
    <3>1. exec'.status \notin {"FAILED", "CANCELLED"}
      <4>1. k[1] \in {"PREPARE", "RUN", "VERIFY", "CLOSE"}
        BY <2>2, JobShape
      <4> QED
        BY <1>0, <1>1, <4>1 DEF Retry, RetryAllowed, ExecutionRow
    <3> QED
      BY <3>1 DEF FailuresLast
  <2> QED
    BY <2>1, <2>2
<1> QED
  BY <1>5, <1>6, <1>7 DEF RecoveryInv

\* An abandonment answers the failure it finds.
LEMMA AbandonRecovers ==
    ASSUME Inv, InboxInv, RecoveryInv, NEW d \in Delivery, NEW q \in Requests, Receive(d, q),
           OutcomeOf(q) = "APPLIED", q.action = "ABANDON"
    PROVE  RecoveryInv'
<1>0. /\ exec \in ExecutionRow /\ job \in [Job -> JobRow] /\ InboxTypeOK
      /\ \A i \in Job : job[i] \in JobRow /\ job[i].attempts \in Nat
      /\ outbox \subseteq Notice /\ IsFiniteSet(outbox)
  BY DEF Inv, Typed, TypeOK, InboxInv, JobRow, RecoveryInv, RetriesCounted
<1>1. Abandon
  BY AppliedEffect DEF Effect, Recovery
<1>2. exec.status = "FAILED" /\ exec'.status = "CANCELLED" /\ outbox' = outbox \cup {<<"ABANDONED">>}
  BY <1>0, <1>1 DEF Abandon, ExecutionRow
<1>3. \A m \in outbox' : m[1] = "RETRY_QUEUED" => m \in outbox
  BY <1>2
<1>4. PICK j \in Job : j # Cleanup /\ job[j].status = "FAILED"
  BY <1>2 DEF RecoveryInv, FailuresLast
<1>a. PICK b : b = job[j].attempts
  OBVIOUS
<1>5. b \in 1..MaxAttempts /\ <<"FAILED", j, b>> \in outbox
  <2>1. PICK n : n = <<"FAILED", j, b>>
    OBVIOUS
  <2>2. n \in outbox /\ n[1] = "FAILED" /\ n[3] = b
    BY <1>4, <1>a, <2>1 DEF Inv, NoticesTruthful
  <2>3. PICK i \in Job, a \in 1..MaxAttempts : n = <<n[1], i, a>>
    BY <2>2, NoticeShape DEF Inv, Typed
  <2>4. n[3] = a
    BY <2>3
  <2> QED
    BY <2>1, <2>2, <2>4
<1>6. <<"RETRY_QUEUED", j, b + 1>> \notin outbox
  <2> SUFFICES ASSUME <<"RETRY_QUEUED", j, b + 1>> \in outbox PROVE FALSE
    OBVIOUS
  <2>1. PICK n \in outbox : n = <<"RETRY_QUEUED", j, b + 1>>
    OBVIOUS
  <2>2. n[1] = "RETRY_QUEUED" /\ n[3] = b + 1
    BY <2>1
  <2>3. PICK i \in Job, a \in 1..MaxAttempts : n = <<n[1], i, a>>
    BY <2>2, NoticeShape DEF Inv, Typed
  <2>4. n[3] = a
    BY <2>3
  <2>5. b + 1 \in 1..MaxAttempts
    BY <2>2, <2>4
  <2> QED
    BY <1>0, <1>4, <1>a, <2>5 DEF RecoveryInv, RetriesFresh
<1>7. FailuresLast'
  <2>1. Unanswered(j, b)
    BY <1>5, <1>6 DEF Unanswered
  <2>2. Unanswered(j, b)'
    BY <1>2, <1>3, <2>1, NoticesFollow
  <2> QED
    BY <1>2, <1>4, <1>5, <2>2 DEF FailuresLast
<1>8. RetriesCounted'
  <2>1. Applied({"RETRY"})' = Applied({"RETRY"})
    BY <1>0, AppliedStep
  <2>2. IsFiniteSet(outbox')
    BY <1>0, <1>2, FS_AddElement
  <2> QED
    BY <1>2, <1>3, <2>1, <2>2, NoticesFollow DEF RecoveryInv, RetriesCounted
<1>9. RetriesFresh'
  <2> SUFFICES ASSUME NEW i \in Job, NEW a \in 1..MaxAttempts, <<"RETRY_QUEUED", i, a>> \in outbox'
               PROVE  \/ a <= job'[i].attempts
                      \/ a = job'[i].attempts + 1 /\ job'[i].status \notin {"RUNNING", "FAILED"}
    BY DEF RetriesFresh
  <2>1. <<"RETRY_QUEUED", i, a>> \in outbox
    BY <1>2
  <2>2. \/ a <= job[i].attempts
        \/ a = job[i].attempts + 1 /\ job[i].status \notin {"RUNNING", "FAILED"}
    BY <2>1 DEF RecoveryInv, RetriesFresh
  <2>3. /\ job'[i].attempts = job[i].attempts
        /\ job'[i].status \notin {"RUNNING", "FAILED"}
    <3>1. PICK jobs \in [Job -> JobRow] :
              /\ job' = Queued(jobs, Cleanup, 0)
              /\ \A h \in Job : /\ jobs[h].attempts = job[h].attempts
                                /\ jobs[h].status \notin {"RUNNING", "FAILED"}
                                /\ jobs[h].status = "NONE" => job[h].status = "NONE"
      <4> DEFINE Cancelled(row) ==
                     IF row.status \in {"PENDING", "RUNNING", "FAILED"}
                     THEN [row EXCEPT !.status = "CANCELLED", !.owner = NoOwner, !.live = FALSE]
                     ELSE row
                 jobs == [h \in Job |-> Cancelled(job[h])]
      <4>1. \A h \in Job : /\ Cancelled(job[h]) \in JobRow
                           /\ Cancelled(job[h]).attempts = job[h].attempts
                           /\ Cancelled(job[h]).status \notin {"RUNNING", "FAILED"}
                           /\ Cancelled(job[h]).status = "NONE" => job[h].status = "NONE"
        BY <1>0 DEF JobRow, JobStatus
      <4>2. job' = Queued(jobs, Cleanup, 0)
        BY <1>1 DEF Abandon
      <4> HIDE DEF Cancelled
      <4>3. /\ jobs \in [Job -> JobRow]
            /\ \A h \in Job : /\ jobs[h].attempts = job[h].attempts
                              /\ jobs[h].status \notin {"RUNNING", "FAILED"}
                              /\ jobs[h].status = "NONE" => job[h].status = "NONE"
        BY <4>1
      <4> QED
        BY <4>2, <4>3
    <3>2. /\ \A h \in Job : h # Cleanup => job'[h] = jobs[h]
          /\ jobs[Cleanup].status # "NONE" => job'[Cleanup] = jobs[Cleanup]
          /\ jobs[Cleanup].status = "NONE" =>
                 job'[Cleanup].status = "PENDING" /\ job'[Cleanup].attempts = 0
      <4>1. Cleanup \in Job /\ 0 \in Nat
        BY JobShape
      <4> QED
        BY <3>1, <4>1, QueuedRows
    <3>3. jobs[Cleanup].status = "NONE" => job[Cleanup].attempts = 0
      <4>1. Cleanup \in Job
        BY JobShape
      <4> QED
        BY <3>1, <4>1 DEF Inv, JobsMatch
    <3> QED
      BY <3>1, <3>2, <3>3
  <2> QED
    BY <2>2, <2>3
<1> QED
  BY <1>7, <1>8, <1>9 DEF RecoveryInv

\* Every step answers a failure at most once.
LEMMA RecoverySteps == Inv /\ InboxInv /\ RecoveryInv /\ [InboxNext]_inboxVars => RecoveryInv'
<1> SUFFICES ASSUME Inv, InboxInv, RecoveryInv, [InboxNext]_inboxVars PROVE RecoveryInv'
  OBVIOUS
<1>1. ASSUME NEW d \in Delivery, NEW q \in Requests, Receive(d, q) PROVE RecoveryInv'
  BY <1>1, OthersRecoverNothing, RetryRecovers, AbandonRecovers DEF Recovery
<1>2. CASE Machine
  <2>1. LeftToPeople /\ FailuresStay
    BY <1>2, MachineLeaves, MachineFails DEF InboxInv
  <2>2. Applied({"RETRY"})' = Applied({"RETRY"})
    BY <1>2 DEF Machine, Applied
  <2> QED
    BY <2>1, <2>2, RecoveryKept DEF LeftToPeople, RecoveryInv, RetriesCounted
<1>3. CASE UNCHANGED inboxVars
  <2>1. UNCHANGED <<job, exec, outbox, inbox>>
    BY <1>3 DEF inboxVars, vars, database
  <2>2. FailuresStay /\ Applied({"RETRY"})' = Applied({"RETRY"})
    BY <2>1 DEF FailuresStay, RowFollows, Applied
  <2> QED
    BY <2>1, <2>2, RecoveryKept DEF RecoveryInv, RetriesCounted
<1> QED
  BY <1>1, <1>2, <1>3 DEF InboxNext

\* Initially nothing has failed.
LEMMA RecoveryStarts == InboxInit => RecoveryInv
<1> SUFFICES ASSUME InboxInit PROVE RecoveryInv
  OBVIOUS
<1>1. outbox = {} /\ exec.status = "NONE"
  BY DEF InboxInit, Init
<1>2. Applied({"RETRY"}) = {} /\ Notices("RETRY_QUEUED") = {}
  BY <1>1 DEF InboxInit, Applied, NoEvent, Notices
<1> QED
  BY <1>1, <1>2, FS_EmptySet DEF RecoveryInv, RetriesFresh, FailuresLast, RetriesCounted

\* Each retry that was announced answers a failure of its own, and so does the
\* abandonment.
LEMMA AnswersAreFewer ==
    ASSUME Inv, InboxInv, RecoveryInv
    PROVE  Cardinality(Applied(Recovery)) <= Cardinality(Notices("FAILED"))
<1> DEFINE R == Notices("RETRY_QUEUED")
           F == Notices("FAILED")
           A == Applied({"RETRY"})
           B == Applied({"ABANDON"})
           answered == [n \in R |-> <<"FAILED", n[2], n[3] - 1>>]
<1>1. IsFiniteSet(outbox) /\ R \in SUBSET outbox /\ F \in SUBSET outbox /\ IsFiniteSet(A)
  BY DEF RecoveryInv, RetriesCounted, Notices
<1>2. IsFiniteSet(R) /\ IsFiniteSet(F) /\ Cardinality(R) = Cardinality(A)
  BY <1>1, FS_Subset DEF RecoveryInv, RetriesCounted
<1>3. \A n \in R : \E j \in Job, a \in 1..MaxAttempts :
          n = <<"RETRY_QUEUED", j, a>> /\ <<"FAILED", j, a - 1>> \in F
  <2> SUFFICES ASSUME NEW n \in R
               PROVE  \E j \in Job, a \in 1..MaxAttempts :
                          n = <<"RETRY_QUEUED", j, a>> /\ <<"FAILED", j, a - 1>> \in F
    OBVIOUS
  <2>1. n \in outbox /\ n[1] = "RETRY_QUEUED"
    BY DEF Notices
  <2>2. PICK j \in Job, a \in 1..MaxAttempts : n = <<"RETRY_QUEUED", j, a>>
    BY <2>1, NoticeShape DEF Inv, Typed
  <2>3. <<"FAILED", j, a - 1>> \in outbox
    BY <2>1, <2>2 DEF Inv, NoticesTruthful
  <2> QED
    BY <2>2, <2>3 DEF Notices
<1>4. Applied(Recovery) = A \cup B /\ A \cap B = {}
  BY DEF Applied, Recovery
<1> HIDE DEF A, B, R, F
<1>5. answered \in [R -> F]
  <2> SUFFICES ASSUME NEW n \in R PROVE <<"FAILED", n[2], n[3] - 1>> \in F
    OBVIOUS
  <2>1. PICK j \in Job, a \in 1..MaxAttempts :
            n = <<"RETRY_QUEUED", j, a>> /\ <<"FAILED", j, a - 1>> \in F
    BY <1>3
  <2>2. n[2] = j /\ n[3] = a
    BY <2>1
  <2> QED
    BY <2>1, <2>2
<1>6. \A n \in R : answered[n] = <<"FAILED", n[2], n[3] - 1>>
  OBVIOUS
<1> HIDE DEF answered
<1>7. ASSUME NEW n \in R
      PROVE  \E j \in Job, a \in 1..MaxAttempts :
                 n = <<"RETRY_QUEUED", j, a>> /\ answered[n] = <<"FAILED", j, a - 1>>
  <2>1. PICK j \in Job, a \in 1..MaxAttempts : n = <<"RETRY_QUEUED", j, a>>
    BY <1>3
  <2>2. n[2] = j /\ n[3] = a
    BY <2>1
  <2> QED
    BY <1>6, <2>1, <2>2
<1>8. \A m, n \in R : answered[m] = answered[n] => m = n
  <2> SUFFICES ASSUME NEW m \in R, NEW n \in R, answered[m] = answered[n] PROVE m = n
    OBVIOUS
  <2>1. PICK i \in Job, b \in 1..MaxAttempts :
            m = <<"RETRY_QUEUED", i, b>> /\ answered[m] = <<"FAILED", i, b - 1>>
    BY <1>7
  <2>2. PICK j \in Job, a \in 1..MaxAttempts :
            n = <<"RETRY_QUEUED", j, a>> /\ answered[n] = <<"FAILED", j, a - 1>>
    BY <1>7
  <2>3. i = j /\ b - 1 = a - 1
    BY <2>1, <2>2
  <2>4. b = a
    BY <2>3
  <2> QED
    BY <2>1, <2>2, <2>3, <2>4
<1>9. CASE B = {}
  <2>1. answered \in Injection(R, F)
    BY <1>5, <1>8, Fun_IsInj
  <2>2. Cardinality(R) <= Cardinality(F)
    BY <1>2, <2>1, FS_Injection
  <2>3. Applied(Recovery) = A
    BY <1>4, <1>9
  <2> QED
    BY <1>2, <2>2, <2>3 DEF F
<1>10. CASE B # {}
  <2>1. PICK d : B = {d} /\ d \notin A
    BY <1>4, <1>10 DEF InboxInv, EffectsMatchEvents, OneEnd, B
  <2>2. Cardinality(Applied(Recovery)) = Cardinality(A) + 1
    BY <1>1, <1>4, <2>1, FS_AddElement
  <2>3. PICK j \in Job, a \in 1..MaxAttempts : Unanswered(j, a)
    BY <1>10 DEF InboxInv, EffectsMatchEvents, OneEnd, B, RecoveryInv, FailuresLast
  <2>4. PICK f : f = <<"FAILED", j, a>>
    OBVIOUS
  <2>5. f \in F
    BY <2>3, <2>4 DEF Unanswered, F, Notices
  <2>6. \A n \in R : answered[n] # f
    <3> SUFFICES ASSUME NEW n \in R, answered[n] = f PROVE FALSE
      OBVIOUS
    <3>1. PICK i \in Job, b \in 1..MaxAttempts :
              n = <<"RETRY_QUEUED", i, b>> /\ answered[n] = <<"FAILED", i, b - 1>>
      BY <1>7
    <3>2. i = j /\ b - 1 = a
      BY <2>4, <3>1
    <3>3. b = a + 1
      BY <3>2
    <3>4. n \in outbox
      BY DEF R, Notices
    <3> QED
      BY <2>3, <3>1, <3>2, <3>3, <3>4 DEF Unanswered
  <2>7. answered \in [R -> F \ {f}]
    BY <1>5, <2>6
  <2>8. answered \in Injection(R, F \ {f})
    BY <1>8, <2>7, Fun_IsInj
  <2>9. IsFiniteSet(F \ {f}) /\ Cardinality(F \ {f}) = Cardinality(F) - 1
    BY <1>2, <2>5, FS_RemoveElement
  <2>10. Cardinality(R) <= Cardinality(F \ {f})
    BY <2>8, <2>9, FS_Injection
  <2>11. Cardinality(R) \in Nat /\ Cardinality(F) \in Nat
    BY <1>2, FS_CardinalityType
  <2> QED
    BY <1>2, <2>2, <2>9, <2>10, <2>11 DEF F
<1> QED
  BY <1>9, <1>10

\* A failure is answered once, by the request to retry it or by the one to
\* abandon the execution, however many people ask and however late.
THEOREM RecoveryTheorem == InboxSpec => []OneRecoveryPerFailure
<1>1. InboxInit => RecoveryInv
  BY RecoveryStarts
<1>2. Inv /\ InboxInv /\ RecoveryInv /\ [InboxNext]_inboxVars => RecoveryInv'
  BY RecoverySteps
<1>3. Inv /\ InboxInv /\ RecoveryInv => OneRecoveryPerFailure
  BY AnswersAreFewer DEF OneRecoveryPerFailure, RecoveryInv, RetriesCounted
<1> QED
  BY <1>1, <1>2, <1>3, Behind, PTL DEF InboxSpec
===============================================================================
