------------------------- MODULE ArtifactReviewProofs -------------------------
(* Theorems about ArtifactReview, for any workers, worker ids and bounds.  *)
EXTENDS ArtifactReview, TLAPS

\* A revision is the pair of its artifact and its number, and the next one of
\* the same artifact is a revision as long as the bound allows it.
LEMMA RevisionShape ==
    /\ \A r \in Revision : /\ TypeOf(r) \in ArtifactType
                           /\ NumberOf(r) \in 1..MaxRevision
                           /\ r = <<TypeOf(r), NumberOf(r)>>
    /\ \A t \in ArtifactType, n \in 1..MaxRevision :
           <<t, n>> \in Revision /\ TypeOf(<<t, n>>) = t /\ NumberOf(<<t, n>>) = n
    /\ \A r \in Revision : NumberOf(r) < MaxRevision => Child(r) \in Revision
  BY MaxRevisionAssumption DEF Revision, TypeOf, NumberOf, Child

\* Closing a job keeps the jobs well typed.
LEMMA CloseJobType ==
    ASSUME TypeOK, NEW w \in Workers, NEW s \in JobStatus
    PROVE  CloseJob(w, s) \in [Revision -> JobRow]
<1> DEFINE r == claim[w].rev
           row == [job[r] EXCEPT !.status = s, !.owner = NoOwner, !.live = FALSE]
<1>1. r \in Revision
  BY DEF TypeOK, ClaimedJob
<1>2. job[r] \in JobRow
  BY <1>1 DEF TypeOK
<1>3. row \in JobRow
  BY <1>2 DEF JobRow, Owner
<1> HIDE DEF row
<1>4. [job EXCEPT ![r] = row] \in [Revision -> JobRow]
  BY <1>1, <1>3 DEF TypeOK
<1> QED
  BY <1>4 DEF CloseJob, TypeOK, row

\* So does publishing a revision.
LEMMA PublishedType ==
    ASSUME TypeOK, NEW r \in Revision, NEW c \in Content, NEW kind \in {"AGENT", "MANUAL"}
    PROVE  Published(r, c, kind) \in [Revision -> RevisionRow]
<1> SUFFICES ASSUME NEW q \in Revision PROVE Published(r, c, kind)[q] \in RevisionRow
  BY DEF Published
<1>1. rev[q] \in RevisionRow
  BY DEF TypeOK
<1>2. [rev[q] EXCEPT !.status = "REVIEW", !.review = "PENDING", !.content = c] \in RevisionRow
  BY <1>1 DEF RevisionRow, RevisionStatus, ReviewStatus
<1>3. [rev[q] EXCEPT !.feedback = kind] \in RevisionRow
  BY <1>1 DEF RevisionRow, FeedbackStatus
<1> QED
  BY <1>1, <1>2, <1>3 DEF Published

\* The fresh rows are well typed.
LEMMA FreshRows ==
    /\ NoRevision \in RevisionRow
    /\ NoJob \in JobRow
    /\ \A v \in Nat : QueuedJob(v) \in JobRow
    /\ MaxRevision >= 1 => Idle \in ClaimedJob
<1>1. NoRevision \in RevisionRow
  BY MaxAttemptsAssumption DEF NoRevision, RevisionRow, RevisionStatus, ReviewStatus, FeedbackStatus,
     Content, NoContent
<1>2. NoJob \in JobRow
  BY MaxAttemptsAssumption DEF NoJob, JobRow, JobStatus, Owner
<1>3. \A v \in Nat : QueuedJob(v) \in JobRow
  BY <1>2 DEF QueuedJob, JobRow, JobStatus
<1>4. MaxRevision >= 1 => Idle \in ClaimedJob
  BY RevisionShape, MaxRevisionAssumption, MaxAttemptsAssumption DEF Idle, ClaimedJob, Phase, ArtifactType
<1> QED
  BY <1>1, <1>2, <1>3, <1>4

\* The initial state is well typed.
LEMMA TypeInit == Init => TypeOK
  BY FreshRows, MaxRevisionAssumption, MaxAttemptsAssumption
  DEF Init, TypeOK, Stage, RunStatus, Content, NoContent

\* An arriving feature is well typed.
LEMMA TypeIngest == ASSUME TypeOK, IngestFeature PROVE TypeOK'
<1>1. <<"INTENT", 1>> \in Revision
  BY RevisionShape, MaxRevisionAssumption DEF ArtifactType
<1>2. [rev[<<"INTENT", 1>>] EXCEPT !.status = "GENERATING"] \in RevisionRow
  BY <1>1 DEF TypeOK, RevisionRow, RevisionStatus
<1>3. rev' \in [Revision -> RevisionRow]
  BY <1>1, <1>2 DEF TypeOK, IngestFeature
<1>4. job' \in [Revision -> JobRow]
  BY <1>1, FreshRows DEF TypeOK, IngestFeature
<1> QED
  BY <1>3, <1>4, MaxRevisionAssumption DEF TypeOK, IngestFeature, Stage, ArtifactType, Notice

\* An approval opens a well typed stage, artifact and job, or the handoff.
LEMMA TypeApprove == ASSUME TypeOK, NEW r \in Revision, Approve(r) PROVE TypeOK'
<1> DEFINE next == NextStage[stage]
           approved == [rev EXCEPT ![r].status = "APPROVED", ![r].review = "APPROVED"]
<1>1. stage \in ArtifactType
  BY RevisionShape DEF Approve, Reviewable
<1>2. next \in {"SPEC", "PLAN", "IMPLEMENTATION"}
  BY <1>1 DEF NextStage, ArtifactType
<1>3. approved \in [Revision -> RevisionRow]
  BY DEF TypeOK, RevisionRow, RevisionStatus, ReviewStatus
<1>4. CASE next = "IMPLEMENTATION"
  <2>1. rev' \in [Revision -> RevisionRow]
    BY <1>3, <1>4 DEF Approve
  <2>2. stage' \in Stage /\ outbox' \subseteq Notice
    BY <1>4 DEF TypeOK, Approve, Stage, Notice
  <2>3. version' \in Nat /\ handoff' \in Nat
    BY <1>4 DEF TypeOK, Approve
  <2> QED
    BY <1>4, <2>1, <2>2, <2>3 DEF TypeOK, Approve
<1>5. CASE next # "IMPLEMENTATION"
  <2>1. next \in ArtifactType /\ <<next, 1>> \in Revision
    BY <1>2, <1>5, RevisionShape, MaxRevisionAssumption DEF ArtifactType
  <2>2. rev' = [approved EXCEPT ![<<next, 1>>].status = "GENERATING"]
    BY <1>5 DEF Approve
  <2>3. rev' \in [Revision -> RevisionRow]
    BY <1>3, <2>1, <2>2 DEF RevisionRow, RevisionStatus
  <2>4. job' \in [Revision -> JobRow]
    <3>1. QueuedJob(version + 1) \in JobRow
      BY FreshRows DEF TypeOK
    <3>2. job' = [job EXCEPT ![<<next, 1>>] = QueuedJob(version + 1)]
      BY <1>5 DEF Approve
    <3> QED
      BY <2>1, <3>1, <3>2 DEF TypeOK
  <2>5. current' \in [ArtifactType -> 0..MaxRevision]
    <3>1. current' = [current EXCEPT ![next] = 1]
      BY <1>5 DEF Approve
    <3> QED
      BY <2>1, <3>1, MaxRevisionAssumption DEF TypeOK
  <2>6. stage' \in Stage /\ outbox' \subseteq Notice
    <3>1. stage' = next
      BY DEF Approve
    <3>2. next \in Stage
      BY <1>2, Zenon DEF Stage, ArtifactType
    <3>3. outbox' = outbox \cup {<<"STAGE_UPDATED", next>>}
      BY DEF Approve
    <3> QED
      BY <3>1, <3>2, <3>3 DEF TypeOK, Notice
  <2>7. version' \in Nat /\ handoff' \in Nat
    BY <1>5 DEF TypeOK, Approve
  <2> QED
    BY <1>5, <2>3, <2>4, <2>5, <2>6, <2>7 DEF TypeOK, Approve
<1> QED
  BY <1>4, <1>5

\* So do the other decisions of a reviewer, and a person's edit.
LEMMA TypeReviewer ==
    ASSUME TypeOK, NEW r \in Revision,
           RequestChanges(r) \/ AddressWithAgent(r) \/ SubmitManualRevision(r)
           \/ ManualRevisionRolledBack(r)
    PROVE  TypeOK'
<1> USE RevisionShape
<1>1. CASE RequestChanges(r)
  <2>1. rev' \in [Revision -> RevisionRow]
    <3> DEFINE row == [rev[r] EXCEPT !.status = "CHANGES_REQUESTED",
                                     !.review = "CHANGES_REQUESTED", !.feedback = "OPEN"]
    <3>1. row \in RevisionRow
      BY DEF TypeOK, RevisionRow, RevisionStatus, ReviewStatus, FeedbackStatus
    <3>2. rev' = [rev EXCEPT ![r] = row]
      BY <1>1 DEF RequestChanges, TypeOK
    <3> HIDE DEF row
    <3> QED
      BY <3>1, <3>2 DEF TypeOK
  <2> QED
    BY <1>1, <2>1 DEF RequestChanges, TypeOK, Notice
<1>2. CASE AddressWithAgent(r)
  <2>1. Child(r) \in Revision /\ NumberOf(r) + 1 \in 0..MaxRevision
    BY <1>2, MaxRevisionAssumption DEF AddressWithAgent, Addressable
  <2>2. rev' \in [Revision -> RevisionRow]
    BY <1>2, <2>1 DEF AddressWithAgent, TypeOK, RevisionRow, RevisionStatus
  <2>3. job' \in [Revision -> JobRow]
    BY <1>2, <2>1, FreshRows DEF AddressWithAgent, TypeOK
  <2> QED
    BY <1>2, <2>1, <2>2, <2>3 DEF AddressWithAgent, TypeOK, Notice
<1>3. CASE SubmitManualRevision(r)
  <2>1. Child(r) \in Revision /\ NumberOf(r) + 1 \in 0..MaxRevision
    BY <1>3, MaxRevisionAssumption DEF SubmitManualRevision, Addressable
  <2>2. ByHuman \in Content
    BY MaxAttemptsAssumption DEF ByHuman, Content
  <2>3. rev' \in [Revision -> RevisionRow]
    BY <1>3, <2>1, <2>2, PublishedType DEF SubmitManualRevision
  <2> QED
    BY <1>3, <2>1, <2>2, <2>3 DEF SubmitManualRevision, TypeOK, Notice
<1>4. CASE ManualRevisionRolledBack(r)
  <2>1. ByHuman \in Content
    BY MaxAttemptsAssumption DEF ByHuman, Content
  <2> QED
    BY <1>4, <2>1 DEF ManualRevisionRolledBack, TypeOK
<1> QED
  BY <1>1, <1>2, <1>3, <1>4

\* A claim stays within the bound on attempts, and a lease that runs out
\* changes nothing else.
LEMMA TypeClaim ==
    ASSUME TypeOK, NEW r \in Revision,
           LeaseExpires(r) \/ \E w \in Workers : Claim(w, r)
    PROVE  TypeOK'
<1>1. CASE LeaseExpires(r)
  BY <1>1 DEF LeaseExpires, TypeOK, JobRow
<1>2. ASSUME NEW w \in Workers, Claim(w, r) PROVE TypeOK'
  <2>1. job[r].attempts + 1 \in 0..MaxAttempts
    <3>1. job[r].attempts \in 0..MaxAttempts
      BY DEF TypeOK, JobRow
    <3>2. job[r].attempts < MaxAttempts
      BY <1>2 DEF Claim
    <3> QED
      BY <3>1, <3>2, MaxAttemptsAssumption
  <2>2. [job[r] EXCEPT !.status = "RUNNING", !.live = TRUE, !.owner = OwnerOf[w],
                       !.attempts = job[r].attempts + 1] \in JobRow
    BY <2>1 DEF TypeOK, JobRow, JobStatus, Owner
  <2>3. job' \in [Revision -> JobRow]
    <3> DEFINE row == [job[r] EXCEPT !.status = "RUNNING", !.live = TRUE,
                                     !.owner = OwnerOf[w], !.attempts = job[r].attempts + 1]
    <3>1. job' = [job EXCEPT ![r] = row]
      BY <1>2 DEF Claim
    <3>2. row \in JobRow
      BY <2>2
    <3> HIDE DEF row
    <3> QED
      BY <3>1, <3>2 DEF TypeOK
  <2>4. claim' \in [Workers -> ClaimedJob]
    BY <1>2, <2>1 DEF Claim, TypeOK, ClaimedJob, Phase
  <2> QED
    BY <1>2, <2>3, <2>4 DEF Claim, TypeOK
<1> QED
  BY <1>1, <1>2

\* Nothing a worker does with its claim leaves the types.
LEMMA TypeWorker ==
    ASSUME TypeOK, NEW w \in Workers, Proceed(w) \/ ApplyRolledBack(w) \/ Crash(w)
    PROVE  TypeOK'
<1> DEFINE r == claim[w].rev
           a == claim[w].attempt
<1>0. /\ r \in Revision /\ a \in 0..MaxAttempts /\ a \in Content
      /\ Idle \in ClaimedJob
      /\ \A p \in Phase : [claim EXCEPT ![w].phase = p] \in [Workers -> ClaimedJob]
  <2>1. r \in Revision /\ a \in 0..MaxAttempts /\ a \in Content
    <3>1. claim[w] \in ClaimedJob
      BY DEF TypeOK
    <3> QED
      BY <3>1, MaxAttemptsAssumption DEF ClaimedJob, Content
  <2>2. Idle \in ClaimedJob
    BY FreshRows, MaxRevisionAssumption
  <2>3. ASSUME NEW p \in Phase PROVE [claim EXCEPT ![w].phase = p] \in [Workers -> ClaimedJob]
    BY DEF TypeOK, ClaimedJob
  <2> QED
    BY <2>1, <2>2, <2>3
<1>1. CASE LoadContext(w)
  BY <1>0, <1>1 DEF LoadContext, TypeOK, Phase
<1>2. CASE CancelStaleJob(w)
  BY <1>0, <1>2, CloseJobType DEF CancelStaleJob, TypeOK, JobStatus
<1>3. CASE StartRun(w)
  <2>1. rev' \in [Revision -> RevisionRow]
    BY <1>0, <1>3 DEF StartRun, TypeOK, RevisionRow
  <2>2. run' \in [Revision -> [1..MaxAttempts -> RunStatus]]
    BY <1>0, <1>3 DEF StartRun, TypeOK, RunStatus
  <2> QED
    BY <1>0, <1>3, <2>1, <2>2 DEF StartRun, TypeOK, Phase
<1>4. CASE AgentEnds(w)
  BY <1>0, <1>4 DEF AgentEnds, TypeOK, Phase
<1>5. CASE Apply(w)
  <2>1. rev' \in [Revision -> RevisionRow]
    BY <1>0, <1>5, PublishedType DEF Apply
  <2>2. job' \in [Revision -> JobRow]
    BY <1>5, CloseJobType DEF Apply, JobStatus
  <2>3. run' \in [Revision -> [1..MaxAttempts -> RunStatus]]
    BY <1>0, <1>5 DEF Apply, TypeOK, RunStatus
  <2> QED
    BY <1>0, <1>5, <2>1, <2>2, <2>3 DEF Apply, TypeOK, Notice
<1>6. CASE Supersede(w)
  <2>1. job' \in [Revision -> JobRow]
    BY <1>6, CloseJobType DEF Supersede, JobStatus
  <2>2. run' \in [Revision -> [1..MaxAttempts -> RunStatus]]
    BY <1>0, <1>6 DEF Supersede, TypeOK, RunStatus
  <2> QED
    BY <1>0, <1>6, <2>1, <2>2 DEF Supersede, TypeOK
<1>7. CASE ApplyFindsDirectory(w)
  BY <1>0, <1>7 DEF ApplyFindsDirectory, TypeOK, Phase
<1>8. CASE FailJob(w)
  <2>1. rev' \in [Revision -> RevisionRow]
    BY <1>0, <1>8 DEF FailJob, TypeOK, RevisionRow, RevisionStatus
  <2>2. job' \in [Revision -> JobRow]
    BY <1>8, CloseJobType DEF FailJob, JobStatus
  <2>3. run' \in [Revision -> [1..MaxAttempts -> RunStatus]]
    BY <1>0, <1>8 DEF FailJob, TypeOK, RunStatus
  <2> QED
    BY <1>0, <1>8, <2>1, <2>2, <2>3 DEF FailJob, TypeOK, Notice
<1>9. CASE ApplyRolledBack(w)
  BY <1>0, <1>9 DEF ApplyRolledBack, TypeOK, Phase
<1>10. CASE Crash(w)
  BY <1>0, <1>10 DEF Crash, TypeOK
<1> QED
  BY <1>1, <1>2, <1>3, <1>4, <1>5, <1>6, <1>7, <1>8, <1>9, <1>10 DEF Proceed

\* Every state of the workflow is well typed: attempts stay within the claims
\* that were made and every notice names a stage or a revision that exists.
THEOREM TypeCorrect == Spec => []TypeOK
<1>1. TypeOK /\ [Next]_vars => TypeOK'
  <2> SUFFICES ASSUME TypeOK, [Next]_vars PROVE TypeOK'
    OBVIOUS
  <2>1. CASE UNCHANGED vars
    BY <2>1 DEF vars, TypeOK
  <2> QED
    BY <2>1, TypeIngest, TypeApprove, TypeReviewer, TypeClaim, TypeWorker DEF Next, Decide
<1> QED
  BY TypeInit, <1>1, PTL DEF Spec

-------------------------------------------------------------------------------
(* The inductive invariant. *)

Inv ==
    /\ TypeOK
    /\ ApprovalChain
    /\ RevisionHistory
    /\ PublishedContent
    /\ OneWinner
    /\ ClaimsConsistent

\* How revisions of one artifact follow each other.
LEMMA RevisionOrder ==
    \A r \in Revision :
        /\ TypeOf(Child(r)) = TypeOf(r) /\ NumberOf(Child(r)) = NumberOf(r) + 1
        /\ \A q \in Revision : /\ q = r <=> TypeOf(q) = TypeOf(r) /\ NumberOf(q) = NumberOf(r)
                               /\ q = Parent(r) <=> r = Child(q)
        /\ NumberOf(r) > 1 => Parent(r) \in Revision
        /\ NumberOf(r) \in Nat
  BY MaxRevisionAssumption DEF Revision, TypeOf, NumberOf, Child, Parent

\* What publishing does to each revision.
LEMMA PublishedFields ==
    ASSUME TypeOK, NEW r \in Revision, NEW c, NEW kind, NEW q \in Revision
    PROVE  LET p == Published(r, c, kind) IN
           /\ p[q].status = IF q = r THEN "REVIEW" ELSE rev[q].status
           /\ p[q].review = IF q = r THEN "PENDING" ELSE rev[q].review
           /\ p[q].content = IF q = r THEN c ELSE rev[q].content
           /\ p[q].feedback = IF q # r /\ q = Parent(r) /\ rev[q].feedback = "OPEN"
                              THEN kind ELSE rev[q].feedback
           /\ p[q].run = rev[q].run
<1>1. rev[q] \in RevisionRow
  BY DEF TypeOK
<1> QED
  BY <1>1 DEF Published, RevisionRow

\* What closing a job does to each job.
LEMMA CloseJobFields ==
    ASSUME TypeOK, NEW w \in Workers, NEW s, NEW q \in Revision
    PROVE  LET c == CloseJob(w, s)
               mine == q = claim[w].rev /\ job[q].owner = OwnerOf[w]
           IN  /\ c[q].status = IF mine THEN s ELSE job[q].status
               /\ c[q].owner = IF mine THEN NoOwner ELSE job[q].owner
               /\ c[q].attempts = job[q].attempts
               /\ ~mine => c[q] = job[q]
<1>1. job[q] \in JobRow /\ claim[w].rev \in Revision
  BY DEF TypeOK, ClaimedJob
<1> QED
  BY <1>1 DEF CloseJob, JobRow, TypeOK

\* What every non-idle claim stands on.
LEMMA ClaimFacts ==
    ASSUME Inv, NEW w \in Workers, claim[w].phase # "idle"
    PROVE  /\ claim[w].rev \in Revision
           /\ claim[w].attempt \in 1..MaxAttempts
           /\ claim[w].attempt <= job[claim[w].rev].attempts
<1>1. claim[w] \in ClaimedJob
  BY DEF Inv, TypeOK
<1>2. claim[w].rev \in Revision /\ claim[w].attempt \in 1..job[claim[w].rev].attempts
  BY <1>1 DEF Inv, ClaimsConsistent, ClaimsMatchRuns, ClaimedJob
<1>3. job[claim[w].rev].attempts \in 0..MaxAttempts
  BY <1>2 DEF Inv, TypeOK, JobRow
<1> QED
  BY <1>2, <1>3, MaxAttemptsAssumption

\* A worker that moves on with its claim, or drops it, disturbs no other claim
\* as long as it touches the run of its own attempt only.
LEMMA ClaimMoves ==
    ASSUME Inv, NEW w \in Workers, claim[w].phase # "idle",
           \A v \in Workers \ {w} : claim'[v] = claim[v],
           \A q \in Revision : job'[q].attempts = job[q].attempts,
           \A q \in Revision, b \in 1..MaxAttempts :
               ~(q = claim[w].rev /\ b = claim[w].attempt) => run'[q][b] = run[q][b],
           \/ claim'[w].phase = "idle"
           \/ /\ claim'[w].rev = claim[w].rev /\ claim'[w].attempt = claim[w].attempt
              /\ run'[claim[w].rev][claim[w].attempt] =
                     IF claim'[w].phase \in {"running", "returned", "raised"}
                     THEN "RUNNING" ELSE "NONE"
    PROVE  ClaimsMatchRuns'
<1>1. ASSUME NEW v \in Workers, claim'[v].phase # "idle"
      PROVE  /\ claim[v].phase # "idle"
             /\ claim'[v].rev = claim[v].rev /\ claim'[v].attempt = claim[v].attempt
             /\ claim[v].rev \in Revision /\ claim[v].attempt \in 1..MaxAttempts
  BY <1>1, ClaimFacts
<1>2. ASSUME NEW v \in Workers, claim'[v].phase # "idle"
      PROVE  LET q == claim'[v].rev
                 b == claim'[v].attempt
             IN  /\ b \in 1..job'[q].attempts
                 /\ run'[q][b] = IF claim'[v].phase \in {"running", "returned", "raised"}
                                 THEN "RUNNING" ELSE "NONE"
                 /\ \A u \in Workers \ {v} :
                        claim'[u].phase # "idle" /\ claim'[u].rev = q => claim'[u].attempt # b
  BY <1>1, <1>2 DEF Inv, ClaimsConsistent, ClaimsMatchRuns
<1>3. ASSUME NEW q \in Revision, NEW b \in 1..MaxAttempts, b > job'[q].attempts
      PROVE  run'[q][b] = "NONE"
  <2>1. job[q].attempts \in Nat
    BY DEF Inv, TypeOK, JobRow
  <2>2. ~(q = claim[w].rev /\ b = claim[w].attempt)
    BY <2>1, <1>3, ClaimFacts
  <2> QED
    BY <2>2, <1>3 DEF Inv, ClaimsConsistent, ClaimsMatchRuns
<1> QED
  BY <1>2, <1>3 DEF ClaimsMatchRuns

\* Applying a result publishes one revision, by one attempt, on a directory that
\* was not there.
LEMMA InvApply == ASSUME Inv, NEW w \in Workers, Apply(w) PROVE Inv'
<1> DEFINE r == claim[w].rev
           a == claim[w].attempt
           t == TypeOf(r)
<1> USE DEF Inv
<1>1. TypeOK'
  BY TypeWorker DEF Proceed
<1>2. /\ claim[w].phase = "returned"
      /\ stage = t /\ current[t] = NumberOf(r)
      /\ rev[r].status \in InProgress
      /\ job[r].status = "RUNNING" /\ job[r].owner = OwnerOf[w]
      /\ disk[r] = NoContent
  BY DEF Apply, Fence, Preconditions, OwnsLease, ExpectedStatus, InProgress
<1>3. r \in Revision /\ t \in ArtifactType /\ a \in 1..MaxAttempts /\ a \in Content
  BY <1>2, ClaimFacts, RevisionShape, MaxAttemptsAssumption DEF Content
<1>4. \A q \in Revision :
          /\ rev'[q].status = IF q = r THEN "REVIEW" ELSE rev[q].status
          /\ rev'[q].review = IF q = r THEN "PENDING" ELSE rev[q].review
          /\ rev'[q].content = IF q = r THEN a ELSE rev[q].content
          /\ rev'[q].feedback = IF q # r /\ q = Parent(r) /\ rev[q].feedback = "OPEN"
                                THEN "AGENT" ELSE rev[q].feedback
  BY <1>3, PublishedFields DEF Apply
<1>5. \A q \in Revision :
          /\ job'[q].status = IF q = r THEN "SUCCEEDED" ELSE job[q].status
          /\ job'[q].owner = IF q = r THEN NoOwner ELSE job[q].owner
          /\ job'[q].attempts = job[q].attempts
          /\ q # r => job'[q] = job[q]
  BY <1>2, <1>3, CloseJobFields DEF Apply
<1>6. /\ \A q \in Revision, b \in 1..MaxAttempts :
             run'[q][b] = IF q = r /\ b = a THEN "SUCCEEDED" ELSE run[q][b]
      /\ \A q \in Revision : disk'[q] = IF q = r THEN a ELSE disk[q]
      /\ \A v \in Workers : claim'[v] = IF v = w THEN Idle ELSE claim[v]
      /\ UNCHANGED <<stage, current, handoff>>
  BY <1>3 DEF Apply, TypeOK
<1>7. ApprovalChain'
  <2> SUFFICES ASSUME NEW s \in ArtifactType PROVE Approved(s)' <=> Approved(s)
    BY <1>6 DEF ApprovalChain
  <2>1. CASE s = t
    BY <2>1, <1>2, <1>3, <1>4, <1>6, RevisionShape DEF Approved, InProgress
  <2>2. CASE s # t
    <3>1. current[s] # 0 => <<s, current[s]>> \in Revision /\ <<s, current[s]>> # r
      <4>1. current[s] \in 0..MaxRevision
        BY DEF TypeOK
      <4> QED
        BY <4>1, <2>2, RevisionShape, MaxRevisionAssumption
    <3> QED
      BY <3>1, <1>4, <1>6 DEF Approved
  <2> QED
    BY <2>1, <2>2
<1>8. RevisionHistory'
  <2> SUFFICES ASSUME NEW q \in Revision
               PROVE  /\ NumberOf(q) < current[TypeOf(q)] => rev'[q].status = "CHANGES_REQUESTED"
                      /\ NumberOf(q) > current[TypeOf(q)] => rev'[q] = NoRevision
                      /\ rev'[q].feedback \in {"AGENT", "MANUAL"} <=>
                             /\ NumberOf(q) < current[TypeOf(q)]
                             /\ rev'[Child(q)].content # NoContent
    BY <1>6 DEF RevisionHistory
  <2>1. CASE q = r
    BY <2>1, <1>2, <1>3, <1>4, RevisionOrder DEF ClaimsConsistent, RowsMatch, InProgress
  <2>2. CASE q = Parent(r)
    BY <2>2, <1>2, <1>3, <1>4, RevisionOrder DEF RevisionHistory, ClaimsConsistent, RowsMatch, TypeOK, RevisionRow, FeedbackStatus, NoContent
  <2>3. CASE q # r /\ q # Parent(r)
    <3>1. rev'[q] = rev[q]
      BY <2>3, <1>3 DEF Apply, Published
    <3>2. Child(q) # r
      BY <2>3, <1>3, RevisionOrder
    <3>3. NumberOf(q) < current[TypeOf(q)] => Child(q) \in Revision
      BY RevisionShape, RevisionOrder, MaxRevisionAssumption DEF TypeOK
    <3> QED
      BY <3>1, <3>2, <3>3, <1>4 DEF RevisionHistory
  <2> QED
    BY <2>1, <2>2, <2>3
<1>9. PublishedContent'
  BY <1>1, <1>2, <1>3, <1>4, <1>6 DEF PublishedContent, InProgress, NoContent
<1>10. OneWinner'
  <2>1. rev[r].content = NoContent
    BY <1>2, <1>3 DEF PublishedContent, InProgress
  <2>2. ASSUME NEW q \in Revision, NEW b \in 1..MaxAttempts
        PROVE  run'[q][b] = "SUCCEEDED" <=> rev'[q].content = b
    BY <2>1, <1>3, <1>4, <1>6 DEF OneWinner, NoContent
  <2>3. ASSUME NEW q \in Revision
        PROVE  job'[q].status = "SUCCEEDED" <=> rev'[q].content > ByHuman
    BY <1>3, <1>4, <1>5 DEF OneWinner, ByHuman
  <2> QED
    BY <2>2, <2>3 DEF OneWinner
<1>11. ClaimsMatchRuns'
  BY <1>2, <1>5, <1>6, ClaimMoves DEF Idle
<1>12. RowsMatch'
  BY <1>2, <1>3, <1>4, <1>5, <1>6, RevisionOrder DEF ClaimsConsistent, RowsMatch, InProgress
<1> QED
  BY <1>1, <1>7, <1>8, <1>9, <1>10, <1>11, <1>12 DEF ClaimsConsistent

\* A step that leaves the feature and its revisions alone keeps what is said of
\* them alone.
LEMMA RevisionsUntouched ==
    ASSUME Inv, UNCHANGED <<stage, current, rev, disk, handoff>>
    PROVE  ApprovalChain' /\ RevisionHistory' /\ PublishedContent'
<1>1. ApprovalChain'
  BY DEF Inv, ApprovalChain, Approved
<1>2. RevisionHistory'
  BY DEF Inv, RevisionHistory
<1>3. PublishedContent'
  BY DEF Inv, PublishedContent
<1> QED
  BY <1>1, <1>2, <1>3

\* Dropping the claim with the job closed as s, and the run, if it is recorded,
\* set to an outcome other than success.
LEMMA InvJobDropped ==
    ASSUME Inv, NEW w \in Workers,
           CancelStaleJob(w) \/ Supersede(w)
    PROVE  Inv'
<1> DEFINE r == claim[w].rev
           a == claim[w].attempt
<1> USE DEF Inv
<1>1. TypeOK'
  BY TypeWorker DEF Proceed
<1>2. claim[w].phase \in {"stale", "returned"} /\ r \in Revision /\ a \in 1..MaxAttempts
  BY ClaimFacts DEF CancelStaleJob, Supersede
<1>3. /\ \A q \in Revision :
             /\ job'[q].attempts = job[q].attempts
             /\ job'[q].status = "RUNNING" <=> job'[q].owner # NoOwner
             /\ job'[q].status = "SUCCEEDED" <=> job[q].status = "SUCCEEDED"
             /\ job[q] = NoJob => job'[q] = NoJob
  <2>1. job' = CloseJob(w, "CANCELLED") /\ OwnerOf[w] # NoOwner
    BY OwnerAssumption DEF CancelStaleJob, Supersede
  <2> QED
    BY <2>1, CloseJobFields DEF ClaimsConsistent, RowsMatch, NoJob
<1>4. /\ \A q \in Revision, b \in 1..MaxAttempts :
             run'[q][b] = IF q = r /\ b = a /\ claim[w].phase = "returned"
                          THEN "SUPERSEDED" ELSE run[q][b]
      /\ \A v \in Workers : claim'[v] = IF v = w THEN Idle ELSE claim[v]
      /\ UNCHANGED <<stage, current, rev, disk, handoff>>
  <2>1. CASE CancelStaleJob(w)
    BY <1>2, <2>1 DEF CancelStaleJob, TypeOK
  <2>2. CASE Supersede(w)
    BY <1>2, <2>2 DEF Supersede, TypeOK
  <2> QED
    BY <2>1, <2>2
<1>5. OneWinner'
  <2>1. run[r][a] # "SUCCEEDED" /\ run[r][a] # "SUPERSEDED"
    BY <1>2 DEF ClaimsConsistent, ClaimsMatchRuns
  <2> QED
    BY <1>2, <1>3, <1>4, <2>1 DEF OneWinner
<1>6. ClaimsMatchRuns'
  BY <1>2, <1>3, <1>4, ClaimMoves DEF Idle
<1>7. RowsMatch'
  BY <1>3, <1>4 DEF ClaimsConsistent, RowsMatch
<1> QED
  BY <1>1, <1>4, <1>5, <1>6, <1>7, RevisionsUntouched DEF ClaimsConsistent

\* A step that changes the claim only.
LEMMA InvClaimOnly ==
    ASSUME Inv, NEW w \in Workers,
           LoadContext(w) \/ AgentEnds(w) \/ ApplyFindsDirectory(w) \/ Crash(w)
    PROVE  Inv'
<1> USE DEF Inv
<1>1. TypeOK'
  BY TypeWorker DEF Proceed
<1>2. claim[w].phase # "idle"
  BY DEF LoadContext, AgentEnds, ApplyFindsDirectory, Crash
<1>3. UNCHANGED <<stage, version, current, rev, job, run, disk, outbox, handoff>>
  BY DEF LoadContext, AgentEnds, ApplyFindsDirectory, Crash
<1>4. \A v \in Workers \ {w} : claim'[v] = claim[v]
  BY DEF LoadContext, AgentEnds, ApplyFindsDirectory, Crash, TypeOK
<1>5. \/ claim'[w].phase = "idle"
      \/ /\ claim'[w].rev = claim[w].rev /\ claim'[w].attempt = claim[w].attempt
         /\ claim'[w].phase \in {"running", "returned", "raised"} <=>
                claim[w].phase \in {"running", "returned", "raised"}
  <2>1. claim[w] \in ClaimedJob
    BY DEF TypeOK
  <2> QED
    BY <2>1 DEF LoadContext, AgentEnds, ApplyFindsDirectory, Crash, TypeOK, ClaimedJob, Idle
<1>6. ClaimsMatchRuns'
  <2>1. run[claim[w].rev][claim[w].attempt] =
            IF claim[w].phase \in {"running", "returned", "raised"} THEN "RUNNING" ELSE "NONE"
    BY <1>2 DEF ClaimsConsistent, ClaimsMatchRuns
  <2> QED
    BY <1>2, <1>3, <1>4, <1>5, <2>1, ClaimMoves
<1>7. OneWinner' /\ RowsMatch'
  BY <1>3 DEF OneWinner, ClaimsConsistent, RowsMatch
<1> QED
  BY <1>1, <1>3, <1>6, <1>7, RevisionsUntouched DEF ClaimsConsistent

\* The revision of a claim has been opened.
LEMMA ClaimedRevisionOpen ==
    ASSUME Inv, NEW w \in Workers, claim[w].phase # "idle"
    PROVE  NumberOf(claim[w].rev) <= current[TypeOf(claim[w].rev)]
<1> DEFINE r == claim[w].rev
<1>1. r \in Revision /\ job[r].attempts >= 1
  <2>1. r \in Revision /\ claim[w].attempt \in 1..MaxAttempts /\ claim[w].attempt <= job[r].attempts
    BY ClaimFacts
  <2>2. job[r].attempts \in 0..MaxAttempts
    BY <2>1 DEF Inv, TypeOK, JobRow
  <2> QED
    BY <2>1, <2>2, MaxAttemptsAssumption
<1>2. job[r] # NoJob
  BY <1>1 DEF NoJob
<1>3. current[TypeOf(r)] \in Nat /\ NumberOf(r) \in Nat
  BY <1>1, RevisionShape, RevisionOrder, MaxRevisionAssumption DEF Inv, TypeOK
<1> QED
  BY <1>1, <1>2, <1>3 DEF Inv, ClaimsConsistent, RowsMatch

\* Starting a run, even for a job that has moved on, touches provenance only.
LEMMA InvStartRun == ASSUME Inv, NEW w \in Workers, StartRun(w) PROVE Inv'
<1> DEFINE r == claim[w].rev
           a == claim[w].attempt
<1> USE DEF Inv
<1>1. TypeOK'
  BY TypeWorker DEF Proceed
<1>2. claim[w].phase = "loaded" /\ r \in Revision /\ a \in 1..MaxAttempts
  BY ClaimFacts DEF StartRun
<1>3. \A q \in Revision :
          /\ rev'[q].status = rev[q].status /\ rev'[q].review = rev[q].review
          /\ rev'[q].feedback = rev[q].feedback /\ rev'[q].content = rev[q].content
          /\ q # r => rev'[q] = rev[q]
  <2>1. \A q \in Revision : rev[q] \in RevisionRow
    BY DEF TypeOK
  <2> QED
    BY <1>2, <2>1 DEF StartRun, TypeOK, RevisionRow
<1>4. /\ \A q \in Revision, b \in 1..MaxAttempts :
             run'[q][b] = IF q = r /\ b = a THEN "RUNNING" ELSE run[q][b]
      /\ \A v \in Workers \ {w} : claim'[v] = claim[v]
      /\ claim'[w].rev = r /\ claim'[w].attempt = a /\ claim'[w].phase = "running"
      /\ UNCHANGED <<stage, current, job, disk, handoff>>
  <2>1. claim[w] \in ClaimedJob
    BY DEF TypeOK
  <2> QED
    BY <1>2, <2>1 DEF StartRun, TypeOK, ClaimedJob
<1>5. NumberOf(r) <= current[TypeOf(r)]
  BY <1>2, ClaimedRevisionOpen
<1>6. ApprovalChain'
  <2> SUFFICES ASSUME NEW s \in ArtifactType PROVE Approved(s)' <=> Approved(s)
    BY <1>4 DEF ApprovalChain
  <2>1. current[s] # 0 => <<s, current[s]>> \in Revision
    BY RevisionShape, MaxRevisionAssumption DEF TypeOK
  <2> QED
    BY <1>3, <1>4, <2>1 DEF Approved
<1>7. RevisionHistory'
  <2>1. ASSUME NEW q \in Revision
        PROVE  NumberOf(q) < current[TypeOf(q)] => Child(q) \in Revision
    BY RevisionShape, RevisionOrder, MaxRevisionAssumption DEF TypeOK
  <2>2. \A q \in Revision : NumberOf(q) > current[TypeOf(q)] => q # r
    BY <1>5, <1>2, RevisionOrder, RevisionShape, MaxRevisionAssumption DEF TypeOK
  <2> QED
    BY <1>3, <1>4, <2>1, <2>2 DEF RevisionHistory
<1>8. PublishedContent'
  BY <1>3, <1>4 DEF PublishedContent
<1>9. OneWinner'
  <2>1. run[r][a] = "NONE"
    BY <1>2 DEF ClaimsConsistent, ClaimsMatchRuns
  <2> QED
    BY <1>2, <1>3, <1>4, <2>1 DEF OneWinner
<1>10. ClaimsMatchRuns'
  BY <1>2, <1>4, ClaimMoves
<1>11. RowsMatch'
  BY <1>3, <1>4 DEF ClaimsConsistent, RowsMatch
<1> QED
  BY <1>1, <1>6, <1>7, <1>8, <1>9, <1>10, <1>11 DEF ClaimsConsistent

\* Recording a failure, even by an attempt that was taken over, spares every
\* published revision and every run that succeeded.
LEMMA InvFailJob == ASSUME Inv, NEW w \in Workers, FailJob(w) PROVE Inv'
<1> DEFINE r == claim[w].rev
           a == claim[w].attempt
<1> USE DEF Inv
<1>1. TypeOK'
  BY TypeWorker DEF Proceed
<1>2. claim[w].phase = "raised" /\ r \in Revision /\ a \in 1..MaxAttempts
  BY ClaimFacts DEF FailJob
<1>3. \A q \in Revision :
          /\ rev'[q].status = IF q = r /\ rev[q].status \in InProgress
                              THEN "FAILED" ELSE rev[q].status
          /\ rev'[q].review = rev[q].review
          /\ rev'[q].feedback = rev[q].feedback /\ rev'[q].content = rev[q].content
          /\ q # r => rev'[q] = rev[q]
  <2>1. \A q \in Revision : rev[q] \in RevisionRow
    BY DEF TypeOK
  <2> QED
    BY <1>2, <2>1 DEF FailJob, TypeOK, RevisionRow
<1>4. \A q \in Revision :
          /\ job'[q].attempts = job[q].attempts
          /\ job'[q].status = "RUNNING" <=> job'[q].owner # NoOwner
          /\ job'[q].status = "SUCCEEDED" <=> job[q].status = "SUCCEEDED"
          /\ job[q] = NoJob => job'[q] = NoJob
  <2>1. job' = CloseJob(w, "FAILED") /\ OwnerOf[w] # NoOwner
    BY OwnerAssumption DEF FailJob
  <2> QED
    BY <2>1, CloseJobFields DEF ClaimsConsistent, RowsMatch, NoJob
<1>5. /\ \A q \in Revision, b \in 1..MaxAttempts :
             run'[q][b] = IF q = r /\ b = a THEN "FAILED" ELSE run[q][b]
      /\ \A v \in Workers : claim'[v] = IF v = w THEN Idle ELSE claim[v]
      /\ UNCHANGED <<stage, current, disk, handoff>>
  BY <1>2 DEF FailJob, TypeOK
<1>6. ApprovalChain'
  <2> SUFFICES ASSUME NEW s \in ArtifactType PROVE Approved(s)' <=> Approved(s)
    BY <1>5 DEF ApprovalChain
  <2>1. current[s] # 0 => <<s, current[s]>> \in Revision
    BY RevisionShape, MaxRevisionAssumption DEF TypeOK
  <2> QED
    BY <1>3, <1>5, <2>1 DEF Approved, InProgress
<1>7. RevisionHistory'
  <2>1. ASSUME NEW q \in Revision
        PROVE  /\ NumberOf(q) < current[TypeOf(q)] => Child(q) \in Revision
               /\ NumberOf(q) > current[TypeOf(q)] => q # r
    <3>1. current[TypeOf(q)] \in 0..MaxRevision /\ NumberOf(q) \in 1..MaxRevision
      BY RevisionShape DEF TypeOK
    <3>2. NumberOf(r) <= current[TypeOf(r)]
      BY <1>2, ClaimedRevisionOpen
    <3> QED
      BY <3>1, <3>2, RevisionShape, MaxRevisionAssumption
  <2> QED
    BY <1>3, <1>5, <2>1 DEF RevisionHistory, InProgress
<1>8. PublishedContent'
  BY <1>3, <1>5 DEF PublishedContent, InProgress
<1>9. OneWinner'
  <2>1. run[r][a] = "RUNNING"
    BY <1>2 DEF ClaimsConsistent, ClaimsMatchRuns
  <2> QED
    BY <1>2, <1>3, <1>4, <1>5, <2>1 DEF OneWinner
<1>10. ClaimsMatchRuns'
  BY <1>2, <1>4, <1>5, ClaimMoves DEF Idle
<1>11. RowsMatch'
  BY <1>3, <1>4, <1>5 DEF ClaimsConsistent, RowsMatch, InProgress
<1> QED
  BY <1>1, <1>6, <1>7, <1>8, <1>9, <1>10, <1>11 DEF ClaimsConsistent

\* A directory that appears without its row is a directory of no published
\* revision.
LEMMA InvRolledBack ==
    ASSUME Inv, (\E w \in Workers : ApplyRolledBack(w))
                \/ (\E r \in Revision : ManualRevisionRolledBack(r))
    PROVE  Inv'
<1> USE DEF Inv
<1>1. ASSUME NEW w \in Workers, ApplyRolledBack(w) PROVE Inv'
  <2> DEFINE r == claim[w].rev
  <2>1. TypeOK'
    BY <1>1, TypeWorker
  <2>2. claim[w].phase = "returned" /\ r \in Revision /\ disk[r] = NoContent
    BY <1>1, ClaimFacts DEF ApplyRolledBack
  <2>3. /\ \A q \in Revision : q # r => disk'[q] = disk[q]
        /\ \A v \in Workers \ {w} : claim'[v] = claim[v]
        /\ UNCHANGED <<stage, current, rev, job, run, handoff>>
    BY <1>1, <2>2 DEF ApplyRolledBack, TypeOK
  <2>4. \/ claim'[w].phase = "idle"
        \/ claim'[w].rev = r /\ claim'[w].attempt = claim[w].attempt /\ claim'[w].phase = "raised"
    <3>1. claim[w] \in ClaimedJob
      BY DEF TypeOK
    <3> QED
      BY <1>1, <3>1 DEF ApplyRolledBack, TypeOK, ClaimedJob, Idle
  <2>5. ClaimsMatchRuns'
    <3>1. run[r][claim[w].attempt] = "RUNNING"
      BY <2>2 DEF ClaimsConsistent, ClaimsMatchRuns
    <3> QED
      BY <2>2, <2>3, <2>4, <3>1, ClaimMoves
  <2>6. ApprovalChain' /\ RevisionHistory' /\ OneWinner' /\ RowsMatch'
    BY <2>3 DEF ApprovalChain, Approved, RevisionHistory, OneWinner, ClaimsConsistent, RowsMatch
  <2>7. PublishedContent'
    BY <2>2, <2>3 DEF PublishedContent
  <2> QED
    BY <2>1, <2>5, <2>6, <2>7 DEF ClaimsConsistent
<1>2. ASSUME NEW r \in Revision, ManualRevisionRolledBack(r) PROVE Inv'
  <2>1. TypeOK'
    BY <1>2, TypeReviewer
  <2>2. disk[Child(r)] = NoContent /\ disk' = [disk EXCEPT ![Child(r)] = ByHuman]
        /\ UNCHANGED <<stage, current, rev, job, run, handoff, claim>>
    BY <1>2 DEF ManualRevisionRolledBack
  <2>3. PublishedContent'
    BY <2>2 DEF PublishedContent, TypeOK
  <2> QED
    BY <2>1, <2>2, <2>3 DEF ApprovalChain, Approved, RevisionHistory, OneWinner,
       ClaimsConsistent, ClaimsMatchRuns, RowsMatch
<1> QED
  BY <1>1, <1>2

\* A claim makes a new attempt, which no process holds and no run records.
LEMMA InvClaim == ASSUME Inv, NEW w \in Workers, NEW r \in Revision, Claim(w, r) PROVE Inv'
<1> USE DEF Inv
<1> DEFINE a == job[r].attempts + 1
<1>1. TypeOK'
  BY TypeClaim
<1>2. /\ claim[w].phase = "idle" /\ job[r].status \in {"PENDING", "RUNNING"}
      /\ a \in 1..MaxAttempts
  <2>1. job[r].attempts \in 0..MaxAttempts
    BY DEF TypeOK, JobRow
  <2> QED
    BY <2>1, MaxAttemptsAssumption DEF Claim, Claimable
<1>3. \A q \in Revision :
          /\ job'[q].attempts = IF q = r THEN a ELSE job[q].attempts
          /\ job'[q].status = IF q = r THEN "RUNNING" ELSE job[q].status
          /\ job'[q].owner = IF q = r THEN OwnerOf[w] ELSE job[q].owner
          /\ q # r => job'[q] = job[q]
  <2>1. \A q \in Revision : job[q] \in JobRow
    BY DEF TypeOK
  <2> QED
    BY <2>1 DEF Claim, TypeOK, JobRow
<1>4. /\ claim'[w] = [phase |-> "claimed", rev |-> r, attempt |-> a]
      /\ \A v \in Workers \ {w} : claim'[v] = claim[v]
      /\ UNCHANGED <<stage, current, rev, run, disk, handoff>>
  BY DEF Claim, TypeOK
<1>5. OneWinner'
  BY <1>2, <1>3, <1>4 DEF OneWinner
<1>6. RowsMatch'
  <2>1. OwnerOf[w] # NoOwner /\ job[r] # NoJob
    BY <1>2, OwnerAssumption DEF NoJob
  <2> QED
    BY <1>3, <1>4, <2>1 DEF ClaimsConsistent, RowsMatch
<1>7. ClaimsMatchRuns'
  <2>1. \A q \in Revision : job[q].attempts \in Nat
    BY DEF TypeOK, JobRow
  <2>2. \A v \in Workers : claim[v].phase # "idle" =>
            /\ claim[v].rev \in Revision /\ claim[v].attempt \in 1..job[claim[v].rev].attempts
            /\ claim[v].rev = r => claim[v].attempt # a
    BY <2>1, ClaimFacts DEF ClaimsConsistent, ClaimsMatchRuns
  <2>3. run[r][a] = "NONE"
    BY <2>1, <1>2 DEF ClaimsConsistent, ClaimsMatchRuns
  <2>4. \A q \in Revision, b \in 1..MaxAttempts : b > job'[q].attempts => run'[q][b] = "NONE"
    BY <2>1, <1>2, <1>3, <1>4 DEF ClaimsConsistent, ClaimsMatchRuns
  <2>5. ASSUME NEW v \in Workers, claim'[v].phase # "idle"
        PROVE  LET q == claim'[v].rev
                   b == claim'[v].attempt
               IN  /\ b \in 1..job'[q].attempts
                   /\ run'[q][b] = IF claim'[v].phase \in {"running", "returned", "raised"}
                                   THEN "RUNNING" ELSE "NONE"
                   /\ \A u \in Workers \ {v} :
                          claim'[u].phase # "idle" /\ claim'[u].rev = q => claim'[u].attempt # b
    <3>1. CASE v = w
      BY <3>1, <2>1, <2>2, <2>3, <1>2, <1>3, <1>4
    <3>2. CASE v # w
      <4>1. claim'[v] = claim[v] /\ claim[v].phase # "idle"
        BY <3>2, <2>5, <1>4
      <4>2. claim[v].attempt \in 1..job'[claim[v].rev].attempts
        BY <4>1, <2>1, <2>2, <1>3
      <4> QED
        BY <4>1, <4>2, <2>2, <1>4 DEF ClaimsConsistent, ClaimsMatchRuns
    <3> QED
      BY <3>1, <3>2
  <2> QED
    BY <2>4, <2>5 DEF ClaimsMatchRuns
<1> QED
  BY <1>1, <1>4, <1>5, <1>6, <1>7, RevisionsUntouched DEF ClaimsConsistent

\* A lease that runs out changes no row anything else depends on.
LEMMA InvLeaseExpires == ASSUME Inv, NEW r \in Revision, LeaseExpires(r) PROVE Inv'
<1> USE DEF Inv
<1>1. TypeOK'
  BY TypeClaim
<1>2. \A q \in Revision :
          /\ job'[q].attempts = job[q].attempts /\ job'[q].status = job[q].status
          /\ job'[q].owner = job[q].owner
          /\ job[q] = NoJob => job'[q] = NoJob
  <2>1. \A q \in Revision : job[q] \in JobRow
    BY DEF TypeOK
  <2>2. job[r] # NoJob
    BY DEF LeaseExpires, NoJob
  <2> QED
    BY <2>1, <2>2 DEF LeaseExpires, TypeOK, JobRow
<1>3. UNCHANGED <<stage, current, rev, run, disk, handoff, claim>>
  BY DEF LeaseExpires
<1>4. OneWinner' /\ RowsMatch'
  BY <1>2, <1>3 DEF OneWinner, ClaimsConsistent, RowsMatch
<1>5. ClaimsMatchRuns'
  <2>1. \A v \in Workers : claim[v].phase # "idle" => claim[v].rev \in Revision
    BY ClaimFacts
  <2> QED
    BY <2>1, <1>2, <1>3 DEF ClaimsConsistent, ClaimsMatchRuns
<1> QED
  BY <1>1, <1>3, <1>4, <1>5, RevisionsUntouched DEF ClaimsConsistent

\* Nothing is done when a feature arrives, and an approval adds the approved
\* artifact to those that are.
LEMMA StageOrder ==
    /\ Before["ABSENT"] = {} /\ "ABSENT" \notin ArtifactType
    /\ "IMPLEMENTATION" \notin ArtifactType
    /\ \A s \in ArtifactType :
           /\ NextStage[s] \in Stage /\ Before[NextStage[s]] = Before[s] \cup {s}
           /\ s \notin Before[s] /\ NextStage[s] \notin Before[s] \cup {s}
           /\ NextStage[s] \in ArtifactType <=> NextStage[s] # "IMPLEMENTATION"
<1>1. Before["ABSENT"] = {} /\ "ABSENT" \notin ArtifactType /\ "IMPLEMENTATION" \notin ArtifactType
  BY DEF Before, ArtifactType
<1>2. ASSUME NEW s \in ArtifactType
      PROVE  /\ NextStage[s] \in Stage /\ Before[NextStage[s]] = Before[s] \cup {s}
             /\ s \notin Before[s] /\ NextStage[s] \notin Before[s] \cup {s}
             /\ NextStage[s] \in ArtifactType <=> NextStage[s] # "IMPLEMENTATION"
  <2>1. CASE s = "INTENT"
    BY <2>1 DEF NextStage, Before, Stage, ArtifactType
  <2>2. CASE s = "SPEC"
    BY <2>2 DEF NextStage, Before, Stage, ArtifactType
  <2>3. CASE s = "PLAN"
    BY <2>3 DEF NextStage, Before, Stage, ArtifactType
  <2> QED
    BY <2>1, <2>2, <2>3 DEF ArtifactType
<1> QED
  BY <1>1, <1>2

\* A revision that is still to be opened has left no trace, except perhaps a
\* directory.
LEMMA Unopened ==
    ASSUME Inv, NEW r \in Revision, NumberOf(r) > current[TypeOf(r)]
    PROVE  /\ rev[r] = NoRevision /\ job[r] = NoJob
           /\ \A w \in Workers : claim[w].phase # "idle" => claim[w].rev # r
           /\ \A b \in 1..MaxAttempts : run[r][b] = "NONE"
<1>1. rev[r] = NoRevision /\ job[r] = NoJob
  BY DEF Inv, RevisionHistory, ClaimsConsistent, RowsMatch
<1>2. job[r].attempts = 0
  BY <1>1 DEF NoJob
<1>3. \A w \in Workers : claim[w].phase # "idle" => claim[w].rev # r
  BY <1>2 DEF Inv, ClaimsConsistent, ClaimsMatchRuns
<1>4. \A b \in 1..MaxAttempts : run[r][b] = "NONE"
  BY <1>2 DEF Inv, ClaimsConsistent, ClaimsMatchRuns
<1> QED
  BY <1>1, <1>3, <1>4

\* Queueing its job disturbs no claim.
LEMMA QueueingKeepsClaims ==
    ASSUME Inv, NEW r \in Revision, NumberOf(r) > current[TypeOf(r)],
           NEW n \in Nat, job' = [job EXCEPT ![r] = QueuedJob(n)],
           UNCHANGED <<run, claim>>
    PROVE  /\ ClaimsMatchRuns'
           /\ \A q \in Revision : q # r => job'[q] = job[q]
           /\ job'[r].status = "PENDING" /\ job'[r].owner = NoOwner
<1>1. job \in [Revision -> JobRow]
  BY DEF Inv, TypeOK
<1>2. /\ \A q \in Revision : q # r => job'[q] = job[q]
      /\ job'[r].status = "PENDING" /\ job'[r].owner = NoOwner /\ job'[r].attempts = 0
  BY <1>1 DEF QueuedJob, NoJob
<1>3. \A w \in Workers : claim[w].phase # "idle" => claim[w].rev \in Revision /\ claim[w].rev # r
  BY ClaimFacts, Unopened
<1>4. ClaimsMatchRuns'
  BY <1>2, <1>3, Unopened DEF Inv, ClaimsConsistent, ClaimsMatchRuns
<1> QED
  BY <1>2, <1>4

\* An arriving feature opens the first revision of the first artifact.
LEMMA InvIngest == ASSUME Inv, IngestFeature PROVE Inv'
<1> DEFINE r == <<"INTENT", 1>>
<1> USE DEF Inv
<1>1. TypeOK'
  BY TypeIngest
<1>2. r \in Revision /\ TypeOf(r) = "INTENT" /\ NumberOf(r) = 1 /\ "INTENT" \in ArtifactType
  BY RevisionShape, MaxRevisionAssumption DEF ArtifactType
<1>3. \A t \in ArtifactType : current[t] = 0
  <2>1. stage = "ABSENT"
    BY DEF IngestFeature
  <2>2. \A t \in ArtifactType : t \notin Before[stage] \cup {stage}
    BY <2>1, StageOrder
  <2> QED
    BY <2>2 DEF ApprovalChain
<1>4. \A q \in Revision : rev[q] = NoRevision /\ job[q] = NoJob /\ NumberOf(q) > current[TypeOf(q)]
  BY <1>3, RevisionShape, Unopened
<1>5. /\ \A q \in Revision : rev'[q] = IF q = r THEN [NoRevision EXCEPT !.status = "GENERATING"]
                                               ELSE NoRevision
      /\ \A t \in ArtifactType : current'[t] = IF t = "INTENT" THEN 1 ELSE 0
      /\ stage = "ABSENT" /\ stage' = "INTENT"
      /\ job' = [job EXCEPT ![r] = QueuedJob(1)]
      /\ UNCHANGED <<run, disk, handoff, claim>>
  BY <1>2, <1>3, <1>4 DEF IngestFeature, TypeOK
<1>6. /\ ClaimsMatchRuns'
      /\ \A q \in Revision : q # r => job'[q] = job[q]
      /\ job'[r].status = "PENDING" /\ job'[r].owner = NoOwner
  BY <1>2, <1>4, <1>5, QueueingKeepsClaims
<1>7. ApprovalChain'
  BY <1>2, <1>5 DEF ApprovalChain, Approved, Before, ArtifactType, NoRevision
<1>8. RevisionHistory'
  BY <1>2, <1>5, RevisionShape DEF RevisionHistory, NoRevision
<1>9. PublishedContent'
  BY <1>2, <1>5 DEF PublishedContent, NoRevision
<1>10. OneWinner'
  BY <1>2, <1>4, <1>5, <1>6 DEF OneWinner, NoRevision, NoContent, ByHuman
<1>11. RowsMatch'
  BY <1>2, <1>4, <1>5, <1>6, RevisionShape DEF ClaimsConsistent, RowsMatch, NoRevision
<1> QED
  BY <1>1, <1>6, <1>7, <1>8, <1>9, <1>10, <1>11 DEF ClaimsConsistent

\* Requested changes leave a decided revision with open feedback.
LEMMA InvRequestChanges == ASSUME Inv, NEW r \in Revision, RequestChanges(r) PROVE Inv'
<1> USE DEF Inv
<1>1. TypeOK'
  BY TypeReviewer
<1>2. /\ stage = TypeOf(r) /\ current[TypeOf(r)] = NumberOf(r)
      /\ rev[r].status = "REVIEW"
      /\ TypeOf(r) \in ArtifactType
  BY RevisionShape DEF RequestChanges, Reviewable
<1>3. \A q \in Revision :
          /\ rev'[q].status = IF q = r THEN "CHANGES_REQUESTED" ELSE rev[q].status
          /\ rev'[q].review = IF q = r THEN "CHANGES_REQUESTED" ELSE rev[q].review
          /\ rev'[q].feedback = IF q = r THEN "OPEN" ELSE rev[q].feedback
          /\ rev'[q].content = rev[q].content
          /\ q # r => rev'[q] = rev[q]
  <2>1. \A q \in Revision : rev[q] \in RevisionRow
    BY DEF TypeOK
  <2> QED
    BY <2>1 DEF RequestChanges, TypeOK, RevisionRow
<1>4. UNCHANGED <<stage, current, job, run, disk, handoff, claim>>
  BY DEF RequestChanges
<1>5. ApprovalChain'
  <2> SUFFICES ASSUME NEW s \in ArtifactType PROVE Approved(s)' <=> Approved(s)
    BY <1>4 DEF ApprovalChain
  <2>1. current[s] # 0 => <<s, current[s]>> \in Revision
    BY RevisionShape, MaxRevisionAssumption DEF TypeOK
  <2> QED
    BY <1>2, <1>3, <1>4, <2>1 DEF Approved
<1>6. RevisionHistory'
  <2>1. ASSUME NEW q \in Revision
        PROVE  NumberOf(q) < current[TypeOf(q)] => Child(q) \in Revision
    BY RevisionShape, RevisionOrder, MaxRevisionAssumption DEF TypeOK
  <2>2. ~(NumberOf(r) < current[TypeOf(r)]) /\ ~(NumberOf(r) > current[TypeOf(r)])
    BY <1>2, RevisionOrder
  <2> QED
    BY <1>2, <1>3, <1>4, <2>1, <2>2 DEF RevisionHistory
<1>7. PublishedContent'
  BY <1>2, <1>3, <1>4 DEF PublishedContent
<1>8. OneWinner' /\ ClaimsConsistent'
  BY <1>3, <1>4 DEF OneWinner, ClaimsConsistent, ClaimsMatchRuns, RowsMatch
<1> QED
  BY <1>1, <1>5, <1>6, <1>7, <1>8

\* The agent's next revision is opened behind one that was sent back.
LEMMA InvAddress == ASSUME Inv, NEW r \in Revision, AddressWithAgent(r) PROVE Inv'
<1> DEFINE c == Child(r)
           t == TypeOf(r)
<1> USE DEF Inv
<1>1. TypeOK'
  BY TypeReviewer
<1>2. /\ stage = t /\ current[t] = NumberOf(r) /\ t \in ArtifactType
      /\ rev[r].status = "CHANGES_REQUESTED" /\ rev[r].feedback = "OPEN"
      /\ c \in Revision /\ TypeOf(c) = t /\ NumberOf(c) = NumberOf(r) + 1 /\ c # r
      /\ NumberOf(r) \in Nat
  BY RevisionShape, RevisionOrder DEF AddressWithAgent, Addressable
<1>3. rev[c] = NoRevision /\ job[c] = NoJob /\ NumberOf(c) > current[TypeOf(c)]
  BY <1>2, Unopened
<1>4. /\ \A q \in Revision :
             /\ rev'[q].status = IF q = c THEN "UPDATING" ELSE rev[q].status
             /\ rev'[q].review = rev[q].review /\ rev'[q].feedback = rev[q].feedback
             /\ rev'[q].content = rev[q].content
             /\ q # c => rev'[q] = rev[q]
  <2>1. \A q \in Revision : rev[q] \in RevisionRow
    BY DEF TypeOK
  <2> QED
    BY <1>2, <2>1 DEF AddressWithAgent, TypeOK, RevisionRow
<1>5. /\ \A s \in ArtifactType : current'[s] = IF s = t THEN NumberOf(c) ELSE current[s]
      /\ job' = [job EXCEPT ![c] = QueuedJob(version + 1)]
      /\ UNCHANGED <<stage, run, disk, handoff, claim>>
  BY <1>2 DEF AddressWithAgent, TypeOK
<1>6. /\ ClaimsMatchRuns'
      /\ \A q \in Revision : q # c => job'[q] = job[q]
      /\ job'[c].status = "PENDING" /\ job'[c].owner = NoOwner
  <2>1. version + 1 \in Nat
    BY DEF TypeOK
  <2> QED
    BY <1>2, <1>3, <1>5, <2>1, QueueingKeepsClaims
<1>7. ApprovalChain'
  <2>1. ASSUME NEW s \in ArtifactType
        PROVE  (Approved(s)' <=> Approved(s)) /\ (current'[s] # 0 <=> current[s] # 0)
    <3>1. CASE s = t
      <4>1. <<t, NumberOf(r)>> = r /\ <<t, NumberOf(c)>> = c
        BY <1>2, RevisionShape
      <4>2. NumberOf(r) # 0 /\ NumberOf(c) # 0
        BY <1>2, RevisionShape, MaxRevisionAssumption
      <4> QED
        BY <3>1, <4>1, <4>2, <1>2, <1>4, <1>5 DEF Approved
    <3>2. CASE s # t
      <4>1. current[s] # 0 => <<s, current[s]>> \in Revision /\ <<s, current[s]>> # c
        BY <3>2, <1>2, RevisionShape, MaxRevisionAssumption DEF TypeOK
      <4> QED
        BY <3>2, <4>1, <1>4, <1>5 DEF Approved
    <3> QED
      BY <3>1, <3>2
  <2> QED
    BY <1>5, <2>1 DEF ApprovalChain
<1>8. RevisionHistory'
  <2> SUFFICES ASSUME NEW q \in Revision
               PROVE  /\ NumberOf(q) < current'[TypeOf(q)] => rev'[q].status = "CHANGES_REQUESTED"
                      /\ NumberOf(q) > current'[TypeOf(q)] => rev'[q] = NoRevision
                      /\ rev'[q].feedback \in {"AGENT", "MANUAL"} <=>
                             /\ NumberOf(q) < current'[TypeOf(q)]
                             /\ rev'[Child(q)].content # NoContent
    BY DEF RevisionHistory
  <2>1. TypeOf(q) \in ArtifactType /\ NumberOf(q) \in Nat /\ current[TypeOf(q)] \in Nat
        /\ (NumberOf(q) < current[TypeOf(q)] => Child(q) \in Revision)
    BY RevisionShape, RevisionOrder, MaxRevisionAssumption DEF TypeOK
  <2>2. CASE q = r
    BY <2>2, <1>2, <1>3, <1>4, <1>5 DEF NoRevision
  <2>3. CASE q = c
    BY <2>3, <1>2, <1>3, <1>4, <1>5 DEF NoRevision
  <2>4. CASE q # r /\ q # c
    <3>1. TypeOf(q) = t => NumberOf(q) # NumberOf(r) /\ NumberOf(q) # NumberOf(c)
      BY <2>4, <1>2, RevisionOrder
    <3>2. /\ NumberOf(q) < current'[TypeOf(q)] <=> NumberOf(q) < current[TypeOf(q)]
          /\ NumberOf(q) > current'[TypeOf(q)] => NumberOf(q) > current[TypeOf(q)]
      BY <2>1, <3>1, <1>2, <1>5
    <3> QED
      BY <2>1, <2>4, <3>2, <1>4 DEF RevisionHistory
  <2> QED
    BY <2>2, <2>3, <2>4
<1>9. PublishedContent'
  BY <1>2, <1>3, <1>4, <1>5 DEF PublishedContent, NoRevision
<1>10. OneWinner'
  BY <1>2, <1>3, <1>4, <1>5, <1>6 DEF OneWinner, NoRevision, NoContent, ByHuman
<1>11. RowsMatch'
  <2>1. ASSUME NEW q \in Revision
        PROVE  NumberOf(q) > current'[TypeOf(q)] => q # c /\ NumberOf(q) > current[TypeOf(q)]
    BY <1>2, <1>5, RevisionShape, RevisionOrder, MaxRevisionAssumption DEF TypeOK
  <2> QED
    BY <1>2, <1>3, <1>4, <1>6, <2>1 DEF ClaimsConsistent, RowsMatch, NoRevision
<1> QED
  BY <1>1, <1>6, <1>7, <1>8, <1>9, <1>10, <1>11 DEF ClaimsConsistent

\* A person's next revision is published at once, and resolves the feedback.
LEMMA InvManualRevision == ASSUME Inv, NEW r \in Revision, SubmitManualRevision(r) PROVE Inv'
<1> DEFINE c == Child(r)
           t == TypeOf(r)
<1> USE DEF Inv
<1>1. TypeOK'
  BY TypeReviewer
<1>2. /\ stage = t /\ current[t] = NumberOf(r) /\ t \in ArtifactType
      /\ rev[r].status = "CHANGES_REQUESTED"
      /\ c \in Revision /\ TypeOf(c) = t /\ NumberOf(c) = NumberOf(r) + 1 /\ c # r
      /\ NumberOf(r) \in Nat /\ \A q \in Revision : q = Parent(c) <=> q = r
  BY RevisionShape, RevisionOrder DEF SubmitManualRevision, Addressable
<1>3. rev[c] = NoRevision /\ job[c] = NoJob /\ NumberOf(c) > current[TypeOf(c)]
      /\ \A b \in 1..MaxAttempts : run[c][b] = "NONE"
  BY <1>2, Unopened
<1>4. rev[r].feedback = "OPEN"
  <2>1. rev[r].feedback \in FeedbackStatus
    BY DEF TypeOK, RevisionRow
  <2> QED
    BY <1>2, <2>1 DEF RevisionHistory, ClaimsConsistent, RowsMatch, FeedbackStatus
<1>5. \A q \in Revision :
          /\ rev'[q].status = IF q = c THEN "REVIEW" ELSE rev[q].status
          /\ rev'[q].review = IF q = c THEN "PENDING" ELSE rev[q].review
          /\ rev'[q].content = IF q = c THEN ByHuman ELSE rev[q].content
          /\ rev'[q].feedback = IF q = r THEN "MANUAL" ELSE rev[q].feedback
          /\ q # c /\ q # r => rev'[q] = rev[q]
  <2>1. rev' = Published(c, ByHuman, "MANUAL")
    BY DEF SubmitManualRevision
  <2>2. \A q \in Revision : q # c /\ q # r => rev'[q] = rev[q]
    BY <1>2, <2>1 DEF Published
  <2> QED
    BY <1>2, <1>4, <2>1, <2>2, PublishedFields
<1>6. /\ \A s \in ArtifactType : current'[s] = IF s = t THEN NumberOf(c) ELSE current[s]
      /\ \A q \in Revision : disk'[q] = IF q = c THEN ByHuman ELSE disk[q]
      /\ UNCHANGED <<stage, job, run, handoff, claim>>
  BY <1>2 DEF SubmitManualRevision, TypeOK
<1>7. ApprovalChain'
  <2>1. ASSUME NEW s \in ArtifactType
        PROVE  (Approved(s)' <=> Approved(s)) /\ (current'[s] # 0 <=> current[s] # 0)
    <3>1. CASE s = t
      <4>1. <<t, NumberOf(r)>> = r /\ <<t, NumberOf(c)>> = c
        BY <1>2, RevisionShape
      <4>2. NumberOf(r) # 0 /\ NumberOf(c) # 0
        BY <1>2, RevisionShape, MaxRevisionAssumption
      <4> QED
        BY <3>1, <4>1, <4>2, <1>2, <1>5, <1>6 DEF Approved
    <3>2. CASE s # t
      <4>1. current[s] # 0 => <<s, current[s]>> \in Revision /\ <<s, current[s]>> # c
        BY <3>2, <1>2, RevisionShape, MaxRevisionAssumption DEF TypeOK
      <4> QED
        BY <3>2, <4>1, <1>5, <1>6 DEF Approved
    <3> QED
      BY <3>1, <3>2
  <2> QED
    BY <1>6, <2>1 DEF ApprovalChain
<1>8. RevisionHistory'
  <2> SUFFICES ASSUME NEW q \in Revision
               PROVE  /\ NumberOf(q) < current'[TypeOf(q)] => rev'[q].status = "CHANGES_REQUESTED"
                      /\ NumberOf(q) > current'[TypeOf(q)] => rev'[q] = NoRevision
                      /\ rev'[q].feedback \in {"AGENT", "MANUAL"} <=>
                             /\ NumberOf(q) < current'[TypeOf(q)]
                             /\ rev'[Child(q)].content # NoContent
    BY DEF RevisionHistory
  <2>1. TypeOf(q) \in ArtifactType /\ NumberOf(q) \in Nat /\ current[TypeOf(q)] \in Nat
        /\ (NumberOf(q) < current[TypeOf(q)] => Child(q) \in Revision)
    BY RevisionShape, RevisionOrder, MaxRevisionAssumption DEF TypeOK
  <2>2. CASE q = r
    BY <2>2, <1>2, <1>3, <1>5, <1>6 DEF NoContent, ByHuman
  <2>3. CASE q = c
    BY <2>3, <1>2, <1>3, <1>5, <1>6 DEF NoRevision
  <2>4. CASE q # r /\ q # c
    <3>1. TypeOf(q) = t => NumberOf(q) # NumberOf(r) /\ NumberOf(q) # NumberOf(c)
      BY <2>4, <1>2, RevisionOrder
    <3>2. /\ NumberOf(q) < current'[TypeOf(q)] <=> NumberOf(q) < current[TypeOf(q)]
          /\ NumberOf(q) > current'[TypeOf(q)] => NumberOf(q) > current[TypeOf(q)]
      BY <2>1, <3>1, <1>2, <1>6
    <3>3. Child(q) # c
      BY <2>4, <1>2, RevisionOrder
    <3> QED
      BY <2>1, <2>4, <3>2, <3>3, <1>5 DEF RevisionHistory
  <2> QED
    BY <2>2, <2>3, <2>4
<1>9. PublishedContent'
  BY <1>2, <1>3, <1>5, <1>6 DEF PublishedContent, NoRevision, NoContent, ByHuman
<1>10. OneWinner'
  BY <1>2, <1>3, <1>5, <1>6 DEF OneWinner, NoRevision, NoContent, ByHuman, NoJob
<1>11. RowsMatch'
  <2>1. ASSUME NEW q \in Revision
        PROVE  NumberOf(q) > current'[TypeOf(q)] => q # c /\ NumberOf(q) > current[TypeOf(q)]
    BY <1>2, <1>6, RevisionShape, RevisionOrder, MaxRevisionAssumption DEF TypeOK
  <2> QED
    BY <1>2, <1>3, <1>4, <1>5, <1>6, <2>1 DEF ClaimsConsistent, RowsMatch, NoRevision
<1>12. ClaimsMatchRuns'
  BY <1>6 DEF ClaimsConsistent, ClaimsMatchRuns
<1> QED
  BY <1>1, <1>7, <1>8, <1>9, <1>10, <1>11, <1>12 DEF ClaimsConsistent

\* An approval closes one artifact and opens the next, or hands over.
LEMMA InvApprove == ASSUME Inv, NEW r \in Revision, Approve(r) PROVE Inv'
<1> DEFINE t == TypeOf(r)
           next == NextStage[t]
           c == <<next, 1>>
           opens == next # "IMPLEMENTATION"
<1> USE DEF Inv
<1>1. TypeOK'
  BY TypeApprove
<1>2. /\ stage = t /\ current[t] = NumberOf(r) /\ t \in ArtifactType
      /\ NumberOf(r) \in 1..MaxRevision /\ r = <<t, NumberOf(r)>>
      /\ rev[r].status = "REVIEW"
      /\ stage' = next /\ next # t
      /\ Before[next] = Before[t] \cup {t} /\ next \notin Before[next] /\ t \notin Before[t]
      /\ opens <=> next \in ArtifactType
  BY RevisionShape, StageOrder DEF Approve, Reviewable
<1>3. ASSUME opens
      PROVE  /\ c \in Revision /\ TypeOf(c) = next /\ NumberOf(c) = 1 /\ c # r
             /\ current[next] = 0 /\ NumberOf(c) > current[next]
             /\ rev[c] = NoRevision /\ job[c] = NoJob
  <2>1. c \in Revision /\ TypeOf(c) = next /\ NumberOf(c) = 1 /\ c # r
    BY <1>2, <1>3, RevisionShape, MaxRevisionAssumption
  <2>2. current[next] = 0
    BY <1>2, <1>3 DEF ApprovalChain
  <2> QED
    BY <2>1, <2>2, Unopened
<1>4. \A q \in Revision :
          /\ rev'[q].status = IF q = r THEN "APPROVED"
                              ELSE IF opens /\ q = c THEN "GENERATING" ELSE rev[q].status
          /\ rev'[q].review = IF q = r THEN "APPROVED" ELSE rev[q].review
          /\ rev'[q].feedback = rev[q].feedback /\ rev'[q].content = rev[q].content
          /\ q # r /\ ~(opens /\ q = c) => rev'[q] = rev[q]
  <2> DEFINE approved == [rev EXCEPT ![r].status = "APPROVED", ![r].review = "APPROVED"]
  <2>1. approved \in [Revision -> RevisionRow] /\ rev \in [Revision -> RevisionRow]
    BY DEF TypeOK, RevisionRow, RevisionStatus, ReviewStatus
  <2>2. \A q \in Revision :
            /\ approved[q].status = IF q = r THEN "APPROVED" ELSE rev[q].status
            /\ approved[q].review = IF q = r THEN "APPROVED" ELSE rev[q].review
            /\ approved[q].feedback = rev[q].feedback /\ approved[q].content = rev[q].content
            /\ q # r => approved[q] = rev[q]
    BY <2>1 DEF RevisionRow
  <2>3. rev' = IF opens THEN [approved EXCEPT ![c].status = "GENERATING"] ELSE approved
    BY <1>2 DEF Approve
  <2> HIDE DEF approved
  <2>4. CASE opens
    BY <1>3, <2>1, <2>2, <2>3, <2>4 DEF RevisionRow
  <2>5. CASE ~opens
    BY <2>2, <2>3, <2>5
  <2> QED
    BY <2>4, <2>5
<1>5. /\ \A s \in ArtifactType : current'[s] = IF s = next THEN 1 ELSE current[s]
      /\ job' = IF opens THEN [job EXCEPT ![c] = QueuedJob(version + 1)] ELSE job
      /\ handoff' = IF opens THEN handoff ELSE version + 1
      /\ UNCHANGED <<run, disk, claim>>
  BY <1>2 DEF Approve, TypeOK
<1>6. /\ ClaimsMatchRuns'
      /\ \A q \in Revision :
             IF opens /\ q = c
             THEN job'[q].status = "PENDING" /\ job'[q].owner = NoOwner
             ELSE job'[q] = job[q]
  <2>1. CASE opens
    <3>1. version + 1 \in Nat
      BY DEF TypeOK
    <3> QED
      BY <1>3, <1>5, <2>1, <3>1, QueueingKeepsClaims
  <2>2. CASE ~opens
    BY <1>5, <2>2 DEF ClaimsConsistent, ClaimsMatchRuns
  <2> QED
    BY <2>1, <2>2
<1>7. ApprovalChain'
  <2>1. ASSUME NEW s \in ArtifactType
        PROVE  /\ Approved(s)' <=> Approved(s) \/ s = t
               /\ current'[s] # 0 <=> current[s] # 0 \/ s = next
    <3>1. CASE s = t
      BY <3>1, <1>2, <1>4, <1>5, MaxRevisionAssumption DEF Approved
    <3>2. CASE s = next
      BY <3>2, <1>2, <1>3, <1>4, <1>5 DEF Approved
    <3>3. CASE s # t /\ s # next
      <4>1. current[s] # 0 =>
                <<s, current[s]>> \in Revision /\ <<s, current[s]>> # r /\ <<s, current[s]>> # c
        BY <3>3, <1>2, RevisionShape, MaxRevisionAssumption DEF TypeOK
      <4> QED
        BY <3>3, <4>1, <1>4, <1>5 DEF Approved
    <3> QED
      BY <3>1, <3>2, <3>3
  <2>2. handoff' # 0 <=> ~opens
    <3>1. handoff = 0
      BY <1>2, StageOrder DEF ApprovalChain
    <3> QED
      BY <3>1, <1>5 DEF TypeOK
  <2>3. \A s \in ArtifactType : current[s] # 0 <=> s \in Before[t] \cup {t}
    BY <1>2 DEF ApprovalChain
  <2> QED
    BY <1>2, <2>1, <2>2, <2>3 DEF ApprovalChain
<1>8. RevisionHistory'
  <2> SUFFICES ASSUME NEW q \in Revision
               PROVE  /\ NumberOf(q) < current'[TypeOf(q)] => rev'[q].status = "CHANGES_REQUESTED"
                      /\ NumberOf(q) > current'[TypeOf(q)] => rev'[q] = NoRevision
                      /\ rev'[q].feedback \in {"AGENT", "MANUAL"} <=>
                             /\ NumberOf(q) < current'[TypeOf(q)]
                             /\ rev'[Child(q)].content # NoContent
    BY DEF RevisionHistory
  <2>1. /\ TypeOf(q) \in ArtifactType /\ NumberOf(q) \in 1..MaxRevision
        /\ current[TypeOf(q)] \in 0..MaxRevision
        /\ (NumberOf(q) < current[TypeOf(q)] => Child(q) \in Revision)
    BY RevisionShape, RevisionOrder, MaxRevisionAssumption DEF TypeOK
  <2>2. CASE TypeOf(q) = next
    <3>1. opens /\ current[next] = 0 /\ current'[next] = 1 /\ q # r
      BY <2>1, <2>2, <1>2, <1>3, <1>5
    <3>2. NumberOf(q) > 1 => q # c
      BY <3>1, <1>3
    <3>3. ~(NumberOf(q) < 1) /\ NumberOf(q) > 0
      BY <2>1, MaxRevisionAssumption
    <3>4. rev[q] = NoRevision
      BY <2>2, <3>1, <3>3 DEF RevisionHistory
    <3> QED
      BY <2>2, <3>1, <3>2, <3>3, <3>4, <1>4 DEF NoRevision
  <2>3. CASE TypeOf(q) # next
    <3>1. current'[TypeOf(q)] = current[TypeOf(q)] /\ (opens => q # c)
      BY <2>1, <2>3, <1>3, <1>5
    <3>2. q = r => ~(NumberOf(q) < current[TypeOf(q)]) /\ ~(NumberOf(q) > current[TypeOf(q)])
      BY <1>2, MaxRevisionAssumption
    <3> QED
      BY <2>1, <3>1, <3>2, <1>4 DEF RevisionHistory
  <2> QED
    BY <2>2, <2>3
<1>9. PublishedContent'
  BY <1>2, <1>3, <1>4, <1>5 DEF PublishedContent, NoRevision
<1>10. OneWinner'
  BY <1>2, <1>3, <1>4, <1>5, <1>6 DEF OneWinner, NoRevision, NoContent, ByHuman
<1>11. RowsMatch'
  <2>1. ASSUME NEW q \in Revision
        PROVE  NumberOf(q) > current'[TypeOf(q)] =>
                   ~(opens /\ q = c) /\ NumberOf(q) > current[TypeOf(q)]
    BY <1>2, <1>3, <1>5, RevisionShape, MaxRevisionAssumption DEF TypeOK
  <2> QED
    BY <1>2, <1>3, <1>4, <1>6, <2>1 DEF ClaimsConsistent, RowsMatch, NoRevision
<1> QED
  BY <1>1, <1>6, <1>7, <1>8, <1>9, <1>10, <1>11 DEF ClaimsConsistent

\* Nothing exists at first.
LEMMA InvInit == Init => Inv
<1> SUFFICES ASSUME Init PROVE Inv
  OBVIOUS
<1>1. /\ stage = "ABSENT" /\ handoff = 0
      /\ \A t \in ArtifactType : current[t] = 0
      /\ \A r \in Revision : rev[r] = NoRevision /\ job[r] = NoJob /\ disk[r] = NoContent
      /\ \A r \in Revision, a \in 1..MaxAttempts : run[r][a] = "NONE"
      /\ \A w \in Workers : claim[w].phase = "idle"
  BY DEF Init, Idle
<1>2. \A r \in Revision : TypeOf(r) \in ArtifactType /\ NumberOf(r) > 0
  BY RevisionShape, MaxRevisionAssumption
<1>3. ApprovalChain
  BY <1>1, StageOrder DEF ApprovalChain, Approved
<1>4. RevisionHistory
  BY <1>1, <1>2, RevisionOrder DEF RevisionHistory, NoRevision
<1>5. PublishedContent
  BY <1>1 DEF PublishedContent, NoRevision
<1>6. OneWinner
  BY <1>1, MaxAttemptsAssumption DEF OneWinner, NoRevision, NoJob, NoContent, ByHuman
<1>7. ClaimsConsistent
  <2>1. ClaimsMatchRuns
    BY <1>1 DEF ClaimsMatchRuns
  <2>2. /\ NoJob.status # "RUNNING" /\ NoJob.owner = NoOwner
        /\ NoRevision.feedback = "NONE" /\ NoRevision.status # "CHANGES_REQUESTED"
    BY DEF NoJob, NoRevision
  <2>3. RowsMatch
    BY <1>1, <2>2 DEF RowsMatch
  <2> QED
    BY <2>1, <2>3 DEF ClaimsConsistent
<1> QED
  BY TypeInit, <1>3, <1>4, <1>5, <1>6, <1>7 DEF Inv

\* Every step keeps the invariant.
LEMMA InvNext == Inv /\ [Next]_vars => Inv'
<1> SUFFICES ASSUME Inv, [Next]_vars PROVE Inv'
  OBVIOUS
<1>1. CASE UNCHANGED vars
  BY <1>1 DEF vars, Inv, TypeOK, ApprovalChain, Approved, RevisionHistory, PublishedContent,
     OneWinner, ClaimsConsistent, ClaimsMatchRuns, RowsMatch
<1>2. CASE IngestFeature
  BY <1>2, InvIngest
<1>3. ASSUME NEW r \in Revision, Decide(r) \/ LeaseExpires(r) PROVE Inv'
  BY <1>3, InvApprove, InvRequestChanges, InvAddress, InvManualRevision, InvRolledBack,
     InvLeaseExpires DEF Decide
<1>4. ASSUME NEW w \in Workers,
             (\E r \in Revision : Claim(w, r)) \/ Proceed(w) \/ ApplyRolledBack(w) \/ Crash(w)
      PROVE  Inv'
  BY <1>4, InvClaim, InvApply, InvJobDropped, InvClaimOnly, InvStartRun, InvFailJob,
     InvRolledBack DEF Proceed
<1> QED
  BY <1>1, <1>2, <1>3, <1>4 DEF Next

\* Whatever the workers, their ids, their deaths and their leases do, all parts
\* of the invariant hold together.
THEOREM Inductive == Spec => []Inv
  BY InvInit, InvNext, PTL DEF Spec

\* Stages are crossed in order, by approvals, and the implementation is handed
\* over exactly when all three artifacts are approved (_approve).
THEOREM ChainTheorem == Spec => []ApprovalChain
<1>1. Inv => ApprovalChain
  BY DEF Inv
<1> QED
  BY Inductive, <1>1, PTL

\* Every earlier revision was sent back, and its feedback is resolved exactly
\* by the publication of its successor (_request_changes, _apply_agent_result,
\* submit_manual_revision).
THEOREM HistoryTheorem == Spec => []RevisionHistory
<1>1. Inv => RevisionHistory
  BY DEF Inv
<1> QED
  BY Inductive, <1>1, PTL

\* What a reviewer decides about is published and is what the store holds
\* (store_markdown with _apply_agent_result and submit_manual_revision).
THEOREM ContentTheorem == Spec => []PublishedContent
<1>1. Inv => PublishedContent
  BY DEF Inv
<1> QED
  BY Inductive, <1>1, PTL

\* However often a job is claimed and by whom, one attempt at most writes its
\* revision, and its run and its job say so (_apply_agent_result).
THEOREM WinnerTheorem == Spec => []OneWinner
<1>1. Inv => OneWinner
  BY DEF Inv
<1> QED
  BY Inductive, <1>1, PTL

\* Claims in memory and rows in the database agree (claim_next_job).
THEOREM ClaimsTheorem == Spec => []ClaimsConsistent
<1>1. Inv => ClaimsConsistent
  BY DEF Inv
<1> QED
  BY Inductive, <1>1, PTL

-------------------------------------------------------------------------------
(* Published revisions do not change. *)

\* q keeps its content and its directory, and a decision about it.
Kept(q) ==
    /\ rev'[q].content = rev[q].content
    /\ disk'[q] = disk[q]
    /\ rev[q].status # "REVIEW" => rev'[q].status = rev[q].status

\* What the invariant says of a published revision.
LEMMA PublishedFacts ==
    ASSUME Inv, NEW q \in Revision, rev[q].content # NoContent
    PROVE  /\ rev[q].status \notin InProgress
           /\ disk[q] # NoContent
           /\ NumberOf(q) <= current[TypeOf(q)]
           /\ rev[q] \in RevisionRow
<1>1. rev[q] # NoRevision
  BY DEF NoRevision
<1>2. current[TypeOf(q)] \in Nat /\ NumberOf(q) \in Nat
  BY RevisionShape, RevisionOrder, MaxRevisionAssumption DEF Inv, TypeOK
<1>3. NumberOf(q) <= current[TypeOf(q)]
  BY <1>1, <1>2 DEF Inv, RevisionHistory
<1>4. disk[q] # NoContent /\ rev[q].status \notin InProgress
  BY DEF Inv, PublishedContent, InProgress
<1> QED
  BY <1>3, <1>4 DEF Inv, TypeOK

\* No reviewer takes a published revision back.
LEMMA ReviewerKeeps ==
    ASSUME Inv, IngestFeature \/ (\E r \in Revision : Decide(r) \/ LeaseExpires(r)),
           NEW q \in Revision, rev[q].content # NoContent
    PROVE  Kept(q)
<1> USE DEF Inv
<1>1. CASE IngestFeature
  <2>1. current["INTENT"] = 0 /\ "INTENT" \in ArtifactType
    BY <1>1, StageOrder DEF IngestFeature, ApprovalChain, ArtifactType
  <2>2. q # <<"INTENT", 1>>
    BY <2>1, PublishedFacts, RevisionShape, MaxRevisionAssumption
  <2> QED
    BY <1>1, <2>2 DEF IngestFeature, Kept, TypeOK
<1>2. ASSUME NEW r \in Revision, Approve(r) PROVE Kept(q)
  <2> DEFINE c == <<NextStage[TypeOf(r)], 1>>
             approved == [rev EXCEPT ![r].status = "APPROVED", ![r].review = "APPROVED"]
  <2>1. rev[r].status = "REVIEW" /\ stage = TypeOf(r) /\ TypeOf(r) \in ArtifactType
    BY <1>2, RevisionShape DEF Approve, Reviewable
  <2>2. NextStage[TypeOf(r)] # "IMPLEMENTATION" => q # c
    <3>1. NextStage[TypeOf(r)] # "IMPLEMENTATION" =>
              NextStage[TypeOf(r)] \in ArtifactType /\ current[NextStage[TypeOf(r)]] = 0
      BY <2>1, StageOrder DEF ApprovalChain
    <3> QED
      BY <3>1, PublishedFacts, RevisionShape, MaxRevisionAssumption
  <2>3. approved \in [Revision -> RevisionRow] /\ rev \in [Revision -> RevisionRow]
    BY DEF TypeOK, RevisionRow, RevisionStatus, ReviewStatus
  <2>4. /\ approved[q].content = rev[q].content
        /\ q # r => approved[q].status = rev[q].status
    BY <2>3 DEF RevisionRow
  <2>5. /\ rev' = IF NextStage[TypeOf(r)] = "IMPLEMENTATION" THEN approved
                  ELSE [approved EXCEPT ![c].status = "GENERATING"]
        /\ disk' = disk
    BY <1>2, <2>1 DEF Approve
  <2> HIDE DEF approved
  <2>6. rev'[q] = approved[q]
    BY <2>2, <2>3, <2>5
  <2> QED
    BY <2>1, <2>4, <2>5, <2>6 DEF Kept
<1>3. ASSUME NEW r \in Revision, RequestChanges(r) PROVE Kept(q)
  <2>1. rev[r].status = "REVIEW"
    BY <1>3 DEF RequestChanges, Reviewable
  <2>2. rev'[q].content = rev[q].content /\ (q # r => rev'[q] = rev[q]) /\ disk' = disk
    BY <1>3 DEF RequestChanges, TypeOK, RevisionRow
  <2> QED
    BY <2>1, <2>2 DEF Kept
<1>4. ASSUME NEW r \in Revision, AddressWithAgent(r) \/ SubmitManualRevision(r) PROVE Kept(q)
  <2>1. /\ Child(r) \in Revision /\ TypeOf(Child(r)) = TypeOf(r)
        /\ NumberOf(Child(r)) = NumberOf(r) + 1 /\ NumberOf(r) \in Nat
        /\ current[TypeOf(r)] = NumberOf(r)
    BY <1>4, RevisionShape, RevisionOrder
    DEF AddressWithAgent, SubmitManualRevision, Addressable
  <2>2. q # Child(r)
    BY <2>1, PublishedFacts
  <2>3. CASE AddressWithAgent(r)
    BY <2>2, <2>3 DEF AddressWithAgent, Kept, TypeOK
  <2>4. CASE SubmitManualRevision(r)
    <3>1. rev' = Published(Child(r), ByHuman, "MANUAL") /\ disk'[q] = disk[q]
      BY <2>2, <2>4 DEF SubmitManualRevision, TypeOK
    <3> QED
      BY <2>1, <2>2, <3>1, PublishedFields DEF Kept
  <2> QED
    BY <1>4, <2>3, <2>4
<1>5. ASSUME NEW r \in Revision, ManualRevisionRolledBack(r) PROVE Kept(q)
  BY <1>5, PublishedFacts DEF ManualRevisionRolledBack, Kept, TypeOK
<1>6. ASSUME NEW r \in Revision, LeaseExpires(r) PROVE Kept(q)
  BY <1>6 DEF LeaseExpires, Kept
<1> QED
  BY <1>1, <1>2, <1>3, <1>4, <1>5, <1>6 DEF Decide

\* Nor does a worker, however late it comes back.
LEMMA WorkerKeeps ==
    ASSUME Inv, NEW w \in Workers,
           (\E r \in Revision : Claim(w, r)) \/ Proceed(w) \/ ApplyRolledBack(w) \/ Crash(w),
           NEW q \in Revision, rev[q].content # NoContent
    PROVE  Kept(q)
<1> DEFINE r == claim[w].rev
<1> USE DEF Inv
<1>1. CASE UNCHANGED <<rev, disk>>
  BY <1>1 DEF Kept
<1>2. CASE StartRun(w)
  <2>1. rev'[q].content = rev[q].content /\ rev'[q].status = rev[q].status /\ disk' = disk
    BY <1>2 DEF StartRun, TypeOK, RevisionRow
  <2> QED
    BY <2>1 DEF Kept
<1>3. CASE Apply(w)
  <2>1. r \in Revision /\ disk[r] = NoContent /\ r # q
    BY <1>3, ClaimFacts, PublishedFacts DEF Apply
  <2>2. rev' = Published(r, claim[w].attempt, "AGENT") /\ disk'[q] = disk[q]
    BY <1>3, <2>1 DEF Apply, TypeOK
  <2> QED
    BY <2>1, <2>2, PublishedFields DEF Kept
<1>4. CASE ApplyRolledBack(w)
  BY <1>4, PublishedFacts DEF ApplyRolledBack, Kept, TypeOK
<1>5. CASE FailJob(w)
  <2>1. rev'[q].content = rev[q].content /\ rev'[q].status = rev[q].status /\ disk' = disk
    BY <1>5, PublishedFacts DEF FailJob, TypeOK, RevisionRow
  <2> QED
    BY <2>1 DEF Kept
<1> QED
  BY <1>1, <1>2, <1>3, <1>4, <1>5
  DEF Proceed, Claim, LoadContext, CancelStaleJob, AgentEnds, Supersede, ApplyFindsDirectory, Crash

\* A published revision keeps its content and its directory for ever, and a
\* decision about it is never taken back, whatever workers do that come back
\* after their lease ran out (_apply_agent_result, _fail_agent_job).
THEOREM ImmutabilityTheorem == Spec => ImmutableRevisions
<1>1. Inv /\ [Next]_vars => [\A r \in Revision :
           rev[r].content # NoContent =>
               /\ rev'[r].content = rev[r].content
               /\ disk'[r] = disk[r]
               /\ rev[r].status # "REVIEW" => rev'[r].status = rev[r].status]_vars
  BY ReviewerKeeps, WorkerKeeps DEF Next, Kept
<1> QED
  BY Inductive, <1>1, PTL DEF Spec, ImmutableRevisions

-------------------------------------------------------------------------------
(* The lease protocol, when every process has a worker id of its own. *)

\* A process that still owns a job holds its latest claim.
OwnersHold ==
    \A w \in Workers :
        claim[w].phase # "idle" /\ job[claim[w].rev].owner = OwnerOf[w] =>
            job[claim[w].rev].attempts = claim[w].attempt

\* With distinct worker ids every step keeps that, and closes a running job only
\* by the process that holds it.
LEMMA HolderStep ==
    ASSUME \A v, w \in Workers : OwnerOf[v] = OwnerOf[w] => v = w,
           Inv, OwnersHold, [Next]_vars
    PROVE  /\ OwnersHold'
           /\ \A r \in Revision :
                  job[r].status = "RUNNING" /\ job'[r].status # "RUNNING" =>
                      \E w \in Workers : /\ claim[w].phase # "idle" /\ claim[w].rev = r
                                         /\ HoldsClaim(w)
                                         /\ claim'[w] = Idle
<1> DEFINE Closed == \A r \in Revision :
                         job[r].status = "RUNNING" /\ job'[r].status # "RUNNING" =>
                             \E w \in Workers : /\ claim[w].phase # "idle" /\ claim[w].rev = r
                                                /\ HoldsClaim(w)
                                                /\ claim'[w] = Idle
<1> USE DEF Inv
<1>1. ASSUME UNCHANGED <<job, claim>> PROVE OwnersHold' /\ Closed
  BY <1>1 DEF OwnersHold
<1>2. ASSUME NEW r \in Revision, NEW n \in Nat, job' = [job EXCEPT ![r] = QueuedJob(n)],
             NumberOf(r) > current[TypeOf(r)], UNCHANGED <<run, claim>>
      PROVE  OwnersHold' /\ Closed
  <2>1. /\ \A q \in Revision : q # r => job'[q] = job[q]
        /\ \A v \in Workers : claim[v].phase # "idle" => claim[v].rev # r
        /\ job[r].status # "RUNNING"
    BY <1>2, QueueingKeepsClaims, Unopened DEF NoJob
  <2>2. \A v \in Workers : claim[v].phase # "idle" => claim[v].rev \in Revision
    BY ClaimFacts
  <2> QED
    BY <1>2, <2>1, <2>2 DEF OwnersHold
<1>3. ASSUME NEW w \in Workers, claim[w].phase # "idle", UNCHANGED job,
             \A v \in Workers \ {w} : claim'[v] = claim[v],
             \/ claim'[w].phase = "idle"
             \/ claim'[w].rev = claim[w].rev /\ claim'[w].attempt = claim[w].attempt
      PROVE  OwnersHold' /\ Closed
  BY <1>3 DEF OwnersHold
<1>4. ASSUME NEW w \in Workers, NEW s, claim[w].phase # "idle", job' = CloseJob(w, s),
             claim' = [claim EXCEPT ![w] = Idle]
      PROVE  OwnersHold' /\ Closed
  <2>1. \A v \in Workers : claim'[v] = IF v = w THEN Idle ELSE claim[v]
    BY <1>4 DEF TypeOK
  <2>2. \A v \in Workers : claim[v].phase # "idle" => claim[v].rev \in Revision
    BY ClaimFacts
  <2>3. OwnersHold'
    BY <1>4, <2>1, <2>2, CloseJobFields, OwnerAssumption DEF OwnersHold, Idle
  <2>4. Closed
    <3> SUFFICES ASSUME NEW r \in Revision, job[r].status = "RUNNING", job'[r].status # "RUNNING"
                 PROVE  claim[w].rev = r /\ HoldsClaim(w)
      BY <1>4, <2>1
    <3>1. claim[w].rev = r /\ job[r].owner = OwnerOf[w]
      BY <1>4, CloseJobFields
    <3> QED
      BY <1>4, <3>1 DEF OwnersHold, HoldsClaim, OwnsLease
  <2> QED
    BY <2>3, <2>4
<1>5. ASSUME NEW w \in Workers, NEW r \in Revision, Claim(w, r) PROVE OwnersHold' /\ Closed
  <2>1. /\ \A q \in Revision :
               /\ job'[q].status = IF q = r THEN "RUNNING" ELSE job[q].status
               /\ job'[q].owner = IF q = r THEN OwnerOf[w] ELSE job[q].owner
               /\ job'[q].attempts = IF q = r THEN job[r].attempts + 1 ELSE job[q].attempts
        /\ \A v \in Workers : claim'[v] = IF v = w
                                          THEN [phase |-> "claimed", rev |-> r,
                                                attempt |-> job[r].attempts + 1]
                                          ELSE claim[v]
    BY <1>5 DEF Claim, TypeOK, JobRow
  <2>2. \A v \in Workers : claim[v].phase # "idle" => claim[v].rev \in Revision
    BY ClaimFacts
  <2> QED
    BY <2>1, <2>2 DEF OwnersHold
<1>6. ASSUME NEW r \in Revision, LeaseExpires(r) PROVE OwnersHold' /\ Closed
  <2>1. \A q \in Revision : /\ job'[q].status = job[q].status /\ job'[q].owner = job[q].owner
                            /\ job'[q].attempts = job[q].attempts
    BY <1>6 DEF LeaseExpires, TypeOK, JobRow
  <2>2. \A v \in Workers : claim[v].phase # "idle" => claim[v].rev \in Revision
    BY ClaimFacts
  <2> QED
    BY <1>6, <2>1, <2>2 DEF LeaseExpires, OwnersHold
<1>7. CASE UNCHANGED vars
  BY <1>1, <1>7 DEF vars
<1>8. CASE IngestFeature
  <2>1. <<"INTENT", 1>> \in Revision /\ NumberOf(<<"INTENT", 1>>) > current[TypeOf(<<"INTENT", 1>>)]
    <3>1. current["INTENT"] = 0 /\ "INTENT" \in ArtifactType
      BY <1>8, StageOrder DEF IngestFeature, ApprovalChain, ArtifactType
    <3> QED
      BY <3>1, RevisionShape, MaxRevisionAssumption
  <2>2. job' = [job EXCEPT ![<<"INTENT", 1>>] = QueuedJob(1)] /\ UNCHANGED <<run, claim>>
    BY <1>8 DEF IngestFeature
  <2> QED
    BY <1>2, <2>1, <2>2
<1>9. ASSUME NEW r \in Revision, Decide(r) PROVE OwnersHold' /\ Closed
  <2>1. version + 1 \in Nat
    BY DEF TypeOK
  <2>2. CASE Approve(r)
    <3> DEFINE c == <<NextStage[stage], 1>>
    <3>1. CASE NextStage[stage] = "IMPLEMENTATION"
      BY <1>1, <2>2, <3>1 DEF Approve
    <3>2. CASE NextStage[stage] # "IMPLEMENTATION"
      <4>1. stage \in ArtifactType /\ NextStage[stage] \in ArtifactType
            /\ current[NextStage[stage]] = 0
        BY <2>2, <3>2, RevisionShape, StageOrder DEF Approve, Reviewable, ApprovalChain
      <4>2. c \in Revision /\ NumberOf(c) > current[TypeOf(c)]
        BY <4>1, RevisionShape, MaxRevisionAssumption
      <4>3. job' = [job EXCEPT ![c] = QueuedJob(version + 1)] /\ UNCHANGED <<run, claim>>
        BY <2>2, <3>2 DEF Approve
      <4> QED
        BY <1>2, <2>1, <4>2, <4>3
    <3> QED
      BY <3>1, <3>2
  <2>3. CASE AddressWithAgent(r)
    <3>1. /\ Child(r) \in Revision
          /\ NumberOf(Child(r)) > current[TypeOf(Child(r))]
      BY <2>3, RevisionShape, RevisionOrder DEF AddressWithAgent, Addressable
    <3>2. job' = [job EXCEPT ![Child(r)] = QueuedJob(version + 1)] /\ UNCHANGED <<run, claim>>
      BY <2>3 DEF AddressWithAgent
    <3> QED
      BY <1>2, <2>1, <3>1, <3>2
  <2>4. CASE RequestChanges(r) \/ SubmitManualRevision(r) \/ ManualRevisionRolledBack(r)
    BY <1>1, <2>4 DEF RequestChanges, SubmitManualRevision, ManualRevisionRolledBack
  <2> QED
    BY <1>9, <2>2, <2>3, <2>4 DEF Decide
<1>10. ASSUME NEW w \in Workers, Proceed(w) \/ ApplyRolledBack(w) \/ Crash(w)
       PROVE  OwnersHold' /\ Closed
  <2>1. CASE \/ LoadContext(w) \/ StartRun(w) \/ AgentEnds(w) \/ ApplyFindsDirectory(w)
             \/ ApplyRolledBack(w) \/ Crash(w)
    <3>1. claim[w].phase # "idle" /\ UNCHANGED job /\ claim[w] \in ClaimedJob
      BY <2>1 DEF LoadContext, StartRun, AgentEnds, ApplyFindsDirectory, ApplyRolledBack, Crash,
         TypeOK
    <3>2. \A v \in Workers \ {w} : claim'[v] = claim[v]
      BY <2>1 DEF LoadContext, StartRun, AgentEnds, ApplyFindsDirectory, ApplyRolledBack, Crash,
         TypeOK
    <3>3. \/ claim'[w].phase = "idle"
          \/ claim'[w].rev = claim[w].rev /\ claim'[w].attempt = claim[w].attempt
      BY <2>1, <3>1 DEF LoadContext, StartRun, AgentEnds, ApplyFindsDirectory, ApplyRolledBack,
         Crash, TypeOK, ClaimedJob, Idle
    <3> QED
      BY <1>3, <3>1, <3>2, <3>3
  <2>2. CASE CancelStaleJob(w) \/ Apply(w) \/ Supersede(w) \/ FailJob(w)
    <3>1. claim[w].phase # "idle" /\ claim' = [claim EXCEPT ![w] = Idle]
      BY <2>2 DEF CancelStaleJob, Apply, Supersede, FailJob
    <3>2. PICK s \in {"CANCELLED", "SUCCEEDED", "FAILED"} : job' = CloseJob(w, s)
      BY <2>2 DEF CancelStaleJob, Apply, Supersede, FailJob
    <3> QED
      BY <1>4, <3>1, <3>2
  <2> QED
    BY <1>10, <2>1, <2>2 DEF Proceed
<1> QED
  BY <1>5, <1>6, <1>7, <1>8, <1>9, <1>10 DEF Next

\* When no two processes share a worker id, a job is only ever closed by the
\* claim that holds it: an attempt that was taken over cannot close the job of
\* its successor (the lease_owner comparisons of _apply_agent_result,
\* _fail_agent_job and _cancel_stale_job).
THEOREM HolderTheorem ==
    ASSUME \A v, w \in Workers : OwnerOf[v] = OwnerOf[w] => v = w
    PROVE  Spec => ClosedByHolder
<1>1. Init => OwnersHold
  BY DEF Init, OwnersHold, Idle
<1>2. Inv /\ OwnersHold /\ [Next]_vars =>
          OwnersHold' /\ [\A r \in Revision :
                              job[r].status = "RUNNING" /\ job'[r].status # "RUNNING" =>
                                  \E w \in Workers : /\ claim[w].phase # "idle" /\ claim[w].rev = r
                                                     /\ HoldsClaim(w)
                                                     /\ claim'[w] = Idle]_vars
  BY HolderStep
<1> QED
  BY Inductive, <1>1, <1>2, PTL DEF Spec, ClosedByHolder

-------------------------------------------------------------------------------
(* One worker process: no lease runs out under a living worker but the one *)
(* that would take the job over itself.                                    *)

OneWorker == \A v, w \in Workers : v = w

\* A claim is the latest one of a running job, its revision points at its run,
\* and it is never found stale.
ClaimsServe ==
    \A w \in Workers : claim[w].phase # "idle" =>
        /\ HoldsClaim(w)
        /\ claim[w].phase # "stale"
        /\ claim[w].phase \in {"running", "returned", "raised"} =>
               rev[claim[w].rev].run = claim[w].attempt

Open == {"PENDING", "RUNNING"}

\* The jobs that will be executed are those of the revisions in progress, and
\* find the feature they were queued for.
JobsServe ==
    \A r \in Revision :
        /\ job[r].status \in Open <=> rev[r].status \in InProgress
        /\ rev[r].status \in InProgress => Preconditions(r)

Serial == ClaimsServe /\ JobsServe /\ FailureNoticeTruthful /\ Provenance

\* The revision in progress is the current one, so there is at most one.
LEMMA OneInProgress ==
    ASSUME Inv, JobsServe, NEW r \in Revision, rev[r].status \in InProgress
    PROVE  /\ stage = TypeOf(r) /\ current[TypeOf(r)] = NumberOf(r)
           /\ rev[r].content = NoContent
           /\ \A q \in Revision : q # r =>
                  /\ rev[q].status \notin InProgress
                  /\ ~(stage = TypeOf(q) /\ current[TypeOf(q)] = NumberOf(q))
<1>1. \A q \in Revision : rev[q].status \in InProgress =>
          stage = TypeOf(q) /\ current[TypeOf(q)] = NumberOf(q)
  BY DEF JobsServe, Preconditions
<1>2. rev[r].content = NoContent
  BY DEF Inv, PublishedContent, InProgress
<1> QED
  BY <1>1, <1>2, RevisionOrder

\* Its inputs are still there.
LEMMA InputsStay ==
    ASSUME Inv, JobsServe, NEW r \in Revision, rev[r].status \in InProgress
    PROVE  InputsIntact(r)
<1>1. stage = TypeOf(r) /\ current[TypeOf(r)] = NumberOf(r) /\ rev[r].content = NoContent
  BY OneInProgress
<1>2. ASSUME NumberOf(r) > 1 PROVE rev[Parent(r)].feedback = "OPEN"
  <2>1. PICK p \in Revision : p = Parent(r) /\ r = Child(p)
    BY <1>2, RevisionOrder
  <2>2. TypeOf(p) = TypeOf(r) /\ NumberOf(p) < current[TypeOf(p)]
    BY <1>1, <2>1, RevisionOrder
  <2>3. rev[p].status = "CHANGES_REQUESTED" /\ rev[p].feedback \notin {"AGENT", "MANUAL"}
    BY <1>1, <2>1, <2>2 DEF Inv, RevisionHistory
  <2>4. rev[p].feedback # "NONE" /\ rev[p] \in RevisionRow
    BY <2>3 DEF Inv, ClaimsConsistent, RowsMatch, TypeOK
  <2> QED
    BY <2>1, <2>3, <2>4 DEF RevisionRow, FeedbackStatus
<1>3. ASSUME NEW t \in ArtifactType, NextStage[t] = TypeOf(r) PROVE Approved(t)
  <2>1. t \in Before[stage]
    BY <1>1, <1>3, StageOrder
  <2> QED
    BY <2>1 DEF Inv, ApprovalChain
<1> QED
  BY <1>2, <1>3 DEF InputsIntact

\* A claim is of the revision in progress, and its result will be accepted.
LEMMA ServedClaim ==
    ASSUME Inv, Serial, NEW w \in Workers, claim[w].phase # "idle"
    PROVE  /\ claim[w].rev \in Revision /\ claim[w].attempt \in 1..MaxAttempts
           /\ HoldsClaim(w) /\ OwnsLease(w) /\ Fence(w)
           /\ rev[claim[w].rev].status \in InProgress
           /\ Preconditions(claim[w].rev) /\ InputsIntact(claim[w].rev)
<1>1. HoldsClaim(w) /\ OwnsLease(w) /\ job[claim[w].rev].status = "RUNNING"
  BY DEF Serial, ClaimsServe, HoldsClaim, OwnsLease
<1>2. claim[w].rev \in Revision /\ claim[w].attempt \in 1..MaxAttempts
  BY ClaimFacts
<1>3. rev[claim[w].rev].status \in InProgress /\ Preconditions(claim[w].rev)
  BY <1>1, <1>2 DEF Serial, JobsServe, Open
<1>4. InputsIntact(claim[w].rev)
  BY <1>2, <1>3, InputsStay DEF Serial
<1> QED
  BY <1>1, <1>2, <1>3, <1>4 DEF Fence

\* A step that moves neither the feature nor the statuses.
LEMMA SerialStill ==
    ASSUME Inv, Serial, UNCHANGED <<stage, version, current, outbox>>,
           \A q \in Revision :
               /\ rev'[q].status = rev[q].status /\ rev'[q].content = rev[q].content
               /\ rev[q].status \notin InProgress => rev'[q].run = rev[q].run
               /\ job'[q].status \in Open <=> job[q].status \in Open
               /\ job'[q].expects = job[q].expects,
           ClaimsServe'
    PROVE  Serial'
<1>1. JobsServe'
  BY DEF Serial, JobsServe, Preconditions
<1>2. FailureNoticeTruthful'
  BY DEF Serial, FailureNoticeTruthful
<1>3. Provenance'
  <2> SUFFICES ASSUME NEW r \in Revision, rev'[r].content > ByHuman
               PROVE  rev'[r].run = rev'[r].content
    BY DEF Provenance
  <2>1. rev[r].content # NoContent
    BY DEF NoContent, ByHuman
  <2>2. rev[r].status \notin InProgress
    BY <2>1, PublishedFacts
  <2> QED
    BY <2>2 DEF Serial, Provenance
<1> QED
  BY <1>1, <1>2, <1>3 DEF Serial

\* A step after which the revisions in progress are those in K, and no claim is
\* held.
LEMMA SerialAnew ==
    ASSUME NEW K \in SUBSET Revision,
           \A w \in Workers : claim'[w].phase = "idle",
           \A q \in Revision : /\ rev'[q].status \in InProgress <=> q \in K
                               /\ job'[q].status \in Open <=> q \in K,
           \A q \in K : Preconditions(q)',
           FailureNoticeTruthful', Provenance'
    PROVE  Serial'
  BY DEF Serial, ClaimsServe, JobsServe

\* A step after which nothing is in progress.
LEMMA SerialAtRest ==
    ASSUME \A w \in Workers : claim'[w].phase = "idle",
           \A q \in Revision : rev'[q].status \notin InProgress /\ job'[q].status \notin Open,
           FailureNoticeTruthful', Provenance'
    PROVE  Serial'
  BY DEF Serial, ClaimsServe, JobsServe

\* Where a revision awaits people, no work is in progress.
LEMMA PeopleFindRest ==
    ASSUME Inv, Serial, NEW r \in Revision, rev[r].status \notin InProgress,
           stage = TypeOf(r), current[TypeOf(r)] = NumberOf(r)
    PROVE  /\ \A q \in Revision : rev[q].status \notin InProgress /\ job[q].status \notin Open
           /\ \A w \in Workers : claim[w].phase = "idle"
<1>1. \A q \in Revision : rev[q].status \notin InProgress
  BY OneInProgress DEF Serial
<1>2. \A q \in Revision : job[q].status \notin Open
  BY <1>1 DEF Serial, JobsServe
<1> QED
  BY <1>1, <1>2, ServedClaim

\* The notices of failures stay truthful when nothing fails.
LEMMA NoNewFailure ==
    ASSUME Serial, \A r \in Revision : rev'[r].status = "FAILED" <=> rev[r].status = "FAILED",
           \A n : n[1] = "ARTIFACT_FAILED" => (n \in outbox' <=> n \in outbox)
    PROVE  FailureNoticeTruthful'
<1>1. \A r \in Revision : <<"ARTIFACT_FAILED", r>>[1] = "ARTIFACT_FAILED"
  OBVIOUS
<1>2. \A r \in Revision : <<"ARTIFACT_FAILED", r>> \in outbox' <=> <<"ARTIFACT_FAILED", r>> \in outbox
  BY <1>1
<1> QED
  BY <1>2 DEF Serial, FailureNoticeTruthful

\* A feature arrives.
LEMMA SerialIngest == ASSUME Inv, Serial, IngestFeature PROVE Serial'
<1> DEFINE r == <<"INTENT", 1>>
<1> USE DEF Inv
<1>1. r \in Revision /\ TypeOf(r) = "INTENT" /\ NumberOf(r) = 1
  BY RevisionShape, MaxRevisionAssumption DEF ArtifactType
<1>2. \A q \in Revision : rev[q] = NoRevision /\ job[q] = NoJob
  <2>1. stage = "ABSENT"
    BY DEF IngestFeature
  <2>2. \A t \in ArtifactType : t \notin Before[stage] \cup {stage}
    BY <2>1, StageOrder
  <2>3. \A t \in ArtifactType : current[t] = 0
    BY <2>2 DEF ApprovalChain
  <2>4. \A q \in Revision : NumberOf(q) > current[TypeOf(q)]
    BY <2>3, RevisionShape
  <2> QED
    BY <2>4, Unopened
<1>3. rev \in [Revision -> RevisionRow] /\ job \in [Revision -> JobRow] /\ NoRevision \in RevisionRow
  BY FreshRows DEF TypeOK
<1>4. /\ \A q \in Revision : q # r => rev'[q] = NoRevision /\ job'[q] = NoJob
      /\ rev'[r].status = "GENERATING" /\ rev'[r].content = NoContent
      /\ job'[r].status = "PENDING" /\ job'[r].expects = 1
  <2>1. /\ rev' = [rev EXCEPT ![r].status = "GENERATING"]
        /\ job' = [job EXCEPT ![r] = QueuedJob(1)]
    BY DEF IngestFeature
  <2>2. \A q \in Revision : q # r => rev'[q] = NoRevision /\ job'[q] = NoJob
    BY <1>2, <1>3, <2>1
  <2>3. rev'[r].status = "GENERATING" /\ rev'[r].content = NoContent
    BY <1>1, <1>2, <1>3, <2>1 DEF NoRevision
  <2>4. job'[r].status = "PENDING" /\ job'[r].expects = 1
    BY <1>1, <1>3, <2>1 DEF QueuedJob, NoJob
  <2> QED
    BY <2>2, <2>3, <2>4
<1>5. \A w \in Workers : claim'[w].phase = "idle"
  <2>1. \A q \in Revision : rev[q].status \notin InProgress
    BY <1>2 DEF NoRevision, InProgress
  <2> QED
    BY <2>1, ServedClaim DEF IngestFeature
<1>6. \A q \in Revision : /\ rev'[q].status \in InProgress <=> q \in {r}
                          /\ job'[q].status \in Open <=> q \in {r}
  BY <1>4 DEF NoRevision, NoJob, InProgress, Open
<1>7. Preconditions(r)'
  <2>1. stage' = "INTENT" /\ version' = 1 /\ current'["INTENT"] = 1
    BY DEF IngestFeature, TypeOK, ArtifactType
  <2> QED
    BY <1>1, <1>4, <2>1 DEF Preconditions, ExpectedStatus
<1>8. FailureNoticeTruthful'
  <2>1. \A q \in Revision : rev'[q].status # "FAILED" /\ rev[q].status # "FAILED"
    BY <1>2, <1>4 DEF NoRevision
  <2>2. \A n : n[1] = "ARTIFACT_FAILED" => (n \in outbox' <=> n \in outbox)
    BY DEF IngestFeature
  <2> QED
    BY <2>1, <2>2, NoNewFailure
<1>9. Provenance'
  BY <1>4 DEF Provenance, NoRevision, NoContent, ByHuman
<1> HIDE DEF r
<1> QED
  BY <1>1, <1>5, <1>6, <1>7, <1>8, <1>9, SerialAnew

\* A decision that opens the revision k, on a feature at rest.
LEMMA SerialDecision ==
    ASSUME Inv, Serial,
           NEW k \in Revision, NEW opens \in BOOLEAN,
           \A q \in Revision : rev[q].status \notin InProgress /\ job[q].status \notin Open,
           \A w \in Workers : claim'[w].phase = "idle",
           \A q \in Revision :
               /\ ~(opens /\ q = k) => rev'[q].status \notin InProgress /\ job'[q] = job[q]
               /\ rev'[q].status = "FAILED" <=> rev[q].status = "FAILED"
               /\ rev'[q].content = rev[q].content \/ rev'[q].content = ByHuman
               /\ rev'[q].run = rev[q].run,
           opens => /\ rev'[k].status = ExpectedStatus(k)
                    /\ job'[k] = QueuedJob(version')
                    /\ stage' = TypeOf(k) /\ current'[TypeOf(k)] = NumberOf(k),
           \A n : n[1] = "ARTIFACT_FAILED" => (n \in outbox' <=> n \in outbox)
    PROVE  Serial'
<1>1. FailureNoticeTruthful'
  BY NoNewFailure
<1>2. Provenance'
  <2>1. ~(ByHuman > ByHuman)
    BY DEF ByHuman
  <2> QED
    BY <2>1 DEF Serial, Provenance
<1>3. opens => /\ job'[k].status = "PENDING" /\ job'[k].expects = version'
               /\ rev'[k].status \in InProgress
  BY DEF QueuedJob, NoJob, ExpectedStatus, InProgress
<1>4. opens => Preconditions(k)'
  BY <1>3 DEF Preconditions, ExpectedStatus
<1>5. PICK K : K = IF opens THEN {k} ELSE {}
  OBVIOUS
<1>6. /\ K \in SUBSET Revision
      /\ \A q \in Revision : /\ rev'[q].status \in InProgress <=> q \in K
                             /\ job'[q].status \in Open <=> q \in K
  BY <1>3, <1>5 DEF Open
<1>7. \A q \in K : Preconditions(q)'
  BY <1>4, <1>5
<1> QED
  BY <1>1, <1>2, <1>6, <1>7, SerialAnew

\* An approval opens the next artifact, or hands over.
LEMMA SerialApprove == ASSUME Inv, Serial, NEW r \in Revision, Approve(r) PROVE Serial'
<1> DEFINE next == NextStage[TypeOf(r)]
           k == <<next, 1>>
           approved == [rev EXCEPT ![r].status = "APPROVED", ![r].review = "APPROVED"]
<1> USE DEF Inv
<1>1. /\ stage = TypeOf(r) /\ TypeOf(r) \in ArtifactType /\ current[TypeOf(r)] = NumberOf(r)
      /\ rev[r].status = "REVIEW" /\ rev[r].status \notin InProgress
  BY RevisionShape DEF Approve, Reviewable, InProgress
<1>2. /\ \A q \in Revision : rev[q].status \notin InProgress /\ job[q].status \notin Open
      /\ \A w \in Workers : claim'[w].phase = "idle"
  BY <1>1, PeopleFindRest DEF Approve
<1>3. approved \in [Revision -> RevisionRow] /\ rev \in [Revision -> RevisionRow]
      /\ job \in [Revision -> JobRow]
  BY DEF TypeOK, RevisionRow, RevisionStatus, ReviewStatus
<1>4. \A q \in Revision : /\ approved[q].status = IF q = r THEN "APPROVED" ELSE rev[q].status
                          /\ approved[q].content = rev[q].content
                          /\ approved[q].run = rev[q].run
  BY <1>3 DEF RevisionRow
<1>5. \A n : n[1] = "ARTIFACT_FAILED" => (n \in outbox' <=> n \in outbox)
  BY DEF Approve
<1>6. CASE next = "IMPLEMENTATION"
  <2>1. rev' = approved /\ job' = job
    BY <1>1, <1>6 DEF Approve
  <2> HIDE DEF approved
  <2>2. \A q \in Revision :
            /\ rev'[q].status \notin InProgress /\ job'[q] = job[q]
            /\ rev'[q].status = "FAILED" <=> rev[q].status = "FAILED"
            /\ rev'[q].content = rev[q].content /\ rev'[q].run = rev[q].run
    BY <1>1, <1>2, <1>4, <2>1 DEF InProgress
  <2> QED
    BY <1>2, <1>5, <2>2, SerialDecision
<1>7. CASE next # "IMPLEMENTATION"
  <2>1. /\ rev' = [approved EXCEPT ![k].status = "GENERATING"]
        /\ job' = [job EXCEPT ![k] = QueuedJob(version + 1)]
        /\ version' = version + 1 /\ stage' = next
        /\ current' = [current EXCEPT ![next] = 1]
    BY <1>1, <1>7 DEF Approve
  <2>2. next \in ArtifactType /\ current[next] = 0
    BY <1>1, <1>7, StageOrder DEF ApprovalChain
  <2>3. /\ k \in Revision /\ TypeOf(k) = next /\ NumberOf(k) = 1 /\ k # r
        /\ NumberOf(k) > current[TypeOf(k)]
    BY <1>1, <2>2, RevisionShape, RevisionOrder, MaxRevisionAssumption
  <2>4. rev[k] = NoRevision
    BY <2>3, Unopened
  <2>5. current'[TypeOf(k)] = NumberOf(k)
    BY <2>1, <2>2, <2>3 DEF TypeOK
  <2> HIDE DEF approved, k
  <2>6. /\ \A q \in Revision : q # k => rev'[q] = approved[q] /\ job'[q] = job[q]
        /\ rev'[k].status = "GENERATING" /\ rev'[k].content = approved[k].content
        /\ rev'[k].run = approved[k].run
        /\ job'[k] = QueuedJob(version')
    BY <1>3, <2>1, <2>3 DEF RevisionRow
  <2>7. \A q \in Revision :
            /\ q # k => rev'[q].status \notin InProgress /\ job'[q] = job[q]
            /\ rev'[q].status = "FAILED" <=> rev[q].status = "FAILED"
            /\ rev'[q].content = rev[q].content /\ rev'[q].run = rev[q].run
    BY <1>1, <1>2, <1>4, <2>4, <2>6 DEF InProgress, NoRevision
  <2>8. rev'[k].status = ExpectedStatus(k) /\ stage' = TypeOf(k)
    BY <2>1, <2>3, <2>6 DEF ExpectedStatus
  <2> QED
    BY <1>2, <1>5, <2>3, <2>5, <2>6, <2>7, <2>8, SerialDecision
<1> QED
  BY <1>6, <1>7

\* A request for changes leaves the feature to people.
LEMMA SerialRequestChanges ==
    ASSUME Inv, Serial, NEW r \in Revision, RequestChanges(r) PROVE Serial'
<1> USE DEF Inv
<1>1. /\ stage = TypeOf(r) /\ current[TypeOf(r)] = NumberOf(r)
      /\ rev[r].status = "REVIEW" /\ rev[r].status \notin InProgress
  BY DEF RequestChanges, Reviewable, InProgress
<1>2. /\ \A q \in Revision : rev[q].status \notin InProgress /\ job[q].status \notin Open
      /\ \A w \in Workers : claim'[w].phase = "idle"
  BY <1>1, PeopleFindRest DEF RequestChanges
<1>3. \A q \in Revision : rev[q] \in RevisionRow
  BY DEF TypeOK
<1>4. \A q \in Revision :
          /\ rev'[q].status = IF q = r THEN "CHANGES_REQUESTED" ELSE rev[q].status
          /\ rev'[q].content = rev[q].content /\ rev'[q].run = rev[q].run
          /\ job'[q] = job[q]
  BY <1>3 DEF RequestChanges, TypeOK, RevisionRow
<1>5. \A n : n[1] = "ARTIFACT_FAILED" => (n \in outbox' <=> n \in outbox)
  BY DEF RequestChanges
<1>6. \A q \in Revision : /\ rev'[q].status \notin InProgress
                          /\ rev'[q].status = "FAILED" <=> rev[q].status = "FAILED"
  BY <1>1, <1>2, <1>4 DEF InProgress
<1> QED
  BY <1>2, <1>4, <1>5, <1>6, SerialDecision

\* The next revision opens for the agent.
LEMMA SerialAddress ==
    ASSUME Inv, Serial, NEW r \in Revision, AddressWithAgent(r) PROVE Serial'
<1> DEFINE k == Child(r)
<1> USE DEF Inv
<1>1. /\ stage = TypeOf(r) /\ current[TypeOf(r)] = NumberOf(r) /\ NumberOf(r) < MaxRevision
      /\ rev[r].status = "CHANGES_REQUESTED" /\ rev[r].status \notin InProgress
  BY DEF AddressWithAgent, Addressable, InProgress
<1>2. /\ \A q \in Revision : rev[q].status \notin InProgress /\ job[q].status \notin Open
      /\ \A w \in Workers : claim'[w].phase = "idle"
  BY <1>1, PeopleFindRest DEF AddressWithAgent
<1>3. /\ k \in Revision /\ TypeOf(k) = TypeOf(r) /\ NumberOf(k) = NumberOf(r) + 1
      /\ NumberOf(r) \in 1..MaxRevision /\ TypeOf(r) \in ArtifactType
  BY <1>1, RevisionShape, RevisionOrder
<1>4. rev[k] = NoRevision
  BY <1>1, <1>3, Unopened
<1>5. \A n : n[1] = "ARTIFACT_FAILED" => (n \in outbox' <=> n \in outbox)
  BY DEF AddressWithAgent
<1>6. /\ rev' = [rev EXCEPT ![k].status = "UPDATING"]
      /\ job' = [job EXCEPT ![k] = QueuedJob(version')]
      /\ current' = [current EXCEPT ![TypeOf(r)] = NumberOf(r) + 1]
      /\ stage' = stage
      /\ \A q \in Revision : rev[q] \in RevisionRow
  BY DEF AddressWithAgent, TypeOK
<1>7. /\ current'[TypeOf(k)] = NumberOf(k) /\ stage' = TypeOf(k)
      /\ ExpectedStatus(k) = "UPDATING"
  BY <1>1, <1>3, <1>6 DEF TypeOK, ExpectedStatus
<1> HIDE DEF k
<1>8. /\ \A q \in Revision : q # k => rev'[q] = rev[q] /\ job'[q] = job[q]
      /\ rev'[k].status = "UPDATING" /\ rev'[k].content = rev[k].content
      /\ rev'[k].run = rev[k].run /\ job'[k] = QueuedJob(version')
  BY <1>3, <1>6 DEF TypeOK, RevisionRow
<1>9. \A q \in Revision :
          /\ q # k => rev'[q].status \notin InProgress /\ job'[q] = job[q]
          /\ rev'[q].status = "FAILED" <=> rev[q].status = "FAILED"
          /\ rev'[q].content = rev[q].content /\ rev'[q].run = rev[q].run
  BY <1>2, <1>4, <1>8 DEF NoRevision
<1>10. rev'[k].status = ExpectedStatus(k)
  BY <1>7, <1>8
<1> QED
  BY <1>2, <1>3, <1>5, <1>7, <1>8, <1>9, <1>10, SerialDecision

\* A person writes the next revision.
LEMMA SerialManualRevision ==
    ASSUME Inv, Serial, NEW r \in Revision, SubmitManualRevision(r) PROVE Serial'
<1> DEFINE k == Child(r)
<1> USE DEF Inv
<1>1. /\ stage = TypeOf(r) /\ current[TypeOf(r)] = NumberOf(r) /\ NumberOf(r) < MaxRevision
      /\ rev[r].status = "CHANGES_REQUESTED" /\ rev[r].status \notin InProgress
  BY DEF SubmitManualRevision, Addressable, InProgress
<1>2. /\ \A q \in Revision : rev[q].status \notin InProgress /\ job[q].status \notin Open
      /\ \A w \in Workers : claim'[w].phase = "idle"
  BY <1>1, PeopleFindRest DEF SubmitManualRevision
<1>3. k \in Revision /\ TypeOf(k) = TypeOf(r) /\ NumberOf(k) = NumberOf(r) + 1
  BY <1>1, RevisionShape, RevisionOrder
<1>4. rev[k] = NoRevision
  BY <1>1, <1>3, RevisionOrder, Unopened
<1>5. \A n : n[1] = "ARTIFACT_FAILED" => (n \in outbox' <=> n \in outbox)
  BY DEF SubmitManualRevision
<1>6. rev' = Published(k, ByHuman, "MANUAL") /\ job' = job
  BY DEF SubmitManualRevision
<1> HIDE DEF k
<1>7. \A q \in Revision :
          /\ rev'[q].status = IF q = k THEN "REVIEW" ELSE rev[q].status
          /\ rev'[q].content = IF q = k THEN ByHuman ELSE rev[q].content
          /\ rev'[q].run = rev[q].run
  BY <1>3, <1>6, PublishedFields
<1>8. \A q \in Revision :
          /\ rev'[q].status \notin InProgress /\ job'[q] = job[q]
          /\ rev'[q].status = "FAILED" <=> rev[q].status = "FAILED"
          /\ rev'[q].content = rev[q].content \/ rev'[q].content = ByHuman
  BY <1>2, <1>4, <1>6, <1>7 DEF NoRevision, InProgress
<1> QED
  BY <1>2, <1>3, <1>5, <1>7, <1>8, SerialDecision

\* A claim, a step with it that changes no status, a lease that runs out and a
\* death leave the work in progress to its job.
LEMMA SerialQuiet ==
    ASSUME OneWorker, Inv, Serial,
           \/ \E r \in Revision : LeaseExpires(r) \/ ManualRevisionRolledBack(r)
           \/ \E w \in Workers : \/ \E r \in Revision : Claim(w, r)
                                 \/ LoadContext(w) \/ StartRun(w) \/ AgentEnds(w)
                                 \/ ApplyFindsDirectory(w) \/ ApplyRolledBack(w) \/ Crash(w)
    PROVE  Serial'
<1> USE DEF Inv
<1>0. /\ job \in [Revision -> JobRow] /\ rev \in [Revision -> RevisionRow]
      /\ claim \in [Workers -> ClaimedJob]
      /\ \A q \in Revision : job[q] \in JobRow /\ rev[q] \in RevisionRow
  BY DEF TypeOK
<1>1. ASSUME NEW r \in Revision, LeaseExpires(r) PROVE Serial'
  <2>1. \A q \in Revision : /\ job'[q].status = job[q].status /\ job'[q].owner = job[q].owner
                            /\ job'[q].attempts = job[q].attempts
                            /\ job'[q].expects = job[q].expects
    BY <1>0, <1>1 DEF LeaseExpires, JobRow
  <2>2. UNCHANGED <<stage, version, current, rev, outbox, claim>>
    BY <1>1 DEF LeaseExpires
  <2>3. \A w \in Workers : claim[w].phase # "idle" => claim[w].rev \in Revision
    BY ClaimFacts
  <2>4. ClaimsServe'
    BY <2>1, <2>2, <2>3 DEF Serial, ClaimsServe, HoldsClaim, OwnsLease
  <2> QED
    BY <2>1, <2>2, <2>4, SerialStill
<1>2. ASSUME NEW r \in Revision, ManualRevisionRolledBack(r) PROVE Serial'
  <2>1. UNCHANGED <<stage, version, current, rev, job, outbox, claim>>
    BY <1>2 DEF ManualRevisionRolledBack
  <2>2. ClaimsServe'
    BY <2>1 DEF Serial, ClaimsServe, HoldsClaim, OwnsLease
  <2> QED
    BY <2>1, <2>2, SerialStill
<1>3. ASSUME NEW w \in Workers, NEW r \in Revision, Claim(w, r) PROVE Serial'
  <2>1. /\ \A q \in Revision : q # r => job'[q] = job[q]
        /\ job[r].status \in Open /\ job'[r].status = "RUNNING" /\ job'[r].owner = OwnerOf[w]
        /\ job'[r].attempts = job[r].attempts + 1 /\ job'[r].expects = job[r].expects
    BY <1>0, <1>3 DEF Claim, Claimable, Open, JobRow
  <2>2. /\ UNCHANGED <<stage, version, current, rev, outbox>>
        /\ claim'[w].phase = "claimed" /\ claim'[w].rev = r
        /\ claim'[w].attempt = job[r].attempts + 1
    BY <1>0, <1>3 DEF Claim
  <2>3. ClaimsServe'
    BY <2>1, <2>2 DEF OneWorker, ClaimsServe, HoldsClaim, OwnsLease
  <2> QED
    BY <2>1, <2>2, <2>3, SerialStill DEF Open
<1>4. ASSUME NEW w \in Workers, LoadContext(w) \/ AgentEnds(w) \/ ApplyFindsDirectory(w)
                                \/ ApplyRolledBack(w) \/ Crash(w)
      PROVE  Serial'
  <2>1. claim[w].phase # "idle" /\ UNCHANGED <<stage, version, current, rev, job, outbox>>
    BY <1>4 DEF LoadContext, AgentEnds, ApplyFindsDirectory, ApplyRolledBack, Crash
  <2>2. HoldsClaim(w) /\ Preconditions(claim[w].rev) /\ InputsIntact(claim[w].rev)
    BY <2>1, ServedClaim
  <2>3. \/ claim'[w].phase = "idle"
        \/ /\ claim'[w].rev = claim[w].rev /\ claim'[w].attempt = claim[w].attempt
           /\ \/ claim'[w].phase = "loaded"
              \/ /\ claim'[w].phase \in {"returned", "raised"}
                 /\ claim[w].phase \in {"running", "returned"}
    BY <1>0, <1>4, <2>2
       DEF LoadContext, AgentEnds, ApplyFindsDirectory, ApplyRolledBack, Crash, ClaimedJob, Idle
  <2>4. ClaimsServe'
    BY <2>1, <2>2, <2>3 DEF Serial, ClaimsServe, OneWorker, HoldsClaim, OwnsLease
  <2> QED
    BY <2>1, <2>4, SerialStill
<1>5. ASSUME NEW w \in Workers, StartRun(w) PROVE Serial'
  <2>1. /\ claim[w].phase # "idle"
        /\ UNCHANGED <<stage, version, current, job, outbox>>
        /\ rev' = [rev EXCEPT ![claim[w].rev].run = claim[w].attempt]
        /\ claim' = [claim EXCEPT ![w].phase = "running"]
    BY <1>5 DEF StartRun
  <2>2. HoldsClaim(w) /\ claim[w].rev \in Revision /\ rev[claim[w].rev].status \in InProgress
    BY <2>1, ServedClaim
  <2>3. /\ claim'[w].phase = "running" /\ claim'[w].rev = claim[w].rev
        /\ claim'[w].attempt = claim[w].attempt
    BY <1>0, <2>1 DEF ClaimedJob
  <2>4. /\ rev'[claim[w].rev].run = claim[w].attempt
        /\ \A q \in Revision :
               /\ rev'[q].status = rev[q].status /\ rev'[q].content = rev[q].content
               /\ q # claim[w].rev => rev'[q].run = rev[q].run
    BY <1>0, <2>1, <2>2 DEF RevisionRow
  <2>5. ClaimsServe'
    BY <2>1, <2>2, <2>3, <2>4 DEF ClaimsServe, OneWorker, HoldsClaim, OwnsLease
  <2> QED
    BY <2>1, <2>2, <2>4, <2>5, SerialStill
<1> QED
  BY <1>1, <1>2, <1>3, <1>4, <1>5

\* A result is never set aside, and a job is never found stale.
LEMMA SerialNothingDropped ==
    ASSUME Inv, Serial, NEW w \in Workers
    PROVE  ~CancelStaleJob(w) /\ ~Supersede(w)
<1>1. ~CancelStaleJob(w)
  BY DEF CancelStaleJob, Serial, ClaimsServe
<1>2. ~Supersede(w)
  BY ServedClaim DEF Supersede
<1> QED
  BY <1>1, <1>2

\* The attempt ends, in a revision to review or in a failure.
LEMMA SerialEnd ==
    ASSUME OneWorker, Inv, Serial, NEW w \in Workers, Apply(w) \/ FailJob(w)
    PROVE  Serial'
<1> DEFINE r == claim[w].rev
           a == claim[w].attempt
<1> USE DEF Inv
<1>1. /\ claim[w].phase \in {"returned", "raised"}
      /\ claim' = [claim EXCEPT ![w] = Idle]
      /\ \/ job' = CloseJob(w, "SUCCEEDED")
         \/ job' = CloseJob(w, "FAILED")
  BY DEF Apply, FailJob
<1>2. /\ r \in Revision /\ a \in 1..MaxAttempts /\ rev[r].status \in InProgress
      /\ job[r].owner = OwnerOf[w]
  BY <1>1, ServedClaim DEF HoldsClaim, OwnsLease
<1>3. rev[r].run = a
  BY <1>1 DEF Serial, ClaimsServe
<1>4. \A q \in Revision : q # r => rev[q].status \notin InProgress /\ job[q].status \notin Open
  BY <1>2, OneInProgress DEF Serial, JobsServe
<1>5. \A v \in Workers : claim'[v].phase = "idle"
  BY <1>1 DEF TypeOK, Idle, OneWorker
<1>6. \A q \in Revision : job'[q].status \notin Open
  BY <1>1, <1>2, <1>4, CloseJobFields DEF Open
<1>7. \A q \in Revision : rev[q] \in RevisionRow
  BY DEF TypeOK
<1>8. CASE Apply(w)
  <2>1. rev' = Published(r, a, "AGENT") /\ outbox' = outbox \cup {<<"REVIEW_REQUIRED", r>>}
    BY <1>8 DEF Apply
  <2>2. \A q \in Revision :
            /\ rev'[q].status = IF q = r THEN "REVIEW" ELSE rev[q].status
            /\ rev'[q].content = IF q = r THEN a ELSE rev[q].content
            /\ rev'[q].run = rev[q].run
    BY <1>2, <2>1, PublishedFields
  <2>3. \A q \in Revision : /\ rev'[q].status \notin InProgress
                            /\ rev'[q].status = "FAILED" <=> rev[q].status = "FAILED"
    BY <1>2, <1>4, <2>2 DEF InProgress
  <2>4. FailureNoticeTruthful'
    BY <2>1, <2>3, NoNewFailure
  <2>5. Provenance'
    BY <1>3, <2>2 DEF Serial, Provenance
  <2> QED
    BY <1>5, <1>6, <2>3, <2>4, <2>5, SerialAtRest
<1>9. CASE FailJob(w)
  <2>1. /\ rev' = [rev EXCEPT ![r].status = IF @ \in InProgress THEN "FAILED" ELSE @]
        /\ outbox' = outbox \cup {<<"ARTIFACT_FAILED", r>>}
    BY <1>9 DEF FailJob
  <2>2. \A q \in Revision :
            /\ rev'[q].status = IF q = r THEN "FAILED" ELSE rev[q].status
            /\ rev'[q].content = rev[q].content /\ rev'[q].run = rev[q].run
    BY <1>2, <1>7, <2>1 DEF TypeOK, RevisionRow
  <2>3. \A q \in Revision : rev'[q].status \notin InProgress
    BY <1>4, <2>2 DEF InProgress
  <2>4. FailureNoticeTruthful'
    <3>1. \A q \in Revision : <<"ARTIFACT_FAILED", q>> \in outbox' <=>
                                  q = r \/ <<"ARTIFACT_FAILED", q>> \in outbox
      BY <2>1
    <3> QED
      BY <2>2, <3>1 DEF Serial, FailureNoticeTruthful
  <2>5. Provenance'
    BY <2>2 DEF Serial, Provenance
  <2> QED
    BY <1>5, <1>6, <2>3, <2>4, <2>5, SerialAtRest
<1> QED
  BY <1>8, <1>9

\* Initially nothing is in progress.
LEMMA SerialInit == Init => Serial
  BY DEF Init, Serial, ClaimsServe, JobsServe, FailureNoticeTruthful, Provenance, Idle, Open,
     NoJob, NoRevision, InProgress, NoContent, ByHuman

\* One worker process keeps the work in progress and its job together.
LEMMA SerialNext == OneWorker /\ Inv /\ Serial /\ [Next]_vars => Serial'
<1> SUFFICES ASSUME OneWorker, Inv, Serial, [Next]_vars PROVE Serial'
  OBVIOUS
<1>1. CASE UNCHANGED vars
  BY <1>1 DEF vars, Serial, ClaimsServe, JobsServe, FailureNoticeTruthful, Provenance,
     HoldsClaim, OwnsLease, Preconditions
<1>2. CASE IngestFeature
  BY <1>2, SerialIngest
<1>3. ASSUME NEW r \in Revision, Decide(r) \/ LeaseExpires(r) PROVE Serial'
  BY <1>3, SerialApprove, SerialRequestChanges, SerialAddress, SerialManualRevision, SerialQuiet
     DEF Decide
<1>4. ASSUME NEW w \in Workers,
             (\E r \in Revision : Claim(w, r)) \/ Proceed(w) \/ ApplyRolledBack(w) \/ Crash(w)
      PROVE  Serial'
  BY <1>4, SerialQuiet, SerialNothingDropped, SerialEnd DEF Proceed
<1> QED
  BY <1>1, <1>2, <1>3, <1>4 DEF Next

\* What the one worker relies on holds in every state.
LEMMA SerialInvariance == OneWorker /\ Spec => [](Inv /\ Serial)
<1>1. OneWorker => OneWorker'
  BY DEF OneWorker
<1> QED
  BY <1>1, Inductive, SerialInit, SerialNext, PTL DEF Spec

\* One worker process never strands the work in progress: it has a job that will
\* be executed, or is, and whose result will be accepted (_apply_agent_result).
THEOREM OneWorkerStrandsNothing == OneWorker /\ Spec => []NoStrandedWork
<1>1. Inv /\ Serial => NoStrandedWork
  BY InputsStay DEF Serial, JobsServe, NoStrandedWork, Open
<1> QED
  BY <1>1, SerialInvariance, PTL

\* It never tells of a failure of a revision that did not fail (_fail_agent_job).
THEOREM OneWorkerFailsTruthfully == OneWorker /\ Spec => []FailureNoticeTruthful
<1>1. Serial => FailureNoticeTruthful
  BY DEF Serial
<1> QED
  BY <1>1, SerialInvariance, PTL

\* And a revision of its agents points at the run that wrote it (execute_claimed_job).
THEOREM OneWorkerNamesTheRun == OneWorker /\ Spec => []Provenance
<1>1. Serial => Provenance
  BY DEF Serial
<1> QED
  BY <1>1, SerialInvariance, PTL
===============================================================================
