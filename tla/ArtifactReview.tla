---------------------------- MODULE ArtifactReview ----------------------------
(***************************************************************************)
(* The artifact workflow of one feature: its stage, its three artifacts    *)
(* with their revisions, reviews and feedback, the durable jobs that write *)
(* them, the agent runs, the revision directories on disk, the outbox rows *)
(* and the worker processes that execute the jobs.                         *)
(*                                                                         *)
(* Every transaction of the orchestrator is one action, because each runs  *)
(* under BEGIN IMMEDIATE; what happens between two transactions (an agent  *)
(* that runs, a lease that expires, a process that dies) is an action of   *)
(* its own. The one side effect a rollback cannot undo, the directory a    *)
(* store call has already finalised, outlives the actions that roll back.  *)
(***************************************************************************)
EXTENDS Naturals, Integers, FiniteSets

CONSTANTS
    Workers,      \* worker processes
    OwnerOf,      \* the worker id a process claims under
    NoOwner,      \* a NULL lease_owner
    MaxRevision,  \* bound: revisions of one artifact
    MaxAttempts   \* bound: claims of one job

ASSUME MaxRevisionAssumption == MaxRevision \in Nat \ {0}
ASSUME MaxAttemptsAssumption == MaxAttempts \in Nat \ {0}
ASSUME OwnerAssumption == \A w \in Workers : OwnerOf[w] # NoOwner

-------------------------------------------------------------------------------
(* Artifacts, revisions and their states.                                  *)

ArtifactType == {"INTENT", "SPEC", "PLAN"}
Stage == ArtifactType \cup {"ABSENT", "IMPLEMENTATION"}
NextStage == [INTENT |-> "SPEC", SPEC |-> "PLAN", PLAN |-> "IMPLEMENTATION"]

\* A revision is named by the artifact it belongs to and its number.
Revision == ArtifactType \X (1..MaxRevision)
TypeOf(r) == r[1]
NumberOf(r) == r[2]
Parent(r) == <<r[1], r[2] - 1>>
Child(r) == <<r[1], r[2] + 1>>

\* The artifacts that are done when a feature is in a stage.
Before == [ABSENT |-> {}, INTENT |-> {}, SPEC |-> {"INTENT"}, PLAN |-> {"INTENT", "SPEC"},
           IMPLEMENTATION |-> ArtifactType]

RevisionStatus == {"NONE", "GENERATING", "UPDATING", "REVIEW",
                   "CHANGES_REQUESTED", "APPROVED", "FAILED"}
ReviewStatus == {"NONE", "PENDING", "APPROVED", "CHANGES_REQUESTED"}
\* The feedback items of a revision share one fate: open, or resolved by a kind.
FeedbackStatus == {"NONE", "OPEN", "AGENT", "MANUAL"}
JobStatus == {"NONE", "PENDING", "RUNNING", "SUCCEEDED", "FAILED", "CANCELLED"}
RunStatus == {"NONE", "RUNNING", "SUCCEEDED", "FAILED", "SUPERSEDED"}
Phase == {"idle", "claimed", "loaded", "stale", "running", "returned", "raised"}

\* What was written: nothing, a person's text, or what attempt n of the
\* revision's job returned.
NoContent == -1
ByHuman == 0
Content == -1..MaxAttempts

Notice == ({"STAGE_UPDATED"} \X Stage)
          \cup ({"REVIEW_REQUIRED", "CHANGES_REQUESTED", "ARTIFACT_UPDATING",
                 "ARTIFACT_FAILED"} \X Revision)

VARIABLES
    stage,    \* features.stage; "ABSENT" while there is no row
    version,  \* features.version
    current,  \* number of each artifact's current_revision_id; 0: no artifact
    rev,      \* artifact_revisions, with the review and feedback of each
    job,      \* the job that writes each revision
    run,      \* agent_runs: of each revision, of each attempt of its job
    disk,     \* the revision directories of the artifact store
    outbox,   \* idempotency keys of outbox_messages
    handoff,  \* expected version of the PREPARE_IMPLEMENTATION job; 0: none
    claim     \* the ClaimedJob each worker process holds in memory

vars == <<stage, version, current, rev, job, run, disk, outbox, handoff, claim>>

NoRevision == [status |-> "NONE", review |-> "NONE", feedback |-> "NONE",
               content |-> NoContent, run |-> 0]
NoJob == [status |-> "NONE", attempts |-> 0, owner |-> NoOwner,
          live |-> FALSE, expects |-> 0]
Idle == [phase |-> "idle", rev |-> <<"INTENT", 1>>, attempt |-> 0]

Owner == {OwnerOf[w] : w \in Workers} \cup {NoOwner}
RevisionRow == [status: RevisionStatus, review: ReviewStatus, feedback: FeedbackStatus,
                content: Content, run: 0..MaxAttempts]
JobRow == [status: JobStatus, attempts: 0..MaxAttempts, owner: Owner,
           live: BOOLEAN, expects: Nat]
ClaimedJob == [phase: Phase, rev: Revision, attempt: 0..MaxAttempts]

TypeOK ==
    /\ stage \in Stage
    /\ version \in Nat
    /\ current \in [ArtifactType -> 0..MaxRevision]
    /\ rev \in [Revision -> RevisionRow]
    /\ job \in [Revision -> JobRow]
    /\ run \in [Revision -> [1..MaxAttempts -> RunStatus]]
    /\ disk \in [Revision -> Content]
    /\ outbox \subseteq Notice
    /\ handoff \in Nat
    /\ claim \in [Workers -> ClaimedJob]

Init ==
    /\ stage = "ABSENT"
    /\ version = 0
    /\ current = [t \in ArtifactType |-> 0]
    /\ rev = [r \in Revision |-> NoRevision]
    /\ job = [r \in Revision |-> NoJob]
    /\ run = [r \in Revision |-> [a \in 1..MaxAttempts |-> "NONE"]]
    /\ disk = [r \in Revision |-> NoContent]
    /\ outbox = {}
    /\ handoff = 0
    /\ claim = [w \in Workers |-> Idle]

-------------------------------------------------------------------------------
(* The pieces the operations are made of.                                  *)

\* Mutant: a failure is recorded whatever has become of the revision.
InProgressUnguarded == RevisionStatus \ {"NONE"}

\* Mutant: a failed update is forgotten.
InProgressFirstOnly == {"GENERATING"}

\* Statuses of a revision that is being written.
InProgress == {"GENERATING", "UPDATING"}

\* The status a job finds its revision in: a first revision is generated, a
\* later one updates its parent.
ExpectedStatus(r) == IF NumberOf(r) = 1 THEN "GENERATING" ELSE "UPDATING"

\* Mutant: the job expects the version before the transition that queued it.
QueuedJobTooEarly(expected) ==
    [NoJob EXCEPT !.status = "PENDING", !.expects = expected - 1]

\* A job row that is still to be executed, with the feature version it expects.
QueuedJob(expected) == [NoJob EXCEPT !.status = "PENDING", !.expects = expected]

\* The job of r still describes the feature it was queued for.
Preconditions(r) ==
    /\ stage = TypeOf(r)
    /\ version = job[r].expects
    /\ current[TypeOf(r)] = NumberOf(r)
    /\ rev[r].status = ExpectedStatus(r)

\* The current revision of an artifact, when it has one, is approved.
Approved(t) == current[t] # 0 /\ rev[<<t, current[t]>>].status = "APPROVED"

\* The lease of w's job is held under w's worker id ...
OwnsLease(w) ==
    /\ job[claim[w].rev].status = "RUNNING"
    /\ job[claim[w].rev].owner = OwnerOf[w]

\* ... and by the very claim w made.
HoldsClaim(w) ==
    /\ OwnsLease(w)
    /\ job[claim[w].rev].attempts = claim[w].attempt

\* Mutant: the lease is not compared.
FenceWithoutLease(w) == Preconditions(claim[w].rev)

\* What compares the world with a result before it is applied.
Fence(w) == OwnsLease(w) /\ Preconditions(claim[w].rev)

\* Mutant: the job is closed whoever owns it.
CloseJobOfAnyone(w, s) ==
    [job EXCEPT ![claim[w].rev] =
        [@ EXCEPT !.status = s, !.owner = NoOwner, !.live = FALSE]]

\* Mutant: the lease owner is left in the row.
CloseJobKeepsOwner(w, s) ==
    IF job[claim[w].rev].owner = OwnerOf[w]
    THEN [job EXCEPT ![claim[w].rev] = [@ EXCEPT !.status = s, !.live = FALSE]]
    ELSE job

\* UPDATE jobs SET status = s, lease_owner = NULL WHERE lease_owner = own id.
CloseJob(w, s) ==
    IF job[claim[w].rev].owner = OwnerOf[w]
    THEN [job EXCEPT ![claim[w].rev] =
              [@ EXCEPT !.status = s, !.owner = NoOwner, !.live = FALSE]]
    ELSE job

\* Mutant: the feedback on the parent stays open.
PublishedOnly(r, c, kind) ==
    [rev EXCEPT ![r].status = "REVIEW", ![r].review = "PENDING", ![r].content = c]

\* Revision r becomes reviewable with content c: its review opens and the
\* open feedback on its parent is resolved by a kind.
Published(r, c, kind) ==
    [q \in Revision |->
        IF q = r
        THEN [rev[q] EXCEPT !.status = "REVIEW", !.review = "PENDING", !.content = c]
        ELSE IF q = Parent(r) /\ rev[q].feedback = "OPEN"
        THEN [rev[q] EXCEPT !.feedback = kind]
        ELSE rev[q]]

\* Mutant: an approval does not wait for a review to open.
ReviewableEarly(r) == stage = TypeOf(r) /\ current[TypeOf(r)] = NumberOf(r)

\* A revision that is awaiting the reviewer, in the stage the feature is in.
Reviewable(r) ==
    /\ stage = TypeOf(r)
    /\ current[TypeOf(r)] = NumberOf(r)
    /\ rev[r].status = "REVIEW"
    /\ rev[r].review = "PENDING"

\* A revision whose requested changes nobody has taken up.
Addressable(r) ==
    /\ stage = TypeOf(r)
    /\ current[TypeOf(r)] = NumberOf(r)
    /\ rev[r].status = "CHANGES_REQUESTED"
    /\ NumberOf(r) < MaxRevision

-------------------------------------------------------------------------------
(* Events from the task manager and the reviewers.                         *)

\* A work item arrives: the feature, its intent artifact and the first job.
IngestFeature ==
    LET r == <<"INTENT", 1>> IN
    /\ stage = "ABSENT"
    /\ stage' = "INTENT"
    /\ version' = 1
    /\ current' = [current EXCEPT !["INTENT"] = 1]
    /\ rev' = [rev EXCEPT ![r].status = "GENERATING"]
    /\ job' = [job EXCEPT ![r] = QueuedJob(1)]
    /\ outbox' = outbox \cup {<<"STAGE_UPDATED", "INTENT">>}
    /\ UNCHANGED <<run, disk, handoff, claim>>

\* approve: the next stage opens, with its artifact, or with the handoff to
\* the implementation after the plan.
Approve(r) ==
    LET next == NextStage[stage]
        first == <<next, 1>>
        approved == [rev EXCEPT ![r].status = "APPROVED", ![r].review = "APPROVED"]
    IN
    /\ Reviewable(r)
    /\ stage' = next
    /\ version' = version + 1
    /\ IF next = "IMPLEMENTATION"
       THEN /\ handoff' = version + 1
            /\ rev' = approved
            /\ UNCHANGED <<current, job>>
       ELSE /\ current' = [current EXCEPT ![next] = 1]
            /\ rev' = [approved EXCEPT ![first].status = "GENERATING"]
            /\ job' = [job EXCEPT ![first] = QueuedJob(version + 1)]
            /\ UNCHANGED handoff
    /\ outbox' = outbox \cup {<<"STAGE_UPDATED", next>>}
    /\ UNCHANGED <<run, disk, claim>>

\* request-changes, with at least one feedback item that still matches.
RequestChanges(r) ==
    /\ Reviewable(r)
    /\ version' = version + 1
    /\ rev' = [rev EXCEPT ![r].status = "CHANGES_REQUESTED",
                          ![r].review = "CHANGES_REQUESTED",
                          ![r].feedback = "OPEN"]
    /\ outbox' = outbox \cup {<<"CHANGES_REQUESTED", r>>}
    /\ UNCHANGED <<stage, current, job, run, disk, handoff, claim>>

\* address-with-agent: the next revision is reserved and its job queued.
AddressWithAgent(r) ==
    /\ Addressable(r)
    /\ rev[r].feedback = "OPEN"
    /\ version' = version + 1
    /\ current' = [current EXCEPT ![TypeOf(r)] = NumberOf(r) + 1]
    /\ rev' = [rev EXCEPT ![Child(r)].status = "UPDATING"]
    /\ job' = [job EXCEPT ![Child(r)] = QueuedJob(version + 1)]
    /\ outbox' = outbox \cup {<<"ARTIFACT_UPDATING", Child(r)>>}
    /\ UNCHANGED <<stage, run, disk, handoff, claim>>

\* A person's edit: the next revision is written and put to review in one
\* transaction, which includes its directory.
SubmitManualRevision(r) ==
    /\ Addressable(r)
    /\ disk[Child(r)] = NoContent
    /\ version' = version + 1
    /\ current' = [current EXCEPT ![TypeOf(r)] = NumberOf(r) + 1]
    /\ rev' = Published(Child(r), ByHuman, "MANUAL")
    /\ disk' = [disk EXCEPT ![Child(r)] = ByHuman]
    /\ outbox' = outbox \cup {<<"REVIEW_REQUIRED", Child(r)>>}
    /\ UNCHANGED <<stage, job, run, handoff, claim>>

\* The same, when the transaction is lost after the directory was finalised.
ManualRevisionRolledBack(r) ==
    /\ Addressable(r)
    /\ disk[Child(r)] = NoContent
    /\ disk' = [disk EXCEPT ![Child(r)] = ByHuman]
    /\ UNCHANGED <<stage, version, current, rev, job, run, outbox, handoff, claim>>

-------------------------------------------------------------------------------
(* The workers.                                                            *)

\* Mutant: the job of a dead worker is never taken over.
ClaimableOnce(r) == job[r].status = "PENDING"

\* A job nobody holds, or whose holder's lease has run out.
Claimable(r) ==
    \/ job[r].status = "PENDING"
    \/ job[r].status = "RUNNING" /\ ~job[r].live

Claim(w, r) ==
    /\ claim[w].phase = "idle"
    /\ Claimable(r)
    /\ job[r].attempts < MaxAttempts
    /\ job' = [job EXCEPT ![r] = [@ EXCEPT !.status = "RUNNING", !.live = TRUE,
                                           !.owner = OwnerOf[w],
                                           !.attempts = job[r].attempts + 1]]
    /\ claim' = [claim EXCEPT ![w] = [phase |-> "claimed", rev |-> r,
                                      attempt |-> job[r].attempts + 1]]
    /\ UNCHANGED <<stage, version, current, rev, run, disk, outbox, handoff>>

\* Nothing renews a lease, so it may run out under a worker that is alive.
LeaseExpires(r) ==
    /\ job[r].status = "RUNNING"
    /\ job[r].live
    /\ job' = [job EXCEPT ![r].live = FALSE]
    /\ UNCHANGED <<stage, version, current, rev, run, disk, outbox, handoff, claim>>

\* The inputs the job was queued with are still there: the parent's feedback
\* is open and the previous artifact is approved.
InputsIntact(r) ==
    /\ NumberOf(r) > 1 => rev[Parent(r)].feedback = "OPEN"
    /\ \A t \in ArtifactType : NextStage[t] = TypeOf(r) => Approved(t)

LoadContext(w) ==
    LET r == claim[w].rev IN
    /\ claim[w].phase = "claimed"
    /\ claim' = [claim EXCEPT ![w].phase =
                     IF HoldsClaim(w) /\ Preconditions(r) /\ InputsIntact(r)
                     THEN "loaded" ELSE "stale"]
    /\ UNCHANGED <<stage, version, current, rev, job, run, disk, outbox, handoff>>

\* The job is dropped when its preconditions are gone.
CancelStaleJob(w) ==
    /\ claim[w].phase = "stale"
    /\ job' = CloseJob(w, "CANCELLED")
    /\ claim' = [claim EXCEPT ![w] = Idle]
    /\ UNCHANGED <<stage, version, current, rev, run, disk, outbox, handoff>>

\* Mutant: a retry does not point the revision at its run.
StartRunOnce(w) ==
    LET r == claim[w].rev
        a == claim[w].attempt
    IN
    /\ claim[w].phase = "loaded"
    /\ run' = [run EXCEPT ![r][a] = "RUNNING"]
    /\ rev' = [rev EXCEPT ![r].run = IF @ = 0 THEN a ELSE @]
    /\ claim' = [claim EXCEPT ![w].phase = "running"]
    /\ UNCHANGED <<stage, version, current, job, disk, outbox, handoff>>

\* The run is recorded and the revision points at it; nothing is compared.
StartRun(w) ==
    LET r == claim[w].rev
        a == claim[w].attempt
    IN
    /\ claim[w].phase = "loaded"
    /\ run' = [run EXCEPT ![r][a] = "RUNNING"]
    /\ rev' = [rev EXCEPT ![r].run = a]
    /\ claim' = [claim EXCEPT ![w].phase = "running"]
    /\ UNCHANGED <<stage, version, current, job, disk, outbox, handoff>>

\* The agent, outside any transaction: it answers with a valid document, or it
\* raises, times out or answers with an invalid one.
AgentEnds(w) ==
    /\ claim[w].phase = "running"
    /\ \E p \in {"returned", "raised"} : claim' = [claim EXCEPT ![w].phase = p]
    /\ UNCHANGED <<stage, version, current, rev, job, run, disk, outbox, handoff>>

\* The result is applied: directory, revision, review, feedback, run, job and
\* notice.
Apply(w) ==
    LET r == claim[w].rev
        a == claim[w].attempt
    IN
    /\ claim[w].phase = "returned"
    /\ Fence(w)
    /\ disk[r] = NoContent
    /\ disk' = [disk EXCEPT ![r] = a]
    /\ version' = version + 1
    /\ rev' = Published(r, a, "AGENT")
    /\ run' = [run EXCEPT ![r][a] = "SUCCEEDED"]
    /\ job' = CloseJob(w, "SUCCEEDED")
    /\ outbox' = outbox \cup {<<"REVIEW_REQUIRED", r>>}
    /\ claim' = [claim EXCEPT ![w] = Idle]
    /\ UNCHANGED <<stage, current, handoff>>

\* The result is set aside.
Supersede(w) ==
    /\ claim[w].phase = "returned"
    /\ ~Fence(w)
    /\ run' = [run EXCEPT ![claim[w].rev][claim[w].attempt] = "SUPERSEDED"]
    /\ job' = CloseJob(w, "CANCELLED")
    /\ claim' = [claim EXCEPT ![w] = Idle]
    /\ UNCHANGED <<stage, version, current, rev, disk, outbox, handoff>>

\* The store refuses a directory that exists already.
ApplyFindsDirectory(w) ==
    /\ claim[w].phase = "returned"
    /\ Fence(w)
    /\ disk[claim[w].rev] # NoContent
    /\ claim' = [claim EXCEPT ![w].phase = "raised"]
    /\ UNCHANGED <<stage, version, current, rev, job, run, disk, outbox, handoff>>

\* The directory is finalised and then the transaction is lost: the process
\* lives on with an exception, or dies.
ApplyRolledBack(w) ==
    LET r == claim[w].rev IN
    /\ claim[w].phase = "returned"
    /\ Fence(w)
    /\ disk[r] = NoContent
    /\ disk' = [disk EXCEPT ![r] = claim[w].attempt]
    /\ \/ claim' = [claim EXCEPT ![w].phase = "raised"]
       \/ /\ claim[w].attempt < MaxAttempts
          /\ claim' = [claim EXCEPT ![w] = Idle]
    /\ UNCHANGED <<stage, version, current, rev, job, run, outbox, handoff>>

\* The failure of w's attempt is recorded: on its run, on the revision unless
\* it has left the worker's hands, on the job if w still owns it, and always
\* on the feature's version and in the outbox.
FailJob(w) ==
    LET r == claim[w].rev IN
    /\ claim[w].phase = "raised"
    /\ run' = [run EXCEPT ![r][claim[w].attempt] = "FAILED"]
    /\ rev' = [rev EXCEPT ![r].status = IF @ \in InProgress THEN "FAILED" ELSE @]
    /\ job' = CloseJob(w, "FAILED")
    /\ version' = version + 1
    /\ outbox' = outbox \cup {<<"ARTIFACT_FAILED", r>>}
    /\ claim' = [claim EXCEPT ![w] = Idle]
    /\ UNCHANGED <<stage, current, disk, handoff>>

\* The process dies and is started again; its lease stays behind.
Crash(w) ==
    /\ claim[w].phase # "idle"
    /\ claim[w].attempt < MaxAttempts
    /\ claim' = [claim EXCEPT ![w] = Idle]
    /\ UNCHANGED <<stage, version, current, rev, job, run, disk, outbox, handoff>>

-------------------------------------------------------------------------------
Decide(r) ==
    \/ Approve(r) \/ RequestChanges(r) \/ AddressWithAgent(r)
    \/ SubmitManualRevision(r) \/ ManualRevisionRolledBack(r)

\* What a running worker does next with the job it has claimed.
Proceed(w) ==
    \/ LoadContext(w) \/ CancelStaleJob(w) \/ StartRun(w) \/ AgentEnds(w)
    \/ Apply(w) \/ Supersede(w) \/ ApplyFindsDirectory(w) \/ FailJob(w)

Next ==
    \/ IngestFeature
    \/ \E r \in Revision : Decide(r) \/ LeaseExpires(r)
    \/ \E w \in Workers : \/ \E r \in Revision : Claim(w, r)
                          \/ Proceed(w) \/ ApplyRolledBack(w) \/ Crash(w)

Spec == Init /\ [][Next]_vars

\* Time passes, the workers poll, and an agent process ends (the runner kills
\* it at its timeout). Nothing is assumed of the people, nor of crashes.
Fairness ==
    /\ \A r \in Revision : WF_vars(LeaseExpires(r))
    /\ \A w \in Workers : /\ WF_vars(\E r \in Revision : Claim(w, r))
                          /\ WF_vars(Proceed(w))

FairSpec == Spec /\ Fairness

-------------------------------------------------------------------------------
(* Safety.                                                                 *)

\* The artifacts are approved in order and none is skipped: the current
\* revision of every artifact before the stage is approved, no artifact after
\* it exists, and the implementation is handed over exactly when all three
\* are approved.
ApprovalChain ==
    /\ \A t \in ArtifactType :
           /\ t \in Before[stage] <=> Approved(t)
           /\ current[t] # 0 <=> t \in Before[stage] \cup {stage}
    /\ handoff # 0 <=> stage = "IMPLEMENTATION"

\* The history of an artifact: every revision before the current one was
\* reviewed and sent back, and its feedback was resolved by a published
\* successor only.
RevisionHistory ==
    \A r \in Revision :
        /\ NumberOf(r) < current[TypeOf(r)] => rev[r].status = "CHANGES_REQUESTED"
        /\ NumberOf(r) > current[TypeOf(r)] => rev[r] = NoRevision
        /\ rev[r].feedback \in {"AGENT", "MANUAL"} <=>
               NumberOf(r) < current[TypeOf(r)] /\ rev[Child(r)].content # NoContent

\* A reviewer never meets a revision whose content is not the one on disk, and
\* a decision always belongs to a revision that was published.
PublishedContent ==
    \A r \in Revision :
        /\ rev[r].status \in {"REVIEW", "CHANGES_REQUESTED", "APPROVED"} <=>
               rev[r].content # NoContent
        /\ rev[r].content # NoContent => disk[r] = rev[r].content
        /\ rev[r].review = (CASE rev[r].status = "REVIEW" -> "PENDING"
                              [] rev[r].status \in {"APPROVED", "CHANGES_REQUESTED"} ->
                                     rev[r].status
                              [] OTHER -> "NONE")

\* However many workers tried, a revision holds the content of exactly the run
\* that is recorded as its success, and its job succeeded with it.
OneWinner ==
    \A r \in Revision :
        /\ \A a \in 1..MaxAttempts :
               run[r][a] = "SUCCEEDED" <=> rev[r].content = a
        /\ job[r].status = "SUCCEEDED" <=> rev[r].content > ByHuman

\* A reviewed revision is immutable: once published, its content and its
\* directory never change and a decision about it is never taken back.
ImmutableRevisions ==
    [][\A r \in Revision :
           rev[r].content # NoContent =>
               /\ rev'[r].content = rev[r].content
               /\ disk'[r] = disk[r]
               /\ rev[r].status # "REVIEW" => rev'[r].status = rev[r].status]_vars

\* No two processes hold claims of one attempt, an attempt that has not been
\* made left no run, and a claim's run is recorded from its start to its outcome.
ClaimsMatchRuns ==
    /\ \A w \in Workers : claim[w].phase # "idle" =>
           LET r == claim[w].rev
               a == claim[w].attempt
           IN  /\ a \in 1..job[r].attempts
               /\ run[r][a] = IF claim[w].phase \in {"running", "returned", "raised"}
                              THEN "RUNNING" ELSE "NONE"
               /\ \A v \in Workers \ {w} :
                      claim[v].phase # "idle" /\ claim[v].rev = r => claim[v].attempt # a
    /\ \A r \in Revision, a \in 1..MaxAttempts : a > job[r].attempts => run[r][a] = "NONE"

\* A running job has an owner and no other job has, a revision that is still to
\* be opened has no job, and feedback exists where a revision was sent back.
RowsMatch ==
    \A r \in Revision :
        /\ job[r].status = "RUNNING" <=> job[r].owner # NoOwner
        /\ NumberOf(r) > current[TypeOf(r)] => job[r] = NoJob
        /\ rev[r].feedback # "NONE" <=> rev[r].status = "CHANGES_REQUESTED"

\* The claims in memory, the runs, the jobs and the feedback agree.
ClaimsConsistent == ClaimsMatchRuns /\ RowsMatch

\* A job is closed by the claim that holds it, never by an earlier one that
\* was taken over: what an outdated worker does leaves the newer attempt alone.
ClosedByHolder ==
    [][\A r \in Revision :
           job[r].status = "RUNNING" /\ job'[r].status # "RUNNING" =>
               \E w \in Workers : /\ claim[w].phase # "idle" /\ claim[w].rev = r
                                  /\ HoldsClaim(w)
                                  /\ claim'[w] = Idle]_vars

-------------------------------------------------------------------------------
(* Safety while no lease runs out under a living worker (one process).     *)

\* Work in progress is never stranded: a job that will be executed, and whose
\* result will be accepted, stands behind it.
NoStrandedWork ==
    \A r \in Revision :
        rev[r].status \in InProgress =>
            /\ job[r].status \in {"PENDING", "RUNNING"}
            /\ Preconditions(r)
            /\ InputsIntact(r)

\* A failure notice is only ever sent about a revision that did fail.
FailureNoticeTruthful ==
    \A r \in Revision : <<"ARTIFACT_FAILED", r>> \in outbox <=> rev[r].status = "FAILED"

\* The run a revision points at is the one that wrote it.
Provenance ==
    \A r \in Revision : rev[r].content > ByHuman => rev[r].run = rev[r].content

-------------------------------------------------------------------------------
(* Statements of the documents that the code does not keep.                *)

\* "Feature rows use optimistic version checks; workers also take narrow DB
\* leases": a worker that lost its lease to another, or whose feature has moved
\* on, leaves the feature as it is.
FeatureWritesAreChecked ==
    [][\A w \in Workers :
           claim'[w] # claim[w] /\ version' # version =>
               HoldsClaim(w) /\ version = job[claim[w].rev].expects]_vars

\* "Crash with expired job lease: next worker reconciles external state and
\* continues": a valid result of the job's holder is not refused because of
\* what a dead attempt left behind.
RetryAfterCrashContinues ==
    [][\A w \in Workers :
           /\ claim[w].phase = "returned" /\ HoldsClaim(w) /\ Fence(w)
           /\ disk[claim[w].rev] # NoContent
           => claim'[w].phase # "raised"]_vars

-------------------------------------------------------------------------------
(* What the workflow promises as a whole.                                  *)

GateOf ==
    CASE stage = "ABSENT" -> "NONE"
      [] stage = "IMPLEMENTATION" -> "HANDED_OFF"
      [] OTHER -> LET s == rev[<<stage, current[stage]>>].status IN
                  IF s \in InProgress THEN "WORKING" ELSE s

RevisionOf == IF stage \in ArtifactType THEN current[stage] ELSE 0

Lifecycle == INSTANCE FeatureLifecycle WITH gate <- GateOf, revision <- RevisionOf

\* Whatever the workers do, the feature moves as the lifecycle allows.
FollowsLifecycle == Lifecycle!SafeSpec

\* And the machine's own work ends in a revision to review or in a failure.
ImplementsLifecycle == Lifecycle!Spec
===============================================================================
