-------------------------------- MODULE Execution --------------------------------
(***************************************************************************)
(* The execution of one approved plan: from the job that the approval      *)
(* queued to DONE or to an abandoned execution. The state is the feature's *)
(* stage, the execution, the implementation revisions with their reviews,  *)
(* the durable jobs of the five kinds, the verification evidence, and what *)
(* git holds: the managed worktree, the local branch and the remote one.   *)
(*                                                                         *)
(* A transaction of the coordinator is one action. Between two of them the *)
(* worker acts on the world (prepares a worktree, runs an agent or a check,*)
(* commits, pushes, removes) and no rollback undoes that.                  *)
(***************************************************************************)
EXTENDS Naturals, Integers, FiniteSets

CONSTANTS
    Workers,       \* worker processes, each with a worker id of its own
    NoOwner,       \* a NULL lease_owner
    CleanupOnDone, \* ProjectConfig.cleanup_on_done
    AutoPush,      \* ProjectConfig.auto_push
    MaxRevision,   \* bound: implementation revisions
    MaxAttempts,   \* bound: claims of one job
    MaxEdits,      \* bound: changes that agents and commands make in the worktree
    MaxUpstream,   \* bound: commits on the default branch while it runs
    MaxStray       \* bound: failures of overtaken artifact attempts

ASSUME BoundsAssumption ==
    /\ {MaxRevision, MaxAttempts} \subseteq Nat \ {0}
    /\ {MaxEdits, MaxUpstream, MaxStray} \subseteq Nat
ASSUME OptionsAssumption == {CleanupOnDone, AutoPush} \subseteq BOOLEAN
ASSUME WorkersAssumption == NoOwner \notin Workers

-------------------------------------------------------------------------------
Revision == 1..MaxRevision

\* The jobs: one prepares the workspace, each revision is run, verified and
\* closed by one of its own, and one cleans up after an abandoned execution.
Job == {<<"PREPARE", 1>>, <<"CLEANUP", 1>>} \cup ({"RUN", "VERIFY", "CLOSE"} \X Revision)
Prepare == <<"PREPARE", 1>>
Cleanup == <<"CLEANUP", 1>>
Run(r) == <<"RUN", r>>
Verify(r) == <<"VERIFY", r>>
Close(r) == <<"CLOSE", r>>

\* A commit is named by the content it holds: 0 is the base the branch was
\* created from, n what the n-th change of the worktree made of it.
NoCommit == -1
Content == 0..MaxEdits
Commit == Content \cup {NoCommit}
Base == -1..MaxUpstream
NoBase == -1

Stage == {"IMPLEMENTATION", "VERIFICATION", "DONE"}
ExecutionStatus == {"NONE", "PENDING", "RUNNING", "SUCCEEDED", "FAILED", "CANCELLED", "CLOSED"}
RevisionStatus == {"NONE", "UPDATING", "REVIEW", "CHANGES_REQUESTED", "APPROVED", "FAILED"}
JobStatus == {"NONE", "PENDING", "RUNNING", "SUCCEEDED", "FAILED", "CANCELLED"}
Phase == {"idle", "claimed", "loaded", "stale", "raised",
          "prepared", "recorded", "bootstrapped",    \* PREPARE
          "returned",                                \* RUN
          "checked", "pushed",                       \* VERIFY
          "matched", "removed"}                      \* CLOSE, CLEANUP

Notice == ({"STAGE_UPDATED"} \X Stage \X Nat)
          \cup ({"REVIEW_REQUIRED", "CHANGES_REQUESTED"} \X Revision)
          \cup ({"FAILED", "RETRY_QUEUED"} \X Job \X (1..MaxAttempts))
          \cup {<<"ABANDONED">>}

VARIABLES
    stage,     \* features.stage
    version,   \* features.version, counted from the approval of the plan
    exec,      \* the executions row
    rev,       \* implementation_revisions, with the review and feedback of each
    job,       \* jobs
    evidence,  \* verification_evidence of each revision: the outcome stored last
    outbox,    \* idempotency keys of outbox_messages
    claim,     \* the ClaimedJob each worker process holds, and what it has learnt
    tree,      \* git: worktree, its files, local branch, remote branch, fork point
    upstream,  \* git: commits on the default branch of the remote
    edits,     \* changes of the worktree's files so far
    verified,  \* history: the contents that checks left behind when all had passed
    intruded,  \* history: the contents written by somebody who had no job, or no more
    belated,   \* history: the revisions whose evidence such an attempt has stored
    stray      \* failures of overtaken artifact attempts so far

database == <<stage, version, exec, rev, job, evidence, outbox>>
git == <<tree, upstream, edits>>
history == <<verified, intruded, belated, stray>>
vars == <<database, claim, git, history>>

NoRevision == [status |-> "NONE", review |-> "NONE", feedback |-> "NONE", head |-> NoCommit]
NoJob == [status |-> "NONE", attempts |-> 0, owner |-> NoOwner, live |-> FALSE, expects |-> 0]
Idle == [phase |-> "idle", job |-> Prepare, attempt |-> 0, base |-> NoBase, head |-> NoCommit]

ExecutionRow == [status: ExecutionStatus, current: 0..MaxRevision, base: Base,
                 worktree: BOOLEAN, head: Commit]
RevisionRow == [status: RevisionStatus, head: Commit,
                review: {"NONE", "PENDING", "APPROVED", "CHANGES_REQUESTED"},
                feedback: {"NONE", "OPEN", "RESOLVED"}]
JobRow == [status: JobStatus, attempts: 0..MaxAttempts, owner: Workers \cup {NoOwner},
           live: BOOLEAN, expects: Nat]
ClaimedJob == [phase: Phase, job: Job, attempt: 0..MaxAttempts, base: Base, head: Commit]
Tree == [exists: BOOLEAN, files: Content, branch: Commit, remote: Commit, fork: Base]

TypeOK ==
    /\ stage \in Stage
    /\ version \in Nat
    /\ exec \in ExecutionRow
    /\ rev \in [Revision -> RevisionRow]
    /\ job \in [Job -> JobRow]
    /\ evidence \in [Revision -> {"NONE", "PASS", "FAIL"}]
    /\ outbox \subseteq Notice
    /\ claim \in [Workers -> ClaimedJob]
    /\ tree \in Tree
    /\ upstream \in 0..MaxUpstream
    /\ edits \in 0..MaxEdits
    /\ verified \subseteq Content
    /\ intruded \subseteq Content
    /\ belated \subseteq Revision
    /\ stray \in 0..MaxStray

\* The approval of the plan has queued the job that prepares the workspace.
Init ==
    /\ stage = "IMPLEMENTATION"
    /\ version = 0
    /\ exec = [status |-> "NONE", current |-> 0, base |-> NoBase, worktree |-> FALSE,
               head |-> NoCommit]
    /\ rev = [r \in Revision |-> NoRevision]
    /\ job = [j \in Job |-> IF j = Prepare THEN [NoJob EXCEPT !.status = "PENDING"] ELSE NoJob]
    /\ evidence = [r \in Revision |-> "NONE"]
    /\ outbox = {}
    /\ claim = [w \in Workers |-> Idle]
    /\ tree = [exists |-> FALSE, files |-> 0, branch |-> NoCommit, remote |-> NoCommit,
               fork |-> NoBase]
    /\ upstream = 0
    /\ edits = 0
    /\ verified = {}
    /\ intruded = {}
    /\ belated = {}
    /\ stray = 0

-------------------------------------------------------------------------------
(* The pieces the operations are made of.                                  *)

JobOf(w) == claim[w].job
Kind(w) == claim[w].job[1]
Target(w) == claim[w].job[2]

\* Mutant: the WHERE clause is missing.
MovedAlways(s, from, to) == to

\* UPDATE ... SET status = to WHERE status IN from, on one row's status.
Moved(s, from, to) == IF s \in from THEN to ELSE s

\* INSERT OR IGNORE of a job that expects a version of the feature.
Queued(jobs, j, expected) ==
    IF jobs[j].status = "NONE"
    THEN [jobs EXCEPT ![j] = [NoJob EXCEPT !.status = "PENDING", !.expects = expected]]
    ELSE jobs

\* UPDATE jobs SET status = s, lease_owner = NULL WHERE lease_owner = own id.
Closed(w, s) ==
    IF job[JobOf(w)].owner = w
    THEN [job EXCEPT ![JobOf(w)] = [@ EXCEPT !.status = s, !.owner = NoOwner, !.live = FALSE]]
    ELSE job

\* Mutant: a running job is taken for the worker's own.
JobIsRunning(w) == job[JobOf(w)].status = "RUNNING"

\* w's claim is the latest one, and nobody has closed the job.
JobIsCurrent(w) ==
    /\ job[JobOf(w)].status = "RUNNING"
    /\ job[JobOf(w)].owner = w
    /\ job[JobOf(w)].attempts = claim[w].attempt

\* The world a job was queued for.
Ready(j) ==
    LET k == j[1]
        r == j[2]
    IN
    CASE k = "PREPARE" -> stage = "IMPLEMENTATION" /\ version = job[j].expects
      [] k \in {"RUN", "VERIFY"} ->
             /\ stage = "IMPLEMENTATION" /\ version = job[j].expects
             /\ exec.status = "RUNNING" /\ exec.current = r
             /\ rev[r].status = "UPDATING"
             /\ r > 1 => rev[r - 1].feedback = "OPEN"
      [] k = "CLOSE" ->
             /\ stage = "VERIFICATION" /\ version = job[j].expects
             /\ exec.status = "SUCCEEDED" /\ exec.current = r
             /\ rev[r].status = "APPROVED"
      [] k = "CLEANUP" -> exec.status = "CANCELLED"

\* Somebody changes the files of the worktree: the holder of a job, or not.
Write(holder) ==
    /\ tree.exists
    /\ edits < MaxEdits
    /\ edits' = edits + 1
    /\ tree' = [tree EXCEPT !.files = edits + 1]
    /\ intruded' = IF holder THEN intruded ELSE intruded \cup {edits + 1}

\* A command that runs in the worktree may change it.
MayWrite(w) == Write(JobIsCurrent(w)) \/ UNCHANGED <<tree, edits, intruded>>

\* Worker w goes on to a phase.
Goes(w, p) == claim' = [claim EXCEPT ![w].phase = p]
Ends(w) == claim' = [claim EXCEPT ![w] = Idle]

-------------------------------------------------------------------------------
(* Reviewers.                                                              *)

\* Mutant: a decision may be taken twice.
ReviewableAgain(r) == exec.current = r /\ rev[r].head # NoCommit

\* The current revision is awaiting its review.
Reviewable(r) ==
    /\ exec.current = r
    /\ stage = "VERIFICATION"
    /\ rev[r].status = "REVIEW"
    /\ rev[r].review = "PENDING"

Approve(r) ==
    /\ Reviewable(r)
    /\ version' = version + 1
    /\ rev' = [rev EXCEPT ![r].status = "APPROVED", ![r].review = "APPROVED"]
    /\ job' = Queued(job, Close(r), version + 1)
    /\ UNCHANGED <<stage, exec, evidence, outbox, claim, git, history>>

RequestChanges(r) ==
    /\ Reviewable(r)
    /\ stage' = "IMPLEMENTATION"
    /\ version' = version + 1
    /\ rev' = [rev EXCEPT ![r].status = "CHANGES_REQUESTED",
                          ![r].review = "CHANGES_REQUESTED",
                          ![r].feedback = "OPEN"]
    /\ outbox' = outbox \cup {<<"STAGE_UPDATED", "IMPLEMENTATION", version + 1>>,
                              <<"CHANGES_REQUESTED", r>>}
    /\ UNCHANGED <<exec, job, evidence, claim, git, history>>

\* The next revision opens on the same execution, and its job is queued.
AddressWithAgent(r) ==
    /\ exec.current = r
    /\ r < MaxRevision
    /\ stage = "IMPLEMENTATION"
    /\ rev[r].status = "CHANGES_REQUESTED"
    /\ exec.status = "SUCCEEDED"
    /\ rev[r].feedback = "OPEN"
    /\ rev' = [rev EXCEPT ![r + 1].status = "UPDATING"]
    /\ exec' = [exec EXCEPT !.status = "RUNNING", !.current = r + 1]
    /\ job' = Queued(job, Run(r + 1), version)
    /\ UNCHANGED <<stage, version, evidence, outbox, claim, git, history>>

\* The failed operation j may be tried again.
RetryAllowed(j) ==
    CASE j[1] = "CLEANUP" -> exec.status = "CANCELLED"
      [] j[1] = "CLOSE" ->
             /\ exec.status = "SUCCEEDED" /\ stage = "VERIFICATION"
             /\ exec.current # 0 /\ rev[exec.current].status = "APPROVED"
      [] j[1] = "PREPARE" ->
             exec.status = "FAILED" /\ stage = "IMPLEMENTATION" /\ exec.current = 0
      [] j[1] \in {"RUN", "VERIFY"} ->
             /\ exec.status = "FAILED" /\ stage = "IMPLEMENTATION"
             /\ exec.current # 0 /\ rev[exec.current].status = "FAILED"

\* Mutant: only the job is put back.
RetryJobOnly(j) ==
    /\ job[j].status = "FAILED"
    /\ job[j].attempts < MaxAttempts
    /\ RetryAllowed(j)
    /\ exec' = IF j[1] \in {"CLOSE", "CLEANUP"} THEN exec ELSE [exec EXCEPT !.status = "RUNNING"]
    /\ job' = [job EXCEPT ![j].status = "PENDING"]
    /\ outbox' = outbox \cup {<<"RETRY_QUEUED", j, job[j].attempts + 1>>}
    /\ UNCHANGED <<stage, version, rev, evidence, claim, git, history>>

\* Mutant: the job is not put back.
RetryStateOnly(j) ==
    /\ job[j].status = "FAILED"
    /\ job[j].attempts < MaxAttempts
    /\ RetryAllowed(j)
    /\ exec' = CASE j[1] = "PREPARE" -> [exec EXCEPT !.status = "PENDING"]
                 [] j[1] \in {"RUN", "VERIFY"} -> [exec EXCEPT !.status = "RUNNING"]
                 [] OTHER -> exec
    /\ outbox' = outbox \cup {<<"RETRY_QUEUED", j, job[j].attempts + 1>>}
    /\ UNCHANGED <<stage, version, rev, job, evidence, claim, git, history>>

Retry(j) ==
    /\ job[j].status = "FAILED"
    /\ job[j].attempts < MaxAttempts
    /\ RetryAllowed(j)
    /\ exec' = CASE j[1] = "PREPARE" -> [exec EXCEPT !.status = "PENDING"]
                 [] j[1] \in {"RUN", "VERIFY"} -> [exec EXCEPT !.status = "RUNNING"]
                 [] OTHER -> exec
    /\ rev' = IF j[1] \in {"RUN", "VERIFY"}
              THEN [rev EXCEPT ![exec.current].status = "UPDATING"]
              ELSE rev
    /\ job' = [job EXCEPT ![j].status = "PENDING"]
    /\ outbox' = outbox \cup {<<"RETRY_QUEUED", j, job[j].attempts + 1>>}
    /\ UNCHANGED <<stage, version, evidence, claim, git, history>>

\* Mutant: the failed job is left as it is.
AbandonKeepsJobs ==
    /\ exec.status = "FAILED"
    /\ exec' = [exec EXCEPT !.status = "CANCELLED"]
    /\ job' = Queued(job, Cleanup, 0)
    /\ outbox' = outbox \cup {<<"ABANDONED">>}
    /\ UNCHANGED <<stage, version, rev, evidence, claim, git, history>>

\* A failed execution is given up: what is left of its jobs is cancelled, and
\* the removal of its worktree is queued.
Abandon ==
    LET Cancelled(row) ==
            IF row.status \in {"PENDING", "RUNNING", "FAILED"}
            THEN [row EXCEPT !.status = "CANCELLED", !.owner = NoOwner, !.live = FALSE]
            ELSE row
    IN
    /\ exec.status = "FAILED"
    /\ exec' = [exec EXCEPT !.status = "CANCELLED"]
    /\ job' = Queued([j \in Job |-> Cancelled(job[j])], Cleanup, 0)
    /\ outbox' = outbox \cup {<<"ABANDONED">>}
    /\ UNCHANGED <<stage, version, rev, evidence, claim, git, history>>

-------------------------------------------------------------------------------
(* The world around: the default branch moves on, and an artifact attempt  *)
(* that was overtaken before the plan was approved fails only now, which   *)
(* adds one to the feature's version.                                      *)

UpstreamMoves ==
    /\ upstream < MaxUpstream
    /\ upstream' = upstream + 1
    /\ UNCHANGED <<database, claim, tree, edits, history>>

ArtifactAttemptFails ==
    /\ stray < MaxStray
    /\ stray' = stray + 1
    /\ version' = version + 1
    /\ UNCHANGED <<stage, exec, rev, job, evidence, outbox, claim, git, verified, intruded, belated>>

\* What was started for an attempt goes on after it: a Pi, in a session of its
\* own, whose worker was killed, a tool whose Pi has left, a child of a command
\* that was stopped. Nothing makes sure that they end, nor asks whether they have.
LeftoverWrites ==
    /\ job[Run(1)].attempts > 0
    /\ Write(FALSE)
    /\ UNCHANGED <<database, claim, upstream, verified, belated, stray>>

-------------------------------------------------------------------------------
(* Claims.                                                                 *)

\* Mutant: the job of a dead worker is never taken over.
ClaimableOnce(j) == job[j].status = "PENDING"

\* A job nobody holds, or whose holder's lease has run out.
Claimable(j) ==
    \/ job[j].status = "PENDING"
    \/ job[j].status = "RUNNING" /\ ~job[j].live

Claim(w, j) ==
    /\ claim[w].phase = "idle"
    /\ Claimable(j)
    /\ job[j].attempts < MaxAttempts
    /\ job' = [job EXCEPT ![j] = [@ EXCEPT !.status = "RUNNING", !.owner = w, !.live = TRUE,
                                           !.attempts = job[j].attempts + 1]]
    /\ claim' = [claim EXCEPT ![w] = [Idle EXCEPT !.phase = "claimed", !.job = j,
                                                  !.attempt = job[j].attempts + 1]]
    /\ UNCHANGED <<stage, version, exec, rev, evidence, outbox, git, history>>

\* Nothing renews a lease, however long an agent or a check takes.
LeaseExpires(j) ==
    /\ job[j].status = "RUNNING"
    /\ job[j].live
    /\ job' = [job EXCEPT ![j].live = FALSE]
    /\ UNCHANGED <<stage, version, exec, rev, evidence, outbox, claim, git, history>>

\* The first read of a job finds the world it was queued for, or not.
Load(w) ==
    /\ claim[w].phase = "claimed"
    /\ Kind(w) # "PREPARE"
    /\ IF JobIsCurrent(w) /\ Ready(JobOf(w)) THEN Goes(w, "loaded")
       ELSE IF Kind(w) \in {"CLOSE", "CLEANUP"} /\ ~JobIsCurrent(w) THEN Ends(w)
       ELSE Goes(w, "stale")
    /\ UNCHANGED <<database, git, history>>

CancelStaleJob(w) ==
    /\ claim[w].phase = "stale"
    /\ job' = Closed(w, "CANCELLED")
    /\ Ends(w)
    /\ UNCHANGED <<stage, version, exec, rev, evidence, outbox, git, history>>

\* The last transaction of an operation finds that the job has been taken over.
GiveUp(w) ==
    /\ claim[w].phase \in {"prepared", "bootstrapped", "returned", "pushed", "removed"}
    /\ ~JobIsCurrent(w)
    /\ Ends(w)
    /\ UNCHANGED <<database, git, history>>

\* What the operation asks of git, of the agent or of the system fails, before
\* it has done anything or, as when a removed worktree cannot be pruned or the
\* diff of a pushed commit not be stored, after it has.
OperationFails(w) ==
    /\ claim[w].phase \in {"loaded", "prepared", "bootstrapped", "returned", "checked",
                          "pushed", "matched", "removed"}
    /\ Goes(w, "raised")
    /\ UNCHANGED <<database, git, history>>

\* Mutant: the failures of a job share one idempotency key.
FailureNoticeOnce(w) == <<"FAILED", JobOf(w), 1>>

\* Each attempt has an idempotency key of its own.
FailureNotice(w) == <<"FAILED", JobOf(w), claim[w].attempt>>

\* Mutant: the worktree is cleaned up on the way out.
FailCleansUp(w) ==
    /\ claim[w].phase = "raised"
    /\ JobIsCurrent(w)
    /\ exec' = [exec EXCEPT !.status = Moved(@, {"PENDING", "RUNNING"}, "FAILED")]
    /\ rev' = IF Kind(w) \in {"RUN", "VERIFY", "CLOSE"}
              THEN [rev EXCEPT ![Target(w)].status = Moved(@, {"UPDATING"}, "FAILED")]
              ELSE rev
    /\ job' = Closed(w, "FAILED")
    /\ outbox' = outbox \cup {FailureNotice(w)}
    /\ tree' = [tree EXCEPT !.exists = FALSE]
    /\ Ends(w)
    /\ UNCHANGED <<stage, version, evidence, upstream, edits, history>>

\* The failure is recorded, unless the job has been taken over.
Fail(w) ==
    LET r == Target(w) IN
    /\ claim[w].phase = "raised"
    /\ IF JobIsCurrent(w)
       THEN /\ exec' = [exec EXCEPT !.status = Moved(@, {"PENDING", "RUNNING"}, "FAILED")]
            /\ rev' = IF Kind(w) \in {"RUN", "VERIFY", "CLOSE"}
                      THEN [rev EXCEPT ![r].status = Moved(@, {"UPDATING"}, "FAILED")]
                      ELSE rev
            /\ job' = Closed(w, "FAILED")
            /\ outbox' = outbox \cup {FailureNotice(w)}
       ELSE UNCHANGED <<exec, rev, job, outbox>>
    /\ Ends(w)
    /\ UNCHANGED <<stage, version, evidence, git, history>>

\* The process dies and is started again. It does not return to what it had
\* begun, which need not have ended (LeftoverWrites).
Crash(w) ==
    /\ claim[w].phase # "idle"
    /\ claim[w].attempt < MaxAttempts
    /\ Ends(w)
    /\ UNCHANGED <<database, git, history>>

-------------------------------------------------------------------------------
(* PREPARE_IMPLEMENTATION                                                  *)

\* The execution is created, or found.
OpenExecution(w) ==
    /\ claim[w].phase = "claimed"
    /\ Kind(w) = "PREPARE"
    /\ IF JobIsCurrent(w) /\ Ready(Prepare)
       THEN /\ exec' = [exec EXCEPT !.status = Moved(@, {"NONE"}, "PENDING")]
            /\ Goes(w, "loaded")
            /\ UNCHANGED job
       ELSE /\ job' = Closed(w, "CANCELLED")
            /\ Ends(w)
            /\ UNCHANGED exec
    /\ UNCHANGED <<stage, version, rev, evidence, outbox, git, history>>

\* An existing worktree is taken as it is, and the base returned is the
\* default branch of now in either case.
PrepareWorktree(w) ==
    /\ claim[w].phase = "loaded"
    /\ Kind(w) = "PREPARE"
    /\ tree' = IF tree.exists THEN tree
               ELSE IF tree.branch # NoCommit
               THEN [tree EXCEPT !.exists = TRUE, !.files = tree.branch]
               ELSE [tree EXCEPT !.exists = TRUE, !.files = 0, !.branch = 0, !.fork = upstream]
    /\ claim' = [claim EXCEPT ![w].phase = "prepared", ![w].base = upstream]
    /\ UNCHANGED <<database, upstream, edits, history>>

RecordWorktree(w) ==
    /\ claim[w].phase = "prepared"
    /\ JobIsCurrent(w)
    /\ exec' = IF exec.status \in {"PENDING", "RUNNING"}
               THEN [exec EXCEPT !.status = "RUNNING", !.base = claim[w].base, !.worktree = TRUE]
               ELSE exec
    /\ Goes(w, "recorded")
    /\ UNCHANGED <<stage, version, rev, job, evidence, outbox, git, history>>

\* The bootstrap command passes (or there is none), or fails.
Bootstrap(w) ==
    /\ claim[w].phase = "recorded"
    /\ \E p \in {"bootstrapped", "raised"} : Goes(w, p)
    /\ MayWrite(w)
    /\ UNCHANGED <<database, upstream, verified, belated, stray>>

OpenFirstRevision(w) ==
    /\ claim[w].phase = "bootstrapped"
    /\ JobIsCurrent(w)
    /\ rev' = IF exec.current = 0 THEN [rev EXCEPT ![1].status = "UPDATING"] ELSE rev
    /\ exec' = IF exec.status = "RUNNING" /\ exec.current = 0
               THEN [exec EXCEPT !.current = 1] ELSE exec
    /\ job' = Queued(Closed(w, "SUCCEEDED"), Run(1), job[Prepare].expects)
    /\ Ends(w)
    /\ UNCHANGED <<stage, version, evidence, outbox, git, history>>

-------------------------------------------------------------------------------
(* RUN_IMPLEMENTATION                                                      *)

AgentEdits(w) ==
    /\ claim[w].phase = "loaded"
    /\ Kind(w) = "RUN"
    /\ Write(JobIsCurrent(w))
    /\ UNCHANGED <<database, claim, upstream, verified, belated, stray>>

AgentReturns(w) ==
    /\ claim[w].phase = "loaded"
    /\ Kind(w) = "RUN"
    /\ tree.exists
    /\ Goes(w, "returned")
    /\ UNCHANGED <<database, git, history>>

\* Mutant: the verification is not queued.
QueueNothing(w) ==
    /\ claim[w].phase = "returned"
    /\ JobIsCurrent(w)
    /\ job' = Closed(w, "SUCCEEDED")
    /\ Ends(w)
    /\ UNCHANGED <<stage, version, exec, rev, evidence, outbox, git, history>>

QueueVerification(w) ==
    /\ claim[w].phase = "returned"
    /\ JobIsCurrent(w)
    /\ job' = Queued(Closed(w, "SUCCEEDED"), Verify(Target(w)), job[JobOf(w)].expects)
    /\ Ends(w)
    /\ UNCHANGED <<stage, version, exec, rev, evidence, outbox, git, history>>

-------------------------------------------------------------------------------
(* VERIFY_IMPLEMENTATION                                                   *)

\* Mutant: a check that fails is recorded and ignored.
RunChecksIgnored(w) ==
    /\ claim[w].phase = "loaded"
    /\ Kind(w) = "VERIFY"
    /\ evidence' = [evidence EXCEPT ![Target(w)] = "FAIL"]
    /\ Goes(w, "checked")
    /\ UNCHANGED <<stage, version, exec, rev, job, outbox, git, history>>

\* The commands run in the worktree one after the other, each on what those
\* before have made of it, and their outcome is stored as evidence, whoever
\* holds the job by then.
RunChecks(w) ==
    /\ claim[w].phase = "loaded"
    /\ Kind(w) = "VERIFY"
    /\ MayWrite(w)
    /\ \/ /\ tree.exists
          /\ evidence' = [evidence EXCEPT ![Target(w)] = "PASS"]
          /\ verified' = verified \cup {tree'.files}
          /\ Goes(w, "checked")
       \/ /\ evidence' = [evidence EXCEPT ![Target(w)] = "FAIL"]
          /\ Goes(w, "raised")
          /\ UNCHANGED verified
    /\ belated' = IF JobIsCurrent(w) THEN belated ELSE belated \cup {Target(w)}
    /\ UNCHANGED <<stage, version, exec, rev, job, outbox, upstream, stray>>

\* Mutant: a revision may come without a commit of its own.
ParentHeadIgnored(r) == NoCommit

\* The head of the revision that r was asked to improve on.
ParentHead(r) == IF r = 1 THEN NoCommit ELSE rev[r - 1].head

\* Everything in the worktree is committed and pushed; a revision without a
\* commit of its own is refused.
CommitAndPush(w) ==
    /\ claim[w].phase = "checked"
    /\ tree.exists
    /\ tree' = [tree EXCEPT !.branch = tree.files,
                            !.remote = IF AutoPush THEN tree.files ELSE @]
    /\ claim' = [claim EXCEPT ![w].head = tree.files,
                              ![w].phase = IF tree.files = ParentHead(Target(w))
                                           THEN "raised" ELSE "pushed"]
    /\ UNCHANGED <<database, upstream, edits, history>>

\* Mutant: the outcome of the push is not looked at.
PushFailsUnnoticed(w) ==
    /\ claim[w].phase = "checked"
    /\ tree.exists
    /\ AutoPush
    /\ tree' = [tree EXCEPT !.branch = tree.files]
    /\ claim' = [claim EXCEPT ![w].head = tree.files, ![w].phase = "pushed"]
    /\ UNCHANGED <<database, upstream, edits, history>>

\* The commit is made and the push fails, before or after the remote took it.
PushFails(w) ==
    /\ claim[w].phase = "checked"
    /\ tree.exists
    /\ AutoPush
    /\ \E h \in {tree.remote, tree.files} :
           tree' = [tree EXCEPT !.branch = tree.files, !.remote = h]
    /\ Goes(w, "raised")
    /\ UNCHANGED <<database, upstream, edits, history>>

\* The revision goes to review, unless the feature has changed meanwhile.
PublishReview(w) ==
    LET r == Target(w) IN
    /\ claim[w].phase = "pushed"
    /\ JobIsCurrent(w)
    /\ stage = "IMPLEMENTATION" /\ version = job[JobOf(w)].expects
    /\ stage' = "VERIFICATION"
    /\ version' = version + 1
    /\ rev' = [q \in Revision |->
                  IF q = r
                  THEN [rev[q] EXCEPT !.status = Moved(@, {"UPDATING"}, "REVIEW"),
                                      !.review = "PENDING", !.head = claim[w].head]
                  ELSE IF q = r - 1
                  THEN [rev[q] EXCEPT !.feedback = Moved(@, {"OPEN"}, "RESOLVED")]
                  ELSE rev[q]]
    /\ exec' = [exec EXCEPT !.status = Moved(@, {"RUNNING"}, "SUCCEEDED"), !.head = claim[w].head]
    /\ job' = Closed(w, "SUCCEEDED")
    /\ outbox' = outbox \cup {<<"STAGE_UPDATED", "VERIFICATION", version + 1>>,
                              <<"REVIEW_REQUIRED", r>>}
    /\ Ends(w)
    /\ UNCHANGED <<evidence, git, history>>

PublishRaises(w) ==
    /\ claim[w].phase = "pushed"
    /\ JobIsCurrent(w)
    /\ ~(stage = "IMPLEMENTATION" /\ version = job[JobOf(w)].expects)
    /\ Goes(w, "raised")
    /\ UNCHANGED <<database, git, history>>

-------------------------------------------------------------------------------
(* CLOSE_IMPLEMENTATION                                                    *)

CompareRemote(w) ==
    /\ claim[w].phase = "loaded"
    /\ Kind(w) = "CLOSE"
    /\ Goes(w, IF tree.remote = exec.head THEN "matched" ELSE "raised")
    /\ UNCHANGED <<database, git, history>>

\* A worktree with changes that are not committed is not removed.
RemoveWorktree(w) ==
    /\ claim[w].phase = "matched"
    /\ CleanupOnDone /\ tree.exists => tree.files = tree.branch
    /\ tree' = IF CleanupOnDone THEN [tree EXCEPT !.exists = FALSE] ELSE tree
    /\ Goes(w, "removed")
    /\ UNCHANGED <<database, upstream, edits, history>>

CloseExecution(w) ==
    /\ claim[w].phase = "removed"
    /\ Kind(w) = "CLOSE"
    /\ JobIsCurrent(w)
    /\ IF stage = "VERIFICATION" /\ version = job[JobOf(w)].expects
       THEN /\ stage' = "DONE"
            /\ version' = version + 1
            /\ exec' = [exec EXCEPT !.status = Moved(@, {"SUCCEEDED"}, "CLOSED")]
            /\ job' = Closed(w, "SUCCEEDED")
            /\ outbox' = outbox \cup {<<"STAGE_UPDATED", "DONE", version + 1>>}
            /\ Ends(w)
       ELSE /\ Goes(w, "raised")
            /\ UNCHANGED <<stage, version, exec, job, outbox>>
    /\ UNCHANGED <<rev, evidence, git, history>>

-------------------------------------------------------------------------------
(* CLEANUP_ABANDONED_IMPLEMENTATION                                        *)

\* Mutant: a worktree with changes that are not committed stays.
RemoveIfClean(w) ==
    /\ claim[w].phase = "loaded"
    /\ Kind(w) = "CLEANUP"
    /\ tree' = IF exec.base # NoBase /\ tree.files = tree.branch
               THEN [tree EXCEPT !.exists = FALSE] ELSE tree
    /\ Goes(w, "removed")
    /\ UNCHANGED <<database, upstream, edits, history>>

\* The path is that of the execution or, once it is cleared there, of the job:
\* there is one if a worktree was ever recorded.
ForceRemove(w) ==
    /\ claim[w].phase = "loaded"
    /\ Kind(w) = "CLEANUP"
    /\ tree' = IF exec.base # NoBase THEN [tree EXCEPT !.exists = FALSE] ELSE tree
    /\ Goes(w, "removed")
    /\ UNCHANGED <<database, upstream, edits, history>>

RecordCleanup(w) ==
    /\ claim[w].phase = "removed"
    /\ Kind(w) = "CLEANUP"
    /\ JobIsCurrent(w)
    /\ exec' = [exec EXCEPT !.worktree = IF exec.status = "CANCELLED" THEN FALSE ELSE @]
    /\ job' = Closed(w, "SUCCEEDED")
    /\ Ends(w)
    /\ UNCHANGED <<stage, version, rev, evidence, outbox, git, history>>

-------------------------------------------------------------------------------
Decide ==
    \/ \E r \in Revision : Approve(r) \/ RequestChanges(r) \/ AddressWithAgent(r)
    \/ \E j \in Job : Retry(j)
    \/ Abandon

\* What a running worker does next with the job it has claimed.
Proceed(w) ==
    \/ Load(w) \/ CancelStaleJob(w) \/ GiveUp(w) \/ OperationFails(w) \/ Fail(w)
    \/ OpenExecution(w) \/ PrepareWorktree(w) \/ RecordWorktree(w) \/ Bootstrap(w)
    \/ OpenFirstRevision(w)
    \/ AgentReturns(w) \/ QueueVerification(w)
    \/ RunChecks(w) \/ CommitAndPush(w) \/ PushFails(w) \/ PublishReview(w) \/ PublishRaises(w)
    \/ CompareRemote(w) \/ RemoveWorktree(w) \/ CloseExecution(w)
    \/ ForceRemove(w) \/ RecordCleanup(w)

Next ==
    \/ Decide
    \/ UpstreamMoves \/ ArtifactAttemptFails \/ LeftoverWrites
    \/ \E j \in Job : LeaseExpires(j)
    \/ \E w \in Workers : \/ \E j \in Job : Claim(w, j)
                          \/ Proceed(w) \/ AgentEdits(w) \/ Crash(w)

Spec == Init /\ [][Next]_vars

\* Time passes, the workers poll, and an agent or a command ends (its runner
\* kills it at a timeout). That git ends is an assumption about the surroundings:
\* it is run without a timeout. Nothing is assumed of the people, nor of crashes.
Fairness ==
    /\ WF_vars(\E j \in Job : LeaseExpires(j))
    /\ \A w \in Workers : WF_vars(\E j \in Job : Claim(w, j)) /\ WF_vars(Proceed(w))

FairSpec == Spec /\ Fairness
-------------------------------------------------------------------------------
(* Safety, whatever the workers do.                                        *)

Active == {"PENDING", "RUNNING"}
Unfinished == {j \in Job : job[j].status \in Active \cup {"FAILED"}}

\* The execution is where job j would take it further.
Awaits(j) ==
    LET r == j[2] IN
    CASE j[1] = "PREPARE" ->
             exec.status \in {"NONE", "PENDING", "RUNNING", "FAILED"} /\ exec.current = 0
      [] j[1] \in {"RUN", "VERIFY"} -> exec.status \in {"RUNNING", "FAILED"} /\ exec.current = r
      [] j[1] = "CLOSE" ->
             exec.status = "SUCCEEDED" /\ exec.current = r /\ rev[r].status = "APPROVED"
      [] j[1] = "CLEANUP" -> exec.status = "CANCELLED"

\* The operations of an execution follow each other: never are two of its jobs
\* unfinished, and the one that is belongs to what the execution waits for, so
\* that a retry can only mean the operation that failed.
OneOperation ==
    /\ \A j \in Unfinished : Awaits(j)
    /\ \A i, j \in Unfinished : i = j

\* The stage of the feature, the status of the execution and the status of its
\* current revision tell one story.
StageMatchesRevision ==
    LET now == IF exec.current = 0 THEN "NONE" ELSE rev[exec.current].status IN
    /\ stage = "VERIFICATION" <=> exec.status = "SUCCEEDED" /\ now \in {"REVIEW", "APPROVED"}
    /\ stage = "DONE" <=> exec.status = "CLOSED"
    /\ exec.status = "CLOSED" => now = "APPROVED"
    /\ exec.status = "SUCCEEDED" => now \in {"REVIEW", "CHANGES_REQUESTED", "APPROVED"}
    /\ exec.status = "RUNNING" => now \in {"NONE", "UPDATING"}
    /\ exec.status \in {"FAILED", "CANCELLED"} => now \in {"NONE", "FAILED"}

\* The history of the implementation: every revision before the current one
\* was reviewed and sent back, its feedback was resolved by a published
\* successor only, and a successor always brings a commit of its own.
RevisionHistory ==
    /\ \A r \in Revision :
           /\ r < exec.current => rev[r].status = "CHANGES_REQUESTED"
           /\ r > exec.current => rev[r] = NoRevision
           /\ rev[r].head # NoCommit <=>
                  rev[r].status \in {"REVIEW", "CHANGES_REQUESTED", "APPROVED"}
           /\ rev[r].feedback # "NONE" <=> rev[r].status = "CHANGES_REQUESTED"
           /\ rev[r].feedback = "RESOLVED" <=>
                  r < exec.current /\ rev[r + 1].head # NoCommit
           /\ r > 1 /\ rev[r].head # NoCommit => rev[r].head # rev[r - 1].head
    /\ exec.status \in {"SUCCEEDED", "CLOSED"} => exec.head = rev[exec.current].head

\* "Keep the worktree through implementation review and all feedback attempts":
\* from the moment it is recorded until the approval or the abandonment.
WorktreeKept ==
    /\ exec.worktree
    /\ exec.status \in {"RUNNING", "FAILED", "SUCCEEDED"}
    /\ exec.current # 0 => rev[exec.current].status # "APPROVED"
    => tree.exists

\* The notices agree with what happened: each failed attempt has one of its
\* own, none was sent for an attempt that succeeded, and a retry follows a
\* failure.
NoticesTruthful ==
    /\ \A j \in Job, a \in 1..MaxAttempts :
           /\ <<"FAILED", j, a>> \in outbox /\ a >= job[j].attempts =>
                  a = job[j].attempts /\ job[j].status \in {"PENDING", "FAILED", "CANCELLED"}
           /\ <<"RETRY_QUEUED", j, a>> \in outbox => <<"FAILED", j, a - 1>> \in outbox
    /\ \A j \in Job : job[j].status = "FAILED" => <<"FAILED", j, job[j].attempts>> \in outbox
    /\ \A r \in Revision : <<"REVIEW_REQUIRED", r>> \in outbox <=> rev[r].head # NoCommit
    /\ <<"ABANDONED">> \in outbox <=> exec.status = "CANCELLED"

\* An execution that was abandoned or closed never moves again, a reviewed head
\* never changes and a decision is never taken back.
HistoryIsFinal ==
    [][/\ exec.status \in {"CANCELLED", "CLOSED"} =>
              exec'.status = exec.status /\ rev' = rev /\ stage' = stage
       /\ \A r \in Revision :
              rev[r].head # NoCommit =>
                  /\ rev'[r].head = rev[r].head
                  /\ rev[r].status # "REVIEW" => rev'[r].status = rev[r].status]_vars

\* As long as no overtaken artifact attempt disturbs the feature, an execution
\* is never stuck: what it waits for will run and find the world it expects,
\* or has failed and can be retried.
NeverStranded ==
    stray = 0 /\ (\E j \in Job : Awaits(j)) =>
        \/ \E j \in Job : /\ Awaits(j)
                          /\ \/ job[j].status \in Active /\ Ready(j)
                             \/ job[j].status = "FAILED" /\ RetryAllowed(j)
        \/ job[Cleanup].status = "SUCCEEDED"

\* "On pass, create a deterministic application-owned commit": what is put
\* before the reviewer is the worktree as checks left it when all of them had
\* passed, and the evidence beside it says so. All that can come between is
\* somebody who writes without holding the job: an attempt that was taken over,
\* or what is left of one.
ReviewedWasChecked ==
    \A r \in Revision : rev[r].head # NoCommit =>
        /\ rev[r].head \in verified \cup intruded
        /\ evidence[r] = "PASS" \/ r \in belated

-------------------------------------------------------------------------------
(* Safety while no lease runs out under a living worker (one process).     *)

\* What the reviewer approved is what the remote branch holds, from the review
\* of the current revision on.
RemoteIsReviewed ==
    AutoPush /\ stage \in {"VERIFICATION", "DONE"} => tree.remote = exec.head

\* After the cleanup of an abandoned execution no worktree is left, provided
\* that it was ever recorded.
CleanedUp ==
    job[Cleanup].status = "SUCCEEDED" /\ exec.base # NoBase => ~tree.exists

-------------------------------------------------------------------------------
(* A statement of the documents that the code does not keep.               *)

\* "Resolve and persist base_sha ... create the branch": the base recorded, to
\* which the reviewed diff is taken, is the one the branch was created from.
BaseIsForkPoint == exec.base # NoBase => exec.base = tree.fork

-------------------------------------------------------------------------------
(* Liveness, and what the execution promises as a whole.                   *)

\* An approval and an abandonment are carried out, or fail where a person sees
\* it: neither is dropped, whatever died on the way.
DecisionsEnd ==
    \A j \in {Cleanup} \cup {Close(r) : r \in Revision} :
        job[j].status = "PENDING" ~> job[j].status \in {"SUCCEEDED", "FAILED"}

GateOf ==
    CASE exec.status \in {"NONE", "PENDING"} -> "PREPARING"
      [] exec.status = "RUNNING" -> IF exec.current = 0 THEN "PREPARING" ELSE "WORKING"
      [] exec.status = "SUCCEEDED" -> rev[exec.current].status
      [] exec.status = "FAILED" -> "FAILED"
      [] exec.status = "CANCELLED" -> "ABANDONED"
      [] exec.status = "CLOSED" -> "DONE"

Lifecycle == INSTANCE ExecutionLifecycle WITH gate <- GateOf, revision <- exec.current

\* Whatever the workers do, the execution moves as the lifecycle allows.
FollowsLifecycle == Lifecycle!SafeSpec

\* And preparing and building end in a review or in a failure.
ImplementsLifecycle == Lifecycle!Spec
===============================================================================
