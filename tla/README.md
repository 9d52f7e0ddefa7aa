# A verification project for Enzo

Enzo takes a feature from Plane through three reviewed artifacts (INTENT, SPEC,
PLAN), lets a coding agent implement the approved plan in a managed git
worktree, verifies and pushes the result, has it reviewed, and closes the
feature. All durable state is in one SQLite database; worker processes poll it
for jobs and for outbox messages.

This directory holds TLA+ models of that machine, TLC runs over small instances,
and TLAPS proofs. Paths below are relative to `src/enzo/` unless they name a
file at the root of the repository.

1. [Inventory](#1-inventory)
2. [The modules and the code](#2-the-modules-and-the-code)
3. [Runs](#3-runs)
4. [Proofs](#4-proofs)
5. [Disagreements](#5-disagreements-between-code-and-documents)
6. [Not modelled](#6-what-is-not-modelled)
7. [Plan](#7-plan)

## 1. Inventory

| component | state | operations | what makes it hard |
|---|---|---|---|
| artifact workflow (`orchestrator.py`, `artifacts/definitions.py`) | `features`, `artifacts`, `artifact_revisions`, `reviews`, `feedback_items` | ingest, approve, request changes, address with agent, submit manual revision, apply an agent's result | reviewers and workers act at the same time; a result arrives minutes after the state it was computed from |
| artifact job queue (`orchestrator.py`, `worker.py`) | `jobs`, `agent_runs`, what a process remembers of its claim | claim, load, cancel as stale, start, apply, supersede, fail | 60 second leases that nobody renews, workers that die, two workers on one job |
| artifact store (`artifacts/store.py`) | one directory per revision | finalise, refuse an existing one | the directory is not rolled back with the transaction |
| outbox and Plane (`orchestrator.py`, `plane.py`) | `outbox_messages`, the work item in Plane | insert, claim, deliver, mark sent, put back | a request executed whose answer was lost; a sender that died or was overtaken |
| execution coordinator (`execution/coordinator.py`) | `executions`, `implementation_revisions`, their reviews and feedback, `verification_evidence`, jobs | prepare, run, verify, close, clean up, review, retry, abandon | everything of the job queue, with side effects between the transactions |
| git workspace manager (`execution/git.py`) | worktree, local branch, remote branch | prepare, commit and push, compare, remove | nothing is undone by a rollback; the remote moves on |
| verification commands (`execution/commands.py`) | none; their results are stored by the coordinator | run with a timeout | run outside any transaction in a worktree that another worker may be changing |
| inbox (`orchestrator.py`, `execution/coordinator.py`) | `inbox_events`, the notices of refused commands | record, refuse, apply, answer a repetition | deliveries that come repeatedly, late, out of order, from several people |
| schema and migrations (`database.py`) | the schema, `schema_migrations`, the write lock | switch to WAL, apply a version, validate, record it | two processes that start at once, and die; databases that an earlier release left incomplete |
| execution plan (`artifacts/execution_plan.py`) | the tasks not yet taken away | normalise, refuse cycles | dependencies in every shape |
| worker process (`worker.py`) | where it is in its loop | start, take a job, take a turn of the outbox, stop | an exception ends it; it is killed with a child at work |
| commands, webhook parsing, routing (`commands.py`, `plane.py`, `agents/routing.py`) | none | parse, look up | pure functions |
| Pi runner (`agents/pi.py`) | a child process, its output, what has been heard | start, prompt, read records, time out, terminate, parse | a child that says anything, hangs, exits, ignores its input or leaves tools behind, and a deadline that races it |
| review surface, web API, wiring, fakes | none of their own | read, forward | HTTP and start-up code |

How they interact. A webhook or the review surface opens one `BEGIN IMMEDIATE`
transaction in which the orchestrator (or, for an implementation, the
coordinator) changes the workflow's rows and inserts the job and the outbox
messages that follow. A worker claims a job in a transaction of its own, reads
what it needs, works for as long as it takes outside any transaction, and
records the outcome in further ones, each guarded by some comparison with what
it read. Then it claims and delivers one outbox message. The approval of the
plan inserts the job with which the execution begins; that is the only link
from the artifact workflow to the execution, besides the feature's `version`,
which both use as an optimistic lock.

What makes each component correct:

- *Workflow*: artifacts are approved in order, none skipped; every revision but
  the last was reviewed and sent back; what is reviewed does not change; a
  decision is never taken back.
- *Job queue*: however many attempts, one result is applied; an overtaken
  attempt closes nothing of its successor's; no work is stranded.
- *Outbox*: sent means delivered, nothing is repeated whose delivery was not in
  doubt, sent is final, everything is sent in the end, Plane ends at the current
  stage.
- *Execution*: rows of features, executions, revisions and jobs tell one story;
  never two unfinished operations; nothing stuck without a retry on offer; what
  is reviewed was checked and is what was pushed.
- *Inbox*: each effect belongs to one event, which named what it changed; a
  repetition does nothing; of competing requests one wins.
- *Worker process*: the ledger of migrations says what the schema is; every
  process gets ready; an answer is the last message of a run of Pi that went
  well; Pi never outlives its run; cycles, and nothing else, are refused; the
  loop goes on.

`PROJECT.json` lists the hazards behind these, each at its line, with the
properties that would catch it going wrong.

## 2. The modules and the code

| module | models | lines |
|---|---|---|
| `FeatureLifecycle` | abstract: one gate per feature and who may move it | |
| `ArtifactReview` | workflow, job queue, workers, store | `orchestrator.py`, `definitions.py`, `store.py` |
| `ArtifactReviewProofs` | proofs of its safety properties | |
| `ArtifactReviewRefinement` | proof that it implements `FeatureLifecycle` | |
| `Inbox` | deliveries about artifacts, what becomes of them, and `ArtifactReview` behind them | `orchestrator.py` 93-288, 415-479, 802-858, 1763-1803, 1879-1892 |
| `InboxProofs` | proofs of its safety properties | |
| `Outbox` | outbox and its delivery to Plane | `orchestrator.py` 1482-1533, `plane.py` 282-320 |
| `OutboxProofs` | proofs of its safety properties | |
| `ExecutionLifecycle` | abstract: prepare, build, review, retry or give up, finish | |
| `Execution` | coordinator, its jobs and workers, git | `execution/coordinator.py`, `execution/git.py` |
| `ExecutionProofs` | proofs of its safety properties | |
| `ExecutionRefinement` | proof that it implements `ExecutionLifecycle` | |
| `ImplementationInbox` | deliveries about the implementation, and `Execution` behind them | `orchestrator.py` 285-413, `execution/coordinator.py` 72-125, 192-207, 368-376, 452-457, 556-578 |
| `ImplementationInboxProofs` | proofs of its safety properties, and that it implements `Execution` | |
| `Startup` | processes that start on one database | `database.py` 511-644, 687-739 |
| `PiRunner` | one request to Pi | `agents/pi.py` 125-392, 430-551 |
| `ExecutionPlan` | the examination of a plan | `artifacts/execution_plan.py` 15-84 |
| `WorkerProcess` | the loop of the worker, over the three before | `worker.py`, `container.py`, `orchestrator.py` 1094-1173, 1510-1534 |
| `WorkerProcessProofs` | proofs of its safety properties | |
| `MC*` | model values, symmetry and constraints for TLC | |

Conventions. A transaction is one action, since SQLite runs them one after the
other; an agent, a command, a delivery or a git call between two transactions is
an action of its own, so that anything may happen between. The reads with
which an attempt begins are several statements without a transaction
(`Database.read` opens none) and yet one action: each compares the rows with what
the job expects, and a version, status or lease that has gone past that does not
come back, so that whoever passes all comparisons would also have passed them at
the moment of the first. A worker process is
an element of `Workers`; what it remembers between two steps (`claim`, `hand`)
is lost when it dies, the rows it changed are not. Time is abstracted: a lease
is `live` until `LeaseExpires`, which may come at any moment, because nothing
in the code bounds the work done under it. Identifiers of rows are what makes
them unique in the code (artifact and number, job kind and revision); an
idempotency key is the row itself, and `INSERT OR IGNORE` is a union or a test
that the row is new.

### ArtifactReview

`rev[<<t, n>>]` joins revision *n* of artifact *t* with its review, its feedback
and the job that writes it; `job`, `run` (one per attempt) and `disk` (the
finalised directory) are indexed the same way. Content is named by its origin:
0 for a person's text, *a* for what attempt *a* returned. Actions and code:
`IngestFeature`, `Approve`, `RequestChanges`, `AddressWithAgent` and
`SubmitManualRevision` are the methods of the same names; `Claim` is
`claim_next_job`; `LoadContext`, `CancelStaleJob`, `StartRun`, `AgentEnds`,
`Apply`, `Supersede`, `FailJob` are the transactions of `execute_claimed_job` in
order. `ManualRevisionRolledBack`, `ApplyRolledBack` and `ApplyFindsDirectory`
are the store's side effect: a directory that stays although the transaction
around it rolled back, and the refusal when it is met again. `Crash` loses the
claim. Feedback items of one revision share one status (they are written and
resolved together). The notices are a set of keys.

### Inbox

Extends `ArtifactReview` and composes with it: `Receive` is the transaction of a
delivery, in which `OutcomeOf` decides by the code's conditions in their order,
and an applied request takes one of the actions of the workflow (`Effect`).
`inbox` holds the row of each delivery, `notices` the deliveries answered by a
`COMMAND_REJECTED` message, `decider` the `source_event_id` of each review. What
a delivery asks is free: any revision by any number, from a reviewer or not, with
usable feedback or not, so that a command may be early or late by any amount; it
is the same whenever the delivery is repeated. `Machine` is everything the
workers do meanwhile, and `Interrupted` an edit whose transaction is lost behind
its directory. The manual edit of the fake task manager, which
leaves the artifact to the feature's stage, is left out.

### ImplementationInbox

The same for `Execution`: comments and decisions of the review surface about an
implementation revision (`submit_implementation_review`, `handle_review_command`)
and retries and abandonments (`submit_execution_recovery`). `OutcomeOf` follows
the order of the code: who asks, whether there is such a revision or execution,
whether it is the current one, whether there is feedback, and only then its
state. A recovery names the execution and nothing else, so the model lets it
come at any time after it was written. `decider` is the `source_event_id` of the
review; for retries and abandonments, whose rows do not name their event,
`OneRecoveryPerFailure` counts them against the notices.

### Outbox

Messages are numbered in the order of creation. A message projects a stage
(effective only if `stage_state_ids` binds it), posts a comment, or asks nothing
of Plane. `Claim` takes the oldest due row; `Deliver` and `DeliverRaises` are
`TaskManager.deliver` with Plane's answer or without it (Plane may have executed
the request either way); `MarkSent` and `MarkFailed` update `WHERE id = ? AND
status = 'SENDING'`, which is not a comparison of owners, so `Recorded` is not
one either. Plane is external and modelled by what the adapter asks: a PATCH
sets the state, a POST with a known external id is answered 409 or makes a second
comment. Which of the two is left open, since "API uniqueness is not assumed"
(`ARCHITECTURE_PROPOSAL.md:555`) and the adapter does not search first. So a
repetition may be seen, and what the protocol has to answer for is when it
repeats: `doubtful` is the history of the messages whose delivery was interrupted
(no answer came, the sender died, another process claimed the message while one
had it in hand).

### Execution

One execution, as the plan's approval begins it. A commit is named by its
content: 0 is the base, *n* the *n*-th change anybody made in the worktree. `exec`, `rev`, `job`,
`evidence` and `outbox` are rows; `tree` is git: whether the worktree exists,
its files, the heads of the local and the remote branch, and (history) the
commit on the default branch the branch was created from. Actions follow the
coordinator's five `_prepare`, `_run_coder`, `_verify`, `_close` and
`_cleanup_abandoned` in the order of their transactions and external calls:

- prepare: `OpenExecution`, `PrepareWorktree`, `RecordWorktree`, `Bootstrap`, `OpenFirstRevision`
- run: `Load`, `AgentEdits`*, `AgentReturns`, `QueueVerification`
- verify: `Load`, `RunChecks`, `CommitAndPush` or `PushFails`, `PublishReview` or `PublishRaises`
- close: `Load`, `CompareRemote`, `RemoveWorktree`, `CloseExecution`
- clean up: `Load`, `ForceRemove`, `RecordCleanup`

and `CancelStaleJob`, `GiveUp` (`_job_is_current` is false), `OperationFails`
and `Fail` (`_fail`) where the code has them. People `Approve`,
`RequestChanges`, `AddressWithAgent`, `Retry` and `Abandon`. Three actions are
the surroundings: `UpstreamMoves`; `ArtifactAttemptFails`, the late failure of
an artifact attempt that was overtaken before the handoff and now adds one to
the feature's version; and `LeftoverWrites`, a process that outlives the attempt
it was started for and goes on in the worktree: a Pi whose worker was killed
(`start_new_session`, `agents/pi.py:154`), a tool whose Pi has left
(`agents/pi.py:526`), a child of a command that was stopped at its timeout. It may
come at any time once an agent has been started, as nothing ends it.

Whoever changes the worktree does so by `Write`: the agent (`AgentEdits`), the
bootstrap command and the checks (`MayWrite`: they run in the worktree, and `git
add --all` commits whatever they leave there, `execution/git.py:119`), and the
leftovers. Three histories tell what became of it: `verified`, the contents that
checks left behind when all had passed; `intruded`, those written by somebody who
held no job any more, an overtaken attempt or a leftover; `belated`, the revisions
whose evidence an overtaken attempt stored.

Abstractions: the checks are one step with one outcome, so that what the first of
them saw and what the last of them left are not told apart; evidence of the
bootstrap, logs, diffs and provenance are data nothing here distinguishes; a git
command that a worker had started ends with it, or before it. With one worker its
processes are serial; several worker processes, which the deployment allows, are
what makes attempts overlap.

### WorkerProcess

Four parts that one process joins, each with its own variables and its own
properties. What jobs and messages mean is left to the modules above; here a job
is a request to Pi that ends one way or another.

- `Startup`. `file` is what is committed (what the scripts have made of the
  schema, the rows of `schema_migrations`, whether a row violates a foreign key),
  `draft` what the open transaction has made of it, `lock` who holds SQLite's
  write lock, `at[p]` how far process *p* is. `Launch` and `EnableWal` are
  `initialize` up to its loop; each round of the loop is `Migrate` (`BEGIN
  IMMEDIATE` and the script) followed by `RecordVersion`, or `ScriptRaises` or
  `ValidationRaises`. Scripts are abstracted to three sets of versions:
  `Additive` (6 and 7, `_ensure_columns`), `Fragile` (a script that fails where
  it has run already), `Shaped` (tables and columns are looked for). `Databases`
  are the files a start may meet, those included that an earlier release has left
  with a record and no columns, or with tables and no record.
- `PiRunner`. `phase` follows `run`: `writing` the prompt, `reading` until
  settled, then `_stop_process` (`polling`, `terminating`), `joining` the pumps,
  `ended`. A record is one line of JSON by what the runner tells apart. `heard` is
  `prompt_accepted`, `final_message` and `final_retry_error`; `said` is the same
  story as Pi tells it, by which the outcome is judged. Pi is external: it writes
  any record in any order, exits with any code, may be deaf to its input, and for
  an implementation may start a tool that holds the pipes open. Its exit has two
  steps, since its files close before `poll()` knows of it.
- `ExecutionPlan`. `Propose` is the first pass over the tasks, each `TakeAway` a
  round of `_assert_acyclic`.
- `WorkerProcess`. `loop` says where `main` is. `JobFails` and `EndsByException`
  are the exception that `run_one_job` raises through `main`: the process ends
  before its turn at the outbox and has to be started again. `Killed` may come at
  any step and leaves Pi behind (`start_new_session`), which `orphans` counts.

## 3. Runs

`tlc -config X.cfg M`. Deadlock is off everywhere, for the same reason: a
feature that was handed over, an execution that is over and an outbox that is
empty have nothing left to do (and the attempts are bounded), and a worker that
was asked to stop is not started again.

| run | instance | shows |
|---|---|---|
| `review_serial` | 1 worker, 2 revisions of each of 3 artifacts, 2 attempts, fair | no work in progress is stranded, failure notices are true, a revision points at the run that wrote it; the abstract lifecycle with its liveness is implemented |
| `review_overlap` | 2 workers, 2 revisions, 3 attempts, up to the second artifact | order of approvals, one winner, immutable revisions, history, content, jobs closed by their holders; safety refinement |
| `inbox` | 5 deliveries of 11 requests, 1 worker, 2 attempts, up to the second artifact | every effect belongs to exactly one event that named what it changed, refusals are told |
| `outbox` | 2 workers, 2 crashes, 2 messages, fair | a second comment only after an interrupted delivery, sent is delivered and final; every message is sent unless the two overtake each other for ever; Plane then shows the current stage, if one process has sent everything and none has died |
| `execution_serial` | 1 worker, 2 revisions, 2 attempts, 1 change of the worktree, fair | reviewed content is on the remote; an abandoned worktree is gone; decisions are carried out or fail visibly; the abstract lifecycle with its liveness is implemented |
| `execution_overlap` | 2 workers, same bounds but 2 changes of the worktree, a default branch that moves, one stray failure, no cleanup at the end | the rows tell one story, nothing is stranded, history is final; the reviewer sees what checks left behind, unless somebody without the job wrote it; safety refinement |
| `implementation_inbox` | 4 deliveries of 8 requests, 1 worker, 2 revisions, 2 attempts | every review, further revision and abandonment belongs to exactly one event; one recovery per failure |
| `worker_process` | worker and web process, 2 migrations, 14 databases, 4 records of 6 kinds, plans of 3 tasks with every graph, 1 kill or lock timeout, fair | the schema is what the ledger says and every process gets ready; cycles and only they are refused; the outcome agrees with what Pi has said; Pi does not outlive its run; the loop goes on |
| four violation runs | | [section 5](#5-disagreements-between-code-and-documents) |

Why the bounds are enough. Two revisions make a parent, a child and the
feedback between them; three artifacts are only needed for their order and
differ in nothing else, so the overlap runs stop at the second. Two attempts
make an overtaken attempt and its successor, and three (in `review_overlap`)
one in the middle. Two workers make every pairwise interleaving; a third can
only act on a job two others already lost. Five deliveries make a whole round of
review (start, request changes, address or edit, approve) with one to spare that
repeats, competes or comes too late; four about the implementation make a
failure with two competing answers, or a round of review, and one more. Two
migrations are one of tables, which fails where it has run already, and one of columns, which may be
repeated; the other five add a predecessor or a successor to these. Four records make an
accepted prompt, a message that does not count, one that does, and the end; one
record ahead of the reader makes Pi end, and be waited for, before what it wrote
is read, and the proofs have no bound on either. Records that end a run at once
in one way (`rejected`, `noise`, `error`) differ in the reported kind only and
are left to the proofs. Three tasks have every shape of cycle that the rounds can meet: alone, behind
a task that can be taken away, and before one that waits for it. Two changes of the
worktree are one that was checked and one that was not, and `ReviewedWasChecked`
needs both; one is enough for a revision with a commit of its own (or a removal
that finds uncommitted files) beside one without, which is what the other two
runs of `Execution` tell apart. A process may die at any step as long as its job can still
be claimed again (`attempt < MaxAttempts`), since behind that bound the model
has no successor to offer. `FewTroubles` limits how many troubles one behaviour of
`execution_overlap` and `implementation_inbox` meets, not where: at most two of
jobs claimed more than once, a move of the default branch, a stray failure, a
content written by somebody without the job and a change of the worktree after
the first. `execution_serial` has no such limit; its `VIEW NoHistory` takes states
for equal that differ in `verified`, `intruded` and `belated` only, which no step
and no property of that run reads.

Fairness. `FairSpec` assumes that leases run out (time passes), that workers
poll and are restarted (`while running` in `worker.py`; a supervisor restarts
the process), and that agents and commands end (`agents/pi.py` and
`execution/commands.py` kill them at a timeout). `execution/git.py` gives git no
timeout: that a fetch or a push ends is an assumption about the surroundings, and
without it `DecisionsEnd` and `ImplementsLifecycle` are only promised of
executions whose git commands return. The outbox adds strong fairness
of `Deliver`: an outage of Plane is temporary. `EverySent` has the condition
`<>[]~Contended`: since the outcome of a delivery is recorded without comparing
owners, two workers that overtake each other for ever can each put back what the
other has just delivered, and fairness does not rule that out. Nothing is assumed
of people, nor that a worker ever dies or stays alive.

`WorkerFairness` assumes that a process that has ended is started again, that
one that polls for a lock which is free most of the time gets it (SQLite's busy
handler, hence strong fairness of `Migrate` alone), that the deadline of a run
passes, that the kernel lets an ended Pi be waited for, and that the worker goes
on. It assumes nothing of Pi: not that it reads, answers, exits or heeds SIGTERM,
nor that its tools end. So `WorkerGoesOn` is about the runner, whose deadline,
kill and joins are all that ends a run; the conditions it has are that jobs do
not fail for ever (each failure ends the process before its turn at the outbox)
and that the runner is not `Blocked` (section 5).

The liveness refinements use `WF(Open \/ Publish \/ Fail)` and its counterpart
in the abstract specifications: work that the machine has begun ends in a review
or in a failure that a person sees.

## 4. Proofs

| theorem | states |
|---|---|
| `ArtifactReviewProofs!TypeCorrect` | `Spec => []TypeOK` |
| `...!Inductive` | `Spec => []Inv` |
| `...!ChainTheorem`, `HistoryTheorem`, `ContentTheorem`, `WinnerTheorem`, `ClaimsTheorem` | the safety invariants of `review_overlap` |
| `...!ImmutabilityTheorem` | `Spec => ImmutableRevisions` |
| `...!HolderTheorem` | `ClosedByHolder`, for workers with distinct ids |
| `...!OneWorkerStrandsNothing`, `OneWorkerFailsTruthfully`, `OneWorkerNamesTheRun` | `NoStrandedWork`, `FailureNoticeTruthful`, `Provenance`, for one worker |
| `ArtifactReviewRefinement!RefinementTheorem` | `Spec => FollowsLifecycle` |
| `InboxProofs!WorkflowTheorem`, `InboxTypeTheorem`, `NoticeTheorem`, `EffectsTheorem` | `InboxSpec => FollowsWorkflow`, `InboxTypeOK`, `RefusalsAreTold`, `EffectsMatchEvents` |
| `OutboxProofs!TypeTheorem`, `DeliveryTheorem`, `FinalTheorem` | `TypeOK`, `SentWasDelivered`, `SentIsFinal` |
| `OutboxProofs!RepetitionTheorem` | `Spec => []RepeatedInDoubt`, whatever Plane does with a comment it has already |
| `OutboxProofs!ProjectionTheorem` | `Spec => []PlaneFollowsTheLiving` |
| `ExecutionProofs!TypeCorrect` | `Spec => []TypeOK` |
| `...!OneOperationAtATime`, `OneStory`, `HistoryIsRight`, `WorktreeStays`, `NoticesAreTrue` | `OneOperation`, `StageMatchesRevision`, `RevisionHistory`, `WorktreeKept`, `NoticesTruthful` |
| `...!HistoryStays` | `Spec => HistoryIsFinal` |
| `...!NeverStuck` | `Spec => []NeverStranded` |
| `...!ReviewsAreTraced` | `Spec => []ReviewedWasChecked` |
| `...!OneWorkerPushesWhatIsReviewed`, `OneWorkerCleansUp` | `RemoteIsReviewed`, `CleanedUp`, for one worker |
| `ExecutionRefinement!FollowsTheLifecycle` | `Spec => FollowsLifecycle` |
| `ImplementationInboxProofs!ExecutionTheorem` | `InboxSpec => Spec` of `Execution` |
| `...!InboxTypeTheorem`, `EffectsTheorem`, `RecoveryTheorem` | `InboxTypeOK`, `EffectsMatchEvents`, `OneRecoveryPerFailure` |
| `WorkerProcessProofs!PlanTheorem` | `WorkerSpec => []VerdictIsRight` |
| `...!SchemaTheorem` | `WorkerSpec => []SchemaIsTrue` |
| `...!OutcomeTheorem` | `WorkerSpec => []OutcomeIsTrue` |
| `...!AgentTheorem` | `WorkerSpec => []OneAgent` |

They hold for any set of workers, any bounds and any assignment of worker ids,
from the assumptions the modules state (bounds are naturals, no worker id is
NULL); those of `WorkerProcessProofs` for any number of processes, any list of
migrations whose first is not additive, whatever Pi may say, and plans of any
length.

The argument for the artifact workflow. None of its invariants is inductive
alone. `OneWinner` needs to know that an attempt that passes the fence has a run
that is still RUNNING and a revision still without content; that needs
`ClaimsMatchRuns` (a claim in memory has an attempt of its own, and its run is
recorded exactly from start to outcome), `RowsMatch` (a running job has an owner)
and `PublishedContent` (a revision has content iff it was published).
`PublishedContent` in turn needs that an attempt never finds a finalised
directory it did not make itself, which holds because the store refuses one.
`RevisionHistory` and `ApprovalChain` place the current revision of each artifact
among the others, which is what lets a decision about it leave the rest alone.
`Inv` is the conjunction of these with `TypeOK`; there is one lemma per action,
and the theorems are its conjuncts. `ImmutableRevisions` and `ClosedByHolder` are
action properties proved from `Inv` in the state before the step. The refinement
maps each step to a step of the lifecycle or to a stutter; the lemma
`GateOfRow` says that the gate depends on nothing but the stage and the status
of its current revision, so that most of the worker's steps stutter.

`WorkflowTheorem` says that `InboxSpec` implements the specification of the
workflow, so that every theorem about the latter holds behind the inbox;
`EffectsTheorem` rests on that (`Behind`): that the current revision of an
artifact has no successor yet, that a revision not yet begun has no review, and
that a new stage begins with a new artifact are parts of `Inv` of the workflow.

For the outbox, `Inv` adds to the type invariant that a worker past its delivery
holds a message whose request has been executed and that a message not yet
created has no row. `Undisturbed` is about the messages that are not in doubt
(`Sure`): at most one process has such a message in hand, it has left a comment
only if that process has come back from its delivery or the message is sent, and
it can be claimed only where nobody holds it. So it is delivered once, and only an
interruption ends that.

For the execution, the five invariants are proved together, since a decision of
a person relies on all of them at once: that the revision under review is the
current one, that no operation is unfinished, and that the phase of the execution
says which operation comes next. `Inv` adds what each of them needs to survive a
transaction of an attempt that may have been overtaken. `JobsMatch` relates the
jobs to the rest (a running job has an owner and no other has; while the
execution has failed no job is active; a job exists only for a revision and a
decision it can belong to). `ClaimsMatch` says which claims reach which phase,
and, as long as the job is still the claim's own, what the phase has made sure
of; an overtaken claim keeps nothing of the latter, and `JobIsCurrent`, which is
`_job_is_current` of the code, is what tells the two apart. `WorktreeSafe` adds to
`WorktreeKept` the worktree of a preparation that is being tried again. The
lemmas `Waiting` and `Holding` turn this into the form the actions use: an unfinished job is the only
one, and tells where the execution is. `JobsFollow`, `ClaimsStay` and
`NoticesKept` carry the parts that a transaction does not touch across it, and
there is one lemma per transaction. The refinement maps the row of the execution
and its current revision to the state of the lifecycle; the steps outside a
transaction stutter.

`NeverStranded` follows from `Inv` and `Going`, which says of every job where the
feature's version must be for it to be accepted: an unsettled job expects the feature as
it is (`UpToDate`), as long as no overtaken artifact attempt has moved it
(`stray = 0`); a claim that is found stale has been overtaken, so that it is
never the last hope of an operation (`StaleIsOvertaken`); and whatever the
execution waits for has a job (`Pursued`). `FindsItsWorld` then says that such a
job is ready.

`ReviewsAreTraced` follows from `Inv` and `Traced`: a claim that is past its
checks and still holds the job has passed on the evidence, and the content of the
worktree is then `Known` (checks left it there, or somebody without the job wrote
it); so is that of its commit. While the claim holds the job no other one does
(`OwnClaimOnly`), and whoever else writes has no job (`OthersWrite`), so that what
is committed cannot be anything else, whatever dies, is overtaken or left behind.

One worker. Three properties of the artifact workflow and two of the execution
need that no lease runs out under a process that still works on the job. With
two processes the second takes the job over and the first, which nobody stops,
goes on: in the same worktree, or until it fails what is not its own any more
(`review_stale_failure`). Their theorems have the hypothesis `OneWorker`:
`Workers` has at most one element, which is the deployment of
`docs/architecture-overview.svg` ("one app + one worker"), provided that nobody
drains the queue through the web process too. Nothing else is assumed: leases do
run out, and the process dies at any point, forgets what it did and begins
again; what it had started may go on in the worktree (`LeftoverWrites`). The
invariants are called `Serial`. In both, a claim in memory is the
latest one of its job and the job is running (nobody else could have taken it
over, and a process that died has no claim), so a transaction that compares the
owner always finds itself. For the artifacts it follows that the jobs to be
executed are exactly those of the revisions in progress, of which there is at
most one, and that each finds the feature it was queued for (`JobsServe`). For
the execution `Progress` says what a claim has reached in the world outside the
database: the remote branch is at the commit, the worktree is gone. A crash loses the claim and leaves those
effects, and the next attempt starts them over; that it does so from the
beginning, and that no step of it relies on something learnt by the one before
(`NothingLearnt`), is what the proof goes through case by case.

`ProjectionTheorem` is about one sender by the property's own premise. Its
invariant `OneSender` says that then at most one message is being sent, that a
message is sent and Plane asked only when all messages before it are sent
(`InOrder`), and that Plane is in the state it was asked for last. After a crash
of the sender, or with a second one, `InOrder` is lost, as `outbox_regress`
shows.

Behind the inbox of the implementation `ExecutionTheorem` gives every theorem
about `Execution`. `InboxInv` adds that a revision and its review agree on what
was decided (`ReviewsAgree`); the lemma `MachineLeaves` says that no step of a
worker touches what people decide (decisions, the number of revisions,
abandonment, notices of retries), so that only the deliveries have to be
counted. `OneRecoveryPerFailure` counts events on one side and notices on the
other, which no invariant about single rows does. `RecoveryInv` therefore says
that the retries applied are as many as the notices of a retry
(`RetriesCounted`), that a notice of a retry is of an attempt that is still the
latest or earlier (`RetriesFresh`), and that a failed or abandoned execution has
a failure that was not tried again (`FailuresLast`). Each retry answers the
failure of the attempt before it, of the same job; this is an injection from
the notices of retries into those of failures, and an abandonment takes a
failure outside its range.

For the worker process each part has its own invariant, and each step of the
process is for each part a step of that part, one that forgets it, or none.
`PlanInv`: a knot (tasks of which each waits for another of them) is never taken
away, so nothing is left only where there was none, and what is left when no task
is ready is a knot. `SchemaInv`: a process that waits for version *v* has seen all
versions before it done, which the transaction of another process cannot undo,
and the draft of the one that holds the lock is the file with that version made.
`PiInv`: what the runner has heard, told on by the records still in the pipe, is
what Pi has said (`Telling`), and a story that has settled goes no further; so
when the runner meets the settling record, however far behind, it has heard all
that counts. `AgentInv` adds that outside a job there is no run, and that a run
that has ended has no Pi at work.

Model-checked only: everything temporal beyond safety (`EverySent`, `DecisionsEnd`,
`EachStarts`, `WorkerGoesOn`, and the fairness that `ImplementsLifecycle` adds to
`FollowsLifecycle`, twice), because liveness under fairness and ENABLED are beyond
the prover. Every safety property of a passing run, invariant or action property,
is stated by a theorem. That a knot is a cycle in the usual
sense (a task that precedes itself in the transitive closure) is an assumption
that TLC evaluates for all graphs of three tasks (`KnotsAreCycles`).

## 5. Disagreements between code and documents

Each is a run that TLC must find violated.

| run | the document says | the code does |
|---|---|---|
| `review_stale_failure` | `ARCHITECTURE_PROPOSAL.md:548` feature rows use optimistic version checks | an overtaken attempt that fails adds one to the version, unchecked, and so invalidates its successor's result |
| `review_crash_retry` | `ARCHITECTURE_PROPOSAL.md:564` the next worker reconciles and continues | a directory left by a worker that died before its commit makes the next worker's valid result fail |
| `outbox_regress` | `README.md:53` Plane is a projection of Enzo's state | an older stage update whose sender died is delivered after the newer one and stays |
| `execution_base` | `README.md:33` record the base, create the branch | a second attempt to prepare records the newer base for the older branch |

`PlaneFollows` holds while one process sends everything and does not die (`ProjectionTheorem`).

More disagreements are assumptions of properties instead of runs.
`ARCHITECTURE_PROPOSAL.md:323` makes the commit "on pass". The code commits what it
finds in the worktree after the checks, and nothing compares that with what they
saw: what a check itself writes is committed although the checks before it never
saw it (`execution/git.py:119`); and an agent that was overtaken, or a Pi that
outlived its worker and the lease of 60 seconds, may write in between, the latter
even with one worker. `ReviewedWasChecked` is what remains:
it names these writes, and the evidence that an overtaken verification stores
late, as all that can come between.
`ARCHITECTURE_PROPOSAL.md:308` answers stale-revision decisions with a helpful
Plane comment; `execution/coordinator.py:92` inserts none for those about an
implementation, and `RefusalsAreTold` is about artifacts. The
adapter posts a comment and relies on a 409 to recognise a repetition, where
`ARCHITECTURE_PROPOSAL.md:555` has it search first and assumes no uniqueness.
The model does not assume it either, so a message may leave two comments, and
`RepeatedInDoubt` says when. A failed message is
due again at once and is the oldest, where `ARCHITECTURE_PROPOSAL.md:563` asks
for backoff: with a message in `Refused`, `EverySent` fails for all the others.
`ARCHITECTURE_PROPOSAL.md:415` promises timeout and process-group cleanup for Pi. The
prompt is written before the deadline counts, so a Pi that does not read it stops
the worker without a deadline (`Blocked`, excluded by `WorkerGoesOn`); and
`_stop_process` returns early when Pi has left by itself, so that a tool of its
group lives on (`tool` may stay true after `ended`; no property says otherwise).

Also met, and stated as the conditions of properties: `CleanedUp` needs one
worker and a worktree whose path was recorded (what an overtaken preparation
creates anew, or one that dies before it has recorded the path, stays behind, and
no property says otherwise); `NeverStranded` excludes the stray
version bump of `review_stale_failure`, after which a verification raises and its
retry is dropped; a closing job cannot succeed without `auto_push`, which is
why every run pushes.

## 6. What is not modelled

- Webhook parsing, commands, review selection and routing: functions of one
  input without state. What they return is what the inboxes are given.
- `review_surface.py`, `web.py`, `review_ui/`: reads, and HTTP around the
  operations modelled here. `container.py`, `config.py`, `fakes.py`: start-up
  code and test doubles; the options that matter are constants.
- Digests, prompts, file contents, wording of notices: data no property tells
  apart. `InputsIntact` stands for the comparison of digests.
- Authorisation of reviewers: one membership test before every command (`allowed`
  in the requests of both inboxes).
- The staging directory of the artifact store, the cache of clones and the lock
  file of the git manager.
- The scripts of the migrations: a version is made or not. The copying of rows
  that 2, 3 and 5 do is data.
- The turn of the outbox may itself fail when the database is locked for longer
  than the busy timeout; `OutboxTurn` leaves that out, as a kill at that point
  does the same.
- In the same way an error of the database in the first statement of an operation.
  When `PREPARE_IMPLEMENTATION` fails before it has inserted the row of its
  execution, the job is marked failed and there is no execution to retry it on.

## 7. Plan

Order of work, the most important behaviour first.

1. `FeatureLifecycle`, `ArtifactReview` with proofs and refinement: done.
2. `Outbox` with proofs: done.
3. `ExecutionLifecycle`, `Execution` with proofs and refinement: done.
4. `Inbox` and `ImplementationInbox` with proofs: done.
5. `Startup`, `PiRunner`, `ExecutionPlan` and `WorkerProcess`, which composes them,
   with proofs: done.
6. The properties for one worker, with proofs: done.
7. `Composition` of `ArtifactReview` and `Execution` over one `version`, which
   `ArtifactAttemptFails` stands for now.
