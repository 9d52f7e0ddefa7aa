---------------------------- MODULE ExecutionProofs ----------------------------
(* Theorems about Execution, for any workers, options and bounds.          *)
EXTENDS Execution, TLAPS

\* A job is the pair of its kind and the revision it works for.
LEMMA JobShape ==
    /\ {Prepare, Cleanup} \subseteq Job
    /\ \A r \in Revision : {Run(r), Verify(r), Close(r)} \subseteq Job
    /\ \A j \in Job : /\ j = <<j[1], j[2]>>
                      /\ j[1] \in {"PREPARE", "RUN", "VERIFY", "CLOSE", "CLEANUP"}
                      /\ j[2] \in Revision
                      /\ j[1] = "PREPARE" <=> j = Prepare
                      /\ j[1] = "CLEANUP" <=> j = Cleanup
                      /\ j[1] = "RUN" <=> j = Run(j[2])
                      /\ j[1] = "VERIFY" <=> j = Verify(j[2])
                      /\ j[1] = "CLOSE" <=> j = Close(j[2])
    /\ 1 \in Revision
  BY BoundsAssumption DEF Job, Prepare, Cleanup, Run, Verify, Close, Revision

\* What the invariants need of it.
LEMMA JobParts ==
    ASSUME NEW j \in Job
    PROVE  /\ j[1] \in {"PREPARE", "RUN", "VERIFY", "CLOSE", "CLEANUP"}
           /\ j[2] \in Revision /\ j[2] \in Nat /\ j[2] # 0
           /\ j[1] \in {"PREPARE", "CLEANUP"} => j[2] = 1
<1>1. /\ j[1] \in {"PREPARE", "RUN", "VERIFY", "CLOSE", "CLEANUP"} /\ j[2] \in Revision
      /\ j[1] \in {"PREPARE", "CLEANUP"} => j[2] = 1
  BY JobShape DEF Prepare, Cleanup
<1> QED
  BY <1>1 DEF Revision

LEMMA JobNames ==
    ASSUME NEW r \in Revision
    PROVE  /\ Run(r) \in Job /\ Run(r)[1] = "RUN" /\ Run(r)[2] = r
           /\ Verify(r) \in Job /\ Verify(r)[1] = "VERIFY" /\ Verify(r)[2] = r
           /\ Close(r) \in Job /\ Close(r)[1] = "CLOSE" /\ Close(r)[2] = r
<1>1. {Run(r), Verify(r), Close(r)} \subseteq Job
  BY JobShape
<1> QED
  BY <1>1 DEF Run, Verify, Close

\* The fresh rows are well typed.
LEMMA FreshRows ==
    /\ NoRevision \in RevisionRow
    /\ NoJob \in JobRow
    /\ Idle \in ClaimedJob
<1>1. NoRevision \in RevisionRow
  BY DEF NoRevision, RevisionRow, RevisionStatus, Commit, NoCommit
<1>2. NoJob \in JobRow
  BY BoundsAssumption DEF NoJob, JobRow, JobStatus
<1>3. Idle \in ClaimedJob
  BY JobShape, BoundsAssumption DEF Idle, ClaimedJob, Phase, Base, NoBase, Commit, NoCommit
<1> QED
  BY <1>1, <1>2, <1>3

\* Queueing a job writes its row, if there is none yet, and no other.
LEMMA QueuedRows ==
    ASSUME NEW jobs \in [Job -> JobRow], NEW j \in Job, NEW e \in Nat
    PROVE  /\ Queued(jobs, j, e) \in [Job -> JobRow]
           /\ \A i \in Job : i # j => Queued(jobs, j, e)[i] = jobs[i]
           /\ jobs[j].status # "NONE" => Queued(jobs, j, e)[j] = jobs[j]
           /\ jobs[j].status = "NONE" =>
                  LET row == Queued(jobs, j, e)[j] IN
                  /\ row.status = "PENDING" /\ row.attempts = 0 /\ row.owner = NoOwner
                  /\ row.expects = e
<1> DEFINE row == [NoJob EXCEPT !.status = "PENDING", !.expects = e]
<1>1. /\ row \in JobRow
      /\ row.status = "PENDING" /\ row.attempts = 0 /\ row.owner = NoOwner /\ row.expects = e
  BY FreshRows DEF NoJob, JobRow, JobStatus
<1> HIDE DEF row
<1>2. Queued(jobs, j, e) = IF jobs[j].status = "NONE" THEN [jobs EXCEPT ![j] = row] ELSE jobs
  BY DEF Queued, row
<1> QED
  BY <1>1, <1>2

\* Closing a job changes its row if it is the worker's own, and no other.
LEMMA ClosedRows ==
    ASSUME TypeOK, NEW w \in Workers, NEW s \in JobStatus
    PROVE  /\ JobOf(w) \in Job
           /\ Closed(w, s) \in [Job -> JobRow]
           /\ \A i \in Job : i # JobOf(w) => Closed(w, s)[i] = job[i]
           /\ job[JobOf(w)].owner # w => Closed(w, s) = job
           /\ job[JobOf(w)].owner = w =>
                  LET row == Closed(w, s)[JobOf(w)] IN
                  /\ row.status = s /\ row.owner = NoOwner
                  /\ row.attempts = job[JobOf(w)].attempts
                  /\ row.expects = job[JobOf(w)].expects
<1> DEFINE j == JobOf(w)
           row == [job[j] EXCEPT !.status = s, !.owner = NoOwner, !.live = FALSE]
<1>1. j \in Job
  BY DEF TypeOK, ClaimedJob, JobOf
<1>2. /\ row \in JobRow
      /\ row.status = s /\ row.owner = NoOwner
      /\ row.attempts = job[j].attempts /\ row.expects = job[j].expects
  <2>1. job[j] \in JobRow
    BY <1>1 DEF TypeOK
  <2> QED
    BY <2>1 DEF JobRow
<1>3. Closed(w, s) = IF job[j].owner = w THEN [job EXCEPT ![j] = row] ELSE job
  BY DEF Closed
<1> HIDE DEF row, j
<1>4. job \in [Job -> JobRow]
  BY DEF TypeOK
<1> QED
  BY <1>1, <1>2, <1>3, <1>4 DEF j

\* Every claim has an attempt of its own to make.
ClaimsCount == \A w \in Workers : claim[w].phase # "idle" => claim[w].attempt >= 1

Typed == TypeOK /\ ClaimsCount

\* What a worker learns stays well typed.
LEMMA ClaimTypes ==
    ASSUME Typed, NEW w \in Workers
    PROVE  /\ JobOf(w) \in Job
           /\ Target(w) \in Revision
           /\ claim[w].attempt \in 0..MaxAttempts
           /\ \A p \in Phase : Goes(w, p) /\ claim[w].phase # "idle" =>
                  claim' \in [Workers -> ClaimedJob] /\ ClaimsCount'
           /\ Ends(w) => claim' \in [Workers -> ClaimedJob] /\ ClaimsCount'
<1>1. JobOf(w) \in Job /\ claim[w].attempt \in 0..MaxAttempts
  BY DEF Typed, TypeOK, ClaimedJob, JobOf
<1>2. Target(w) \in Revision
  BY <1>1, JobShape DEF Target, JobOf
<1>3. ASSUME NEW p \in Phase, Goes(w, p), claim[w].phase # "idle"
      PROVE  claim' \in [Workers -> ClaimedJob] /\ ClaimsCount'
  BY <1>3 DEF Goes, Typed, TypeOK, ClaimedJob, ClaimsCount
<1>4. ASSUME Ends(w) PROVE claim' \in [Workers -> ClaimedJob] /\ ClaimsCount'
  <2>1. Idle \in ClaimedJob /\ Idle.phase = "idle"
    BY FreshRows DEF Idle
  <2> QED
    BY <1>4, <2>1 DEF Ends, Typed, TypeOK, ClaimsCount
<1> QED
  BY <1>1, <1>2, <1>3, <1>4

\* Whoever writes changes the files of a worktree that is there, and no commit;
\* who has no job leaves a trace.
LEMMA Written ==
    ASSUME TypeOK, NEW h \in BOOLEAN, Write(h) \/ UNCHANGED <<tree, edits, intruded>>
    PROVE  /\ tree' \in Tree /\ edits' \in 0..MaxEdits /\ intruded' \subseteq Content
           /\ tree'.exists = tree.exists /\ tree'.remote = tree.remote
           /\ intruded \subseteq intruded'
           /\ ~h => tree'.files = tree.files \/ tree'.files \in intruded'
<1>1. tree \in Tree /\ edits \in 0..MaxEdits /\ intruded \subseteq Content
  BY DEF TypeOK
<1>2. CASE Write(h)
  <2>1. edits + 1 \in Content /\ edits + 1 \in 0..MaxEdits
    BY <1>1, <1>2, BoundsAssumption DEF Write, Content
  <2>2. tree' = [tree EXCEPT !.files = edits + 1] /\ edits' = edits + 1
    BY <1>2 DEF Write
  <2>3. intruded' = intruded \cup (IF h THEN {} ELSE {edits + 1})
    BY <1>2 DEF Write
  <2>4. tree' \in Tree /\ tree'.files = edits + 1
    BY <1>1, <2>1, <2>2 DEF Tree
  <2>5. tree'.exists = tree.exists /\ tree'.remote = tree.remote
    BY <1>1, <2>2 DEF Tree
  <2> QED
    BY <1>1, <2>1, <2>2, <2>3, <2>4, <2>5
<1> QED
  BY <1>1, <1>2

\* The decisions of people, and the surroundings.
LEMMA TypeDecisions ==
    ASSUME Typed, Decide \/ UpstreamMoves \/ ArtifactAttemptFails \/ LeftoverWrites
    PROVE  Typed'
<1>0. /\ \A r \in Revision : Run(r) \in Job /\ Verify(r) \in Job /\ Close(r) \in Job
      /\ Cleanup \in Job
  BY JobShape
<1>1. ASSUME NEW r \in Revision, Approve(r) PROVE Typed'
  <2>1. rev' \in [Revision -> RevisionRow]
    BY <1>1 DEF Approve, Typed, TypeOK, RevisionRow, RevisionStatus
  <2>2. job' \in [Job -> JobRow]
    <3>1. version + 1 \in Nat /\ Close(r) \in Job /\ job \in [Job -> JobRow]
      BY <1>0 DEF Typed, TypeOK
    <3>2. job' = Queued(job, Close(r), version + 1)
      BY <1>1 DEF Approve
    <3> QED
      BY <3>1, <3>2, QueuedRows
  <2> QED
    BY <1>1, <2>1, <2>2 DEF Approve, Typed, TypeOK, ClaimsCount, git, history
<1>2. ASSUME NEW r \in Revision, RequestChanges(r) PROVE Typed'
  <2>1. rev' \in [Revision -> RevisionRow]
    <3> DEFINE row == [rev[r] EXCEPT !.status = "CHANGES_REQUESTED",
                                     !.review = "CHANGES_REQUESTED", !.feedback = "OPEN"]
    <3>1. row \in RevisionRow
      BY DEF Typed, TypeOK, RevisionRow, RevisionStatus
    <3>2. rev' = [rev EXCEPT ![r] = row]
      BY <1>2 DEF RequestChanges, Typed, TypeOK
    <3> HIDE DEF row
    <3> QED
      BY <3>1, <3>2 DEF Typed, TypeOK
  <2>2. outbox' \subseteq Notice
    BY <1>2 DEF RequestChanges, Typed, TypeOK, Notice, Stage
  <2> QED
    BY <1>2, <2>1, <2>2 DEF RequestChanges, Typed, TypeOK, ClaimsCount, git, history, Stage
<1>3. ASSUME NEW r \in Revision, AddressWithAgent(r) PROVE Typed'
  <2>1. r + 1 \in Revision /\ r + 1 \in 0..MaxRevision
    BY <1>3, BoundsAssumption DEF AddressWithAgent, Revision
  <2>2. rev' \in [Revision -> RevisionRow]
    BY <1>3, <2>1 DEF AddressWithAgent, Typed, TypeOK, RevisionRow, RevisionStatus
  <2>3. job' \in [Job -> JobRow]
    BY <1>0, <1>3, <2>1, QueuedRows DEF AddressWithAgent, Typed, TypeOK
  <2>4. exec' \in ExecutionRow
    BY <1>3, <2>1 DEF AddressWithAgent, Typed, TypeOK, ExecutionRow, ExecutionStatus
  <2> QED
    BY <1>3, <2>2, <2>3, <2>4 DEF AddressWithAgent, Typed, TypeOK, ClaimsCount, git, history
<1>4. ASSUME NEW j \in Job, Retry(j) PROVE Typed'
  <2>1. exec' \in ExecutionRow
    BY <1>4 DEF Retry, Typed, TypeOK, ExecutionRow, ExecutionStatus
  <2>2. rev' \in [Revision -> RevisionRow]
    <3>1. CASE j[1] \in {"RUN", "VERIFY"}
      <4>1. exec.current \in Revision
        <5>1. exec.current # 0
          BY <1>4, <3>1 DEF Retry, RetryAllowed
        <5>2. exec.current \in 0..MaxRevision
          BY DEF Typed, TypeOK, ExecutionRow
        <5> QED
          BY <5>1, <5>2, BoundsAssumption DEF Revision
      <4> QED
        BY <1>4, <3>1, <4>1 DEF Retry, Typed, TypeOK, RevisionRow, RevisionStatus
    <3>2. CASE j[1] \notin {"RUN", "VERIFY"}
      BY <1>4, <3>2 DEF Retry, Typed, TypeOK
    <3> QED
      BY <3>1, <3>2
  <2>3. job' \in [Job -> JobRow]
    BY <1>4 DEF Retry, Typed, TypeOK, JobRow, JobStatus
  <2>4. outbox' \subseteq Notice
    <3>1. job[j].attempts \in 0..MaxAttempts
      BY DEF Typed, TypeOK, JobRow
    <3>2. job[j].attempts + 1 \in 1..MaxAttempts
      BY <1>4, <3>1, BoundsAssumption DEF Retry
    <3> QED
      BY <1>4, <3>2 DEF Retry, Typed, TypeOK, Notice
  <2> QED
    BY <1>4, <2>1, <2>2, <2>3, <2>4 DEF Retry, Typed, TypeOK, ClaimsCount, git, history
<1>5. ASSUME Abandon PROVE Typed'
  <2> DEFINE Cancelled(row) ==
                 IF row.status \in {"PENDING", "RUNNING", "FAILED"}
                 THEN [row EXCEPT !.status = "CANCELLED", !.owner = NoOwner, !.live = FALSE]
                 ELSE row
             rest == [j \in Job |-> Cancelled(job[j])]
  <2>1. rest \in [Job -> JobRow]
    BY DEF Typed, TypeOK, JobRow, JobStatus
  <2>2. job' = Queued(rest, Cleanup, 0)
    BY <1>5 DEF Abandon
  <2> HIDE DEF rest
  <2>3. job' \in [Job -> JobRow]
    BY <1>0, <2>1, <2>2, QueuedRows
  <2>4. exec' \in ExecutionRow
    BY <1>5 DEF Abandon, Typed, TypeOK, ExecutionRow, ExecutionStatus
  <2> QED
    BY <1>5, <2>3, <2>4 DEF Abandon, Typed, TypeOK, ClaimsCount, git, history, Notice
<1>6. ASSUME UpstreamMoves PROVE Typed'
  BY <1>6, BoundsAssumption DEF UpstreamMoves, Typed, TypeOK, ClaimsCount, database, history
<1>7. ASSUME ArtifactAttemptFails PROVE Typed'
  BY <1>7, BoundsAssumption DEF ArtifactAttemptFails, Typed, TypeOK, ClaimsCount, git
<1>8. ASSUME LeftoverWrites PROVE Typed'
  <2>1. tree' \in Tree /\ edits' \in 0..MaxEdits /\ intruded' \subseteq Content
    BY <1>8, Written DEF LeftoverWrites, Typed
  <2> QED
    BY <1>8, <2>1 DEF LeftoverWrites, Typed, TypeOK, ClaimsCount, database
<1> QED
  BY <1>1, <1>2, <1>3, <1>4, <1>5, <1>6, <1>7, <1>8 DEF Decide

\* A claim stays within the bound on attempts, and a lease that runs out
\* changes nothing else.
LEMMA TypeClaim ==
    ASSUME Typed, NEW j \in Job,
           LeaseExpires(j) \/ \E w \in Workers : Claim(w, j)
    PROVE  Typed'
<1>1. CASE LeaseExpires(j)
  <2>1. job' \in [Job -> JobRow]
    BY <1>1 DEF LeaseExpires, Typed, TypeOK, JobRow
  <2> QED
    BY <1>1, <2>1 DEF LeaseExpires, Typed, TypeOK, ClaimsCount, git, history
<1>2. ASSUME NEW w \in Workers, Claim(w, j) PROVE Typed'
  <2> DEFINE row == [job[j] EXCEPT !.status = "RUNNING", !.owner = w, !.live = TRUE,
                                   !.attempts = job[j].attempts + 1]
             held == [Idle EXCEPT !.phase = "claimed", !.job = j,
                                  !.attempt = job[j].attempts + 1]
  <2>1. job[j].attempts + 1 \in 1..MaxAttempts
    <3>1. job[j].attempts \in 0..MaxAttempts
      BY DEF Typed, TypeOK, JobRow
    <3>2. job[j].attempts < MaxAttempts
      BY <1>2 DEF Claim
    <3> QED
      BY <3>1, <3>2, BoundsAssumption
  <2>2. row \in JobRow
    <3>1. job[j] \in JobRow /\ job[j].attempts + 1 \in 0..MaxAttempts
      BY <2>1, BoundsAssumption DEF Typed, TypeOK
    <3> QED
      BY <3>1 DEF JobRow, JobStatus
  <2>3. held \in ClaimedJob /\ held.attempt >= 1
    <3>1. Idle \in ClaimedJob /\ job[j].attempts + 1 \in 0..MaxAttempts
      BY <2>1, FreshRows, BoundsAssumption
    <3>2. held \in ClaimedJob
      BY <3>1 DEF ClaimedJob, Phase
    <3>3. held.attempt = job[j].attempts + 1
      BY <3>1 DEF ClaimedJob
    <3> QED
      BY <2>1, <3>2, <3>3, BoundsAssumption
  <2>4. job' = [job EXCEPT ![j] = row] /\ claim' = [claim EXCEPT ![w] = held]
    BY <1>2 DEF Claim
  <2> HIDE DEF row, held
  <2>5. job' \in [Job -> JobRow] /\ claim' \in [Workers -> ClaimedJob] /\ ClaimsCount'
    BY <2>2, <2>3, <2>4 DEF Typed, TypeOK, ClaimsCount
  <2> QED
    BY <1>2, <2>5 DEF Claim, Typed, TypeOK, git, history
<1> QED
  BY <1>1, <1>2

\* What a worker does between its transactions.
LEMMA TypeOutside ==
    ASSUME Typed, NEW w \in Workers,
           \/ Load(w) \/ GiveUp(w) \/ OperationFails(w) \/ Crash(w)
           \/ PrepareWorktree(w) \/ Bootstrap(w) \/ AgentEdits(w) \/ AgentReturns(w)
           \/ RunChecks(w) \/ CommitAndPush(w) \/ PushFails(w) \/ PublishRaises(w)
           \/ CompareRemote(w) \/ RemoveWorktree(w) \/ ForceRemove(w)
    PROVE  Typed'
<1>0. {"claimed", "loaded", "stale", "raised", "prepared", "recorded", "bootstrapped",
       "returned", "checked", "pushed", "matched", "removed"} \subseteq Phase
  BY DEF Phase
<1>1. /\ tree \in Tree
      /\ \A f \in Content, b, h \in Commit, e \in BOOLEAN, k \in Base :
             [exists |-> e, files |-> f, branch |-> b, remote |-> h, fork |-> k] \in Tree
  BY DEF Typed, TypeOK, Tree
<1>2. CASE Load(w) \/ GiveUp(w) \/ OperationFails(w) \/ Crash(w)
           \/ AgentReturns(w) \/ PublishRaises(w) \/ CompareRemote(w)
  <2>1. /\ claim' \in [Workers -> ClaimedJob] /\ ClaimsCount'
        /\ UNCHANGED <<database, git, history>>
    <3>1. CASE Load(w)
      BY <1>0, <3>1, ClaimTypes DEF Load
    <3>2. CASE GiveUp(w) \/ Crash(w)
      BY <3>2, ClaimTypes DEF GiveUp, Crash
    <3>3. CASE OperationFails(w) \/ AgentReturns(w) \/ PublishRaises(w)
      BY <1>0, <3>3, ClaimTypes DEF OperationFails, AgentReturns, PublishRaises
    <3>4. CASE CompareRemote(w)
      BY <1>0, <3>4, ClaimTypes DEF CompareRemote
    <3> QED
      BY <1>2, <3>1, <3>2, <3>3, <3>4
  <2> QED
    BY <2>1 DEF Typed, TypeOK, database, git, history
<1>3. CASE PrepareWorktree(w)
  <2>1. upstream \in Base /\ 0 \in Content /\ 0 \in Commit
    BY BoundsAssumption DEF Typed, TypeOK, Base, Content, Commit
  <2>2. tree' \in Tree
    <3>1. tree.branch # NoCommit => tree.branch \in Content
      BY <1>1 DEF Tree, Commit
    <3> QED
      BY <1>1, <1>3, <2>1, <3>1 DEF PrepareWorktree, Tree
  <2>3. claim' \in [Workers -> ClaimedJob] /\ ClaimsCount'
    BY <1>3, <2>1 DEF PrepareWorktree, Typed, TypeOK, ClaimedJob, Phase, ClaimsCount
  <2> QED
    BY <1>3, <2>2, <2>3 DEF PrepareWorktree, Typed, TypeOK, database, history
<1>4. CASE AgentEdits(w) \/ Bootstrap(w) \/ RunChecks(w)
  <2>1. tree' \in Tree /\ edits' \in 0..MaxEdits /\ intruded' \subseteq Content
    BY <1>4, Written DEF AgentEdits, Bootstrap, RunChecks, MayWrite, JobIsCurrent, Typed
  <2>2. CASE AgentEdits(w)
    BY <2>1, <2>2 DEF AgentEdits, Typed, TypeOK, ClaimsCount, database
  <2>3. CASE Bootstrap(w)
    <3>1. claim' \in [Workers -> ClaimedJob] /\ ClaimsCount'
      BY <1>0, <2>3, ClaimTypes DEF Bootstrap
    <3> QED
      BY <2>1, <2>3, <3>1 DEF Bootstrap, Typed, TypeOK, database
  <2>4. CASE RunChecks(w)
    <3>1. claim' \in [Workers -> ClaimedJob] /\ ClaimsCount'
      BY <1>0, <2>4, ClaimTypes DEF RunChecks
    <3>2. evidence' \in [Revision -> {"NONE", "PASS", "FAIL"}]
      BY <2>4 DEF RunChecks, Typed, TypeOK
    <3>3. tree'.files \in Content /\ Target(w) \in Revision
      BY <2>1, ClaimTypes DEF Tree
    <3>4. verified' \subseteq Content /\ belated' \subseteq Revision
      BY <2>4, <3>3 DEF RunChecks, Typed, TypeOK
    <3> QED
      BY <2>1, <2>4, <3>1, <3>2, <3>4 DEF RunChecks, Typed, TypeOK
  <2> QED
    BY <1>4, <2>2, <2>3, <2>4
<1>6. CASE CommitAndPush(w)
  <2>1. tree.files \in Commit
    BY <1>1 DEF Tree, Commit
  <2>2. tree' \in Tree
    BY <1>1, <1>6, <2>1 DEF CommitAndPush, Tree
  <2>3. claim' \in [Workers -> ClaimedJob] /\ ClaimsCount'
    <3> DEFINE p == IF tree.files = ParentHead(Target(w)) THEN "raised" ELSE "pushed"
    <3>1. p \in Phase
      BY <1>0
    <3>2. claim' = [claim EXCEPT ![w].head = tree.files, ![w].phase = p]
      BY <1>6 DEF CommitAndPush
    <3> HIDE DEF p
    <3> QED
      BY <1>6, <2>1, <3>1, <3>2 DEF CommitAndPush, Typed, TypeOK, ClaimedJob, ClaimsCount
  <2> QED
    BY <1>6, <2>2, <2>3 DEF CommitAndPush, Typed, TypeOK, database, history
<1>7. CASE PushFails(w)
  <2>1. tree.files \in Commit
    BY <1>1 DEF Tree, Commit
  <2>2. tree' \in Tree
    BY <1>1, <1>7, <2>1 DEF PushFails, Tree
  <2>3. claim' \in [Workers -> ClaimedJob] /\ ClaimsCount'
    BY <1>0, <1>7, ClaimTypes DEF PushFails
  <2> QED
    BY <1>7, <2>2, <2>3 DEF PushFails, Typed, TypeOK, database, history
<1>8. CASE RemoveWorktree(w) \/ ForceRemove(w)
  <2>1. tree' \in Tree
    BY <1>1, <1>8 DEF RemoveWorktree, ForceRemove, Tree
  <2>2. claim' \in [Workers -> ClaimedJob] /\ ClaimsCount'
    BY <1>0, <1>8, ClaimTypes DEF RemoveWorktree, ForceRemove
  <2>3. UNCHANGED <<database, upstream, edits, history>>
    BY <1>8 DEF RemoveWorktree, ForceRemove
  <2> QED
    BY <2>1, <2>2, <2>3 DEF Typed, TypeOK, database, history
<1> QED
  BY <1>2, <1>3, <1>4, <1>6, <1>7, <1>8

\* What a worker does in its transactions.
LEMMA TypeInside ==
    ASSUME Typed, NEW w \in Workers,
           \/ CancelStaleJob(w) \/ Fail(w) \/ OpenExecution(w) \/ RecordWorktree(w)
           \/ OpenFirstRevision(w) \/ QueueVerification(w) \/ PublishReview(w)
           \/ CloseExecution(w) \/ RecordCleanup(w)
    PROVE  Typed'
<1> DEFINE r == Target(w)
<1>0. /\ r \in Revision /\ JobOf(w) \in Job /\ claim[w].attempt \in 0..MaxAttempts
      /\ {"loaded", "recorded", "raised"} \subseteq Phase
      /\ \A s \in JobStatus : Closed(w, s) \in [Job -> JobRow]
      /\ {"SUCCEEDED", "FAILED", "CANCELLED"} \subseteq JobStatus
  BY ClaimTypes, ClosedRows DEF Typed, Phase, JobStatus
<1>1. CASE CancelStaleJob(w)
  <2>1. claim' \in [Workers -> ClaimedJob] /\ ClaimsCount' /\ job' \in [Job -> JobRow]
    BY <1>0, <1>1, ClaimTypes DEF CancelStaleJob
  <2> QED
    BY <1>1, <2>1 DEF CancelStaleJob, Typed, TypeOK, git, history
<1>2. CASE Fail(w)
  <2>1. claim' \in [Workers -> ClaimedJob] /\ ClaimsCount'
    BY <1>2, ClaimTypes DEF Fail
  <2>2. exec' \in ExecutionRow /\ rev' \in [Revision -> RevisionRow]
    BY <1>0, <1>2 DEF Fail, Typed, TypeOK, ExecutionRow, ExecutionStatus, RevisionRow,
       RevisionStatus, Moved
  <2>3. job' \in [Job -> JobRow]
    BY <1>0, <1>2 DEF Fail, Typed, TypeOK
  <2>4. outbox' \subseteq Notice
    <3>1. claim[w].attempt \in 1..MaxAttempts
      BY <1>0, <1>2, BoundsAssumption DEF Fail, Typed, ClaimsCount
    <3>2. FailureNotice(w) \in Notice
      BY <1>0, <3>1 DEF FailureNotice, Notice
    <3> QED
      BY <1>2, <3>2 DEF Fail, Typed, TypeOK
  <2> QED
    BY <1>2, <2>1, <2>2, <2>3, <2>4 DEF Fail, Typed, TypeOK, git, history
<1>3. CASE OpenExecution(w)
  <2>1. claim' \in [Workers -> ClaimedJob] /\ ClaimsCount'
    BY <1>0, <1>3, ClaimTypes DEF OpenExecution
  <2>2. exec' \in ExecutionRow
    BY <1>3 DEF OpenExecution, Typed, TypeOK, ExecutionRow, ExecutionStatus, Moved
  <2>3. job' \in [Job -> JobRow]
    BY <1>0, <1>3 DEF OpenExecution, Typed, TypeOK
  <2> QED
    BY <1>3, <2>1, <2>2, <2>3 DEF OpenExecution, Typed, TypeOK, git, history
<1>4. CASE RecordWorktree(w)
  <2>1. claim' \in [Workers -> ClaimedJob] /\ ClaimsCount'
    BY <1>0, <1>4, ClaimTypes DEF RecordWorktree
  <2>2. exec' \in ExecutionRow
    BY <1>4 DEF RecordWorktree, Typed, TypeOK, ExecutionRow, ExecutionStatus, ClaimedJob
  <2> QED
    BY <1>4, <2>1, <2>2 DEF RecordWorktree, Typed, TypeOK, git, history
<1>5. CASE OpenFirstRevision(w)
  <2>1. claim' \in [Workers -> ClaimedJob] /\ ClaimsCount'
    BY <1>5, ClaimTypes DEF OpenFirstRevision
  <2>2. exec' \in ExecutionRow
    BY <1>5, BoundsAssumption DEF OpenFirstRevision, Typed, TypeOK, ExecutionRow
  <2>3. rev' \in [Revision -> RevisionRow]
    BY <1>5 DEF OpenFirstRevision, Typed, TypeOK, RevisionRow, RevisionStatus
  <2>4. job' \in [Job -> JobRow]
    <3>1. Run(1) \in Job /\ Prepare \in Job
      BY JobShape
    <3>2. job[Prepare].expects \in Nat
      BY <3>1 DEF Typed, TypeOK, JobRow
    <3>3. job' = Queued(Closed(w, "SUCCEEDED"), Run(1), job[Prepare].expects)
      BY <1>5 DEF OpenFirstRevision
    <3> QED
      BY <1>0, <3>1, <3>2, <3>3, QueuedRows
  <2> QED
    BY <1>5, <2>1, <2>2, <2>3, <2>4 DEF OpenFirstRevision, Typed, TypeOK, git, history
<1>6. CASE QueueVerification(w)
  <2>1. claim' \in [Workers -> ClaimedJob] /\ ClaimsCount'
    BY <1>6, ClaimTypes DEF QueueVerification
  <2>2. job' \in [Job -> JobRow]
    <3>1. Verify(r) \in Job
      BY <1>0, JobShape
    <3>2. job[JobOf(w)].expects \in Nat
      BY <1>0 DEF Typed, TypeOK, JobRow
    <3>3. job' = Queued(Closed(w, "SUCCEEDED"), Verify(r), job[JobOf(w)].expects)
      BY <1>6 DEF QueueVerification
    <3> QED
      BY <1>0, <3>1, <3>2, <3>3, QueuedRows
  <2> QED
    BY <1>6, <2>1, <2>2 DEF QueueVerification, Typed, TypeOK, git, history
<1>7. CASE PublishReview(w)
  <2>1. claim' \in [Workers -> ClaimedJob] /\ ClaimsCount'
    BY <1>7, ClaimTypes DEF PublishReview
  <2>2. claim[w].head \in Commit
    BY DEF Typed, TypeOK, ClaimedJob
  <2>3. exec' \in ExecutionRow
    BY <1>7, <2>2 DEF PublishReview, Typed, TypeOK, ExecutionRow, ExecutionStatus, Moved
  <2>4. rev' \in [Revision -> RevisionRow]
    <3> SUFFICES ASSUME NEW q \in Revision PROVE rev'[q] \in RevisionRow
      BY <1>7 DEF PublishReview
    <3>1. rev[q] \in RevisionRow
      BY DEF Typed, TypeOK
    <3>2. [rev[q] EXCEPT !.status = Moved(@, {"UPDATING"}, "REVIEW"), !.review = "PENDING",
                         !.head = claim[w].head] \in RevisionRow
      BY <2>2, <3>1 DEF RevisionRow, RevisionStatus, Moved
    <3>3. [rev[q] EXCEPT !.feedback = Moved(@, {"OPEN"}, "RESOLVED")] \in RevisionRow
      BY <3>1 DEF RevisionRow, Moved
    <3> QED
      BY <1>7, <3>1, <3>2, <3>3 DEF PublishReview
  <2>5. job' \in [Job -> JobRow]
    BY <1>0, <1>7 DEF PublishReview
  <2>6. /\ stage' \in Stage /\ version' \in Nat /\ outbox' \subseteq Notice
    <3>1. stage' = "VERIFICATION" /\ version' = version + 1 /\ version \in Nat
      BY <1>7 DEF PublishReview, Typed, TypeOK
    <3>2. outbox' = outbox \cup {<<"STAGE_UPDATED", "VERIFICATION", version + 1>>,
                                 <<"REVIEW_REQUIRED", r>>}
      BY <1>7 DEF PublishReview
    <3> QED
      BY <1>0, <3>1, <3>2 DEF Typed, TypeOK, Notice, Stage
  <2> QED
    BY <1>7, <2>1, <2>3, <2>4, <2>5, <2>6 DEF PublishReview, Typed, TypeOK, git, history
<1>8. CASE CloseExecution(w)
  <2>1. claim' \in [Workers -> ClaimedJob] /\ ClaimsCount'
    BY <1>0, <1>8, ClaimTypes DEF CloseExecution
  <2>2. exec' \in ExecutionRow
    BY <1>8 DEF CloseExecution, Typed, TypeOK, ExecutionRow, ExecutionStatus, Moved
  <2>3. job' \in [Job -> JobRow]
    BY <1>0, <1>8 DEF CloseExecution, Typed, TypeOK
  <2>4. stage' \in Stage /\ version' \in Nat /\ outbox' \subseteq Notice
    BY <1>8 DEF CloseExecution, Typed, TypeOK, Notice, Stage
  <2> QED
    BY <1>8, <2>1, <2>2, <2>3, <2>4 DEF CloseExecution, Typed, TypeOK, git, history
<1>9. CASE RecordCleanup(w)
  <2>1. claim' \in [Workers -> ClaimedJob] /\ ClaimsCount'
    BY <1>9, ClaimTypes DEF RecordCleanup
  <2>2. exec' \in ExecutionRow
    BY <1>9 DEF RecordCleanup, Typed, TypeOK, ExecutionRow
  <2>3. job' \in [Job -> JobRow]
    BY <1>0, <1>9 DEF RecordCleanup
  <2> QED
    BY <1>9, <2>1, <2>2, <2>3 DEF RecordCleanup, Typed, TypeOK, git, history
<1> QED
  BY <1>1, <1>2, <1>3, <1>4, <1>5, <1>6, <1>7, <1>8, <1>9

\* The state in which the approval of the plan leaves the execution.
LEMMA TypeInit == Init => Typed
<1> SUFFICES ASSUME Init PROVE Typed
  OBVIOUS
<1>1. job \in [Job -> JobRow]
  BY FreshRows DEF Init, JobRow, JobStatus
<1>2. claim \in [Workers -> ClaimedJob] /\ ClaimsCount
  BY FreshRows DEF Init, ClaimsCount, Idle
<1>3. exec \in ExecutionRow /\ tree \in Tree
  BY BoundsAssumption DEF Init, ExecutionRow, ExecutionStatus, Tree, Base, NoBase, Commit,
     NoCommit, Content
<1>4. rev \in [Revision -> RevisionRow]
  BY FreshRows DEF Init
<1> QED
  BY <1>1, <1>2, <1>3, <1>4, BoundsAssumption DEF Init, Typed, TypeOK, Stage

\* Every step keeps the types.
LEMMA TypeNext == Typed /\ [Next]_vars => Typed'
<1> SUFFICES ASSUME Typed, [Next]_vars PROVE Typed'
  OBVIOUS
<1>1. CASE UNCHANGED vars
  BY <1>1 DEF vars, Typed, TypeOK, ClaimsCount, database, git, history
<1>2. ASSUME NEW w \in Workers, Proceed(w) \/ AgentEdits(w) \/ Crash(w) PROVE Typed'
  BY <1>2, TypeOutside, TypeInside DEF Proceed
<1> QED
  BY <1>1, <1>2, TypeDecisions, TypeClaim DEF Next

\* Every state of the execution is well typed: attempts, revisions and edits
\* stay within their bounds and every notice names an attempt that was made.
THEOREM TypeCorrect == Spec => []TypeOK
<1>1. Spec => []Typed
  BY TypeInit, TypeNext, PTL DEF Spec
<1>2. Typed => TypeOK
  BY DEF Typed
<1> QED
  BY <1>1, <1>2, PTL

-------------------------------------------------------------------------------
(* The inductive invariant. *)

\* The current revision is one that was begun, after the workspace was ready.
CurrentIsOpen ==
    /\ exec.current # 0 => rev[exec.current].status # "NONE"
    /\ exec.status \in {"NONE", "PENDING"} => exec.current = 0

\* A running job has an owner and no other job has; a failed execution has no
\* active job and only it has a failed one, closing and cleaning up aside; and no
\* job runs ahead of what it is for.
JobsMatch ==
    \A j \in Job :
        /\ job[j].status = "RUNNING" <=> job[j].owner # NoOwner
        /\ job[j].status = "FAILED" => exec.status = "FAILED" \/ j[1] \in {"CLOSE", "CLEANUP"}
        /\ job[j].status \in Active => exec.status # "FAILED"
        /\ job[j].status = "NONE" => job[j].attempts = 0
        /\ job[j].status # "NONE" =>
               /\ j[1] \in {"RUN", "VERIFY", "CLOSE"} => j[2] <= exec.current
               /\ j[1] = "CLOSE" => rev[j[2]].status = "APPROVED"
               /\ j[1] = "CLEANUP" => exec.status = "CANCELLED"

\* What each phase of a claim has made sure of, as long as the claim holds.
ClaimMatches(w) ==
    /\ job[JobOf(w)].status # "NONE"
    /\ claim[w].phase \in {"prepared", "recorded", "bootstrapped"} => Kind(w) = "PREPARE"
    /\ claim[w].phase = "returned" => Kind(w) = "RUN"
    /\ claim[w].phase \in {"checked", "pushed"} => Kind(w) = "VERIFY"
    /\ claim[w].phase = "matched" => Kind(w) = "CLOSE"
    /\ claim[w].phase = "removed" => Kind(w) \in {"CLOSE", "CLEANUP"}
    /\ claim[w].phase = "pushed" =>
           /\ claim[w].head # NoCommit
           /\ Target(w) > 1 => claim[w].head # rev[Target(w) - 1].head
    /\ JobIsCurrent(w) /\ Kind(w) = "PREPARE" /\ claim[w].phase \notin {"claimed", "stale"} =>
           exec.status \in {"PENDING", "RUNNING"}
    /\ JobIsCurrent(w) /\ claim[w].phase \in {"recorded", "bootstrapped"} =>
           exec.status = "RUNNING"
    /\ JobIsCurrent(w) /\ claim[w].phase = "prepared" => tree.exists

ClaimsMatch == \A w \in Workers : claim[w].phase # "idle" => ClaimMatches(w)

\* The recorded worktree is there while its preparation is tried again, too.
WorktreeSafe ==
    /\ WorktreeKept
    /\ exec.worktree /\ exec.status \in {"NONE", "PENDING"} => tree.exists

\* The rows, the rows and the claims, the rows and the worktree.
Inv ==
    /\ Typed
    /\ OneOperation
    /\ StageMatchesRevision
    /\ RevisionHistory
    /\ CurrentIsOpen
    /\ JobsMatch
    /\ ClaimsMatch
    /\ WorktreeSafe
    /\ NoticesTruthful

\* Initially nothing has begun.
LEMMA InvInit == Init => Inv
<1> SUFFICES ASSUME Init PROVE Inv
  OBVIOUS
<1>0. /\ Typed
      /\ \A r \in Revision : rev[r] = NoRevision
      /\ \A j \in Job : /\ job[j].owner = NoOwner
                        /\ job[j].attempts = 0
                        /\ job[j].status = IF j = Prepare THEN "PENDING" ELSE "NONE"
      /\ exec.status = "NONE" /\ exec.current = 0 /\ ~exec.worktree
      /\ stage = "IMPLEMENTATION" /\ outbox = {}
      /\ \A w \in Workers : claim[w].phase = "idle"
  BY TypeInit DEF Init, NoJob, Idle
<1>1. OneOperation
  <2>0. Prepare \in Job
    BY JobShape
  <2>1. Unfinished = {Prepare}
    BY <1>0, <2>0 DEF Unfinished, Active
  <2>2. Awaits(Prepare)
    BY <1>0 DEF Awaits, Prepare
  <2> QED
    BY <2>1, <2>2 DEF OneOperation
<1>2. StageMatchesRevision /\ CurrentIsOpen /\ ClaimsMatch /\ WorktreeSafe
  BY <1>0 DEF StageMatchesRevision, CurrentIsOpen, ClaimsMatch, WorktreeSafe, WorktreeKept
<1>3. RevisionHistory
  BY <1>0 DEF RevisionHistory, NoRevision, Revision
<1>4. JobsMatch
  <2> SUFFICES ASSUME NEW j \in Job
               PROVE  /\ job[j].status \in {"PENDING", "NONE"}
                      /\ job[j].status # "NONE" => j[1] = "PREPARE"
    BY <1>0 DEF JobsMatch
  <2> QED
    BY <1>0 DEF Prepare
<1>5. NoticesTruthful
  BY <1>0 DEF NoticesTruthful, NoRevision
<1> QED
  BY <1>0, <1>1, <1>2, <1>3, <1>4, <1>5 DEF Inv

\* An unfinished job is the only one, and says where the execution is.
LEMMA Waiting ==
    ASSUME Inv, NEW j \in Job, job[j].status \in {"PENDING", "RUNNING", "FAILED"}
    PROVE  /\ \A i \in Job : i # j => job[i].status \notin {"PENDING", "RUNNING", "FAILED"}
           /\ j[1] = "PREPARE" =>
                  /\ exec.current = 0 /\ stage = "IMPLEMENTATION"
                  /\ exec.status \in {"NONE", "PENDING", "RUNNING", "FAILED"}
                  /\ job[j].status = "FAILED" <=> exec.status = "FAILED"
           /\ j[1] \in {"RUN", "VERIFY"} =>
                  /\ exec.current = j[2] /\ stage = "IMPLEMENTATION"
                  /\ exec.status = IF job[j].status = "FAILED" THEN "FAILED" ELSE "RUNNING"
                  /\ rev[j[2]].status = IF job[j].status = "FAILED" THEN "FAILED" ELSE "UPDATING"
           /\ j[1] = "CLOSE" =>
                  /\ exec.current = j[2] /\ stage = "VERIFICATION"
                  /\ exec.status = "SUCCEEDED" /\ rev[j[2]].status = "APPROVED"
           /\ j[1] = "CLEANUP" => exec.status = "CANCELLED"
<1>1. j \in Unfinished /\ \A i \in Job : job[i].status \in {"PENDING", "RUNNING", "FAILED"} => i \in Unfinished
  BY DEF Unfinished, Active
<1>2. \A i \in Job : i # j => job[i].status \notin {"PENDING", "RUNNING", "FAILED"}
  <2>1. \A i, k \in Unfinished : i = k
    BY DEF Inv, OneOperation
  <2> QED
    BY <1>1, <2>1
<1>3. Awaits(j)
  BY <1>1 DEF Inv, OneOperation
<1>4. /\ job[j].status = "FAILED" => exec.status = "FAILED" \/ j[1] \in {"CLOSE", "CLEANUP"}
      /\ job[j].status # "FAILED" => exec.status # "FAILED"
  BY DEF Inv, JobsMatch, Active
<1>5. j[2] \in Revision /\ j[2] # 0 /\ stage \in {"IMPLEMENTATION", "VERIFICATION", "DONE"}
  BY JobParts, BoundsAssumption DEF Inv, Typed, TypeOK, Stage
<1>6. exec.current # 0 => rev[exec.current].status # "NONE"
  BY DEF Inv, CurrentIsOpen
<1>7. StageMatchesRevision
  BY DEF Inv
<1>8. CASE j[1] = "PREPARE"
  <2>1. exec.status \in {"NONE", "PENDING", "RUNNING", "FAILED"} /\ exec.current = 0
    BY <1>3, <1>8 DEF Awaits
  <2>2. stage # "VERIFICATION" /\ stage # "DONE"
    BY <1>7, <2>1 DEF StageMatchesRevision
  <2> QED
    BY <1>2, <1>4, <1>5, <1>8, <2>1, <2>2
<1>9. CASE j[1] \in {"RUN", "VERIFY"}
  <2>1. exec.status \in {"RUNNING", "FAILED"} /\ exec.current = j[2]
    BY <1>3, <1>9 DEF Awaits
  <2>2. exec.status = IF job[j].status = "FAILED" THEN "FAILED" ELSE "RUNNING"
    BY <1>4, <1>9, <2>1
  <2>3. stage # "VERIFICATION" /\ stage # "DONE"
    BY <1>7, <2>1 DEF StageMatchesRevision
  <2>4. rev[j[2]].status = IF job[j].status = "FAILED" THEN "FAILED" ELSE "UPDATING"
    BY <1>5, <1>6, <1>7, <2>1, <2>2 DEF StageMatchesRevision
  <2> QED
    BY <1>2, <1>5, <1>9, <2>1, <2>2, <2>3, <2>4
<1>10. CASE j[1] = "CLOSE"
  <2>1. exec.status = "SUCCEEDED" /\ exec.current = j[2] /\ rev[j[2]].status = "APPROVED"
    BY <1>3, <1>10 DEF Awaits
  <2>2. stage = "VERIFICATION"
    BY <1>5, <1>7, <2>1 DEF StageMatchesRevision
  <2> QED
    BY <1>2, <1>10, <2>1, <2>2
<1>11. CASE j[1] = "CLEANUP"
  BY <1>2, <1>3, <1>11 DEF Awaits
<1> QED
  BY <1>8, <1>9, <1>10, <1>11, JobParts

\* A claim that nobody touched still matches when its job, the head of the
\* revision before its own and, for the preparation, the execution are as before.
LEMMA ClaimKept ==
    ASSUME Inv, NEW v \in Workers, claim[v].phase # "idle", claim'[v] = claim[v],
           job'[JobOf(v)].status # "NONE",
           JobIsCurrent(v)' => JobIsCurrent(v),
           Target(v) > 1 => rev'[Target(v) - 1].head = rev[Target(v) - 1].head,
           JobIsCurrent(v)' /\ Kind(v) = "PREPARE" =>
               exec'.status = exec.status /\ (tree.exists => tree'.exists)
    PROVE  ClaimMatches(v)'
<1>1. ClaimMatches(v)
  BY DEF Inv, ClaimsMatch
<1>2. JobOf(v)' = JobOf(v) /\ Kind(v)' = Kind(v) /\ Target(v)' = Target(v)
  BY DEF JobOf, Kind, Target
<1> QED
  BY <1>1, <1>2 DEF ClaimMatches

\* A step that leaves the rows alone has only the claims and the worktree to
\* answer for.
LEMMA RowsKept ==
    ASSUME Inv, Typed', UNCHANGED <<stage, exec, rev, job, outbox>>, ClaimsMatch', WorktreeSafe'
    PROVE  Inv'
<1>1. OneOperation'
  BY DEF Inv, OneOperation, Unfinished, Awaits
<1>2. StageMatchesRevision' /\ CurrentIsOpen'
  BY DEF Inv, StageMatchesRevision, CurrentIsOpen
<1>3. RevisionHistory'
  BY DEF Inv, RevisionHistory
<1>4. JobsMatch'
  BY DEF Inv, JobsMatch
<1>5. NoticesTruthful'
  BY DEF Inv, NoticesTruthful
<1> QED
  BY <1>1, <1>2, <1>3, <1>4, <1>5 DEF Inv

\* The worker whose claim is current is the only one.
LEMMA Alone ==
    ASSUME Inv, NEW w \in Workers, JobIsCurrent(w)
    PROVE  \A v \in Workers : v # w => ~JobIsCurrent(v)
<1>1. \A v \in Workers : JobOf(v) \in Job
  BY DEF Inv, Typed, TypeOK, ClaimedJob, JobOf
<1>2. \A i \in Job : i # JobOf(w) => job[i].status \notin {"PENDING", "RUNNING", "FAILED"}
  <2>1. JobOf(w) \in Job /\ job[JobOf(w)].status \in {"PENDING", "RUNNING", "FAILED"}
    BY <1>1 DEF JobIsCurrent
  <2> QED
    BY <2>1, Waiting
<1> QED
  BY <1>1, <1>2 DEF JobIsCurrent

\* A step of one worker that leaves the rows alone.
LEMMA WorkKept ==
    ASSUME Inv, Typed', UNCHANGED <<stage, exec, rev, job, outbox>>, NEW w \in Workers,
           \A v \in Workers : v # w => claim'[v] = claim[v],
           claim'[w].phase # "idle" => ClaimMatches(w)',
           \/ tree.exists => tree'.exists
           \/ WorktreeSafe' /\ \A v \in Workers : ~(JobIsCurrent(v) /\ Kind(v) = "PREPARE")
    PROVE  Inv'
<1>1. ASSUME NEW v \in Workers, v # w, claim[v].phase # "idle" PROVE ClaimMatches(v)'
  <2>1. claim'[v] = claim[v] /\ job[JobOf(v)].status # "NONE"
    BY <1>1 DEF Inv, ClaimsMatch, ClaimMatches
  <2>2. JobOf(v)' = JobOf(v) /\ Kind(v)' = Kind(v) /\ (JobIsCurrent(v)' <=> JobIsCurrent(v))
    BY <2>1 DEF JobOf, Kind, JobIsCurrent
  <2> QED
    BY <1>1, <2>1, <2>2, ClaimKept
<1>2. ClaimsMatch'
  BY <1>1 DEF ClaimsMatch
<1>3. WorktreeSafe'
  BY DEF Inv, WorktreeSafe, WorktreeKept
<1> QED
  BY <1>2, <1>3, RowsKept

\* What is known of a claim that goes on to another phase.
LEMMA OwnClaim ==
    ASSUME Inv, NEW w \in Workers, NEW p, claim[w].phase # "idle", Goes(w, p),
           UNCHANGED <<stage, exec, rev, job, outbox>>
    PROVE  /\ \A v \in Workers : v # w => claim'[v] = claim[v]
           /\ claim'[w].phase = p /\ claim'[w].head = claim[w].head
           /\ JobOf(w)' = JobOf(w) /\ Kind(w)' = Kind(w) /\ Target(w)' = Target(w)
           /\ JobIsCurrent(w)' <=> JobIsCurrent(w)
           /\ ClaimMatches(w)
<1>1. claim \in [Workers -> ClaimedJob] /\ claim[w] \in ClaimedJob
  BY DEF Inv, Typed, TypeOK
<1>2. /\ \A v \in Workers : v # w => claim'[v] = claim[v]
      /\ claim'[w] = [claim[w] EXCEPT !.phase = p]
  BY <1>1 DEF Goes
<1>3. /\ claim'[w].phase = p /\ claim'[w].head = claim[w].head
      /\ claim'[w].job = claim[w].job /\ claim'[w].attempt = claim[w].attempt
  BY <1>1, <1>2 DEF ClaimedJob
<1> QED
  BY <1>2, <1>3 DEF Inv, ClaimsMatch, JobOf, Kind, Target, JobIsCurrent

\* A step by which a worker only learns, or gives up its claim.
LEMMA Learns ==
    ASSUME Inv, NEW w \in Workers, NEW p, Typed', claim[w].phase # "idle",
           UNCHANGED <<stage, exec, rev, job, outbox>>, tree.exists => tree'.exists,
           \/ Ends(w)
           \/ /\ Goes(w, p)
              /\ \/ p = "stale"
                 \/ p = "loaded" /\ Kind(w) # "PREPARE"
                 \/ p = "raised" /\ claim[w].phase \notin {"claimed", "stale"}
                 \/ p = "returned" /\ Kind(w) = "RUN"
                 \/ p = "checked" /\ Kind(w) = "VERIFY"
                 \/ p = "matched" /\ Kind(w) = "CLOSE"
                 \/ p = "removed" /\ Kind(w) \in {"CLOSE", "CLEANUP"}
                 \/ p = "bootstrapped" /\ claim[w].phase = "recorded"
    PROVE  Inv'
<1>1. CASE Ends(w)
  <2>1. /\ \A v \in Workers : v # w => claim'[v] = claim[v]
        /\ claim'[w].phase = "idle"
    BY <1>1 DEF Ends, Idle, Inv, Typed, TypeOK
  <2> QED
    BY <2>1, WorkKept
<1>2. CASE Goes(w, p) /\ ~Ends(w)
  <2>1. /\ \A v \in Workers : v # w => claim'[v] = claim[v]
        /\ claim'[w].phase = p /\ claim'[w].head = claim[w].head
        /\ JobOf(w)' = JobOf(w) /\ Kind(w)' = Kind(w) /\ Target(w)' = Target(w)
        /\ JobIsCurrent(w)' <=> JobIsCurrent(w)
        /\ ClaimMatches(w)
    BY <1>2, OwnClaim
  <2>2. ClaimMatches(w)'
    BY <1>2, <2>1 DEF ClaimMatches
  <2> QED
    BY <2>1, <2>2, WorkKept
<1> QED
  BY <1>1, <1>2

\* The steps between the transactions of a worker.
LEMMA InvWork ==
    ASSUME Inv, Typed', NEW w \in Workers,
           \/ Load(w) \/ GiveUp(w) \/ OperationFails(w) \/ Crash(w) \/ Bootstrap(w)
           \/ AgentEdits(w) \/ AgentReturns(w) \/ RunChecks(w) \/ PushFails(w)
           \/ PublishRaises(w) \/ CompareRemote(w)
    PROVE  Inv'
<1>1. CASE Load(w)
  <2>1. PICK p \in {"loaded", "stale"} : Goes(w, p) \/ Ends(w)
    BY <1>1 DEF Load
  <2> QED
    BY <1>1, <2>1, Learns DEF Load, database, git
<1>2. CASE GiveUp(w)
  BY <1>2, Learns DEF GiveUp, database, git
<1>3. CASE OperationFails(w)
  BY <1>3, Learns DEF OperationFails, database, git
<1>4. CASE Crash(w)
  BY <1>4, Learns DEF Crash, database, git
<1>5. CASE Bootstrap(w)
  <2>1. PICK p \in {"bootstrapped", "raised"} : Goes(w, p)
    BY <1>5 DEF Bootstrap
  <2>2. tree'.exists = tree.exists
    BY <1>5, Written DEF Bootstrap, MayWrite, JobIsCurrent, Inv, Typed
  <2> QED
    BY <1>5, <2>1, <2>2, Learns DEF Bootstrap, database
<1>6. CASE AgentEdits(w)
  <2>1. /\ UNCHANGED <<stage, exec, rev, job, outbox, claim>>
        /\ tree'.exists = tree.exists
    BY <1>6, Written DEF AgentEdits, JobIsCurrent, database, Inv, Typed
  <2>2. claim[w].phase # "idle" => ClaimMatches(w)'
    BY <2>1 DEF Inv, ClaimsMatch, ClaimMatches, JobOf, Kind, Target, JobIsCurrent
  <2> QED
    BY <2>1, <2>2, WorkKept
<1>7. CASE AgentReturns(w)
  BY <1>7, Learns DEF AgentReturns, database, git
<1>8. CASE RunChecks(w)
  <2>1. PICK p \in {"checked", "raised"} : Goes(w, p)
    BY <1>8 DEF RunChecks
  <2>2. tree'.exists = tree.exists
    BY <1>8, Written DEF RunChecks, MayWrite, JobIsCurrent, Inv, Typed
  <2> QED
    BY <1>8, <2>1, <2>2, Learns DEF RunChecks
<1>9. CASE PushFails(w)
  <2>1. tree'.exists = tree.exists
    BY <1>9 DEF PushFails, Inv, Typed, TypeOK, Tree
  <2> QED
    BY <1>9, <2>1, Learns DEF PushFails, database
<1>10. CASE PublishRaises(w)
  BY <1>10, Learns DEF PublishRaises, database, git
<1>11. CASE CompareRemote(w)
  <2>1. PICK p \in {"matched", "raised"} : Goes(w, p)
    BY <1>11 DEF CompareRemote
  <2> QED
    BY <1>11, <2>1, Learns DEF CompareRemote, database, git
<1> QED
  BY <1>1, <1>2, <1>3, <1>4, <1>5, <1>6, <1>7, <1>8, <1>9, <1>10, <1>11

\* The steps that make, commit or remove the worktree.
LEMMA InvWorktree ==
    ASSUME Inv, Typed', NEW w \in Workers,
           PrepareWorktree(w) \/ CommitAndPush(w) \/ RemoveWorktree(w) \/ ForceRemove(w)
    PROVE  Inv'
<1>0. claim \in [Workers -> ClaimedJob] /\ tree \in Tree
  BY DEF Inv, Typed, TypeOK
<1>1. CASE PrepareWorktree(w)
  <2>1. claim[w] \in ClaimedJob
    BY <1>0
  <2>2. /\ \A v \in Workers : v # w => claim'[v] = claim[v]
        /\ claim'[w].phase = "prepared"
        /\ claim'[w].job = claim[w].job /\ claim'[w].attempt = claim[w].attempt
    BY <1>0, <1>1, <2>1 DEF PrepareWorktree, ClaimedJob
  <2>3. tree'.exists
    BY <1>0, <1>1 DEF PrepareWorktree, Tree
  <2>4. claim[w].phase = "loaded" /\ Kind(w) = "PREPARE" /\ UNCHANGED database
    BY <1>1 DEF PrepareWorktree
  <2>5. ClaimMatches(w)'
    BY <2>2, <2>3, <2>4 DEF Inv, ClaimsMatch, ClaimMatches, JobOf, Kind, Target, JobIsCurrent,
       database
  <2> QED
    BY <2>2, <2>3, <2>4, <2>5, WorkKept DEF database
<1>2. CASE CommitAndPush(w)
  <2>1. claim[w] \in ClaimedJob /\ Target(w) \in Revision
    BY <1>0, ClaimTypes DEF Inv
  <2>2. /\ \A v \in Workers : v # w => claim'[v] = claim[v]
        /\ claim'[w].job = claim[w].job /\ claim'[w].attempt = claim[w].attempt
        /\ claim'[w].head = tree.files
        /\ \/ claim'[w].phase = "raised"
           \/ claim'[w].phase = "pushed" /\ tree.files # ParentHead(Target(w))
    BY <1>0, <1>2, <2>1 DEF CommitAndPush, ClaimedJob
  <2>3. tree.files # NoCommit /\ tree'.exists = tree.exists
    <3>1. tree.files \in 0..MaxEdits
      BY <1>0 DEF Tree, Content
    <3>2. tree.files # -1
      BY <3>1, BoundsAssumption
    <3>3. tree'.exists = tree.exists
      BY <1>0, <1>2 DEF CommitAndPush, Tree
    <3> QED
      BY <3>2, <3>3 DEF NoCommit
  <2>4. claim[w].phase = "checked" /\ UNCHANGED database
    BY <1>2 DEF CommitAndPush
  <2>5. Target(w) > 1 => ParentHead(Target(w)) = rev[Target(w) - 1].head
    BY DEF ParentHead
  <2>6. ClaimMatches(w)'
    BY <2>2, <2>3, <2>4, <2>5 DEF Inv, ClaimsMatch, ClaimMatches, JobOf, Kind, Target,
       JobIsCurrent, database
  <2> QED
    BY <2>2, <2>3, <2>4, <2>6, WorkKept DEF database
<1>3. CASE RemoveWorktree(w)
  <2>1. /\ claim[w].phase = "matched" /\ Goes(w, "removed") /\ UNCHANGED database
    BY <1>3 DEF RemoveWorktree
  <2>2. /\ \A v \in Workers : v # w => claim'[v] = claim[v]
        /\ claim'[w].phase = "removed" /\ claim'[w].head = claim[w].head
        /\ JobOf(w)' = JobOf(w) /\ Kind(w)' = Kind(w) /\ Target(w)' = Target(w)
        /\ JobIsCurrent(w)' <=> JobIsCurrent(w)
        /\ ClaimMatches(w)
    BY <2>1, OwnClaim DEF database
  <2>3. ClaimMatches(w)'
    BY <2>1, <2>2 DEF ClaimMatches, database
  <2>4. /\ JobOf(w) \in Job /\ Target(w) \in Revision /\ Kind(w) = "CLOSE"
        /\ job[JobOf(w)].status # "NONE"
    BY <2>1, <2>2, ClaimTypes DEF ClaimMatches, Inv
  <2>5. Target(w) <= exec.current /\ rev[Target(w)].status = "APPROVED"
    BY <2>4 DEF Inv, JobsMatch, JobOf, Kind, Target
  <2>6. Target(w) = exec.current /\ exec.current # 0
    BY <2>4, <2>5 DEF Inv, RevisionHistory, Revision, Typed, TypeOK, ExecutionRow
  <2>7. WorktreeSafe'
    <3>1. exec.status \notin {"NONE", "PENDING"}
      BY <2>6 DEF Inv, CurrentIsOpen
    <3> QED
      BY <2>1, <2>5, <2>6, <3>1 DEF WorktreeSafe, WorktreeKept, database
  <2>8. ASSUME NEW v \in Workers, JobIsCurrent(v), Kind(v) = "PREPARE" PROVE FALSE
    <3>1. JobOf(v) \in Job /\ job[JobOf(v)].status = "RUNNING" /\ JobOf(v)[1] = "PREPARE"
      BY <2>8, ClaimTypes DEF JobIsCurrent, Kind, JobOf, Inv
    <3> QED
      BY <2>6, <3>1, Waiting
  <2> QED
    BY <2>1, <2>2, <2>3, <2>7, <2>8, WorkKept DEF database
<1>4. CASE ForceRemove(w)
  <2>1. /\ claim[w].phase = "loaded" /\ Goes(w, "removed") /\ UNCHANGED database
        /\ Kind(w) = "CLEANUP"
    BY <1>4 DEF ForceRemove
  <2>2. /\ \A v \in Workers : v # w => claim'[v] = claim[v]
        /\ claim'[w].phase = "removed" /\ claim'[w].head = claim[w].head
        /\ JobOf(w)' = JobOf(w) /\ Kind(w)' = Kind(w) /\ Target(w)' = Target(w)
        /\ JobIsCurrent(w)' <=> JobIsCurrent(w)
        /\ ClaimMatches(w)
    BY <2>1, OwnClaim DEF database
  <2>3. ClaimMatches(w)'
    BY <2>1, <2>2 DEF ClaimMatches, database
  <2>4. JobOf(w) \in Job /\ job[JobOf(w)].status # "NONE"
    BY <2>1, <2>2, ClaimTypes DEF ClaimMatches, Inv
  <2>5. exec.status = "CANCELLED"
    BY <2>1, <2>4 DEF Inv, JobsMatch, JobOf, Kind
  <2>7. WorktreeSafe'
    BY <2>1, <2>5 DEF WorktreeSafe, WorktreeKept, database
  <2>8. ASSUME NEW v \in Workers, JobIsCurrent(v), Kind(v) = "PREPARE" PROVE FALSE
    <3>1. JobOf(v) \in Job /\ job[JobOf(v)].status = "RUNNING" /\ JobOf(v)[1] = "PREPARE"
      BY <2>8, ClaimTypes DEF JobIsCurrent, Kind, JobOf, Inv
    <3> QED
      BY <2>5, <3>1, Waiting
  <2> QED
    BY <2>1, <2>2, <2>3, <2>7, <2>8, WorkKept DEF database
<1> QED
  BY <1>1, <1>2, <1>3, <1>4

\* The surroundings of the execution.
LEMMA InvSurroundings ==
    ASSUME Inv, Typed', UpstreamMoves \/ ArtifactAttemptFails \/ LeftoverWrites PROVE Inv'
<1>1. UNCHANGED <<stage, exec, rev, job, outbox, claim>> /\ tree'.exists = tree.exists
  <2>1. CASE LeftoverWrites
    BY <2>1, Written DEF LeftoverWrites, database, Inv, Typed
  <2> QED
    BY <2>1 DEF UpstreamMoves, ArtifactAttemptFails, database, git
<1>2. ClaimsMatch' /\ WorktreeSafe'
  BY <1>1 DEF Inv, ClaimsMatch, ClaimMatches, WorktreeSafe, WorktreeKept, JobOf, Kind, Target, JobIsCurrent
<1> QED
  BY <1>1, <1>2, RowsKept

-------------------------------------------------------------------------------
(* The transactions. Each moves the job it is about and may queue another. *)

\* A job is as before, is queued, or is ended or put back; its attempts stay.
JobMoves(i) ==
    \/ /\ job'[i].status = job[i].status
       /\ job'[i].attempts = job[i].attempts
       /\ job'[i].owner = job[i].owner
    \/ /\ job[i].status = "NONE" /\ job'[i].status = "PENDING"
       /\ job'[i].attempts = 0 /\ job'[i].owner = NoOwner
    \/ /\ job[i].status \in {"PENDING", "RUNNING", "FAILED"}
       /\ job'[i].status \in {"PENDING", "SUCCEEDED", "FAILED", "CANCELLED"}
       /\ job'[i].attempts = job[i].attempts
       /\ job'[i].owner = NoOwner

\* If no job but one is left unfinished, and that one is in its place, the jobs
\* are in order.
LEMMA JobsFollow ==
    ASSUME Inv, NEW k \in Job,
           \A i \in Job : JobMoves(i),
           \A i \in Job : i # k =>
               /\ job'[i].status \notin {"PENDING", "RUNNING", "FAILED"}
               /\ job[i].status = "NONE" => job'[i].status = "NONE",
           job'[k].status \in {"PENDING", "RUNNING", "FAILED"} =>
               /\ Awaits(k)'
               /\ IF job'[k].status = "FAILED"
                  THEN exec'.status = "FAILED" \/ k[1] \in {"CLOSE", "CLEANUP"}
                  ELSE exec'.status # "FAILED",
           exec.current \in Nat, exec'.current \in Nat, exec'.current >= exec.current,
           \A r \in Revision : rev[r].status = "APPROVED" => rev'[r].status = "APPROVED",
           exec.status = "CANCELLED" => exec'.status = "CANCELLED"
    PROVE  OneOperation' /\ JobsMatch'
<1>1. Unfinished' \subseteq {k}
  BY DEF Unfinished, Active
<1>2. OneOperation'
  <2>1. ASSUME NEW i \in Unfinished' PROVE i = k /\ Awaits(k)'
    BY <1>1, <2>1 DEF Unfinished, Active
  <2> QED
    BY <2>1 DEF OneOperation
<1>3. JobsMatch'
  <2> SUFFICES ASSUME NEW i \in Job
               PROVE  /\ job'[i].status = "RUNNING" <=> job'[i].owner # NoOwner
                      /\ job'[i].status = "FAILED" =>
                             exec'.status = "FAILED" \/ i[1] \in {"CLOSE", "CLEANUP"}
                      /\ job'[i].status \in Active => exec'.status # "FAILED"
                      /\ job'[i].status = "NONE" => job'[i].attempts = 0
                      /\ job'[i].status # "NONE" =>
                             /\ i[1] \in {"RUN", "VERIFY", "CLOSE"} => i[2] <= exec'.current
                             /\ i[1] = "CLOSE" => rev'[i[2]].status = "APPROVED"
                             /\ i[1] = "CLEANUP" => exec'.status = "CANCELLED"
    BY DEF JobsMatch
  <2>0. i[2] \in Revision /\ i[2] \in Nat
    BY JobParts
  <2>1. /\ job[i].status = "RUNNING" <=> job[i].owner # NoOwner
        /\ job[i].status = "NONE" => job[i].attempts = 0
        /\ job[i].status # "NONE" =>
               /\ i[1] \in {"RUN", "VERIFY", "CLOSE"} => i[2] <= exec.current
               /\ i[1] = "CLOSE" => rev[i[2]].status = "APPROVED"
               /\ i[1] = "CLEANUP" => exec.status = "CANCELLED"
    BY DEF Inv, JobsMatch
  <2>2. JobMoves(i)
    OBVIOUS
  <2>3. job'[i].status = "RUNNING" <=> job'[i].owner # NoOwner
    BY <2>1, <2>2 DEF JobMoves
  <2>4. job'[i].status = "NONE" => job'[i].attempts = 0
    BY <2>1, <2>2 DEF JobMoves
  <2>5. CASE job[i].status # "NONE"
    <3>1. /\ i[1] \in {"RUN", "VERIFY", "CLOSE"} => i[2] <= exec'.current
          /\ i[1] = "CLOSE" => rev'[i[2]].status = "APPROVED"
          /\ i[1] = "CLEANUP" => exec'.status = "CANCELLED"
      BY <2>0, <2>1, <2>5
    <3> QED
      BY <2>3, <2>4, <3>1 DEF Active
  <2>6. CASE job[i].status = "NONE"
    <3>1. job'[i].status # "NONE" => i = k /\ job'[i].status = "PENDING"
      BY <2>2, <2>6 DEF JobMoves
    <3>2. CASE job'[i].status # "NONE"
      <4>1. Awaits(i)' /\ i = k /\ job'[i].status = "PENDING"
        BY <3>1, <3>2
      <4>2. /\ i[1] \in {"RUN", "VERIFY", "CLOSE"} => i[2] <= exec'.current
            /\ i[1] = "CLOSE" => rev'[i[2]].status = "APPROVED"
            /\ i[1] = "CLEANUP" => exec'.status = "CANCELLED"
        <5>1. i[1] \in {"RUN", "VERIFY"} => exec'.current = i[2]
          BY <4>1 DEF Awaits
        <5>2. i[1] = "CLOSE" => exec'.current = i[2] /\ rev'[i[2]].status = "APPROVED"
          BY <4>1 DEF Awaits
        <5>3. i[1] = "CLEANUP" => exec'.status = "CANCELLED"
          BY <4>1 DEF Awaits
        <5> QED
          BY <2>0, <5>1, <5>2, <5>3
      <4> QED
        BY <2>3, <2>4, <4>1, <4>2 DEF Active
    <3> QED
      BY <2>3, <2>4, <3>2 DEF Active
  <2> QED
    BY <2>5, <2>6
<1> QED
  BY <1>2, <1>3

\* The claims that such a transaction leaves alone still match.
LEMMA ClaimsStay ==
    ASSUME Inv, NEW W \in SUBSET Workers,
           \A v \in W : claim'[v] = claim[v],
           \A i \in Job : JobMoves(i),
           \A q \in Revision : q # exec.current => rev'[q].head = rev[q].head,
           tree.exists => tree'.exists,
           \A v \in W : JobIsCurrent(v) /\ Kind(v) = "PREPARE" =>
               exec'.status = exec.status \/ ~JobIsCurrent(v)'
    PROVE  \A v \in W : claim'[v].phase # "idle" => ClaimMatches(v)'
<1> SUFFICES ASSUME NEW v \in W, claim[v].phase # "idle" PROVE ClaimMatches(v)'
  OBVIOUS
<1>1. ClaimMatches(v) /\ JobOf(v) \in Job /\ Target(v) \in Revision
  BY ClaimTypes DEF Inv, ClaimsMatch
<1>2. job[JobOf(v)].status # "NONE" /\ JobMoves(JobOf(v))
  BY <1>1 DEF ClaimMatches
<1>3. /\ JobOf(v)' = JobOf(v) /\ Kind(v)' = Kind(v) /\ Target(v)' = Target(v)
      /\ claim'[v].attempt = claim[v].attempt
  BY DEF JobOf, Kind, Target
<1>4. job'[JobOf(v)].status # "NONE" /\ (JobIsCurrent(v)' => JobIsCurrent(v))
  BY <1>2, <1>3 DEF JobMoves, JobIsCurrent
<1>5. Target(v) > 1 => rev'[Target(v) - 1].head = rev[Target(v) - 1].head
  <2> SUFFICES ASSUME Target(v) > 1 PROVE rev'[Target(v) - 1].head = rev[Target(v) - 1].head
    OBVIOUS
  <2>1. Target(v) <= exec.current
    <3>1. JobOf(v)[2] # 1
      BY DEF Target, JobOf
    <3>2. JobOf(v)[1] \in {"RUN", "VERIFY", "CLOSE"}
      BY <1>1, <3>1, JobParts
    <3> QED
      BY <1>1, <1>2, <3>2 DEF Inv, JobsMatch, Target, JobOf
  <2>2. Target(v) - 1 \in Revision /\ Target(v) - 1 # exec.current
    BY <1>1, <2>1, BoundsAssumption DEF Revision, Inv, Typed, TypeOK, ExecutionRow
  <2> QED
    BY <2>2
<1> QED
  BY <1>1, <1>3, <1>4, <1>5, ClaimKept

\* The notices keep agreeing when no attempt fails and none is tried again.
LEMMA NoticesKept ==
    ASSUME Inv, NEW S,
           \A x \in S : x[1] \notin {"FAILED", "RETRY_QUEUED"},
           outbox' = outbox \cup S,
           \A i \in Job : JobMoves(i),
           \A i \in Job : /\ job'[i].status = "FAILED" => job[i].status = "FAILED"
                          /\ job'[i].status = "SUCCEEDED" =>
                                 job[i].status \in {"RUNNING", "SUCCEEDED"},
           \A r \in Revision : <<"REVIEW_REQUIRED", r>> \in outbox' <=> rev'[r].head # NoCommit,
           <<"ABANDONED">> \in outbox' <=> exec'.status = "CANCELLED"
    PROVE  NoticesTruthful'
<1>1. ASSUME NEW j \in Job, NEW a \in 1..MaxAttempts,
             <<"FAILED", j, a>> \in outbox', a >= job'[j].attempts
      PROVE  a = job'[j].attempts /\ job'[j].status \in {"PENDING", "FAILED", "CANCELLED"}
  <2>1. <<"FAILED", j, a>> \in outbox
    BY <1>1
  <2>2. a >= job[j].attempts =>
            a = job[j].attempts /\ job[j].status \in {"PENDING", "FAILED", "CANCELLED"}
    BY <2>1 DEF Inv, NoticesTruthful
  <2>3. job[j].status = "NONE" => job[j].attempts = 0
    BY DEF Inv, JobsMatch
  <2>4. JobMoves(j) /\ (job'[j].status = "SUCCEEDED" =>
                            job[j].status \in {"RUNNING", "SUCCEEDED"})
    OBVIOUS
  <2>5. job'[j].attempts = job[j].attempts
    BY <2>3, <2>4 DEF JobMoves
  <2> QED
    BY <1>1, <2>2, <2>4, <2>5 DEF JobMoves
<1>2. ASSUME NEW j \in Job, NEW a \in 1..MaxAttempts, <<"RETRY_QUEUED", j, a>> \in outbox'
      PROVE  <<"FAILED", j, a - 1>> \in outbox'
  <2>1. <<"RETRY_QUEUED", j, a>> \in outbox
    BY <1>2
  <2> QED
    BY <2>1 DEF Inv, NoticesTruthful
<1>3. ASSUME NEW j \in Job, job'[j].status = "FAILED"
      PROVE  <<"FAILED", j, job'[j].attempts>> \in outbox'
  <2>1. job[j].status = "FAILED" /\ JobMoves(j)
    BY <1>3
  <2>2. job'[j].attempts = job[j].attempts
    BY <2>1 DEF JobMoves
  <2> QED
    BY <2>1, <2>2 DEF Inv, NoticesTruthful
<1> QED
  BY <1>1, <1>2, <1>3 DEF NoticesTruthful

\* In particular when nothing is sent at all.
LEMMA NoticesSame ==
    ASSUME Inv, outbox' = outbox,
           \A i \in Job : JobMoves(i),
           \A i \in Job : /\ job'[i].status = "FAILED" => job[i].status = "FAILED"
                          /\ job'[i].status = "SUCCEEDED" =>
                                 job[i].status \in {"RUNNING", "SUCCEEDED"},
           \A r \in Revision : <<"REVIEW_REQUIRED", r>> \in outbox' <=> rev'[r].head # NoCommit,
           <<"ABANDONED">> \in outbox' <=> exec'.status = "CANCELLED"
    PROVE  NoticesTruthful'
<1>1. PICK S : S = {}
  OBVIOUS
<1>2. outbox' = outbox \cup S /\ \A x \in S : x[1] \notin {"FAILED", "RETRY_QUEUED"}
  BY <1>1
<1> QED
  BY <1>2, NoticesKept

\* A worker that ends its job was the one running it, and no other job waits.
LEMMA Ended ==
    ASSUME Inv, NEW w \in Workers, NEW s \in {"SUCCEEDED", "FAILED", "CANCELLED"},
           job[JobOf(w)].owner = w, job' = Closed(w, s)
    PROVE  /\ JobOf(w) \in Job
           /\ job[JobOf(w)].status = "RUNNING"
           /\ job'[JobOf(w)].status = s
           /\ job'[JobOf(w)].attempts = job[JobOf(w)].attempts
           /\ \A i \in Job : i # JobOf(w) =>
                  /\ job'[i] = job[i]
                  /\ job[i].status \notin {"PENDING", "RUNNING", "FAILED"}
           /\ \A i \in Job : JobMoves(i)
<1> DEFINE j == JobOf(w)
<1>1. /\ j \in Job
      /\ \A i \in Job : i # j => job'[i] = job[i]
      /\ job'[j].status = s /\ job'[j].owner = NoOwner /\ job'[j].attempts = job[j].attempts
  <2>1. s \in JobStatus
    BY DEF JobStatus
  <2> QED
    BY <2>1, ClosedRows DEF Inv, Typed
<1>2. job[j].status = "RUNNING"
  BY <1>1, WorkersAssumption DEF Inv, JobsMatch
<1>3. \A i \in Job : i # j => job[i].status \notin {"PENDING", "RUNNING", "FAILED"}
  BY <1>1, <1>2, Waiting
<1>4. \A i \in Job : JobMoves(i)
  <2> SUFFICES ASSUME NEW i \in Job PROVE JobMoves(i)
    OBVIOUS
  <2> QED
    BY <1>1, <1>2 DEF JobMoves
<1> QED
  BY <1>1, <1>2, <1>3, <1>4

\* The same when it queues the next job.
LEMMA EndedAndQueued ==
    ASSUME Inv, NEW w \in Workers, NEW k \in Job, NEW e \in Nat, k # JobOf(w),
           job[JobOf(w)].owner = w, job' = Queued(Closed(w, "SUCCEEDED"), k, e)
    PROVE  /\ JobOf(w) \in Job
           /\ job'[JobOf(w)].status = "SUCCEEDED"
           /\ job'[k].status \notin {"RUNNING", "FAILED"}
           /\ job'[k].status = "SUCCEEDED" => job[k].status = "SUCCEEDED"
           /\ \A i \in Job : i # JobOf(w) /\ i # k =>
                  /\ job'[i] = job[i]
                  /\ job[i].status \notin {"PENDING", "RUNNING", "FAILED"}
           /\ \A i \in Job : JobMoves(i)
           /\ job[JobOf(w)].status = "RUNNING"
<1> DEFINE j == JobOf(w)
           closed == Closed(w, "SUCCEEDED")
<1>1. /\ j \in Job
      /\ closed \in [Job -> JobRow]
      /\ \A i \in Job : i # j => closed[i] = job[i]
      /\ closed[j].status = "SUCCEEDED" /\ closed[j].owner = NoOwner
      /\ closed[j].attempts = job[j].attempts
  <2>1. "SUCCEEDED" \in JobStatus
    BY DEF JobStatus
  <2> QED
    BY <2>1, ClosedRows DEF Inv, Typed
<1>2. job[j].status = "RUNNING"
  BY <1>1, WorkersAssumption DEF Inv, JobsMatch
<1>3. \A i \in Job : i # j => job[i].status \notin {"PENDING", "RUNNING", "FAILED"}
  BY <1>1, <1>2, Waiting
<1> HIDE DEF closed
<1>4. /\ \A i \in Job : i # k => job'[i] = closed[i]
      /\ closed[k].status # "NONE" => job'[k] = closed[k]
      /\ closed[k].status = "NONE" =>
             job'[k].status = "PENDING" /\ job'[k].attempts = 0 /\ job'[k].owner = NoOwner
  <2>1. job' = Queued(closed, k, e)
    BY DEF closed
  <2> QED
    BY <1>1, <2>1, QueuedRows
<1>5. \A i \in Job : JobMoves(i)
  <2> SUFFICES ASSUME NEW i \in Job PROVE JobMoves(i)
    OBVIOUS
  <2>1. CASE i = j
    BY <1>1, <1>2, <1>4, <2>1 DEF JobMoves
  <2>2. CASE i = k
    BY <1>1, <1>4, <2>2 DEF JobMoves
  <2>3. CASE i # j /\ i # k
    BY <1>1, <1>4, <2>3 DEF JobMoves
  <2> QED
    BY <2>1, <2>2, <2>3
<1>6. /\ job'[k].status \notin {"RUNNING", "FAILED"}
      /\ job'[k].status = "SUCCEEDED" => job[k].status = "SUCCEEDED"
  BY <1>1, <1>3, <1>4
<1> QED
  BY <1>1, <1>2, <1>3, <1>4, <1>5, <1>6

\* When a worker ends its job, what the others know stays as it was.
LEMMA OthersMatch ==
    ASSUME Inv, NEW w \in Workers, job[JobOf(w)].owner = w, Ends(w),
           \A i \in Job : JobMoves(i),
           \A q \in Revision : q # exec.current => rev'[q].head = rev[q].head,
           tree' = tree
    PROVE  ClaimsMatch'
<1>1. /\ \A v \in Workers : v # w => claim'[v] = claim[v]
      /\ claim'[w].phase = "idle"
  BY DEF Ends, Idle, Inv, Typed, TypeOK
<1>2. JobOf(w) \in Job /\ job[JobOf(w)].status = "RUNNING"
  <2>1. JobOf(w) \in Job
    BY DEF Inv, Typed, TypeOK, ClaimedJob, JobOf
  <2> QED
    BY <2>1, WorkersAssumption DEF Inv, JobsMatch
<1>3. ASSUME NEW v \in Workers, v # w PROVE ~JobIsCurrent(v)
  <2>1. JobOf(v) \in Job
    BY DEF Inv, Typed, TypeOK, ClaimedJob, JobOf
  <2>2. JobOf(v) # JobOf(w) => job[JobOf(v)].status \notin {"PENDING", "RUNNING", "FAILED"}
    BY <1>2, <2>1, Waiting
  <2> QED
    BY <1>3, <2>2 DEF JobIsCurrent
<1>4. \A v \in Workers \ {w} : claim'[v].phase # "idle" => ClaimMatches(v)'
  <2> DEFINE W == Workers \ {w}
  <2>1. /\ W \in SUBSET Workers
        /\ \A v \in W : claim'[v] = claim[v] /\ ~JobIsCurrent(v)
    BY <1>1, <1>3
  <2> HIDE DEF W
  <2>2. \A v \in W : claim'[v].phase # "idle" => ClaimMatches(v)'
    BY <2>1, ClaimsStay
  <2> QED
    BY <2>2 DEF W
<1> QED
  BY <1>1, <1>4 DEF ClaimsMatch

\* Queueing a job that was never queued.
LEMMA QueuedOnly ==
    ASSUME Inv, NEW k \in Job, NEW e \in Nat, job[k].status = "NONE", job' = Queued(job, k, e)
    PROVE  /\ job'[k].status = "PENDING"
           /\ \A i \in Job : i # k => job'[i] = job[i]
           /\ \A i \in Job : JobMoves(i)
<1>1. /\ job'[k].status = "PENDING" /\ job'[k].attempts = 0 /\ job'[k].owner = NoOwner
      /\ \A i \in Job : i # k => job'[i] = job[i]
  BY QueuedRows DEF Inv, Typed, TypeOK
<1> QED
  BY <1>1 DEF JobMoves

\* The history is in order when only the current revision changes, and keeps
\* its head.
LEMMA HistoryKept ==
    ASSUME Inv, NEW r \in Revision, exec.current = r, exec'.current = r,
           \A q \in Revision : q # r => rev'[q] = rev[q],
           rev'[r].head = rev[r].head,
           rev'[r].head # NoCommit <=>
               rev'[r].status \in {"REVIEW", "CHANGES_REQUESTED", "APPROVED"},
           rev'[r].feedback # "RESOLVED",
           rev'[r].feedback # "NONE" <=> rev'[r].status = "CHANGES_REQUESTED",
           exec'.status \in {"SUCCEEDED", "CLOSED"} =>
               exec.status \in {"SUCCEEDED", "CLOSED"} /\ exec'.head = exec.head
    PROVE  RevisionHistory'
<1>0. r \in Nat /\ \A q \in Revision : q \in Nat
  BY DEF Revision
<1>1. \A q \in Revision : rev'[q].head = rev[q].head
  OBVIOUS
<1>2. ASSUME NEW q \in Revision
      PROVE  /\ q < exec'.current => rev'[q].status = "CHANGES_REQUESTED"
             /\ q > exec'.current => rev'[q] = NoRevision
             /\ rev'[q].head # NoCommit <=>
                    rev'[q].status \in {"REVIEW", "CHANGES_REQUESTED", "APPROVED"}
             /\ rev'[q].feedback # "NONE" <=> rev'[q].status = "CHANGES_REQUESTED"
             /\ rev'[q].feedback = "RESOLVED" <=>
                    q < exec'.current /\ rev'[q + 1].head # NoCommit
             /\ q > 1 /\ rev'[q].head # NoCommit => rev'[q].head # rev'[q - 1].head
  <2>1. /\ q < exec.current => rev[q].status = "CHANGES_REQUESTED"
        /\ q > exec.current => rev[q] = NoRevision
        /\ rev[q].head # NoCommit <=>
               rev[q].status \in {"REVIEW", "CHANGES_REQUESTED", "APPROVED"}
        /\ rev[q].feedback # "NONE" <=> rev[q].status = "CHANGES_REQUESTED"
        /\ rev[q].feedback = "RESOLVED" <=> q < exec.current /\ rev[q + 1].head # NoCommit
        /\ q > 1 /\ rev[q].head # NoCommit => rev[q].head # rev[q - 1].head
    BY DEF Inv, RevisionHistory
  <2>2. q > 1 => rev'[q - 1].head = rev[q - 1].head
    BY <1>1, BoundsAssumption DEF Revision
  <2>3. q < r => rev'[q + 1].head = rev[q + 1].head
    BY <1>1, BoundsAssumption DEF Revision
  <2>4. CASE q = r
    BY <1>0, <2>1, <2>2, <2>4
  <2>5. CASE q # r
    <3>1. rev'[q] = rev[q]
      BY <2>5
    <3> QED
      BY <1>0, <2>1, <2>2, <2>3, <2>5, <3>1
  <2> QED
    BY <2>4, <2>5
<1>3. exec'.status \in {"SUCCEEDED", "CLOSED"} => exec'.head = rev'[exec'.current].head
  BY DEF Inv, RevisionHistory
<1> QED
  BY <1>2, <1>3 DEF RevisionHistory

\* When the current revision awaits a decision no job is unfinished.
LEMMA AtGate ==
    ASSUME Inv, NEW r \in Revision, exec.current = r,
           rev[r].status \in {"REVIEW", "CHANGES_REQUESTED"}
    PROVE  /\ exec.status = "SUCCEEDED"
           /\ \A i \in Job : job[i].status \notin {"PENDING", "RUNNING", "FAILED"}
           /\ rev[r].head # NoCommit
           /\ job[Close(r)].status = "NONE"
           /\ rev[r].status = "REVIEW" => rev[r].feedback = "NONE"
           /\ rev[r].feedback # "RESOLVED"
           /\ \A v \in Workers : ~JobIsCurrent(v)
<1>1. r # 0
  BY DEF Revision
<1>2. exec.status = "SUCCEEDED"
  <2>1. exec.status \in ExecutionStatus
    BY DEF Inv, Typed, TypeOK, ExecutionRow
  <2>2. exec.status \notin {"CLOSED", "RUNNING", "FAILED", "CANCELLED"}
    BY <1>1 DEF Inv, StageMatchesRevision
  <2>3. exec.status \notin {"NONE", "PENDING"}
    BY <1>1 DEF Inv, CurrentIsOpen
  <2> QED
    BY <2>1, <2>2, <2>3 DEF ExecutionStatus
<1>3. ASSUME NEW i \in Job, job[i].status \in {"PENDING", "RUNNING", "FAILED"} PROVE FALSE
  <2>1. i[1] = "CLOSE" /\ rev[i[2]].status = "APPROVED" /\ exec.current = i[2]
    BY <1>2, <1>3, Waiting, JobParts
  <2> QED
    BY <2>1
<1>4. rev[r].head # NoCommit /\ (rev[r].status = "REVIEW" => rev[r].feedback = "NONE")
  BY DEF Inv, RevisionHistory
<1>5. rev[r].feedback # "RESOLVED"
  BY DEF Inv, RevisionHistory, Revision
<1>6. job[Close(r)].status = "NONE"
  <2>1. Close(r) \in Job /\ Close(r)[1] = "CLOSE" /\ Close(r)[2] = r
    BY JobNames
  <2> QED
    BY <2>1 DEF Inv, JobsMatch
<1>7. \A v \in Workers : ~JobIsCurrent(v)
  BY <1>3, ClaimTypes DEF JobIsCurrent, Inv
<1> QED
  BY <1>2, <1>3, <1>4, <1>5, <1>6, <1>7

\* An approval queues the closing of what was approved.
LEMMA InvApprove ==
    ASSUME Inv, Typed', NEW r \in Revision, Approve(r) PROVE Inv'
<1>1. /\ Reviewable(r) /\ exec.current = r /\ stage = "VERIFICATION" /\ rev[r].status = "REVIEW"
      /\ UNCHANGED <<stage, exec, outbox, claim, tree>>
      /\ job' = Queued(job, Close(r), version + 1)
  BY DEF Approve, Reviewable, git
<1>2. /\ exec.status = "SUCCEEDED"
      /\ \A i \in Job : job[i].status \notin {"PENDING", "RUNNING", "FAILED"}
      /\ job[Close(r)].status = "NONE"
      /\ rev[r].head # NoCommit /\ rev[r].feedback = "NONE"
      /\ \A v \in Workers : ~JobIsCurrent(v)
  BY <1>1, AtGate
<1>3. /\ Close(r) \in Job /\ Close(r)[1] = "CLOSE" /\ Close(r)[2] = r
      /\ version + 1 \in Nat /\ exec.current \in Nat /\ r # 0
  BY <1>1, JobNames DEF Inv, Typed, TypeOK, Revision
<1>4. /\ job'[Close(r)].status = "PENDING"
      /\ \A i \in Job : i # Close(r) => job'[i] = job[i]
      /\ \A i \in Job : JobMoves(i)
  BY <1>1, <1>2, <1>3, QueuedOnly
<1>5. /\ \A q \in Revision : q # r => rev'[q] = rev[q]
      /\ rev'[r].status = "APPROVED" /\ rev'[r].head = rev[r].head
      /\ rev'[r].feedback = rev[r].feedback
  <2>1. rev[r] \in RevisionRow /\ rev \in [Revision -> RevisionRow]
    BY DEF Inv, Typed, TypeOK
  <2> QED
    BY <2>1 DEF Approve, RevisionRow
<1>6. OneOperation' /\ JobsMatch'
  <2>1. Awaits(Close(r))'
    BY <1>1, <1>2, <1>3, <1>5 DEF Awaits
  <2>2. \A q \in Revision : rev[q].status = "APPROVED" => rev'[q].status = "APPROVED"
    BY <1>5
  <2> QED
    BY <1>1, <1>2, <1>3, <1>4, <2>1, <2>2, JobsFollow
<1>7. ClaimsMatch'
  <2>1. \A q \in Revision : q # exec.current => rev'[q].head = rev[q].head
    BY <1>1, <1>5
  <2>2. \A v \in Workers : claim'[v].phase # "idle" => ClaimMatches(v)'
    BY <1>1, <1>2, <1>4, <2>1, ClaimsStay
  <2> QED
    BY <2>2 DEF ClaimsMatch
<1>8. RevisionHistory'
  BY <1>1, <1>2, <1>5, HistoryKept
<1>9. StageMatchesRevision' /\ CurrentIsOpen' /\ WorktreeSafe'
  BY <1>1, <1>2, <1>3, <1>5 DEF Inv, StageMatchesRevision, CurrentIsOpen, WorktreeSafe, WorktreeKept
<1>10. NoticesTruthful'
  <2>1. \A q \in Revision : rev'[q].head = rev[q].head
    BY <1>5
  <2>3. /\ \A q \in Revision : <<"REVIEW_REQUIRED", q>> \in outbox' <=> rev'[q].head # NoCommit
        /\ <<"ABANDONED">> \in outbox' <=> exec'.status = "CANCELLED"
    BY <1>1, <2>1 DEF Inv, NoticesTruthful
  <2>4. \A i \in Job : /\ job'[i].status = "FAILED" => job[i].status = "FAILED"
                       /\ job'[i].status = "SUCCEEDED" => job[i].status \in {"RUNNING", "SUCCEEDED"}
    BY <1>4
  <2> QED
    BY <1>1, <1>4, <2>3, <2>4, NoticesSame
<1> QED
  BY <1>6, <1>7, <1>8, <1>9, <1>10 DEF Inv

\* Sending a revision back leaves it to the person who addresses it.
LEMMA InvRequestChanges ==
    ASSUME Inv, Typed', NEW r \in Revision, RequestChanges(r) PROVE Inv'
<1>1. /\ exec.current = r /\ stage = "VERIFICATION" /\ rev[r].status = "REVIEW"
      /\ UNCHANGED <<exec, job, claim, tree>> /\ stage' = "IMPLEMENTATION"
  BY DEF RequestChanges, Reviewable, git
<1>2. /\ exec.status = "SUCCEEDED"
      /\ \A i \in Job : job[i].status \notin {"PENDING", "RUNNING", "FAILED"}
      /\ rev[r].head # NoCommit
      /\ \A v \in Workers : ~JobIsCurrent(v)
  BY <1>1, AtGate
<1>3. exec.current \in Nat /\ r # 0 /\ Prepare \in Job
  <2>1. Prepare \in Job
    BY JobShape
  <2> QED
    BY <1>1, <2>1 DEF Revision
<1>4. \A i \in Job : JobMoves(i) /\ job'[i] = job[i]
  BY <1>1 DEF JobMoves
<1>5. /\ \A q \in Revision : q # r => rev'[q] = rev[q]
      /\ rev'[r].status = "CHANGES_REQUESTED" /\ rev'[r].head = rev[r].head
      /\ rev'[r].feedback = "OPEN"
  <2>1. rev[r] \in RevisionRow /\ rev \in [Revision -> RevisionRow]
    BY DEF Inv, Typed, TypeOK
  <2> QED
    BY <2>1 DEF RequestChanges, RevisionRow
<1>6. OneOperation' /\ JobsMatch'
  <2>1. \A q \in Revision : rev[q].status = "APPROVED" => rev'[q].status = "APPROVED"
    BY <1>1, <1>5
  <2> QED
    BY <1>1, <1>2, <1>3, <1>4, <2>1, JobsFollow
<1>7. ClaimsMatch'
  <2>1. \A q \in Revision : q # exec.current => rev'[q].head = rev[q].head
    BY <1>1, <1>5
  <2>2. \A v \in Workers : claim'[v].phase # "idle" => ClaimMatches(v)'
    BY <1>1, <1>2, <1>4, <2>1, ClaimsStay
  <2> QED
    BY <2>2 DEF ClaimsMatch
<1>8. RevisionHistory'
  BY <1>1, <1>2, <1>5, HistoryKept
<1>9. StageMatchesRevision' /\ CurrentIsOpen' /\ WorktreeSafe'
  BY <1>1, <1>2, <1>3, <1>5 DEF Inv, StageMatchesRevision, CurrentIsOpen, WorktreeSafe, WorktreeKept
<1>10. NoticesTruthful'
  <2> DEFINE S == {<<"STAGE_UPDATED", "IMPLEMENTATION", version + 1>>, <<"CHANGES_REQUESTED", r>>}
  <2>1. \A q \in Revision : rev'[q].head = rev[q].head
    BY <1>5
  <2>2. outbox' = outbox \cup S /\ \A x \in S : x[1] \notin {"FAILED", "RETRY_QUEUED"}
    BY DEF RequestChanges
  <2>3. /\ \A q \in Revision : <<"REVIEW_REQUIRED", q>> \notin S
        /\ <<"ABANDONED">> \notin S
    OBVIOUS
  <2> HIDE DEF S
  <2>4. /\ \A q \in Revision : <<"REVIEW_REQUIRED", q>> \in outbox' <=> rev'[q].head # NoCommit
        /\ <<"ABANDONED">> \in outbox' <=> exec'.status = "CANCELLED"
    BY <1>1, <2>1, <2>2, <2>3 DEF Inv, NoticesTruthful
  <2>5. \A i \in Job : /\ job'[i].status = "FAILED" => job[i].status = "FAILED"
                       /\ job'[i].status = "SUCCEEDED" => job[i].status \in {"RUNNING", "SUCCEEDED"}
    BY <1>4
  <2> QED
    BY <1>4, <2>2, <2>4, <2>5, NoticesKept
<1> QED
  BY <1>6, <1>7, <1>8, <1>9, <1>10 DEF Inv

\* The next revision begins with the head and the worktree it finds.
LEMMA InvAddress ==
    ASSUME Inv, Typed', NEW r \in Revision, AddressWithAgent(r) PROVE Inv'
<1>1. /\ exec.current = r /\ rev[r].status = "CHANGES_REQUESTED" /\ rev[r].feedback = "OPEN"
      /\ r < MaxRevision /\ stage = "IMPLEMENTATION"
      /\ UNCHANGED <<stage, outbox, claim, tree>>
      /\ job' = Queued(job, Run(r + 1), version)
  BY DEF AddressWithAgent, git
<1>2. /\ exec.status = "SUCCEEDED"
      /\ \A i \in Job : job[i].status \notin {"PENDING", "RUNNING", "FAILED"}
      /\ rev[r].head # NoCommit
      /\ \A v \in Workers : ~JobIsCurrent(v)
  BY <1>1, AtGate
<1>3. /\ r + 1 \in Revision /\ r \in Nat /\ r # 0 /\ version \in Nat
  BY <1>1, BoundsAssumption DEF Revision, Inv, Typed, TypeOK
<1>4. /\ Run(r + 1) \in Job /\ Run(r + 1)[1] = "RUN" /\ Run(r + 1)[2] = r + 1
  BY <1>3, JobNames
<1>5. exec'.status = "RUNNING" /\ exec'.current = r + 1 /\ exec'.worktree = exec.worktree
  BY DEF AddressWithAgent, Inv, Typed, TypeOK, ExecutionRow
<1>6. rev[r + 1] = NoRevision
  BY <1>1, <1>3 DEF Inv, RevisionHistory
<1>7. /\ \A q \in Revision : q # r + 1 => rev'[q] = rev[q]
      /\ rev'[r + 1].status = "UPDATING" /\ rev'[r + 1].head = NoCommit
      /\ rev'[r + 1].feedback = "NONE"
  <2>1. rev \in [Revision -> RevisionRow]
    BY DEF Inv, Typed, TypeOK
  <2> QED
    BY <1>3, <1>6, <2>1 DEF AddressWithAgent, NoRevision
<1>8. /\ job'[Run(r + 1)].status = "PENDING"
      /\ \A i \in Job : i # Run(r + 1) => job'[i] = job[i]
      /\ \A i \in Job : JobMoves(i)
  <2>1. ~(r + 1 <= r)
    BY <1>3
  <2>2. job[Run(r + 1)].status = "NONE"
    BY <1>1, <1>4, <2>1 DEF Inv, JobsMatch
  <2> QED
    BY <1>1, <1>3, <1>4, <2>2, QueuedOnly
<1>9. OneOperation' /\ JobsMatch'
  <2>1. Awaits(Run(r + 1))'
    BY <1>4, <1>5 DEF Awaits
  <2>2. \A q \in Revision : rev[q].status = "APPROVED" => rev'[q].status = "APPROVED"
    BY <1>6, <1>7 DEF NoRevision
  <2>3. exec.current \in Nat /\ exec'.current \in Nat /\ exec'.current >= exec.current
    BY <1>1, <1>3, <1>5
  <2> QED
    BY <1>2, <1>4, <1>5, <1>8, <2>1, <2>2, <2>3, JobsFollow
<1>10. \A q \in Revision : rev'[q].head = rev[q].head
  BY <1>6, <1>7 DEF NoRevision
<1>11. ClaimsMatch'
  <2>1. \A v \in Workers : claim'[v].phase # "idle" => ClaimMatches(v)'
    BY <1>1, <1>2, <1>8, <1>10, ClaimsStay
  <2> QED
    BY <2>1 DEF ClaimsMatch
<1>12. RevisionHistory'
  <2> SUFFICES ASSUME NEW q \in Revision
               PROVE  /\ q < r + 1 => rev'[q].status = "CHANGES_REQUESTED"
                      /\ q > r + 1 => rev'[q] = NoRevision
                      /\ rev'[q].head # NoCommit <=>
                             rev'[q].status \in {"REVIEW", "CHANGES_REQUESTED", "APPROVED"}
                      /\ rev'[q].feedback # "NONE" <=> rev'[q].status = "CHANGES_REQUESTED"
                      /\ rev'[q].feedback = "RESOLVED" <=>
                             q < r + 1 /\ rev'[q + 1].head # NoCommit
                      /\ q > 1 /\ rev'[q].head # NoCommit => rev'[q].head # rev'[q - 1].head
    BY <1>5 DEF RevisionHistory
  <2>0. q \in Nat /\ r \in Nat
    BY <1>3 DEF Revision
  <2>1. /\ q < r => rev[q].status = "CHANGES_REQUESTED"
        /\ q > r => rev[q] = NoRevision
        /\ rev[q].head # NoCommit <=>
               rev[q].status \in {"REVIEW", "CHANGES_REQUESTED", "APPROVED"}
        /\ rev[q].feedback # "NONE" <=> rev[q].status = "CHANGES_REQUESTED"
        /\ rev[q].feedback = "RESOLVED" <=> q < r /\ rev[q + 1].head # NoCommit
        /\ q > 1 /\ rev[q].head # NoCommit => rev[q].head # rev[q - 1].head
    BY <1>1 DEF Inv, RevisionHistory
  <2>2. q > 1 => rev'[q - 1].head = rev[q - 1].head
    BY <1>10, BoundsAssumption DEF Revision
  <2>3. q < r => rev'[q + 1].head = rev[q + 1].head
    BY <1>3, <1>10, BoundsAssumption DEF Revision
  <2>4. CASE q < r
    BY <1>7, <2>0, <2>1, <2>2, <2>3, <2>4
  <2>5. CASE q = r
    BY <1>1, <1>7, <2>0, <2>1, <2>2, <2>5
  <2>6. CASE q = r + 1
    BY <1>7, <2>0, <2>6
  <2>7. CASE q > r + 1
    BY <1>7, <2>0, <2>1, <2>7 DEF NoRevision
  <2> QED
    BY <2>0, <2>4, <2>5, <2>6, <2>7
<1>13. StageMatchesRevision' /\ CurrentIsOpen' /\ WorktreeSafe'
  BY <1>1, <1>2, <1>3, <1>5, <1>7 DEF Inv, StageMatchesRevision, CurrentIsOpen, WorktreeSafe, WorktreeKept
<1>14. NoticesTruthful'
  <2>3. /\ \A q \in Revision : <<"REVIEW_REQUIRED", q>> \in outbox' <=> rev'[q].head # NoCommit
        /\ <<"ABANDONED">> \in outbox' <=> exec'.status = "CANCELLED"
    BY <1>1, <1>2, <1>5, <1>10 DEF Inv, NoticesTruthful
  <2>4. \A i \in Job : /\ job'[i].status = "FAILED" => job[i].status = "FAILED"
                       /\ job'[i].status = "SUCCEEDED" => job[i].status \in {"RUNNING", "SUCCEEDED"}
    BY <1>8
  <2> QED
    BY <1>1, <1>8, <2>3, <2>4, NoticesSame
<1> QED
  BY <1>9, <1>11, <1>12, <1>13, <1>14 DEF Inv

\* Trying a failed operation again puts everything back to where it waits for
\* that operation.
LEMMA InvRetry ==
    ASSUME Inv, Typed', NEW j \in Job, Retry(j) PROVE Inv'
<1>1. /\ job[j].status = "FAILED" /\ RetryAllowed(j)
      /\ UNCHANGED <<stage, claim, tree>>
      /\ outbox' = outbox \cup {<<"RETRY_QUEUED", j, job[j].attempts + 1>>}
  BY DEF Retry, git
<1>2. /\ \A i \in Job : i # j => job[i].status \notin {"PENDING", "RUNNING", "FAILED"}
      /\ j[1] = "PREPARE" => exec.current = 0 /\ exec.status = "FAILED"
      /\ j[1] \in {"RUN", "VERIFY"} =>
             exec.current = j[2] /\ exec.status = "FAILED" /\ rev[j[2]].status = "FAILED"
      /\ j[1] = "CLOSE" =>
             exec.current = j[2] /\ exec.status = "SUCCEEDED" /\ rev[j[2]].status = "APPROVED"
      /\ j[1] = "CLEANUP" => exec.status = "CANCELLED"
  BY <1>1, Waiting
<1>3. /\ j[1] \in {"PREPARE", "RUN", "VERIFY", "CLOSE", "CLEANUP"}
      /\ j[2] \in Revision /\ j[2] \in Nat /\ j[2] # 0
  BY JobParts
<1>4. /\ job[j].owner = NoOwner /\ job[j].attempts \in 0..MaxAttempts
      /\ job \in [Job -> JobRow] /\ job[j] \in JobRow
      /\ exec \in ExecutionRow /\ rev \in [Revision -> RevisionRow]
      /\ exec.current \in Nat
  <2>1. job \in [Job -> JobRow] /\ exec \in ExecutionRow /\ rev \in [Revision -> RevisionRow]
    BY DEF Inv, Typed, TypeOK
  <2>2. job[j].attempts \in 0..MaxAttempts /\ exec.current \in Nat
    BY <2>1 DEF JobRow, ExecutionRow
  <2>3. job[j].owner = NoOwner
    BY <1>1 DEF Inv, JobsMatch
  <2> QED
    BY <2>1, <2>2, <2>3
<1>5. /\ \A i \in Job : i # j => job'[i] = job[i]
      /\ job'[j].status = "PENDING" /\ job'[j].owner = NoOwner
      /\ job'[j].attempts = job[j].attempts
      /\ \A i \in Job : JobMoves(i)
  <2>1. /\ \A i \in Job : i # j => job'[i] = job[i]
        /\ job'[j].status = "PENDING" /\ job'[j].owner = NoOwner
        /\ job'[j].attempts = job[j].attempts
    BY <1>4 DEF Retry, JobRow
  <2> QED
    BY <1>1, <2>1 DEF JobMoves
<1>6. /\ exec'.current = exec.current /\ exec'.worktree = exec.worktree
      /\ exec'.head = exec.head
      /\ exec'.status = IF j[1] = "PREPARE" THEN "PENDING"
                        ELSE IF j[1] \in {"RUN", "VERIFY"} THEN "RUNNING" ELSE exec.status
  BY <1>3, <1>4 DEF Retry, ExecutionRow
<1>7. /\ j[1] \notin {"RUN", "VERIFY"} => rev' = rev
      /\ j[1] \in {"RUN", "VERIFY"} =>
             /\ \A q \in Revision : q # j[2] => rev'[q] = rev[q]
             /\ rev'[j[2]].status = "UPDATING"
             /\ rev'[j[2]].head = rev[j[2]].head /\ rev'[j[2]].feedback = rev[j[2]].feedback
  <2>1. rev[j[2]] \in RevisionRow
    BY <1>3, <1>4
  <2> QED
    BY <1>2, <1>3, <1>4, <2>1 DEF Retry, RevisionRow
<1>8. \A q \in Revision : /\ rev'[q].head = rev[q].head
                          /\ rev[q].status = "APPROVED" => rev'[q].status = "APPROVED"
  BY <1>2, <1>3, <1>7
<1>9. OneOperation' /\ JobsMatch'
  <2>1. Awaits(j)'
    BY <1>2, <1>3, <1>6, <1>7 DEF Awaits
  <2>2. exec'.current >= exec.current /\ exec'.status # "FAILED"
        /\ (exec.status = "CANCELLED" => exec'.status = "CANCELLED")
    BY <1>2, <1>3, <1>4, <1>6
  <2> QED
    BY <1>2, <1>4, <1>5, <1>6, <1>8, <2>1, <2>2, JobsFollow
<1>10. ClaimsMatch'
  <2>1. \A v \in Workers : ~JobIsCurrent(v)
    BY <1>1, <1>2, ClaimTypes DEF JobIsCurrent, Inv
  <2>2. \A v \in Workers : claim'[v].phase # "idle" => ClaimMatches(v)'
    BY <1>1, <1>5, <1>8, <2>1, ClaimsStay
  <2> QED
    BY <2>2 DEF ClaimsMatch
<1>11. RevisionHistory'
  <2>1. CASE j[1] \in {"RUN", "VERIFY"}
    <3>1. /\ rev[j[2]].head = NoCommit /\ rev[j[2]].feedback = "NONE"
      BY <1>2, <1>3, <2>1 DEF Inv, RevisionHistory
    <3> QED
      BY <1>2, <1>3, <1>6, <1>7, <2>1, <3>1, HistoryKept
  <2>2. CASE j[1] \notin {"RUN", "VERIFY"}
    BY <1>2, <1>6, <1>7, <2>2 DEF Inv, RevisionHistory
  <2> QED
    BY <2>1, <2>2
<1>12. StageMatchesRevision' /\ CurrentIsOpen' /\ WorktreeSafe'
  <2>1. CASE j[1] \in {"RUN", "VERIFY"}
    BY <1>1, <1>2, <1>3, <1>6, <1>7, <2>1
       DEF Inv, StageMatchesRevision, CurrentIsOpen, WorktreeSafe, WorktreeKept
  <2>2. CASE j[1] = "PREPARE"
    BY <1>1, <1>2, <1>6, <1>7, <2>2
       DEF Inv, StageMatchesRevision, CurrentIsOpen, WorktreeSafe, WorktreeKept
  <2>3. CASE j[1] \in {"CLOSE", "CLEANUP"}
    BY <1>1, <1>2, <1>6, <1>7, <2>3
       DEF Inv, StageMatchesRevision, CurrentIsOpen, WorktreeSafe, WorktreeKept
  <2> QED
    BY <1>3, <2>1, <2>2, <2>3
<1>13. NoticesTruthful'
  <2>1. ASSUME NEW i \in Job, NEW a \in 1..MaxAttempts,
               <<"FAILED", i, a>> \in outbox', a >= job'[i].attempts
        PROVE  a = job'[i].attempts /\ job'[i].status \in {"PENDING", "FAILED", "CANCELLED"}
    <3>1. <<"FAILED", i, a>> \in outbox /\ a >= job[i].attempts
      BY <1>1, <1>5, <2>1
    <3>2. a = job[i].attempts /\ job[i].status \in {"PENDING", "FAILED", "CANCELLED"}
      BY <3>1 DEF Inv, NoticesTruthful
    <3> QED
      BY <1>5, <3>2
  <2>2. ASSUME NEW i \in Job, NEW a \in 1..MaxAttempts, <<"RETRY_QUEUED", i, a>> \in outbox'
        PROVE  <<"FAILED", i, a - 1>> \in outbox'
    <3>1. CASE <<"RETRY_QUEUED", i, a>> \in outbox
      BY <1>1, <3>1 DEF Inv, NoticesTruthful
    <3>2. CASE i = j /\ a = job[j].attempts + 1
      <4>1. a - 1 = job[j].attempts
        BY <1>4, <3>2
      <4>2. <<"FAILED", j, job[j].attempts>> \in outbox
        BY <1>1 DEF Inv, NoticesTruthful
      <4> QED
        BY <1>1, <3>2, <4>1, <4>2
    <3> QED
      BY <1>1, <2>2, <3>1, <3>2
  <2>3. ASSUME NEW i \in Job, job'[i].status = "FAILED"
        PROVE  <<"FAILED", i, job'[i].attempts>> \in outbox'
    <3>1. job'[i] = job[i]
      BY <1>5, <2>3
    <3> QED
      BY <1>1, <2>3, <3>1 DEF Inv, NoticesTruthful
  <2>4. \A q \in Revision : <<"REVIEW_REQUIRED", q>> \in outbox' <=> rev'[q].head # NoCommit
    BY <1>1, <1>8 DEF Inv, NoticesTruthful
  <2>5. <<"ABANDONED">> \in outbox' <=> exec'.status = "CANCELLED"
    BY <1>1, <1>2, <1>3, <1>6 DEF Inv, NoticesTruthful
  <2> QED
    BY <2>1, <2>2, <2>3, <2>4, <2>5 DEF NoticesTruthful
<1> QED
  BY <1>9, <1>10, <1>11, <1>12, <1>13 DEF Inv

\* Giving the execution up ends what is left of it and queues the cleanup.
LEMMA InvAbandon ==
    ASSUME Inv, Typed', Abandon PROVE Inv'
<1>1. /\ exec.status = "FAILED" /\ UNCHANGED <<stage, rev, claim, tree>>
      /\ exec' = [exec EXCEPT !.status = "CANCELLED"]
      /\ outbox' = outbox \cup {<<"ABANDONED">>}
  BY DEF Abandon, git
<1>2. /\ exec'.status = "CANCELLED" /\ exec'.current = exec.current
      /\ exec.current \in Nat
  BY <1>1 DEF Inv, Typed, TypeOK, ExecutionRow
<1>3. /\ Cleanup \in Job /\ Cleanup[1] = "CLEANUP"
  BY JobShape DEF Cleanup
<1> DEFINE row(i) == IF job[i].status \in {"PENDING", "RUNNING", "FAILED"}
                     THEN [job[i] EXCEPT !.status = "CANCELLED", !.owner = NoOwner, !.live = FALSE]
                     ELSE job[i]
           jobs == [i \in Job |-> row(i)]
<1>4. ASSUME NEW i \in Job
      PROVE  /\ row(i) \in JobRow
             /\ row(i).attempts = job[i].attempts
             /\ job[i].status \in {"PENDING", "RUNNING", "FAILED"} =>
                    row(i).status = "CANCELLED" /\ row(i).owner = NoOwner
             /\ job[i].status \notin {"PENDING", "RUNNING", "FAILED"} => row(i) = job[i]
  <2>1. job[i] \in JobRow
    BY DEF Inv, Typed, TypeOK
  <2> QED
    BY <2>1 DEF JobRow, JobStatus
<1>5. job' = Queued(jobs, Cleanup, 0)
  BY DEF Abandon
<1> HIDE DEF row
<1>6. jobs \in [Job -> JobRow] /\ \A i \in Job : jobs[i] = row(i)
  BY <1>4
<1>7. job[Cleanup].status = "NONE"
  BY <1>1, <1>3 DEF Inv, JobsMatch
<1> HIDE DEF jobs
<1>8. /\ \A i \in Job : i # Cleanup => job'[i] = row(i)
      /\ job'[Cleanup].status = "PENDING" /\ job'[Cleanup].attempts = 0
      /\ job'[Cleanup].owner = NoOwner
  <2>1. jobs[Cleanup].status = "NONE"
    BY <1>3, <1>4, <1>6, <1>7
  <2>2. 0 \in Nat
    OBVIOUS
  <2> QED
    BY <1>3, <1>5, <1>6, <2>1, <2>2, QueuedRows
<1>9. \A i \in Job : JobMoves(i)
  <2> SUFFICES ASSUME NEW i \in Job PROVE JobMoves(i)
    OBVIOUS
  <2>1. CASE i = Cleanup
    BY <1>7, <1>8, <2>1 DEF JobMoves
  <2>2. CASE i # Cleanup
    BY <1>4, <1>8, <2>2 DEF JobMoves
  <2> QED
    BY <2>1, <2>2
<1>10. \A i \in Job : i # Cleanup =>
           /\ job'[i].status \notin {"PENDING", "RUNNING", "FAILED"}
           /\ job[i].status = "NONE" => job'[i].status = "NONE"
           /\ job'[i].status = "SUCCEEDED" => job[i].status = "SUCCEEDED"
  BY <1>4, <1>8
<1>11. OneOperation' /\ JobsMatch'
  <2>1. Awaits(Cleanup)'
    BY <1>2, <1>3 DEF Awaits
  <2>2. exec'.current >= exec.current /\ exec'.status # "FAILED"
    BY <1>2
  <2> QED
    BY <1>1, <1>2, <1>3, <1>8, <1>9, <1>10, <2>1, <2>2, JobsFollow
<1>12. ClaimsMatch'
  <2>1. ASSUME NEW v \in Workers PROVE ~JobIsCurrent(v)'
    <3>1. JobOf(v)' = JobOf(v) /\ JobOf(v) \in Job
      BY <1>1, ClaimTypes DEF JobOf, Inv
    <3>2. job'[JobOf(v)].status # "RUNNING"
      BY <1>8, <1>10, <3>1
    <3> QED
      BY <3>1, <3>2 DEF JobIsCurrent
  <2>2. \A v \in Workers : claim'[v].phase # "idle" => ClaimMatches(v)'
    BY <1>1, <1>9, <2>1, ClaimsStay
  <2> QED
    BY <2>2 DEF ClaimsMatch
<1>13. RevisionHistory' /\ StageMatchesRevision' /\ CurrentIsOpen' /\ WorktreeSafe'
  BY <1>1, <1>2 DEF Inv, RevisionHistory, StageMatchesRevision, CurrentIsOpen, WorktreeSafe, WorktreeKept
<1>14. NoticesTruthful'
  <2>1. PICK S : S = {<<"ABANDONED">>}
    OBVIOUS
  <2>2. outbox' = outbox \cup S /\ \A x \in S : x[1] \notin {"FAILED", "RETRY_QUEUED"}
    BY <1>1, <2>1
  <2>3. \A q \in Revision : <<"REVIEW_REQUIRED", q>> \in outbox' <=> rev'[q].head # NoCommit
    BY <1>1 DEF Inv, NoticesTruthful
  <2>4. <<"ABANDONED">> \in outbox' <=> exec'.status = "CANCELLED"
    BY <1>1, <1>2
  <2> QED
    BY <1>8, <1>9, <1>10, <2>2, <2>3, <2>4, NoticesKept
<1> QED
  BY <1>11, <1>12, <1>13, <1>14 DEF Inv

\* A claim takes the job over from whoever held it.
LEMMA InvClaim ==
    ASSUME Inv, Typed', NEW w \in Workers, NEW j \in Job, Claim(w, j) PROVE Inv'
<1>1. /\ job[j].status \in {"PENDING", "RUNNING"}
      /\ UNCHANGED <<stage, exec, rev, outbox, tree>>
  BY DEF Claim, Claimable, git
<1>2. /\ \A i \in Job : i # j => job[i].status \notin {"PENDING", "RUNNING", "FAILED"}
      /\ exec.status # "FAILED"
  BY <1>1, Waiting DEF Inv, JobsMatch, Active
<1>3. /\ job[j].attempts \in Nat
      /\ \A i \in Job : i # j => job'[i] = job[i]
      /\ job'[j].status = "RUNNING" /\ job'[j].owner = w
      /\ job'[j].attempts = job[j].attempts + 1
  <2>1. job \in [Job -> JobRow] /\ job[j] \in JobRow
    BY DEF Inv, Typed, TypeOK
  <2>2. job[j].attempts \in Nat
    BY <2>1 DEF JobRow
  <2> QED
    BY <2>1, <2>2 DEF Claim, JobRow
<1>4. /\ \A v \in Workers : v # w => claim'[v] = claim[v]
      /\ claim'[w].phase = "claimed" /\ claim'[w].job = j
      /\ claim'[w].attempt = job[j].attempts + 1
  <2>1. claim \in [Workers -> ClaimedJob]
    BY DEF Inv, Typed, TypeOK
  <2> QED
    BY <2>1 DEF Claim, Idle
<1>5. OneOperation'
  <2>1. Awaits(j)' /\ j[1] \in {"PREPARE", "RUN", "VERIFY", "CLOSE", "CLEANUP"}
    <3>1. j \in Unfinished
      BY <1>1 DEF Unfinished, Active
    <3>2. Awaits(j)
      BY <3>1 DEF Inv, OneOperation
    <3> QED
      BY <1>1, <3>2, JobParts DEF Awaits
  <2>2. Unfinished' \subseteq {j}
    BY <1>2, <1>3 DEF Unfinished, Active
  <2>3. ASSUME NEW i \in Unfinished' PROVE Awaits(i)' /\ i = j
    BY <2>1, <2>2, <2>3
  <2> QED
    BY <2>3 DEF OneOperation
<1>6. JobsMatch'
  <2> SUFFICES ASSUME NEW i \in Job
               PROVE  /\ job'[i].status = "RUNNING" <=> job'[i].owner # NoOwner
                      /\ job'[i].status = "FAILED" =>
                             exec'.status = "FAILED" \/ i[1] \in {"CLOSE", "CLEANUP"}
                      /\ job'[i].status \in Active => exec'.status # "FAILED"
                      /\ job'[i].status = "NONE" => job'[i].attempts = 0
                      /\ job'[i].status # "NONE" =>
                             /\ i[1] \in {"RUN", "VERIFY", "CLOSE"} => i[2] <= exec'.current
                             /\ i[1] = "CLOSE" => rev'[i[2]].status = "APPROVED"
                             /\ i[1] = "CLEANUP" => exec'.status = "CANCELLED"
    BY DEF JobsMatch
  <2>1. CASE i = j
    BY <1>1, <1>2, <1>3, <2>1, WorkersAssumption DEF Inv, JobsMatch
  <2>2. CASE i # j
    BY <1>1, <1>3, <2>2 DEF Inv, JobsMatch
  <2> QED
    BY <2>1, <2>2
<1>7. ClaimsMatch'
  <2>1. ClaimMatches(w)'
    BY <1>3, <1>4 DEF ClaimMatches, JobOf
  <2>2. ASSUME NEW v \in Workers, v # w, claim[v].phase # "idle" PROVE ClaimMatches(v)'
    <3>1. claim'[v] = claim[v] /\ JobOf(v) \in Job /\ job[JobOf(v)].status # "NONE"
      BY <1>4, <2>2, ClaimTypes DEF Inv, ClaimsMatch, ClaimMatches
    <3>2. JobOf(v)' = JobOf(v)
      BY <3>1 DEF JobOf
    <3>3. job'[JobOf(v)].status # "NONE" /\ (JobIsCurrent(v)' => JobIsCurrent(v))
      BY <1>3, <2>2, <3>1, <3>2 DEF JobIsCurrent
    <3> QED
      BY <1>1, <2>2, <3>1, <3>3, ClaimKept
  <2> QED
    BY <1>4, <2>1, <2>2 DEF ClaimsMatch
<1>8. RevisionHistory' /\ StageMatchesRevision' /\ CurrentIsOpen' /\ WorktreeSafe'
  BY <1>1 DEF Inv, RevisionHistory, StageMatchesRevision, CurrentIsOpen, WorktreeSafe, WorktreeKept
<1>9. NoticesTruthful'
  <2>1. ASSUME NEW i \in Job, NEW a \in 1..MaxAttempts,
               <<"FAILED", i, a>> \in outbox', a >= job'[i].attempts
        PROVE  a = job'[i].attempts /\ job'[i].status \in {"PENDING", "FAILED", "CANCELLED"}
    <3>1. <<"FAILED", i, a>> \in outbox /\ (a >= job[i].attempts => a = job[i].attempts
              /\ job[i].status \in {"PENDING", "FAILED", "CANCELLED"})
      BY <1>1, <2>1 DEF Inv, NoticesTruthful
    <3>2. CASE i = j
      BY <1>3, <2>1, <3>1, <3>2, BoundsAssumption
    <3>3. CASE i # j
      BY <1>3, <2>1, <3>1, <3>3
    <3> QED
      BY <3>2, <3>3
  <2>2. \A i \in Job : job'[i].status = "FAILED" => <<"FAILED", i, job'[i].attempts>> \in outbox'
    BY <1>1, <1>3 DEF Inv, NoticesTruthful
  <2>3. /\ \A i \in Job, a \in 1..MaxAttempts :
               <<"RETRY_QUEUED", i, a>> \in outbox' => <<"FAILED", i, a - 1>> \in outbox'
        /\ \A r \in Revision : <<"REVIEW_REQUIRED", r>> \in outbox' <=> rev'[r].head # NoCommit
        /\ <<"ABANDONED">> \in outbox' <=> exec'.status = "CANCELLED"
    BY <1>1 DEF Inv, NoticesTruthful
  <2> QED
    BY <2>1, <2>2, <2>3 DEF NoticesTruthful
<1> QED
  BY <1>5, <1>6, <1>7, <1>8, <1>9 DEF Inv

\* A step that leaves the execution and the notices as they are, ends nothing
\* but by a cancellation and queues nothing.
LEMMA InvJobsOnly ==
    ASSUME Inv, Typed', UNCHANGED <<stage, exec, rev, outbox, tree>>,
           NEW j \in Job, job[j].status = "RUNNING",
           \A i \in Job : i # j => job'[i] = job[i],
           \A i \in Job : JobMoves(i),
           job'[j].status \in {"RUNNING", "CANCELLED"},
           ClaimsMatch'
    PROVE  Inv'
<1>1. /\ \A i \in Job : i # j => job[i].status \notin {"PENDING", "RUNNING", "FAILED"}
      /\ exec.status # "FAILED" /\ exec.current \in Nat
  BY Waiting DEF Inv, JobsMatch, Active, Typed, TypeOK, ExecutionRow
<1>2. OneOperation' /\ JobsMatch'
  <2>1. Awaits(j)'
    <3>1. j \in Unfinished
      BY DEF Unfinished, Active
    <3>2. Awaits(j)
      BY <3>1 DEF Inv, OneOperation
    <3> QED
      BY <3>2 DEF Awaits
  <2> QED
    BY <1>1, <2>1, JobsFollow
<1>3. RevisionHistory' /\ StageMatchesRevision' /\ CurrentIsOpen' /\ WorktreeSafe'
  BY DEF Inv, RevisionHistory, StageMatchesRevision, CurrentIsOpen, WorktreeSafe, WorktreeKept
<1>4. NoticesTruthful'
  <2>1. /\ \A r \in Revision : <<"REVIEW_REQUIRED", r>> \in outbox' <=> rev'[r].head # NoCommit
        /\ <<"ABANDONED">> \in outbox' <=> exec'.status = "CANCELLED"
    BY DEF Inv, NoticesTruthful
  <2>2. \A i \in Job : /\ job'[i].status = "FAILED" => job[i].status = "FAILED"
                       /\ job'[i].status = "SUCCEEDED" => job[i].status \in {"RUNNING", "SUCCEEDED"}
    OBVIOUS
  <2> QED
    BY <2>1, <2>2, NoticesSame
<1> QED
  BY <1>2, <1>3, <1>4 DEF Inv

\* A lease that runs out lets another worker in, and nothing else.
LEMMA InvLeaseExpires ==
    ASSUME Inv, Typed', NEW j \in Job, LeaseExpires(j) PROVE Inv'
<1>1. /\ job[j].status = "RUNNING"
      /\ UNCHANGED <<stage, exec, rev, outbox, claim, tree>>
  BY DEF LeaseExpires, git
<1>2. /\ \A i \in Job : i # j => job'[i] = job[i]
      /\ job'[j].status = job[j].status /\ job'[j].attempts = job[j].attempts
      /\ job'[j].owner = job[j].owner
  <2>1. job \in [Job -> JobRow] /\ job[j] \in JobRow
    BY DEF Inv, Typed, TypeOK
  <2> QED
    BY <2>1 DEF LeaseExpires, JobRow
<1>3. \A i \in Job : JobMoves(i)
  BY <1>2 DEF JobMoves
<1>4. ClaimsMatch'
  <2>1. \A v \in Workers : claim'[v].phase # "idle" => ClaimMatches(v)'
    BY <1>1, <1>3, ClaimsStay
  <2> QED
    BY <2>1 DEF ClaimsMatch
<1> QED
  BY <1>1, <1>2, <1>3, <1>4, InvJobsOnly

\* A stale job is cancelled by the worker that still owns it, by no other.
LEMMA InvCancelled ==
    ASSUME Inv, Typed', NEW w \in Workers, claim[w].phase # "idle",
           UNCHANGED <<stage, exec, rev, outbox, tree>>,
           job' = Closed(w, "CANCELLED"), Ends(w)
    PROVE  Inv'
<1>1. CASE job[JobOf(w)].owner = w
  <2>1. /\ JobOf(w) \in Job /\ job[JobOf(w)].status = "RUNNING"
        /\ job'[JobOf(w)].status = "CANCELLED"
        /\ \A i \in Job : i # JobOf(w) => job'[i] = job[i]
        /\ \A i \in Job : JobMoves(i)
    BY <1>1, Ended
  <2>2. ClaimsMatch'
    BY <1>1, <2>1, OthersMatch
  <2> QED
    BY <2>1, <2>2, InvJobsOnly
<1>2. CASE job[JobOf(w)].owner # w
  <2>1. job' = job
    BY <1>2 DEF Closed
  <2> QED
    BY <2>1, Learns
<1> QED
  BY <1>1, <1>2

\* What a worker may rely on while it holds the job it has claimed.
LEMMA Holding ==
    ASSUME Inv, NEW w \in Workers, claim[w].phase # "idle", JobIsCurrent(w)
    PROVE  /\ ClaimMatches(w)
           /\ JobOf(w) \in Job /\ JobOf(w)[1] = Kind(w) /\ JobOf(w)[2] = Target(w)
           /\ Kind(w) \in {"PREPARE", "RUN", "VERIFY", "CLOSE", "CLEANUP"}
           /\ Target(w) \in Revision /\ Target(w) \in Nat /\ Target(w) # 0
           /\ job[JobOf(w)].owner = w /\ job[JobOf(w)].status = "RUNNING"
           /\ job[JobOf(w)].attempts = claim[w].attempt
           /\ exec \in ExecutionRow /\ exec.current \in Nat
           /\ Kind(w) = "PREPARE" =>
                  /\ exec.current = 0 /\ stage = "IMPLEMENTATION"
                  /\ exec.status \in {"NONE", "PENDING", "RUNNING"}
           /\ Kind(w) \in {"RUN", "VERIFY"} =>
                  /\ exec.current = Target(w) /\ stage = "IMPLEMENTATION"
                  /\ exec.status = "RUNNING" /\ rev[Target(w)].status = "UPDATING"
           /\ Kind(w) = "CLOSE" =>
                  /\ exec.current = Target(w) /\ stage = "VERIFICATION"
                  /\ exec.status = "SUCCEEDED" /\ rev[Target(w)].status = "APPROVED"
           /\ Kind(w) = "CLEANUP" => exec.status = "CANCELLED"
<1>1. /\ ClaimMatches(w)
      /\ JobOf(w) \in Job /\ JobOf(w)[1] = Kind(w) /\ JobOf(w)[2] = Target(w)
      /\ job[JobOf(w)].owner = w /\ job[JobOf(w)].status = "RUNNING"
      /\ job[JobOf(w)].attempts = claim[w].attempt
  BY ClaimTypes DEF Inv, ClaimsMatch, JobIsCurrent, JobOf, Kind, Target
<1>2. /\ Kind(w) \in {"PREPARE", "RUN", "VERIFY", "CLOSE", "CLEANUP"}
      /\ Target(w) \in Revision /\ Target(w) \in Nat /\ Target(w) # 0
  <2>1. /\ JobOf(w)[1] \in {"PREPARE", "RUN", "VERIFY", "CLOSE", "CLEANUP"}
        /\ JobOf(w)[2] \in Revision
    BY <1>1, JobParts
  <2> QED
    BY <1>1, <2>1 DEF Revision
<1>3. exec \in ExecutionRow /\ exec.current \in Nat
  BY DEF Inv, Typed, TypeOK, ExecutionRow
<1>4. job[JobOf(w)].status \in {"PENDING", "RUNNING", "FAILED"} /\ job[JobOf(w)].status # "FAILED"
  BY <1>1
<1>5. /\ JobOf(w)[1] = "PREPARE" =>
             /\ exec.current = 0 /\ stage = "IMPLEMENTATION"
             /\ exec.status \in {"NONE", "PENDING", "RUNNING", "FAILED"}
             /\ exec.status # "FAILED"
      /\ JobOf(w)[1] \in {"RUN", "VERIFY"} =>
             /\ exec.current = JobOf(w)[2] /\ stage = "IMPLEMENTATION"
             /\ exec.status = "RUNNING" /\ rev[JobOf(w)[2]].status = "UPDATING"
      /\ JobOf(w)[1] = "CLOSE" =>
             /\ exec.current = JobOf(w)[2] /\ stage = "VERIFICATION"
             /\ exec.status = "SUCCEEDED" /\ rev[JobOf(w)[2]].status = "APPROVED"
      /\ JobOf(w)[1] = "CLEANUP" => exec.status = "CANCELLED"
  BY <1>1, <1>4, Waiting
<1> QED
  BY <1>1, <1>2, <1>3, <1>5

\* The preparation moves the execution on without ending its job.
LEMMA InvPreparing ==
    ASSUME Inv, Typed', NEW w \in Workers, NEW p, claim[w].phase # "idle", JobIsCurrent(w),
           Kind(w) = "PREPARE", Goes(w, p), UNCHANGED <<stage, rev, job, outbox, tree>>,
           exec'.current = exec.current,
           exec'.status \in {"PENDING", "RUNNING"},
           \/ p = "loaded" /\ exec'.worktree = exec.worktree
              /\ (exec'.status = exec.status \/ exec.status = "NONE")
           \/ p = "recorded" /\ tree.exists /\ exec'.status = "RUNNING"
    PROVE  Inv'
<1>1. /\ ClaimMatches(w)
      /\ JobOf(w) \in Job /\ JobOf(w)[1] = "PREPARE" /\ job[JobOf(w)].status = "RUNNING"
      /\ exec.current = 0 /\ stage = "IMPLEMENTATION" /\ exec.current \in Nat
      /\ exec.status \in {"NONE", "PENDING", "RUNNING"}
  BY Holding
<1>2. \A i \in Job : i # JobOf(w) => job[i].status \notin {"PENDING", "RUNNING", "FAILED"}
  BY <1>1, Waiting
<1>3. \A i \in Job : JobMoves(i)
  BY DEF JobMoves
<1>4. OneOperation' /\ JobsMatch'
  <2>2. exec'.current \in Nat /\ exec'.current >= exec.current /\ exec'.status # "FAILED"
    BY <1>1
  <2>3. \E k \in Job : k = JobOf(w)
    BY <1>1
  <2>4. PICK k \in Job : k = JobOf(w)
    BY <2>3
  <2>5. Awaits(k)'
    BY <1>1, <2>4 DEF Awaits
  <2> QED
    BY <1>1, <1>2, <1>3, <2>2, <2>4, <2>5, JobsFollow
<1>5. ClaimsMatch'
  <2>1. claim \in [Workers -> ClaimedJob] /\ claim[w] \in ClaimedJob
    BY DEF Inv, Typed, TypeOK
  <2>2. /\ \A v \in Workers : v # w => claim'[v] = claim[v]
        /\ claim'[w].phase = p /\ claim'[w].head = claim[w].head
        /\ claim'[w].job = claim[w].job /\ claim'[w].attempt = claim[w].attempt
    BY <2>1 DEF Goes, ClaimedJob
  <2>3. ClaimMatches(w)'
    BY <1>1, <2>2 DEF ClaimMatches, JobOf, Kind, Target, JobIsCurrent
  <2>4. PICK W : W = Workers \ {w}
    OBVIOUS
  <2>5. \A v \in W : claim'[v] = claim[v] /\ ~JobIsCurrent(v)
    BY <2>2, <2>4, Alone
  <2>6. W \in SUBSET Workers
    BY <2>4
  <2>7. \A v \in W : claim'[v].phase # "idle" => ClaimMatches(v)'
    BY <1>3, <2>5, <2>6, ClaimsStay
  <2> QED
    BY <2>3, <2>4, <2>7 DEF ClaimsMatch
<1>6. RevisionHistory' /\ StageMatchesRevision' /\ CurrentIsOpen'
  BY <1>1 DEF Inv, RevisionHistory, StageMatchesRevision, CurrentIsOpen
<1>7. WorktreeSafe'
  BY <1>1 DEF Inv, WorktreeSafe, WorktreeKept
<1>8. NoticesTruthful'
  <2>1. /\ \A r \in Revision : <<"REVIEW_REQUIRED", r>> \in outbox' <=> rev'[r].head # NoCommit
        /\ <<"ABANDONED">> \in outbox' <=> exec'.status = "CANCELLED"
    BY <1>1 DEF Inv, NoticesTruthful
  <2> QED
    BY <1>3, <2>1, NoticesSame
<1> QED
  BY <1>4, <1>5, <1>6, <1>7, <1>8 DEF Inv

\* The preparation finds or creates its execution, or was overtaken.
LEMMA InvOpenExecution ==
    ASSUME Inv, Typed', NEW w \in Workers, OpenExecution(w) PROVE Inv'
<1>1. /\ claim[w].phase = "claimed" /\ Kind(w) = "PREPARE"
      /\ UNCHANGED <<stage, rev, outbox, tree>>
  BY DEF OpenExecution, git
<1>2. CASE JobIsCurrent(w) /\ Ready(Prepare)
  <2>1. Goes(w, "loaded") /\ job' = job
    BY <1>2 DEF OpenExecution
  <2>2. /\ exec \in ExecutionRow /\ exec.status \in {"NONE", "PENDING", "RUNNING"}
    BY <1>1, <1>2, Holding
  <2>3. /\ exec'.current = exec.current /\ exec'.worktree = exec.worktree
        /\ exec'.status = Moved(exec.status, {"NONE"}, "PENDING")
    BY <1>2, <2>2 DEF OpenExecution, ExecutionRow
  <2> QED
    BY <1>1, <1>2, <2>1, <2>2, <2>3, InvPreparing DEF Moved
<1>3. CASE ~(JobIsCurrent(w) /\ Ready(Prepare))
  BY <1>1, <1>3, InvCancelled DEF OpenExecution
<1> QED
  BY <1>2, <1>3

\* The worktree is recorded on an execution that is being prepared.
LEMMA InvRecordWorktree ==
    ASSUME Inv, Typed', NEW w \in Workers, RecordWorktree(w) PROVE Inv'
<1>1. /\ claim[w].phase = "prepared" /\ JobIsCurrent(w) /\ Goes(w, "recorded")
      /\ UNCHANGED <<stage, rev, job, outbox, tree>>
  BY DEF RecordWorktree, git
<1>2. /\ Kind(w) = "PREPARE" /\ exec \in ExecutionRow
      /\ exec.status \in {"PENDING", "RUNNING"} /\ tree.exists
  BY <1>1, Holding DEF ClaimMatches
<1>3. exec'.current = exec.current /\ exec'.status = "RUNNING"
  BY <1>2 DEF RecordWorktree, ExecutionRow
<1> QED
  BY <1>1, <1>2, <1>3, InvPreparing

\* The prepared workspace opens the first revision.
LEMMA InvOpenFirstRevision ==
    ASSUME Inv, Typed', NEW w \in Workers, OpenFirstRevision(w) PROVE Inv'
<1>1. /\ claim[w].phase = "bootstrapped" /\ JobIsCurrent(w) /\ Ends(w)
      /\ UNCHANGED <<stage, outbox, tree>>
      /\ job' = Queued(Closed(w, "SUCCEEDED"), Run(1), job[Prepare].expects)
  BY DEF OpenFirstRevision, git
<1>2. /\ Kind(w) = "PREPARE" /\ exec \in ExecutionRow /\ exec.status = "RUNNING"
      /\ exec.current = 0 /\ stage = "IMPLEMENTATION" /\ job[JobOf(w)].owner = w
      /\ JobOf(w) \in Job /\ JobOf(w)[1] = "PREPARE" /\ job[JobOf(w)].status = "RUNNING"
  BY <1>1, Holding DEF ClaimMatches
<1>3. /\ Run(1) \in Job /\ Run(1)[1] = "RUN" /\ Run(1)[2] = 1 /\ Run(1) # JobOf(w)
      /\ 1 \in Revision
  <2>1. Run(1) \in Job /\ 1 \in Revision
    BY JobShape
  <2> QED
    BY <1>2, <2>1 DEF Run
<1>4. job[Prepare].expects \in Nat
  <2>1. Prepare \in Job
    BY JobShape
  <2> QED
    BY <2>1 DEF Inv, Typed, TypeOK, JobRow
<1>5. /\ job'[JobOf(w)].status = "SUCCEEDED"
      /\ job'[Run(1)].status \notin {"RUNNING", "FAILED"}
      /\ job'[Run(1)].status = "SUCCEEDED" => job[Run(1)].status = "SUCCEEDED"
      /\ \A i \in Job : i # JobOf(w) /\ i # Run(1) =>
             job'[i] = job[i] /\ job[i].status \notin {"PENDING", "RUNNING", "FAILED"}
      /\ \A i \in Job : JobMoves(i)
  BY <1>1, <1>2, <1>3, <1>4, EndedAndQueued
<1>6. exec'.status = "RUNNING" /\ exec'.current = 1 /\ exec'.worktree = exec.worktree
  BY <1>2 DEF OpenFirstRevision, ExecutionRow
<1>7. rev[1] = NoRevision
  BY <1>2, <1>3 DEF Inv, RevisionHistory
<1>8. /\ \A q \in Revision : q # 1 => rev'[q] = rev[q]
      /\ rev'[1].status = "UPDATING" /\ rev'[1].head = NoCommit /\ rev'[1].feedback = "NONE"
  <2>1. rev \in [Revision -> RevisionRow]
    BY DEF Inv, Typed, TypeOK
  <2> QED
    BY <1>2, <1>3, <1>7, <2>1 DEF OpenFirstRevision, NoRevision
<1>9. \A q \in Revision : /\ rev'[q].head = rev[q].head
                          /\ rev[q].status = "APPROVED" => rev'[q].status = "APPROVED"
  BY <1>7, <1>8 DEF NoRevision
<1>10. OneOperation' /\ JobsMatch'
  <2>1. Awaits(Run(1))'
    BY <1>3, <1>6 DEF Awaits
  <2>2. /\ exec.current \in Nat /\ exec'.current \in Nat /\ exec'.current >= exec.current
        /\ exec'.status # "FAILED" /\ exec.status # "CANCELLED"
    BY <1>2, <1>6
  <2> QED
    BY <1>2, <1>3, <1>5, <1>9, <2>1, <2>2, JobsFollow
<1>11. ClaimsMatch'
  BY <1>1, <1>2, <1>5, <1>9, OthersMatch
<1>12. RevisionHistory'
  <2> SUFFICES ASSUME NEW q \in Revision
               PROVE  /\ q < 1 => rev'[q].status = "CHANGES_REQUESTED"
                      /\ q > 1 => rev'[q] = NoRevision
                      /\ rev'[q].head # NoCommit <=>
                             rev'[q].status \in {"REVIEW", "CHANGES_REQUESTED", "APPROVED"}
                      /\ rev'[q].feedback # "NONE" <=> rev'[q].status = "CHANGES_REQUESTED"
                      /\ rev'[q].feedback = "RESOLVED" <=>
                             q < 1 /\ rev'[q + 1].head # NoCommit
                      /\ q > 1 /\ rev'[q].head # NoCommit => rev'[q].head # rev'[q - 1].head
    BY <1>6 DEF RevisionHistory
  <2>1. q \in Nat /\ q >= 1
    BY DEF Revision
  <2>2. rev[q] = NoRevision
    BY <1>2, <2>1 DEF Inv, RevisionHistory
  <2>3. CASE q = 1
    BY <1>8, <2>1, <2>3
  <2>4. CASE q # 1
    <3>1. rev'[q] = NoRevision
      BY <1>8, <2>2, <2>4
    <3> QED
      BY <2>1, <2>4, <3>1 DEF NoRevision
  <2> QED
    BY <2>3, <2>4
<1>13. StageMatchesRevision' /\ CurrentIsOpen' /\ WorktreeSafe'
  BY <1>1, <1>2, <1>3, <1>6, <1>8
     DEF Inv, StageMatchesRevision, CurrentIsOpen, WorktreeSafe, WorktreeKept
<1>14. NoticesTruthful'
  <2>1. /\ \A q \in Revision : <<"REVIEW_REQUIRED", q>> \in outbox' <=> rev'[q].head # NoCommit
        /\ <<"ABANDONED">> \in outbox' <=> exec'.status = "CANCELLED"
    BY <1>1, <1>2, <1>6, <1>9 DEF Inv, NoticesTruthful
  <2>2. \A i \in Job : /\ job'[i].status = "FAILED" => job[i].status = "FAILED"
                       /\ job'[i].status = "SUCCEEDED" => job[i].status \in {"RUNNING", "SUCCEEDED"}
    BY <1>2, <1>5
  <2> QED
    BY <1>1, <1>5, <2>1, <2>2, NoticesSame
<1> QED
  BY <1>10, <1>11, <1>12, <1>13, <1>14 DEF Inv

\* The agent's work goes on to be verified.
LEMMA InvQueueVerification ==
    ASSUME Inv, Typed', NEW w \in Workers, QueueVerification(w) PROVE Inv'
<1>0. PICK r \in Revision : r = Target(w)
  BY ClaimTypes DEF Inv
<1>1. /\ claim[w].phase = "returned" /\ JobIsCurrent(w) /\ Ends(w)
      /\ UNCHANGED <<stage, exec, rev, outbox, tree>>
      /\ job' = Queued(Closed(w, "SUCCEEDED"), Verify(r), job[JobOf(w)].expects)
  BY <1>0 DEF QueueVerification, git
<1>2. /\ Kind(w) = "RUN" /\ exec.status = "RUNNING" /\ exec.current = r /\ exec.current \in Nat
      /\ job[JobOf(w)].owner = w /\ r \in Revision
      /\ JobOf(w) \in Job /\ JobOf(w)[1] = "RUN" /\ job[JobOf(w)].status = "RUNNING"
  BY <1>0, <1>1, Holding DEF ClaimMatches
<1>3. /\ Verify(r) \in Job /\ Verify(r)[1] = "VERIFY" /\ Verify(r)[2] = r
      /\ Verify(r) # JobOf(w)
  <2>1. Verify(r) \in Job
    BY <1>2, JobNames
  <2> QED
    BY <1>2, <2>1 DEF Verify
<1>4. job[JobOf(w)].expects \in Nat
  BY <1>2 DEF Inv, Typed, TypeOK, JobRow
<1>5. /\ job'[JobOf(w)].status = "SUCCEEDED"
      /\ job'[Verify(r)].status \notin {"RUNNING", "FAILED"}
      /\ job'[Verify(r)].status = "SUCCEEDED" => job[Verify(r)].status = "SUCCEEDED"
      /\ \A i \in Job : i # JobOf(w) /\ i # Verify(r) =>
             job'[i] = job[i] /\ job[i].status \notin {"PENDING", "RUNNING", "FAILED"}
      /\ \A i \in Job : JobMoves(i)
  BY <1>1, <1>2, <1>3, <1>4, EndedAndQueued
<1>6. OneOperation' /\ JobsMatch'
  <2>1. Awaits(Verify(r))'
    BY <1>1, <1>2, <1>3 DEF Awaits
  <2> QED
    BY <1>1, <1>2, <1>3, <1>5, <2>1, JobsFollow
<1>7. ClaimsMatch'
  BY <1>1, <1>2, <1>5, OthersMatch
<1>8. RevisionHistory' /\ StageMatchesRevision' /\ CurrentIsOpen' /\ WorktreeSafe'
  BY <1>1 DEF Inv, RevisionHistory, StageMatchesRevision, CurrentIsOpen, WorktreeSafe, WorktreeKept
<1>9. NoticesTruthful'
  <2>1. /\ \A q \in Revision : <<"REVIEW_REQUIRED", q>> \in outbox' <=> rev'[q].head # NoCommit
        /\ <<"ABANDONED">> \in outbox' <=> exec'.status = "CANCELLED"
    BY <1>1 DEF Inv, NoticesTruthful
  <2>2. \A i \in Job : /\ job'[i].status = "FAILED" => job[i].status = "FAILED"
                       /\ job'[i].status = "SUCCEEDED" => job[i].status \in {"RUNNING", "SUCCEEDED"}
    BY <1>2, <1>5
  <2> QED
    BY <1>1, <1>5, <2>1, <2>2, NoticesSame
<1> QED
  BY <1>6, <1>7, <1>8, <1>9 DEF Inv

\* What passed its checks goes to review, and answers the feedback before it.
LEMMA InvPublishReview ==
    ASSUME Inv, Typed', NEW w \in Workers, PublishReview(w) PROVE Inv'
<1>0. PICK r \in Revision : r = Target(w)
  BY ClaimTypes DEF Inv
<1>1. /\ claim[w].phase = "pushed" /\ JobIsCurrent(w) /\ Ends(w)
      /\ stage' = "VERIFICATION" /\ job' = Closed(w, "SUCCEEDED") /\ tree' = tree
  BY DEF PublishReview, git
<1>2. /\ Kind(w) = "VERIFY" /\ exec.status = "RUNNING" /\ exec.current = r
      /\ rev[r].status = "UPDATING" /\ exec \in ExecutionRow /\ exec.current \in Nat
      /\ job[JobOf(w)].owner = w /\ r \in Nat /\ r # 0
      /\ claim[w].head # NoCommit /\ (r > 1 => claim[w].head # rev[r - 1].head)
  BY <1>0, <1>1, Holding DEF ClaimMatches
<1>3. PICK j \in Job : j = JobOf(w)
  BY <1>1, Holding
<1>4. /\ job'[j].status = "SUCCEEDED" /\ job[j].status = "RUNNING"
      /\ \A i \in Job : i # j =>
             job'[i] = job[i] /\ job[i].status \notin {"PENDING", "RUNNING", "FAILED"}
      /\ \A i \in Job : JobMoves(i)
  BY <1>1, <1>2, <1>3, Ended
<1>5. /\ exec'.status = "SUCCEEDED" /\ exec'.current = exec.current
      /\ exec'.worktree = exec.worktree /\ exec'.head = claim[w].head
  BY <1>2 DEF PublishReview, ExecutionRow, Moved
<1>6. /\ rev'[r].status = "REVIEW" /\ rev'[r].head = claim[w].head
      /\ rev'[r].feedback = rev[r].feedback
      /\ \A q \in Revision : q # r => rev'[q].head = rev[q].head
                                      /\ rev'[q].status = rev[q].status
      /\ \A q \in Revision : q # r /\ q # r - 1 => rev'[q] = rev[q]
      /\ \A q \in Revision : q = r - 1 =>
             rev'[q].feedback = IF rev[q].feedback = "OPEN" THEN "RESOLVED" ELSE rev[q].feedback
  <2>1. rev' = [q \in Revision |->
                  IF q = r
                  THEN [rev[q] EXCEPT !.status = Moved(@, {"UPDATING"}, "REVIEW"),
                                      !.review = "PENDING", !.head = claim[w].head]
                  ELSE IF q = r - 1
                  THEN [rev[q] EXCEPT !.feedback = Moved(@, {"OPEN"}, "RESOLVED")]
                  ELSE rev[q]]
    BY <1>0 DEF PublishReview
  <2>2. \A q \in Revision : rev[q] \in RevisionRow
    BY DEF Inv, Typed, TypeOK
  <2>3. r # r - 1
    BY <1>2
  <2>4. /\ rev'[r].status = "REVIEW" /\ rev'[r].head = claim[w].head
        /\ rev'[r].feedback = rev[r].feedback
    BY <1>2, <2>1, <2>2 DEF Moved, RevisionRow
  <2>5. ASSUME NEW q \in Revision, q # r
        PROVE  /\ rev'[q].head = rev[q].head /\ rev'[q].status = rev[q].status
               /\ q # r - 1 => rev'[q] = rev[q]
               /\ q = r - 1 => rev'[q].feedback =
                                   IF rev[q].feedback = "OPEN" THEN "RESOLVED" ELSE rev[q].feedback
    BY <2>1, <2>2, <2>5 DEF Moved, RevisionRow
  <2> QED
    BY <2>3, <2>4, <2>5
<1>7. OneOperation' /\ JobsMatch'
  <2>1. \A q \in Revision : rev[q].status = "APPROVED" => rev'[q].status = "APPROVED"
    BY <1>2, <1>6
  <2>2. exec'.current \in Nat /\ exec'.current >= exec.current /\ exec.status # "CANCELLED"
    BY <1>2, <1>5
  <2> QED
    BY <1>2, <1>4, <2>1, <2>2, JobsFollow
<1>8. ClaimsMatch'
  BY <1>1, <1>2, <1>4, <1>6, OthersMatch
<1>9. RevisionHistory'
  <2> SUFFICES ASSUME NEW q \in Revision
               PROVE  /\ q < r => rev'[q].status = "CHANGES_REQUESTED"
                      /\ q > r => rev'[q] = NoRevision
                      /\ rev'[q].head # NoCommit <=>
                             rev'[q].status \in {"REVIEW", "CHANGES_REQUESTED", "APPROVED"}
                      /\ rev'[q].feedback # "NONE" <=> rev'[q].status = "CHANGES_REQUESTED"
                      /\ rev'[q].feedback = "RESOLVED" <=>
                             q < r /\ rev'[q + 1].head # NoCommit
                      /\ q > 1 /\ rev'[q].head # NoCommit => rev'[q].head # rev'[q - 1].head
    BY <1>2, <1>5, <1>6 DEF RevisionHistory
  <2>0. q \in Nat
    BY DEF Revision
  <2>1. /\ q < r => rev[q].status = "CHANGES_REQUESTED"
        /\ q > r => rev[q] = NoRevision
        /\ rev[q].head # NoCommit <=>
               rev[q].status \in {"REVIEW", "CHANGES_REQUESTED", "APPROVED"}
        /\ rev[q].feedback # "NONE" <=> rev[q].status = "CHANGES_REQUESTED"
        /\ rev[q].feedback = "RESOLVED" <=> q < r /\ rev[q + 1].head # NoCommit
        /\ q > 1 /\ rev[q].head # NoCommit => rev[q].head # rev[q - 1].head
        /\ rev[q].feedback \in {"NONE", "OPEN", "RESOLVED"}
    BY <1>2 DEF Inv, RevisionHistory, Typed, TypeOK, RevisionRow
  <2>2. q > 1 => q - 1 \in Revision
    BY BoundsAssumption DEF Revision
  <2>3. q < r => q + 1 \in Revision
    BY <1>2, BoundsAssumption DEF Revision
  <2>4. CASE q = r
    <3>1. q > 1 => rev'[q - 1].head = rev[q - 1].head
      BY <1>2, <1>6, <2>2, <2>4
    <3> QED
      BY <1>2, <1>6, <2>0, <2>1, <2>4, <3>1
  <2>5. CASE q = r - 1
    <3>1. rev'[q + 1].head # NoCommit /\ q < r /\ q # r /\ q # r + 1
      BY <1>2, <1>6, <2>5
    <3>2. q > 1 => rev'[q - 1].head = rev[q - 1].head
      BY <1>2, <1>6, <2>2, <2>5
    <3>3. /\ rev'[q].head = rev[q].head /\ rev'[q].status = rev[q].status
          /\ rev'[q].feedback = IF rev[q].feedback = "OPEN" THEN "RESOLVED" ELSE rev[q].feedback
      BY <1>6, <2>5, <3>1
    <3> QED
      BY <1>2, <2>0, <2>1, <3>1, <3>2, <3>3
  <2>6. CASE q < r - 1
    <3>1. rev'[q] = rev[q] /\ rev'[q + 1].head = rev[q + 1].head /\ q < r
      BY <1>2, <1>6, <2>0, <2>3, <2>6
    <3>2. q > 1 => rev'[q - 1].head = rev[q - 1].head
      BY <1>2, <1>6, <2>0, <2>2, <2>6
    <3> QED
      BY <1>2, <2>0, <2>1, <3>1, <3>2
  <2>7. CASE q > r
    <3>1. rev'[q] = NoRevision
      BY <1>2, <1>6, <2>0, <2>1, <2>7
    <3> QED
      BY <1>2, <2>0, <2>7, <3>1 DEF NoRevision
  <2> QED
    BY <1>2, <2>0, <2>4, <2>5, <2>6, <2>7
<1>10. StageMatchesRevision' /\ CurrentIsOpen'
  BY <1>1, <1>2, <1>5, <1>6 DEF StageMatchesRevision, CurrentIsOpen
<1>11. WorktreeSafe'
  BY <1>1, <1>2, <1>5 DEF Inv, WorktreeSafe, WorktreeKept
<1>12. NoticesTruthful'
  <2>0. PICK S : S = {<<"STAGE_UPDATED", "VERIFICATION", version + 1>>, <<"REVIEW_REQUIRED", r>>}
    OBVIOUS
  <2>1. outbox' = outbox \cup S
    BY <1>0, <2>0 DEF PublishReview
  <2>2. /\ \A x \in S : x[1] \notin {"FAILED", "RETRY_QUEUED"}
        /\ \A q \in Revision : <<"REVIEW_REQUIRED", q>> \in S <=> q = r
        /\ <<"ABANDONED">> \notin S
    BY <2>0
  <2>3. \A q \in Revision : <<"REVIEW_REQUIRED", q>> \in outbox' <=> rev'[q].head # NoCommit
    <3> SUFFICES ASSUME NEW q \in Revision
                 PROVE  <<"REVIEW_REQUIRED", q>> \in outbox' <=> rev'[q].head # NoCommit
      OBVIOUS
    <3>1. <<"REVIEW_REQUIRED", q>> \in outbox <=> rev[q].head # NoCommit
      BY DEF Inv, NoticesTruthful
    <3> QED
      BY <1>2, <1>6, <2>1, <2>2, <3>1
  <2>4. <<"ABANDONED">> \in outbox' <=> exec'.status = "CANCELLED"
    BY <1>2, <1>5, <2>1, <2>2 DEF Inv, NoticesTruthful
  <2>5. \A i \in Job : /\ job'[i].status = "FAILED" => job[i].status = "FAILED"
                       /\ job'[i].status = "SUCCEEDED" => job[i].status \in {"RUNNING", "SUCCEEDED"}
    BY <1>4
  <2> QED
    BY <1>4, <2>1, <2>2, <2>3, <2>4, <2>5, NoticesKept
<1> QED
  BY <1>7, <1>8, <1>9, <1>10, <1>11, <1>12 DEF Inv

\* An end of a job that leaves the revisions as they are.
LEMMA InvEnded ==
    ASSUME Inv, Typed', NEW w \in Workers, job[JobOf(w)].owner = w,
           job' = Closed(w, "SUCCEEDED"), Ends(w), UNCHANGED <<rev, tree>>,
           exec'.current = exec.current, exec'.head = exec.head,
           \/ /\ stage' = "DONE" /\ exec'.status = "CLOSED"
              /\ exec.status = "SUCCEEDED" /\ exec.current # 0
              /\ rev[exec.current].status = "APPROVED"
              /\ outbox' = outbox \cup {<<"STAGE_UPDATED", "DONE", version + 1>>}
           \/ /\ stage' = stage /\ exec.status = "CANCELLED" /\ exec'.status = "CANCELLED"
              /\ outbox' = outbox
    PROVE  Inv'
<1>1. PICK j \in Job : j = JobOf(w)
  BY Ended
<1>2. /\ job'[j].status = "SUCCEEDED" /\ job[j].status = "RUNNING"
      /\ \A i \in Job : i # j =>
             job'[i] = job[i] /\ job[i].status \notin {"PENDING", "RUNNING", "FAILED"}
      /\ \A i \in Job : JobMoves(i)
  BY <1>1, Ended
<1>3. OneOperation' /\ JobsMatch'
  <2>1. exec.current \in Nat
    BY DEF Inv, Typed, TypeOK, ExecutionRow
  <2> QED
    BY <1>2, <2>1, JobsFollow
<1>4. ClaimsMatch'
  BY <1>2, OthersMatch
<1>5. RevisionHistory'
  BY DEF Inv, RevisionHistory
<1>6. StageMatchesRevision' /\ CurrentIsOpen'
  BY DEF Inv, StageMatchesRevision, CurrentIsOpen
<1>7. WorktreeSafe'
  BY DEF WorktreeSafe, WorktreeKept
<1>8. NoticesTruthful'
  <2>1. PICK S : /\ outbox' = outbox \cup S
                 /\ S = {<<"STAGE_UPDATED", "DONE", version + 1>>} \/ S = {}
    <3>1. CASE outbox' = outbox \cup {<<"STAGE_UPDATED", "DONE", version + 1>>}
      BY <3>1
    <3>2. CASE outbox' = outbox
      <4>1. outbox' = outbox \cup {}
        BY <3>2
      <4> QED
        BY <4>1
    <3> QED
      BY <3>1, <3>2
  <2>2. /\ \A x \in S : x[1] \notin {"FAILED", "RETRY_QUEUED"}
        /\ \A q \in Revision : <<"REVIEW_REQUIRED", q>> \notin S
        /\ <<"ABANDONED">> \notin S
    BY <2>1
  <2>3. /\ \A q \in Revision : <<"REVIEW_REQUIRED", q>> \in outbox' <=> rev'[q].head # NoCommit
        /\ <<"ABANDONED">> \in outbox' <=> exec'.status = "CANCELLED"
    BY <2>1, <2>2 DEF Inv, NoticesTruthful
  <2>4. \A i \in Job : /\ job'[i].status = "FAILED" => job[i].status = "FAILED"
                       /\ job'[i].status = "SUCCEEDED" => job[i].status \in {"RUNNING", "SUCCEEDED"}
    BY <1>2
  <2> QED
    BY <1>2, <2>1, <2>2, <2>3, <2>4, NoticesKept
<1> QED
  BY <1>3, <1>4, <1>5, <1>6, <1>7, <1>8 DEF Inv

\* The feature is done with the revision that was approved.
LEMMA InvCloseExecution ==
    ASSUME Inv, Typed', NEW w \in Workers, CloseExecution(w) PROVE Inv'
<1>1. /\ claim[w].phase = "removed" /\ Kind(w) = "CLOSE" /\ JobIsCurrent(w)
      /\ UNCHANGED <<rev, tree>>
  BY DEF CloseExecution, git
<1>2. /\ exec.status = "SUCCEEDED" /\ exec.current = Target(w) /\ Target(w) # 0
      /\ rev[Target(w)].status = "APPROVED" /\ exec \in ExecutionRow
      /\ job[JobOf(w)].owner = w
  BY <1>1, Holding
<1>3. CASE stage = "VERIFICATION" /\ version = job[JobOf(w)].expects
  <2>1. /\ stage' = "DONE" /\ job' = Closed(w, "SUCCEEDED") /\ Ends(w)
        /\ outbox' = outbox \cup {<<"STAGE_UPDATED", "DONE", version + 1>>}
        /\ exec' = [exec EXCEPT !.status = Moved(@, {"SUCCEEDED"}, "CLOSED")]
    BY <1>3 DEF CloseExecution
  <2>2. exec'.status = "CLOSED" /\ exec'.current = exec.current /\ exec'.head = exec.head
    BY <1>2, <2>1 DEF ExecutionRow, Moved
  <2> QED
    BY <1>1, <1>2, <2>1, <2>2, InvEnded
<1>4. CASE ~(stage = "VERIFICATION" /\ version = job[JobOf(w)].expects)
  <2>1. Goes(w, "raised") /\ UNCHANGED <<stage, exec, rev, job, outbox>>
    BY <1>1, <1>4 DEF CloseExecution
  <2> QED
    BY <1>1, <2>1, Learns
<1> QED
  BY <1>3, <1>4

\* The cleanup of an abandoned execution ends with its record.
LEMMA InvRecordCleanup ==
    ASSUME Inv, Typed', NEW w \in Workers, RecordCleanup(w) PROVE Inv'
<1>1. /\ claim[w].phase = "removed" /\ Kind(w) = "CLEANUP" /\ JobIsCurrent(w)
      /\ UNCHANGED <<stage, rev, outbox, tree>>
      /\ job' = Closed(w, "SUCCEEDED") /\ Ends(w)
  BY DEF RecordCleanup, git
<1>2. exec.status = "CANCELLED" /\ exec \in ExecutionRow /\ job[JobOf(w)].owner = w
  BY <1>1, Holding
<1>3. /\ exec'.status = exec.status /\ exec'.current = exec.current /\ exec'.head = exec.head
  BY <1>2 DEF RecordCleanup, ExecutionRow
<1> QED
  BY <1>1, <1>2, <1>3, InvEnded

\* A failure is recorded on the job, the execution and the revision at once.
LEMMA InvFail ==
    ASSUME Inv, Typed', NEW w \in Workers, Fail(w) PROVE Inv'
<1>0. PICK r \in Revision : r = Target(w)
  BY ClaimTypes DEF Inv
<1>1. claim[w].phase = "raised" /\ Ends(w) /\ UNCHANGED <<stage, tree>>
  BY DEF Fail, git
<1>2. CASE ~JobIsCurrent(w)
  <2>1. UNCHANGED <<stage, exec, rev, job, outbox>>
    BY <1>1, <1>2 DEF Fail
  <2> QED
    BY <1>1, <2>1, Learns
<1>3. CASE JobIsCurrent(w)
  <2>1. /\ ClaimMatches(w) /\ JobOf(w) \in Job /\ JobOf(w)[1] = Kind(w) /\ JobOf(w)[2] = r
        /\ Kind(w) \in {"PREPARE", "RUN", "VERIFY", "CLOSE", "CLEANUP"}
        /\ r \in Nat /\ r # 0
        /\ job[JobOf(w)].owner = w /\ job[JobOf(w)].status = "RUNNING"
        /\ job[JobOf(w)].attempts = claim[w].attempt
        /\ exec \in ExecutionRow /\ exec.current \in Nat
        /\ Kind(w) = "PREPARE" => exec.current = 0 /\ stage = "IMPLEMENTATION"
        /\ Kind(w) \in {"RUN", "VERIFY"} =>
               /\ exec.current = r /\ stage = "IMPLEMENTATION"
               /\ exec.status = "RUNNING" /\ rev[r].status = "UPDATING"
        /\ Kind(w) = "CLOSE" =>
               /\ exec.current = r /\ exec.status = "SUCCEEDED" /\ rev[r].status = "APPROVED"
        /\ Kind(w) = "CLEANUP" => exec.status = "CANCELLED"
    BY <1>0, <1>1, <1>3, Holding
  <2>2. Kind(w) = "PREPARE" => exec.status \in {"PENDING", "RUNNING"}
    BY <1>1, <1>3, <2>1 DEF ClaimMatches
  <2>3. PICK j \in Job : j = JobOf(w)
    BY <2>1
  <2>4. /\ exec' = [exec EXCEPT !.status = Moved(@, {"PENDING", "RUNNING"}, "FAILED")]
        /\ rev' = IF j[1] \in {"RUN", "VERIFY", "CLOSE"}
                  THEN [rev EXCEPT ![r].status = Moved(@, {"UPDATING"}, "FAILED")]
                  ELSE rev
        /\ job' = Closed(w, "FAILED")
        /\ outbox' = outbox \cup {<<"FAILED", j, job[j].attempts>>}
    BY <1>0, <1>3, <2>1, <2>3 DEF Fail, FailureNotice
  <2>5. /\ job'[j].status = "FAILED" /\ job[j].status = "RUNNING"
        /\ job'[j].attempts = job[j].attempts
        /\ \A i \in Job : i # j =>
               job'[i] = job[i] /\ job[i].status \notin {"PENDING", "RUNNING", "FAILED"}
        /\ \A i \in Job : JobMoves(i)
    BY <2>1, <2>3, <2>4, Ended
  <2>6. /\ exec'.current = exec.current /\ exec'.worktree = exec.worktree
        /\ exec'.head = exec.head
        /\ exec'.status = IF j[1] \in {"PREPARE", "RUN", "VERIFY"} THEN "FAILED" ELSE exec.status
    <3>1. exec'.status = Moved(exec.status, {"PENDING", "RUNNING"}, "FAILED")
      BY <2>1, <2>4 DEF ExecutionRow
    <3> QED
      BY <2>1, <2>2, <2>3, <2>4, <3>1 DEF ExecutionRow, Moved
  <2>7. /\ j[1] \notin {"RUN", "VERIFY"} => rev' = rev
        /\ j[1] \in {"RUN", "VERIFY"} =>
               /\ \A q \in Revision : q # r => rev'[q] = rev[q]
               /\ rev'[r].status = "FAILED"
               /\ rev'[r].head = rev[r].head /\ rev'[r].feedback = rev[r].feedback
    <3>1. rev \in [Revision -> RevisionRow] /\ rev[r] \in RevisionRow
      BY DEF Inv, Typed, TypeOK
    <3>2. CASE j[1] \in {"RUN", "VERIFY"}
      BY <2>1, <2>3, <2>4, <3>1, <3>2 DEF RevisionRow, Moved
    <3>3. CASE j[1] = "CLOSE"
      <4>1. [rev[r] EXCEPT !.status = Moved(@, {"UPDATING"}, "FAILED")] = rev[r]
        BY <2>1, <2>3, <3>1, <3>3 DEF RevisionRow, Moved
      <4>2. rev' = [rev EXCEPT ![r] = [rev[r] EXCEPT !.status = Moved(@, {"UPDATING"}, "FAILED")]]
        BY <2>4, <3>1, <3>3
      <4> QED
        BY <3>1, <3>3, <4>1, <4>2
    <3>4. CASE j[1] \notin {"RUN", "VERIFY", "CLOSE"}
      BY <2>4, <3>4
    <3> QED
      BY <3>2, <3>3, <3>4
  <2>8. \A q \in Revision : /\ rev'[q].head = rev[q].head
                            /\ rev[q].status = "APPROVED" => rev'[q].status = "APPROVED"
    BY <2>1, <2>3, <2>7
  <2>9. OneOperation' /\ JobsMatch'
    <3>1. Awaits(j)'
      BY <2>1, <2>2, <2>3, <2>6, <2>7 DEF Awaits
    <3>2. /\ exec'.current \in Nat /\ exec'.current >= exec.current
          /\ exec'.status = "FAILED" \/ j[1] \in {"CLOSE", "CLEANUP"}
          /\ exec.status = "CANCELLED" => exec'.status = "CANCELLED"
      BY <2>1, <2>2, <2>3, <2>6
    <3> QED
      BY <2>1, <2>5, <2>8, <3>1, <3>2, JobsFollow
  <2>10. ClaimsMatch'
    BY <1>1, <2>1, <2>5, <2>8, OthersMatch
  <2>11. RevisionHistory'
    <3>1. CASE j[1] \in {"RUN", "VERIFY"}
      <4>1. rev[r].head = NoCommit /\ rev[r].feedback = "NONE" /\ exec.current = r
        BY <2>1, <2>3, <3>1 DEF Inv, RevisionHistory
      <4> QED
        BY <2>6, <2>7, <3>1, <4>1, HistoryKept
    <3>2. CASE j[1] \notin {"RUN", "VERIFY"}
      BY <2>6, <2>7, <3>2 DEF Inv, RevisionHistory
    <3> QED
      BY <3>1, <3>2
  <2>12. StageMatchesRevision' /\ CurrentIsOpen' /\ WorktreeSafe'
    <3>1. CASE j[1] \in {"RUN", "VERIFY"}
      BY <1>1, <2>1, <2>3, <2>6, <2>7, <3>1
         DEF Inv, StageMatchesRevision, CurrentIsOpen, WorktreeSafe, WorktreeKept
    <3>2. CASE j[1] = "PREPARE"
      BY <1>1, <2>1, <2>2, <2>3, <2>6, <2>7, <3>2
         DEF Inv, StageMatchesRevision, CurrentIsOpen, WorktreeSafe, WorktreeKept
    <3>3. CASE j[1] \in {"CLOSE", "CLEANUP"}
      BY <1>1, <2>1, <2>3, <2>6, <2>7, <3>3
         DEF Inv, StageMatchesRevision, CurrentIsOpen, WorktreeSafe, WorktreeKept
    <3> QED
      BY <2>1, <2>3, <3>1, <3>2, <3>3
  <2>13. NoticesTruthful'
    <3>0. claim[w].attempt >= 1 /\ job[j].attempts \in 1..MaxAttempts
      <4>1. claim[w].attempt >= 1 /\ claim[w].attempt \in 0..MaxAttempts
        BY <1>1, ClaimTypes DEF Inv, Typed, ClaimsCount
      <4> QED
        BY <2>1, <2>3, <4>1, BoundsAssumption
    <3>1. ASSUME NEW i \in Job, NEW a \in 1..MaxAttempts,
                 <<"FAILED", i, a>> \in outbox', a >= job'[i].attempts
          PROVE  a = job'[i].attempts /\ job'[i].status \in {"PENDING", "FAILED", "CANCELLED"}
      <4>1. CASE <<"FAILED", i, a>> \in outbox
        <5>1. a >= job[i].attempts =>
                  a = job[i].attempts /\ job[i].status \in {"PENDING", "FAILED", "CANCELLED"}
          BY <4>1 DEF Inv, NoticesTruthful
        <5> QED
          BY <2>5, <3>1, <5>1
      <4>2. CASE i = j /\ a = job[j].attempts
        BY <2>5, <4>2
      <4> QED
        BY <2>4, <3>1, <4>1, <4>2
    <3>2. \A i \in Job : job'[i].status = "FAILED" => <<"FAILED", i, job'[i].attempts>> \in outbox'
      <4> SUFFICES ASSUME NEW i \in Job, job'[i].status = "FAILED"
                   PROVE  <<"FAILED", i, job'[i].attempts>> \in outbox'
        OBVIOUS
      <4>1. i = j
        BY <2>5
      <4> QED
        BY <2>4, <2>5, <4>1
    <3>3. \A i \in Job, a \in 1..MaxAttempts :
              <<"RETRY_QUEUED", i, a>> \in outbox' => <<"FAILED", i, a - 1>> \in outbox'
      BY <2>4 DEF Inv, NoticesTruthful
    <3>4. \A q \in Revision : <<"REVIEW_REQUIRED", q>> \in outbox' <=> rev'[q].head # NoCommit
      BY <2>4, <2>8 DEF Inv, NoticesTruthful
    <3>5. <<"ABANDONED">> \in outbox' <=> exec'.status = "CANCELLED"
      BY <2>1, <2>2, <2>3, <2>4, <2>6 DEF Inv, NoticesTruthful
    <3> QED
      BY <3>1, <3>2, <3>3, <3>4, <3>5 DEF NoticesTruthful
  <2> QED
    BY <2>9, <2>10, <2>11, <2>12, <2>13 DEF Inv
<1> QED
  BY <1>2, <1>3

-------------------------------------------------------------------------------
(* The invariant, and what it shows. *)

\* Every step keeps the invariant.
LEMMA InvNext == Inv /\ [Next]_vars => Inv'
<1> SUFFICES ASSUME Inv, [Next]_vars PROVE Inv'
  OBVIOUS
<1>0. Typed'
  BY TypeNext DEF Inv
<1>1. CASE UNCHANGED vars
  <2>1. UNCHANGED <<stage, exec, rev, job, outbox, claim, tree>>
    BY <1>1 DEF vars, database, git
  <2>2. ClaimsMatch' /\ WorktreeSafe'
    BY <2>1 DEF Inv, ClaimsMatch, ClaimMatches, WorktreeSafe, WorktreeKept, JobOf, Kind,
       Target, JobIsCurrent
  <2> QED
    BY <1>0, <2>1, <2>2, RowsKept
<1>2. CASE Decide
  BY <1>0, <1>2, InvApprove, InvRequestChanges, InvAddress, InvRetry, InvAbandon DEF Decide
<1>3. CASE UpstreamMoves \/ ArtifactAttemptFails \/ LeftoverWrites
  BY <1>0, <1>3, InvSurroundings
<1>4. ASSUME NEW j \in Job, LeaseExpires(j) PROVE Inv'
  BY <1>0, <1>4, InvLeaseExpires
<1>5. ASSUME NEW w \in Workers, NEW j \in Job, Claim(w, j) PROVE Inv'
  BY <1>0, <1>5, InvClaim
<1>6. ASSUME NEW w \in Workers, CancelStaleJob(w) PROVE Inv'
  BY <1>0, <1>6, InvCancelled DEF CancelStaleJob, git
<1>7. ASSUME NEW w \in Workers, Proceed(w) \/ AgentEdits(w) \/ Crash(w) PROVE Inv'
  BY <1>0, <1>6, <1>7, InvWork, InvWorktree, InvFail, InvOpenExecution, InvRecordWorktree,
     InvOpenFirstRevision, InvQueueVerification, InvPublishReview, InvCloseExecution,
     InvRecordCleanup DEF Proceed
<1> QED
  BY <1>1, <1>2, <1>3, <1>4, <1>5, <1>7 DEF Next

LEMMA Invariance == Spec => []Inv
  BY InvInit, InvNext, PTL DEF Spec

\* However many workers take each other's jobs over, never are two jobs of an
\* execution unfinished, and the one that is is what the execution awaits.
THEOREM OneOperationAtATime == Spec => []OneOperation
<1>1. Inv => OneOperation
  BY DEF Inv
<1> QED
  BY <1>1, Invariance, PTL

\* The stage of the feature, the execution and the current revision agree.
THEOREM OneStory == Spec => []StageMatchesRevision
<1>1. Inv => StageMatchesRevision
  BY DEF Inv
<1> QED
  BY <1>1, Invariance, PTL

\* Each revision before the current one was reviewed and sent back, and its
\* feedback was resolved by the publication of the next one, with a new commit.
THEOREM HistoryIsRight == Spec => []RevisionHistory
<1>1. Inv => RevisionHistory
  BY DEF Inv
<1> QED
  BY <1>1, Invariance, PTL

\* A recorded worktree stays through reviews, failures and retries.
THEOREM WorktreeStays == Spec => []WorktreeKept
<1>1. Inv => WorktreeKept
  BY DEF Inv, WorktreeSafe
<1> QED
  BY <1>1, Invariance, PTL

\* Each failed attempt is notified, under a key of its own, and no other is.
THEOREM NoticesAreTrue == Spec => []NoticesTruthful
<1>1. Inv => NoticesTruthful
  BY DEF Inv
<1> QED
  BY <1>1, Invariance, PTL

\* What was abandoned, closed or reviewed stays as it is.
LEMMA FinalStep ==
    ASSUME Inv, [Next]_vars
    PROVE  /\ exec.status \in {"CANCELLED", "CLOSED"} =>
                  exec'.status = exec.status /\ rev' = rev /\ stage' = stage
           /\ \A r \in Revision :
                  rev[r].head # NoCommit =>
                      /\ rev'[r].head = rev[r].head
                      /\ rev[r].status # "REVIEW" => rev'[r].status = rev[r].status
<1> DEFINE Final ==
        /\ exec.status \in {"CANCELLED", "CLOSED"} =>
               exec'.status = exec.status /\ rev' = rev /\ stage' = stage
        /\ \A r \in Revision :
               rev[r].head # NoCommit =>
                   /\ rev'[r].head = rev[r].head
                   /\ rev[r].status # "REVIEW" => rev'[r].status = rev[r].status
<1> SUFFICES Final
  OBVIOUS
<1>0. /\ rev \in [Revision -> RevisionRow] /\ exec \in ExecutionRow
      /\ \A r \in Revision : rev[r] \in RevisionRow
      /\ \A r \in Revision : rev[r].head # NoCommit <=>
             rev[r].status \in {"REVIEW", "CHANGES_REQUESTED", "APPROVED"}
  BY DEF Inv, Typed, TypeOK, RevisionHistory
<1>1. ASSUME UNCHANGED <<stage, exec, rev>> PROVE Final
  BY <1>1
<1>2. ASSUME NEW r \in Revision, exec.status \notin {"CANCELLED", "CLOSED"},
             \A q \in Revision : q # r =>
                 rev'[q].head = rev[q].head /\ rev'[q].status = rev[q].status,
             \/ rev[r].status \notin {"REVIEW", "CHANGES_REQUESTED", "APPROVED"}
             \/ rev[r].status = "REVIEW" /\ rev'[r].head = rev[r].head
      PROVE  Final
  BY <1>0, <1>2
<1>3. ASSUME NEW r \in Revision, Approve(r) \/ RequestChanges(r) PROVE Final
  <2>1. rev[r].status = "REVIEW" /\ exec.status = "SUCCEEDED"
    BY <1>3, AtGate DEF Approve, RequestChanges, Reviewable
  <2>2. /\ rev'[r].head = rev[r].head
        /\ \A q \in Revision : q # r => rev'[q] = rev[q]
    BY <1>0, <1>3 DEF Approve, RequestChanges, RevisionRow
  <2> QED
    BY <1>2, <2>1, <2>2
<1>4. ASSUME NEW r \in Revision, AddressWithAgent(r) PROVE Final
  <2>1. /\ exec.current = r /\ exec.status = "SUCCEEDED" /\ r + 1 \in Revision /\ r + 1 > r
    BY <1>4, BoundsAssumption DEF AddressWithAgent, Revision
  <2>2. rev[r + 1].status = "NONE"
    BY <2>1 DEF Inv, RevisionHistory, NoRevision
  <2>3. \A q \in Revision : q # r + 1 => rev'[q] = rev[q]
    BY <1>0, <1>4 DEF AddressWithAgent
  <2> QED
    BY <1>2, <2>1, <2>2, <2>3
<1>5. ASSUME NEW j \in Job, Retry(j) PROVE Final
  <2>1. CASE j[1] \in {"RUN", "VERIFY"}
    <3>1. job[j].status = "FAILED" /\ exec.status = "FAILED" /\ rev[j[2]].status = "FAILED"
          /\ exec.current = j[2] /\ j[2] \in Revision
      BY <1>5, <2>1, Waiting, JobParts DEF Retry
    <3>2. \A q \in Revision : q # j[2] => rev'[q] = rev[q]
      BY <1>0, <1>5, <2>1, <3>1 DEF Retry
    <3> QED
      BY <1>2, <3>1, <3>2
  <2>2. CASE j[1] \notin {"RUN", "VERIFY"}
    <3>1. rev' = rev /\ stage' = stage
      BY <1>5, <2>2 DEF Retry
    <3>2. exec.status \in {"CANCELLED", "CLOSED"} => exec'.status = exec.status
      BY <1>5, <2>2 DEF Retry, RetryAllowed
    <3> QED
      BY <3>1, <3>2
  <2> QED
    BY <2>1, <2>2
<1>6. ASSUME Abandon PROVE Final
  BY <1>6 DEF Abandon
<1>7. ASSUME NEW w \in Workers, Fail(w) PROVE Final
  <2>1. CASE ~JobIsCurrent(w)
    BY <1>7, <2>1 DEF Fail
  <2>2. CASE JobIsCurrent(w)
    <3>1. Target(w) \in Revision
      BY ClaimTypes DEF Inv
    <3>2. exec'.status = Moved(exec.status, {"PENDING", "RUNNING"}, "FAILED") /\ stage' = stage
      BY <1>0, <1>7, <2>2 DEF Fail, ExecutionRow
    <3>3. CASE Kind(w) \in {"RUN", "VERIFY"}
      <4>1. exec.status = "RUNNING" /\ rev[Target(w)].status = "UPDATING"
        BY <1>7, <2>2, <3>3, Holding DEF Fail
      <4>2. \A q \in Revision : q # Target(w) => rev'[q] = rev[q]
        BY <1>0, <1>7, <2>2, <3>3 DEF Fail
      <4>3. PICK r \in Revision : r = Target(w)
        BY <3>1
      <4> QED
        BY <1>2, <4>1, <4>2, <4>3
    <3>4. CASE Kind(w) = "CLOSE"
      <4>1. rev[Target(w)].status = "APPROVED" /\ exec.status = "SUCCEEDED"
        BY <1>7, <2>2, <3>4, Holding DEF Fail
      <4>2. \A q \in Revision : rev'[q].head = rev[q].head /\ rev'[q].status = rev[q].status
        BY <1>0, <1>7, <2>2, <3>1, <3>4, <4>1 DEF Fail, Moved, RevisionRow
      <4> QED
        BY <4>1, <4>2
    <3>5. CASE Kind(w) \notin {"RUN", "VERIFY", "CLOSE"}
      BY <1>7, <2>2, <3>2, <3>5 DEF Fail, Moved
    <3> QED
      BY <3>3, <3>4, <3>5
  <2> QED
    BY <2>1, <2>2
<1>8. ASSUME NEW w \in Workers, OpenExecution(w) \/ RecordWorktree(w) PROVE Final
  <2>1. rev' = rev /\ stage' = stage
    BY <1>8 DEF OpenExecution, RecordWorktree
  <2>2. exec.status \in {"CANCELLED", "CLOSED"} => exec' = exec
    BY <1>0, <1>8 DEF OpenExecution, RecordWorktree, Moved, ExecutionRow
  <2> QED
    BY <2>1, <2>2
<1>9. ASSUME NEW w \in Workers, OpenFirstRevision(w) PROVE Final
  <2>1. /\ claim[w].phase = "bootstrapped" /\ JobIsCurrent(w)
    BY <1>9 DEF OpenFirstRevision
  <2>2. Kind(w) = "PREPARE" /\ exec.current = 0 /\ exec.status = "RUNNING"
    BY <2>1, Holding DEF ClaimMatches
  <2>3. 1 \in Revision /\ rev[1].status = "NONE"
    <3>1. 1 \in Revision
      BY JobShape
    <3> QED
      BY <2>2, <3>1 DEF Inv, RevisionHistory, NoRevision
  <2>4. \A q \in Revision : q # 1 => rev'[q] = rev[q]
    BY <1>0, <1>9 DEF OpenFirstRevision
  <2> QED
    BY <1>2, <2>2, <2>3, <2>4
<1>10. ASSUME NEW w \in Workers, PublishReview(w) PROVE Final
  <2>1. PICK r \in Revision : r = Target(w)
    BY ClaimTypes DEF Inv
  <2>2. claim[w].phase = "pushed" /\ JobIsCurrent(w)
    BY <1>10 DEF PublishReview
  <2>3. exec.status = "RUNNING" /\ rev[r].status = "UPDATING"
    BY <2>1, <2>2, Holding DEF ClaimMatches
  <2>4. ASSUME NEW q \in Revision, q # r
        PROVE  rev'[q].head = rev[q].head /\ rev'[q].status = rev[q].status
    BY <1>0, <1>10, <2>1, <2>4 DEF PublishReview, RevisionRow
  <2> QED
    BY <1>2, <2>3, <2>4
<1>11. ASSUME NEW w \in Workers, CloseExecution(w) PROVE Final
  <2>1. claim[w].phase = "removed" /\ JobIsCurrent(w) /\ Kind(w) = "CLOSE" /\ rev' = rev
    BY <1>11 DEF CloseExecution
  <2>2. exec.status = "SUCCEEDED"
    BY <2>1, Holding
  <2> QED
    BY <2>1, <2>2
<1>12. ASSUME NEW w \in Workers, RecordCleanup(w) PROVE Final
  <2>1. exec'.status = exec.status
    BY <1>0, <1>12 DEF RecordCleanup, ExecutionRow
  <2> QED
    BY <1>12, <2>1 DEF RecordCleanup
<1>13. CASE UNCHANGED vars \/ UpstreamMoves \/ ArtifactAttemptFails \/ LeftoverWrites
  BY <1>1, <1>13 DEF vars, database, UpstreamMoves, ArtifactAttemptFails, LeftoverWrites
<1>14. ASSUME NEW j \in Job, LeaseExpires(j) \/ \E w \in Workers : Claim(w, j) PROVE Final
  BY <1>1, <1>14 DEF LeaseExpires, Claim
<1>15. ASSUME NEW w \in Workers,
              \/ Load(w) \/ CancelStaleJob(w) \/ GiveUp(w) \/ OperationFails(w) \/ Crash(w)
              \/ PrepareWorktree(w) \/ Bootstrap(w) \/ AgentEdits(w) \/ AgentReturns(w)
              \/ QueueVerification(w) \/ RunChecks(w) \/ CommitAndPush(w) \/ PushFails(w)
              \/ PublishRaises(w) \/ CompareRemote(w) \/ RemoveWorktree(w) \/ ForceRemove(w)
       PROVE  Final
  BY <1>1, <1>15 DEF Load, CancelStaleJob, GiveUp, OperationFails, Crash, PrepareWorktree,
     Bootstrap, AgentEdits, AgentReturns, QueueVerification, RunChecks, CommitAndPush,
     PushFails, PublishRaises, CompareRemote, RemoveWorktree, ForceRemove, database
<1> HIDE DEF Final
<1> QED
  BY <1>3, <1>4, <1>5, <1>6, <1>7, <1>8, <1>9, <1>10, <1>11, <1>12, <1>13, <1>14, <1>15
     DEF Next, Decide, Proceed

\* An abandoned or closed execution never moves again, a head that was put to
\* review never changes, and a decision is never taken back.
THEOREM HistoryStays == Spec => HistoryIsFinal
<1>1. Inv /\ [Next]_vars =>
          [/\ exec.status \in {"CANCELLED", "CLOSED"} =>
                  exec'.status = exec.status /\ rev' = rev /\ stage' = stage
           /\ \A r \in Revision :
                  rev[r].head # NoCommit =>
                      /\ rev'[r].head = rev[r].head
                      /\ rev[r].status # "REVIEW" => rev'[r].status = rev[r].status]_vars
  BY FinalStep
<1> QED
  BY <1>1, Invariance, PTL DEF Spec, HistoryIsFinal

-------------------------------------------------------------------------------
(* The execution is never stranded.                                        *)

Unsettled == {"PENDING", "RUNNING", "FAILED"}

\* A worker whose id is in the row of its job holds the latest claim of it.
OwnersHold ==
    \A w \in Workers : claim[w].phase # "idle" /\ job[JobOf(w)].owner = w => JobIsCurrent(w)

\* A revision that is still to be built was never verified.
BuiltBeforeVerified ==
    \A r \in Revision : job[Run(r)].status \in Unsettled => job[Verify(r)].status = "NONE"

\* A job that is still to be done expects the feature as it is.
UpToDate ==
    \A j \in Job : job[j].status \in Unsettled /\ j # Cleanup => job[j].expects = version

\* A job that its holder will cancel has been taken over.
StaleIsOvertaken == \A w \in Workers : claim[w].phase = "stale" => ~JobIsCurrent(w)

\* The execution is not where it waits for people, or at its end.
NeedsWork ==
    \/ exec.status \in {"NONE", "PENDING", "RUNNING", "FAILED", "CANCELLED"}
    \/ exec.status = "SUCCEEDED" /\ rev[exec.current].status = "APPROVED"

Pursued ==
    NeedsWork =>
        \/ \E j \in Job : job[j].status \in Unsettled
        \/ job[Cleanup].status = "SUCCEEDED"

\* Whose claims and which jobs go on, as far as nothing disturbs the feature.
Going ==
    /\ OwnersHold
    /\ BuiltBeforeVerified
    /\ stray = 0 => UpToDate /\ StaleIsOvertaken /\ Pursued

\* An unsettled job that expects the feature as it is finds the world it was
\* queued for.
LEMMA FindsItsWorld ==
    ASSUME Inv, NEW j \in Job, job[j].status \in Active,
           j # Cleanup => job[j].expects = version
    PROVE  Ready(j)
<1>1. job[j].status \in {"PENDING", "RUNNING", "FAILED"} /\ job[j].status # "FAILED"
  BY DEF Active
<1>2. /\ j[1] \in {"PREPARE", "RUN", "VERIFY", "CLOSE", "CLEANUP"}
      /\ j[2] \in Revision /\ (j[1] = "CLEANUP" <=> j = Cleanup)
      /\ j[1] = "PREPARE" => j = Prepare
  BY JobShape
<1>3. CASE j[1] = "PREPARE"
  BY <1>1, <1>3, Waiting DEF Ready, Cleanup
<1>4. CASE j[1] \in {"RUN", "VERIFY"}
  <2>1. /\ exec.current = j[2] /\ stage = "IMPLEMENTATION"
        /\ exec.status = "RUNNING" /\ rev[j[2]].status = "UPDATING"
    BY <1>1, <1>4, Waiting
  <2>2. ASSUME j[2] > 1 PROVE rev[j[2] - 1].feedback = "OPEN"
    <3>1. PICK q \in Revision : q = j[2] - 1 /\ q + 1 = j[2] /\ q < exec.current
      <4>1. j[2] \in Nat /\ j[2] - 1 \in Revision
        BY <1>2, <2>2, BoundsAssumption DEF Revision
      <4> QED
        BY <2>1, <4>1
    <3>2. rev[q].status = "CHANGES_REQUESTED" /\ rev[q + 1].head = NoCommit
      BY <1>2, <2>1, <3>1 DEF Inv, RevisionHistory
    <3>3. rev[q].feedback \notin {"NONE", "RESOLVED"}
      BY <3>1, <3>2 DEF Inv, RevisionHistory
    <3> QED
      BY <3>1, <3>3 DEF Inv, Typed, TypeOK, RevisionRow
  <2>3. j # Cleanup
    BY <1>2, <1>4
  <2> QED
    BY <1>4, <2>1, <2>2, <2>3 DEF Ready
<1>5. CASE j[1] = "CLOSE"
  <2>1. j # Cleanup
    BY <1>2, <1>5
  <2> QED
    BY <1>1, <1>5, <2>1, Waiting DEF Ready
<1>6. CASE j[1] = "CLEANUP"
  BY <1>1, <1>6, Waiting DEF Ready
<1> QED
  BY <1>2, <1>3, <1>4, <1>5, <1>6

\* A failed job may be tried again, wherever the execution is.
LEMMA FailedCanBeRetried ==
    ASSUME Inv, NEW j \in Job, job[j].status = "FAILED" PROVE RetryAllowed(j)
<1>1. j[1] \in {"PREPARE", "RUN", "VERIFY", "CLOSE", "CLEANUP"} /\ j[2] # 0
  BY JobParts
<1> QED
  BY <1>1, Waiting DEF RetryAllowed

\* What the execution awaits says where it is.
LEMMA AwaitedIsNeeded ==
    ASSUME Inv, NEW j \in Job, Awaits(j) PROVE NeedsWork
<1>1. j[1] \in {"PREPARE", "RUN", "VERIFY", "CLOSE", "CLEANUP"}
  BY JobParts
<1> QED
  BY <1>1 DEF Awaits, NeedsWork

\* With this the invariant says that the execution is not stranded.
LEMMA GoingIsNotStranded == Inv /\ Going => NeverStranded
<1> SUFFICES ASSUME Inv, Going, stray = 0, NEW i \in Job, Awaits(i)
             PROVE  \/ \E j \in Job : /\ Awaits(j)
                                      /\ \/ job[j].status \in Active /\ Ready(j)
                                         \/ job[j].status = "FAILED" /\ RetryAllowed(j)
                    \/ job[Cleanup].status = "SUCCEEDED"
  BY DEF NeverStranded
<1>1. CASE job[Cleanup].status = "SUCCEEDED"
  BY <1>1
<1>2. ASSUME NEW j \in Job, job[j].status \in Unsettled
      PROVE  Awaits(j) /\ \/ job[j].status \in Active /\ Ready(j)
                          \/ job[j].status = "FAILED" /\ RetryAllowed(j)
  <2>1. Awaits(j)
    BY <1>2 DEF Inv, OneOperation, Unfinished, Active, Unsettled
  <2>2. job[j].status = "FAILED" => RetryAllowed(j)
    BY FailedCanBeRetried
  <2>3. job[j].status \in Active => Ready(j)
    BY <1>2, FindsItsWorld DEF Going, UpToDate
  <2> QED
    BY <1>2, <2>1, <2>2, <2>3 DEF Unsettled, Active
<1> QED
  BY <1>1, <1>2, AwaitedIsNeeded DEF Going, Pursued

\* A worker keeps its claim, gives it up, or goes on with it; it does not find
\* it stale if it is current and nothing has disturbed the feature.
ClaimGoes(v) ==
    \/ claim'[v].phase = "idle"
    \/ /\ claim[v].phase # "idle"
       /\ claim'[v].job = claim[v].job /\ claim'[v].attempt = claim[v].attempt
       /\ claim'[v].phase = "stale" =>
              claim[v].phase = "stale" \/ ~JobIsCurrent(v) \/ stray # 0

\* A worker whose claim is not touched keeps it.
LEMMA ClaimUntouched ==
    ASSUME NEW v \in Workers, claim'[v] = claim[v] PROVE ClaimGoes(v)
  BY DEF ClaimGoes

\* The claims stay in order when no job is claimed.
LEMMA ClaimsFollow ==
    ASSUME Inv, Going, stray' = stray,
           \A v \in Workers : ClaimGoes(v),
           \A i \in Job : JobMoves(i)
    PROVE  OwnersHold' /\ (stray = 0 => StaleIsOvertaken')
<1>1. ASSUME NEW v \in Workers, claim'[v].phase # "idle"
      PROVE  /\ claim[v].phase # "idle" /\ JobOf(v) \in Job
             /\ JobOf(v)' = JobOf(v) /\ claim'[v].attempt = claim[v].attempt
  BY <1>1, ClaimTypes DEF ClaimGoes, JobOf, Inv
<1>2. ASSUME NEW v \in Workers, claim'[v].phase # "idle", job'[JobOf(v)].owner = v
      PROVE  JobIsCurrent(v)' /\ JobIsCurrent(v)
  <2>1. JobMoves(JobOf(v)) /\ v # NoOwner
    BY <1>1, <1>2, WorkersAssumption
  <2>2. /\ job'[JobOf(v)].status = job[JobOf(v)].status
        /\ job'[JobOf(v)].attempts = job[JobOf(v)].attempts
        /\ job[JobOf(v)].owner = v
    BY <1>2, <2>1 DEF JobMoves
  <2>3. JobIsCurrent(v)
    BY <1>1, <1>2, <2>2 DEF Going, OwnersHold
  <2> QED
    BY <1>1, <1>2, <2>2, <2>3 DEF JobIsCurrent
<1>3. OwnersHold'
  <2> SUFFICES ASSUME NEW v \in Workers, claim'[v].phase # "idle", job'[JobOf(v)'].owner = v
               PROVE  JobIsCurrent(v)'
    BY DEF OwnersHold
  <2> QED
    BY <1>1, <1>2
<1>4. ASSUME stray = 0, NEW v \in Workers, claim'[v].phase = "stale", JobIsCurrent(v)'
      PROVE  FALSE
  <2>1. job'[JobOf(v)].owner = v
    BY <1>1, <1>4 DEF JobIsCurrent
  <2>2. JobIsCurrent(v)
    BY <1>2, <1>4, <2>1
  <2>3. claim[v].phase = "stale"
    BY <1>4, <2>2 DEF ClaimGoes
  <2> QED
    BY <1>4, <2>2, <2>3 DEF Going, StaleIsOvertaken
<1> QED
  BY <1>3, <1>4 DEF StaleIsOvertaken

\* A step that leaves the jobs alone.
LEMMA GoingWithoutJobs ==
    ASSUME Inv, Going, UNCHANGED <<job, version, stray>>,
           \A v \in Workers : ClaimGoes(v),
           NeedsWork' => NeedsWork
    PROVE  Going'
<1>1. \A i \in Job : JobMoves(i)
  BY DEF JobMoves
<1>2. OwnersHold' /\ (stray = 0 => StaleIsOvertaken')
  BY <1>1, ClaimsFollow
<1> QED
  BY <1>2 DEF Going, BuiltBeforeVerified, UpToDate, Pursued

\* A step that leaves at most one job to be done.
LEMMA GoingWithOneJob ==
    ASSUME Inv, Going, stray' = stray, NEW k \in Job,
           \A v \in Workers : ClaimGoes(v),
           \A i \in Job : JobMoves(i),
           \A i \in Job : i # k => job'[i].status \notin Unsettled,
           k[1] = "RUN" /\ job'[k].status \in Unsettled => job'[Verify(k[2])].status = "NONE",
           stray = 0 /\ k # Cleanup /\ job'[k].status \in Unsettled =>
               job'[k].expects = version',
           stray = 0 /\ NeedsWork' =>
               job'[k].status \in Unsettled \/ job'[Cleanup].status = "SUCCEEDED"
    PROVE  Going'
<1>1. OwnersHold' /\ (stray = 0 => StaleIsOvertaken')
  BY ClaimsFollow
<1>2. BuiltBeforeVerified'
  <2> SUFFICES ASSUME NEW r \in Revision, job'[Run(r)].status \in Unsettled
               PROVE  job'[Verify(r)].status = "NONE"
    BY DEF BuiltBeforeVerified
  <2> QED
    BY JobNames
<1>3. stray = 0 => UpToDate' /\ Pursued'
  BY DEF UpToDate, Pursued
<1> QED
  BY <1>1, <1>2, <1>3 DEF Going

\* What a worker does with its own claim leaves the claims in order.
LEMMA GoesOn ==
    ASSUME Inv, NEW w \in Workers, claim[w].phase # "idle",
           \/ Ends(w)
           \/ \E p \in Phase : Goes(w, p) /\ (p = "stale" => ~JobIsCurrent(w) \/ stray # 0)
           \/ PrepareWorktree(w)
           \/ CommitAndPush(w)
    PROVE  \A v \in Workers : ClaimGoes(v)
<1>1. claim \in [Workers -> ClaimedJob] /\ claim[w] \in ClaimedJob
  BY DEF Inv, Typed, TypeOK
<1>2. ASSUME NEW v \in Workers, v # w PROVE claim'[v] = claim[v]
  BY <1>1, <1>2 DEF Ends, Goes, PrepareWorktree, CommitAndPush
<1>3. ClaimGoes(w)
  <2>1. CASE Ends(w)
    BY <1>1, <2>1 DEF Ends, Idle, ClaimGoes
  <2>2. ASSUME NEW p \in Phase, Goes(w, p), p = "stale" => ~JobIsCurrent(w) \/ stray # 0
        PROVE  ClaimGoes(w)
    BY <1>1, <2>2 DEF Goes, ClaimGoes, ClaimedJob
  <2>3. CASE PrepareWorktree(w) \/ CommitAndPush(w)
    BY <1>1, <2>3 DEF PrepareWorktree, CommitAndPush, ClaimGoes, ClaimedJob
  <2> QED
    BY <2>1, <2>2, <2>3
<1>4. \A v \in Workers : v # w => ClaimGoes(v)
  BY <1>2, ClaimUntouched
<1> QED
  BY <1>3, <1>4

\* The steps between the transactions, and those of the preparation.
LEMMA GoingWork ==
    ASSUME Inv, Going, NEW w \in Workers,
           \/ Load(w) \/ GiveUp(w) \/ OperationFails(w) \/ Crash(w)
           \/ PrepareWorktree(w) \/ Bootstrap(w) \/ AgentEdits(w) \/ AgentReturns(w)
           \/ RunChecks(w) \/ CommitAndPush(w) \/ PushFails(w) \/ PublishRaises(w)
           \/ CompareRemote(w) \/ RemoveWorktree(w) \/ ForceRemove(w)
    PROVE  Going'
<1>0. {"loaded", "stale", "raised", "bootstrapped", "returned", "checked", "matched", "removed"}
          \subseteq Phase
  BY DEF Phase
<1>1. UNCHANGED <<job, version, stray, exec, rev>>
  BY DEF Load, GiveUp, OperationFails, Crash, PrepareWorktree, Bootstrap, AgentEdits,
     AgentReturns, RunChecks, CommitAndPush, PushFails, PublishRaises, CompareRemote,
     RemoveWorktree, ForceRemove, database, history
<1>2. \A v \in Workers : ClaimGoes(v)
  <2>1. CASE Load(w)
    <3>1. claim[w].phase = "claimed" /\ Kind(w) # "PREPARE" /\ JobOf(w) \in Job
      BY <2>1, ClaimTypes DEF Load, Inv
    <3>2. ASSUME stray = 0, JobIsCurrent(w) PROVE Ready(JobOf(w))
      BY <3>1, <3>2, FindsItsWorld DEF Going, UpToDate, JobIsCurrent, Unsettled, Active
    <3> QED
      BY <1>0, <2>1, <3>1, <3>2, GoesOn DEF Load
  <2>2. CASE GiveUp(w) \/ Crash(w)
    BY <2>2, GoesOn DEF GiveUp, Crash
  <2>3. CASE OperationFails(w) \/ Bootstrap(w) \/ AgentReturns(w) \/ PublishRaises(w)
    BY <1>0, <2>3, GoesOn DEF OperationFails, Bootstrap, AgentReturns, PublishRaises
  <2>4. CASE RunChecks(w) \/ PushFails(w) \/ CompareRemote(w)
    BY <1>0, <2>4, GoesOn DEF RunChecks, PushFails, CompareRemote
  <2>5. CASE RemoveWorktree(w) \/ ForceRemove(w)
    BY <1>0, <2>5, GoesOn DEF RemoveWorktree, ForceRemove
  <2>6. CASE PrepareWorktree(w) \/ CommitAndPush(w)
    BY <2>6, GoesOn DEF PrepareWorktree, CommitAndPush
  <2>7. CASE AgentEdits(w)
    BY <2>7, ClaimUntouched DEF AgentEdits
  <2> QED
    BY <2>1, <2>2, <2>3, <2>4, <2>5, <2>6, <2>7
<1> QED
  BY <1>1, <1>2, GoingWithoutJobs DEF NeedsWork

\* A claim by which a job is owned, when the job is overtaken or ended.
LEMMA OwnerIsCurrent ==
    ASSUME Inv, Going, NEW w \in Workers, claim[w].phase # "idle", NEW s \in JobStatus
    PROVE  \/ JobIsCurrent(w)
           \/ job[JobOf(w)].owner # w /\ Closed(w, s) = job
  BY ClosedRows DEF Inv, Typed, Going, OwnersHold

\* Preparing moves the execution on, or finds it abandoned.
LEMMA GoingPreparation ==
    ASSUME Inv, Going, NEW w \in Workers, OpenExecution(w) \/ RecordWorktree(w)
    PROVE  Going'
<1>0. exec \in ExecutionRow /\ {"loaded", "recorded"} \subseteq Phase /\ "CANCELLED" \in JobStatus
  BY DEF Inv, Typed, TypeOK, Phase, JobStatus
<1>1. /\ claim[w].phase # "idle"
      /\ UNCHANGED <<stage, version, rev, stray>>
  BY DEF OpenExecution, RecordWorktree, history
<1>2. CASE RecordWorktree(w)
  <2>1. UNCHANGED job /\ (NeedsWork' => NeedsWork)
    BY <1>0, <1>1, <1>2 DEF RecordWorktree, NeedsWork, ExecutionRow
  <2> QED
    BY <1>0, <1>1, <1>2, <2>1, GoesOn, GoingWithoutJobs DEF RecordWorktree
<1>3. CASE OpenExecution(w) /\ Goes(w, "loaded")
  <2>1. UNCHANGED job /\ (NeedsWork' => NeedsWork)
    <3>1. CASE UNCHANGED job
      BY <1>0, <1>1, <1>3, <3>1 DEF OpenExecution, NeedsWork, ExecutionRow, Moved
    <3>2. claim'[w].phase # "idle"
      BY <1>3 DEF Goes, Inv, Typed, TypeOK, ClaimedJob
    <3>3. ~Ends(w)
      BY <3>2 DEF Ends, Idle, Inv, Typed, TypeOK
    <3> QED
      BY <1>3, <3>1, <3>3 DEF OpenExecution
  <2> QED
    BY <1>0, <1>1, <1>3, <2>1, GoesOn, GoingWithoutJobs
<1>4. CASE OpenExecution(w) /\ ~Goes(w, "loaded")
  <2>1. /\ job' = Closed(w, "CANCELLED") /\ Ends(w) /\ UNCHANGED exec
        /\ Kind(w) = "PREPARE" /\ ~(JobIsCurrent(w) /\ Ready(Prepare))
    BY <1>4 DEF OpenExecution
  <2>2. \A v \in Workers : ClaimGoes(v)
    BY <1>1, <2>1, GoesOn
  <2>3. CASE job' = job
    BY <1>1, <2>1, <2>2, <2>3, GoingWithoutJobs DEF NeedsWork
  <2>4. CASE JobIsCurrent(w)
    <3>1. JobOf(w) \in Job /\ JobOf(w) = Prepare /\ Prepare # Cleanup
          /\ job[JobOf(w)].status \in Active /\ job[JobOf(w)].owner = w
      BY <2>1, <2>4, ClaimTypes, JobShape DEF Inv, Kind, JobOf, JobIsCurrent, Active, Prepare, Cleanup
    <3>2. stray # 0
      BY <2>1, <2>4, <3>1, FindsItsWorld DEF Going, UpToDate, Unsettled, Active
    <3>3. /\ \A i \in Job : JobMoves(i)
          /\ \A i \in Job : job'[i].status \notin Unsettled
      BY <2>1, <3>1, Ended DEF Unsettled
    <3> QED
      BY <1>1, <2>2, <3>1, <3>2, <3>3, GoingWithOneJob
  <2> QED
    BY <1>0, <1>1, <2>1, <2>3, <2>4, OwnerIsCurrent
<1> QED
  BY <1>2, <1>3, <1>4

\* A decision about what was put to review finds no job to be done, and leaves
\* the one it queues.
LEMMA GoingDecisions ==
    ASSUME Inv, Going, NEW r \in Revision,
           Approve(r) \/ RequestChanges(r) \/ AddressWithAgent(r)
    PROVE  Going'
<1>1. /\ exec.current = r /\ rev[r].status \in {"REVIEW", "CHANGES_REQUESTED"}
      /\ UNCHANGED <<claim, stray>> /\ r \in Nat /\ version \in Nat
  BY DEF Approve, RequestChanges, AddressWithAgent, Reviewable, history, Revision, Inv, Typed,
     TypeOK
<1>2. /\ exec.status = "SUCCEEDED"
      /\ \A i \in Job : job[i].status \notin Unsettled
      /\ job[Close(r)].status = "NONE"
  BY <1>1, AtGate DEF Unsettled
<1>3. \A v \in Workers : ClaimGoes(v)
  BY <1>1, ClaimUntouched
<1>4. /\ Close(r) \in Job /\ Close(r)[1] = "CLOSE" /\ Cleanup[1] = "CLEANUP"
  BY JobNames DEF Cleanup
<1>5. job \in [Job -> JobRow]
  BY DEF Inv, Typed, TypeOK
<1>6. CASE Approve(r)
  <2>1. job' = Queued(job, Close(r), version + 1) /\ version' = version + 1 /\ version + 1 \in Nat
    BY <1>1, <1>6 DEF Approve
  <2>2. /\ \A i \in Job : i # Close(r) => job'[i] = job[i]
        /\ \A i \in Job : JobMoves(i)
        /\ job'[Close(r)].status = "PENDING" /\ job'[Close(r)].expects = version + 1
    BY <1>2, <1>4, <1>5, <2>1, QueuedOnly, QueuedRows
  <2>3. \A i \in Job : i # Close(r) => job'[i].status \notin Unsettled
    BY <1>2, <2>2
  <2> QED
    BY <1>1, <1>3, <1>4, <2>1, <2>2, <2>3, GoingWithOneJob DEF Unsettled
<1>7. CASE RequestChanges(r)
  <2>1. job' = job /\ exec' = exec /\ rev'[r].status = "CHANGES_REQUESTED"
    BY <1>7 DEF RequestChanges, Inv, Typed, TypeOK, RevisionRow
  <2>2. (\A i \in Job : JobMoves(i)) /\ ~NeedsWork'
    BY <1>1, <1>2, <2>1 DEF JobMoves, NeedsWork
  <2>3. \A i \in Job : job'[i].status \notin Unsettled
    BY <1>2, <2>1
  <2> QED
    BY <1>1, <1>3, <1>4, <2>2, <2>3, GoingWithOneJob
<1>8. CASE AddressWithAgent(r)
  <2>1. /\ job' = Queued(job, Run(r + 1), version) /\ version' = version
        /\ r + 1 \in Revision /\ ~(r + 1 <= r)
    BY <1>1, <1>8, BoundsAssumption DEF AddressWithAgent, Revision
  <2>2. /\ Run(r + 1) \in Job /\ Run(r + 1)[1] = "RUN" /\ Run(r + 1)[2] = r + 1
        /\ Verify(r + 1) \in Job /\ Verify(r + 1)[1] = "VERIFY" /\ Verify(r + 1)[2] = r + 1
    BY <2>1, JobNames
  <2>3. job[Run(r + 1)].status = "NONE" /\ job[Verify(r + 1)].status = "NONE"
    BY <1>1, <2>1, <2>2 DEF Inv, JobsMatch
  <2>4. /\ \A i \in Job : i # Run(r + 1) => job'[i] = job[i]
        /\ \A i \in Job : JobMoves(i)
        /\ job'[Run(r + 1)].status = "PENDING" /\ job'[Run(r + 1)].expects = version
    BY <1>1, <1>5, <2>1, <2>2, <2>3, QueuedOnly, QueuedRows
  <2>5. \A i \in Job : i # Run(r + 1) => job'[i].status \notin Unsettled
    BY <1>2, <2>4
  <2>6. job'[Verify(r + 1)].status = "NONE" /\ Run(r + 1) # Cleanup
    BY <1>4, <2>2, <2>3, <2>4
  <2> QED
    BY <1>1, <1>3, <2>1, <2>2, <2>4, <2>5, <2>6, GoingWithOneJob DEF Unsettled
<1> QED
  BY <1>6, <1>7, <1>8

\* A retry puts the failed job back as it was queued, and an abandonment queues
\* the cleanup in its place.
LEMMA GoingRecovery ==
    ASSUME Inv, Going, NEW j \in Job, Retry(j) \/ Abandon
    PROVE  Going'
<1>0. job \in [Job -> JobRow] /\ (\A i \in Job : job[i] \in JobRow) /\ UNCHANGED <<claim, stray, version>>
  BY DEF Inv, Typed, TypeOK, Retry, Abandon, history
<1>1. \A v \in Workers : ClaimGoes(v)
  BY <1>0, ClaimUntouched
<1>2. CASE Retry(j)
  <2>1. job[j].status = "FAILED" /\ job' = [job EXCEPT ![j].status = "PENDING"]
    BY <1>2 DEF Retry
  <2>2. job[j].owner = NoOwner
    BY <2>1 DEF Inv, JobsMatch
  <2>3. /\ \A i \in Job : i # j => job'[i] = job[i]
        /\ job'[j].status = "PENDING" /\ job'[j].owner = NoOwner
        /\ job'[j].attempts = job[j].attempts /\ job'[j].expects = job[j].expects
    BY <1>0, <2>1, <2>2 DEF JobRow
  <2>4. \A i \in Job : JobMoves(i)
    BY <2>1, <2>3 DEF JobMoves
  <2>5. \A i \in Job : i # j => job'[i].status \notin Unsettled
    BY <2>1, <2>3, Waiting DEF Unsettled
  <2>6. j[1] = "RUN" => job'[Verify(j[2])].status = "NONE"
    <3> SUFFICES ASSUME j[1] = "RUN" PROVE job'[Verify(j[2])].status = "NONE"
      OBVIOUS
    <3>1. PICK r \in Revision : r = j[2] /\ j = Run(r)
      BY JobShape
    <3>2. Verify(r) \in Job /\ Verify(r) # j
      BY <3>1, JobNames
    <3> QED
      BY <2>1, <2>3, <3>1, <3>2 DEF Going, BuiltBeforeVerified, Unsettled
  <2>7. stray = 0 /\ j # Cleanup => job[j].expects = version
    BY <2>1 DEF Going, UpToDate, Unsettled
  <2> QED
    BY <1>0, <1>1, <2>3, <2>4, <2>5, <2>6, <2>7, GoingWithOneJob DEF Unsettled
<1>3. CASE Abandon
  <2> DEFINE row(i) == IF job[i].status \in {"PENDING", "RUNNING", "FAILED"}
                       THEN [job[i] EXCEPT !.status = "CANCELLED", !.owner = NoOwner, !.live = FALSE]
                       ELSE job[i]
             jobs == [i \in Job |-> row(i)]
  <2>1. job' = Queued(jobs, Cleanup, 0) /\ exec.status = "FAILED"
    BY <1>3 DEF Abandon
  <2>2. ASSUME NEW i \in Job
        PROVE  /\ row(i) \in JobRow /\ row(i).status \notin Unsettled
               /\ row(i).attempts = job[i].attempts
               /\ \/ row(i) = job[i]
                  \/ /\ job[i].status \in Unsettled /\ row(i).status = "CANCELLED"
                     /\ row(i).owner = NoOwner
    BY <1>0 DEF JobRow, JobStatus, Unsettled
  <2> HIDE DEF row
  <2>3. jobs \in [Job -> JobRow] /\ \A i \in Job : jobs[i] = row(i)
    BY <2>2
  <2>4. Cleanup \in Job /\ Cleanup[1] = "CLEANUP"
    BY JobShape DEF Cleanup
  <2>5. job[Cleanup].status = "NONE" /\ job[Cleanup].attempts = 0
    BY <2>1, <2>4 DEF Inv, JobsMatch
  <2> HIDE DEF jobs
  <2>6. jobs[Cleanup].status = "NONE" /\ 0 \in Nat
    BY <2>2, <2>3, <2>4, <2>5 DEF Unsettled
  <2>7. /\ \A i \in Job : i # Cleanup => job'[i] = row(i)
        /\ job'[Cleanup].status = "PENDING" /\ job'[Cleanup].attempts = 0
        /\ job'[Cleanup].owner = NoOwner
    BY <2>1, <2>3, <2>4, <2>6, QueuedRows
  <2>8. \A i \in Job : JobMoves(i)
    <3>1. ASSUME NEW i \in Job, i # Cleanup PROVE JobMoves(i)
      BY <2>2, <2>7, <3>1 DEF JobMoves, Unsettled
    <3>2. JobMoves(Cleanup)
      BY <2>5, <2>7 DEF JobMoves
    <3> QED
      BY <3>1, <3>2
  <2>9. \A i \in Job : i # Cleanup => job'[i].status \notin Unsettled
    BY <2>2, <2>7
  <2> QED
    BY <1>0, <1>1, <2>4, <2>7, <2>8, <2>9, GoingWithOneJob DEF Unsettled
<1> QED
  BY <1>2, <1>3

\* The claim of a job, and the end of a lease.
LEMMA GoingClaims ==
    ASSUME Inv, Going, NEW j \in Job, LeaseExpires(j) \/ \E w \in Workers : Claim(w, j)
    PROVE  Going'
<1>0. /\ job \in [Job -> JobRow] /\ job[j] \in JobRow
      /\ UNCHANGED <<exec, rev, version, stray>>
  BY DEF Inv, Typed, TypeOK, LeaseExpires, Claim, history
<1>1. CASE LeaseExpires(j)
  <2>1. /\ \A i \in Job : i # j => job'[i] = job[i]
        /\ job'[j].status = job[j].status /\ job'[j].owner = job[j].owner
        /\ job'[j].attempts = job[j].attempts /\ job'[j].expects = job[j].expects
        /\ claim' = claim
    BY <1>0, <1>1 DEF LeaseExpires, JobRow
  <2>2. \A i \in Job : JobMoves(i) /\ job'[i].status = job[i].status /\ job'[i].expects = job[i].expects
    BY <2>1 DEF JobMoves
  <2>3. OwnersHold' /\ (stray = 0 => StaleIsOvertaken')
    BY <1>0, <2>1, <2>2, ClaimsFollow, ClaimUntouched
  <2>4. BuiltBeforeVerified' /\ (stray = 0 => UpToDate' /\ Pursued')
    <3>1. Cleanup \in Job /\ \A r \in Revision : Run(r) \in Job /\ Verify(r) \in Job
      BY JobShape
    <3> QED
      BY <1>0, <2>2, <3>1 DEF Going, BuiltBeforeVerified, UpToDate, Pursued, NeedsWork
  <2> QED
    BY <1>0, <2>3, <2>4 DEF Going
<1>2. ASSUME NEW w \in Workers, Claim(w, j) PROVE Going'
  <2>1. /\ \A i \in Job : i # j => job'[i] = job[i]
        /\ job'[j].status = "RUNNING" /\ job'[j].owner = w
        /\ job'[j].attempts = job[j].attempts + 1 /\ job'[j].expects = job[j].expects
        /\ job[j].status \in Unsettled /\ w # NoOwner
    BY <1>0, <1>2, WorkersAssumption DEF Claim, Claimable, JobRow, Unsettled
  <2>2. /\ \A v \in Workers : v # w => claim'[v] = claim[v]
        /\ claim'[w].phase = "claimed" /\ claim'[w].job = j
        /\ claim'[w].attempt = job[j].attempts + 1
    BY <1>2 DEF Claim, Idle, Inv, Typed, TypeOK
  <2>3. JobIsCurrent(w)'
    BY <2>1, <2>2 DEF JobIsCurrent, JobOf
  <2>4. ASSUME NEW v \in Workers, v # w, job'[JobOf(v)].owner = v
        PROVE  /\ JobOf(v) # j /\ JobOf(v)' = JobOf(v) /\ job'[JobOf(v)] = job[JobOf(v)]
               /\ JobIsCurrent(v)' <=> JobIsCurrent(v)
    <3>1. JobOf(v) # j /\ JobOf(v) \in Job
      BY <2>1, <2>4, ClaimTypes DEF Inv
    <3> QED
      BY <2>1, <2>2, <2>4, <3>1 DEF JobOf, JobIsCurrent
  <2>5. OwnersHold'
    <3> SUFFICES ASSUME NEW v \in Workers, claim'[v].phase # "idle", job'[JobOf(v)'].owner = v
                 PROVE  JobIsCurrent(v)'
      BY DEF OwnersHold
    <3>1. v # w => JobOf(v)' = JobOf(v) /\ claim'[v] = claim[v]
      BY <2>2 DEF JobOf
    <3> QED
      BY <2>3, <2>4, <3>1 DEF Going, OwnersHold
  <2>6. stray = 0 => StaleIsOvertaken'
    <3> SUFFICES ASSUME stray = 0, NEW v \in Workers, claim'[v].phase = "stale", JobIsCurrent(v)'
                 PROVE  FALSE
      BY DEF StaleIsOvertaken
    <3>1. v # w /\ claim'[v] = claim[v] /\ JobOf(v)' = JobOf(v)
      BY <2>2 DEF JobOf
    <3>2. job'[JobOf(v)].owner = v
      BY <3>1 DEF JobIsCurrent
    <3> QED
      BY <2>4, <3>1, <3>2 DEF Going, StaleIsOvertaken
  <2>7. \A i \in Job : /\ job'[i].status \in Unsettled <=> job[i].status \in Unsettled
                       /\ job'[i].status = "NONE" <=> job[i].status = "NONE"
                       /\ job'[i].expects = job[i].expects
    BY <2>1 DEF Unsettled
  <2>8. BuiltBeforeVerified'
    BY <2>7, JobNames DEF Going, BuiltBeforeVerified
  <2>9. stray = 0 => UpToDate' /\ Pursued'
    <3>1. \E i \in Job : job'[i].status \in Unsettled
      BY <2>1 DEF Unsettled
    <3> QED
      BY <1>0, <2>7, <3>1 DEF Going, UpToDate, Pursued
  <2> QED
    BY <1>0, <2>5, <2>6, <2>8, <2>9 DEF Going
<1> QED
  BY <1>1, <1>2

\* The job that a worker queues when it ends its own.
LEMMA SuccessorQueued ==
    ASSUME Inv, NEW w \in Workers, NEW k \in Job, NEW e \in Nat, k # JobOf(w),
           job[JobOf(w)].owner = w, job' = Queued(Closed(w, "SUCCEEDED"), k, e),
           job[k].status = "NONE"
    PROVE  job'[k].status = "PENDING" /\ job'[k].expects = e
<1>1. /\ Closed(w, "SUCCEEDED") \in [Job -> JobRow]
      /\ Closed(w, "SUCCEEDED")[k].status = "NONE"
  BY ClosedRows DEF Inv, Typed, JobStatus
<1> QED
  BY <1>1, QueuedRows

\* A worker that ends its job without another to follow.
LEMMA GoingEnd ==
    ASSUME Inv, Going, NEW w \in Workers, claim[w].phase # "idle", JobIsCurrent(w),
           NEW s \in {"SUCCEEDED", "FAILED", "CANCELLED"}, job' = Closed(w, s), Ends(w),
           stray' = stray,
           \/ s = "FAILED" /\ version' = version
           \/ s # "FAILED" /\ (stray # 0 \/ ~NeedsWork')
           \/ s = "SUCCEEDED" /\ Kind(w) = "CLEANUP"
    PROVE  Going'
<1>1. /\ job[JobOf(w)].owner = w /\ JobOf(w) \in Job /\ JobOf(w)[1] = Kind(w)
      /\ Kind(w) = "CLEANUP" => JobOf(w) = Cleanup
  BY Holding, JobShape
<1>2. /\ job[JobOf(w)].status = "RUNNING" /\ job'[JobOf(w)].status = s
      /\ \A i \in Job : i # JobOf(w) => job'[i] = job[i] /\ job'[i].status \notin Unsettled
      /\ \A i \in Job : JobMoves(i)
  BY <1>1, Ended DEF Unsettled
<1>3. job'[JobOf(w)].expects = job[JobOf(w)].expects
  BY <1>1, ClosedRows DEF Inv, Typed, JobStatus
<1>4. \A v \in Workers : ClaimGoes(v)
  BY GoesOn
<1>5. ASSUME JobOf(w)[1] = "RUN" PROVE job'[Verify(JobOf(w)[2])].status = "NONE"
  <2>1. PICK r \in Revision : r = JobOf(w)[2] /\ JobOf(w) = Run(r)
    BY <1>1, <1>5, JobShape
  <2>2. Verify(r) \in Job /\ Verify(r) # JobOf(w)
    BY <1>5, <2>1, JobNames
  <2> QED
    BY <1>2, <2>1, <2>2 DEF Going, BuiltBeforeVerified, Unsettled
<1>6. stray = 0 /\ JobOf(w) # Cleanup /\ s = "FAILED" => job'[JobOf(w)].expects = version'
  BY <1>1, <1>2, <1>3 DEF Going, UpToDate, Unsettled
<1> QED
  BY <1>1, <1>2, <1>4, <1>5, <1>6, GoingWithOneJob DEF Unsettled

\* A worker that ends its job with another to follow.
LEMMA GoingSuccessor ==
    ASSUME Inv, Going, NEW w \in Workers, OpenFirstRevision(w) \/ QueueVerification(w)
    PROVE  Going'
<1>0. /\ claim[w].phase # "idle" /\ JobIsCurrent(w) /\ Ends(w)
      /\ UNCHANGED <<version, stray>>
  BY DEF OpenFirstRevision, QueueVerification, history
<1>1. /\ job[JobOf(w)].owner = w /\ JobOf(w) \in Job /\ JobOf(w)[1] = Kind(w)
      /\ JobOf(w)[2] = Target(w) /\ Target(w) \in Revision
      /\ job[JobOf(w)].status = "RUNNING" /\ ClaimMatches(w)
  BY <1>0, Holding
<1>2. \A v \in Workers : ClaimGoes(v)
  BY <1>0, GoesOn
<1>3. job[JobOf(w)].expects \in Nat
  BY <1>1 DEF Inv, Typed, TypeOK, JobRow
<1>4. stray = 0 /\ JobOf(w) # Cleanup => job[JobOf(w)].expects = version
  BY <1>1 DEF Going, UpToDate, Unsettled
<1>5. Cleanup[1] = "CLEANUP"
  BY DEF Cleanup
<1>6. ASSUME NEW k \in Job, k # JobOf(w), k # Cleanup, JobOf(w) # Cleanup,
             job[k].status = "NONE",
             job' = Queued(Closed(w, "SUCCEEDED"), k, job[JobOf(w)].expects),
             k[1] = "RUN" => job'[Verify(k[2])].status = "NONE"
      PROVE  Going'
  <2>1. /\ \A i \in Job : i # k => job'[i].status \notin Unsettled
        /\ \A i \in Job : JobMoves(i)
        /\ job'[k].status = "PENDING" /\ job'[k].expects = job[JobOf(w)].expects
    BY <1>1, <1>3, <1>6, EndedAndQueued, SuccessorQueued DEF Unsettled
  <2> QED
    BY <1>0, <1>2, <1>4, <1>6, <2>1, GoingWithOneJob DEF Unsettled
<1>7. CASE QueueVerification(w)
  <2>1. PICK r \in Revision : r = Target(w)
    BY <1>1
  <2>2. Kind(w) = "RUN" /\ JobOf(w) = Run(r)
    BY <1>0, <1>1, <1>7, <2>1, JobShape DEF QueueVerification, ClaimMatches
  <2>3. Verify(r) \in Job /\ Verify(r)[1] = "VERIFY"
    BY <2>1, JobNames
  <2>4. job[Verify(r)].status = "NONE"
    BY <1>1, <2>2 DEF Going, BuiltBeforeVerified, Unsettled
  <2>5. job' = Queued(Closed(w, "SUCCEEDED"), Verify(r), job[JobOf(w)].expects)
    BY <1>7, <2>1 DEF QueueVerification
  <2> QED
    BY <1>1, <1>5, <1>6, <2>2, <2>3, <2>4, <2>5
<1>8. CASE OpenFirstRevision(w)
  <2>1. Kind(w) = "PREPARE" /\ JobOf(w) = Prepare /\ exec.current = 0
    BY <1>0, <1>1, <1>8, JobShape, Holding DEF OpenFirstRevision, ClaimMatches
  <2>2. /\ 1 \in Revision /\ Run(1) \in Job /\ Run(1)[1] = "RUN" /\ Run(1)[2] = 1
        /\ Verify(1) \in Job /\ Verify(1)[1] = "VERIFY" /\ Verify(1)[2] = 1
    BY JobShape, JobNames
  <2>3. job[Run(1)].status = "NONE" /\ job[Verify(1)].status = "NONE"
    BY <2>1, <2>2 DEF Inv, JobsMatch
  <2>4. job' = Queued(Closed(w, "SUCCEEDED"), Run(1), job[JobOf(w)].expects)
    BY <1>8, <2>1 DEF OpenFirstRevision
  <2>5. Run(1) # JobOf(w) /\ Verify(1) # JobOf(w) /\ Verify(1) # Run(1)
    BY <1>1, <2>1, <2>2
  <2>6. job'[Verify(1)].status = "NONE"
    BY <1>1, <1>3, <2>2, <2>3, <2>4, <2>5, EndedAndQueued
  <2> QED
    BY <1>1, <1>5, <1>6, <2>1, <2>2, <2>3, <2>4, <2>5, <2>6
<1> QED
  BY <1>7, <1>8

\* The other ends of a job: a success leaves the execution with people or at its
\* end, and a failure leaves the job to be tried again.
LEMMA GoingEnds ==
    ASSUME Inv, Going, NEW w \in Workers,
           \/ CancelStaleJob(w) \/ Fail(w) \/ PublishReview(w)
           \/ CloseExecution(w) \/ RecordCleanup(w)
    PROVE  Going'
<1>0. /\ claim[w].phase # "idle" /\ UNCHANGED stray /\ exec \in ExecutionRow
      /\ rev \in [Revision -> RevisionRow] /\ {"CANCELLED", "SUCCEEDED", "FAILED"} \subseteq JobStatus
      /\ "raised" \in Phase
  BY DEF CancelStaleJob, Fail, PublishReview, CloseExecution, RecordCleanup, history,
     Inv, Typed, TypeOK, JobStatus, Phase
<1>1. CASE CancelStaleJob(w)
  <2>1. /\ job' = Closed(w, "CANCELLED") /\ Ends(w) /\ UNCHANGED <<version, exec, rev>>
        /\ claim[w].phase = "stale"
    BY <1>1 DEF CancelStaleJob
  <2>2. CASE JobIsCurrent(w)
    <3>1. stray # 0
      BY <2>1, <2>2 DEF Going, StaleIsOvertaken
    <3> QED
      BY <1>0, <2>1, <2>2, <3>1, GoingEnd
  <2>3. CASE ~JobIsCurrent(w)
    <3>1. job' = job
      BY <1>0, <2>1, <2>3, OwnerIsCurrent
    <3> QED
      BY <1>0, <2>1, <3>1, GoesOn, GoingWithoutJobs DEF NeedsWork
  <2> QED
    BY <2>2, <2>3
<1>2. CASE Fail(w)
  <2>1. CASE JobIsCurrent(w)
    <3>1. job' = Closed(w, "FAILED") /\ Ends(w) /\ version' = version
      BY <1>2, <2>1 DEF Fail
    <3> QED
      BY <1>0, <2>1, <3>1, GoingEnd
  <2>2. CASE ~JobIsCurrent(w)
    BY <1>0, <1>2, <2>2, GoesOn, GoingWithoutJobs DEF Fail, NeedsWork
  <2> QED
    BY <2>1, <2>2
<1>3. CASE PublishReview(w)
  <2>1. PICK r \in Revision : r = Target(w)
    BY ClaimTypes DEF Inv
  <2>2. /\ JobIsCurrent(w) /\ job' = Closed(w, "SUCCEEDED") /\ Ends(w)
        /\ exec.status = "RUNNING" /\ exec.current = r /\ rev[r].status = "UPDATING"
    BY <1>0, <1>3, <2>1, Holding DEF PublishReview, ClaimMatches
  <2>3. exec'.status = "SUCCEEDED" /\ exec'.current = r
    BY <1>0, <1>3, <2>2 DEF PublishReview, ExecutionRow, Moved
  <2>4. rev'[r].status = "REVIEW"
    BY <1>0, <1>3, <2>1, <2>2 DEF PublishReview, RevisionRow, Moved
  <2>5. ~NeedsWork'
    BY <2>3, <2>4 DEF NeedsWork
  <2> QED
    BY <1>0, <2>2, <2>5, GoingEnd
<1>4. CASE CloseExecution(w) /\ job' = Closed(w, "SUCCEEDED") /\ Ends(w) /\ exec'.status = "CLOSED"
  <2>1. JobIsCurrent(w) /\ ~NeedsWork'
    BY <1>4 DEF CloseExecution, NeedsWork
  <2> QED
    BY <1>0, <1>4, <2>1, GoingEnd
<1>5. CASE CloseExecution(w) /\ Goes(w, "raised") /\ UNCHANGED <<version, exec, job>>
  <2>1. UNCHANGED rev
    BY <1>5 DEF CloseExecution
  <2> QED
    BY <1>0, <1>5, <2>1, GoesOn, GoingWithoutJobs DEF NeedsWork
<1>6. CASE RecordCleanup(w)
  BY <1>0, <1>6, GoingEnd DEF RecordCleanup
<1>7. ASSUME CloseExecution(w), ~(Goes(w, "raised") /\ UNCHANGED <<version, exec, job>>)
      PROVE  exec'.status = "CLOSED" /\ job' = Closed(w, "SUCCEEDED") /\ Ends(w)
  <2>1. exec.status = "SUCCEEDED"
    BY <1>0, <1>7, Holding DEF CloseExecution
  <2> QED
    BY <1>0, <1>7, <2>1 DEF CloseExecution, ExecutionRow, Moved
<1> QED
  BY <1>1, <1>2, <1>3, <1>4, <1>5, <1>6, <1>7

\* A step outside of the execution.
LEMMA GoingSurroundings ==
    ASSUME Inv, Going,
           UpstreamMoves \/ ArtifactAttemptFails \/ LeftoverWrites \/ UNCHANGED vars
    PROVE  Going'
<1>1. UNCHANGED <<job, claim, exec, rev>> /\ (UNCHANGED <<version, stray>> \/ stray' # 0)
  <2>1. stray \in Nat
    BY BoundsAssumption DEF Inv, Typed, TypeOK
  <2>2. CASE LeftoverWrites
    BY <2>2 DEF LeftoverWrites, database
  <2> QED
    BY <2>1, <2>2 DEF UpstreamMoves, ArtifactAttemptFails, vars, database, history
<1>2. CASE UNCHANGED <<version, stray>>
  BY <1>1, <1>2, ClaimUntouched, GoingWithoutJobs DEF NeedsWork
<1>3. CASE stray' # 0
  BY <1>1, <1>3 DEF Going, OwnersHold, BuiltBeforeVerified, JobIsCurrent, JobOf
<1> QED
  BY <1>1, <1>2, <1>3

\* Initially the first job waits for a worker.
LEMMA GoingInit == Init => Going
<1> SUFFICES ASSUME Init PROVE Going
  OBVIOUS
<1>1. /\ Inv /\ Prepare \in Job
      /\ \A j \in Job : job[j].status = IF j = Prepare THEN "PENDING" ELSE "NONE"
      /\ job[Prepare].expects = 0 /\ version = 0
      /\ \A w \in Workers : claim[w].phase = "idle"
  BY InvInit, JobShape DEF Init, NoJob, Idle
<1>2. \A r \in Revision : Run(r) \in Job /\ Run(r) # Prepare
  BY JobNames DEF Prepare
<1> QED
  BY <1>1, <1>2 DEF Going, OwnersHold, BuiltBeforeVerified, UpToDate, StaleIsOvertaken,
     Pursued, Unsettled

\* Every step keeps the execution going.
LEMMA GoingNext == Inv /\ Going /\ [Next]_vars => Going'
<1> SUFFICES ASSUME Inv, Going, [Next]_vars PROVE Going'
  OBVIOUS
<1>1. CASE Decide
  <2>1. Prepare \in Job
    BY JobShape
  <2> QED
    BY <1>1, <2>1, GoingDecisions, GoingRecovery DEF Decide
<1>2. CASE UpstreamMoves \/ ArtifactAttemptFails \/ LeftoverWrites \/ UNCHANGED vars
  BY <1>2, GoingSurroundings
<1>3. ASSUME NEW j \in Job, LeaseExpires(j) \/ \E w \in Workers : Claim(w, j) PROVE Going'
  BY <1>3, GoingClaims
<1>4. ASSUME NEW w \in Workers, Proceed(w) \/ AgentEdits(w) \/ Crash(w) PROVE Going'
  BY <1>4, GoingWork, GoingPreparation, GoingSuccessor, GoingEnds DEF Proceed
<1> QED
  BY <1>1, <1>2, <1>3, <1>4 DEF Next

\* An execution that no overtaken artifact attempt has disturbed is never
\* stuck: what it waits for will run and find the world it expects, or has
\* failed and can be tried again.
THEOREM NeverStuck == Spec => []NeverStranded
<1>1. Spec => [](Inv /\ Going)
  BY InvInit, InvNext, GoingInit, GoingNext, PTL DEF Spec
<1> QED
  BY <1>1, GoingIsNotStranded, PTL

-------------------------------------------------------------------------------
(* What is put before the reviewer has passed the checks.                  *)

\* A content that checks have seen, or that somebody wrote without the job.
Known(c) == c \in verified \cup intruded

\* What the holder of a verification has made sure of.
Checked(w) ==
    JobIsCurrent(w) =>
        /\ claim[w].phase = "checked" => tree.exists /\ Known(tree.files)
        /\ claim[w].phase = "pushed" => Known(claim[w].head)
        /\ claim[w].phase \in {"checked", "pushed"} =>
               evidence[Target(w)] = "PASS" \/ Target(w) \in belated

Traced ==
    /\ \A w \in Workers : claim[w].phase # "idle" => Checked(w)
    /\ ReviewedWasChecked

\* Only a claim makes a worker the holder of a job.
LEMMA HoldersRemain ==
    ASSUME Inv,
           \/ Decide \/ UpstreamMoves \/ ArtifactAttemptFails \/ LeftoverWrites \/ UNCHANGED vars
           \/ \E i \in Job : LeaseExpires(i)
           \/ \E w \in Workers : Proceed(w) \/ AgentEdits(w) \/ Crash(w)
    PROVE  \A i \in Job : job'[i].status = "RUNNING" =>
               /\ job[i].status = "RUNNING" /\ job'[i].owner = job[i].owner
               /\ job'[i].attempts = job[i].attempts
<1> DEFINE Remain(jobs) ==
               \A i \in Job : jobs[i].status = "RUNNING" =>
                   /\ job[i].status = "RUNNING" /\ jobs[i].owner = job[i].owner
                   /\ jobs[i].attempts = job[i].attempts
<1> SUFFICES Remain(job')
  OBVIOUS
<1>0. /\ job \in [Job -> JobRow] /\ \A i \in Job : job[i] \in JobRow
      /\ version \in Nat /\ version + 1 \in Nat /\ 0 \in Nat
      /\ Cleanup \in Job /\ Prepare \in Job /\ 1 \in Revision
      /\ \A i \in Job : job[i].expects \in Nat
      /\ Remain(job)
  <2>1. job \in [Job -> JobRow] /\ version \in Nat
    BY DEF Inv, Typed, TypeOK
  <2>2. \A i \in Job : job[i] \in JobRow /\ job[i].expects \in Nat
    BY <2>1 DEF JobRow
  <2>3. Cleanup \in Job /\ Prepare \in Job /\ 1 \in Revision
    BY JobShape
  <2>4. version + 1 \in Nat /\ 0 \in Nat /\ Remain(job)
    BY <2>1
  <2> QED
    BY <2>1, <2>2, <2>3, <2>4
<1>1. CASE UNCHANGED job
  BY <1>1
<1>2. ASSUME NEW jobs \in [Job -> JobRow], Remain(jobs), NEW k \in Job, NEW e \in Nat
      PROVE  Remain(Queued(jobs, k, e))
  BY <1>2, QueuedRows
<1>3. ASSUME NEW w \in Workers, NEW s \in {"SUCCEEDED", "FAILED", "CANCELLED"}
      PROVE  Closed(w, s) \in [Job -> JobRow] /\ Remain(Closed(w, s))
  <2>1. s \in JobStatus /\ s # "RUNNING"
    BY DEF JobStatus
  <2> QED
    BY <2>1, ClosedRows DEF Inv, Typed
<1>4. CASE Decide
  <2>1. ASSUME NEW r \in Revision, Approve(r) \/ RequestChanges(r) \/ AddressWithAgent(r)
        PROVE  Remain(job')
    <3>1. CASE Approve(r)
      <4> DEFINE e == version + 1
      <4>1. Close(r) \in Job /\ e \in Nat /\ job' = Queued(job, Close(r), e)
        BY <1>0, <3>1, JobNames DEF Approve
      <4> HIDE DEF e, Remain
      <4> QED
        BY <1>0, <1>2, <4>1
    <3>2. CASE RequestChanges(r)
      BY <1>1, <3>2 DEF RequestChanges
    <3>3. CASE AddressWithAgent(r)
      <4>1. r + 1 \in Revision
        BY <3>3, BoundsAssumption DEF AddressWithAgent, Revision
      <4>2. Run(r + 1) \in Job /\ job' = Queued(job, Run(r + 1), version)
        BY <3>3, <4>1, JobNames DEF AddressWithAgent
      <4> QED
        BY <1>0, <1>2, <4>2
    <3> QED
      BY <2>1, <3>1, <3>2, <3>3
  <2>2. ASSUME NEW j \in Job, Retry(j) PROVE Remain(job')
    BY <1>0, <2>2 DEF Retry, JobRow
  <2>3. CASE Abandon
    <3> DEFINE row(i) == IF job[i].status \in {"PENDING", "RUNNING", "FAILED"}
                         THEN [job[i] EXCEPT !.status = "CANCELLED", !.owner = NoOwner, !.live = FALSE]
                         ELSE job[i]
               jobs == [i \in Job |-> row(i)]
    <3>1. job' = Queued(jobs, Cleanup, 0)
      BY <2>3 DEF Abandon
    <3>2. \A i \in Job : row(i) \in JobRow /\ row(i).status # "RUNNING"
      BY <1>0 DEF JobRow, JobStatus
    <3>3. jobs \in [Job -> JobRow] /\ Remain(jobs)
      BY <3>2
    <3> HIDE DEF jobs
    <3> QED
      BY <1>0, <1>2, <3>1, <3>3
  <2> QED
    BY <1>4, <2>1, <2>2, <2>3 DEF Decide
<1>5. CASE UpstreamMoves \/ ArtifactAttemptFails \/ LeftoverWrites \/ UNCHANGED vars
  BY <1>1, <1>5 DEF UpstreamMoves, ArtifactAttemptFails, LeftoverWrites, vars, database
<1>6. ASSUME NEW j \in Job, LeaseExpires(j) PROVE Remain(job')
  BY <1>0, <1>6 DEF LeaseExpires, JobRow
<1>7. ASSUME NEW w \in Workers, Proceed(w) \/ AgentEdits(w) \/ Crash(w) PROVE Remain(job')
  <2>0. Target(w) \in Revision /\ JobOf(w) \in Job
    BY ClaimTypes DEF Inv
  <2>1. CASE \/ Load(w) \/ GiveUp(w) \/ OperationFails(w) \/ PrepareWorktree(w)
             \/ RecordWorktree(w) \/ Bootstrap(w) \/ AgentReturns(w) \/ RunChecks(w)
             \/ CommitAndPush(w) \/ PushFails(w) \/ PublishRaises(w) \/ CompareRemote(w)
             \/ RemoveWorktree(w) \/ ForceRemove(w) \/ AgentEdits(w) \/ Crash(w)
    BY <1>1, <2>1 DEF Load, GiveUp, OperationFails, PrepareWorktree, RecordWorktree, Bootstrap,
       AgentReturns, RunChecks, CommitAndPush, PushFails, PublishRaises, CompareRemote,
       RemoveWorktree, ForceRemove, AgentEdits, Crash, database
  <2>2. CASE \/ CancelStaleJob(w) \/ Fail(w) \/ OpenExecution(w) \/ PublishReview(w)
             \/ CloseExecution(w) \/ RecordCleanup(w)
    <3>1. job' = job \/ \E s \in {"SUCCEEDED", "FAILED", "CANCELLED"} : job' = Closed(w, s)
      BY <2>2 DEF CancelStaleJob, Fail, OpenExecution, PublishReview, CloseExecution, RecordCleanup
    <3> QED
      BY <1>1, <1>3, <3>1
  <2>3. CASE OpenFirstRevision(w)
    <3>1. Run(1) \in Job /\ job' = Queued(Closed(w, "SUCCEEDED"), Run(1), job[Prepare].expects)
      BY <1>0, <2>3, JobNames DEF OpenFirstRevision
    <3> QED
      BY <1>0, <1>2, <1>3, <3>1
  <2>4. CASE QueueVerification(w)
    <3>1. Verify(Target(w)) \in Job
      BY <2>0, JobNames
    <3> DEFINE e == job[JobOf(w)].expects
    <3>2. e \in Nat /\ job' = Queued(Closed(w, "SUCCEEDED"), Verify(Target(w)), e)
      BY <1>0, <2>0, <2>4 DEF QueueVerification
    <3> HIDE DEF e, Remain
    <3> QED
      BY <1>2, <1>3, <3>1, <3>2
  <2> QED
    BY <1>7, <2>1, <2>2, <2>3, <2>4 DEF Proceed
<1> HIDE DEF Remain
<1> QED
  BY <1>4, <1>5, <1>6, <1>7

\* A step that shows the reviewer nothing new and leaves what holders have made
\* sure of as it is, or leaves a trace.
LEMMA TracedKept ==
    ASSUME Inv, Traced,
           verified \subseteq verified', intruded \subseteq intruded', belated \subseteq belated',
           \A r \in Revision : /\ rev'[r].head = rev[r].head
                               /\ evidence'[r] = evidence[r] \/ r \in belated',
           \A v \in Workers : JobIsCurrent(v)' /\ claim'[v].phase \in {"checked", "pushed"} =>
               /\ JobIsCurrent(v) /\ claim'[v] = claim[v]
               /\ claim[v].phase = "checked" =>
                      tree'.exists /\ (tree'.files = tree.files \/ tree'.files \in intruded')
    PROVE  Traced'
<1>1. ASSUME NEW v \in Workers, claim'[v].phase \in {"checked", "pushed"}, JobIsCurrent(v)'
      PROVE  Checked(v)'
  <2>1. Checked(v) /\ JobIsCurrent(v) /\ claim'[v] = claim[v] /\ Target(v)' = Target(v)
    BY <1>1 DEF Traced, Target
  <2>2. Target(v) \in Revision
    BY ClaimTypes DEF Inv
  <2> QED
    BY <1>1, <2>1, <2>2 DEF Checked, Known
<1>2. \A v \in Workers : Checked(v)'
  BY <1>1 DEF Checked
<1>3. ReviewedWasChecked'
  BY DEF Traced, ReviewedWasChecked
<1> QED
  BY <1>2, <1>3 DEF Traced

\* While a revision is verified nobody removes the worktree, and who writes to
\* it without the job leaves a trace.
LEMMA OthersWrite ==
    ASSUME Inv, NEW v \in Workers, JobIsCurrent(v), claim[v].phase = "checked", tree.exists,
           \/ LeftoverWrites \/ UpstreamMoves \/ ArtifactAttemptFails \/ Decide \/ UNCHANGED vars
           \/ \E i \in Job : LeaseExpires(i) \/ \E w \in Workers : Claim(w, i)
           \/ \E w \in Workers : w # v /\ (Proceed(w) \/ AgentEdits(w) \/ Crash(w))
    PROVE  tree'.exists /\ (tree'.files = tree.files \/ tree'.files \in intruded')
<1>1. /\ Kind(v) = "VERIFY" /\ exec.status = "RUNNING" /\ exec.current = Target(v)
      /\ rev[Target(v)].status = "UPDATING"
  BY Holding DEF ClaimMatches
<1>2. TypeOK /\ tree \in Tree
  BY DEF Inv, Typed, TypeOK
<1>3. CASE LeftoverWrites
  BY <1>2, <1>3, Written DEF LeftoverWrites
<1>4. CASE \/ UpstreamMoves \/ ArtifactAttemptFails \/ Decide \/ UNCHANGED vars
           \/ \E i \in Job : LeaseExpires(i) \/ \E w \in Workers : Claim(w, i)
  BY <1>4 DEF UpstreamMoves, ArtifactAttemptFails, Decide, Approve, RequestChanges,
     AddressWithAgent, Retry, Abandon, LeaseExpires, Claim, vars, git
<1>5. ASSUME NEW w \in Workers, w # v, Proceed(w) \/ AgentEdits(w) \/ Crash(w)
      PROVE  tree'.exists /\ (tree'.files = tree.files \/ tree'.files \in intruded')
  <2>0. ~JobIsCurrent(w) /\ JobOf(w) \in Job /\ Target(w) \in Revision
    BY <1>5, Alone, ClaimTypes DEF Inv
  <2>1. CASE Bootstrap(w) \/ AgentEdits(w) \/ RunChecks(w)
    <3>1. Write(FALSE) \/ UNCHANGED <<tree, edits, intruded>>
      <4>1. JobIsCurrent(w) = FALSE
        BY <2>0 DEF JobIsCurrent
      <4> QED
        BY <2>1, <4>1 DEF Bootstrap, AgentEdits, RunChecks, MayWrite
    <3> QED
      BY <1>2, <3>1, Written
  <2>2. CASE PrepareWorktree(w) \/ CommitAndPush(w) \/ PushFails(w)
    BY <1>2, <2>2 DEF PrepareWorktree, CommitAndPush, PushFails, Tree
  <2>3. ASSUME ForceRemove(w) PROVE FALSE
    <3>1. claim[w].phase # "idle" /\ JobOf(w)[1] = "CLEANUP"
      BY <2>3 DEF ForceRemove, Kind, JobOf
    <3>2. job[JobOf(w)].status # "NONE"
      BY <3>1 DEF Inv, ClaimsMatch, ClaimMatches
    <3> QED
      BY <1>1, <2>0, <3>1, <3>2 DEF Inv, JobsMatch
  <2>4. ASSUME RemoveWorktree(w) PROVE FALSE
    <3>1. claim[w].phase = "matched"
      BY <2>4 DEF RemoveWorktree
    <3>2. job[JobOf(w)].status # "NONE" /\ Kind(w) = "CLOSE"
      BY <3>1 DEF Inv, ClaimsMatch, ClaimMatches
    <3>3. Target(w) <= exec.current /\ rev[Target(w)].status = "APPROVED"
      BY <2>0, <3>2 DEF Inv, JobsMatch, JobOf, Kind, Target
    <3>4. Target(w) = exec.current
      BY <2>0, <3>3 DEF Inv, RevisionHistory, Revision, Typed, TypeOK, ExecutionRow
    <3> QED
      BY <1>1, <3>3, <3>4
  <2>5. CASE \/ Load(w) \/ CancelStaleJob(w) \/ GiveUp(w) \/ OperationFails(w) \/ Fail(w)
             \/ OpenExecution(w) \/ RecordWorktree(w) \/ OpenFirstRevision(w) \/ AgentReturns(w)
             \/ QueueVerification(w) \/ PublishReview(w) \/ PublishRaises(w) \/ CompareRemote(w)
             \/ CloseExecution(w) \/ RecordCleanup(w) \/ Crash(w)
    BY <2>5 DEF Load, CancelStaleJob, GiveUp, OperationFails, Fail, OpenExecution,
       RecordWorktree, OpenFirstRevision, AgentReturns, QueueVerification, PublishReview,
       PublishRaises, CompareRemote, CloseExecution, RecordCleanup, Crash, git
  <2> QED
    BY <1>5, <2>1, <2>2, <2>3, <2>4, <2>5 DEF Proceed
<1> QED
  BY <1>3, <1>4, <1>5

\* The steps of people and of the surroundings, and the claims.
LEMMA TracedSurroundings ==
    ASSUME Inv, Traced,
           \/ Decide \/ UpstreamMoves \/ ArtifactAttemptFails \/ LeftoverWrites \/ UNCHANGED vars
           \/ \E i \in Job : LeaseExpires(i) \/ \E w \in Workers : Claim(w, i)
    PROVE  Traced'
<1>0. /\ job \in [Job -> JobRow] /\ claim \in [Workers -> ClaimedJob]
      /\ rev \in [Revision -> RevisionRow] /\ \A r \in Revision : rev[r] \in RevisionRow
      /\ \A v \in Workers : JobOf(v) \in Job
  BY ClaimTypes DEF Inv, Typed, TypeOK
<1>1. /\ verified' = verified /\ intruded \subseteq intruded' /\ belated' = belated
      /\ evidence' = evidence
  <2>1. CASE LeftoverWrites
    BY <2>1, Written DEF LeftoverWrites, database, Inv, Typed
  <2> QED
    BY <2>1 DEF Decide, Approve, RequestChanges, AddressWithAgent, Retry, Abandon, UpstreamMoves,
       ArtifactAttemptFails, LeaseExpires, Claim, vars, database, history
<1>2. \A r \in Revision : rev'[r].head = rev[r].head
  <2>1. ASSUME NEW q \in Revision, Approve(q) \/ RequestChanges(q) \/ AddressWithAgent(q)
        PROVE  \A r \in Revision : rev'[r].head = rev[r].head
    BY <1>0, <2>1 DEF Approve, RequestChanges, AddressWithAgent, RevisionRow
  <2>2. ASSUME NEW j \in Job, Retry(j) PROVE \A r \in Revision : rev'[r].head = rev[r].head
    BY <1>0, <2>2 DEF Retry, RevisionRow
  <2>3. CASE ~Decide \/ Abandon
    BY <2>3 DEF Abandon, UpstreamMoves, ArtifactAttemptFails, LeftoverWrites, LeaseExpires, Claim,
       vars, database
  <2> QED
    BY <2>1, <2>2, <2>3 DEF Decide
<1>3. ASSUME NEW v \in Workers, JobIsCurrent(v)', claim'[v].phase \in {"checked", "pushed"}
      PROVE  JobIsCurrent(v) /\ claim'[v] = claim[v]
  <2>1. ASSUME NEW i \in Job, NEW w \in Workers, Claim(w, i)
        PROVE  JobIsCurrent(v) /\ claim'[v] = claim[v]
    <3>1. claim'[w].phase = "claimed" /\ \A u \in Workers : u # w => claim'[u] = claim[u]
      BY <1>0, <2>1 DEF Claim, Idle
    <3>2. v # w /\ claim'[v] = claim[v] /\ JobOf(v)' = JobOf(v)
      BY <1>3, <3>1 DEF JobOf
    <3>3. job'[i].owner = w /\ \A k \in Job : k # i => job'[k] = job[k]
      <4>1. job[i] \in JobRow /\ job \in [Job -> JobRow]
        BY <1>0
      <4> QED
        BY <2>1, <4>1 DEF Claim, JobRow
    <3>4. JobOf(v) # i
      BY <1>3, <3>2, <3>3 DEF JobIsCurrent
    <3> QED
      BY <1>0, <1>3, <3>2, <3>3, <3>4 DEF JobIsCurrent
  <2>2. CASE ~ \E i \in Job : \E w \in Workers : Claim(w, i)
    <3>1. claim' = claim
      BY <2>2 DEF Decide, Approve, RequestChanges, AddressWithAgent, Retry, Abandon, UpstreamMoves,
         ArtifactAttemptFails, LeftoverWrites, LeaseExpires, vars
    <3>2. \A i \in Job : job'[i].status = "RUNNING" =>
              /\ job[i].status = "RUNNING" /\ job'[i].owner = job[i].owner
              /\ job'[i].attempts = job[i].attempts
      BY <2>2, HoldersRemain
    <3> QED
      BY <1>0, <1>3, <3>1, <3>2 DEF JobIsCurrent, JobOf
  <2> QED
    BY <2>1, <2>2
<1>4. ASSUME NEW v \in Workers, JobIsCurrent(v)', claim'[v].phase = "checked"
      PROVE  tree'.exists /\ (tree'.files = tree.files \/ tree'.files \in intruded')
  <2>1. JobIsCurrent(v) /\ claim[v].phase = "checked"
    BY <1>3, <1>4
  <2>2. tree.exists
    BY <2>1 DEF Traced, Checked
  <2> QED
    BY <2>1, <2>2, OthersWrite
<1> QED
  BY <1>1, <1>2, <1>3, <1>4, TracedKept

\* What the others hold when worker w takes a step of its own.
LEMMA TracedOthers ==
    ASSUME Inv, Traced, NEW w \in Workers, Proceed(w) \/ AgentEdits(w) \/ Crash(w),
           NEW v \in Workers, v # w, JobIsCurrent(v)', claim'[v].phase \in {"checked", "pushed"},
           claim'[v] = claim[v]
    PROVE  /\ JobIsCurrent(v)
           /\ claim[v].phase = "checked" =>
                  tree'.exists /\ (tree'.files = tree.files \/ tree'.files \in intruded')
<1>1. JobOf(v)' = JobOf(v) /\ JobOf(v) \in Job
  BY ClaimTypes DEF JobOf, Inv
<1>2. JobIsCurrent(v)
  BY <1>1, HoldersRemain DEF JobIsCurrent
<1>3. claim[v].phase = "checked" => tree.exists
  BY <1>2 DEF Traced, Checked
<1> QED
  BY <1>2, <1>3, OthersWrite

\* A worker touches its own claim only.
LEMMA OwnClaimOnly ==
    ASSUME Inv, NEW w \in Workers, Proceed(w) \/ AgentEdits(w) \/ Crash(w)
    PROVE  \A v \in Workers : v # w => claim'[v] = claim[v]
<1>1. claim \in [Workers -> ClaimedJob]
  BY DEF Inv, Typed, TypeOK
<1>2. \/ Ends(w) \/ (\E p \in Phase : Goes(w, p)) \/ UNCHANGED claim
      \/ PrepareWorktree(w) \/ CommitAndPush(w)
  <2>1. {"loaded", "stale", "raised", "recorded", "bootstrapped", "returned", "checked",
         "matched", "removed"} \subseteq Phase
    BY DEF Phase
  <2>2. CASE \/ Load(w) \/ CancelStaleJob(w) \/ GiveUp(w) \/ OperationFails(w) \/ Fail(w)
             \/ OpenExecution(w) \/ RecordWorktree(w) \/ OpenFirstRevision(w) \/ Crash(w)
    BY <2>1, <2>2 DEF Load, CancelStaleJob, GiveUp, OperationFails, Fail, OpenExecution,
       RecordWorktree, OpenFirstRevision, Crash
  <2>3. CASE \/ Bootstrap(w) \/ AgentEdits(w) \/ AgentReturns(w) \/ QueueVerification(w)
             \/ RunChecks(w) \/ PushFails(w) \/ PublishReview(w) \/ PublishRaises(w)
    BY <2>1, <2>3 DEF Bootstrap, AgentEdits, AgentReturns, QueueVerification, RunChecks,
       PushFails, PublishReview, PublishRaises
  <2>4. CASE \/ CompareRemote(w) \/ RemoveWorktree(w) \/ CloseExecution(w) \/ ForceRemove(w)
             \/ RecordCleanup(w)
    BY <2>1, <2>4 DEF CompareRemote, RemoveWorktree, CloseExecution, ForceRemove, RecordCleanup
  <2> QED
    BY <2>2, <2>3, <2>4 DEF Proceed
<1> QED
  BY <1>1, <1>2 DEF Ends, Goes, PrepareWorktree, CommitAndPush

\* The steps of a worker that check, commit and publish nothing.
LEMMA TracedWork ==
    ASSUME Inv, Traced, NEW w \in Workers, Proceed(w) \/ AgentEdits(w) \/ Crash(w),
           ~RunChecks(w), ~CommitAndPush(w), ~PublishReview(w)
    PROVE  Traced'
<1>0. /\ claim \in [Workers -> ClaimedJob] /\ claim[w] \in ClaimedJob
      /\ rev \in [Revision -> RevisionRow] /\ \A r \in Revision : rev[r] \in RevisionRow
      /\ \A v \in Workers : v # w => claim'[v] = claim[v]
  BY OwnClaimOnly DEF Inv, Typed, TypeOK
<1>1. /\ evidence' = evidence /\ verified' = verified /\ belated' = belated
      /\ \A r \in Revision : rev'[r].head = rev[r].head
  <2>1. CASE \/ Load(w) \/ CancelStaleJob(w) \/ GiveUp(w) \/ OperationFails(w) \/ Fail(w)
             \/ OpenExecution(w) \/ PrepareWorktree(w) \/ RecordWorktree(w) \/ Bootstrap(w)
             \/ OpenFirstRevision(w) \/ Crash(w)
    BY <1>0, <2>1 DEF Load, CancelStaleJob, GiveUp, OperationFails, Fail, OpenExecution,
       PrepareWorktree, RecordWorktree, Bootstrap, OpenFirstRevision, Crash, database, history,
       RevisionRow
  <2>2. CASE \/ AgentEdits(w) \/ AgentReturns(w) \/ QueueVerification(w) \/ PushFails(w)
             \/ PublishRaises(w) \/ CompareRemote(w) \/ RemoveWorktree(w) \/ CloseExecution(w)
             \/ ForceRemove(w) \/ RecordCleanup(w)
    BY <2>2 DEF AgentEdits, AgentReturns, QueueVerification, PushFails, PublishRaises,
       CompareRemote, RemoveWorktree, CloseExecution, ForceRemove, RecordCleanup, database, history
  <2> QED
    BY <2>1, <2>2 DEF Proceed
<1>2. intruded \subseteq intruded'
  <2>1. CASE Bootstrap(w) \/ AgentEdits(w)
    BY <2>1, Written DEF Bootstrap, AgentEdits, MayWrite, JobIsCurrent, Inv, Typed
  <2>2. CASE ~(Bootstrap(w) \/ AgentEdits(w))
    BY <2>2 DEF Proceed, Load, CancelStaleJob, GiveUp, OperationFails, Fail, OpenExecution,
       PrepareWorktree, RecordWorktree, OpenFirstRevision, Crash, AgentReturns,
       QueueVerification, PushFails, PublishRaises, CompareRemote, RemoveWorktree,
       CloseExecution, ForceRemove, RecordCleanup, history
  <2> QED
    BY <2>1, <2>2
<1>3. claim'[w].phase \notin {"checked", "pushed"}
  <2>1. CASE Ends(w)
    BY <1>0, <2>1 DEF Ends, Idle
  <2>2. CASE PrepareWorktree(w)
    BY <1>0, <2>2 DEF PrepareWorktree, ClaimedJob
  <2>3. CASE AgentEdits(w)
    BY <2>3 DEF AgentEdits
  <2>4. CASE \E p \in Phase \ {"checked", "pushed"} : Goes(w, p)
    BY <1>0, <2>4 DEF Goes, ClaimedJob
  <2>5. {"loaded", "stale", "raised", "recorded", "bootstrapped", "returned", "matched", "removed"}
            \subseteq Phase \ {"checked", "pushed"}
    BY DEF Phase
  <2>6. CASE \/ Load(w) \/ CancelStaleJob(w) \/ GiveUp(w) \/ OperationFails(w) \/ Fail(w)
             \/ OpenExecution(w) \/ RecordWorktree(w) \/ OpenFirstRevision(w) \/ Crash(w)
    BY <2>1, <2>4, <2>5, <2>6 DEF Load, CancelStaleJob, GiveUp, OperationFails, Fail,
       OpenExecution, RecordWorktree, OpenFirstRevision, Crash
  <2>7. CASE \/ Bootstrap(w) \/ AgentReturns(w) \/ QueueVerification(w) \/ PushFails(w)
             \/ PublishRaises(w) \/ CompareRemote(w)
    BY <2>1, <2>4, <2>5, <2>7 DEF Bootstrap, AgentReturns, QueueVerification, PushFails,
       PublishRaises, CompareRemote
  <2>8. CASE RemoveWorktree(w) \/ CloseExecution(w) \/ ForceRemove(w) \/ RecordCleanup(w)
    BY <2>1, <2>4, <2>5, <2>8 DEF RemoveWorktree, CloseExecution, ForceRemove, RecordCleanup
  <2> QED
    BY <2>2, <2>3, <2>6, <2>7, <2>8 DEF Proceed
<1>4. ASSUME NEW v \in Workers, JobIsCurrent(v)', claim'[v].phase \in {"checked", "pushed"}
      PROVE  /\ JobIsCurrent(v) /\ claim'[v] = claim[v]
             /\ claim[v].phase = "checked" =>
                    tree'.exists /\ (tree'.files = tree.files \/ tree'.files \in intruded')
  <2>1. v # w
    BY <1>3, <1>4
  <2> QED
    BY <1>0, <1>4, <2>1, TracedOthers
<1> QED
  BY <1>1, <1>2, <1>4, TracedKept

\* A verification by the holder of the job is of a revision nobody reviews yet;
\* any other leaves a trace, and so does the content it may leave behind.
LEMMA TracedVerification ==
    ASSUME Inv, Traced, NEW w \in Workers, RunChecks(w) \/ CommitAndPush(w)
    PROVE  Traced'
<1>0. /\ claim \in [Workers -> ClaimedJob] /\ claim[w] \in ClaimedJob /\ tree \in Tree
      /\ evidence \in [Revision -> {"NONE", "PASS", "FAIL"}]
      /\ \A v \in Workers : v # w => claim'[v] = claim[v]
      /\ Target(w) \in Revision
  BY OwnClaimOnly, ClaimTypes DEF Inv, Typed, TypeOK, Proceed
<1>1. /\ verified \subseteq verified' /\ intruded \subseteq intruded' /\ belated \subseteq belated'
      /\ UNCHANGED <<rev, job>> /\ tree'.exists = tree.exists
  <2>1. CASE RunChecks(w)
    BY <2>1, Written DEF RunChecks, MayWrite, JobIsCurrent, Inv, Typed
  <2>2. CASE CommitAndPush(w)
    BY <1>0, <2>2 DEF CommitAndPush, Tree, database, history
  <2> QED
    BY <2>1, <2>2
<1>2. ASSUME NEW v \in Workers, v # w, JobIsCurrent(v)', claim'[v].phase \in {"checked", "pushed"}
      PROVE  /\ JobIsCurrent(v) /\ claim'[v] = claim[v] /\ Target(v)' = Target(v)
             /\ ~JobIsCurrent(w)
             /\ claim[v].phase = "checked" =>
                    tree'.exists /\ (tree'.files = tree.files \/ tree'.files \in intruded')
  <2>1. /\ JobIsCurrent(v)
        /\ claim[v].phase = "checked" =>
               tree'.exists /\ (tree'.files = tree.files \/ tree'.files \in intruded')
    BY <1>0, <1>2, TracedOthers DEF Proceed
  <2> QED
    BY <1>0, <1>2, <2>1, Alone DEF Target
<1>3. CASE ~JobIsCurrent(w)
  <2>1. ~JobIsCurrent(w)'
    <3>1. claim'[w].job = claim[w].job /\ claim'[w].attempt = claim[w].attempt
      BY <1>0 DEF RunChecks, CommitAndPush, Goes, ClaimedJob
    <3> QED
      BY <1>1, <1>3, <3>1 DEF JobIsCurrent, JobOf
  <2>2. \A r \in Revision : evidence'[r] = evidence[r] \/ r \in belated'
    BY <1>0, <1>3 DEF RunChecks, CommitAndPush, database
  <2> QED
    BY <1>1, <1>2, <2>1, <2>2, TracedKept
<1>4. CASE JobIsCurrent(w)
  <2>1. claim[w].phase # "idle" /\ Kind(w) = "VERIFY"
    <3>1. claim[w].phase # "idle" /\ (claim[w].phase = "checked" \/ Kind(w) = "VERIFY")
      BY DEF RunChecks, CommitAndPush
    <3> QED
      BY <1>4, <3>1, Holding DEF ClaimMatches
  <2>2. rev[Target(w)].status = "UPDATING"
    BY <1>4, <2>1, Holding
  <2>3. rev[Target(w)].head = NoCommit
    BY <1>0, <2>2 DEF Inv, RevisionHistory
  <2>4. \A v \in Workers : v # w => Checked(v)'
    BY <1>2, <1>4 DEF Checked
  <2>5. Checked(w)'
    <3>1. CASE RunChecks(w)
      <4>1. /\ claim'[w].phase = "checked" =>
                   tree.exists /\ tree'.files \in verified' /\ evidence'[Target(w)] = "PASS"
            /\ claim'[w].phase # "pushed" /\ claim'[w].job = claim[w].job
        BY <1>0, <3>1 DEF RunChecks, Goes, ClaimedJob
      <4> QED
        BY <1>1, <4>1 DEF Checked, Known, Target
    <3>2. CASE CommitAndPush(w)
      <4>1. /\ claim[w].phase = "checked" /\ claim'[w].phase # "checked"
            /\ claim'[w].head = tree.files /\ claim'[w].job = claim[w].job
            /\ UNCHANGED <<evidence, verified, intruded, belated>>
        BY <1>0, <3>2 DEF CommitAndPush, ClaimedJob, database, history
      <4>2. Known(tree.files) /\ (evidence[Target(w)] = "PASS" \/ Target(w) \in belated)
        BY <1>4, <2>1, <4>1 DEF Traced, Checked
      <4> QED
        BY <4>1, <4>2 DEF Checked, Known, Target
    <3> QED
      BY <3>1, <3>2
  <2>6. ReviewedWasChecked'
    <3>1. \A r \in Revision : r # Target(w) => evidence'[r] = evidence[r]
      BY <1>0 DEF RunChecks, CommitAndPush, database
    <3> QED
      BY <1>1, <2>3, <3>1 DEF Traced, ReviewedWasChecked
  <2> QED
    BY <2>4, <2>5, <2>6 DEF Traced
<1> QED
  BY <1>3, <1>4

\* What is published is what the holder of the job has committed.
LEMMA TracedPublish ==
    ASSUME Inv, Traced, NEW w \in Workers, PublishReview(w)
    PROVE  Traced'
<1>0. /\ rev \in [Revision -> RevisionRow] /\ \A r \in Revision : rev[r] \in RevisionRow
      /\ claim \in [Workers -> ClaimedJob]
      /\ JobIsCurrent(w) /\ claim[w].phase = "pushed" /\ Target(w) \in Revision
      /\ UNCHANGED <<evidence, tree, verified, intruded, belated>>
      /\ \A v \in Workers : v # w => claim'[v] = claim[v]
  BY OwnClaimOnly, ClaimTypes DEF Inv, Typed, TypeOK, PublishReview, Proceed, git, history
<1>1. \A v \in Workers : Checked(v)'
  <2>1. claim'[w].phase = "idle"
    BY <1>0 DEF PublishReview, Ends, Idle
  <2>2. ASSUME NEW v \in Workers, v # w, claim'[v].phase \in {"checked", "pushed"}, JobIsCurrent(v)'
        PROVE  FALSE
    <3>1. JobIsCurrent(v)
      BY <1>0, <2>2, TracedOthers DEF Proceed
    <3> QED
      BY <1>0, <2>2, <3>1, Alone
  <2> QED
    BY <2>1, <2>2 DEF Checked
<1>2. ReviewedWasChecked'
  <2>1. PICK t \in Revision : t = Target(w)
    BY <1>0
  <2>2. ASSUME NEW q \in Revision, q # t PROVE rev'[q].head = rev[q].head
    BY <1>0, <2>1, <2>2 DEF PublishReview, RevisionRow
  <2>3. rev'[t].head = claim[w].head
    BY <1>0, <2>1 DEF PublishReview, RevisionRow
  <2>4. Known(claim[w].head) /\ (evidence[t] = "PASS" \/ t \in belated)
    BY <1>0, <2>1 DEF Traced, Checked
  <2> QED
    BY <1>0, <2>2, <2>3, <2>4 DEF Traced, ReviewedWasChecked, Known
<1> QED
  BY <1>1, <1>2 DEF Traced

\* Initially nothing is checked, and nothing is reviewed.
LEMMA TracedInit == Init => Traced
  BY DEF Init, Traced, Checked, ReviewedWasChecked, Idle, NoRevision

\* Every step keeps the trace.
LEMMA TracedNext == Inv /\ Traced /\ [Next]_vars => Traced'
<1> SUFFICES ASSUME Inv, Traced, [Next]_vars PROVE Traced'
  OBVIOUS
<1>1. ASSUME NEW w \in Workers, Proceed(w) \/ AgentEdits(w) \/ Crash(w) PROVE Traced'
  BY <1>1, TracedWork, TracedVerification, TracedPublish
<1> QED
  BY <1>1, TracedSurroundings DEF Next

\* However many workers take each other's jobs over, and whatever is left
\* running behind them: what is put before the reviewer is a worktree as checks
\* left it when all had passed, with the evidence that says so, or somebody
\* without the job wrote it, or stored the evidence.
THEOREM ReviewsAreTraced == Spec => []ReviewedWasChecked
<1>1. Spec => [](Inv /\ Traced)
  BY InvInit, InvNext, TracedInit, TracedNext, PTL DEF Spec
<1>2. Traced => ReviewedWasChecked
  BY DEF Traced
<1> QED
  BY <1>1, <1>2, PTL

-------------------------------------------------------------------------------
(* One worker process, which may die at any point and start again.         *)

OneWorker == \A v, w \in Workers : v = w

\* What the holder of a job has made sure of outside of the database.
Progress(w) ==
    /\ claim[w].phase = "pushed" => (AutoPush => tree.remote = claim[w].head)
    /\ claim[w].phase = "removed" /\ Kind(w) = "CLEANUP" /\ exec.base # NoBase => ~tree.exists

\* Nobody takes a job over, what is under review is what the remote holds, and
\* what was given up has been removed.
Serial ==
    /\ \A w \in Workers : claim[w].phase # "idle" => JobIsCurrent(w) /\ Progress(w)
    /\ RemoteIsReviewed
    /\ CleanedUp

\* What v goes on with rests on nothing that it has not learnt before.
NothingLearnt(v) ==
    \/ claim'[v].phase \notin {"pushed", "removed"}
    \/ claim'[v].phase = "removed" /\ Kind(v)' = "CLOSE"
    \/ claim'[v] = claim[v]

\* A step that pushes nothing, makes no worktree and begins no review.
LEMMA SerialKept ==
    ASSUME Inv, Serial, tree'.remote = tree.remote, tree'.exists => tree.exists,
           exec'.head = exec.head, exec'.base = exec.base,
           stage' \in {"VERIFICATION", "DONE"} => stage \in {"VERIFICATION", "DONE"},
           job'[Cleanup].status = "SUCCEEDED" => job[Cleanup].status = "SUCCEEDED",
           \A v \in Workers : claim'[v].phase # "idle" => JobIsCurrent(v)' /\ NothingLearnt(v)
    PROVE  Serial'
<1>1. ASSUME NEW v \in Workers, claim'[v].phase # "idle" PROVE Progress(v)'
  <2>1. CASE claim'[v] = claim[v]
    BY <1>1, <2>1 DEF Serial, Progress, Kind, Target
  <2>2. CASE claim'[v] # claim[v]
    BY <1>1, <2>2 DEF NothingLearnt, Progress, Kind
  <2> QED
    BY <2>1, <2>2
<1>2. RemoteIsReviewed' /\ CleanedUp'
  BY DEF Serial, RemoteIsReviewed, CleanedUp
<1> QED
  BY <1>1, <1>2 DEF Serial

\* What a worker does with its own claim, as far as nothing depends on it.
LEMMA SerialClaim ==
    ASSUME Inv, Serial, OneWorker, NEW w \in Workers, claim[w].phase # "idle",
           \/ Ends(w)
           \/ UNCHANGED job /\ \E p \in Phase : /\ Goes(w, p)
                                                /\ \/ p \notin {"pushed", "removed"}
                                                   \/ p = "removed" /\ Kind(w) = "CLOSE"
    PROVE  \A v \in Workers : claim'[v].phase # "idle" => JobIsCurrent(v)' /\ NothingLearnt(v)
<1>1. claim \in [Workers -> ClaimedJob] /\ claim[w] \in ClaimedJob /\ \A v \in Workers : v = w
  BY DEF Inv, Typed, TypeOK, OneWorker
<1>2. CASE Ends(w)
  BY <1>1, <1>2 DEF Ends, Idle
<1>3. CASE ~Ends(w)
  <2>1. UNCHANGED job
    BY <1>3
  <2>2. PICK p \in Phase : /\ Goes(w, p)
                          /\ \/ p \notin {"pushed", "removed"}
                             \/ p = "removed" /\ Kind(w) = "CLOSE"
    BY <1>3
  <2>3. /\ claim'[w].phase = p /\ claim'[w].job = claim[w].job
        /\ claim'[w].attempt = claim[w].attempt
    BY <1>1, <2>2 DEF Goes, ClaimedJob
  <2>4. JobIsCurrent(w)
    BY DEF Serial
  <2>5. JobIsCurrent(w)'
    BY <2>1, <2>3, <2>4 DEF JobIsCurrent, JobOf
  <2>6. NothingLearnt(w)
    BY <2>2, <2>3 DEF Kind, NothingLearnt
  <2> QED
    BY <1>1, <2>5, <2>6
<1> QED
  BY <1>2, <1>3

\* A worker that works on a job works alone.
LEMMA SerialHolding ==
    ASSUME Inv, Serial, OneWorker, NEW w \in Workers, claim[w].phase # "idle"
    PROVE  /\ JobIsCurrent(w) /\ Progress(w) /\ ClaimMatches(w)
           /\ \A v \in Workers : v = w
           /\ claim \in [Workers -> ClaimedJob] /\ claim[w] \in ClaimedJob /\ tree \in Tree
           /\ exec \in ExecutionRow /\ Target(w) \in Revision
  BY Holding DEF Serial, OneWorker, Inv, Typed, TypeOK

\* The decisions of people wait until no work is going on.
LEMMA SerialDecisions ==
    ASSUME Inv, Serial, OneWorker, Decide PROVE Serial'
<1>0. /\ exec \in ExecutionRow /\ rev \in [Revision -> RevisionRow] /\ job \in [Job -> JobRow]
      /\ \A q \in Revision : rev[q] \in RevisionRow
      /\ Cleanup \in Job /\ version \in Nat /\ Cleanup[1] = "CLEANUP"
  BY JobShape DEF Inv, Typed, TypeOK, Cleanup
<1>1. UNCHANGED <<claim, tree>>
  BY DEF Decide, Approve, RequestChanges, AddressWithAgent, Retry, Abandon, git
<1>2. ASSUME \A v \in Workers : ~JobIsCurrent(v)
      PROVE  \A v \in Workers : claim'[v].phase = "idle"
  BY <1>1, <1>2 DEF Serial
<1>3. ASSUME NEW r \in Revision, Approve(r) \/ RequestChanges(r) \/ AddressWithAgent(r)
      PROVE  Serial'
  <2>1. exec.current = r /\ rev[r].status \in {"REVIEW", "CHANGES_REQUESTED"}
    BY <1>3 DEF Approve, RequestChanges, AddressWithAgent, Reviewable
  <2>2. /\ \A v \in Workers : ~JobIsCurrent(v)
        /\ exec.status = "SUCCEEDED"
    BY <2>1, AtGate
  <2>4. exec'.head = exec.head /\ exec'.base = exec.base
    BY <1>0, <1>3 DEF Approve, RequestChanges, AddressWithAgent, ExecutionRow
  <2>5. stage' \in {"VERIFICATION", "DONE"} => stage \in {"VERIFICATION", "DONE"}
    BY <1>3 DEF Approve, RequestChanges, AddressWithAgent
  <2>6. job[Cleanup].status = "NONE"
    BY <1>0, <2>2 DEF Inv, JobsMatch
  <2>7. job'[Cleanup].status \in {"NONE", "PENDING"}
    <3>1. ASSUME NEW k \in Job, NEW e \in Nat, job' = Queued(job, k, e)
          PROVE  job'[Cleanup].status \in {"NONE", "PENDING"}
      BY <1>0, <2>6, <3>1, QueuedRows
    <3>2. CASE Approve(r)
      <4>1. version + 1 \in Nat /\ Close(r) \in Job
        BY <1>0, JobNames
      <4> QED
        BY <3>1, <3>2, <4>1 DEF Approve
    <3>3. CASE AddressWithAgent(r)
      <4>1. r + 1 \in Revision
        BY <3>3, BoundsAssumption DEF AddressWithAgent, Revision
      <4>2. Run(r + 1) \in Job
        BY <4>1, JobNames
      <4> QED
        BY <1>0, <3>1, <3>3, <4>2 DEF AddressWithAgent
    <3>4. CASE RequestChanges(r)
      BY <2>6, <3>4 DEF RequestChanges
    <3> QED
      BY <1>3, <3>2, <3>3, <3>4
  <2> QED
    BY <1>1, <1>2, <2>2, <2>4, <2>5, <2>7, SerialKept
<1>4. ASSUME NEW j \in Job, Retry(j) PROVE Serial'
  <2>1. job[j].status = "FAILED"
    BY <1>4 DEF Retry
  <2>2. \A v \in Workers : ~JobIsCurrent(v)
    <3> SUFFICES ASSUME NEW v \in Workers, job[JobOf(v)].status = "RUNNING" PROVE FALSE
      BY DEF JobIsCurrent
    <3>1. JobOf(v) \in Job
      BY ClaimTypes DEF Inv
    <3> QED
      BY <2>1, <3>1, Waiting
  <2>4. exec'.head = exec.head /\ exec'.base = exec.base /\ stage' = stage
    BY <1>0, <1>4 DEF Retry, ExecutionRow
  <2>5. job'[Cleanup].status = "SUCCEEDED" => job[Cleanup].status = "SUCCEEDED"
    BY <1>0, <1>4 DEF Retry
  <2> QED
    BY <1>1, <1>2, <2>2, <2>4, <2>5, SerialKept
<1>5. CASE Abandon
  <2>1. exec.status = "FAILED"
    BY <1>5 DEF Abandon
  <2>2. \A v \in Workers : ~JobIsCurrent(v)
    <3> SUFFICES ASSUME NEW v \in Workers, job[JobOf(v)].status = "RUNNING" PROVE FALSE
      BY DEF JobIsCurrent
    <3>1. JobOf(v) \in Job
      BY ClaimTypes DEF Inv
    <3> QED
      BY <2>1, <3>1 DEF Inv, JobsMatch, Active
  <2>3. exec'.head = exec.head /\ exec'.base = exec.base /\ stage' = stage /\ rev' = rev
    BY <1>0, <1>5 DEF Abandon, ExecutionRow
  <2>4. exec'.status = "CANCELLED"
    BY <1>0, <1>5 DEF Abandon, ExecutionRow
  <2> DEFINE row(i) == IF job[i].status \in {"PENDING", "RUNNING", "FAILED"}
                       THEN [job[i] EXCEPT !.status = "CANCELLED", !.owner = NoOwner, !.live = FALSE]
                       ELSE job[i]
             jobs == [i \in Job |-> row(i)]
  <2>5. job' = Queued(jobs, Cleanup, 0)
    BY <1>5 DEF Abandon
  <2>6. jobs \in [Job -> JobRow] /\ jobs[Cleanup].status = "NONE"
    <3>1. \A i \in Job : row(i) \in JobRow
      BY <1>0 DEF JobRow, JobStatus
    <3>2. job[Cleanup].status = "NONE"
      BY <1>0, <2>1 DEF Inv, JobsMatch
    <3> QED
      BY <1>0, <3>1, <3>2
  <2> HIDE DEF jobs
  <2>7. job'[Cleanup].status = "PENDING" /\ 0 \in Nat
    BY <1>0, <2>5, <2>6, QueuedRows
  <2> QED
    BY <1>1, <1>2, <2>2, <2>3, <2>7, SerialKept
<1> QED
  BY <1>3, <1>4, <1>5 DEF Decide

\* Nothing outside of the execution, no lease and no claim disturbs it.
LEMMA SerialClaims ==
    ASSUME Inv, Serial, OneWorker,
           \/ UpstreamMoves \/ ArtifactAttemptFails \/ LeftoverWrites \/ UNCHANGED vars
           \/ \E j \in Job : LeaseExpires(j) \/ \E w \in Workers : Claim(w, j)
    PROVE  Serial'
<1>0. /\ job \in [Job -> JobRow] /\ \A i \in Job : job[i] \in JobRow
      /\ claim \in [Workers -> ClaimedJob]
      /\ Cleanup \in Job
  BY JobShape DEF Inv, Typed, TypeOK
<1>1. /\ UNCHANGED <<stage, exec, rev>>
      /\ tree'.remote = tree.remote /\ (tree'.exists => tree.exists)
  <2>1. CASE LeftoverWrites
    BY <2>1, Written DEF LeftoverWrites, database, Inv, Typed
  <2> QED
    BY <2>1 DEF UpstreamMoves, ArtifactAttemptFails, vars, database, LeaseExpires, Claim, git
<1>2. CASE UpstreamMoves \/ ArtifactAttemptFails \/ LeftoverWrites \/ UNCHANGED vars
  <2>1. UNCHANGED <<job, claim>>
    BY <1>2 DEF UpstreamMoves, ArtifactAttemptFails, LeftoverWrites, vars, database
  <2>2. \A v \in Workers : claim'[v].phase # "idle" => JobIsCurrent(v)' /\ NothingLearnt(v)
    BY <2>1 DEF Serial, JobIsCurrent, JobOf, NothingLearnt
  <2> QED
    BY <1>1, <2>1, <2>2, SerialKept
<1>3. ASSUME NEW j \in Job, LeaseExpires(j) PROVE Serial'
  <2>1. claim' = claim
        /\ \A i \in Job : /\ job'[i].status = job[i].status /\ job'[i].owner = job[i].owner
                          /\ job'[i].attempts = job[i].attempts
    BY <1>0, <1>3 DEF LeaseExpires, JobRow
  <2>2. \A v \in Workers : claim'[v].phase # "idle" => JobIsCurrent(v)' /\ NothingLearnt(v)
    <3>1. \A v \in Workers : JobOf(v) \in Job
      BY ClaimTypes DEF Inv
    <3> QED
      BY <2>1, <3>1 DEF Serial, JobIsCurrent, JobOf, NothingLearnt
  <2> QED
    BY <1>0, <1>1, <2>1, <2>2, SerialKept
<1>4. ASSUME NEW j \in Job, NEW w \in Workers, Claim(w, j) PROVE Serial'
  <2>1. /\ job'[j].status = "RUNNING" /\ job'[j].owner = w
        /\ job'[j].attempts = job[j].attempts + 1
        /\ \A i \in Job : i # j => job'[i] = job[i]
    BY <1>0, <1>4 DEF Claim, JobRow
  <2>2. /\ claim'[w].phase = "claimed" /\ claim'[w].job = j
        /\ claim'[w].attempt = job[j].attempts + 1
    BY <1>0, <1>4 DEF Claim, Idle
  <2>3. \A v \in Workers : claim'[v].phase # "idle" => JobIsCurrent(v)' /\ NothingLearnt(v)
    BY <2>1, <2>2 DEF OneWorker, JobIsCurrent, JobOf, NothingLearnt
  <2> QED
    BY <1>0, <1>1, <2>1, <2>3, SerialKept
<1> QED
  BY <1>2, <1>3, <1>4

\* The steps of a worker between its transactions, as long as they push, make
\* and remove nothing.
LEMMA SerialWork ==
    ASSUME Inv, Serial, OneWorker, NEW w \in Workers,
           \/ Load(w) \/ GiveUp(w) \/ OperationFails(w) \/ Crash(w) \/ Bootstrap(w)
           \/ AgentEdits(w) \/ AgentReturns(w) \/ RunChecks(w) \/ PublishRaises(w)
           \/ CompareRemote(w)
    PROVE  Serial'
<1>1. /\ UNCHANGED <<stage, exec, rev, job>>
      /\ tree'.remote = tree.remote /\ (tree'.exists => tree.exists)
      /\ claim[w].phase # "idle"
  <2>1. CASE AgentEdits(w) \/ Bootstrap(w) \/ RunChecks(w)
    <3>1. tree'.remote = tree.remote /\ tree'.exists = tree.exists
      BY <2>1, Written DEF AgentEdits, Bootstrap, RunChecks, MayWrite, JobIsCurrent, Inv, Typed
    <3> QED
      BY <2>1, <3>1 DEF AgentEdits, Bootstrap, RunChecks, database
  <2> QED
    BY <2>1 DEF Load, GiveUp, OperationFails, Crash, AgentReturns, PublishRaises, CompareRemote,
       database, git
<1>2. \/ Ends(w) \/ UNCHANGED claim
      \/ \E p \in Phase : Goes(w, p) /\ p \notin {"pushed", "removed"}
  <2>1. {"loaded", "stale", "raised", "bootstrapped", "returned", "checked", "matched"} \subseteq Phase
    BY DEF Phase
  <2> QED
    BY <2>1 DEF Load, GiveUp, OperationFails, Crash, Bootstrap, AgentEdits, AgentReturns,
       RunChecks, PublishRaises, CompareRemote
<1>3. \A v \in Workers : claim'[v].phase # "idle" => JobIsCurrent(v)' /\ NothingLearnt(v)
  <2>1. CASE UNCHANGED claim
    BY <1>1, <2>1 DEF Serial, JobIsCurrent, JobOf, NothingLearnt
  <2> QED
    BY <1>1, <1>2, <2>1, SerialClaim
<1> QED
  BY <1>1, <1>3, SerialKept

\* The transactions that leave the base, the cleanup and the heads alone.
LEMMA SerialTransactions ==
    ASSUME Inv, Serial, OneWorker, NEW w \in Workers,
           \/ CancelStaleJob(w) \/ Fail(w) \/ OpenExecution(w) \/ OpenFirstRevision(w)
           \/ QueueVerification(w) \/ CloseExecution(w)
    PROVE  Serial'
<1>0. claim[w].phase # "idle" /\ UNCHANGED tree /\ {"loaded", "raised"} \subseteq Phase
  BY DEF CancelStaleJob, Fail, OpenExecution, OpenFirstRevision, QueueVerification,
     CloseExecution, git, Phase
<1>1. /\ JobIsCurrent(w) /\ exec \in ExecutionRow
      /\ Cleanup \in Job /\ job \in [Job -> JobRow]
  BY <1>0, SerialHolding, JobShape DEF Inv, Typed, TypeOK
<1>2. \A v \in Workers : claim'[v].phase # "idle" => JobIsCurrent(v)' /\ NothingLearnt(v)
  BY <1>0, SerialClaim DEF CancelStaleJob, Fail, OpenExecution, OpenFirstRevision,
     QueueVerification, CloseExecution
<1>4. exec'.head = exec.head /\ exec'.base = exec.base
  BY <1>1 DEF CancelStaleJob, Fail, OpenExecution, OpenFirstRevision, QueueVerification,
     CloseExecution, ExecutionRow
<1>5. stage' \in {"VERIFICATION", "DONE"} => stage \in {"VERIFICATION", "DONE"}
  BY DEF CancelStaleJob, Fail, OpenExecution, OpenFirstRevision, QueueVerification,
     CloseExecution
<1>6. job'[Cleanup].status = "SUCCEEDED" => job[Cleanup].status = "SUCCEEDED"
  <2>1. ASSUME NEW s \in {"FAILED", "CANCELLED"}, job' = Closed(w, s)
        PROVE  job'[Cleanup].status = "SUCCEEDED" => job[Cleanup].status = "SUCCEEDED"
    <3>1. s \in JobStatus /\ s # "SUCCEEDED"
      BY DEF JobStatus
    <3> QED
      BY <1>1, <2>1, <3>1, ClosedRows DEF Inv, Typed
  <2>2. ASSUME Kind(w) # "CLEANUP", NEW k \in Job, NEW e \in Nat,
               job' = Closed(w, "SUCCEEDED") \/ job' = Queued(Closed(w, "SUCCEEDED"), k, e)
        PROVE  job'[Cleanup].status = "SUCCEEDED" => job[Cleanup].status = "SUCCEEDED"
    <3>1. JobOf(w) # Cleanup /\ "SUCCEEDED" \in JobStatus
      BY <2>2 DEF Kind, JobOf, Cleanup, JobStatus
    <3>2. Closed(w, "SUCCEEDED") \in [Job -> JobRow] /\ Closed(w, "SUCCEEDED")[Cleanup] = job[Cleanup]
      BY <1>1, <3>1, ClosedRows DEF Inv, Typed
    <3>3. PICK closed \in [Job -> JobRow] : closed = Closed(w, "SUCCEEDED") /\ closed[Cleanup] = job[Cleanup]
      BY <3>2
    <3>4. CASE job' = Queued(closed, k, e)
      BY <1>1, <3>3, <3>4, QueuedRows
    <3> QED
      BY <2>2, <3>3, <3>4
  <2>3. CASE CancelStaleJob(w) \/ Fail(w) \/ OpenExecution(w)
    BY <2>1, <2>3 DEF CancelStaleJob, Fail, OpenExecution
  <2>4. CASE CloseExecution(w)
    BY <1>1, <2>2, <2>4 DEF CloseExecution
  <2>5. CASE OpenFirstRevision(w) \/ QueueVerification(w)
    <3>1. Kind(w) \in {"PREPARE", "RUN"}
      BY <1>0, <2>5, SerialHolding DEF ClaimMatches, OpenFirstRevision, QueueVerification
    <3>2. Target(w) \in Revision /\ JobOf(w) \in Job /\ Prepare \in Job /\ 1 \in Revision
      BY ClaimTypes, JobShape DEF Inv
    <3>3. /\ Verify(Target(w)) \in Job /\ Run(1) \in Job
          /\ job[JobOf(w)].expects \in Nat /\ job[Prepare].expects \in Nat
      BY <1>1, <3>2, JobNames DEF JobRow
    <3> QED
      BY <2>2, <2>5, <3>1, <3>3 DEF OpenFirstRevision, QueueVerification
  <2> QED
    BY <2>3, <2>4, <2>5
<1> QED
  BY <1>0, <1>2, <1>4, <1>5, <1>6, SerialKept

\* The preparation precedes every abandonment.
LEMMA SerialBuilding ==
    ASSUME Inv, Serial, OneWorker, NEW w \in Workers, PrepareWorktree(w) \/ RecordWorktree(w)
    PROVE  Serial'
<1>0. claim[w].phase # "idle" /\ claim[w].phase \notin {"pushed", "removed"}
  BY DEF PrepareWorktree, RecordWorktree
<1>1. /\ JobIsCurrent(w) /\ ClaimMatches(w) /\ \A v \in Workers : v = w
      /\ claim \in [Workers -> ClaimedJob] /\ claim[w] \in ClaimedJob /\ tree \in Tree
      /\ exec \in ExecutionRow
  BY <1>0, SerialHolding
<1>2. UNCHANGED <<stage, job>> /\ exec'.head = exec.head /\ tree'.remote = tree.remote
  BY <1>1 DEF PrepareWorktree, RecordWorktree, database, git, ExecutionRow, Tree
<1>3. /\ claim'[w].phase \notin {"pushed", "removed"}
      /\ claim'[w].job = claim[w].job /\ claim'[w].attempt = claim[w].attempt
  BY <1>0, <1>1 DEF PrepareWorktree, RecordWorktree, Goes, ClaimedJob
<1>4. JobIsCurrent(w)' /\ Progress(w)'
  BY <1>1, <1>2, <1>3 DEF JobIsCurrent, JobOf, Progress
<1>5. job[Cleanup].status # "SUCCEEDED"
  <2>1. Kind(w) = "PREPARE"
    BY <1>1 DEF PrepareWorktree, RecordWorktree, ClaimMatches
  <2>2. exec.status # "CANCELLED" /\ Cleanup \in Job /\ Cleanup[1] = "CLEANUP"
    BY <1>0, <1>1, <2>1, Holding, JobShape DEF Cleanup
  <2> QED
    BY <2>2 DEF Inv, JobsMatch
<1>6. RemoteIsReviewed' /\ CleanedUp'
  BY <1>2, <1>5 DEF Serial, RemoteIsReviewed, CleanedUp
<1> QED
  BY <1>1, <1>4, <1>6 DEF Serial

\* The commit and the push are those of the revision at work, which nobody
\* reviews yet.
LEMMA SerialVerification ==
    ASSUME Inv, Serial, OneWorker, NEW w \in Workers, CommitAndPush(w) \/ PushFails(w)
    PROVE  Serial'
<1>0. claim[w].phase # "idle"
  BY DEF CommitAndPush, PushFails
<1>1. /\ JobIsCurrent(w) /\ ClaimMatches(w) /\ \A v \in Workers : v = w
      /\ claim \in [Workers -> ClaimedJob] /\ claim[w] \in ClaimedJob /\ tree \in Tree
  BY <1>0, SerialHolding
<1>2. Kind(w) = "VERIFY"
  BY <1>1 DEF CommitAndPush, PushFails, ClaimMatches
<1>3. stage = "IMPLEMENTATION"
  BY <1>0, <1>1, <1>2, Holding
<1>4. UNCHANGED <<stage, exec, job>> /\ tree'.exists = tree.exists
  BY <1>1 DEF CommitAndPush, PushFails, database, Tree
<1>5. /\ claim'[w].job = claim[w].job /\ claim'[w].attempt = claim[w].attempt
      /\ claim'[w].phase # "removed"
      /\ claim'[w].phase = "pushed" => (AutoPush => tree'.remote = claim'[w].head)
  <2>1. CASE CommitAndPush(w)
    BY <1>1, <2>1 DEF CommitAndPush, ClaimedJob, Tree
  <2>2. CASE PushFails(w)
    BY <1>1, <2>2 DEF PushFails, Goes, ClaimedJob
  <2> QED
    BY <2>1, <2>2
<1>6. JobIsCurrent(w)' /\ Progress(w)'
  BY <1>1, <1>4, <1>5 DEF JobIsCurrent, JobOf, Progress
<1>7. RemoteIsReviewed' /\ CleanedUp'
  BY <1>3, <1>4 DEF Serial, RemoteIsReviewed, CleanedUp
<1> QED
  BY <1>1, <1>6, <1>7 DEF Serial

\* What is published was pushed by the worker that publishes it.
LEMMA SerialPublish ==
    ASSUME Inv, Serial, OneWorker, NEW w \in Workers, PublishReview(w)
    PROVE  Serial'
<1>0. claim[w].phase = "pushed" /\ UNCHANGED tree /\ Ends(w) /\ Cleanup \in Job
  BY JobShape DEF PublishReview, git
<1>1. /\ JobIsCurrent(w) /\ ClaimMatches(w) /\ Progress(w) /\ \A v \in Workers : v = w
      /\ claim \in [Workers -> ClaimedJob] /\ exec \in ExecutionRow /\ Target(w) \in Revision
  BY <1>0, SerialHolding
<1>2. claim'[w].phase = "idle"
  BY <1>0, <1>1 DEF Ends, Idle
<1>3. exec.status = "RUNNING" /\ Kind(w) = "VERIFY"
  BY <1>0, <1>1, Holding DEF ClaimMatches
<1>5. RemoteIsReviewed'
  <2>1. exec'.head = claim[w].head
    BY <1>1 DEF PublishReview, ExecutionRow
  <2> QED
    BY <1>0, <1>1, <2>1 DEF RemoteIsReviewed, Progress
<1>6. CleanedUp'
  <2>1. job[Cleanup].status = "NONE"
    BY <1>0, <1>3 DEF Inv, JobsMatch, Cleanup
  <2>2. JobOf(w) # Cleanup /\ job' = Closed(w, "SUCCEEDED") /\ "SUCCEEDED" \in JobStatus
    <3>1. JobOf(w) # Cleanup
      BY <1>3 DEF Kind, JobOf, Cleanup
    <3>2. job' = Closed(w, "SUCCEEDED")
      BY DEF PublishReview
    <3> QED
      BY <3>1, <3>2 DEF JobStatus
  <2>3. job'[Cleanup] = job[Cleanup]
    BY <1>0, <2>2, ClosedRows DEF Inv, Typed
  <2> QED
    BY <2>1, <2>3 DEF CleanedUp
<1> QED
  BY <1>1, <1>2, <1>5, <1>6 DEF Serial

\* The removal of a worktree, and its record.
LEMMA SerialRemoval ==
    ASSUME Inv, Serial, OneWorker, NEW w \in Workers,
           RemoveWorktree(w) \/ ForceRemove(w) \/ RecordCleanup(w)
    PROVE  Serial'
<1>0. claim[w].phase # "idle"
  BY DEF RemoveWorktree, ForceRemove, RecordCleanup
<1>1. /\ JobIsCurrent(w) /\ ClaimMatches(w) /\ Progress(w) /\ \A v \in Workers : v = w
      /\ claim \in [Workers -> ClaimedJob] /\ claim[w] \in ClaimedJob /\ tree \in Tree
      /\ exec \in ExecutionRow
  BY <1>0, SerialHolding
<1>2. /\ UNCHANGED stage
      /\ exec'.head = exec.head /\ exec'.base = exec.base /\ tree'.remote = tree.remote
      /\ tree'.exists => tree.exists
  BY <1>1 DEF RemoveWorktree, ForceRemove, RecordCleanup, database, git, ExecutionRow, Tree
<1>3. RemoteIsReviewed'
  BY <1>2 DEF Serial, RemoteIsReviewed
<1>4. CASE RecordCleanup(w)
  <2>1. claim'[w].phase = "idle"
    BY <1>1, <1>4 DEF RecordCleanup, Ends, Idle
  <2>2. CleanedUp'
    BY <1>1, <1>2, <1>4 DEF RecordCleanup, git, Progress, CleanedUp
  <2> QED
    BY <1>1, <1>3, <2>1, <2>2 DEF Serial
<1>5. CASE RemoveWorktree(w) \/ ForceRemove(w)
  <2>1. UNCHANGED job
    BY <1>5 DEF RemoveWorktree, ForceRemove, database
  <2>2. /\ claim'[w].phase = "removed" /\ claim'[w].job = claim[w].job
        /\ claim'[w].attempt = claim[w].attempt
    BY <1>1, <1>5 DEF RemoveWorktree, ForceRemove, Goes, ClaimedJob
  <2>3. JobIsCurrent(w)'
    BY <1>1, <2>1, <2>2 DEF JobIsCurrent, JobOf
  <2>4. Kind(w)' = "CLEANUP" /\ exec'.base # NoBase => ~tree'.exists
    BY <1>1, <1>5, <2>2 DEF RemoveWorktree, ForceRemove, ClaimMatches, Kind, Tree, database
  <2>5. Progress(w)'
    BY <2>2, <2>4 DEF Progress
  <2>6. CleanedUp'
    BY <1>2, <2>1 DEF Serial, CleanedUp
  <2> QED
    BY <1>1, <1>3, <2>3, <2>5, <2>6 DEF Serial
<1> QED
  BY <1>4, <1>5

\* Initially nothing is reviewed, pushed or cleaned up.
LEMMA SerialInit == Init => Serial
  BY DEF Init, Serial, Idle, RemoteIsReviewed, CleanedUp, NoJob, JobOf, Cleanup, Prepare, Job,
     Revision

\* With one worker every step keeps them.
LEMMA SerialNext == OneWorker /\ Inv /\ Serial /\ [Next]_vars => Serial'
<1> SUFFICES ASSUME OneWorker, Inv, Serial, [Next]_vars PROVE Serial'
  OBVIOUS
<1>1. ASSUME NEW w \in Workers, Proceed(w) \/ AgentEdits(w) \/ Crash(w) PROVE Serial'
  BY <1>1, SerialWork, SerialTransactions, SerialBuilding, SerialVerification, SerialPublish,
     SerialRemoval DEF Proceed
<1> QED
  BY <1>1, SerialDecisions, SerialClaims DEF Next

\* The induction: the number of workers is a constant.
LEMMA SerialInvariance == OneWorker /\ Spec => []Serial
<1>1. OneWorker => OneWorker'
  BY DEF OneWorker
<1> QED
  BY <1>1, InvInit, InvNext, SerialInit, SerialNext, PTL DEF Spec

\* With one worker process the remote branch holds what is reviewed, from its
\* publication on.
THEOREM OneWorkerPushesWhatIsReviewed == OneWorker /\ Spec => []RemoteIsReviewed
<1>1. Serial => RemoteIsReviewed
  BY DEF Serial
<1> QED
  BY <1>1, SerialInvariance, PTL

\* With one worker process no worktree is left after the cleanup of an abandoned
\* execution.
THEOREM OneWorkerCleansUp == OneWorker /\ Spec => []CleanedUp
<1>1. Serial => CleanedUp
  BY DEF Serial
<1> QED
  BY <1>1, SerialInvariance, PTL
===============================================================================
