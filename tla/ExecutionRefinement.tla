-------------------------- MODULE ExecutionRefinement --------------------------
(* The execution, with all its jobs, workers, leases, crashes and retries,   *)
(* moves as its lifecycle allows and in no other way.                        *)
EXTENDS ExecutionProofs

\* A step that keeps the status of the execution, its current revision and the
\* status of that one is not seen in the lifecycle.
LEMMA Stutters ==
    ASSUME exec'.status = exec.status, exec'.current = exec.current,
           exec.status = "SUCCEEDED" => rev'[exec.current].status = rev[exec.current].status
    PROVE  UNCHANGED Lifecycle!vars
  BY DEF Lifecycle!vars, GateOf

\* The decisions of people.
LEMMA DecisionsRefine ==
    ASSUME Inv, Decide PROVE [Lifecycle!Next]_Lifecycle!vars
<1>0. rev \in [Revision -> RevisionRow] /\ exec \in ExecutionRow
  BY DEF Inv, Typed, TypeOK
<1>1. ASSUME NEW r \in Revision, Approve(r) PROVE Lifecycle!Approve
  <2>1. exec.current = r /\ rev[r].status = "REVIEW" /\ exec.status = "SUCCEEDED" /\ exec' = exec
    BY <1>1, AtGate DEF Approve, Reviewable
  <2>2. rev'[r].status = "APPROVED"
    BY <1>0, <1>1 DEF Approve, RevisionRow
  <2> QED
    BY <2>1, <2>2 DEF GateOf, Lifecycle!Approve
<1>2. ASSUME NEW r \in Revision, RequestChanges(r) PROVE Lifecycle!RequestChanges
  <2>1. exec.current = r /\ rev[r].status = "REVIEW" /\ exec.status = "SUCCEEDED" /\ exec' = exec
    BY <1>2, AtGate DEF RequestChanges, Reviewable
  <2>2. rev'[r].status = "CHANGES_REQUESTED"
    BY <1>0, <1>2 DEF RequestChanges, RevisionRow
  <2> QED
    BY <2>1, <2>2 DEF GateOf, Lifecycle!RequestChanges
<1>3. ASSUME NEW r \in Revision, AddressWithAgent(r) PROVE Lifecycle!Address
  <2>1. /\ exec.current = r /\ rev[r].status = "CHANGES_REQUESTED"
        /\ exec.status = "SUCCEEDED" /\ r < MaxRevision
    BY <1>3 DEF AddressWithAgent
  <2>2. exec'.status = "RUNNING" /\ exec'.current = r + 1
    BY <1>0, <1>3 DEF AddressWithAgent, ExecutionRow
  <2>3. r + 1 # 0
    BY DEF Revision
  <2> QED
    BY <2>1, <2>2, <2>3 DEF GateOf, Lifecycle!Address
<1>4. ASSUME NEW j \in Job, Retry(j) PROVE Lifecycle!Retry \/ UNCHANGED Lifecycle!vars
  <2>0. job[j].status = "FAILED" /\ j[1] \in {"PREPARE", "RUN", "VERIFY", "CLOSE", "CLEANUP"}
    BY <1>4, JobParts DEF Retry
  <2>1. CASE j[1] = "PREPARE"
    <3>1. exec.status = "FAILED" /\ exec.current = 0
      BY <2>0, <2>1, Waiting
    <3>2. exec'.status = "PENDING" /\ exec'.current = 0
      BY <1>0, <1>4, <2>1, <3>1 DEF Retry, ExecutionRow
    <3> QED
      BY <3>1, <3>2 DEF GateOf, Lifecycle!Retry
  <2>2. CASE j[1] \in {"RUN", "VERIFY"}
    <3>1. exec.status = "FAILED" /\ exec.current # 0
      BY <2>0, <2>2, Waiting, JobParts
    <3>2. exec'.status = "RUNNING" /\ exec'.current = exec.current
      BY <1>0, <1>4, <2>2 DEF Retry, ExecutionRow
    <3> QED
      BY <3>1, <3>2 DEF GateOf, Lifecycle!Retry
  <2>3. CASE j[1] \in {"CLOSE", "CLEANUP"}
    <3>1. exec' = exec /\ rev' = rev
      BY <1>4, <2>3 DEF Retry
    <3> QED
      BY <3>1, Stutters
  <2> QED
    BY <2>0, <2>1, <2>2, <2>3
<1>5. ASSUME Abandon PROVE Lifecycle!Abandon
  <2>1. exec.status = "FAILED" /\ exec'.status = "CANCELLED" /\ exec'.current = exec.current
    BY <1>0, <1>5 DEF Abandon, ExecutionRow
  <2> QED
    BY <2>1 DEF GateOf, Lifecycle!Abandon
<1> QED
  BY <1>1, <1>2, <1>3, <1>4, <1>5 DEF Decide, Lifecycle!Next

\* A failure of a running job.
LEMMA FailRefines ==
    ASSUME Inv, NEW w \in Workers, Fail(w) PROVE Lifecycle!Fail \/ UNCHANGED Lifecycle!vars
<1>1. claim[w].phase = "raised"
  BY DEF Fail
<1>2. CASE ~JobIsCurrent(w)
  <2>1. exec' = exec /\ rev' = rev
    BY <1>2 DEF Fail
  <2> QED
    BY <2>1, Stutters
<1>3. CASE JobIsCurrent(w)
  <2>1. /\ exec \in ExecutionRow /\ Target(w) \in Revision /\ Target(w) # 0
        /\ Kind(w) \in {"PREPARE", "RUN", "VERIFY", "CLOSE", "CLEANUP"}
        /\ Kind(w) = "PREPARE" => exec.current = 0 /\ exec.status \in {"PENDING", "RUNNING"}
        /\ Kind(w) \in {"RUN", "VERIFY"} =>
               exec.current = Target(w) /\ exec.status = "RUNNING"
        /\ Kind(w) = "CLOSE" =>
               /\ exec.current = Target(w) /\ exec.status = "SUCCEEDED"
               /\ rev[Target(w)].status = "APPROVED"
        /\ Kind(w) = "CLEANUP" => exec.status = "CANCELLED"
    BY <1>1, <1>3, Holding DEF ClaimMatches
  <2>2. /\ exec'.status = Moved(exec.status, {"PENDING", "RUNNING"}, "FAILED")
        /\ exec'.current = exec.current
    BY <1>3, <2>1 DEF Fail, ExecutionRow
  <2>3. CASE Kind(w) \in {"PREPARE", "RUN", "VERIFY"}
    <3>1. GateOf \in {"PREPARING", "WORKING"} /\ GateOf' = "FAILED"
      BY <2>1, <2>2, <2>3 DEF GateOf, Moved
    <3> QED
      BY <2>2, <3>1 DEF Lifecycle!Fail
  <2>4. CASE Kind(w) = "CLOSE"
    <3>1. rev \in [Revision -> RevisionRow] /\ rev[Target(w)] \in RevisionRow
      BY <2>1 DEF Inv, Typed, TypeOK
    <3>2. rev'[Target(w)].status = "APPROVED"
      BY <1>3, <2>1, <2>4, <3>1 DEF Fail, Moved, RevisionRow
    <3> QED
      BY <2>1, <2>2, <2>4, <3>2, Stutters DEF Moved
  <2>5. CASE Kind(w) = "CLEANUP"
    BY <2>1, <2>2, <2>5, Stutters DEF Moved
  <2> QED
    BY <2>1, <2>3, <2>4, <2>5
<1> QED
  BY <1>2, <1>3

\* What the transactions of a worker do to the execution.
LEMMA TransactionsRefine ==
    ASSUME Inv, NEW w \in Workers,
           \/ OpenExecution(w) \/ RecordWorktree(w) \/ OpenFirstRevision(w)
           \/ PublishReview(w) \/ CloseExecution(w) \/ RecordCleanup(w)
    PROVE  [Lifecycle!Next]_Lifecycle!vars
<1>0. rev \in [Revision -> RevisionRow] /\ exec \in ExecutionRow
  BY DEF Inv, Typed, TypeOK
<1>1. CASE OpenExecution(w)
  <2>1. CASE JobIsCurrent(w) /\ Ready(Prepare)
    <3>1. exec.status \in {"NONE", "PENDING", "RUNNING"} /\ exec.current = 0
      BY <1>1, <2>1, Holding DEF OpenExecution
    <3>2. exec'.status = Moved(exec.status, {"NONE"}, "PENDING") /\ exec'.current = 0
      BY <1>0, <1>1, <2>1, <3>1 DEF OpenExecution, ExecutionRow
    <3> QED
      BY <3>1, <3>2 DEF GateOf, Lifecycle!vars, Moved
  <2>2. CASE ~(JobIsCurrent(w) /\ Ready(Prepare))
    <3>1. exec' = exec /\ rev' = rev
      BY <1>1, <2>2 DEF OpenExecution
    <3> QED
      BY <3>1, Stutters
  <2> QED
    BY <2>1, <2>2
<1>2. CASE RecordWorktree(w)
  <2>1. exec.status \in {"PENDING", "RUNNING"} /\ exec.current = 0
    BY <1>2, Holding DEF RecordWorktree, ClaimMatches
  <2>2. exec'.status = "RUNNING" /\ exec'.current = 0
    BY <1>0, <1>2, <2>1 DEF RecordWorktree, ExecutionRow
  <2> QED
    BY <2>1, <2>2 DEF GateOf, Lifecycle!vars
<1>3. CASE OpenFirstRevision(w)
  <2>1. exec.status = "RUNNING" /\ exec.current = 0
    BY <1>3, Holding DEF OpenFirstRevision, ClaimMatches
  <2>2. exec'.status = "RUNNING" /\ exec'.current = 1
    BY <1>0, <1>3, <2>1 DEF OpenFirstRevision, ExecutionRow
  <2> QED
    BY <2>1, <2>2 DEF GateOf, Lifecycle!Next, Lifecycle!Open
<1>4. CASE PublishReview(w)
  <2>1. PICK r \in Revision : r = Target(w)
    BY ClaimTypes DEF Inv
  <2>2. /\ exec.status = "RUNNING" /\ exec.current = r /\ r # 0
        /\ rev[r].status = "UPDATING" /\ rev[r] \in RevisionRow
    BY <1>0, <1>4, <2>1, Holding DEF PublishReview, ClaimMatches
  <2>3. exec'.status = "SUCCEEDED" /\ exec'.current = r
    BY <1>0, <1>4, <2>2 DEF PublishReview, ExecutionRow, Moved
  <2>4. rev'[r].status = "REVIEW"
    BY <1>4, <2>1, <2>2 DEF PublishReview, RevisionRow, Moved
  <2> QED
    BY <2>2, <2>3, <2>4 DEF GateOf, Lifecycle!Next, Lifecycle!Publish
<1>5. CASE CloseExecution(w)
  <2>1. /\ exec.status = "SUCCEEDED" /\ rev[exec.current].status = "APPROVED" /\ rev' = rev
    BY <1>5, Holding DEF CloseExecution
  <2>2. CASE stage = "VERIFICATION" /\ version = job[JobOf(w)].expects
    <3>1. exec'.status = "CLOSED" /\ exec'.current = exec.current
      BY <1>0, <1>5, <2>1, <2>2 DEF CloseExecution, ExecutionRow, Moved
    <3> QED
      BY <2>1, <3>1 DEF GateOf, Lifecycle!Next, Lifecycle!Finish
  <2>3. CASE ~(stage = "VERIFICATION" /\ version = job[JobOf(w)].expects)
    <3>1. exec' = exec
      BY <1>5, <2>3 DEF CloseExecution
    <3> QED
      BY <2>1, <3>1, Stutters
  <2> QED
    BY <2>2, <2>3
<1>6. CASE RecordCleanup(w)
  <2>1. exec'.status = exec.status /\ exec'.current = exec.current /\ rev' = rev
    BY <1>0, <1>6 DEF RecordCleanup, ExecutionRow
  <2> QED
    BY <2>1, Stutters
<1> QED
  BY <1>1, <1>2, <1>3, <1>4, <1>5, <1>6

\* Initially the execution is being prepared.
LEMMA InitRefines == Init => Lifecycle!Init
  BY DEF Init, Lifecycle!Init, GateOf

\* Every step is one of the lifecycle, or is not seen there.
LEMMA NextRefines == Inv /\ [Next]_vars => [Lifecycle!Next]_Lifecycle!vars
<1> SUFFICES ASSUME Inv, [Next]_vars PROVE [Lifecycle!Next]_Lifecycle!vars
  OBVIOUS
<1>1. ASSUME exec' = exec /\ rev' = rev PROVE [Lifecycle!Next]_Lifecycle!vars
  BY <1>1, Stutters
<1>2. CASE UNCHANGED vars \/ UpstreamMoves \/ ArtifactAttemptFails \/ LeftoverWrites
  BY <1>1, <1>2 DEF vars, database, UpstreamMoves, ArtifactAttemptFails, LeftoverWrites
<1>3. CASE Decide
  BY <1>3, DecisionsRefine
<1>4. ASSUME NEW j \in Job, LeaseExpires(j) \/ \E w \in Workers : Claim(w, j)
      PROVE  [Lifecycle!Next]_Lifecycle!vars
  BY <1>1, <1>4 DEF LeaseExpires, Claim
<1>5. ASSUME NEW w \in Workers, Fail(w) PROVE [Lifecycle!Next]_Lifecycle!vars
  BY <1>5, FailRefines DEF Lifecycle!Next
<1>6. ASSUME NEW w \in Workers,
             \/ Load(w) \/ CancelStaleJob(w) \/ GiveUp(w) \/ OperationFails(w) \/ Crash(w)
             \/ PrepareWorktree(w) \/ Bootstrap(w) \/ AgentEdits(w) \/ AgentReturns(w)
             \/ QueueVerification(w) \/ RunChecks(w) \/ CommitAndPush(w) \/ PushFails(w)
             \/ PublishRaises(w) \/ CompareRemote(w) \/ RemoveWorktree(w) \/ ForceRemove(w)
      PROVE  [Lifecycle!Next]_Lifecycle!vars
  BY <1>1, <1>6 DEF Load, CancelStaleJob, GiveUp, OperationFails, Crash, PrepareWorktree,
     Bootstrap, AgentEdits, AgentReturns, QueueVerification, RunChecks, CommitAndPush,
     PushFails, PublishRaises, CompareRemote, RemoveWorktree, ForceRemove, database
<1>7. ASSUME NEW w \in Workers, Proceed(w) \/ AgentEdits(w) \/ Crash(w)
      PROVE  [Lifecycle!Next]_Lifecycle!vars
  BY <1>5, <1>6, <1>7, TransactionsRefine DEF Proceed
<1> QED
  BY <1>2, <1>3, <1>4, <1>7 DEF Next

\* Whatever the workers do, whenever they die or are overtaken, the execution
\* goes from preparing to working to its reviews, fails and is retried or given
\* up, and ends in DONE or abandoned, only as the lifecycle says.
THEOREM FollowsTheLifecycle == Spec => FollowsLifecycle
<1>1. Init => Lifecycle!Init
  BY InitRefines
<1>2. Inv /\ [Next]_vars => [Lifecycle!Next]_Lifecycle!vars
  BY NextRefines
<1> QED
  BY <1>1, <1>2, Invariance, PTL DEF Spec, FollowsLifecycle, Lifecycle!SafeSpec
===============================================================================
