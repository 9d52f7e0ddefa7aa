----------------------- MODULE ArtifactReviewRefinement -----------------------
(* The artifact workflow, with all its workers, leases, crashes and retries, *)
(* takes the feature through its lifecycle and no other way.                 *)
EXTENDS ArtifactReviewProofs

\* The revision the feature is at.
Current == <<stage, current[stage]>>

\* In an artifact stage the feature is at a revision of that stage's artifact,
\* and only there can a revision be in progress.
LEMMA AtRevision ==
    ASSUME Inv
    PROVE  /\ stage \in ArtifactType => /\ Current \in Revision
                                        /\ current[stage] # 0
           /\ \A r \in Revision : rev[r].status \in InProgress =>
                                      stage \in ArtifactType /\ r = Current
<1> USE DEF Inv
<1>1. stage \in ArtifactType => Current \in Revision /\ current[stage] # 0
  BY RevisionShape, MaxRevisionAssumption DEF ApprovalChain, TypeOK, Current
<1>2. ASSUME NEW r \in Revision, rev[r].status \in InProgress
      PROVE  stage \in ArtifactType /\ r = Current
  <2> DEFINE t == TypeOf(r)
  <2>1. /\ t \in ArtifactType /\ NumberOf(r) \in 1..MaxRevision
        /\ current[t] \in 0..MaxRevision /\ r = <<t, NumberOf(r)>>
    BY RevisionShape DEF TypeOK
  <2>2. rev[r].status # "CHANGES_REQUESTED" /\ rev[r] # NoRevision /\ rev[r].status # "APPROVED"
    BY <1>2 DEF InProgress, NoRevision
  <2>3. NumberOf(r) = current[t]
    BY <2>1, <2>2, MaxRevisionAssumption DEF RevisionHistory
  <2>4. ~Approved(t) /\ current[t] # 0
    BY <2>1, <2>2, <2>3, MaxRevisionAssumption DEF Approved
  <2>5. t = stage
    BY <2>1, <2>4 DEF ApprovalChain
  <2> QED
    BY <2>1, <2>3, <2>5 DEF Current
<1> QED
  BY <1>1, <1>2

\* The gate as the row of the current revision gives it.
LEMMA GateOfRow ==
    ASSUME stage \in ArtifactType
    PROVE  /\ GateOf = IF rev[Current].status \in InProgress THEN "WORKING" ELSE rev[Current].status
           /\ RevisionOf = current[stage]
  BY StageOrder DEF GateOf, RevisionOf, Current

\* A step that keeps the stage, the current revisions and the status of the one
\* the feature is at is not seen in the lifecycle.
LEMMA Stutters ==
    ASSUME Inv, UNCHANGED <<stage, current>>,
           \A r \in Revision : rev'[r].status = rev[r].status
    PROVE  UNCHANGED Lifecycle!vars
<1>1. stage \in Stage
  BY DEF Inv, TypeOK
<1>2. CASE stage \in ArtifactType
  <2>1. Current \in Revision /\ Current' = Current /\ rev'[Current].status = rev[Current].status
    BY <1>2, AtRevision DEF Current
  <2> QED
    BY <1>2, <2>1 DEF Lifecycle!vars, GateOf, RevisionOf, Current
<1>3. CASE stage \notin ArtifactType
  BY <1>1, <1>3 DEF Lifecycle!vars, GateOf, RevisionOf, Stage
<1> QED
  BY <1>2, <1>3

\* An approval of the workflow is an approval of the lifecycle.
LEMMA ApproveRefines == ASSUME Inv, NEW r \in Revision, Approve(r) PROVE Lifecycle!Approve
<1> USE DEF Inv
<1> DEFINE next == NextStage[stage]
           c == <<next, 1>>
           approved == [rev EXCEPT ![r].status = "APPROVED", ![r].review = "APPROVED"]
<1>1. stage \in ArtifactType /\ r = Current /\ rev[r].status = "REVIEW"
  BY RevisionShape DEF Approve, Reviewable, Current
<1>2. GateOf = "REVIEW"
  BY <1>1, GateOfRow DEF InProgress
<1>3. /\ stage' = next /\ next = Lifecycle!NextStage[stage]
      /\ stage = "PLAN" <=> next = "IMPLEMENTATION"
      /\ next \in ArtifactType <=> next # "IMPLEMENTATION"
  BY <1>1, StageOrder DEF Approve, NextStage, Lifecycle!NextStage, ArtifactType
<1>4. CASE next = "IMPLEMENTATION"
  <2>1. GateOf' = "HANDED_OFF" /\ RevisionOf' = 0
    BY <1>3, <1>4, StageOrder DEF GateOf, RevisionOf
  <2> QED
    BY <1>2, <1>3, <1>4, <2>1 DEF Lifecycle!Approve
<1>5. CASE next # "IMPLEMENTATION"
  <2>1. c \in Revision /\ next \in ArtifactType
    BY <1>3, <1>5, RevisionShape, MaxRevisionAssumption
  <2>2. current'[next] = 1 /\ Current' = c
    BY <1>3, <1>5, <2>1 DEF Approve, TypeOK, Current
  <2>3. approved \in [Revision -> RevisionRow]
    BY DEF TypeOK, RevisionRow, RevisionStatus, ReviewStatus
  <2>4. rev' = [approved EXCEPT ![c].status = "GENERATING"]
    BY <1>5 DEF Approve
  <2>5. rev'[c].status = "GENERATING"
    BY <2>1, <2>3, <2>4 DEF RevisionRow
  <2>6. stage' \in ArtifactType
    BY <1>3, <2>1
  <2>7. GateOf' = "WORKING" /\ RevisionOf' = 1
    <3>1. rev'[Current'].status = "GENERATING"
      BY <2>2, <2>5
    <3> QED
      BY <1>3, <2>1, <2>2, <2>6, <3>1, StageOrder DEF GateOf, RevisionOf, InProgress, Current
  <2> QED
    BY <1>2, <1>3, <1>5, <2>7 DEF Lifecycle!Approve
<1> QED
  BY <1>4, <1>5

\* Every other step that the lifecycle sees moves the revision the feature is
\* at: to a status s, or to its successor with status s.
LEMMA StatusStep ==
    ASSUME Inv, stage \in ArtifactType, UNCHANGED stage,
           NEW s,
           \/ UNCHANGED current /\ rev'[Current].status = s
           \/ /\ current' = [current EXCEPT ![stage] = current[stage] + 1]
              /\ rev'[Child(Current)].status = s
    PROVE  /\ GateOf' = IF s \in InProgress THEN "WORKING" ELSE s
           /\ RevisionOf' = current'[stage]
<1>1. current \in [ArtifactType -> 0..MaxRevision]
  BY DEF Inv, TypeOK
<1>2. rev'[<<stage, current'[stage]>>].status = s
  BY <1>1 DEF Current, Child
<1> QED
  BY <1>2, StageOrder DEF GateOf, RevisionOf, InProgress

\* What the reviewer and the author of a manual revision do.
LEMMA DecideRefines ==
    ASSUME Inv, NEW r \in Revision, Decide(r)
    PROVE  Lifecycle!Next \/ UNCHANGED Lifecycle!vars
<1> USE DEF Inv
<1>1. CASE Approve(r)
  BY <1>1, ApproveRefines DEF Lifecycle!Next
<1>2. CASE RequestChanges(r)
  <2>1. stage \in ArtifactType /\ r = Current /\ rev[r].status = "REVIEW"
    BY <1>2, RevisionShape DEF RequestChanges, Reviewable, Current
  <2>2. rev'[r].status = "CHANGES_REQUESTED" /\ UNCHANGED <<stage, current>>
    BY <1>2 DEF RequestChanges, TypeOK, RevisionRow
  <2>3. GateOf = "REVIEW" /\ RevisionOf = current[stage]
    BY <2>1, GateOfRow DEF InProgress
  <2>4. GateOf' = "CHANGES_REQUESTED" /\ RevisionOf' = current[stage]
    BY <2>1, <2>2, StatusStep DEF InProgress
  <2> QED
    BY <2>2, <2>3, <2>4 DEF Lifecycle!Next, Lifecycle!RequestChanges
<1>3. CASE AddressWithAgent(r) \/ SubmitManualRevision(r)
  <2>1. /\ stage \in ArtifactType /\ r = Current /\ rev[r].status = "CHANGES_REQUESTED"
        /\ NumberOf(r) < MaxRevision /\ NumberOf(r) = current[stage] /\ TypeOf(r) = stage
        /\ Child(r) \in Revision
    BY <1>3, RevisionShape
    DEF AddressWithAgent, SubmitManualRevision, Addressable, Current
  <2>2. GateOf = "CHANGES_REQUESTED" /\ RevisionOf = current[stage]
    BY <2>1, GateOfRow DEF InProgress
  <2>3. /\ current' = [current EXCEPT ![stage] = current[stage] + 1] /\ UNCHANGED stage
        /\ current'[stage] = current[stage] + 1
    BY <1>3, <2>1 DEF AddressWithAgent, SubmitManualRevision, TypeOK
  <2>4. CASE AddressWithAgent(r)
    <3>1. rev'[Child(Current)].status = "UPDATING"
      BY <2>1, <2>4 DEF AddressWithAgent, TypeOK, RevisionRow
    <3>2. GateOf' = "WORKING" /\ RevisionOf' = current[stage] + 1
      BY <2>1, <2>3, <3>1, StatusStep DEF InProgress
    <3> QED
      BY <2>1, <2>2, <2>3, <3>2 DEF Lifecycle!Next, Lifecycle!Address
  <2>5. CASE SubmitManualRevision(r)
    <3>1. rev'[Child(Current)].status = "REVIEW"
      BY <2>1, <2>5, PublishedFields DEF SubmitManualRevision
    <3>2. GateOf' = "REVIEW" /\ RevisionOf' = current[stage] + 1
      BY <2>1, <2>3, <3>1, StatusStep DEF InProgress
    <3> QED
      BY <2>1, <2>2, <2>3, <3>2 DEF Lifecycle!Next, Lifecycle!Edit
  <2> QED
    BY <1>3, <2>4, <2>5
<1>4. CASE ManualRevisionRolledBack(r)
  BY <1>4, Stutters DEF ManualRevisionRolledBack
<1> QED
  BY <1>1, <1>2, <1>3, <1>4 DEF Decide

\* What the workers do: a result that is applied is published, a failure fails
\* the revision in progress, and nothing else is seen.
LEMMA WorkerRefines ==
    ASSUME Inv, NEW w \in Workers,
           (\E r \in Revision : Claim(w, r)) \/ Proceed(w) \/ ApplyRolledBack(w) \/ Crash(w)
    PROVE  Lifecycle!Next \/ UNCHANGED Lifecycle!vars
<1> USE DEF Inv
<1> DEFINE r == claim[w].rev
<1>1. CASE UNCHANGED <<stage, current, rev>>
  BY <1>1, Stutters
<1>2. CASE StartRun(w)
  <2>1. UNCHANGED <<stage, current>> /\ \A q \in Revision : rev'[q].status = rev[q].status
    BY <1>2 DEF StartRun, TypeOK, RevisionRow
  <2> QED
    BY <2>1, Stutters
<1>3. CASE Apply(w)
  <2>1. r \in Revision /\ rev[r].status \in InProgress /\ claim[w].attempt \in Content
    BY <1>3, ClaimFacts, MaxAttemptsAssumption
    DEF Apply, Fence, Preconditions, ExpectedStatus, InProgress, Content
  <2>2. stage \in ArtifactType /\ r = Current
    BY <2>1, AtRevision
  <2>3. rev'[Current].status = "REVIEW" /\ UNCHANGED <<stage, current>>
    BY <1>3, <2>1, <2>2, PublishedFields DEF Apply
  <2>4. GateOf = "WORKING" /\ RevisionOf = current[stage]
    BY <2>1, <2>2, GateOfRow
  <2>5. GateOf' = "REVIEW" /\ RevisionOf' = current[stage]
    BY <2>2, <2>3, StatusStep DEF InProgress
  <2> QED
    BY <2>3, <2>4, <2>5 DEF Lifecycle!Next, Lifecycle!Publish
<1>4. CASE FailJob(w)
  <2>1. /\ UNCHANGED <<stage, current>> /\ r \in Revision
        /\ \A q \in Revision : rev'[q].status = IF q = r /\ rev[q].status \in InProgress
                                                THEN "FAILED" ELSE rev[q].status
    BY <1>4, ClaimFacts DEF FailJob, TypeOK, RevisionRow
  <2>2. CASE rev[r].status \notin InProgress
    BY <2>1, <2>2, Stutters
  <2>3. CASE rev[r].status \in InProgress
    <3>1. stage \in ArtifactType /\ r = Current
      BY <2>1, <2>3, AtRevision
    <3>2. GateOf = "WORKING" /\ RevisionOf = current[stage]
      BY <2>3, <3>1, GateOfRow
    <3>3. rev'[Current].status = "FAILED"
      BY <2>1, <2>3, <3>1
    <3>4. GateOf' = "FAILED" /\ RevisionOf' = current[stage]
      BY <2>1, <3>1, <3>3, StatusStep DEF InProgress
    <3> QED
      BY <2>1, <3>2, <3>4 DEF Lifecycle!Next, Lifecycle!Fail
  <2> QED
    BY <2>2, <2>3
<1> QED
  BY <1>1, <1>2, <1>3, <1>4
  DEF Proceed, Claim, LoadContext, CancelStaleJob, AgentEnds, Supersede, ApplyFindsDirectory,
      ApplyRolledBack, Crash

\* The arrival of a feature starts its lifecycle.
LEMMA IngestRefines == ASSUME Inv, IngestFeature PROVE Lifecycle!Start
<1> USE DEF Inv
<1>1. stage = "ABSENT" /\ stage' = "INTENT" /\ "INTENT" \in ArtifactType /\ <<"INTENT", 1>> \in Revision
  BY RevisionShape, MaxRevisionAssumption DEF IngestFeature, ArtifactType
<1>2. current'["INTENT"] = 1 /\ rev'[<<"INTENT", 1>>].status = "GENERATING"
  BY <1>1 DEF IngestFeature, TypeOK, RevisionRow
<1>3. GateOf' = "WORKING" /\ RevisionOf' = 1
  BY <1>1, <1>2 DEF GateOf, RevisionOf, InProgress
<1> QED
  BY <1>1, <1>3 DEF Lifecycle!Start

\* The workflow is a lifecycle: every behaviour of every number of workers takes
\* the feature through the stages and gates of FeatureLifecycle, and whatever
\* else the code does leaves the lifecycle where it is.
THEOREM RefinementTheorem == Spec => FollowsLifecycle
<1>1. Init => Lifecycle!Init
  BY DEF Init, Lifecycle!Init, GateOf, RevisionOf, ArtifactType
<1>2. Inv /\ [Next]_vars => [Lifecycle!Next]_(Lifecycle!vars)
  <2> SUFFICES ASSUME Inv, [Next]_vars PROVE Lifecycle!Next \/ UNCHANGED Lifecycle!vars
    OBVIOUS
  <2>1. CASE UNCHANGED vars
    BY <2>1, Stutters DEF vars
  <2>2. CASE IngestFeature
    BY <2>2, IngestRefines DEF Lifecycle!Next
  <2>3. ASSUME NEW r \in Revision, LeaseExpires(r) PROVE UNCHANGED Lifecycle!vars
    BY <2>3, Stutters DEF LeaseExpires
  <2> QED
    BY <2>1, <2>2, <2>3, DecideRefines, WorkerRefines DEF Next
<1> QED
  BY Inductive, <1>1, <1>2, PTL DEF Spec, FollowsLifecycle, Lifecycle!SafeSpec
===============================================================================
