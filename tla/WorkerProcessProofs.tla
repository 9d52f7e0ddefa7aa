-------------------------- MODULE WorkerProcessProofs --------------------------
(***************************************************************************)
(* Proofs about WorkerProcess, for any processes, migrations, records of   *)
(* Pi and plans. Each part of the process has an inductive invariant of    *)
(* its own: the examination of a plan, the start on the database, and the  *)
(* run of Pi. A step of the process is for each part a step of that part,  *)
(* or one that forgets it, or none.                                        *)
(***************************************************************************)
EXTENDS WorkerProcess, TLAPS

-------------------------------------------------------------------------------
(* The execution plan.                                                     *)

\* Tasks in a knot are never taken away.
PlanInv ==
    /\ remaining \subseteq TaskKeys
    /\ verdict = "checking" =>
           /\ WellFormed(plan)
           /\ remaining \subseteq Keys(plan)
           /\ \A S \in SUBSET TaskKeys : Knot(plan, S) => S \subseteq remaining
    /\ VerdictIsRight

PlanStep == Examine \/ (\E p \in Plans : Propose(p)) \/ ForgetPlan \/ UNCHANGED planVars

LEMMA PlanKeys == \A p \in Plans : Keys(p) \subseteq TaskKeys
<1> SUFFICES ASSUME NEW p \in Plans, NEW i \in DOMAIN p PROVE p[i].key \in TaskKeys
  BY DEF Keys
<1>1. p \in Seq(Task)
  BY PlansAssumption
<1>2. p[i] \in Task
  BY <1>1
<1> QED BY <1>2 DEF Task

\* What is left when no task is ready is a knot.
LEMMA LeftIsKnot ==
    ASSUME remaining # {}, remaining \subseteq Keys(plan), ReadyTasks(plan, remaining) = {}
    PROVE  Knot(plan, remaining)
  BY DEF Knot, ReadyTasks

\* A task of a knot is never ready.
LEMMA KnotStays ==
    ASSUME NEW S, Knot(plan, S), S \subseteq remaining
    PROVE  S \subseteq remaining \ ReadyTasks(plan, remaining)
  BY DEF Knot, ReadyTasks

LEMMA PlanPreserved == PlanInv /\ PlanStep => PlanInv'
<1> SUFFICES ASSUME PlanInv, PlanStep PROVE PlanInv'
  OBVIOUS
<1>1. CASE TakeAway
  <2>1. UNCHANGED <<plan, verdict>> /\ verdict = "checking"
    BY <1>1 DEF TakeAway
  <2>2. remaining' = remaining \ ReadyTasks(plan, remaining)
    BY <1>1 DEF TakeAway
  <2>3. ASSUME NEW S \in SUBSET TaskKeys, Knot(plan, S) PROVE S \subseteq remaining'
    BY <2>1, <2>2, <2>3, KnotStays DEF PlanInv
  <2>4. WellFormed(plan) /\ remaining' \subseteq Keys(plan) /\ remaining' \subseteq TaskKeys
    BY <2>1, <2>2 DEF PlanInv
  <2> QED BY <2>1, <2>3, <2>4 DEF PlanInv, VerdictIsRight
<1>2. CASE RefuseCycle
  <2>1. Knot(plan, remaining) /\ remaining \in SUBSET TaskKeys
    BY <1>2, LeftIsKnot DEF RefuseCycle, PlanInv
  <2>2. UNCHANGED <<plan, remaining>> /\ verdict' = "refused"
    BY <1>2 DEF RefuseCycle
  <2> QED BY <2>1, <2>2 DEF PlanInv, VerdictIsRight
<1>3. CASE AcceptPlan
  <2>1. UNCHANGED <<plan, remaining>> /\ verdict' = "accepted" /\ remaining = {} /\ WellFormed(plan)
    BY <1>3 DEF AcceptPlan, PlanInv
  <2>2. \A S \in SUBSET TaskKeys : ~Knot(plan, S)
    BY <1>3, <2>1 DEF AcceptPlan, PlanInv, Knot
  <2> QED BY <2>1, <2>2 DEF PlanInv, VerdictIsRight
<1>4. ASSUME NEW p \in Plans, Propose(p) PROVE PlanInv'
  <2>1. plan' = p
    BY <1>4 DEF Propose
  <2>2. CASE WellFormed(p)
    <3>1. verdict' = "checking" /\ remaining' = Keys(p)
      BY <1>4, <2>2 DEF Propose
    <3> QED BY <2>1, <2>2, <3>1, PlanKeys DEF PlanInv, VerdictIsRight, Knot
  <2>3. CASE ~WellFormed(p)
    <3>1. verdict' = "refused" /\ remaining' = {}
      BY <1>4, <2>3 DEF Propose
    <3> QED BY <2>1, <2>3, <3>1 DEF PlanInv, VerdictIsRight
  <2> QED BY <2>2, <2>3
<1>5. CASE ForgetPlan
  BY <1>5 DEF ForgetPlan, PlanInv, VerdictIsRight
<1>6. CASE UNCHANGED planVars
  BY <1>6 DEF planVars, PlanInv, VerdictIsRight
<1> QED BY <1>1, <1>2, <1>3, <1>4, <1>5, <1>6 DEF PlanStep, Examine

LEMMA WorkerPlanStep == [WorkerNext]_processVars => PlanStep
<1> SUFFICES ASSUME [WorkerNext]_processVars PROVE PlanStep
  OBVIOUS
<1>1. CASE \E p \in Processes : Begins(p) \/ StartsUp(p)
  BY <1>1 DEF Begins, StartsUp, PlanStep
<1>2. CASE StopsAtHead \/ OrphanEnds \/ PiLives
  BY <1>2 DEF StopsAtHead, OrphanEnds, PiLives, PlanStep
<1>3. CASE Killed
  BY <1>3 DEF Killed, PlanStep
<1>4. CASE TakeJob \/ WithoutPi \/ PiRuns \/ EndsByException \/ OutboxTurn
  BY <1>4 DEF TakeJob, WithoutPi, PiRuns, EndsByException, OutboxTurn, PlanStep
<1>5. CASE ExaminePlan
  BY <1>5 DEF ExaminePlan, PlanStep
<1>6. CASE PlanIsExamined
  BY <1>6 DEF PlanIsExamined, PlanStep
<1>7. CASE JobSucceeds \/ JobFails
  BY <1>7 DEF JobSucceeds, JobFails, PlanStep
<1>8. CASE UNCHANGED processVars
  BY <1>8 DEF processVars, PlanStep
<1> QED BY <1>1, <1>2, <1>3, <1>4, <1>5, <1>6, <1>7, <1>8 DEF WorkerNext, WorkerActs

\* normalize_execution_plan accepts a plan if and only if it is well formed and
\* its tasks can be carried out in some order, for any tasks and dependencies.
THEOREM PlanTheorem == WorkerSpec => []VerdictIsRight
<1>1. WorkerInit => PlanInv
  BY DEF WorkerInit, PlanInit, PlanInv, VerdictIsRight
<1>2. PlanInv /\ [WorkerNext]_processVars => PlanInv'
  BY WorkerPlanStep, PlanPreserved
<1>3. PlanInv => VerdictIsRight
  BY DEF PlanInv
<1> QED BY <1>1, <1>2, <1>3, PTL DEF WorkerSpec

-------------------------------------------------------------------------------
(* The start on the database.                                              *)

\* The write lock belongs to the process that has applied a migration and not
\* recorded it, and the draft is what that makes of the file. A process has
\* found every version before its next recorded, and in the schema as far as
\* it is looked for. What an earlier release has left is neither repaired nor
\* made worse.
DoneUpTo(n) ==
    /\ \A v \in Version : v < n => v \in file.ledger /\ (v \in Shaped => v \in file.schema)
    /\ n > 1 => ~file.dangling

SchemaInv ==
    /\ file \in DatabaseFile
    /\ Findable(file)
    /\ damaged = IsDamaged(file)
    /\ next \in [Processes -> Version]
    /\ at \in [Processes -> Place]
    /\ \A p \in Processes :
           /\ at[p] = "opening" => next[p] = 1
           /\ at[p] \in {"waiting", "recording"} => DoneUpTo(next[p])
           /\ at[p] \in {"ready", "stopped"} => DoneUpTo(Last + 1)
           /\ at[p] = "recording" =>
                  /\ lock = p
                  /\ ~ScriptFails(next[p])
                  /\ draft = [file EXCEPT !.schema = Made(next[p])]

\* A process that starts, dies or stops.
SchemaStep ==
    \E p \in Processes :
        \/ Launch(p) \/ EnableWal(p) \/ Migrate(p) \/ RecordVersion(p) \/ Dies(p)
        \/ /\ at[p] = "ready"
           /\ at' = [at EXCEPT ![p] = "stopped"]
           /\ UNCHANGED <<file, draft, lock, wal, next, damaged>>

LEMMA VersionFacts == Version \subseteq Nat /\ 1 \in Version /\ Last \in Version
  BY LastAssumption DEF Version

\* Recording version v after its script leaves the database as damaged as it
\* was, with every version before v still done, and v as well.
LEMMA RecordPreserves ==
    ASSUME NEW v \in Version, file \in DatabaseFile, Findable(file), DoneUpTo(v),
           ~ScriptFails(v), draft = [file EXCEPT !.schema = Made(v)], Valid(v),
           file' = [draft EXCEPT !.ledger = @ \cup {v}]
    PROVE  /\ file' \in DatabaseFile /\ Findable(file')
           /\ IsDamaged(file') = IsDamaged(file)
           /\ DoneUpTo(v + 1)'
           /\ \A n \in Nat : DoneUpTo(n) => DoneUpTo(n)'
<1>1. /\ file.schema \subseteq Version /\ file.ledger \subseteq Version
      /\ file.dangling \in BOOLEAN
  BY DEF DatabaseFile
<1>2. /\ draft.schema = Made(v) /\ draft.ledger = file.ledger /\ draft.dangling = file.dangling
      /\ draft \in DatabaseFile
  BY <1>1 DEF DatabaseFile, Made
<1>3. /\ file'.schema = Made(v) /\ file'.ledger = file.ledger \cup {v}
      /\ file'.dangling = file.dangling
      /\ file' \in DatabaseFile
  BY <1>2 DEF DatabaseFile
<1>4. file.schema \subseteq Made(v) /\ Made(v) \subseteq file.schema \cup {v}
  BY DEF Made
<1>5. v \in Shaped => v \in Made(v)
  BY <1>2 DEF Valid
<1>6. ~file.dangling
  BY <1>2 DEF Valid
<1>7. v \notin file.ledger => v \in Made(v)
  BY DEF Made
<1>8. v \notin file.ledger => v \notin file.schema
  <2>1. SUFFICES ASSUME v \notin file.ledger, v \in file.schema PROVE FALSE
    OBVIOUS
  <2>2. v \in Fragile
    BY <2>1 DEF Findable
  <2>3. v \notin Additive
    BY <2>2, VersionsAssumption
  <2> QED BY <2>1, <2>2, <2>3 DEF ScriptFails
<1>9. v \in file.ledger /\ v \notin Additive => Made(v) = file.schema
  BY DEF Made
<1>10. v \in Additive /\ v \in file.ledger => v \in Shaped
  BY VersionsAssumption
<1>11. Findable(file')
  <2>1. ASSUME NEW u \in file'.ledger PROVE 1..u \subseteq file'.ledger
    <3>1. CASE u \in file.ledger
      BY <3>1, <1>3 DEF Findable
    <3>2. CASE u = v
      <4>1. \A w \in 1..v : w = v \/ (w \in Version /\ w < v)
        BY LastAssumption DEF Version
      <4> QED BY <4>1, <3>2, <1>3 DEF DoneUpTo
    <3> QED BY <3>1, <3>2, <1>3
  <2>2. file'.ledger \ file'.schema \subseteq Shaped
    BY <1>3, <1>4, <1>7 DEF Findable
  <2>3. file'.schema \ file'.ledger \subseteq Fragile
    BY <1>3, <1>4 DEF Findable
  <2> QED BY <2>1, <2>2, <2>3 DEF Findable
<1>12. IsDamaged(file') = IsDamaged(file)
  <2>1. file'.schema \ file'.ledger = file.schema \ file.ledger
    BY <1>3, <1>4, <1>8
  <2>2. (\E u \in (file'.ledger \cap Shaped) \ Additive : u \notin file'.schema)
        <=> (\E u \in (file.ledger \cap Shaped) \ Additive : u \notin file.schema)
    BY <1>3, <1>4, <1>5, <1>9
  <2> QED BY <2>1, <2>2, <1>3 DEF IsDamaged
<1>13. \A n \in Nat : DoneUpTo(n) => DoneUpTo(n)'
  BY <1>3, <1>4 DEF DoneUpTo
<1>14. DoneUpTo(v + 1)'
  <2>1. \A w \in Version : w < v + 1 => w = v \/ w < v
    BY VersionFacts
  <2> QED BY <2>1, <1>3, <1>4, <1>5, <1>6 DEF DoneUpTo
<1> QED BY <1>3, <1>11, <1>12, <1>13, <1>14

LEMMA SchemaPreserved == SchemaInv /\ SchemaStep => SchemaInv'
<1> SUFFICES ASSUME SchemaInv, NEW p \in Processes,
                    \/ Launch(p) \/ EnableWal(p) \/ Migrate(p) \/ RecordVersion(p) \/ Dies(p)
                    \/ /\ at[p] = "ready"
                       /\ at' = [at EXCEPT ![p] = "stopped"]
                       /\ UNCHANGED <<file, draft, lock, wal, next, damaged>>
             PROVE  SchemaInv'
  BY DEF SchemaStep
<1>0. p # NoProcess /\ 1 \in Version
  BY NoProcessAssumption, VersionFacts
<1>1. CASE Launch(p)
  <2>1. /\ at' = [at EXCEPT ![p] = "opening"] /\ next' = [next EXCEPT ![p] = 1]
        /\ UNCHANGED <<file, draft, lock, damaged>>
    BY <1>1 DEF Launch
  <2> QED BY <2>1, <1>0 DEF SchemaInv, DoneUpTo, ScriptFails, Made, Place
<1>2. CASE EnableWal(p)
  <2>1. /\ at[p] = "opening" /\ at' = [at EXCEPT ![p] = "waiting"]
        /\ UNCHANGED <<file, draft, lock, next, damaged>>
    BY <1>2 DEF EnableWal
  <2>2. DoneUpTo(1)
    BY VersionFacts DEF DoneUpTo, Version
  <2> QED BY <2>1, <2>2 DEF SchemaInv, DoneUpTo, ScriptFails, Made, Place
<1>3. CASE Migrate(p)
  <2>1. /\ at[p] = "waiting" /\ lock = NoProcess /\ ~ScriptFails(next[p]) /\ lock' = p
        /\ draft' = [file EXCEPT !.schema = Made(next[p])]
        /\ at' = [at EXCEPT ![p] = "recording"]
        /\ UNCHANGED <<file, next, damaged>>
    BY <1>3 DEF Migrate
  <2>2. \A q \in Processes : at[q] # "recording"
    BY <2>1, NoProcessAssumption DEF SchemaInv
  <2> QED BY <2>1, <2>2 DEF SchemaInv, DoneUpTo, ScriptFails, Made, Place
<1>4. CASE RecordVersion(p)
  <2>0. PICK v \in Version : v = next[p]
    BY DEF SchemaInv
  <2>1. /\ at[p] = "recording" /\ Valid(v)
        /\ file' = [draft EXCEPT !.ledger = @ \cup {v}]
        /\ UNCHANGED damaged
    BY <1>4, <2>0 DEF RecordVersion
  <2>2. v \in Nat
    BY VersionFacts
  <2>3. /\ file' \in DatabaseFile /\ Findable(file')
        /\ IsDamaged(file') = IsDamaged(file)
        /\ DoneUpTo(v + 1)'
        /\ \A n \in Nat : DoneUpTo(n) => DoneUpTo(n)'
    BY <2>0, <2>1, RecordPreserves DEF SchemaInv
  <2>4. \A q \in Processes : q # p => at[q] # "recording"
    BY <2>1 DEF SchemaInv
  <2>5. \A q \in Processes : next[q] \in Nat
    BY VersionFacts DEF SchemaInv
  <2>6. CASE v = Last
    <3>1. at' = [at EXCEPT ![p] = "ready"] /\ UNCHANGED next
      BY <1>4, <2>0, <2>6 DEF RecordVersion
    <3>2. Last + 1 \in Nat
      BY LastAssumption
    <3> QED BY <3>1, <3>2, <2>1, <2>3, <2>4, <2>5, <2>6 DEF SchemaInv, Place
  <2>7. CASE v # Last
    <3>1. at' = [at EXCEPT ![p] = "waiting"] /\ next' = [next EXCEPT ![p] = v + 1]
      BY <1>4, <2>0, <2>7 DEF RecordVersion
    <3>2. Last + 1 \in Nat /\ v + 1 \in Version
      BY <2>2, <2>7, LastAssumption DEF Version
    <3>3. next' \in [Processes -> Version] /\ at' \in [Processes -> Place]
      BY <3>1, <3>2 DEF SchemaInv, Place
    <3>4. ASSUME NEW q \in Processes
          PROVE  /\ (at[q] = "opening" => next[q] = 1)'
                 /\ (at[q] \in {"waiting", "recording"} => DoneUpTo(next[q]))'
                 /\ (at[q] \in {"ready", "stopped"} => DoneUpTo(Last + 1))'
                 /\ at'[q] # "recording"
      <4>1. CASE q = p
        <5>1. at'[p] = "waiting" /\ next'[p] = v + 1
          BY <3>1 DEF SchemaInv
        <5>2. DoneUpTo(next[p])'
          BY <5>1, <2>3 DEF DoneUpTo
        <5> QED BY <4>1, <5>1, <5>2
      <4>2. CASE q # p
        <5>1. at'[q] = at[q] /\ next'[q] = next[q] /\ next[q] \in Nat
          BY <4>2, <3>1, <2>5 DEF SchemaInv
        <5> QED BY <5>1, <4>2, <3>2, <2>3, <2>4 DEF SchemaInv
      <4> QED BY <4>1, <4>2
    <3> QED BY <3>3, <3>4, <2>1, <2>3 DEF SchemaInv
  <2> QED BY <2>6, <2>7
<1>5. CASE Dies(p)
  <2>1. /\ at' = [at EXCEPT ![p] = "down"]
        /\ lock' = IF lock = p THEN NoProcess ELSE lock
        /\ UNCHANGED <<file, draft, next, damaged>>
    BY <1>5 DEF Dies
  <2> QED BY <2>1 DEF SchemaInv, DoneUpTo, ScriptFails, Made, Place
<1>6. CASE /\ at[p] = "ready"
           /\ at' = [at EXCEPT ![p] = "stopped"]
           /\ UNCHANGED <<file, draft, lock, wal, next, damaged>>
  BY <1>6 DEF SchemaInv, DoneUpTo, ScriptFails, Made, Place
<1> QED BY <1>1, <1>2, <1>3, <1>4, <1>5, <1>6

LEMMA WorkerSchemaStep == [WorkerNext]_processVars => SchemaStep \/ UNCHANGED startupVars
<1> SUFFICES ASSUME [WorkerNext]_processVars PROVE SchemaStep \/ UNCHANGED startupVars
  OBVIOUS
<1>1. ASSUME NEW p \in Processes, Begins(p) \/ StartsUp(p) PROVE SchemaStep
  <2>1. Launch(p) \/ EnableWal(p) \/ Apply(p) \/ LockTimesOut(p) \/ KilledAtStart(p)
    BY <1>1 DEF Begins, StartsUp
  <2>2. Apply(p) => Migrate(p) \/ RecordVersion(p) \/ Dies(p)
    BY DEF Apply, ScriptRaises, ValidationRaises
  <2>3. LockTimesOut(p) \/ KilledAtStart(p) => Dies(p)
    BY DEF LockTimesOut, KilledAtStart
  <2> QED BY <2>1, <2>2, <2>3 DEF SchemaStep
<1>2. CASE StopsAtHead
  BY <1>2, WorkerAssumption DEF StopsAtHead, Ready, SchemaStep
<1>3. CASE Killed \/ EndsByException
  BY <1>3, WorkerAssumption DEF Killed, EndsByException, SchemaStep
<1>4. CASE OrphanEnds \/ PiLives
  BY <1>4 DEF OrphanEnds, PiLives
<1>5. CASE TakeJob \/ WithoutPi \/ PiRuns \/ OutboxTurn
  BY <1>5 DEF TakeJob, WithoutPi, PiRuns, OutboxTurn
<1>6. CASE ExaminePlan \/ PlanIsExamined \/ JobSucceeds \/ JobFails
  BY <1>6 DEF ExaminePlan, PlanIsExamined, JobSucceeds, JobFails
<1>7. CASE UNCHANGED processVars
  BY <1>7 DEF processVars
<1> QED BY <1>1, <1>2, <1>3, <1>4, <1>5, <1>6, <1>7 DEF WorkerNext, WorkerActs

LEMMA SchemaUnchanged == SchemaInv /\ UNCHANGED startupVars => SchemaInv'
  BY DEF SchemaInv, startupVars, DoneUpTo, ScriptFails, Made

\* Database.initialize: however the processes that start and die on it
\* interleave, the ledger tells what the schema is, and a process that is ready
\* finds the newest one.
THEOREM SchemaTheorem == WorkerSpec => []SchemaIsTrue
<1>1. WorkerInit => SchemaInv
  <2> SUFFICES ASSUME StartupInit PROVE SchemaInv
    BY DEF WorkerInit
  <2>1. file \in DatabaseFile /\ Findable(file)
    BY DatabasesAssumption DEF StartupInit
  <2> QED BY <2>1, VersionFacts DEF StartupInit, SchemaInv, Place
<1>2. SchemaInv /\ [WorkerNext]_processVars => SchemaInv'
  BY WorkerSchemaStep, SchemaPreserved, SchemaUnchanged
<1>3. SchemaInv => SchemaIsTrue
  <2> SUFFICES ASSUME SchemaInv PROVE SchemaIsTrue
    OBVIOUS
  <2>1. ASSUME ~damaged
        PROVE  file.schema \subseteq file.ledger /\ file.ledger \ file.schema \subseteq Additive
    BY <2>1 DEF SchemaInv, IsDamaged, Findable
  <2>2. \A v \in file.ledger : 1..v \subseteq file.ledger
    BY DEF SchemaInv, Findable
  <2>3. ASSUME NEW p \in Processes, at[p] = "ready" PROVE ~damaged /\ file.schema = Version
    <3>1. DoneUpTo(Last + 1) /\ file \in DatabaseFile /\ Findable(file)
      BY <2>3 DEF SchemaInv
    <3>2. \A v \in Version : v < Last + 1
      BY LastAssumption DEF Version
    <3>3. ~file.dangling
      BY <3>1, LastAssumption DEF DoneUpTo
    <3>4. \A v \in Version : v \in file.ledger /\ (v \in Shaped => v \in file.schema)
      BY <3>1, <3>2 DEF DoneUpTo
    <3>5. file.schema \subseteq Version /\ file.ledger \subseteq Version
      BY <3>1 DEF DatabaseFile
    <3>6. Version \subseteq file.schema
      BY <3>1, <3>4 DEF Findable
    <3>7. ~IsDamaged(file)
      BY <3>3, <3>4, <3>5, <3>6 DEF IsDamaged
    <3> QED BY <3>5, <3>6, <3>7 DEF SchemaInv
  <2> QED BY <2>1, <2>2, <2>3 DEF SchemaIsTrue
<1> QED BY <1>1, <1>2, <1>3, PTL DEF WorkerSpec

-------------------------------------------------------------------------------
(* The run of Pi.                                                          *)

\* What the runner has heard and what Pi has said are the ends of one story,
\* told by the records in between; once a story has settled it goes no further.
Telling ==
    \E t \in [0..Len(pipe) -> Story] :
        /\ t[0] = heard
        /\ t[Len(pipe)] = said
        /\ \A i \in 1..Len(pipe) : t[i] = Told(t[i - 1], pipe[i])
        /\ \A i \in 0..Len(pipe) : t[i].settled => said = t[i]

\* What an outcome says of Pi.
OutcomeMeans ==
    /\ outcome = Settled =>
           /\ said = heard
           /\ said.settled /\ said.accepted /\ ~said.exhausted
           /\ said.message \in {"good", "garbled"}
    /\ outcome = Answer =>
           /\ said.settled /\ said.accepted /\ ~said.exhausted
           /\ said.message = "good"
    /\ outcome.kind = "CANCELLED" => said.settled /\ said.message = "aborted"
    /\ outcome = Failed("PROCESS", FALSE) => pi.code \/ (said.settled /\ said.message = "length")

PiTypes ==
    /\ phase \in {"idle", "writing", "reading", "polling", "terminating", "joining", "ended"}
    /\ outcome \in Outcome
    /\ heard \in Story /\ said \in Story
    /\ pi \in Child
    /\ pipe \in Seq(Record)

PiInv ==
    /\ PiTypes
    /\ pi.code => pi.state \in {"leaving", "left"}
    /\ phase = "idle" => /\ heard = Nothing /\ said = Nothing
                         /\ pipe = <<>> /\ outcome = Open /\ pi = NoChild
    /\ phase \in {"writing", "reading"} => Telling /\ outcome = Open
    /\ phase \in {"polling", "terminating", "joining"} => outcome # Open
    /\ phase = "joining" => pi.state = "left"
    /\ phase = "ended" => pi.state \in {"none", "left"} /\ outcome \notin {Open, Settled}
    /\ OutcomeMeans

PiStep == PiNext \/ Forget \/ UNCHANGED piVars

LEMMA ToldType == \A s \in Story, rec \in Record : Told(s, rec) \in Story
<1> SUFFICES ASSUME NEW s \in Story, NEW rec \in Record PROVE Told(s, rec) \in Story
  OBVIOUS
<1>1. CASE s.settled
  BY <1>1 DEF Told
<1>2. CASE ~s.settled /\ rec = "accepted"
  BY <1>2 DEF Told, Story
<1>3. CASE ~s.settled /\ rec \in Word
  <2>1. Told(s, rec) = [s EXCEPT !.message = rec]
    BY <1>3 DEF Told, Word
  <2> QED BY <1>3, <2>1 DEF Story
<1>4. CASE ~s.settled /\ rec = "exhausted"
  <2>1. Told(s, rec) = [s EXCEPT !.exhausted = TRUE]
    BY <1>4 DEF Told, Word
  <2> QED BY <2>1 DEF Story
<1>5. CASE ~s.settled /\ rec = "settled"
  <2>1. Told(s, rec) = [s EXCEPT !.settled = TRUE]
    BY <1>5 DEF Told, Word
  <2> QED BY <2>1 DEF Story
<1>6. CASE ~s.settled /\ rec \notin Word \cup {"accepted", "exhausted", "settled"}
  BY <1>6 DEF Told
<1> QED BY <1>1, <1>2, <1>3, <1>4, <1>5, <1>6

LEMMA OutcomeFacts ==
    /\ \A k \in FailureKind, r \in BOOLEAN : Failed(k, r) \in Outcome \ {Open, Settled, Answer}
    /\ {Open, Settled, Answer} \subseteq Outcome
    /\ Open # Settled /\ Open # Answer /\ Settled # Answer
  BY DEF Failed, Outcome, Open, Settled, Answer, FailureKind

\* Only a story that ends well is taken for settled, and each failure for good
\* has its message.
LEMMA JudgedFacts ==
    ASSUME NEW h \in Story
    PROVE  /\ Judged(h) \in Outcome \ {Open, Answer}
           /\ Judged(h) = Settled =>
                  h.accepted /\ ~h.exhausted /\ h.message \in {"good", "garbled"}
           /\ Judged(h).kind = "CANCELLED" => h.message = "aborted"
           /\ Judged(h) = Failed("PROCESS", FALSE) => h.message = "length"
  BY DEF Judged, Story, Word, Failed, Outcome, Open, Settled, Answer, FailureKind

LEMMA NothingTold ==
    ASSUME heard = Nothing, said = Nothing, pipe = <<>>
    PROVE  Telling
<1>1. Nothing \in Story /\ ~Nothing.settled
  BY DEF Nothing, Story
<1> DEFINE t == [i \in 0..0 |-> Nothing]
<1>2. t \in [0..Len(pipe) -> Story] /\ t[0] = heard /\ t[Len(pipe)] = said
  BY <1>1
<1>3. \A i \in 1..Len(pipe) : t[i] = Told(t[i - 1], pipe[i])
  OBVIOUS
<1>4. \A i \in 0..Len(pipe) : t[i].settled => said = t[i]
  BY <1>2
<1> QED BY <1>2, <1>3, <1>4 DEF Telling

\* Pi goes on with the story.
LEMMA SayingTells ==
    ASSUME NEW rec \in Record, pipe \in Seq(Record), said \in Story, Telling,
           pipe' = Append(pipe, rec), said' = Told(said, rec), heard' = heard
    PROVE  Telling'
<1> DEFINE n == Len(pipe)
<1>1. PICK t \in [0..n -> Story] :
        /\ t[0] = heard /\ t[n] = said
        /\ \A i \in 1..n : t[i] = Told(t[i - 1], pipe[i])
        /\ \A i \in 0..n : t[i].settled => said = t[i]
  BY DEF Telling
<1>2. n \in Nat /\ Len(pipe') = n + 1 /\ pipe'[n + 1] = rec
  OBVIOUS
<1>3. \A i \in 1..n : pipe'[i] = pipe[i]
  OBVIOUS
<1> HIDE DEF n
<1> DEFINE u == [i \in 0..(n + 1) |-> IF i = n + 1 THEN said' ELSE t[i]]
<1>4. u \in [0..(n + 1) -> Story]
  <2>1. said' \in Story
    BY ToldType
  <2>2. \A i \in 0..(n + 1) : i # n + 1 => i \in 0..n
    BY <1>2
  <2> QED BY <2>1, <2>2
<1>5. u[0] = heard /\ u[n] = said /\ u[n + 1] = said'
  BY <1>1, <1>2
<1>6. ASSUME NEW i \in 1..(n + 1) PROVE u[i] = Told(u[i - 1], pipe'[i])
  <2>1. CASE i = n + 1
    BY <2>1, <1>2, <1>5
  <2>2. CASE i # n + 1
    <3>1. i \in 1..n /\ i - 1 \in 0..n
      BY <2>2, <1>2
    <3> QED BY <3>1, <1>1, <1>2, <1>3
  <2> QED BY <2>1, <2>2
<1>7. ASSUME NEW i \in 0..(n + 1), u[i].settled PROVE said' = u[i]
  <2>1. CASE i = n + 1
    BY <2>1, <1>5
  <2>2. CASE i # n + 1
    <3>1. i \in 0..n /\ u[i] = t[i]
      BY <2>2, <1>2
    <3>2. said = t[i] /\ said.settled
      BY <3>1, <1>1, <1>7
    <3> QED BY <3>1, <3>2 DEF Told
  <2> QED BY <2>1, <2>2
<1> HIDE DEF u
<1>8. u \in [0..Len(pipe') -> Story] /\ u[0] = heard' /\ u[Len(pipe')] = said'
  BY <1>2, <1>4, <1>5
<1>9. /\ \A i \in 1..Len(pipe') : u[i] = Told(u[i - 1], pipe'[i])
      /\ \A i \in 0..Len(pipe') : u[i].settled => said' = u[i]
  BY <1>2, <1>6, <1>7
<1> QED BY <1>8, <1>9 DEF Telling

\* The runner follows the story, and knows all of it when it has settled.
LEMMA ReadingTells ==
    ASSUME pipe \in Seq(Record), pipe # <<>>, Telling
    PROVE  /\ heard' = Told(heard, Head(pipe)) /\ pipe' = Tail(pipe) /\ said' = said => Telling'
           /\ Told(heard, Head(pipe)).settled => said = Told(heard, Head(pipe))
<1> DEFINE n == Len(pipe)
<1>1. PICK t \in [0..n -> Story] :
        /\ t[0] = heard /\ t[n] = said
        /\ \A i \in 1..n : t[i] = Told(t[i - 1], pipe[i])
        /\ \A i \in 0..n : t[i].settled => said = t[i]
  BY DEF Telling
<1>2. n \in Nat \ {0} /\ Head(pipe) = pipe[1] /\ Len(Tail(pipe)) = n - 1
  OBVIOUS
<1>3. \A i \in 1..(n - 1) : Tail(pipe)[i] = pipe[i + 1]
  OBVIOUS
<1> HIDE DEF n
<1>4. t[1] = Told(heard, Head(pipe))
  BY <1>1, <1>2
<1>5. Told(heard, Head(pipe)).settled => said = Told(heard, Head(pipe))
  BY <1>1, <1>2, <1>4
<1>6. ASSUME heard' = Told(heard, Head(pipe)), pipe' = Tail(pipe), said' = said PROVE Telling'
  <2> DEFINE u == [i \in 0..(n - 1) |-> t[i + 1]]
  <2>1. u \in [0..(n - 1) -> Story] /\ u[0] = heard' /\ u[n - 1] = said'
    <3>1. \A i \in 0..(n - 1) : i + 1 \in 0..n
      BY <1>2
    <3>2. 0 \in 0..(n - 1) /\ n - 1 \in 0..(n - 1) /\ (n - 1) + 1 = n
      BY <1>2
    <3> QED BY <3>1, <3>2, <1>1, <1>4, <1>6
  <2>2. ASSUME NEW i \in 1..(n - 1) PROVE u[i] = Told(u[i - 1], pipe'[i])
    <3>1. /\ i \in 0..(n - 1) /\ i - 1 \in 0..(n - 1) /\ i + 1 \in 1..n
          /\ (i - 1) + 1 = i /\ (i + 1) - 1 = i
      BY <1>2
    <3>2. pipe'[i] = pipe[i + 1]
      BY <1>3, <1>6
    <3>3. u[i] = t[i + 1] /\ u[i - 1] = t[i]
      BY <3>1
    <3> QED BY <3>1, <3>2, <3>3, <1>1
  <2>3. ASSUME NEW i \in 0..(n - 1), u[i].settled PROVE said' = u[i]
    <3>1. i + 1 \in 0..n
      BY <1>2
    <3> QED BY <3>1, <2>3, <1>1, <1>6
  <2> HIDE DEF u
  <2>4. Len(pipe') = n - 1
    BY <1>2, <1>6
  <2> QED BY <2>1, <2>2, <2>3, <2>4 DEF Telling
<1> QED BY <1>5, <1>6

\* Of the records only the settling one ends a run other than with an error of
\* the protocol or the login.
LEMMA VerdictFacts ==
    ASSUME NEW rec \in Record, heard \in Story
    PROVE  /\ Verdict(rec) \in Outcome \ {Answer}
           /\ rec # "settled" =>
                  /\ Verdict(rec) # Settled /\ Verdict(rec).kind # "CANCELLED"
                  /\ Verdict(rec) # Failed("PROCESS", FALSE)
<1>1. CASE rec = "settled"
  <2>1. Verdict(rec) = Judged(heard)
    BY <1>1 DEF Verdict, Rubbish
  <2> QED BY <1>1, <2>1, JudgedFacts
<1>2. CASE rec # "settled"
  <2>1. Verdict(rec) \in {Failed("PROTOCOL", FALSE), Failed("AUTHENTICATION", FALSE), Open}
    BY <1>2 DEF Verdict, Rubbish
  <2>2. CASE Verdict(rec) = Open
    BY <1>2, <2>2 DEF Failed, Outcome, Open, Settled, Answer
  <2>3. CASE Verdict(rec) = Failed("PROTOCOL", FALSE)
    BY <1>2, <2>3 DEF Failed, Outcome, Settled, Answer, FailureKind
  <2>4. CASE Verdict(rec) = Failed("AUTHENTICATION", FALSE)
    BY <1>2, <2>4 DEF Failed, Outcome, Settled, Answer, FailureKind
  <2> QED BY <2>1, <2>2, <2>3, <2>4
<1> QED BY <1>1, <1>2

LEMMA SettlingTold ==
    ASSUME NEW h \in Story
    PROVE  /\ Told(h, "settled").settled
           /\ Told(h, "settled").accepted = h.accepted
           /\ Told(h, "settled").exhausted = h.exhausted
           /\ Told(h, "settled").message = h.message
<1>1. CASE h.settled
  BY <1>1 DEF Told
<1>2. CASE ~h.settled
  <2>1. Told(h, "settled") = [h EXCEPT !.settled = TRUE]
    BY <1>2 DEF Told, Word
  <2> QED BY <2>1 DEF Story
<1> QED BY <1>1, <1>2

\* A record that is read goes on with the story, and one that ends the run ends
\* it with what Pi has said.
LEMMA ReadRecordPreserves == PiInv /\ ReadRecord => PiInv'
<1> SUFFICES ASSUME PiInv, ReadRecord PROVE PiInv'
  OBVIOUS
<1> DEFINE rec == Head(pipe)
<1>1. /\ PiTypes /\ Telling /\ outcome = Open
      /\ phase = "reading" /\ pipe # <<>>
      /\ heard' = Told(heard, rec)
      /\ UNCHANGED <<pi, said>>
  BY DEF PiInv, ReadRecord
<1>2. rec \in Record /\ Tail(pipe) \in Seq(Record) /\ <<>> \in Seq(Record)
  BY <1>1 DEF PiTypes
<1> HIDE DEF rec
<1>3. heard' \in Story
  BY <1>1, <1>2, ToldType DEF PiTypes
<1>4. CASE Verdict(rec) = Open
  <2>1. pipe' = Tail(pipe) /\ UNCHANGED <<phase, outcome>>
    BY <1>4 DEF ReadRecord, rec
  <2>2. Telling'
    BY <1>1, <2>1, ReadingTells DEF PiTypes, rec
  <2>3. PiTypes'
    BY <1>1, <1>2, <1>3, <2>1 DEF PiTypes
  <2>4. OutcomeMeans'
    BY <1>1, <2>1 DEF OutcomeMeans, Open, Settled, Answer, Failed
  <2> QED BY <1>1, <2>1, <2>2, <2>3, <2>4 DEF PiInv
<1>5. CASE Verdict(rec) # Open
  <2>1. outcome' = Verdict(rec) /\ phase' = "polling" /\ pipe' = <<>>
    BY <1>5 DEF ReadRecord, TurnAway, rec
  <2>2. PiTypes'
    BY <1>1, <1>2, <1>3, <2>1, VerdictFacts DEF PiTypes
  <2>3. OutcomeMeans'
    <3>1. CASE rec # "settled"
      BY <1>1, <1>2, <2>1, <3>1, VerdictFacts DEF OutcomeMeans, PiTypes
    <3>2. CASE rec = "settled"
      <4>1. said' = heard' /\ heard'.settled
        BY <1>1, <3>2, SettlingTold, ReadingTells DEF PiTypes, rec
      <4>2. /\ heard'.accepted = heard.accepted /\ heard'.exhausted = heard.exhausted
            /\ heard'.message = heard.message
        BY <1>1, <3>2, SettlingTold DEF PiTypes
      <4>3. outcome' = Judged(heard) /\ heard \in Story
        BY <1>1, <2>1, <3>2 DEF Verdict, Rubbish, PiTypes
      <4> QED BY <4>1, <4>2, <4>3, JudgedFacts DEF OutcomeMeans
    <3> QED BY <3>1, <3>2
  <2> QED BY <1>1, <1>5, <2>1, <2>2, <2>3 DEF PiInv
<1> QED BY <1>4, <1>5

\* A failure that says nothing of what Pi has said.
LEMMA PlainFailure ==
    ASSUME NEW k \in FailureKind \ {"CANCELLED"}, NEW r \in BOOLEAN,
           k = "PROCESS" => r, outcome' = Failed(k, r)
    PROVE  OutcomeMeans' /\ outcome' \in Outcome \ {Open, Settled, Answer}
<1>1. outcome' \in Outcome \ {Open, Settled, Answer}
  BY OutcomeFacts
<1>2. outcome'.kind # "CANCELLED" /\ outcome' # Failed("PROCESS", FALSE)
  BY DEF Failed
<1> QED BY <1>1, <1>2 DEF OutcomeMeans

LEMMA PiPreserved == PiInv /\ PiStep => PiInv'
<1> SUFFICES ASSUME PiInv, PiStep PROVE PiInv'
  OBVIOUS
<1>t. PiTypes
  BY DEF PiInv
<1>1. ASSUME NEW q \in Workload, StartPi(q) PROVE PiInv'
  <2>1. /\ heard = Nothing /\ said = Nothing /\ pipe = <<>> /\ outcome = Open
        /\ UNCHANGED <<heard, said, pipe, outcome>>
        /\ phase' = "writing" /\ pi' \in Child /\ pi'.code = FALSE
    BY <1>1 DEF StartPi, PiInv, Child
  <2>2. Telling'
    BY <2>1, NothingTold DEF Telling
  <2>3. OutcomeMeans'
    BY <2>1 DEF OutcomeMeans, Open, Settled, Answer, Failed
  <2> QED BY <1>t, <2>1, <2>2, <2>3 DEF PiInv, PiTypes
<1>2. ASSUME NEW q \in Workload, StartFails(q) PROVE PiInv'
  <2>1. /\ pi.state = "none" /\ ~pi.code /\ phase' = "ended"
        /\ UNCHANGED <<heard, said, pi, pipe>>
        /\ outcome' \in {Failed("CONFIGURATION", FALSE), Failed("PROCESS", TRUE),
                         Failed("NO_KIND", FALSE)}
    <3>1. phase = "idle" /\ pi = NoChild
      BY <1>2 DEF StartFails, PiInv
    <3>2. pi.state = "none" /\ ~pi.code
      BY <3>1 DEF NoChild
    <3> QED BY <3>2, <1>2 DEF StartFails
  <2>2. OutcomeMeans' /\ outcome' \in Outcome \ {Open, Settled, Answer}
    <3>1. {"CONFIGURATION", "PROCESS", "NO_KIND"} \subseteq FailureKind \ {"CANCELLED"}
      BY DEF FailureKind
    <3> QED BY <2>1, <3>1, PlainFailure
  <2> QED BY <1>t, <2>1, <2>2 DEF PiInv, PiTypes
<1>3. ASSUME NEW rec \in Says, PiSays(rec) PROVE PiInv'
  <2>1. /\ rec \in Record /\ Telling /\ outcome = Open
        /\ phase \in {"writing", "reading"} /\ pi.state = "running"
        /\ pipe' = Append(pipe, rec) /\ said' = Told(said, rec)
        /\ UNCHANGED <<phase, outcome, heard, pi>>
    BY <1>3, SaysAssumption DEF PiSays, PiInv
  <2>2. Telling'
    BY <1>t, <2>1, SayingTells DEF PiTypes
  <2>3. said' \in Story /\ pipe' \in Seq(Record)
    BY <1>t, <2>1, ToldType DEF PiTypes
  <2>4. OutcomeMeans'
    BY <2>1 DEF OutcomeMeans, Open, Settled, Answer, Failed
  <2> QED BY <1>t, <2>1, <2>2, <2>3, <2>4 DEF PiInv, PiTypes
<1>4. CASE PiExits
  <2>1. PICK c \in BOOLEAN : pi' = [pi EXCEPT !.state = "leaving", !.code = c]
    BY <1>4 DEF PiExits
  <2>2. /\ pi.state = "running" /\ ~pi.code /\ pi' \in Child
        /\ pi'.state = "leaving"
        /\ UNCHANGED <<phase, outcome, heard, said, pipe>>
    BY <1>4, <1>t, <2>1 DEF PiExits, PiInv, PiTypes, Child
  <2>3. phase \notin {"idle", "joining", "ended"}
    BY <2>2 DEF PiInv, NoChild
  <2>4. Telling => Telling'
    BY <2>2 DEF Telling
  <2>5. OutcomeMeans'
    BY <2>2 DEF PiInv, OutcomeMeans
  <2> QED BY <1>t, <2>2, <2>3, <2>4, <2>5 DEF PiInv, PiTypes
<1>5. CASE PiHasLeft
  <2>1. /\ pi.state = "leaving" /\ pi' \in Child
        /\ pi'.state = "left" /\ pi'.code = pi.code
        /\ UNCHANGED <<phase, outcome, heard, said, pipe>>
    BY <1>5, <1>t DEF PiHasLeft, PiTypes, Child
  <2>2. phase # "idle" /\ (Telling => Telling') /\ OutcomeMeans'
    <3>1. phase # "idle"
      BY <2>1 DEF PiInv, NoChild
    <3>2. Telling => Telling'
      BY <2>1 DEF Telling
    <3> QED BY <2>1, <3>1, <3>2 DEF PiInv, OutcomeMeans
  <2> QED BY <1>t, <2>1, <2>2 DEF PiInv, PiTypes
<1>6. CASE ToolStarts \/ ToolEnds \/ DeadlinePasses
  <2>1. UNCHANGED <<phase, outcome, heard, said, pi, pipe>>
    BY <1>6 DEF ToolStarts, ToolEnds, DeadlinePasses
  <2>2. (Telling => Telling') /\ (OutcomeMeans => OutcomeMeans')
    BY <2>1 DEF Telling, OutcomeMeans
  <2>3. UNCHANGED <<phase, outcome, heard, said, pi, pipe>> /\ PiTypes'
    BY <1>t, <2>1 DEF PiTypes
  <2> QED BY <2>2, <2>3 DEF PiInv
<1>7. CASE WritePrompt
  BY <1>7 DEF WritePrompt, PiInv, PiTypes, Telling, OutcomeMeans
<1>8. CASE WriteRaises \/ ReadEnd \/ TimesOut
  <2>1. /\ phase \in {"writing", "reading"} /\ phase' = "polling"
        /\ pipe' = <<>> /\ UNCHANGED <<heard, said, pi>>
    BY <1>8 DEF WriteRaises, ReadEnd, TimesOut, TurnAway
  <2>2. OutcomeMeans' /\ outcome' \in Outcome \ {Open}
    <3>1. CASE outcome' = Failed("PROCESS", TRUE) \/ outcome' = Failed("TIMEOUT", TRUE)
      <4>1. {"PROCESS", "TIMEOUT"} \subseteq FailureKind \ {"CANCELLED"}
        BY DEF FailureKind
      <4> QED BY <3>1, <4>1, PlainFailure
    <3>2. CASE outcome' = Failed("PROCESS", FALSE) /\ pi.code
      BY <2>1, <3>2 DEF OutcomeMeans, Failed, Outcome, FailureKind, Open, Settled, Answer
    <3>3. pi.code \in BOOLEAN
      BY <1>t DEF PiTypes, Child
    <3> QED BY <1>8, <3>1, <3>2, <3>3 DEF WriteRaises, ReadEnd, TimesOut, TurnAway
  <2>3. pipe' \in Seq(Record)
    BY <2>1
  <2> QED BY <1>t, <2>1, <2>2, <2>3 DEF PiInv, PiTypes
<1>9. CASE Poll \/ Terminated
  BY <1>9 DEF Poll, Terminated, PiInv, PiTypes, OutcomeMeans
<1>10. CASE Kill
  <2>1. /\ phase = "terminating" /\ phase' = "joining"
        /\ pi' \in Child /\ pi'.state = "left" /\ pi'.code = pi.code
        /\ UNCHANGED <<outcome, heard, said, pipe>>
    BY <1>10, <1>t DEF Kill, PiTypes, Child
  <2>2. OutcomeMeans'
    BY <2>1 DEF PiInv, OutcomeMeans
  <2> QED BY <1>t, <2>1, <2>2 DEF PiInv, PiTypes
<1>11. CASE Finish
  <2>1. /\ phase' = "ended" /\ pi.state = "left"
        /\ UNCHANGED <<heard, said, pi, pipe>>
    BY <1>11 DEF Finish, PiInv
  <2>2. OutcomeMeans' /\ outcome' \in Outcome \ {Open, Settled}
    <3>1. CASE outcome # Settled
      <4>1. UNCHANGED <<outcome, said, heard, pi>> /\ phase = "joining"
        BY <1>11, <3>1, <2>1 DEF Finish
      <4>2. OutcomeMeans'
        BY <4>1 DEF PiInv, OutcomeMeans
      <4> QED BY <1>t, <3>1, <4>1, <4>2 DEF PiInv, PiTypes
    <3>2. CASE outcome = Settled /\ heard.message = "good"
      <4>1. outcome' = Answer /\ outcome'.kind # "CANCELLED"
            /\ outcome' # Failed("PROCESS", FALSE)
        BY <1>11, <3>2 DEF Finish, Answer, Failed
      <4> QED BY <2>1, <3>2, <4>1, OutcomeFacts DEF PiInv, OutcomeMeans
    <3>3. CASE outcome = Settled /\ heard.message # "good"
      <4>1. outcome' = Failed("PROTOCOL", FALSE)
        BY <1>11, <3>3 DEF Finish
      <4> QED BY <4>1, PlainFailure DEF FailureKind
    <3> QED BY <3>1, <3>2, <3>3
  <2> QED BY <1>t, <2>1, <2>2 DEF PiInv, PiTypes
<1>12. CASE TranscriptFails
  <2>1. /\ phase' = "ended" /\ pi.state = "left" /\ outcome' = Failed("NO_KIND", FALSE)
        /\ UNCHANGED <<heard, said, pi, pipe>>
    BY <1>12 DEF TranscriptFails, PiInv
  <2>2. OutcomeMeans' /\ outcome' \in Outcome \ {Open, Settled, Answer}
    BY <2>1, PlainFailure DEF FailureKind
  <2> QED BY <1>t, <2>1, <2>2 DEF PiInv, PiTypes
<1>13. CASE Forget
  <2>1. OutcomeMeans'
    BY <1>13 DEF Forget, OutcomeMeans, Open, Settled, Answer, Failed
  <2>2. PiTypes'
    BY <1>13 DEF Forget, PiTypes, Open, Outcome, Nothing, Story, NoChild, Child, Word
  <2> QED BY <1>13, <2>1, <2>2 DEF Forget, PiInv, NoChild
<1>14. CASE UNCHANGED piVars
  BY <1>14 DEF piVars, PiInv, PiTypes, Telling, OutcomeMeans
<1> QED
  BY <1>1, <1>2, <1>3, <1>4, <1>5, <1>6, <1>7, <1>8, <1>9, <1>10, <1>11, <1>12, <1>13, <1>14,
     ReadRecordPreserves DEF PiStep, PiNext, PiActs, RunnerActs

LEMMA WorkerPiStep == [WorkerNext]_processVars => PiStep
<1> SUFFICES ASSUME [WorkerNext]_processVars PROVE PiStep
  OBVIOUS
<1>1. CASE \E p \in Processes : Begins(p) \/ StartsUp(p)
  BY <1>1 DEF Begins, StartsUp, PiStep
<1>2. CASE StopsAtHead \/ OrphanEnds \/ WithoutPi \/ OutboxTurn \/ PlanIsExamined \/ EndsByException
  BY <1>2 DEF StopsAtHead, OrphanEnds, WithoutPi, OutboxTurn, PlanIsExamined,
             EndsByException, PiStep
<1>3. CASE Killed \/ ExaminePlan \/ JobSucceeds \/ JobFails
  BY <1>3 DEF Killed, ExaminePlan, JobSucceeds, JobFails, ForgetRun, PiStep
<1>4. CASE TakeJob \/ PiRuns \/ PiLives
  BY <1>4 DEF TakeJob, PiRuns, PiLives, PiStep, PiNext
<1>5. CASE UNCHANGED processVars
  BY <1>5 DEF processVars, PiStep
<1> QED BY <1>1, <1>2, <1>3, <1>4, <1>5 DEF WorkerNext, WorkerActs

LEMMA PiBegins == PiInit => PiInv
<1> SUFFICES ASSUME PiInit PROVE PiInv
  OBVIOUS
<1>1. OutcomeMeans
  BY DEF PiInit, OutcomeMeans, Open, Settled, Answer, Failed
<1>2. PiTypes
  BY DEF PiInit, PiTypes, Open, Outcome, Nothing, Story, NoChild, Child, Word
<1> QED BY <1>1, <1>2 DEF PiInit, PiInv, NoChild

LEMMA PiInvariant == WorkerSpec => []PiInv
<1>1. WorkerInit => PiInv
  BY PiBegins DEF WorkerInit
<1>2. PiInv /\ [WorkerNext]_processVars => PiInv'
  BY WorkerPiStep, PiPreserved
<1> QED BY <1>1, <1>2, PTL DEF WorkerSpec

\* PiAgentRunner.run: an answer is the last message that Pi has completed, of a
\* run that went well, and a failure is final only when Pi has made it so,
\* whatever Pi writes and however far behind it is read.
THEOREM OutcomeTheorem == WorkerSpec => []OutcomeIsTrue
<1>1. PiInv => OutcomeIsTrue
  <2> SUFFICES ASSUME PiInv PROVE OutcomeIsTrue
    OBVIOUS
  <2>1. ASSUME outcome = Answer
        PROVE  said = [accepted |-> TRUE, message |-> "good", exhausted |-> FALSE, settled |-> TRUE]
    <3>1. said \in Story /\ said.settled /\ said.accepted /\ ~said.exhausted
          /\ said.message = "good"
      BY <2>1 DEF PiInv, PiTypes, OutcomeMeans
    <3> QED BY <3>1 DEF Story
  <2>2. FinalFailureHappened
    BY DEF PiInv, OutcomeMeans, FinalFailureHappened
  <2> QED BY <2>1, <2>2 DEF OutcomeIsTrue, AnswerIsLastWord
<1> QED BY <1>1, PiInvariant, PTL

-------------------------------------------------------------------------------
(* The Pi processes that outlive their run.                                *)

AgentInv ==
    /\ PiInv
    /\ orphans \in Nat /\ troubles \in Nat
    /\ loop # "job" => phase = "idle"
    /\ OneAgent

\* A run that is forgotten leaves a Pi behind only if it was at work.
LEMMA ForgottenRun ==
    ASSUME AgentInv, ForgetRun
    PROVE  /\ phase' = "idle"
           /\ orphans' \in Nat /\ orphans' <= orphans + 1
           /\ pi.state # "running" => orphans' = orphans
  BY DEF AgentInv, ForgetRun, Forget

LEMMA RunEnds == AgentInv /\ (loop # "job" \/ phase = "ended") => pi.state # "running"
  BY DEF AgentInv, PiInv, NoChild

LEMMA AgentPreserved == AgentInv /\ [WorkerNext]_processVars => AgentInv'
<1> SUFFICES ASSUME AgentInv, [WorkerNext]_processVars PROVE AgentInv'
  OBVIOUS
<1>p. PiInv'
  BY WorkerPiStep, PiPreserved DEF AgentInv
<1>1. ASSUME NEW p \in Processes, Begins(p) \/ StartsUp(p) PROVE AgentInv'
  <2>1. UNCHANGED <<phase, loop, orphans>>
    BY <1>1 DEF Begins, StartsUp, piVars, workerVars
  <2>2. troubles' = troubles \/ troubles' = troubles + 1
    BY <1>1 DEF Begins, StartsUp, Launch, EnableWal, Apply, Migrate, ScriptRaises,
               RecordVersion, ValidationRaises, LockTimesOut, KilledAtStart
  <2> QED BY <1>p, <2>1, <2>2 DEF AgentInv, OneAgent
<1>2. CASE StopsAtHead \/ OrphanEnds
  BY <1>p, <1>2 DEF StopsAtHead, OrphanEnds, AgentInv, OneAgent, piVars, workerVars, startupVars
<1>3. CASE WithoutPi \/ OutboxTurn \/ PlanIsExamined \/ EndsByException
  <2>1. UNCHANGED <<phase, orphans, troubles>> /\ (loop' # "job" => loop # "job")
    BY <1>3 DEF WithoutPi, OutboxTurn, PlanIsExamined, EndsByException, piVars, workerVars,
               startupVars
  <2> QED BY <1>p, <1>3, <2>1 DEF AgentInv, OneAgent, WithoutPi, OutboxTurn, EndsByException
<1>4. CASE TakeJob \/ PiRuns
  BY <1>p, <1>4 DEF TakeJob, PiRuns, AgentInv, OneAgent, startupVars, workerVars
<1>5. CASE PiLives
  <2>1. UNCHANGED <<phase, loop, orphans, troubles>>
    BY <1>5 DEF PiLives, PiActs, PiSays, PiExits, ToolStarts, ToolEnds, PiHasLeft,
               DeadlinePasses, startupVars, workerVars
  <2> QED BY <1>p, <2>1 DEF AgentInv, OneAgent
<1>6. CASE ExaminePlan \/ JobSucceeds \/ JobFails
  <2>1. pi.state # "running"
    BY <1>6, RunEnds DEF ExaminePlan, JobSucceeds, JobFails
  <2>2. ForgetRun /\ UNCHANGED troubles
    BY <1>6 DEF ExaminePlan, JobSucceeds, JobFails, startupVars
  <2> QED BY <1>p, <2>1, <2>2, ForgottenRun DEF AgentInv, OneAgent
<1>7. CASE Killed
  <2>1. troubles' = troubles + 1 /\ ForgetRun
    BY <1>7 DEF Killed
  <2> QED BY <1>p, <2>1, ForgottenRun DEF AgentInv, OneAgent
<1>8. CASE UNCHANGED processVars
  BY <1>p, <1>8 DEF processVars, piVars, workerVars, startupVars, AgentInv, OneAgent
<1> QED BY <1>1, <1>2, <1>3, <1>4, <1>5, <1>6, <1>7, <1>8 DEF WorkerNext, WorkerActs

\* PiAgentRunner._terminate: a run never ends with its Pi still at work; what
\* outlives a run belongs to a worker that was killed.
THEOREM AgentTheorem == WorkerSpec => []OneAgent
<1>1. WorkerInit => AgentInv
  BY PiBegins DEF WorkerInit, StartupInit, PiInit, AgentInv, OneAgent
<1>2. AgentInv /\ [WorkerNext]_processVars => AgentInv'
  BY AgentPreserved
<1>3. AgentInv => OneAgent
  BY DEF AgentInv
<1> QED BY <1>1, <1>2, <1>3, PTL DEF WorkerSpec
===============================================================================
