----------------------------- MODULE WorkerProcess -----------------------------
(***************************************************************************)
(* The worker process: it starts on the database beside the web process,   *)
(* then takes a job and a turn of the outbox in each round of its loop. A  *)
(* job sends one request to Pi and, for a plan, examines the tasks that    *)
(* come with the answer. A job that fails raises through the loop and ends *)
(* the process. What jobs, messages and their rows are is left to          *)
(* ArtifactReview, Execution and Outbox.                                   *)
(***************************************************************************)
EXTENDS Startup, PiRunner, ExecutionPlan

CONSTANT Worker  \* the process that runs worker.main

ASSUME WorkerAssumption == Worker \in Processes

VARIABLES
    loop,    \* where the worker is in a round of its loop
    orphans  \* Pi processes that outlived the run they were started for

workerVars == <<loop, orphans>>
processVars == <<startupVars, piVars, planVars, workerVars>>

WorkerTypeOK ==
    /\ StartupTypeOK /\ PiTypeOK /\ PlanTypeOK
    /\ loop \in {"head", "job", "examining", "raising", "outbox"}
    /\ orphans \in Nat

WorkerInit ==
    /\ StartupInit /\ PiInit /\ PlanInit
    /\ loop = "head"
    /\ orphans = 0

-------------------------------------------------------------------------------
Ready == at[Worker] = "ready"

\* The run is over for the worker, whatever has become of its Pi.
ForgetRun ==
    /\ Forget
    /\ orphans' = IF pi.state = "running" THEN orphans + 1 ELSE orphans

ForgetPlan == plan' = <<>> /\ remaining' = {} /\ verdict' = "none"

Begins(p) ==
    /\ Launch(p)
    /\ UNCHANGED <<piVars, planVars, workerVars>>

StartsUp(p) ==
    /\ EnableWal(p) \/ Apply(p) \/ LockTimesOut(p) \/ KilledAtStart(p)
    /\ UNCHANGED <<piVars, planVars, workerVars>>

\* SIGTERM or SIGINT came at some time before, which is noticed here only.
StopsAtHead ==
    /\ Ready /\ loop = "head"
    /\ at' = [at EXCEPT ![Worker] = "stopped"]
    /\ UNCHANGED <<file, draft, lock, wal, next, troubles, damaged, piVars, planVars, workerVars>>

\* A job is claimed and its request goes to Pi.
TakeJob ==
    /\ Ready /\ loop = "head"
    /\ \E q \in Workload : StartPi(q) \/ StartFails(q)
    /\ loop' = "job"
    /\ UNCHANGED <<startupVars, planVars, orphans>>

\* There is no job, or Pi has no part in it; such a job may fail as well.
WithoutPi ==
    /\ Ready /\ loop = "head"
    /\ loop' \in {"outbox", "raising"}
    /\ UNCHANGED <<startupVars, piVars, planVars, orphans>>

PiRuns ==
    /\ loop = "job"
    /\ RunnerActs
    /\ UNCHANGED <<startupVars, planVars, workerVars>>

PiLives ==
    /\ PiActs \/ PiHasLeft \/ DeadlinePasses
    /\ UNCHANGED <<startupVars, planVars, workerVars>>

\* The plan that comes with the document of a plan is examined before anything
\* is stored.
ExaminePlan ==
    /\ loop = "job" /\ phase = "ended" /\ outcome = Answer /\ request = "artifact"
    /\ \E p \in Plans : Propose(p)
    /\ ForgetRun
    /\ loop' = "examining"
    /\ UNCHANGED startupVars

PlanIsExamined ==
    /\ loop = "examining"
    /\ Examine
    /\ UNCHANGED <<startupVars, piVars, workerVars>>

JobSucceeds ==
    /\ \/ loop = "job" /\ phase = "ended" /\ outcome = Answer
       \/ loop = "examining" /\ verdict = "accepted"
    /\ ForgetRun /\ ForgetPlan
    /\ loop' = "outbox"
    /\ UNCHANGED startupVars

\* The run has failed, the answer is refused, or the result cannot be applied;
\* the failure is recorded and the exception raised again.
JobFails ==
    /\ \/ loop = "job" /\ phase = "ended"
       \/ loop = "examining" /\ verdict \in {"accepted", "refused"}
    /\ ForgetRun /\ ForgetPlan
    /\ loop' = "raising"
    /\ UNCHANGED startupVars

EndsByException ==
    /\ loop = "raising"
    /\ Dies(Worker)
    /\ loop' = "head"
    /\ UNCHANGED <<troubles, piVars, planVars, orphans>>

\* A message is delivered or put back, or there is none; this never raises.
OutboxTurn ==
    /\ loop = "outbox"
    /\ loop' = "head"
    /\ UNCHANGED <<startupVars, piVars, planVars, orphans>>

\* The worker is killed after it has started, and Pi with nobody to stop it.
Killed ==
    /\ Ready
    /\ troubles < MaxTroubles
    /\ troubles' = troubles + 1
    /\ Dies(Worker)
    /\ ForgetRun /\ ForgetPlan
    /\ loop' = "head"

\* Its input and output are closed, and it may end or work on for long.
OrphanEnds ==
    /\ orphans > 0
    /\ orphans' = orphans - 1
    /\ UNCHANGED <<startupVars, piVars, planVars, loop>>

WorkerActs ==
    \/ TakeJob \/ WithoutPi \/ PiRuns
    \/ ExaminePlan \/ PlanIsExamined \/ JobSucceeds \/ JobFails \/ EndsByException
    \/ OutboxTurn

WorkerNext ==
    \/ \E p \in Processes : Begins(p) \/ StartsUp(p)
    \/ StopsAtHead \/ Killed \/ OrphanEnds
    \/ PiLives
    \/ WorkerActs

WorkerSpec == WorkerInit /\ [][WorkerNext]_processVars

\* Somebody starts a process again that has ended, a process that polls for a
\* lock that is free most of the time gets it, time passes, and the worker goes
\* on. Nothing is assumed of Pi, nor of kills.
WorkerFairness ==
    /\ \A p \in Processes :
           /\ WF_processVars(Begins(p))
           /\ WF_processVars(StartsUp(p) /\ at'[p] # "down")
           /\ SF_processVars(Migrate(p) /\ UNCHANGED <<piVars, planVars, workerVars>>)
    /\ WF_processVars(PiLives /\ (DeadlinePasses \/ PiHasLeft))
    /\ WF_processVars(WorkerActs)

FairWorkerSpec == WorkerSpec /\ WorkerFairness

-------------------------------------------------------------------------------
\* Pi is at work for one run at a time: of those that outlived their run each
\* belongs to a worker that was killed, whatever way its run went.
OneAgent == orphans <= troubles

\* A worker that is not stopped comes to its outbox again and again, unless its
\* jobs fail for ever: whatever Pi does, its run ends, and so does the examination
\* of its plan.
WorkerGoesOn ==
    <>[](loop # "raising") =>
        []<>(loop = "outbox" \/ at[Worker] = "stopped" \/ damaged \/ Blocked)
===============================================================================
