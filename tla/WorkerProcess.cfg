\* The worker and the web process, what Pi may do in a run, and three tasks.
SPECIFICATION FairWorkerSpec
CONSTANTS
    worker = worker
    web = web
    a = a
    b = b
    c = c
    Processes = {worker, web}
    NoProcess = NoProcess
    Worker = worker
    Last = 2
    Additive = {2}
    Fragile = {1}
    Shaped = {1, 2}
    Databases <- MCDatabases
    MaxTroubles = 1
    Says = {"accepted", "good", "aborted", "length", "exhausted", "settled"}
    MaxRecords = 4
    MaxUnread = 1
    TaskKeys = {a, b, c}
    MaxTasks = 3
    Plans <- MCPlans
INVARIANTS SchemaIsTrue VerdictIsRight OutcomeIsTrue OneAgent
PROPERTIES EachStarts WorkerGoesOn
\* A worker that was asked to stop, and has, is not started again.
CHECK_DEADLOCK FALSE
