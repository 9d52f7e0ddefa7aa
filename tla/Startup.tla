-------------------------------- MODULE Startup --------------------------------
(***************************************************************************)
(* Processes that start on one database, concurrently and after crashes:   *)
(* each switches it to WAL and brings its schema up to date, one migration *)
(* and one transaction after the other. What a process does once it is     *)
(* ready is not said here.                                                 *)
(***************************************************************************)
EXTENDS Naturals, FiniteSets

CONSTANTS
    Processes,    \* the worker process and the web process
    NoProcess,    \* nobody holds the write lock
    Last,         \* the newest version of MIGRATIONS
    Additive,     \* versions that add the columns that are missing, recorded or not
    Fragile,      \* versions whose script fails where it has run before
    Shaped,       \* versions whose tables and columns are looked for
    Databases,    \* what a process may find: schema, ledger and soundness
    MaxTroubles   \* bound: processes that die or wait too long for a lock

Version == 1..Last

\* A database: what the scripts of the versions have made of its schema, the
\* versions recorded in schema_migrations, and a row that violates a foreign key.
DatabaseFile == [schema: SUBSET Version, ledger: SUBSET Version, dangling: BOOLEAN]

ASSUME LastAssumption == Last \in Nat \ {0}
ASSUME VersionsAssumption ==
    /\ 1 \in Shaped
    /\ Additive \subseteq Shaped /\ Shaped \subseteq Version /\ Fragile \subseteq Version
    /\ 1 \notin Additive /\ Fragile \cap Additive = {}
\* Versions are recorded in order. An earlier release may have left a recorded
\* version whose tables or columns are missing, or tables without their record.
Findable(d) ==
    /\ \A v \in d.ledger : 1..v \subseteq d.ledger
    /\ d.ledger \ d.schema \subseteq Shaped
    /\ d.schema \ d.ledger \subseteq Fragile

ASSUME DatabasesAssumption == Databases \subseteq {d \in DatabaseFile : Findable(d)}
ASSUME TroublesAssumption == MaxTroubles \in Nat
ASSUME NoProcessAssumption == NoProcess \notin Processes

VARIABLES
    file,     \* what is committed
    draft,    \* what the transaction in progress has made of it
    lock,     \* who holds the write lock
    wal,      \* journal_mode is WAL
    at,       \* how far each process is
    next,     \* the migration each process is to apply
    troubles,
    damaged   \* history: the database that was found was damaged

startupVars == <<file, draft, lock, wal, at, next, troubles, damaged>>

Place == {"down", "opening", "waiting", "recording", "ready", "stopped"}

StartupTypeOK ==
    /\ {file, draft} \subseteq DatabaseFile
    /\ lock \in Processes \cup {NoProcess}
    /\ wal \in BOOLEAN
    /\ at \in [Processes -> Place]
    /\ next \in [Processes -> Version]
    /\ troubles \in 0..MaxTroubles
    /\ damaged \in BOOLEAN

\* A row violates a foreign key, a version that was recorded has left no tables,
\* or one that was not recorded has: nothing here repairs that.
IsDamaged(d) ==
    \/ d.dangling
    \/ \E v \in (d.ledger \cap Shaped) \ Additive : v \notin d.schema
    \/ d.schema \ d.ledger # {}

StartupInit ==
    /\ file \in Databases
    /\ draft = file
    /\ damaged = IsDamaged(file)
    /\ lock = NoProcess
    /\ wal \in {w \in BOOLEAN : file.ledger # {} => w}
    /\ at = [p \in Processes |-> "down"]
    /\ next = [p \in Processes |-> 1]
    /\ troubles = 0

-------------------------------------------------------------------------------
\* The process ends by an exception, its transaction rolled back.
Dies(p) ==
    /\ at' = [at EXCEPT ![p] = "down"]
    /\ lock' = IF lock = p THEN NoProcess ELSE lock
    /\ UNCHANGED <<file, draft, wal, next, damaged>>

Launch(p) ==
    /\ at[p] = "down"
    /\ at' = [at EXCEPT ![p] = "opening"]
    /\ next' = [next EXCEPT ![p] = 1]
    /\ UNCHANGED <<file, draft, lock, wal, troubles, damaged>>

\* Changing the journal mode takes the lock, and is retried while it is held.
\* schema_migrations is created if it is missing.
EnableWal(p) ==
    /\ at[p] = "opening"
    /\ wal \/ lock = NoProcess
    /\ wal' = TRUE
    /\ at' = [at EXCEPT ![p] = "waiting"]
    /\ UNCHANGED <<file, draft, lock, next, troubles, damaged>>

\* Another process holds the lock for longer than the busy timeout.
LockTimesOut(p) ==
    /\ at[p] \in {"opening", "waiting"}
    /\ lock \notin {NoProcess, p}
    /\ at[p] = "opening" => ~wal
    /\ troubles < MaxTroubles
    /\ troubles' = troubles + 1
    /\ Dies(p)

\* The script of version v has statements that fail on this schema.
ScriptFails(v) ==
    \/ v \in Additive /\ 1 \notin file.schema
    \/ v \notin Additive /\ v \notin file.ledger /\ v \in Fragile \cap file.schema

\* The schema after version v: an additive one adds what is missing whether it
\* is recorded or not, another one runs its script once.
Made(v) ==
    IF v \in Additive \/ v \notin file.ledger THEN file.schema \cup {v} ELSE file.schema

\* Mutant: a deferred transaction, which takes no lock.
MigrateDeferred(p) ==
    /\ at[p] = "waiting"
    /\ ~ScriptFails(next[p])
    /\ draft' = [file EXCEPT !.schema = Made(next[p])]
    /\ at' = [at EXCEPT ![p] = "recording"]
    /\ UNCHANGED <<file, lock, wal, next, troubles, damaged>>

\* Mutant: executescript commits before it starts.
MigrateCommitted(p) ==
    /\ at[p] = "waiting"
    /\ lock = NoProcess
    /\ ~ScriptFails(next[p])
    /\ lock' = p
    /\ draft' = [file EXCEPT !.schema = Made(next[p])]
    /\ file' = draft'
    /\ at' = [at EXCEPT ![p] = "recording"]
    /\ UNCHANGED <<wal, next, troubles, damaged>>

\* BEGIN IMMEDIATE, and what the version makes of the schema.
Migrate(p) ==
    /\ at[p] = "waiting"
    /\ lock = NoProcess
    /\ ~ScriptFails(next[p])
    /\ lock' = p
    /\ draft' = [file EXCEPT !.schema = Made(next[p])]
    /\ at' = [at EXCEPT ![p] = "recording"]
    /\ UNCHANGED <<file, wal, next, troubles, damaged>>

ScriptRaises(p) ==
    /\ at[p] = "waiting"
    /\ lock = NoProcess
    /\ ScriptFails(next[p])
    /\ Dies(p)
    /\ UNCHANGED troubles

\* The tables and columns are there, and no foreign key is violated.
Valid(v) ==
    /\ v \in Shaped => v \in draft.schema
    /\ ~draft.dangling

RecordVersion(p) ==
    /\ at[p] = "recording"
    /\ Valid(next[p])
    /\ file' = [draft EXCEPT !.ledger = @ \cup {next[p]}]
    /\ draft' = file'
    /\ lock' = NoProcess
    /\ IF next[p] = Last
       THEN at' = [at EXCEPT ![p] = "ready"] /\ UNCHANGED next
       ELSE at' = [at EXCEPT ![p] = "waiting"] /\ next' = [next EXCEPT ![p] = @ + 1]
    /\ UNCHANGED <<wal, troubles, damaged>>

ValidationRaises(p) ==
    /\ at[p] = "recording"
    /\ ~Valid(next[p])
    /\ Dies(p)
    /\ UNCHANGED troubles

\* The process is killed while it starts.
KilledAtStart(p) ==
    /\ at[p] \in {"opening", "waiting", "recording"}
    /\ troubles < MaxTroubles
    /\ troubles' = troubles + 1
    /\ Dies(p)

Apply(p) == Migrate(p) \/ ScriptRaises(p) \/ RecordVersion(p) \/ ValidationRaises(p)

Start(p) == Launch(p) \/ EnableWal(p) \/ Apply(p)

StartupNext == \E p \in Processes : Start(p) \/ LockTimesOut(p) \/ KilledAtStart(p)

StartupSpec == StartupInit /\ [][StartupNext]_startupVars

\* A process that has ended is started again, by whoever runs it, and a process
\* that polls for a lock that is free most of the time gets it.
StartupFairness ==
    \A p \in Processes : /\ WF_startupVars(Start(p))
                         /\ SF_startupVars(Migrate(p))

-------------------------------------------------------------------------------
\* "Every migration performs an explicit foreign_key_check before it commits",
\* and DDL is rolled back with its record: however processes interleave and
\* die, the ledger lists a beginning of the migrations, what it lists has been
\* done, nothing else has, and a process that is ready finds the newest schema
\* (columns of an additive version that were lost are back by then).
SchemaIsTrue ==
    /\ ~damaged =>
        /\ file.schema \subseteq file.ledger
        /\ file.ledger \ file.schema \subseteq Additive
    /\ \A v \in file.ledger : 1..v \subseteq file.ledger
    /\ \A p \in Processes : at[p] = "ready" => ~damaged /\ file.schema = Version

\* Each process gets ready in the end, however often it or another one dies on
\* the way, unless the database was damaged before or it has been stopped.
EachStarts == \A p \in Processes : []<>(damaged \/ at[p] \in {"ready", "stopped"})
===============================================================================
