-------------------------------- MODULE PiRunner --------------------------------
(***************************************************************************)
(* One request to Pi, a child process that is driven by JSON lines: it is  *)
(* started in a session of its own, given the prompt, read until it says   *)
(* that it has settled or something goes wrong, and stopped in any case.   *)
(* Then the last message it has completed is the answer.                   *)
(*                                                                         *)
(* Pi is external. It may say anything in any order, exit at any point or  *)
(* hang, ignore its standard input, and leave a tool running.              *)
(***************************************************************************)
EXTENDS Naturals, Sequences, FiniteSets

CONSTANTS
    Says,       \* the records Pi may write
    MaxRecords, \* bound: records Pi writes in one run
    MaxUnread   \* bound: records it is ahead of the reader

\* Messages of the assistant, by their stop reason and their text.
Word == {"good", "garbled", "error", "aborted", "length"}
Rejection == {"rejected", "rejected_login"}
Rubbish == {"noise", "flood"}   \* not a JSON object; more than the transcript may hold
\* "exhausted" is an auto_retry_end without success, "other" any other event.
Record == Word \cup Rejection \cup Rubbish \cup {"accepted", "exhausted", "settled", "other"}

ASSUME SaysAssumption == Says \subseteq Record
ASSUME RecordsAssumption == MaxRecords \in Nat /\ MaxUnread \in Nat \ {0}

\* Only an implementation request gives Pi a worktree and tools.
Workload == {"artifact", "implementation"}

\* NO_KIND: an exception that is no AgentRunnerError.
FailureKind == {"CONFIGURATION", "AUTHENTICATION", "TIMEOUT", "CANCELLED", "PROTOCOL",
                "PROCESS", "NO_KIND"}
Outcome == [kind: FailureKind \cup {"NONE", "SETTLED", "ANSWER"}, retryable: BOOLEAN]
Failed(k, r) == [kind |-> k, retryable |-> r]
Open == [kind |-> "NONE", retryable |-> FALSE]
Settled == [kind |-> "SETTLED", retryable |-> FALSE]
Answer == [kind |-> "ANSWER", retryable |-> FALSE]

VARIABLES
    phase,    \* how far the runner is
    request,  \* the workload
    outcome,  \* a failure, or an answer, or settled while that is to be parsed
    heard,    \* what it has read: prompt_accepted, final_message, final_retry_error
    late,     \* the deadline has passed
    pi,       \* the child process
    tool,     \* a tool of Pi's process group is running
    pipe,     \* records that Pi has written and the runner has not read
    records,  \* how many Pi has written, as long as they may be read
    said      \* history: what Pi has written until it settled, and by then only

piVars == <<phase, request, outcome, heard, late, pi, tool, pipe, records, said>>

Nothing == [accepted |-> FALSE, message |-> "none", exhausted |-> FALSE, settled |-> FALSE]
Story == [accepted: BOOLEAN, message: Word \cup {"none"}, exhausted: BOOLEAN, settled: BOOLEAN]

\* leaving: its files are closed and it cannot be waited for yet. code: exit code
\* 0 or 2. deaf: it does not read its input, and the prompt does not fit into the
\* pipe.
Child == [state: {"none", "running", "leaving", "left"}, code: BOOLEAN, deaf: BOOLEAN]
NoChild == [state |-> "none", code |-> FALSE, deaf |-> FALSE]

PiTypeOK ==
    /\ phase \in {"idle", "writing", "reading", "polling", "terminating", "joining", "ended"}
    /\ request \in Workload
    /\ outcome \in Outcome
    /\ heard \in Story /\ said \in Story
    /\ late \in BOOLEAN
    /\ pi \in Child
    /\ tool \in BOOLEAN
    /\ pipe \in Seq(Record) /\ Len(pipe) <= MaxUnread
    /\ records \in 0..MaxRecords

PiInit ==
    /\ phase = "idle"
    /\ request = "artifact"
    /\ outcome = Open
    /\ heard = Nothing /\ said = Nothing
    /\ late = FALSE
    /\ pi = NoChild
    /\ tool = FALSE
    /\ pipe = <<>>
    /\ records = 0

\* The frame of run() is gone.
Forget ==
    /\ phase' = "idle"
    /\ request' = "artifact"
    /\ outcome' = Open
    /\ heard' = Nothing /\ said' = Nothing
    /\ late' = FALSE
    /\ pi' = NoChild
    /\ tool' = FALSE
    /\ pipe' = <<>>
    /\ records' = 0

-------------------------------------------------------------------------------
(* Pi.                                                                     *)

\* A story goes on with a record, until it has settled.
Told(story, rec) ==
    IF story.settled THEN story
    ELSE CASE rec = "accepted" -> [story EXCEPT !.accepted = TRUE]
           [] rec \in Word -> [story EXCEPT !.message = rec]
           [] rec = "exhausted" -> [story EXCEPT !.exhausted = TRUE]
           [] rec = "settled" -> [story EXCEPT !.settled = TRUE]
           [] OTHER -> story

\* It knows the id of the prompt only when it was written. What it says after
\* the runner has turned away is read by nobody.
PiSays(rec) ==
    /\ pi.state = "running" /\ phase \in {"writing", "reading"}
    /\ records < MaxRecords /\ Len(pipe) < MaxUnread
    /\ rec \in {"accepted"} \cup Rejection => phase = "reading"
    /\ pipe' = Append(pipe, rec)
    /\ records' = records + 1
    /\ said' = Told(said, rec)
    /\ UNCHANGED <<phase, request, outcome, heard, late, pi, tool>>

PiExits ==
    /\ pi.state = "running"
    /\ \E c \in BOOLEAN : pi' = [pi EXCEPT !.state = "leaving", !.code = c]
    /\ UNCHANGED <<phase, request, outcome, heard, late, tool, pipe, records, said>>

PiHasLeft ==
    /\ pi.state = "leaving"
    /\ pi' = [pi EXCEPT !.state = "left"]
    /\ UNCHANGED <<phase, request, outcome, heard, late, tool, pipe, records, said>>

\* A tool that holds the pipes open.
ToolStarts ==
    /\ pi.state = "running"
    /\ request = "implementation" /\ phase = "reading"
    /\ ~tool
    /\ tool' = TRUE
    /\ UNCHANGED <<phase, request, outcome, heard, late, pi, pipe, records, said>>

ToolEnds ==
    /\ tool
    /\ tool' = FALSE
    /\ UNCHANGED <<phase, request, outcome, heard, late, pi, pipe, records, said>>

PiActs ==
    \/ \E rec \in Says : PiSays(rec)
    \/ PiExits \/ ToolStarts \/ ToolEnds

-------------------------------------------------------------------------------
(* The runner.                                                             *)

StartPi(q) ==
    /\ phase = "idle"
    /\ request' = q
    /\ \E d \in BOOLEAN : pi' = [state |-> "running", code |-> FALSE, deaf |-> d]
    /\ phase' = "writing"
    /\ UNCHANGED <<outcome, heard, late, tool, pipe, records, said>>

\* No worktree or no executable, or the system has no process or no directory
\* to give.
StartFails(q) ==
    /\ phase = "idle"
    /\ request' = q
    /\ outcome' \in {Failed("CONFIGURATION", FALSE), Failed("PROCESS", TRUE),
                    Failed("NO_KIND", FALSE)}
    /\ phase' = "ended"
    /\ UNCHANGED <<heard, late, pi, tool, pipe, records, said>>

\* The deadline counts from here. The write waits for as long as the prompt
\* does not fit into the pipe and Pi does not read it.
WritePrompt ==
    /\ phase = "writing"
    /\ pi.state = "running"
    /\ ~pi.deaf
    /\ phase' = "reading"
    /\ UNCHANGED <<request, outcome, heard, late, pi, tool, pipe, records, said>>

\* The run is judged, and what Pi still writes is read by nobody.
TurnAway(o) ==
    /\ outcome' = o
    /\ phase' = "polling"
    /\ pipe' = <<>>
    /\ records' = 0

WriteRaises ==
    /\ phase = "writing"
    /\ pi.state # "running"
    /\ TurnAway(Failed("PROCESS", TRUE))
    /\ UNCHANGED <<request, heard, late, pi, tool, said>>

\* Mutant: settling without an accepted prompt is not looked at.
JudgedUnprompted(h) ==
    CASE h.exhausted -> Failed("PROCESS", TRUE)
      [] ~h.exhausted /\ h.message = "none" -> Failed("PROTOCOL", FALSE)
      [] ~h.exhausted /\ h.message = "aborted" -> Failed("CANCELLED", FALSE)
      [] ~h.exhausted /\ h.message = "error" -> Failed("PROCESS", TRUE)
      [] ~h.exhausted /\ h.message = "length" -> Failed("PROCESS", FALSE)
      [] OTHER -> Settled

\* What is made of a run that has settled.
Judged(h) ==
    IF ~h.accepted THEN Failed("PROTOCOL", FALSE)
    ELSE IF h.exhausted THEN Failed("PROCESS", TRUE)
    ELSE CASE h.message = "none" -> Failed("PROTOCOL", FALSE)
           [] h.message = "aborted" -> Failed("CANCELLED", FALSE)
           [] h.message = "error" -> Failed("PROCESS", TRUE)
           [] h.message = "length" -> Failed("PROCESS", FALSE)
           [] OTHER -> Settled

\* What a record puts an end to the run with; Open lets it go on.
Verdict(rec) ==
    CASE rec = "rejected" -> Failed("PROTOCOL", FALSE)
      [] rec = "rejected_login" -> Failed("AUTHENTICATION", FALSE)
      [] rec \in Rubbish -> Failed("PROTOCOL", FALSE)
      [] rec = "settled" -> Judged(heard)
      [] OTHER -> Open

ReadRecord ==
    /\ phase = "reading"
    /\ ~late
    /\ pipe # <<>>
    /\ heard' = Told(heard, Head(pipe))
    /\ IF Verdict(Head(pipe)) # Open
       THEN TurnAway(Verdict(Head(pipe)))
       ELSE pipe' = Tail(pipe) /\ UNCHANGED <<phase, outcome, records>>
    /\ UNCHANGED <<request, late, pi, tool, said>>

\* The end of the output, and what poll() says at that moment.
ReadEnd ==
    /\ phase = "reading"
    /\ ~late
    /\ pipe = <<>> /\ pi.state # "running" /\ ~tool
    /\ TurnAway(Failed("PROCESS", ~(pi.state = "left" /\ pi.code)))
    /\ UNCHANGED <<request, heard, late, pi, tool, said>>

DeadlinePasses ==
    /\ phase = "reading"
    /\ ~late
    /\ late' = TRUE
    /\ UNCHANGED <<phase, request, outcome, heard, pi, tool, pipe, records, said>>

\* Mutant: the deadline is looked at when a record has come only.
TimesOutIfHeard ==
    /\ phase = "reading"
    /\ late
    /\ pipe # <<>>
    /\ TurnAway(Failed("TIMEOUT", TRUE))
    /\ UNCHANGED <<request, heard, late, pi, tool, said>>

TimesOut ==
    /\ phase = "reading"
    /\ late
    /\ TurnAway(Failed("TIMEOUT", TRUE))
    /\ UNCHANGED <<request, heard, late, pi, tool, said>>

\* The input is closed. A Pi that has left is not signalled, nor is its group.
Poll ==
    /\ phase = "polling"
    /\ phase' = IF pi.state = "left" THEN "joining" ELSE "terminating"
    /\ UNCHANGED <<request, outcome, heard, late, pi, tool, pipe, records, said>>

\* SIGTERM was sent to the group, and Pi has left within two seconds.
Terminated ==
    /\ phase = "terminating"
    /\ pi.state = "left"
    /\ phase' = "joining"
    /\ UNCHANGED <<request, outcome, heard, late, pi, tool, pipe, records, said>>

\* Mutant: after SIGTERM the group is left alone.
KillNothing ==
    /\ phase = "terminating"
    /\ pi.state # "left"
    /\ phase' = "joining"
    /\ UNCHANGED <<request, outcome, heard, late, pi, tool, pipe, records, said>>

\* It has not, and SIGKILL ends the group.
Kill ==
    /\ phase = "terminating"
    /\ pi.state # "left"
    /\ pi' = [pi EXCEPT !.state = "left"]
    /\ tool' = FALSE
    /\ phase' = "joining"
    /\ UNCHANGED <<request, outcome, heard, late, pipe, records, said>>

\* The pumps are waited for, two seconds each, the transcript is written, and
\* what has settled is parsed.
Finish ==
    /\ phase = "joining"
    /\ outcome' = IF outcome # Settled THEN outcome
                  ELSE IF heard.message = "good" THEN Answer ELSE Failed("PROTOCOL", FALSE)
    /\ phase' = "ended"
    /\ UNCHANGED <<request, heard, late, pi, tool, pipe, records, said>>

\* The transcript cannot be written, and nothing else is reported.
TranscriptFails ==
    /\ phase = "joining"
    /\ outcome' = Failed("NO_KIND", FALSE)
    /\ phase' = "ended"
    /\ UNCHANGED <<request, heard, late, pi, tool, pipe, records, said>>

RunnerActs ==
    \/ WritePrompt \/ WriteRaises
    \/ ReadRecord \/ ReadEnd \/ TimesOut
    \/ Poll \/ Terminated \/ Kill \/ Finish \/ TranscriptFails

PiNext ==
    \/ \E q \in Workload : StartPi(q) \/ StartFails(q)
    \/ PiActs \/ PiHasLeft \/ DeadlinePasses
    \/ RunnerActs

PiSpec == PiInit /\ [][PiNext]_piVars

\* Time passes, and the kernel does its work. Nothing is assumed of Pi.
PiFairness == WF_piVars(DeadlinePasses) /\ WF_piVars(PiHasLeft) /\ WF_piVars(RunnerActs)

-------------------------------------------------------------------------------
\* The answer handed to Enzo is the last message that Pi had completed when it
\* settled, of a run whose prompt it accepted and whose retries did not fail:
\* never a message of an attempt that went wrong, whatever was still under way.
AnswerIsLastWord ==
    outcome = Answer =>
        said = [accepted |-> TRUE, message |-> "good", exhausted |-> FALSE, settled |-> TRUE]

\* A failure is called final only when Pi has said so or left with such a code,
\* and not because it was not known yet how it had left.
FinalFailureHappened ==
    phase = "ended" =>
        /\ outcome.kind = "CANCELLED" => said.settled /\ said.message = "aborted"
        /\ outcome = Failed("PROCESS", FALSE) => pi.code \/ (said.settled /\ said.message = "length")

\* What a run reports agrees with what Pi has done.
OutcomeIsTrue == AnswerIsLastWord /\ FinalFailureHappened

\* The runner waits for a Pi that does not take its prompt, with no deadline.
Blocked == phase = "writing" /\ pi.state = "running" /\ pi.deaf
===============================================================================
