-------------------------------- MODULE Outbox --------------------------------
(***************************************************************************)
(* The outbox: the messages that project a feature to Plane. Transitions   *)
(* append rows in their own transaction; the workers claim the oldest row  *)
(* that is due, deliver it outside any transaction and record the outcome. *)
(* Plane is external: it is modelled by what the adapter asks of it.       *)
(***************************************************************************)
EXTENDS Naturals, FiniteSets

CONSTANTS
    Workers,      \* worker processes; each has an outbox worker id of its own
    Stages,       \* the stages of a feature
    Bound,        \* the stages that stage_state_ids binds to a Plane state
    MaxMessages,  \* bound: messages of the feature
    MaxCrashes,   \* bound: worker processes that die
    Refused       \* messages Plane never accepts (a work item it has deleted)

ASSUME StagesAssumption == Bound \subseteq Stages /\ {"notice", "silent"} \cap Stages = {}
ASSUME BoundsAssumption == MaxMessages \in Nat \ {0} /\ MaxCrashes \in Nat

\* Messages are named by their place in the order of creation.
Message == 1..MaxMessages

\* A row projects a stage, posts a notice as a comment, or (ARTIFACT_UPDATING)
\* asks nothing of Plane.
Subject == Stages \cup {"notice", "silent"}
Row == [says: Subject, status: {"NONE", "PENDING", "SENDING", "SENT"}, live: BOOLEAN]
NoRow == [says |-> "silent", status |-> "NONE", live |-> FALSE]

VARIABLES
    created,     \* number of messages so far
    row,         \* outbox_messages
    hand,        \* what each worker process has claimed, and how far it is
    planeState,  \* the state of the work item in Plane; "none" at first
    comments,    \* comments each message has left in Plane: 0, 1, or 2 for more
    patched,     \* history: the messages whose PATCH Plane has executed
    crashes,
    senders,     \* history: the worker processes that have claimed a message
    doubtful     \* history: the messages whose delivery was interrupted

vars == <<created, row, hand, planeState, comments, patched, crashes, senders, doubtful>>

Free == [phase |-> "idle", msg |-> 1]

TypeOK ==
    /\ created \in 0..MaxMessages
    /\ row \in [Message -> Row]
    /\ hand \in [Workers -> [phase: {"idle", "claimed", "delivered", "failed"}, msg: Message]]
    /\ planeState \in Stages \cup {"none"}
    /\ comments \in [Message -> 0..2]
    /\ patched \subseteq Message
    /\ crashes \in 0..MaxCrashes
    /\ senders \subseteq Workers
    /\ doubtful \subseteq Message

Init ==
    /\ created = 0
    /\ row = [m \in Message |-> NoRow]
    /\ hand = [w \in Workers |-> Free]
    /\ planeState = "none"
    /\ comments = [m \in Message |-> 0]
    /\ patched = {}
    /\ crashes = 0
    /\ senders = {}
    /\ doubtful = {}

-------------------------------------------------------------------------------
\* A transition of the feature commits, with its message.
Emit(s) ==
    /\ created < MaxMessages
    /\ created' = created + 1
    /\ row' = [row EXCEPT ![created + 1] = [says |-> s, status |-> "PENDING", live |-> FALSE]]
    /\ UNCHANGED <<hand, planeState, comments, patched, crashes, senders, doubtful>>

\* Mutant: a message whose sender died is not taken up again.
DueOnce(m) == row[m].status = "PENDING"

\* A message that waits, or whose lease has run out.
Due(m) ==
    \/ row[m].status = "PENDING"
    \/ row[m].status = "SENDING" /\ ~row[m].live

\* Mutant: the rows are not ordered.
FirstDueAnyOrder(m) == Due(m)

\* ORDER BY created_at LIMIT 1.
FirstDue(m) == Due(m) /\ \A n \in Message : n < m => ~Due(n)

\* A process has m in hand.
Held(m) == \E w \in Workers : hand[w].phase # "idle" /\ hand[w].msg = m

\* A message that another process still has in hand is in doubt from then on.
Claim(w) ==
    /\ hand[w].phase = "idle"
    /\ \E m \in Message :
           /\ FirstDue(m)
           /\ row' = [row EXCEPT ![m].status = "SENDING", ![m].live = TRUE]
           /\ hand' = [hand EXCEPT ![w] = [phase |-> "claimed", msg |-> m]]
           /\ doubtful' = IF Held(m) THEN doubtful \cup {m} ELSE doubtful
    /\ senders' = senders \cup {w}
    /\ UNCHANGED <<created, planeState, comments, patched, crashes>>

LeaseExpires(m) ==
    /\ row[m].status = "SENDING"
    /\ row[m].live
    /\ row' = [row EXCEPT ![m].live = FALSE]
    /\ UNCHANGED <<created, hand, planeState, comments, patched, crashes, senders, doubtful>>

\* The messages that make a request.
Asks(m) == row[m].says \in Bound \cup {"notice"}

\* A comment is posted under an external id made of the idempotency key. When
\* there is one under that id, Plane answers 409, which deliver() takes for a
\* success, or makes another: its API promises neither.
Posted(m) == {[comments EXCEPT ![m] = n] : n \in IF comments[m] = 0 THEN {1} ELSE {comments[m], 2}}

\* Plane executes the request of m, if m makes one.
Executed(m) ==
    /\ ~(Asks(m) /\ m \in Refused)
    /\ comments' \in IF row[m].says = "notice" THEN Posted(m) ELSE {comments}
    /\ IF row[m].says \in Bound
       THEN planeState' = row[m].says /\ patched' = patched \cup {m}
       ELSE UNCHANGED <<planeState, patched>>

\* deliver() returns.
Deliver(w) ==
    /\ hand[w].phase = "claimed"
    /\ Executed(hand[w].msg)
    /\ hand' = [hand EXCEPT ![w].phase = "delivered"]
    /\ UNCHANGED <<created, row, crashes, senders, doubtful>>

\* deliver() raises, and Plane may have executed the request all the same.
DeliverRaises(w) ==
    /\ hand[w].phase = "claimed"
    /\ Asks(hand[w].msg)
    /\ \/ Executed(hand[w].msg)
       \/ UNCHANGED <<planeState, comments, patched>>
    /\ hand' = [hand EXCEPT ![w].phase = "failed"]
    /\ doubtful' = doubtful \cup {hand[w].msg}
    /\ UNCHANGED <<created, row, crashes, senders>>

\* The outcome is recorded on a row that is still being sent, by whomever.
Recorded(m, s) ==
    IF row[m].status = "SENDING"
    THEN [row EXCEPT ![m].status = s, ![m].live = FALSE]
    ELSE row

\* Mutant: the outcome is recorded under a lease that has not run out only.
MarkSentInTime(w) ==
    /\ hand[w].phase = "delivered"
    /\ row' = IF row[hand[w].msg].live THEN Recorded(hand[w].msg, "SENT") ELSE row
    /\ hand' = [hand EXCEPT ![w] = Free]
    /\ UNCHANGED <<created, planeState, comments, patched, crashes, senders, doubtful>>

MarkSent(w) ==
    /\ hand[w].phase = "delivered"
    /\ row' = Recorded(hand[w].msg, "SENT")
    /\ hand' = [hand EXCEPT ![w] = Free]
    /\ UNCHANGED <<created, planeState, comments, patched, crashes, senders, doubtful>>

\* Mutant: the exception is swallowed and the row recorded as sent.
MarkFailedAsSent(w) ==
    /\ hand[w].phase = "failed"
    /\ row' = Recorded(hand[w].msg, "SENT")
    /\ hand' = [hand EXCEPT ![w] = Free]
    /\ UNCHANGED <<created, planeState, comments, patched, crashes, senders, doubtful>>

\* Mutant: the row is put back whatever has become of it.
MarkFailedAlways(w) ==
    /\ hand[w].phase = "failed"
    /\ row' = [row EXCEPT ![hand[w].msg].status = "PENDING", ![hand[w].msg].live = FALSE]
    /\ hand' = [hand EXCEPT ![w] = Free]
    /\ UNCHANGED <<created, planeState, comments, patched, crashes, senders, doubtful>>

\* The row is put back, and is due at once.
MarkFailed(w) ==
    /\ hand[w].phase = "failed"
    /\ row' = Recorded(hand[w].msg, "PENDING")
    /\ hand' = [hand EXCEPT ![w] = Free]
    /\ UNCHANGED <<created, planeState, comments, patched, crashes, senders, doubtful>>

\* The process dies, and is started again.
Crash(w) ==
    /\ hand[w].phase # "idle"
    /\ crashes < MaxCrashes
    /\ crashes' = crashes + 1
    /\ hand' = [hand EXCEPT ![w] = Free]
    /\ doubtful' = doubtful \cup {hand[w].msg}
    /\ UNCHANGED <<created, row, planeState, comments, patched, senders>>

-------------------------------------------------------------------------------
Step(w) == Claim(w) \/ Deliver(w) \/ DeliverRaises(w) \/ MarkSent(w) \/ MarkFailed(w)

Next ==
    \/ \E s \in Subject : Emit(s)
    \/ \E m \in Message : LeaseExpires(m)
    \/ \E w \in Workers : Step(w) \/ Crash(w)

Spec == Init /\ [][Next]_vars

\* The workers poll, leases run out, and Plane answers a request that is
\* repeated for ever (an outage is temporary). No transition need happen.
FairSpec ==
    /\ Spec
    /\ \A m \in Message : WF_vars(LeaseExpires(m))
    /\ \A w \in Workers : WF_vars(Step(w)) /\ SF_vars(Deliver(w))

-------------------------------------------------------------------------------
\* A message leaves a second comment in Plane only after its delivery was
\* interrupted: no answer came, its sender died, or two processes had it in hand
\* at once. That the lease runs out during a slow delivery repeats nothing.
RepeatedInDoubt == \A m \in Message : comments[m] > 1 => m \in doubtful

\* Plane has done what m asks.
Done(m) ==
    /\ row[m].says = "notice" => comments[m] > 0
    /\ row[m].says \in Bound => m \in patched

\* A message counts as sent only when Plane has done what it asks.
SentWasDelivered == \A m \in Message : row[m].status = "SENT" => Done(m)

\* A message that was sent is never put back, not by a sender that lost its
\* lease and failed later either.
SentIsFinal ==
    [][\A m \in Message : row[m].status = "SENT" => row'[m] = row[m]]_vars

\* Plane shows the last stage of the feature once nothing is left to send:
\* "Enzo is authoritative; Plane is its human-facing projection."
PlaneFollows ==
    (\A m \in 1..created : row[m].status = "SENT") =>
        LET shown == {m \in 1..created : row[m].says \in Bound} IN
        \A m \in shown : (\A n \in shown : n <= m) => planeState = row[m].says

\* And it does as long as one process sends everything and does not die.
PlaneFollowsTheLiving == crashes = 0 /\ Cardinality(senders) <= 1 => PlaneFollows

\* Two processes hold one message: the first was overtaken, and still lives.
Contended ==
    \E v, w \in Workers : /\ v # w
                          /\ hand[v].phase # "idle" /\ hand[w].phase # "idle"
                          /\ hand[v].msg = hand[w].msg

\* Every message that Plane can accept is sent in the end ("outbox retries with
\* backoff"), unless processes overtake each other for ever.
EverySent ==
    <>[]~Contended =>
        \A m \in Message \ Refused : row[m].status = "PENDING" ~> row[m].status = "SENT"
===============================================================================
