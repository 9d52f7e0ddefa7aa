----------------------------- MODULE OutboxProofs -----------------------------
(* Theorems about Outbox, for any workers, stages and bounds.              *)
EXTENDS Outbox, TLAPS, FiniteSetTheorems

\* Rows appear in order, and a process only holds rows that exist.
RowsExist ==
    /\ \A m \in Message : row[m].status # "NONE" <=> m <= created
    /\ \A w \in Workers : hand[w].phase # "idle" => row[hand[w].msg].status # "NONE"

\* What a process is about to record as sent, Plane has done.
DeliveredIsDone == \A w \in Workers : hand[w].phase = "delivered" => Done(hand[w].msg)

Inv == TypeOK /\ RowsExist /\ DeliveredIsDone /\ SentWasDelivered

\* What the request of a message does to its comments, and to no other's.
LEMMA PostedFields ==
    ASSUME TypeOK, NEW m \in Message
    PROVE  \A c \in Posted(m) : /\ c \in [Message -> 0..2]
                                /\ c[m] > 0
                                /\ comments[m] = 0 => c[m] = 1
                                /\ \A n \in Message : n # m => c[n] = comments[n]
  BY DEF Posted, TypeOK

\* What recording an outcome does to the row.
LEMMA RecordedFields ==
    ASSUME TypeOK, NEW m \in Message, NEW s \in {"SENT", "PENDING"}
    PROVE  /\ Recorded(m, s) \in [Message -> Row]
           /\ \A n \in Message :
                  /\ Recorded(m, s)[n].says = row[n].says
                  /\ Recorded(m, s)[n].status = IF n = m /\ row[n].status = "SENDING" THEN s
                                                ELSE row[n].status
                  /\ row[n].status # "SENDING" => Recorded(m, s)[n] = row[n]
  BY DEF Recorded, TypeOK, Row

\* A request that Plane executes is done afterwards, and nothing that was done
\* is undone.
LEMMA ExecutedIsDone ==
    ASSUME TypeOK, NEW m \in Message, Executed(m), UNCHANGED row
    PROVE  /\ Done(m)'
           /\ \A n \in Message : Done(n) => Done(n)'
           /\ comments' \in [Message -> 0..2]
           /\ planeState' \in Stages \cup {"none"}
           /\ patched' \subseteq Message
<1>1. comments' \in [Message -> 0..2]
  BY PostedFields DEF Executed, TypeOK
<1>2. planeState' \in Stages \cup {"none"} /\ patched' \subseteq Message /\ patched \subseteq patched'
  BY StagesAssumption DEF Executed, TypeOK
<1>3. Done(m)'
  <2>1. row[m].says = "notice" => comments'[m] > 0
    BY PostedFields DEF Executed
  <2>2. row[m].says \in Bound => m \in patched'
    BY DEF Executed
  <2> QED
    BY <2>1, <2>2 DEF Done
<1>4. ASSUME NEW n \in Message, Done(n), n # m PROVE Done(n)'
  <2>1. comments'[n] = comments[n]
    BY <1>4, PostedFields DEF Executed
  <2> QED
    BY <1>2, <1>4, <2>1 DEF Done
<1> QED
  BY <1>1, <1>2, <1>3, <1>4

\* Every step keeps the invariant, and a row that was sent.
LEMMA Steps ==
    ASSUME Inv, [Next]_vars
    PROVE  Inv' /\ \A m \in Message : row[m].status = "SENT" => row'[m] = row[m]
<1> DEFINE Final == \A m \in Message : row[m].status = "SENT" => row'[m] = row[m]
<1> USE DEF Inv
<1>1. CASE UNCHANGED vars
  BY <1>1 DEF vars, TypeOK, RowsExist, DeliveredIsDone, SentWasDelivered, Done
<1>2. ASSUME NEW s \in Subject, Emit(s) PROVE Inv' /\ Final
  <2> DEFINE new == [says |-> s, status |-> "PENDING", live |-> FALSE]
  <2>1. created + 1 \in Message /\ created' = created + 1 /\ created \in 0..MaxMessages
    BY <1>2, BoundsAssumption DEF Emit, Message, TypeOK
  <2>2. new \in Row /\ row' = [row EXCEPT ![created + 1] = new]
    BY <1>2 DEF Emit, Row
  <2>3. TypeOK'
    BY <1>2, <2>1, <2>2, BoundsAssumption DEF Emit, TypeOK
  <2>4. row[created + 1].status = "NONE"
    BY <2>1, BoundsAssumption DEF RowsExist, Message
  <2>5. \A m \in Message : m # created + 1 => row'[m] = row[m]
    BY <2>2 DEF TypeOK
  <2>6. row'[created + 1] = new
    BY <2>1, <2>2 DEF TypeOK
  <2>7. \A w \in Workers : hand[w].phase # "idle" => hand[w].msg \in Message /\ hand[w].msg # created + 1
    BY <2>4 DEF TypeOK, RowsExist
  <2>8. RowsExist'
    <3>1. \A m \in Message : row'[m].status # "NONE" <=> m <= created + 1
      BY <2>1, <2>5, <2>6, BoundsAssumption DEF RowsExist, Message
    <3>2. UNCHANGED hand
      BY <1>2 DEF Emit
    <3> QED
      BY <2>1, <2>5, <2>7, <3>1, <3>2 DEF RowsExist
  <2>9. DeliveredIsDone' /\ SentWasDelivered'
    BY <1>2, <2>5, <2>6, <2>7 DEF Emit, DeliveredIsDone, SentWasDelivered, Done
  <2> QED
    BY <2>3, <2>4, <2>5, <2>8, <2>9
<1>3. ASSUME NEW m \in Message, LeaseExpires(m) PROVE Inv' /\ Final
  <2>1. row' \in [Message -> Row]
    BY <1>3 DEF LeaseExpires, TypeOK, Row
  <2>2. \A n \in Message : /\ row'[n].says = row[n].says /\ row'[n].status = row[n].status
                           /\ row[n].status = "SENT" => row'[n] = row[n]
    BY <1>3 DEF LeaseExpires, TypeOK, Row
  <2>3. UNCHANGED <<created, hand, planeState, comments, patched, crashes, senders, doubtful>>
    BY <1>3 DEF LeaseExpires
  <2>4. TypeOK'
    BY <2>1, <2>3 DEF TypeOK
  <2>5. RowsExist' /\ DeliveredIsDone' /\ SentWasDelivered'
    <3>1. \A w \in Workers : hand[w].msg \in Message
      BY DEF TypeOK
    <3> QED
      BY <2>2, <2>3, <3>1 DEF RowsExist, DeliveredIsDone, SentWasDelivered, Done
  <2> QED
    BY <2>2, <2>4, <2>5
<1>4. ASSUME NEW w \in Workers, Claim(w) PROVE Inv' /\ Final
  <2>1. PICK m \in Message : /\ FirstDue(m)
                             /\ row' = [row EXCEPT ![m].status = "SENDING", ![m].live = TRUE]
                             /\ hand' = [hand EXCEPT ![w] = [phase |-> "claimed", msg |-> m]]
    BY <1>4 DEF Claim
  <2>2. row[m].status \in {"PENDING", "SENDING"}
    BY <2>1 DEF FirstDue, Due
  <2>3. row' \in [Message -> Row]
    BY <2>1 DEF TypeOK, Row
  <2>4. \A n \in Message : /\ row'[n].says = row[n].says
                           /\ row'[n].status = IF n = m THEN "SENDING" ELSE row[n].status
                           /\ n # m => row'[n] = row[n]
    BY <2>1 DEF TypeOK, Row
  <2>5. /\ UNCHANGED <<created, planeState, comments, patched, crashes>>
        /\ senders' \subseteq Workers /\ doubtful' \subseteq Message
    BY <1>4 DEF Claim, TypeOK
  <2>6. /\ hand' \in [Workers -> [phase: {"idle", "claimed", "delivered", "failed"}, msg: Message]]
        /\ \A v \in Workers : hand'[v] = IF v = w THEN [phase |-> "claimed", msg |-> m] ELSE hand[v]
    BY <2>1 DEF TypeOK
  <2>7. TypeOK'
    BY <2>3, <2>5, <2>6 DEF TypeOK
  <2>8. RowsExist' /\ DeliveredIsDone' /\ SentWasDelivered'
    <3>1. \A v \in Workers : hand[v].msg \in Message
      BY DEF TypeOK
    <3> QED
      BY <2>2, <2>4, <2>5, <2>6, <3>1 DEF RowsExist, DeliveredIsDone, SentWasDelivered, Done
  <2> QED
    BY <2>2, <2>4, <2>7, <2>8
<1>5. ASSUME NEW w \in Workers, Deliver(w) \/ DeliverRaises(w) \/ Crash(w) PROVE Inv' /\ Final
  <2>m. PICK m \in Message : m = hand[w].msg
    BY DEF TypeOK
  <2>1. UNCHANGED <<created, row>> /\ hand[w].phase # "idle"
    BY <1>5 DEF Deliver, DeliverRaises, Crash
  <2>2. /\ hand' \in [Workers -> [phase: {"idle", "claimed", "delivered", "failed"}, msg: Message]]
        /\ \A v \in Workers : v # w => hand'[v] = hand[v]
        /\ hand'[w].phase # "idle" => hand'[w].msg = m
        /\ hand'[w].phase = "delivered" => Deliver(w) /\ hand'[w].msg = m
    BY <1>5, <2>m, BoundsAssumption DEF Deliver, DeliverRaises, Crash, TypeOK, Free, Message
  <2>3. /\ \A n \in Message : Done(n) => Done(n)'
        /\ Deliver(w) => Done(m)'
        /\ comments' \in [Message -> 0..2]
        /\ planeState' \in Stages \cup {"none"}
        /\ patched' \subseteq Message
    <3>1. CASE Executed(m)
      BY <2>1, <3>1, ExecutedIsDone
    <3>2. CASE ~Executed(m)
      <4>1. UNCHANGED <<planeState, comments, patched>> /\ ~Deliver(w)
        BY <1>5, <2>m, <3>2 DEF Deliver, DeliverRaises, Crash
      <4> QED
        BY <2>1, <4>1 DEF Done, TypeOK
    <3> QED
      BY <3>1, <3>2
  <2>4. crashes' \in 0..MaxCrashes /\ senders' \subseteq Workers /\ doubtful' \subseteq Message
    BY <1>5, BoundsAssumption DEF Deliver, DeliverRaises, Crash, TypeOK
  <2>5. TypeOK'
    BY <2>1, <2>2, <2>3, <2>4 DEF TypeOK
  <2>6. RowsExist'
    BY <2>1, <2>2, <2>m DEF RowsExist
  <2>7. SentWasDelivered'
    BY <2>1, <2>3 DEF SentWasDelivered
  <2>8. DeliveredIsDone'
    <3>1. \A v \in Workers : hand[v].msg \in Message
      BY DEF TypeOK
    <3>2. ASSUME NEW v \in Workers, hand'[v].phase = "delivered"
          PROVE  Done(hand[v].msg)'
      <4>1. CASE v = w
        BY <2>1, <2>2, <2>3, <3>2, <4>1 DEF Done
      <4>2. CASE v # w
        <5>1. PICK n \in Message : n = hand[v].msg
          BY <3>1
        <5>2. hand'[v] = hand[v] /\ Done(n)
          BY <2>2, <3>2, <4>2, <5>1 DEF DeliveredIsDone
        <5> QED
          BY <2>3, <5>1, <5>2 DEF Done
      <4> QED
        BY <4>1, <4>2
    <3> QED
      BY <3>2 DEF DeliveredIsDone
  <2> QED
    BY <2>1, <2>5, <2>6, <2>7, <2>8
<1>6. ASSUME NEW w \in Workers, MarkSent(w) \/ MarkFailed(w) PROVE Inv' /\ Final
  <2> DEFINE m == hand[w].msg
  <2>1. PICK s \in {"SENT", "PENDING"} :
            row' = Recorded(m, s) /\ (s = "SENT" => hand[w].phase = "delivered")
    BY <1>6 DEF MarkSent, MarkFailed
  <2>0. Free \in [phase: {"idle", "claimed", "delivered", "failed"}, msg: Message]
    BY BoundsAssumption DEF Free, Message
  <2>2. /\ m \in Message /\ UNCHANGED <<created, planeState, comments, patched, crashes, senders, doubtful>>
        /\ hand' \in [Workers -> [phase: {"idle", "claimed", "delivered", "failed"}, msg: Message]]
        /\ \A v \in Workers : hand'[v] = IF v = w THEN Free ELSE hand[v]
        /\ \A v \in Workers : hand[v].msg \in Message
    BY <1>6, <2>0 DEF MarkSent, MarkFailed, TypeOK
  <2>3. /\ row' \in [Message -> Row]
        /\ \A n \in Message :
               /\ row'[n].says = row[n].says
               /\ row'[n].status = IF n = m /\ row[n].status = "SENDING" THEN s ELSE row[n].status
               /\ row[n].status # "SENDING" => row'[n] = row[n]
    BY <2>1, <2>2, RecordedFields
  <2>4. TypeOK'
    BY <2>2, <2>3 DEF TypeOK
  <2>5. \A n \in Message : Done(n)' <=> Done(n)
    BY <2>2, <2>3 DEF Done
  <2>6. SentWasDelivered'
    BY <2>1, <2>2, <2>3, <2>5 DEF SentWasDelivered, DeliveredIsDone
  <2>7. RowsExist'
    BY <2>1, <2>2, <2>3 DEF RowsExist, Free
  <2>8. DeliveredIsDone'
    BY <2>2, <2>3 DEF DeliveredIsDone, Done, Free
  <2> QED
    BY <2>3, <2>4, <2>6, <2>7, <2>8
<1> QED
  BY <1>1, <1>2, <1>3, <1>4, <1>5, <1>6 DEF Next, Step

\* There are no rows at first.
LEMMA Starts == Init => Inv
<1>1. Init => TypeOK
  BY BoundsAssumption DEF Init, TypeOK, Row, NoRow, Subject, Free, Message
<1>2. Init => RowsExist
  BY BoundsAssumption DEF Init, RowsExist, NoRow, Free, Message
<1>3. Init => DeliveredIsDone /\ SentWasDelivered
  BY DEF Init, DeliveredIsDone, SentWasDelivered, NoRow, Free
<1> QED
  BY <1>1, <1>2, <1>3 DEF Inv

\* The invariant holds throughout, with it the types.
THEOREM InvTheorem == Spec => []Inv
<1>1. Inv /\ [Next]_vars => Inv'
  BY Steps
<1> QED
  BY Starts, <1>1, PTL DEF Spec

\* The rows and what the processes hold are well typed.
THEOREM TypeTheorem == Spec => []TypeOK
<1>1. Inv => TypeOK
  BY DEF Inv
<1> QED
  BY InvTheorem, <1>1, PTL

\* Rows are recorded as sent only after Plane has done what they ask:
\* run_one_outbox marks a row only when deliver() has returned, whoever holds
\* the lease by then.
THEOREM DeliveryTheorem == Spec => []SentWasDelivered
<1>1. Inv => SentWasDelivered
  BY DEF Inv
<1> QED
  BY InvTheorem, <1>1, PTL

\* No sender, however late, puts back a row that was sent (the status guard of
\* run_one_outbox).
THEOREM FinalTheorem == Spec => SentIsFinal
<1>1. Inv /\ [Next]_vars => [\A m \in Message : row[m].status = "SENT" => row'[m] = row[m]]_vars
  BY Steps
<1> QED
  BY InvTheorem, <1>1, PTL DEF Spec, SentIsFinal

-------------------------------------------------------------------------------
(* Messages whose delivery was not interrupted.                            *)

Holds(w, m) == hand[w].phase # "idle" /\ hand[w].msg = m

\* A message that is not in doubt is in the hand of one process exactly while it
\* is being sent, and has a comment only once that process has its answer.
Sure(m) ==
    /\ \A v, w \in Workers : Holds(v, m) /\ Holds(w, m) => v = w
    /\ row[m].status = "SENDING" <=> \E w \in Workers : Holds(w, m)
    /\ \A w \in Workers : Holds(w, m) =>
           /\ hand[w].phase \in {"claimed", "delivered"}
           /\ hand[w].phase = "claimed" => comments[m] = 0
    /\ row[m].status \in {"NONE", "PENDING"} => comments[m] = 0
    /\ comments[m] <= 1

Undisturbed == \A m \in Message : m \in doubtful \/ Sure(m)

\* Each step of the processes and of Plane keeps it.
LEMMA UndisturbedSteps ==
    ASSUME Inv, Undisturbed, [Next]_vars PROVE Undisturbed'
<1>0. TypeOK /\ RowsExist /\ \A w \in Workers : hand[w].msg \in Message
  BY DEF Inv, TypeOK
<1> SUFFICES ASSUME NEW m \in Message, m \notin doubtful' PROVE Sure(m)'
  BY DEF Undisturbed
<1>d. doubtful \subseteq doubtful'
  BY DEF Next, Step, Emit, LeaseExpires, Claim, Deliver, DeliverRaises, MarkSent, MarkFailed,
     Crash, vars
<1>s. Sure(m)
  BY <1>d DEF Undisturbed
<1>1. CASE UNCHANGED vars
  BY <1>s, <1>1 DEF vars, Sure, Holds
<1>2. ASSUME NEW s \in Subject, Emit(s) PROVE Sure(m)'
  <2>1. UNCHANGED <<hand, comments>>
    BY <1>2 DEF Emit
  <2>0. PICK c \in Message : c = created + 1 /\ row[c].status = "NONE"
    BY <1>0, <1>2, BoundsAssumption DEF Emit, Message, TypeOK, RowsExist
  <2>2. /\ row[c].status = "NONE" /\ row'[c].status = "PENDING"
        /\ \A n \in Message : n # c => row'[n] = row[n]
    BY <1>0, <1>2, <2>0 DEF Emit, TypeOK
  <2> QED
    BY <1>s, <2>1, <2>2 DEF Sure, Holds
<1>3. ASSUME NEW n \in Message, LeaseExpires(n) PROVE Sure(m)'
  <2>1. row'[m].status = row[m].status /\ UNCHANGED <<hand, comments>>
    BY <1>0, <1>3 DEF LeaseExpires, TypeOK, Row
  <2> QED
    BY <1>s, <2>1 DEF Sure, Holds
<1>4. ASSUME NEW w \in Workers, Claim(w) PROVE Sure(m)'
  <2>1. PICK n \in Message : /\ FirstDue(n)
                             /\ row' = [row EXCEPT ![n].status = "SENDING", ![n].live = TRUE]
                             /\ hand' = [hand EXCEPT ![w] = [phase |-> "claimed", msg |-> n]]
                             /\ doubtful' = IF Held(n) THEN doubtful \cup {n} ELSE doubtful
    BY <1>4 DEF Claim
  <2>2. /\ \A k \in Message : row'[k].status = IF k = n THEN "SENDING" ELSE row[k].status
        /\ \A v \in Workers : hand'[v] = IF v = w THEN [phase |-> "claimed", msg |-> n] ELSE hand[v]
        /\ UNCHANGED comments /\ hand[w].phase = "idle"
    BY <1>0, <1>4, <2>1 DEF Claim, TypeOK, Row
  <2>3. CASE m # n
    BY <1>s, <2>2, <2>3 DEF Sure, Holds
  <2>4. CASE m = n
    <3>1. \A v \in Workers : ~Holds(v, m)
      BY <2>1, <2>4 DEF Held, Holds
    <3>2. comments[m] = 0
      BY <1>s, <2>1, <2>4, <3>1 DEF FirstDue, Due, Sure
    <3> QED
      BY <2>2, <2>4, <3>1, <3>2 DEF Sure, Holds
  <2> QED
    BY <2>3, <2>4
<1>5. ASSUME NEW w \in Workers, Deliver(w) PROVE Sure(m)'
  <2>1. /\ Executed(hand[w].msg) /\ hand[w].phase = "claimed" /\ UNCHANGED row
        /\ \A v \in Workers : /\ hand'[v].msg = hand[v].msg
                               /\ hand'[v].phase = IF v = w THEN "delivered" ELSE hand[v].phase
    BY <1>0, <1>5 DEF Deliver, TypeOK
  <2>2. \A v \in Workers : Holds(v, m)' <=> Holds(v, m)
    BY <2>1 DEF Holds
  <2>3. CASE hand[w].msg = m
    <3>1. Holds(w, m) /\ comments[m] = 0 /\ row[m].status = "SENDING"
      BY <1>s, <2>1, <2>3 DEF Sure, Holds
    <3>2. comments'[m] \in {0, 1}
      BY <1>0, <2>1, <2>3, <3>1, PostedFields DEF Executed
    <3>3. \A v \in Workers : Holds(v, m) => v = w
      BY <1>s, <3>1 DEF Sure
    <3> QED
      BY <1>s, <2>1, <2>2, <3>1, <3>2, <3>3 DEF Sure
  <2>4. CASE hand[w].msg # m
    <3>1. comments'[m] = comments[m] /\ ~Holds(w, m)
      BY <1>0, <2>1, <2>4, PostedFields DEF Executed, Holds
    <3> QED
      BY <1>s, <2>1, <2>2, <3>1 DEF Sure, Holds
  <2> QED
    BY <2>3, <2>4
<1>6. ASSUME NEW w \in Workers, DeliverRaises(w) \/ Crash(w) PROVE Sure(m)'
  <2>1. hand[w].msg # m /\ UNCHANGED row
    BY <1>6 DEF DeliverRaises, Crash
  <2>2. comments'[m] = comments[m]
    BY <1>0, <1>6, <2>1, PostedFields DEF DeliverRaises, Crash, Executed
  <2>3. /\ \A v \in Workers : v # w => hand'[v] = hand[v]
        /\ ~Holds(w, m) /\ ~Holds(w, m)'
    BY <1>0, <1>6, <2>1 DEF DeliverRaises, Crash, Holds, TypeOK, Free
  <2> QED
    BY <1>s, <2>1, <2>2, <2>3 DEF Sure, Holds
<1>7. ASSUME NEW w \in Workers, MarkSent(w) \/ MarkFailed(w) PROVE Sure(m)'
  <2>1. PICK s \in {"SENT", "PENDING"} : /\ row' = Recorded(hand[w].msg, s)
                                         /\ s = "PENDING" => hand[w].phase = "failed"
    BY <1>7 DEF MarkSent, MarkFailed
  <2>2. /\ hand[w].phase # "idle" /\ UNCHANGED comments
        /\ \A v \in Workers : hand'[v] = IF v = w THEN Free ELSE hand[v]
    BY <1>0, <1>7 DEF MarkSent, MarkFailed, TypeOK
  <2>3. \A k \in Message :
            row'[k].status = IF k = hand[w].msg /\ row[k].status = "SENDING" THEN s ELSE row[k].status
    BY <1>0, <2>1, RecordedFields
  <2>4. CASE hand[w].msg = m
    <3>1. Holds(w, m) /\ row[m].status = "SENDING" /\ s = "SENT"
      BY <1>s, <2>1, <2>2, <2>4 DEF Sure, Holds
    <3>2. \A v \in Workers : ~Holds(v, m)'
      BY <1>s, <2>2, <3>1 DEF Sure, Holds, Free
    <3> QED
      BY <1>s, <2>2, <2>3, <2>4, <3>1, <3>2 DEF Sure
  <2>5. CASE hand[w].msg # m
    <3>1. \A v \in Workers : Holds(v, m)' <=> Holds(v, m)
      BY <2>2, <2>5 DEF Holds, Free
    <3> QED
      BY <1>s, <2>2, <2>3, <2>5, <3>1 DEF Sure, Holds, Free
  <2> QED
    BY <2>4, <2>5
<1> QED
  BY <1>1, <1>2, <1>3, <1>4, <1>5, <1>6, <1>7 DEF Next, Step

\* Whatever Plane does with a comment it has already, a message leaves a second
\* one only when its delivery was interrupted: run_one_outbox records an outcome
\* whoever holds the lease, and _post_idempotent_comment does not search first.
THEOREM RepetitionTheorem == Spec => []RepeatedInDoubt
<1>1. Init => Undisturbed
  BY DEF Init, Undisturbed, Sure, Holds, NoRow, Free
<1>2. Inv /\ Undisturbed => RepeatedInDoubt
  <2> SUFFICES ASSUME Inv, Undisturbed, NEW m \in Message, m \notin doubtful
               PROVE  ~(comments[m] > 1)
    BY DEF RepeatedInDoubt
  <2>1. comments[m] <= 1 /\ comments[m] \in 0..2
    BY DEF Undisturbed, Sure, Inv, TypeOK
  <2> QED
    BY <2>1
<1> QED
  BY InvTheorem, UndisturbedSteps, <1>1, <1>2, PTL DEF Spec

-------------------------------------------------------------------------------
(* One process that sends everything and does not die.                     *)

\* Whoever holds a message has claimed it, and Plane has been asked for a state
\* only on behalf of rows that name one.
Claimed ==
    /\ \A w \in Workers : hand[w].phase # "idle" => w \in senders
    /\ \A m \in patched : row[m].status # "NONE" /\ row[m].says \in Bound

Living == crashes = 0 /\ \A v, w \in senders : v = w

\* The messages that are being sent are those that are held.
HeldAreSent ==
    /\ \A w \in Workers : hand[w].phase # "idle" => row[hand[w].msg].status = "SENDING"
    /\ \A m \in Message : row[m].status = "SENDING" =>
           \E w \in Workers : hand[w].phase # "idle" /\ hand[w].msg = m

\* A message is sent, and Plane asked, only after all messages before it.
InOrder ==
    \A m \in Message : row[m].status \in {"SENDING", "SENT"} \/ m \in patched =>
        \A n \in Message : n < m => row[n].status = "SENT"

\* Plane is in the state that was asked for last.
ShowsLast ==
    \A m \in patched : (\A n \in patched : n <= m) => planeState = row[m].says

OneSender == Claimed /\ (Living => HeldAreSent /\ InOrder /\ ShowsLast)

\* Each step of the processes keeps the order.
LEMMA OneSenderSteps ==
    ASSUME Inv, OneSender, [Next]_vars PROVE OneSender'
<1>0. TypeOK /\ RowsExist /\ Claimed /\ Inv'
  BY Steps DEF Inv, OneSender
<1>m. /\ \A w \in Workers : hand[w].msg \in Message
      /\ \A m, n \in Message : m \in Nat /\ (m # n => m < n \/ n < m) /\ ~(m < n /\ n < m) /\ ~(m < m)
  BY <1>0, BoundsAssumption DEF TypeOK, Message
<1>1. CASE UNCHANGED vars
  BY <1>1 DEF vars, OneSender, Claimed, Living, HeldAreSent, InOrder, ShowsLast
<1>2. ASSUME NEW s \in Subject, Emit(s) PROVE OneSender'
  <2>1. PICK c \in Message : c = created + 1 /\ row[c].status = "NONE"
    BY <1>0, <1>2, BoundsAssumption DEF Emit, Message, TypeOK, RowsExist
  <2>2. /\ \A m \in Message : m # c => row'[m] = row[m]
        /\ row'[c].status = "PENDING"
        /\ UNCHANGED <<hand, planeState, patched, crashes, senders>>
    BY <1>0, <1>2, <2>1 DEF Emit, TypeOK
  <2>3. c \notin patched /\ \A w \in Workers : hand[w].phase # "idle" => hand[w].msg # c
    BY <1>0, <2>1 DEF Claimed, RowsExist
  <2>4. patched \subseteq Message
    BY <1>0 DEF TypeOK
  <2>5. Claimed'
    BY <1>0, <2>2, <2>3, <2>4 DEF Claimed
  <2>6. ASSUME Living' PROVE HeldAreSent' /\ InOrder' /\ ShowsLast'
    <3>1. HeldAreSent /\ InOrder /\ ShowsLast
      BY <2>2, <2>6 DEF OneSender, Living
    <3>2. HeldAreSent'
      BY <1>m, <2>2, <2>3, <3>1 DEF HeldAreSent
    <3>3. InOrder'
      BY <2>1, <2>2, <2>3, <3>1 DEF InOrder
    <3>4. ShowsLast'
      BY <2>2, <2>3, <2>4, <3>1 DEF ShowsLast
    <3> QED
      BY <3>2, <3>3, <3>4
  <2> QED
    BY <2>5, <2>6 DEF OneSender
<1>3. ASSUME NEW m \in Message, LeaseExpires(m) PROVE OneSender'
  <2>1. /\ \A n \in Message : row'[n].status = row[n].status /\ row'[n].says = row[n].says
        /\ UNCHANGED <<hand, planeState, patched, crashes, senders>>
        /\ patched \subseteq Message
    BY <1>0, <1>3 DEF LeaseExpires, TypeOK, Row
  <2> QED
    BY <1>m, <2>1 DEF OneSender, Claimed, Living, HeldAreSent, InOrder, ShowsLast
<1>4. ASSUME NEW w \in Workers, Claim(w) PROVE OneSender'
  <2>1. PICK m \in Message : /\ FirstDue(m)
                             /\ row' = [row EXCEPT ![m].status = "SENDING", ![m].live = TRUE]
                             /\ hand' = [hand EXCEPT ![w] = [phase |-> "claimed", msg |-> m]]
    BY <1>4 DEF Claim
  <2>2. /\ \A n \in Message : /\ row'[n].says = row[n].says
                              /\ row'[n].status = IF n = m THEN "SENDING" ELSE row[n].status
        /\ \A v \in Workers : hand'[v] = IF v = w THEN [phase |-> "claimed", msg |-> m] ELSE hand[v]
        /\ UNCHANGED <<created, planeState, patched, crashes>> /\ senders' = senders \cup {w}
        /\ patched \subseteq Message /\ hand[w].phase = "idle"
    BY <1>0, <1>4, <2>1 DEF Claim, TypeOK, Row
  <2>3. Claimed'
    BY <1>0, <2>2 DEF Claimed
  <2>4. ASSUME Living' PROVE HeldAreSent' /\ InOrder' /\ ShowsLast'
    <3>1. HeldAreSent /\ InOrder /\ ShowsLast
      BY <2>2, <2>4 DEF OneSender, Living
    <3>2. \A v \in Workers : hand[v].phase = "idle"
      BY <1>0, <2>2, <2>4 DEF Claimed, Living
    <3>3. \A n \in Message : row[n].status # "SENDING"
      BY <3>1, <3>2 DEF HeldAreSent
    <3>4. ASSUME NEW n \in Message, n < m PROVE row[n].status = "SENT"
      <4>1. ~Due(n) /\ row[m].status # "NONE"
        BY <2>1, <3>4 DEF FirstDue, Due
      <4>2. m <= created /\ created \in Nat
        BY <1>0, <4>1, BoundsAssumption DEF RowsExist, TypeOK
      <4>3. n <= created
        BY <1>m, <3>4, <4>2
      <4>4. row[n].status # "NONE" /\ row[n].status # "PENDING" /\ row[n].status # "SENDING"
        BY <1>0, <3>3, <4>1, <4>3 DEF RowsExist, Due
      <4> QED
        BY <1>0, <4>4 DEF TypeOK, Row
    <3>5. HeldAreSent'
      BY <2>2, <3>2, <3>3 DEF HeldAreSent
    <3>6. InOrder'
      <4> SUFFICES ASSUME NEW k \in Message, NEW n \in Message, n < k,
                          row'[k].status \in {"SENDING", "SENT"} \/ k \in patched'
                   PROVE  row'[n].status = "SENT"
        BY DEF InOrder
      <4>1. CASE k = m
        BY <1>m, <2>2, <3>4, <4>1
      <4>2. CASE k # m
        <5>1. row[n].status = "SENT"
          BY <2>2, <3>1, <4>2 DEF InOrder
        <5>2. n # m
          BY <2>1, <5>1 DEF FirstDue, Due
        <5> QED
          BY <2>2, <5>1, <5>2
      <4> QED
        BY <4>1, <4>2
    <3>7. ShowsLast'
      BY <2>2, <3>1 DEF ShowsLast
    <3> QED
      BY <3>5, <3>6, <3>7
  <2> QED
    BY <2>3, <2>4 DEF OneSender
<1>5. ASSUME NEW w \in Workers, Deliver(w) \/ DeliverRaises(w) PROVE OneSender'
  <2>m. PICK m \in Message : m = hand[w].msg
    BY <1>m
  <2>1. /\ UNCHANGED <<created, row, crashes, senders>> /\ hand[w].phase # "idle"
        /\ \A v \in Workers : hand'[v].msg = hand[v].msg
                              /\ (hand'[v].phase = "idle" <=> hand[v].phase = "idle")
    BY <1>0, <1>5 DEF Deliver, DeliverRaises, TypeOK
  <2>2. \/ UNCHANGED <<planeState, patched>>
        \/ /\ row[m].says \in Bound
           /\ planeState' = row[m].says /\ patched' = patched \cup {m}
    BY <1>5, <2>m DEF Deliver, DeliverRaises, Executed
  <2>3. row[m].status # "NONE" /\ patched \subseteq Message
    BY <1>0, <2>1, <2>m DEF RowsExist, TypeOK
  <2>4. Claimed'
    BY <1>0, <2>1, <2>2, <2>3 DEF Claimed
  <2>5. ASSUME Living' PROVE HeldAreSent' /\ InOrder' /\ ShowsLast'
    <3>1. HeldAreSent /\ InOrder /\ ShowsLast
      BY <2>1, <2>5 DEF OneSender, Living
    <3>2. row[m].status = "SENDING"
      BY <2>1, <2>m, <3>1 DEF HeldAreSent
    <3>3. HeldAreSent'
      BY <2>1, <3>1 DEF HeldAreSent
    <3>4. InOrder'
      BY <2>1, <2>2, <3>1, <3>2 DEF InOrder
    <3>5. \A n \in patched : n <= m
      <4> SUFFICES ASSUME NEW n \in patched, m < n PROVE FALSE
        BY <1>m, <2>3
      <4> QED
        BY <2>3, <3>1, <3>2 DEF InOrder
    <3>6. ShowsLast'
      <4>1. CASE UNCHANGED <<planeState, patched>>
        BY <2>1, <3>1, <4>1 DEF ShowsLast
      <4>2. CASE planeState' = row[m].says /\ patched' = patched \cup {m}
        <5> SUFFICES ASSUME NEW k \in patched', \A n \in patched' : n <= k
                     PROVE  planeState' = row'[k].says
          BY DEF ShowsLast
        <5>1. m <= k /\ k <= m /\ k \in Message
          BY <1>m, <2>3, <3>5, <4>2
        <5>2. k = m
          BY <1>m, <5>1
        <5> QED
          BY <2>1, <4>2, <5>2
      <4> QED
        BY <2>2, <4>1, <4>2
    <3> QED
      BY <3>3, <3>4, <3>6
  <2> QED
    BY <2>4, <2>5 DEF OneSender
<1>6. ASSUME NEW w \in Workers, Crash(w) PROVE OneSender'
  <2>1. crashes' # 0
    BY <1>0, <1>6, BoundsAssumption DEF Crash, TypeOK
  <2>2. /\ UNCHANGED <<row, patched, senders>>
        /\ \A v \in Workers : hand'[v].phase # "idle" => hand[v].phase # "idle"
    BY <1>0, <1>6 DEF Crash, TypeOK, Free
  <2> QED
    BY <1>0, <2>1, <2>2 DEF OneSender, Claimed, Living
<1>7. ASSUME NEW w \in Workers, MarkSent(w) \/ MarkFailed(w) PROVE OneSender'
  <2>m. PICK m \in Message : m = hand[w].msg
    BY <1>m
  <2>1. PICK s \in {"SENT", "PENDING"} : row' = Recorded(m, s)
    BY <1>7, <2>m DEF MarkSent, MarkFailed
  <2>2. \A n \in Message :
               /\ row'[n].says = row[n].says
               /\ row'[n].status = IF n = m /\ row[n].status = "SENDING" THEN s ELSE row[n].status
    BY <1>0, <2>1, RecordedFields
  <2>3. /\ UNCHANGED <<planeState, patched, crashes, senders>> /\ patched \subseteq Message
        /\ \A v \in Workers : v # w => hand'[v] = hand[v]
        /\ hand'[w].phase = "idle" /\ hand[w].phase # "idle"
    BY <1>0, <1>7 DEF MarkSent, MarkFailed, TypeOK, Free
  <2>4. Claimed'
    BY <1>0, <2>2, <2>3 DEF Claimed
  <2>5. ASSUME Living' PROVE HeldAreSent' /\ InOrder' /\ ShowsLast'
    <3>1. HeldAreSent /\ InOrder /\ ShowsLast
      BY <2>3, <2>5 DEF OneSender, Living
    <3>2. \A v \in Workers : v # w => hand[v].phase = "idle"
      BY <1>0, <2>3, <2>5 DEF Claimed, Living
    <3>3. /\ row[m].status = "SENDING" /\ row'[m].status = s
          /\ \A n \in Message : n # m => row[n].status # "SENDING" /\ row'[n].status = row[n].status
      BY <2>2, <2>3, <2>m, <3>1, <3>2 DEF HeldAreSent
    <3>4. HeldAreSent'
      BY <2>3, <3>2, <3>3 DEF HeldAreSent
    <3>5. InOrder'
      <4> SUFFICES ASSUME NEW k \in Message, NEW n \in Message, n < k,
                          row'[k].status \in {"SENDING", "SENT"} \/ k \in patched'
                   PROVE  row'[n].status = "SENT"
        BY DEF InOrder
      <4>1. row[k].status \in {"SENDING", "SENT"} \/ k \in patched
        BY <2>3, <3>3
      <4>2. row[n].status = "SENT"
        BY <3>1, <4>1 DEF InOrder
      <4> QED
        BY <3>3, <4>2
    <3>6. ShowsLast'
      BY <2>2, <2>3, <3>1 DEF ShowsLast
    <3> QED
      BY <3>4, <3>5, <3>6
  <2> QED
    BY <2>4, <2>5 DEF OneSender
<1> QED
  BY <1>1, <1>2, <1>3, <1>4, <1>5, <1>6, <1>7 DEF Next, Step

\* Only finitely many processes have claimed a message.
LEMMA SendersFinite == Spec => []IsFiniteSet(senders)
<1>1. Init => IsFiniteSet(senders)
  BY FS_EmptySet DEF Init
<1>2. IsFiniteSet(senders) /\ [Next]_vars => IsFiniteSet(senders)'
  <2> SUFFICES ASSUME IsFiniteSet(senders), [Next]_vars PROVE IsFiniteSet(senders')
    OBVIOUS
  <2>1. senders' = senders \/ \E w : senders' = senders \cup {w}
    BY DEF Next, Step, Emit, LeaseExpires, Claim, Deliver, DeliverRaises, MarkSent, MarkFailed,
       Crash, vars
  <2> QED
    BY <2>1, FS_AddElement
<1> QED
  BY <1>1, <1>2, PTL DEF Spec

\* At most one process has sent if there is at most one in the set.
LEMMA AtMostOne ==
    ASSUME NEW S, IsFiniteSet(S), Cardinality(S) <= 1, NEW v \in S, NEW w \in S
    PROVE  v = w
<1> SUFFICES ASSUME v # w PROVE FALSE
  OBVIOUS
<1>1. PICK T : T = {v}
  OBVIOUS
<1>2. IsFiniteSet(T) /\ Cardinality(T) = 1 /\ w \notin T
  BY <1>1, FS_Singleton
<1>3. Cardinality(T \cup {w}) = 1 + 1
  BY <1>2, FS_AddElement
<1>4. Cardinality(T \cup {w}) <= Cardinality(S) /\ Cardinality(S) \in Nat
  BY <1>1, FS_Subset, FS_CardinalityType
<1> QED
  BY <1>3, <1>4

\* With the messages in order Plane shows the last stage once all are sent.
LEMMA OneSenderFollows ==
    Inv /\ OneSender /\ IsFiniteSet(senders) => PlaneFollowsTheLiving
<1> SUFFICES ASSUME Inv, OneSender, IsFiniteSet(senders), crashes = 0, Cardinality(senders) <= 1,
                    \A m \in 1..created : row[m].status = "SENT",
                    NEW m \in 1..created, row[m].says \in Bound,
                    \A n \in 1..created : row[n].says \in Bound => n <= m
             PROVE  planeState = row[m].says
  BY DEF PlaneFollowsTheLiving, PlaneFollows
<1>1. Living
  BY AtMostOne DEF Living
<1>2. m \in Message /\ TypeOK
  BY BoundsAssumption DEF Inv, TypeOK, Message
<1>3. m \in patched
  BY <1>2 DEF Inv, SentWasDelivered, Done
<1>4. ASSUME NEW n \in patched PROVE n <= m
  <2>1. n \in Message /\ row[n].status # "NONE" /\ row[n].says \in Bound
    BY <1>2 DEF TypeOK, OneSender, Claimed
  <2>2. n \in 1..created
    BY <1>2, <2>1, BoundsAssumption DEF Inv, RowsExist, TypeOK, Message
  <2> QED
    BY <2>1, <2>2
<1> QED
  BY <1>1, <1>3, <1>4 DEF OneSender, ShowsLast

\* As long as one process sends everything and does not die, Plane shows the
\* last stage of the feature once nothing is left to send (FIFO claims of
\* run_one_outbox).
THEOREM ProjectionTheorem == Spec => []PlaneFollowsTheLiving
<1>1. Init => OneSender
  BY DEF Init, OneSender, Claimed, Living, HeldAreSent, InOrder, ShowsLast, NoRow, Free
<1>2. OneSender /\ Inv /\ [Next]_vars => OneSender'
  BY OneSenderSteps
<1> QED
  BY <1>1, <1>2, InvTheorem, SendersFinite, OneSenderFollows, PTL DEF Spec
===============================================================================
