------------------------ MODULE NotificationsProofs -------------------------
(***************************************************************************)
(* Theorems about Notifications for every number of workers and attempts.  *)
(***************************************************************************)
EXTENDS Notifications, TLAPS

\* A row that is being sent has been claimed at least once, one that is not
\* there yet has not.
ClaimsCounted ==
    /\ status = "SENDING" => attempts > 0
    /\ status = "NONE" => attempts = 0

\* Types need both: a claim counts up without looking, and a sender takes the
\* number it finds.
Core == TypeOK /\ AttemptsLeft /\ ClaimsCounted

\* A worker that will record SENT has been told so by the provider.
SentIsTrue ==
    \A w \in Workers : task[w].stage = "SENT" => message = "ACCEPTED"

\* One step of worker w.
WorkerStep(w) ==
    \/ ClaimDue(w) \/ Reclaim(w) \/ DeadLetter(w)
    \/ SendStarts(w) \/ Answer(w) \/ Finish(w) \/ Crash(w)

\* One step of anybody else.
OtherStep ==
    \/ Enqueue \/ LeaseExpires \/ Requeue \/ Accept
    \/ \E r \in Receipts : Emit(r) \/ Receipt(r)

LEMMA NextIsAStep == Next => OtherStep \/ \E w \in Workers : WorkerStep(w)
BY DEF Next, OtherStep, WorkerStep

-----------------------------------------------------------------------------
(* What a step does, whoever takes it.                                     *)

\* What a result makes of a row whose worker still owns it.
LEMMA SettleType ==
    ASSUME Core, NEW w \in Workers, task[w].stage \in Results, Owns(w),
           Settle(task[w].stage)
    PROVE  /\ status' \in {"SENT", "SUPPRESSED", "DEAD", "PENDING"}
           /\ status' = "PENDING" => attempts < MaxAttempts
           /\ attempts \in 1 .. MaxAttempts
           /\ \/ UNCHANGED trail /\ status' = "SUPPRESSED"
              \/ Record("SENT") /\ status' = "SENT" /\ task[w].stage = "SENT"
              \/ Record("PERMANENT_FAILURE") /\ status' = "DEAD"
              \/ Record("TRANSIENT_FAILURE") /\ status' \in {"DEAD", "PENDING"}
<1>1. task[w] \in Task \cup {Idle, Listed}
  BY DEF Core, TypeOK
<1>2. task[w] \in Task
  BY <1>1 DEF Idle, Listed, Results
<1>3. attempts \in 1 .. MaxAttempts
  BY <1>2 DEF Owns, Task
<1>4. CASE task[w].stage = "SENT"
  BY <1>3, <1>4 DEF Settle, Results
<1>5. CASE task[w].stage = "SUPPRESS"
  BY <1>3, <1>5 DEF Settle, Results
<1>6. CASE task[w].stage = "PERMANENT"
  BY <1>3, <1>6 DEF Settle, Results
<1>7. CASE task[w].stage = "TRANSIENT"
  <2>1. /\ status' = IF attempts >= MaxAttempts THEN "DEAD" ELSE "PENDING"
        /\ Record("TRANSIENT_FAILURE")
    BY <1>7 DEF Settle, Results
  <2> QED
    BY <1>3, <2>1, NotificationAssumption
<1> QED
  BY <1>4, <1>5, <1>6, <1>7 DEF Results

LEMMA RecordType ==
    ASSUME TypeOK, NEW o \in Outcomes, Record(o)
    PROVE  trail' \subseteq (0 .. MaxAttempts) \X Outcomes
BY DEF TypeOK, Record

-----------------------------------------------------------------------------
(* Types, and the attempt that is left.                                    *)

\* The row as a claim leaves it.
LEMMA ClaimedCore ==
    ASSUME Core, NEW w \in Workers, Claimed(w), attempts < MaxAttempts,
           trail' \subseteq (0 .. MaxAttempts) \X Outcomes,
           UNCHANGED <<message, emitted, seen>>
    PROVE  Core'
<1>1. attempts \in 0 .. MaxAttempts /\ MaxAttempts \in Nat
  BY NotificationAssumption DEF Core, TypeOK
<1>2. attempts' \in 0 .. MaxAttempts /\ attempts' > 0
  BY <1>1 DEF Claimed
<1>3. task' \in [Workers -> Task \cup {Idle, Listed}]
  BY DEF Core, TypeOK, Claimed
<1>4. status' = "SENDING" /\ expired' = FALSE
  BY DEF Claimed
<1>5. /\ message' \in {"UNKNOWN", "ASKED", "ACCEPTED"}
      /\ emitted' \subseteq Receipts /\ seen' \subseteq Receipts
  BY DEF Core, TypeOK
<1> QED
  BY <1>2, <1>3, <1>4, <1>5 DEF Core, TypeOK, AttemptsLeft, ClaimsCounted, Status

LEMMA CoreByWorker ==
    ASSUME Core, NEW w \in Workers, WorkerStep(w)
    PROVE  Core'
<1> USE NotificationAssumption DEF Core
<1>1. CASE ClaimDue(w)
  <2>1. attempts < MaxAttempts /\ Claimed(w) /\ UNCHANGED <<trail, message, emitted, seen>>
    BY <1>1 DEF ClaimDue, AttemptsLeft
  <2>2. trail' \subseteq (0 .. MaxAttempts) \X Outcomes
    BY <2>1 DEF TypeOK
  <2> QED
    BY <2>1, <2>2, ClaimedCore
<1>2. CASE Reclaim(w)
  <2>1. trail' \subseteq (0 .. MaxAttempts) \X Outcomes
    BY <1>2, RecordType DEF Reclaim, Outcomes, Failures
  <2> QED
    BY <1>2, <2>1, ClaimedCore DEF Reclaim
<1>3. CASE DeadLetter(w)
  <2>1. trail' \subseteq (0 .. MaxAttempts) \X Outcomes
    BY <1>3, RecordType DEF DeadLetter, Outcomes, Failures
  <2> QED
    BY <1>3, <2>1 DEF DeadLetter, TypeOK, AttemptsLeft, ClaimsCounted, Status
<1>4. CASE SendStarts(w)
  <2>1. CASE status # "SENDING"
    BY <1>4, <2>1 DEF SendStarts, rowVars, TypeOK, AttemptsLeft, ClaimsCounted
  <2>2. CASE status = "SENDING"
    <3>1. PICK stage \in {"SUPPRESS", "asked"} :
             /\ task' = [task EXCEPT ![w] = [stage |-> stage, attempt |-> attempts]]
             /\ message' = IF stage = "asked" /\ message = "UNKNOWN"
                           THEN "ASKED" ELSE message
      BY <1>4, <2>2 DEF SendStarts
    <3>2. attempts \in 1 .. MaxAttempts
      BY <2>2 DEF TypeOK, ClaimsCounted
    <3>3. [stage |-> stage, attempt |-> attempts] \in Task
      BY <3>2 DEF Task, Results
    <3> QED
      BY <1>4, <3>1, <3>3 DEF SendStarts, rowVars, TypeOK, AttemptsLeft, ClaimsCounted
  <2> QED
    BY <2>1, <2>2
<1>5. CASE Answer(w)
  <2>1. PICK stage \in Results : task' = [task EXCEPT ![w].stage = stage]
    BY <1>5 DEF Answer, Results
  <2>2. task[w] \in Task
    BY <1>5 DEF Answer, TypeOK, Idle, Listed
  <2>3. [task[w] EXCEPT !.stage = stage] \in Task
    BY <2>2 DEF Task
  <2>4. task' \in [Workers -> Task \cup {Idle, Listed}]
    BY <2>1, <2>3 DEF TypeOK
  <2> QED
    BY <1>5, <2>4 DEF Answer, rowVars, TypeOK, AttemptsLeft, ClaimsCounted
<1>6. CASE Finish(w)
  <2>1. CASE ~Owns(w)
    BY <1>6, <2>1 DEF Finish, rowVars, TypeOK, AttemptsLeft, ClaimsCounted
  <2>2. CASE Owns(w)
    <3>1. Settle(task[w].stage) /\ expired' = FALSE /\ UNCHANGED attempts
      BY <1>6, <2>2 DEF Finish
    <3>2. /\ status' \in {"SENT", "SUPPRESSED", "DEAD", "PENDING"}
          /\ status' = "PENDING" => attempts < MaxAttempts
          /\ UNCHANGED trail \/ \E o \in Outcomes : Record(o)
      BY <1>6, <2>2, <3>1, SettleType DEF Finish, Outcomes, Failures
    <3>3. trail' \subseteq (0 .. MaxAttempts) \X Outcomes
      BY <3>2, RecordType DEF TypeOK
    <3> QED
      BY <1>6, <3>1, <3>2, <3>3 DEF Finish, TypeOK, AttemptsLeft, ClaimsCounted, Status
  <2> QED
    BY <2>1, <2>2
<1>7. CASE Crash(w)
  BY <1>7 DEF Crash, rowVars, TypeOK, AttemptsLeft, ClaimsCounted
<1> QED
  BY <1>1, <1>2, <1>3, <1>4, <1>5, <1>6, <1>7 DEF WorkerStep

LEMMA CoreByOther ==
    ASSUME Core, OtherStep
    PROVE  Core'
<1> USE DEF Core
<1>1. CASE Enqueue
  <2>1. attempts' = attempts /\ status' \in {"PENDING", "SUPPRESSED"}
    BY <1>1 DEF Enqueue
  <2>2. attempts' = 0 /\ 0 < MaxAttempts
    BY <1>1, NotificationAssumption DEF Enqueue, ClaimsCounted
  <2> QED
    BY <1>1, <2>1, <2>2 DEF Enqueue, TypeOK, AttemptsLeft, ClaimsCounted, Status
<1>2. CASE LeaseExpires
  BY <1>2 DEF LeaseExpires, TypeOK, AttemptsLeft, ClaimsCounted
<1>3. CASE Requeue
  <2>1. trail' \subseteq (0 .. MaxAttempts) \X Outcomes
    BY <1>3, RecordType DEF Requeue, Outcomes
  <2>2. attempts' \in 0 .. MaxAttempts /\ attempts' < MaxAttempts
    BY <1>3, NotificationAssumption DEF Requeue
  <2> QED
    BY <1>3, <2>1, <2>2 DEF Requeue, TypeOK, AttemptsLeft, ClaimsCounted, Status
<1>4. CASE Accept
  BY <1>4 DEF Accept, rowVars, TypeOK, AttemptsLeft, ClaimsCounted
<1>5. ASSUME NEW r \in Receipts, Emit(r) PROVE Core'
  BY <1>5 DEF Emit, rowVars, TypeOK, AttemptsLeft, ClaimsCounted
<1>6. ASSUME NEW r \in Receipts, Receipt(r) PROVE Core'
  BY <1>6 DEF Receipt, TypeOK, AttemptsLeft, ClaimsCounted, Status
<1> QED
  BY <1>1, <1>2, <1>3, <1>4, <1>5, <1>6 DEF OtherStep

\* The types hold, a row that waits to be claimed always has an attempt left
\* (services/notifications.py: claim_due counts up without looking), and the
\* count tells whether the row was ever claimed.
THEOREM CoreHolds == Spec => []Core
<1>1. Init => Core
  <2> SUFFICES ASSUME Init PROVE Core
    OBVIOUS
  <2>1. attempts \in 0 .. MaxAttempts
    BY NotificationAssumption DEF Init
  <2>2. task \in [Workers -> Task \cup {Idle, Listed}]
    BY DEF Init
  <2> QED
    BY <2>1, <2>2 DEF Init, Core, TypeOK, AttemptsLeft, ClaimsCounted
<1>2. Core /\ [Next]_vars => Core'
  <2> SUFFICES ASSUME Core, [Next]_vars PROVE Core'
    OBVIOUS
  <2>1. CASE UNCHANGED vars
    BY <2>1 DEF vars, rowVars, Core, TypeOK, AttemptsLeft, ClaimsCounted
  <2>2. CASE Next
    BY <2>2, NextIsAStep, CoreByWorker, CoreByOther
  <2> QED
    BY <2>1, <2>2
<1> QED
  BY <1>1, <1>2, PTL DEF Spec

\* Every variable keeps its type, for any number of workers and attempts.
THEOREM TypeCorrect == Spec => []TypeOK
BY CoreHolds, PTL DEF Core

\* A row that waits to be claimed has an attempt left, however it came to
\* wait: enqueued, put back after a failure, or requeued by an admin.
THEOREM ClaimsFit == Spec => []AttemptsLeft
BY CoreHolds, PTL DEF Core

-----------------------------------------------------------------------------
(* The trail.                                                              *)

\* What the trail shows of a send that was accepted.
SentRecorded == \E k \in 1 .. MaxAttempts : <<k, "SENT">> \in trail

\* A new row other than SENT leaves that as it is.
LEMMA RecordKeepsSent ==
    ASSUME NEW o, o # "SENT", Record(o)
    PROVE  SentRecorded' <=> SentRecorded
BY DEF Record, SentRecorded

LEMMA TrailByWorker ==
    ASSUME Core, TrailTellsStatus, NEW w \in Workers, WorkerStep(w)
    PROVE  TrailTellsStatus'
<1>0. status \in Sent <=> SentRecorded
  BY DEF TrailTellsStatus, SentRecorded
<1>1. CASE ClaimDue(w)
  BY <1>1, <1>0 DEF ClaimDue, Claimed, TrailTellsStatus, Sent
<1>2. CASE Reclaim(w)
  <2>1. /\ status = "SENDING" /\ status' = "SENDING"
        /\ SentRecorded' <=> SentRecorded
    BY <1>2, RecordKeepsSent DEF Reclaim, Claimed
  <2> QED
    BY <1>0, <2>1 DEF TrailTellsStatus, SentRecorded, Sent
<1>3. CASE DeadLetter(w)
  <2>1. /\ status = "SENDING" /\ status' = "DEAD"
        /\ SentRecorded' <=> SentRecorded
    BY <1>3, RecordKeepsSent DEF DeadLetter
  <2>2. attempts' = attempts /\ <<attempts, "LEASE_EXPIRED">> \in trail'
    BY <1>3 DEF DeadLetter, Record
  <2> QED
    BY <1>0, <2>1, <2>2 DEF TrailTellsStatus, SentRecorded, Sent, Failures
<1>4. CASE SendStarts(w)
  BY <1>4 DEF SendStarts, rowVars, TrailTellsStatus
<1>5. CASE Answer(w)
  BY <1>5 DEF Answer, rowVars, TrailTellsStatus
<1>6. CASE Finish(w)
  <2>1. CASE ~Owns(w)
    BY <1>6, <2>1 DEF Finish, rowVars, TrailTellsStatus
  <2>2. CASE Owns(w)
    <3>1. /\ task[w].stage \in Results /\ Settle(task[w].stage)
          /\ attempts' = attempts /\ status = "SENDING"
      BY <1>6, <2>2 DEF Finish, Owns
    <3>2. attempts \in 1 .. MaxAttempts
      BY <2>2, <3>1, SettleType
    <3>3. CASE UNCHANGED trail /\ status' = "SUPPRESSED"
      BY <1>0, <3>1, <3>3 DEF TrailTellsStatus, SentRecorded, Sent
    <3>4. CASE Record("SENT") /\ status' = "SENT"
      BY <3>2, <3>4 DEF Record, TrailTellsStatus, Sent
    <3>5. CASE Record("PERMANENT_FAILURE") /\ status' = "DEAD"
      <4>1. SentRecorded' <=> SentRecorded
        BY <3>5, RecordKeepsSent
      <4>2. <<attempts, "PERMANENT_FAILURE">> \in trail'
        BY <3>5 DEF Record
      <4> QED
        BY <1>0, <3>1, <3>5, <4>1, <4>2 DEF TrailTellsStatus, SentRecorded, Sent, Failures
    <3>6. CASE Record("TRANSIENT_FAILURE") /\ status' \in {"DEAD", "PENDING"}
      <4>1. SentRecorded' <=> SentRecorded
        BY <3>6, RecordKeepsSent
      <4>2. <<attempts, "TRANSIENT_FAILURE">> \in trail'
        BY <3>6 DEF Record
      <4> QED
        BY <1>0, <3>1, <3>6, <4>1, <4>2 DEF TrailTellsStatus, SentRecorded, Sent, Failures
    <3> QED
      BY <2>2, <3>1, <3>3, <3>4, <3>5, <3>6, SettleType
  <2> QED
    BY <2>1, <2>2
<1>7. CASE Crash(w)
  BY <1>7 DEF Crash, rowVars, TrailTellsStatus
<1> QED
  BY <1>1, <1>2, <1>3, <1>4, <1>5, <1>6, <1>7 DEF WorkerStep

LEMMA TrailByOther ==
    ASSUME TrailTellsStatus, OtherStep
    PROVE  TrailTellsStatus'
<1>0. status \in Sent <=> SentRecorded
  BY DEF TrailTellsStatus, SentRecorded
<1>1. CASE Enqueue
  BY <1>1 DEF Enqueue, TrailTellsStatus, Sent
<1>2. CASE LeaseExpires
  BY <1>2 DEF LeaseExpires, TrailTellsStatus
<1>3. CASE Requeue
  <2>1. status = "DEAD" /\ status' = "PENDING" /\ (SentRecorded' <=> SentRecorded)
    BY <1>3, RecordKeepsSent DEF Requeue
  <2> QED
    BY <1>0, <2>1 DEF TrailTellsStatus, SentRecorded, Sent
<1>4. CASE Accept
  BY <1>4 DEF Accept, rowVars, TrailTellsStatus
<1>5. ASSUME NEW r \in Receipts, Emit(r) PROVE TrailTellsStatus'
  BY <1>5 DEF Emit, rowVars, TrailTellsStatus
<1>6. ASSUME NEW r \in Receipts, Receipt(r) PROVE TrailTellsStatus'
  BY <1>6 DEF Receipt, TrailTellsStatus, Sent
<1> QED
  BY <1>1, <1>2, <1>3, <1>4, <1>5, <1>6 DEF OtherStep

\* However many workers had the row and however often it was requeued, its
\* trail explains its status: sent if and only if an attempt is recorded as
\* SENT, dead only with its last attempt's failure on record.
THEOREM TrailExplains == Spec => []TrailTellsStatus
<1>1. Init => TrailTellsStatus
  BY DEF Init, TrailTellsStatus, Sent
<1>2. Core /\ TrailTellsStatus /\ [Next]_vars => TrailTellsStatus'
  <2> SUFFICES ASSUME Core, TrailTellsStatus, [Next]_vars PROVE TrailTellsStatus'
    OBVIOUS
  <2>1. CASE UNCHANGED vars
    BY <2>1 DEF vars, rowVars, TrailTellsStatus
  <2>2. CASE Next
    BY <2>2, NextIsAStep, TrailByWorker, TrailByOther
  <2> QED
    BY <2>1, <2>2
<1> QED
  BY <1>1, <1>2, CoreHolds, PTL DEF Spec

-----------------------------------------------------------------------------
(* The message.                                                            *)

MessageInv == SentIsTrue /\ SentWasAccepted

\* What only the workers' tasks and the provider's record are needed for.
LEMMA SentIsTrueStep ==
    ASSUME Core, SentIsTrue, [Next]_vars
    PROVE  SentIsTrue' /\ (message = "ACCEPTED" => message' = "ACCEPTED")
<1>0. task \in [Workers -> Task \cup {Idle, Listed}]
  BY DEF Core, TypeOK
<1>1. CASE UNCHANGED vars
  BY <1>1 DEF vars, SentIsTrue
<1>2. CASE OtherStep
  BY <1>2 DEF OtherStep, Enqueue, LeaseExpires, Requeue, Accept, Emit, Receipt, SentIsTrue
<1>3. ASSUME NEW w \in Workers, WorkerStep(w)
      PROVE  SentIsTrue' /\ (message = "ACCEPTED" => message' = "ACCEPTED")
  <2>1. /\ message = "ACCEPTED" => message' = "ACCEPTED"
        /\ \A x \in Workers \ {w} : task'[x] = task[x]
        /\ task'[w].stage = "SENT" => message' = "ACCEPTED"
    <3>1. CASE ClaimDue(w)
      BY <1>0, <3>1 DEF ClaimDue, Claimed, Listed
    <3>2. CASE Reclaim(w)
      BY <1>0, <3>2 DEF Reclaim, Claimed, Listed
    <3>3. CASE DeadLetter(w)
      BY <3>3 DEF DeadLetter, Idle
    <3>4. CASE SendStarts(w)
      BY <1>0, <3>4 DEF SendStarts, Idle
    <3>5. CASE Answer(w)
      <4>1. PICK stage \in {"TRANSIENT", "PERMANENT"}
                             \cup (IF message = "ACCEPTED" THEN {"SENT"} ELSE {}) :
               task' = [task EXCEPT ![w].stage = stage]
        BY <3>5 DEF Answer
      <4>2. task[w] \in Task
        BY <1>0, <3>5 DEF Answer, Idle, Listed
      <4>3. [task[w] EXCEPT !.stage = stage].stage = stage
        BY <4>2 DEF Task
      <4>4. message' = message
        BY <3>5 DEF Answer
      <4> QED
        BY <1>0, <4>1, <4>3, <4>4
    <3>6. CASE Finish(w)
      BY <1>0, <3>6 DEF Finish, Idle
    <3>7. CASE Crash(w)
      BY <1>0, <3>7 DEF Crash, Idle
    <3> QED
      BY <1>3, <3>1, <3>2, <3>3, <3>4, <3>5, <3>6, <3>7 DEF WorkerStep
  <2> QED
    BY <2>1 DEF SentIsTrue
<1> QED
  BY <1>1, <1>2, <1>3, NextIsAStep

\* Where the status may go.  What it becomes when a worker finishes is in
\* SettleType.
LEMMA StatusMoves ==
    ASSUME Core, [Next]_vars
    PROVE  \/ status' = status
           \/ status \in {"NONE", "PENDING"} /\ status' \in {"PENDING", "SENDING", "SUPPRESSED"}
           \/ status = "SENDING" /\ status' \in {"SENDING", "SUPPRESSED", "DEAD", "PENDING"}
           \/ /\ status = "SENDING" /\ status' = "SENT"
              /\ \E w \in Workers : task[w].stage = "SENT"
           \/ status = "SENT" /\ status' \in Sent
           \/ Requeue
<1>1. CASE UNCHANGED vars
  BY <1>1 DEF vars, rowVars
<1>2. CASE OtherStep
  BY <1>2 DEF OtherStep, Enqueue, LeaseExpires, Accept, Emit, Receipt, rowVars, Sent
<1>3. ASSUME NEW w \in Workers, WorkerStep(w)
      PROVE  \/ status' = status
             \/ status = "PENDING" /\ status' = "SENDING"
             \/ status = "SENDING" /\ status' \in {"SENDING", "SUPPRESSED", "DEAD", "PENDING"}
             \/ status = "SENDING" /\ status' = "SENT" /\ task[w].stage = "SENT"
  <2>1. CASE ClaimDue(w) \/ Reclaim(w) \/ DeadLetter(w)
    BY <2>1 DEF ClaimDue, Reclaim, DeadLetter, Claimed
  <2>2. CASE SendStarts(w) \/ Answer(w) \/ Crash(w)
    BY <2>2 DEF SendStarts, Answer, Crash, rowVars
  <2>3. CASE Finish(w) /\ ~Owns(w)
    BY <2>3 DEF Finish, rowVars
  <2>4. CASE Finish(w) /\ Owns(w)
    <3>1. task[w].stage \in Results /\ Settle(task[w].stage) /\ status = "SENDING"
      BY <2>4 DEF Finish, Owns
    <3> QED
      BY <2>4, <3>1, SettleType
  <2> QED
    BY <1>3, <2>1, <2>2, <2>3, <2>4 DEF WorkerStep
<1> QED
  BY <1>1, <1>2, <1>3, NextIsAStep

\* A row is never taken for sent unless the provider has the message,
\* whatever timed out, crashed or was retried.
THEOREM SentIsAccepted == Spec => []SentWasAccepted
<1>1. Init => MessageInv
  BY DEF Init, MessageInv, SentIsTrue, SentWasAccepted, Sent, Idle
<1>2. Core /\ MessageInv /\ [Next]_vars => MessageInv'
  <2> SUFFICES ASSUME Core, MessageInv, [Next]_vars PROVE MessageInv'
    OBVIOUS
  <2>1. SentIsTrue' /\ (message = "ACCEPTED" => message' = "ACCEPTED")
    BY SentIsTrueStep DEF MessageInv
  <2>2. status' \in Sent =>
           status \in Sent \/ \E w \in Workers : task[w].stage = "SENT"
    BY StatusMoves DEF Sent, Requeue
  <2> QED
    BY <2>1, <2>2 DEF MessageInv, SentIsTrue, SentWasAccepted
<1>3. MessageInv => SentWasAccepted
  BY DEF MessageInv
<1> QED
  BY <1>1, <1>2, <1>3, CoreHolds, PTL DEF Spec

\* A worker that comes too late undoes nothing: what is sent stays sent, the
\* first receipt stands, what is suppressed stays so, and only an admin brings
\* a dead row back.
THEOREM NothingUndone == Spec => NoWayBack
<1>1. ASSUME Core, [Next]_vars
      PROVE  [/\ status \in Sent => status' \in Sent
              /\ status \in {"DELIVERED", "DELIVERY_FAILED", "SUPPRESSED"} => status' = status
              /\ status = "DEAD" /\ status' # "DEAD" => Requeue]_vars
  BY <1>1, StatusMoves DEF Sent, Requeue
<1> QED
  BY <1>1, CoreHolds, PTL DEF Spec, NoWayBack
=============================================================================
