--------------------------- MODULE Notifications ----------------------------
(***************************************************************************)
(* One notification, from the row that enqueue records to its delivery     *)
(* receipt.                                                                *)
(*                                                                         *)
(* Workers claim due rows in one transaction, send them one by one, each   *)
(* after reading it again, and record the result in another, under the     *)
(* row's lock.  A claim is a lease: when it has run out any worker may     *)
(* claim the row again, although the first may still be about to send it,  *)
(* or sending it.  No lock is held over a send.                            *)
(***************************************************************************)
EXTENDS Integers

CONSTANTS
    Workers,      \* worker processes; one pass of one of them at a time
    MaxAttempts   \* notification_max_attempts

ASSUME NotificationAssumption == MaxAttempts \in Nat \ {0}

\* "NONE": not enqueued yet.
Status == {"PENDING", "SENDING", "SENT", "DELIVERED", "DELIVERY_FAILED",
           "DEAD", "SUPPRESSED"}
\* The provider took the message, as far as the row knows.
Sent == {"SENT", "DELIVERED", "DELIVERY_FAILED"}

Failures == {"TRANSIENT_FAILURE", "PERMANENT_FAILURE", "LEASE_EXPIRED"}
Outcomes == Failures \cup {"SENT", "REQUEUED"}
Receipts == {"DELIVERED", "FAILED"}

\* What send_one may come to, and what a worker is doing with the row before.
Results == {"SENT", "TRANSIENT", "PERMANENT", "SUPPRESS"}
Task == [stage : {"asked"} \cup Results, attempt : 1 .. MaxAttempts]
Idle == [stage |-> "idle", attempt |-> 0]
Listed == [stage |-> "listed", attempt |-> 0]

VARIABLES
    status, attempts,   \* the row
    expired,            \* locked_at is longer ago than the lease
    trail,              \* notification_attempts: attempt numbers and outcomes
    task,               \* what each worker does with the row
    message,            \* the provider's record of the notification's key
    emitted, seen       \* receipts it may deliver, and those stored

rowVars == <<status, attempts, expired, trail>>
vars == <<rowVars, task, message, emitted, seen>>

Init ==
    /\ status = "NONE" /\ attempts = 0 /\ expired = FALSE /\ trail = {}
    /\ task = [w \in Workers |-> Idle]
    /\ message = "UNKNOWN" /\ emitted = {} /\ seen = {}

\* Append-only, one row per attempt number and outcome.
Record(outcome) == trail' = trail \cup {<<attempts, outcome>>}

\* Recorded at once when it cannot be sent.  An enqueue that finds the dedupe
\* key taken, before or when it inserts, returns what is there.
Enqueue ==
    /\ status = "NONE"
    /\ status' \in {"PENDING", "SUPPRESSED"}
    /\ UNCHANGED <<attempts, expired, trail, task, message, emitted, seen>>

-----------------------------------------------------------------------------
(* Claiming: the row is the worker's for the length of a lease.            *)

Claimed(w) ==
    /\ status' = "SENDING"
    /\ attempts' = attempts + 1
    /\ expired' = FALSE
    /\ task' = [task EXCEPT ![w] = Listed]

\* The backoff may be over at any time.
ClaimDue(w) ==
    /\ task[w] = Idle /\ status = "PENDING"
    /\ Claimed(w)
    /\ UNCHANGED <<trail, message, emitted, seen>>

LeaseExpires ==
    /\ status = "SENDING" /\ ~expired
    /\ expired' = TRUE
    /\ UNCHANGED <<status, attempts, trail, task, message, emitted, seen>>

Reclaim(w) ==
    /\ task[w] = Idle /\ status = "SENDING" /\ expired
    /\ attempts < MaxAttempts
    /\ Record("LEASE_EXPIRED") /\ Claimed(w)
    /\ UNCHANGED <<message, emitted, seen>>

\* Seeded fault: the expired attempt is not recorded.
DeadLetterUnrecorded(w) ==
    /\ task[w] = Idle /\ status = "SENDING" /\ expired
    /\ attempts >= MaxAttempts
    /\ status' = "DEAD" /\ expired' = FALSE
    /\ UNCHANGED <<attempts, trail, task, message, emitted, seen>>

\* Seeded fault: a row without attempts left is not claimed at all.
DeadLetterNever(w) ==
    /\ task[w] = Idle /\ FALSE
    /\ UNCHANGED vars

DeadLetter(w) ==
    /\ task[w] = Idle /\ status = "SENDING" /\ expired
    /\ attempts >= MaxAttempts
    /\ Record("LEASE_EXPIRED")
    /\ status' = "DEAD" /\ expired' = FALSE
    /\ UNCHANGED <<attempts, task, message, emitted, seen>>

-----------------------------------------------------------------------------
(* Sending.                                                                *)

\* The worker comes to the row, however long after its claim, and reads it.
\* The customer may have opted out since, and may have no destination.
SendStarts(w) ==
    /\ task[w] = Listed
    /\ IF status # "SENDING"
       THEN task' = [task EXCEPT ![w] = Idle] /\ UNCHANGED message
       ELSE \E stage \in {"SUPPRESS", "asked"} :
               /\ task' = [task EXCEPT ![w] = [stage |-> stage, attempt |-> attempts]]
               /\ message' = IF stage = "asked" /\ message = "UNKNOWN"
                             THEN "ASKED" ELSE message
    /\ UNCHANGED <<rowVars, emitted, seen>>

\* The provider takes the message once per key, perhaps when its caller is
\* gone.
Accept ==
    /\ message = "ASKED"
    /\ message' = "ACCEPTED"
    /\ UNCHANGED <<rowVars, task, emitted, seen>>

\* A timeout or a refusal says nothing about an earlier request.
Answer(w) ==
    /\ task[w].stage = "asked"
    /\ \E stage \in {"TRANSIENT", "PERMANENT"}
                       \cup (IF message = "ACCEPTED" THEN {"SENT"} ELSE {}) :
           task' = [task EXCEPT ![w].stage = stage]
    /\ UNCHANGED <<rowVars, message, emitted, seen>>

\* Seeded fault: after a timeout the message is taken for sent.
SettleTransientSent(result) ==
    CASE result \in {"SENT", "TRANSIENT"} -> status' = "SENT" /\ Record("SENT")
      [] result = "SUPPRESS" -> status' = "SUPPRESSED" /\ UNCHANGED trail
      [] result = "PERMANENT" -> status' = "DEAD" /\ Record("PERMANENT_FAILURE")

\* What a result makes of the row.
Settle(result) ==
    CASE result = "SENT" -> status' = "SENT" /\ Record("SENT")
      [] result = "SUPPRESS" -> status' = "SUPPRESSED" /\ UNCHANGED trail
      [] result = "PERMANENT" -> status' = "DEAD" /\ Record("PERMANENT_FAILURE")
      [] result = "TRANSIENT" ->
           /\ status' = IF attempts >= MaxAttempts THEN "DEAD" ELSE "PENDING"
           /\ Record("TRANSIENT_FAILURE")

\* Seeded fault: only the attempt number is compared.
OwnsByNumber(w) == attempts = task[w].attempt

\* "Still owns the row": by status and attempt number.
Owns(w) == status = "SENDING" /\ attempts = task[w].attempt

Finish(w) ==
    /\ task[w].stage \in Results
    /\ task' = [task EXCEPT ![w] = Idle]
    /\ IF Owns(w) THEN Settle(task[w].stage) /\ expired' = FALSE /\ UNCHANGED attempts
       ELSE UNCHANGED rowVars
    /\ UNCHANGED <<message, emitted, seen>>

\* The worker dies, or its transaction fails: its pass is lost.
Crash(w) ==
    /\ task[w] # Idle
    /\ task' = [task EXCEPT ![w] = Idle]
    /\ UNCHANGED <<rowVars, message, emitted, seen>>

\* requeue_dead: an admin grants a fresh set of attempts.
Requeue ==
    /\ status = "DEAD"
    /\ Record("REQUEUED")
    /\ status' = "PENDING" /\ attempts' = 0
    /\ UNCHANGED <<expired, task, message, emitted, seen>>

-----------------------------------------------------------------------------
(* Delivery receipts, of an accepted message only, in any order.           *)

Emit(r) ==
    /\ message = "ACCEPTED"
    /\ emitted' = emitted \cup {r}
    /\ UNCHANGED <<rowVars, task, message, seen>>

\* First delivery of a receipt; it is stored whatever comes of it.  The row is
\* found by the reference, which it has from when it is SENT, and the first
\* word stands.
Receipt(r) ==
    /\ r \in emitted \ seen
    /\ seen' = seen \cup {r}
    /\ status' = IF status # "SENT" THEN status
                 ELSE IF r = "DELIVERED" THEN "DELIVERED" ELSE "DELIVERY_FAILED"
    /\ UNCHANGED <<attempts, expired, trail, task, message, emitted>>

-----------------------------------------------------------------------------

Claim(w) == ClaimDue(w) \/ Reclaim(w) \/ DeadLetter(w)

Next ==
    \/ Enqueue \/ LeaseExpires \/ Requeue \/ Accept
    \/ \E r \in Receipts : Emit(r) \/ Receipt(r)
    \/ \E w \in Workers :
          \/ ClaimDue(w) \/ Reclaim(w) \/ DeadLetter(w)
          \/ SendStarts(w) \/ Answer(w) \/ Finish(w) \/ Crash(w)

Spec == Init /\ [][Next]_vars

(***************************************************************************)
(* Workers loop for ever, their sends end (the provider's client raises    *)
(* NotificationTransient on a timeout) and leases run out.  A worker may   *)
(* crash in every pass.                                                    *)
(***************************************************************************)
WorkerFairness ==
    /\ WF_vars(LeaseExpires)
    /\ WF_vars(\E w \in Workers : Claim(w))
    /\ \A w \in Workers : WF_vars(SendStarts(w) \/ Answer(w) \/ Finish(w) \/ Crash(w))

LiveSpec == Spec /\ WorkerFairness

-----------------------------------------------------------------------------
(* Properties.                                                             *)

TypeOK ==
    /\ status \in Status \cup {"NONE"}
    /\ attempts \in 0 .. MaxAttempts
    /\ expired \in BOOLEAN
    /\ trail \subseteq (0 .. MaxAttempts) \X Outcomes
    /\ task \in [Workers -> Task \cup {Idle, Listed}]
    /\ message \in {"UNKNOWN", "ASKED", "ACCEPTED"}
    /\ emitted \subseteq Receipts /\ seen \subseteq Receipts

\* A row that waits to be claimed has an attempt left, whoever put it back:
\* a claim counts up without looking, and one row beyond max_attempts would
\* make ck_notification_attempts abort the claims of the whole batch, in every
\* pass from then on.
AttemptsLeft == status = "PENDING" => attempts < MaxAttempts

\* However many workers had the row, and however often it was requeued, its
\* trail explains its status: it is sent, and only then, when an attempt is
\* recorded as SENT, and it is dead because its last attempt failed.
TrailTellsStatus ==
    /\ status \in Sent <=> \E k \in 1 .. MaxAttempts : <<k, "SENT">> \in trail
    /\ status = "DEAD" => \E o \in Failures : <<attempts, o>> \in trail

\* The row is never taken for sent unless the provider has the message,
\* whatever timed out, crashed or was retried.
SentWasAccepted == status \in Sent => message = "ACCEPTED"

\* A worker that comes too late undoes nothing: what is sent is never sent
\* again or given up, the first receipt stands, what is suppressed stays so,
\* and only an admin brings a dead row back.
NoWayBack ==
    [][/\ status \in Sent => status' \in Sent
       /\ status \in {"DELIVERED", "DELIVERY_FAILED", "SUPPRESSED"} => status' = status
       /\ status = "DEAD" /\ status' # "DEAD" => Requeue]_vars

\* A notification does not stay on its way: it is sent, suppressed or dead
\* in the end, even if every worker crashes again and again.
Resolves ==
    status \in {"PENDING", "SENDING"} ~> status \notin {"PENDING", "SENDING"}

\* models/notification.py: "Every send attempt and how it ended."  When an
\* attempt comes to an end other than suppression, the trail gets a row.
EveryAttemptRecorded ==
    [][status = "SENDING" /\ (status' # "SENDING" \/ attempts' # attempts)
           /\ status' # "SUPPRESSED"
       => trail' # trail]_vars
=============================================================================
