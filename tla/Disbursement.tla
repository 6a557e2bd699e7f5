---------------------------- MODULE Disbursement ----------------------------
(***************************************************************************)
(* The payout attempts of one accepted, e-signed loan offer.               *)
(*                                                                         *)
(* A disbursement row is one attempt.  An admin records it, the worker     *)
(* claims it and sends it to the payout provider with its idempotency key, *)
(* and three parties report on it afterwards: the worker's reconciliation, *)
(* provider webhooks, and an admin's recheck.  A failed or reversed        *)
(* attempt may be followed by another row with a key of its own.           *)
(*                                                                         *)
(* Every service call holds the row lock from its read to its commit, over *)
(* the provider call too, so a call is one step here.  What is not under   *)
(* the lock is split: the worker's claim and its submits are separate      *)
(* transactions, and a retry reads the attempt before it waits for locks.  *)
(* A call that is rolled back (crash, refused constraint, refused posting) *)
(* leaves the database as it was and the provider as the call left it:     *)
(* the same step as a submit whose answer is lost.                         *)
(***************************************************************************)
EXTENDS Naturals, FiniteSets

CONSTANTS
    MaxAttempts,   \* bound on the rows of the offer
    Quirks         \* what the provider may do beyond its contract

ASSUME MaxAttemptsAssumption == MaxAttempts \in Nat \ {0}

(***************************************************************************)
(* "late_success": a payout reported FAILED is paid after all.             *)
(* "late_landing": a submit that timed out reaches the provider later.     *)
(* "misreport":    a report may carry any status, amount or reference.     *)
(***************************************************************************)
ASSUME QuirksAssumption ==
    Quirks \subseteq {"late_success", "late_landing", "misreport"}

Attempts == 1 .. MaxAttempts

NoRef == 0
\* The provider's reference for attempt a's key is a itself.
Refs == 0 .. MaxAttempts

Status == {"PENDING", "PROCESSING", "SUCCESS", "FAILED", "REVERSED",
           "REQUIRES_REVIEW"}
Live == {"PENDING", "PROCESSING", "SUCCESS", "REQUIRES_REVIEW"}
Settled == {"SUCCESS", "REVERSED"}

\* domain/disbursement.py TRANSITIONS, as a set of edges.
Transitions ==
    ({"PENDING"} \X {"PROCESSING", "FAILED", "REQUIRES_REVIEW"})
        \cup ({"PROCESSING"} \X {"SUCCESS", "FAILED", "REQUIRES_REVIEW"})
        \cup ({"REQUIRES_REVIEW"} \X {"SUCCESS", "FAILED"})
        \cup {<<"SUCCESS", "REVERSED">>, <<"FAILED", "REQUIRES_REVIEW">>}

PayoutState == {"ABSENT", "PROCESSING", "SUCCESS", "FAILED", "REVERSED"}
Reportable == PayoutState \ {"ABSENT"}
\* A report may carry a status the code does not know ("OTHER"), and may be
\* of another amount, whatever its status: SUCCESS stands for them all.
Report ==
    [status : Reportable \cup {"OTHER"}, ref : Refs, amountOk : {TRUE}]
        \cup [status : {"SUCCESS"}, ref : Refs, amountOk : {FALSE}]

Events == Attempts \X Reportable
Postings == Attempts \X {"paid", "reversed"}

Tasks == Attempts \X {"submit", "poll"}

NoView == [attempt |-> 0, status |-> "NONE"]
Views == [attempt : Attempts, status : {"FAILED", "REVERSED"}] \cup {NoView}

VARIABLES
    count,     \* number of rows; row a exists iff a <= count
    status,    \* status of each row; of no meaning above count
    ref,       \* provider_ref of each row
    seen,      \* provider events stored in disbursement_events
    books,     \* ledger transactions posted for the offer's disbursements
    tooOld,    \* rows dispatched more than max_unresolved_hours ago
    tasks,     \* the worker's lists: rows it claimed, rows it found to poll
    view,      \* what a retry in progress read before it took its locks
    payout,    \* the provider's own record of each key
    reported,  \* events the provider has emitted and may redeliver for ever
    delayed    \* submits still on their way after the caller gave up

rowVars == <<count, status, ref>>
dbVars == <<rowVars, seen, books>>
providerVars == <<payout, reported, delayed>>
vars == <<dbVars, tooOld, tasks, view, providerVars>>

Rows == {a \in Attempts : a <= count}
NoOtherLive(a) == \A b \in Rows \ {a} : status[b] \notin Live

Init ==
    /\ count = 0
    /\ status = [a \in Attempts |-> "PENDING"]
    /\ ref = [a \in Attempts |-> NoRef]
    /\ seen = {} /\ books = {}
    /\ tooOld = {} /\ tasks = {}
    /\ view = NoView
    /\ payout = [a \in Attempts |-> "ABSENT"]
    /\ reported = {} /\ delayed = {}

-----------------------------------------------------------------------------
(* The provider.                                                           *)

\* The key's payout becomes p, and the provider has something to report.  A
\* provider that misreports sends stray events only (StrayWebhook).
Becomes(a, p) ==
    /\ payout' = [payout EXCEPT ![a] = p]
    /\ reported' = IF "misreport" \in Quirks THEN reported
                   ELSE reported \cup {<<a, p>>}

\* A submit arrives: the first one per key creates the payout, and later
\* ones change nothing.
Land(a) ==
    IF payout[a] = "ABSENT"
    THEN \E p \in {"PROCESSING", "SUCCESS", "FAILED"} : Becomes(a, p)
    ELSE UNCHANGED <<payout, reported>>

ProviderMoves ==
    {<<"PROCESSING", "SUCCESS">>, <<"PROCESSING", "FAILED">>,
     <<"SUCCESS", "REVERSED">>}
        \cup (IF "late_success" \in Quirks THEN {<<"FAILED", "SUCCESS">>} ELSE {})

\* Of a misreporting provider only its reports are followed.
ProviderDecides(a) ==
    /\ "misreport" \notin Quirks
    /\ \E p \in Reportable : <<payout[a], p>> \in ProviderMoves /\ Becomes(a, p)
    /\ UNCHANGED <<dbVars, tooOld, tasks, view, delayed>>

DelayedLands(a) ==
    /\ a \in delayed
    /\ Land(a)
    /\ delayed' = delayed \ {a}
    /\ UNCHANGED <<dbVars, tooOld, tasks, view>>

\* What a status lookup for a's key may answer when the key is known.  The
\* reference is optional in a lookup's answer.
Answers(a) ==
    IF "misreport" \in Quirks THEN Report
    ELSE {[status |-> payout[a], ref |-> r, amountOk |-> TRUE] : r \in {NoRef, a}}

LookupFinds(a) == payout[a] # "ABSENT" \/ "misreport" \in Quirks
LookupMisses(a) == payout[a] = "ABSENT" \/ "misreport" \in Quirks

-----------------------------------------------------------------------------
(* Applying a report to a row: _apply and _review.                         *)

RefAfter(a, rep) ==
    IF ref[a] = NoRef THEN rep.ref ELSE ref[a]

\* The report disagrees with the row on the reference or the amount.
Contradicts(a, rep) ==
    \/ ref[a] # NoRef /\ rep.ref # NoRef /\ ref[a] # rep.ref
    \/ ~rep.amountOk

OnContradictionReview(a) == "review"   \* seeded fault: settled rows too

OnContradiction(a) == IF status[a] \in Settled THEN "ignore" ELSE "review"

\* What a report decides of a row that waits for its outcome.  Money cannot
\* be called paid without a provider reference.
Outcome(a, rep) ==
    LET known == RefAfter(a, rep) # NoRef
    IN  CASE rep.status = "PROCESSING" -> "wait"
          [] rep.status = "FAILED" -> "fail"
          [] rep.status = "SUCCESS" /\ known -> "pay"
          [] rep.status = "REVERSED" /\ known -> "payAndReverse"
          [] OTHER -> "review"

\* What the row's own status makes of a report; recheck is the one caller
\* that may take a row out of review.
Verdict(a, rep, fromReview) ==
    LET cur == status[a]
    IN  IF Contradicts(a, rep)
        THEN OnContradiction(a)
        ELSE CASE cur = "REVERSED" -> "ignore"
               [] cur = "SUCCESS" ->
                    IF rep.status = "REVERSED" THEN "reverse" ELSE "ignore"
               [] cur = "FAILED" ->
                    IF rep.status \in Settled THEN "review" ELSE "ignore"
               [] cur = "PENDING" -> "review"
               [] cur = "REQUIRES_REVIEW" /\ ~fromReview -> "ignore"
               [] OTHER -> Outcome(a, rep)

StatusAfter(cur, verdict) ==
    CASE verdict = "review" -> "REQUIRES_REVIEW"
      [] verdict = "fail" -> "FAILED"
      [] verdict = "pay" -> "SUCCESS"
      [] verdict \in {"reverse", "payAndReverse"} -> "REVERSED"
      [] OTHER -> cur

\* Seeded fault: the reversal is looked for before the payout is posted.
PostedByReversalFirst(a, verdict) ==
    CASE verdict \in {"pay", "payAndReverse"} -> {<<a, "paid">>}
      [] verdict = "reverse" -> {<<a, "reversed">>}
      [] OTHER -> {}

\* The ledger transactions posted in the same database transaction.  A
\* reversal without an original posts nothing.
PostedBy(a, verdict) ==
    CASE verdict = "pay" -> {<<a, "paid">>}
      [] verdict = "payAndReverse" -> {<<a, "paid">>, <<a, "reversed">>}
      [] verdict = "reverse" /\ <<a, "paid">> \in books -> {<<a, "reversed">>}
      [] OTHER -> {}

\* The two unique indexes of the table: one live row per offer, and one row
\* per provider reference.  The statement that breaks one is rolled back.
IndexesAllow(a, newStatus, newRef) ==
    /\ newStatus \in Live => NoOtherLive(a)
    /\ newRef # NoRef => \A b \in Rows \ {a} : ref[b] # newRef

Enact(a, rep, verdict) ==
    /\ IndexesAllow(a, StatusAfter(status[a], verdict), RefAfter(a, rep))
    /\ status' = [status EXCEPT ![a] = StatusAfter(@, verdict)]
    /\ ref' = [ref EXCEPT ![a] = RefAfter(a, rep)]
    /\ books' = books \cup PostedBy(a, verdict)
    /\ UNCHANGED count

Review(a) ==
    /\ IndexesAllow(a, "REQUIRES_REVIEW", ref[a])
    /\ status' = [status EXCEPT ![a] = "REQUIRES_REVIEW"]
    /\ UNCHANGED <<count, ref, books>>

-----------------------------------------------------------------------------
(* Creation.                                                               *)

\* A row for an offer whose preconditions hold; the offer lock is held, and
\* no row of the offer is live.  MaxAttempts bounds the rows of a behaviour.
NewRow ==
    /\ count < MaxAttempts
    /\ \A a \in Rows : status[a] \notin Live
    /\ count' = count + 1
    /\ status' = [status EXCEPT ![count + 1] = "PENDING"]
    /\ UNCHANGED <<ref, books>>

Create ==
    /\ NewRow
    /\ UNCHANGED <<seen, tooOld, tasks, view, providerVars>>

-----------------------------------------------------------------------------
(* The worker.                                                             *)

Claim(a) ==
    /\ a \in Rows /\ status[a] = "PENDING"
    /\ status' = [status EXCEPT ![a] = "PROCESSING"]
    /\ tasks' = tasks \cup {<<a, "submit">>}
    /\ UNCHANGED <<count, ref, seen, books, tooOld, view, providerVars>>

\* The outcomes of _submit for a locked PROCESSING row.
NoBeneficiary(a) ==
    /\ Review(a)
    /\ UNCHANGED providerVars

SubmitLost(a) ==
    /\ delayed' \in {delayed} \cup
           (IF "late_landing" \in Quirks THEN {delayed \cup {a}} ELSE {})
    /\ UNCHANGED <<rowVars, books, payout, reported>>

\* Seeded fault: a timeout is taken for a failure.
SubmitUnansweredFails(a) ==
    /\ Land(a)
    /\ status' = [status EXCEPT ![a] = "FAILED"]
    /\ UNCHANGED <<count, ref, books, delayed>>

SubmitUnanswered(a) ==
    /\ Land(a)
    /\ UNCHANGED <<rowVars, books, delayed>>

\* Refused by the provider: no payout exists and none is created.
SubmitRejected(a) ==
    /\ payout[a] = "ABSENT"
    /\ status' = [status EXCEPT ![a] = "FAILED"]
    /\ UNCHANGED <<count, ref, books, providerVars>>

\* What a submit that left the payout as p may answer, always with a reference.
SubmitAnswers(a, p) ==
    IF "misreport" \in Quirks
    THEN {rep \in Report : rep.ref # NoRef /\ rep.amountOk}
    ELSE [status : {p}, ref : {a}, amountOk : {TRUE}]

SubmitAnswered(a) ==
    /\ Land(a)
    /\ \E rep \in SubmitAnswers(a, payout'[a]) :
           Enact(a, rep, Verdict(a, rep, FALSE))
    /\ UNCHANGED delayed

Submit(a) ==
    \/ NoBeneficiary(a)
    \/ SubmitLost(a)
    \/ SubmitUnanswered(a)
    \/ SubmitRejected(a)
    \/ SubmitAnswered(a)

SubmitClaimed(a) ==
    /\ <<a, "submit">> \in tasks
    /\ tasks' = tasks \ {<<a, "submit">>}
    /\ IF status[a] = "PROCESSING" /\ ref[a] = NoRef
       THEN Submit(a)
       ELSE UNCHANGED <<rowVars, books, providerVars>>
    /\ UNCHANGED <<seen, tooOld, view>>

\* The worker process dies: its lists are gone.
WorkerCrash ==
    /\ tasks # {}
    /\ tasks' = {}
    /\ UNCHANGED <<dbVars, tooOld, view, providerVars>>

Age(a) ==
    /\ a \in Rows \ tooOld /\ status[a] = "PROCESSING"
    /\ tooOld' = tooOld \cup {a}
    /\ UNCHANGED <<dbVars, tasks, view, providerVars>>

\* The grace period since the dispatch or the last poll may be over at any
\* time.
FindCandidate(a) ==
    /\ a \in Rows /\ status[a] = "PROCESSING"
    /\ tasks' = tasks \cup {<<a, "poll">>}
    /\ UNCHANGED <<dbVars, tooOld, view, providerVars>>

\* Seeded fault: an old row that cannot be polled is taken for failed.
PollTimesOutFails(a) ==
    /\ a \in tooOld
    /\ status' = [status EXCEPT ![a] = "FAILED"]
    /\ UNCHANGED <<count, ref, books, providerVars>>

\* The poll times out.
PollTimesOut(a) ==
    /\ IF a \in tooOld THEN Review(a) ELSE UNCHANGED <<rowVars, books>>
    /\ UNCHANGED providerVars

PollMisses(a) ==
    /\ LookupMisses(a)
    /\ IF ref[a] # NoRef
       THEN Review(a) /\ UNCHANGED providerVars
       ELSE Submit(a)

\* Seeded fault: a payout that stays PROCESSING is polled for ever.
PollFindsPatient(a) ==
    /\ LookupFinds(a)
    /\ \E rep \in Answers(a) : Enact(a, rep, Verdict(a, rep, FALSE))
    /\ UNCHANGED providerVars

PollFinds(a) ==
    /\ LookupFinds(a)
    /\ \E rep \in Answers(a) :
          LET v == Verdict(a, rep, FALSE)
          IN  Enact(a, rep, IF v = "wait" /\ a \in tooOld THEN "review" ELSE v)
    /\ UNCHANGED providerVars

ReconcileOne(a) ==
    /\ <<a, "poll">> \in tasks
    /\ tasks' = tasks \ {<<a, "poll">>}
    /\ IF status[a] = "PROCESSING"
       THEN PollTimesOut(a) \/ PollMisses(a) \/ PollFinds(a)
       ELSE UNCHANGED <<rowVars, books, providerVars>>
    /\ UNCHANGED <<seen, tooOld, view>>

-----------------------------------------------------------------------------
(* Webhooks.  The row is found by the reference, else by the key.          *)

Addressee(r, key) ==
    IF \E b \in Rows : ref[b] = r
    THEN CHOOSE b \in Rows : ref[b] = r
    ELSE key

\* Seeded fault: the event is committed and its report is not applied.
WebhookStored(a, s) ==
    /\ <<a, s>> \in reported \ seen
    /\ seen' = seen \cup {<<a, s>>}
    /\ UNCHANGED <<rowVars, books, tooOld, tasks, view, providerVars>>

\* First delivery of an event; a redelivery of a stored one changes nothing.
Webhook(a, s) ==
    LET rep == [status |-> s, ref |-> a, amountOk |-> TRUE]
        d == Addressee(a, a)
    IN  /\ <<a, s>> \in reported \ seen
        /\ seen' = seen \cup {<<a, s>>}
        /\ Enact(d, rep, Verdict(d, rep, FALSE))
        /\ UNCHANGED <<tooOld, tasks, view, providerVars>>

\* A signed report, under any reference and any key, that is about no payout
\* the provider made that way.
StrayWebhook(d, rep) ==
    /\ "misreport" \in Quirks
    /\ rep.ref # NoRef /\ rep.status \in Reportable
    /\ d \in Rows /\ \E key \in Attempts : d = Addressee(rep.ref, key)
    /\ Enact(d, rep, Verdict(d, rep, FALSE))
    /\ UNCHANGED <<seen, tooOld, tasks, view, providerVars>>

-----------------------------------------------------------------------------
(* Admin actions.                                                          *)

\* The first read of retry, before the offer lock.  The second read, under
\* the locks, returns the same object unrefreshed; a status that cannot be
\* retried is refused there, so it is not worth remembering.
RetryRead(a) ==
    /\ a \in Rows /\ view = NoView
    /\ status[a] \in {"FAILED", "REVERSED"}
    /\ view' = [attempt |-> a, status |-> status[a]]
    /\ UNCHANGED <<dbVars, tooOld, tasks, providerVars>>

\* Another row is live, or the provider cannot be reached.
RetryRefused == UNCHANGED <<rowVars, books>>

\* The provider does not call the payout failed: the row goes to review.  Of a
\* row that has been REVERSED since the first read, the table's trigger
\* (protect_disbursement) refuses the update, and the transaction is undone.
RetryBlocked(a) ==
    /\ view.status = "FAILED"
    /\ LookupFinds(a) /\ \E rep \in Answers(a) : rep.status # "FAILED"
    /\ IF status[a] = "REVERSED" THEN UNCHANGED <<rowVars, books>> ELSE Review(a)

RetryAccepted(a) ==
    /\ view.status = "FAILED" =>
          \/ LookupMisses(a)
          \/ \E rep \in Answers(a) : rep.status = "FAILED"
    /\ NewRow

\* The rest of retry, under the offer lock and the row lock.
Retry ==
    /\ view # NoView
    /\ view' = NoView
    /\ \/ RetryRefused
       \/ /\ \A b \in Rows : status[b] \notin Live
          /\ RetryBlocked(view.attempt) \/ RetryAccepted(view.attempt)
    /\ UNCHANGED <<seen, tooOld, tasks, providerVars>>

RecheckMisses(a) ==
    /\ LookupMisses(a)
    /\ LET rep == [status |-> "FAILED", ref |-> NoRef, amountOk |-> TRUE]
       IN  IF status[a] = "REQUIRES_REVIEW"
           THEN Enact(a, rep, Verdict(a, rep, TRUE))
           ELSE UNCHANGED <<rowVars, books>>

RecheckFinds(a) ==
    /\ LookupFinds(a)
    /\ \E rep \in Answers(a) :
          Enact(a, rep, Verdict(a, rep, status[a] = "REQUIRES_REVIEW"))

Recheck(a) ==
    /\ a \in Rows /\ status[a] \in {"PROCESSING", "REQUIRES_REVIEW"}
    /\ RecheckMisses(a) \/ RecheckFinds(a)
    /\ UNCHANGED <<seen, tooOld, tasks, view, providerVars>>

-----------------------------------------------------------------------------

Next ==
    \/ Create
    \/ Retry
    \/ \E a \in Attempts :
          \/ Claim(a) \/ SubmitClaimed(a)
          \/ Age(a) \/ FindCandidate(a) \/ ReconcileOne(a)
          \/ RetryRead(a) \/ Recheck(a)
          \/ ProviderDecides(a) \/ DelayedLands(a)
          \/ \E s \in Reportable : Webhook(a, s)
          \/ \E rep \in Report : StrayWebhook(a, rep)
    \/ WorkerCrash

Spec == Init /\ [][Next]_vars

(***************************************************************************)
(* The worker loops for ever (run_forever): a row it may take is taken in   *)
(* turn, and time passes.  A poll is strongly fair: a worker that dies may *)
(* lose its lists again and again, but not always just before the poll.    *)
(* Nothing is assumed of admins or of the provider.                        *)
(***************************************************************************)
WorkerFairness ==
    \A a \in Attempts :
        /\ WF_vars(Claim(a))
        /\ WF_vars(FindCandidate(a))
        /\ SF_vars(ReconcileOne(a))
        /\ WF_vars(Age(a))

\* The provider redelivers an event until the endpoint answers 200.
DeliveryFairness ==
    \A a \in Attempts : \A s \in Reportable : WF_vars(Webhook(a, s))

LiveSpec == Spec /\ WorkerFairness
DeliverySpec == LiveSpec /\ DeliveryFairness

-----------------------------------------------------------------------------
(* Properties.                                                             *)

TypeOK ==
    /\ count \in 0 .. MaxAttempts
    /\ status \in [Attempts -> Status]
    /\ ref \in [Attempts -> Refs]
    /\ seen \subseteq Events
    /\ books \subseteq Postings
    /\ tooOld \subseteq Attempts
    /\ tasks \subseteq Tasks
    /\ view \in Views
    /\ payout \in [Attempts -> PayoutState]
    /\ reported \subseteq Events
    /\ delayed \subseteq Attempts

\* Creations, retries (with their stale first read) and late reports race,
\* and still no two rows of the offer stand for money that is, or may be, on
\* its way.
OneLivePerOffer ==
    \A a, b \in Rows : status[a] \in Live /\ status[b] \in Live => a = b

\* The ledger and the rows never disagree, whatever the provider reports and
\* however often: a payout is posted exactly when its row says it was made,
\* and mirrored exactly when its row says it came back.
BooksMatchRows ==
    \A a \in Attempts :
        /\ <<a, "paid">> \in books <=> a \in Rows /\ status[a] \in Settled
        /\ <<a, "reversed">> \in books <=> a \in Rows /\ status[a] = "REVERSED"

\* The loan is never paid out twice: of all the keys ever used for the
\* offer, the money of one at most is with the customer or on its way, in
\* spite of lost answers, resubmits, crashes and retries.
AtMostOnePayout ==
    \A a, b \in Attempts :
        payout[a] \in {"PROCESSING", "SUCCESS"}
            /\ payout[b] \in {"PROCESSING", "SUCCESS"} => a = b

\* A final status is a fact about the money: what the row calls paid was
\* paid, what it calls reversed came back, and what it calls failed never
\* moved and never will.
RowsTellTheTruth ==
    \A a \in Rows :
        /\ status[a] = "SUCCESS" => payout[a] \in Settled
        /\ status[a] = "REVERSED" => payout[a] = "REVERSED"
        /\ status[a] = "FAILED" => payout[a] \in {"ABSENT", "FAILED"}

\* A success that was acknowledged to the provider (its event is stored and
\* will not be sent again) is never lost, in whatever order reports,
\* rechecks and retries follow: the row is settled or a human has it.
AcknowledgedSuccessKept ==
    \A a \in Rows :
        <<a, "SUCCESS">> \in seen => status[a] \in Settled \cup {"REQUIRES_REVIEW"}

\* What the rows and the provider's record mean in terms of the promise.  The
\* rounds of an offer follow one another, so a round is that of any row whose
\* payout was made and that does not say it came back.
Promise == INSTANCE PayoutPromise WITH
    money <- \E a \in Attempts : payout[a] = "SUCCESS",
    round <- IF \E a \in Rows : status[a] = "SUCCESS" THEN "booked"
             ELSE IF \E a \in Rows : status[a] # "REVERSED" /\ payout[a] \in Settled
             THEN "unbooked" ELSE "closed"

\* The payouts of an offer implement the promise: whatever is lost, late,
\* retried or crashed, the money moves out once per round and the books
\* follow it.
ImplementsPromise == Promise!Spec

\* None of the provider's news is lost to a refused update: what submits, polls,
\* webhooks and rechecks make of a report, in whatever order they come, is an
\* update that _move and the trigger protect_disbursement accept: Enact and
\* Review do not ask what these allow.  (A payout that is reversed when first
\* heard of takes two moves in one transaction.  The one update the trigger
\* does refuse is a retry's, which acts on a status read before the locks and
\* brings no news: RetryBlocked.  What the unique indexes refuse is
\* IndexesAllow's, and does lose news: LateSuccessIsLookedAt.)
NoNewsRefused ==
    [][\A a \in Rows :
          /\ \/ status'[a] = status[a]
             \/ <<status[a], status'[a]>> \in Transitions
             \/ <<status[a], "SUCCESS">> \in Transitions /\ status'[a] = "REVERSED"
          /\ ref[a] # NoRef => ref'[a] = ref[a]
          /\ status[a] = "REVERSED" => ref'[a] = ref[a]]_rowVars

\* Once the provider has the payout, the worker's polling gets it out of
\* PROCESSING: to its outcome, or to a human when it takes too long.
KnownPayoutResolves ==
    \A a \in Attempts :
        a \in Rows /\ status[a] = "PROCESSING" /\ payout[a] # "ABSENT"
            ~> status[a] # "PROCESSING"

\* core/config.py: "Still unresolved after this long => REQUIRES_REVIEW (a
\* human decides)."
UnresolvedGoesToReview ==
    \A a \in Attempts :
        a \in Rows /\ status[a] = "PROCESSING" /\ a \in tooOld
            ~> status[a] # "PROCESSING"

\* domain/disbursement.py: a success arriving after a failure means money
\* may have moved, and a human must look.
LateSuccessIsLookedAt ==
    \A a \in Attempts :
        a \in Rows /\ status[a] = "FAILED" /\ payout[a] = "SUCCESS"
            ~> status[a] # "FAILED"

\* retry: "Prove the provider really did not pay before paying again."  A new
\* attempt is recorded only when no earlier payout is out or on its way.
PaidAgainOnlyAfterProof ==
    [][count' > count =>
          \A a \in Rows : payout[a] \notin {"PROCESSING", "SUCCESS"}]_vars
=============================================================================
