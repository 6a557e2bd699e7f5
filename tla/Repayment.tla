----------------------------- MODULE Repayment ------------------------------
(***************************************************************************)
(* The payments of one ACTIVE repayment schedule.                          *)
(*                                                                         *)
(* A customer initiates a payment, and its collection is opened at the     *)
(* payment provider under the payment's idempotency key.  What came of it  *)
(* is learnt from the call that opens it, from the worker's polls, from an *)
(* admin's recheck and from webhooks.  Money that came in is allocated to  *)
(* the instalments and posted to the ledger; money that went back is taken *)
(* off again.                                                              *)
(*                                                                         *)
(* Unlike disbursement, no lock is held over a provider call: a caller     *)
(* reads the payment, asks, and applies the answer later in a transaction  *)
(* of its own, under the locks of schedule and payment.  The three are     *)
(* separate steps here.  Everything done under the locks is one step, and  *)
(* a transaction that fails leaves no trace.                               *)
(***************************************************************************)
EXTENDS LoanAccount

CONSTANTS
    Callers,   \* handlers, workers and admins that can be asking the provider
    MaxOpen,   \* MAX_OPEN_PAYMENTS_PER_SCHEDULE
    Quirks     \* what the provider may do beyond its contract

(***************************************************************************)
(* "late_success": a collection reported FAILED is paid after all.         *)
(* "misreport":    a report may carry any status, amount or reference.     *)
(***************************************************************************)
ASSUME RepaymentAssumption ==
    /\ MaxOpen \in Nat
    /\ Quirks \subseteq {"late_success", "misreport"}

NoRef == 0
\* The provider's reference for payment p's key is p itself.
Refs == 0 .. MaxPayments

\* "NONE": not initiated yet.
Status == {"INITIATED", "PENDING", "SUCCESS", "FAILED", "REVERSED",
           "REQUIRES_REVIEW"}
Open == {"INITIATED", "PENDING", "REQUIRES_REVIEW"}
Settled == {"SUCCESS", "REVERSED"}

\* domain/repayment.py TRANSITIONS, as a set of edges.
Transitions ==
    ({"INITIATED"} \X {"PENDING", "SUCCESS", "FAILED", "REQUIRES_REVIEW"})
        \cup ({"PENDING"} \X {"SUCCESS", "FAILED", "REQUIRES_REVIEW"})
        \cup ({"REQUIRES_REVIEW"} \X {"SUCCESS", "FAILED"})
        \cup {<<"SUCCESS", "REVERSED">>, <<"FAILED", "REQUIRES_REVIEW">>}

Reportable == {"PENDING", "SUCCESS", "FAILED", "REVERSED"}
\* "SENT": a create request is under way, "REFUSED": the provider refused it.
Collection == {"ABSENT", "SENT", "REFUSED"} \cup Reportable
\* A report may carry a status the code does not know ("OTHER"), and may be
\* of another amount, whatever its status: SUCCESS stands for them all.
Report ==
    [status : Reportable \cup {"OTHER"}, ref : Refs, amountOk : {TRUE}]
        \cup [status : {"SUCCESS"}, ref : Refs, amountOk : {FALSE}]

\* Answers that are no report, and the absence of one (nothing came yet).
Plain(s) == [status |-> s, ref |-> NoRef, amountOk |-> TRUE]
Nothing == Plain("NOTHING")
Rejected == Plain("REJECTED")
NotFound == Plain("NOT_FOUND")

Kinds == {"dispatch", "poll", "recheck"}
Call == [kind : Kinds, payment : Payments,
         answer : Report \cup {Nothing, Rejected, NotFound}]
Idle == [kind |-> "idle", payment |-> 0, answer |-> Nothing]

VARIABLES
    status,      \* status of each payment
    ref,         \* its provider_ref
    amount,      \* its amount
    seen,        \* provider events stored in repayment_events
    old,         \* payments requested more than max_unresolved_hours ago
    call,        \* what each caller is doing between its two transactions
    collection,  \* the provider's own record of each key
    reported     \* events the provider has emitted and may redeliver for ever

payVars == <<status, ref, amount>>
dbVars == <<payVars, moneyVars, seen>>
providerVars == <<collection, reported>>
vars == <<dbVars, old, call, providerVars>>

Known == {p \in Payments : status[p] # "NONE"}

Init ==
    /\ AccountInit
    /\ status = [p \in Payments |-> "NONE"]
    /\ ref = [p \in Payments |-> NoRef]
    /\ amount = [p \in Payments |-> 0]
    /\ seen = {} /\ old = {} /\ reported = {}
    /\ call = [c \in Callers |-> Idle]
    /\ collection = [p \in Payments |-> "ABSENT"]

-----------------------------------------------------------------------------
(* The provider.                                                           *)

\* The key's collection becomes s, and the provider has something to report.
\* A provider that misreports sends stray events only (StrayEvent).
Becomes(p, s) ==
    /\ collection' = [collection EXCEPT ![p] = s]
    /\ reported' = IF s = "REFUSED" \/ "misreport" \in Quirks THEN reported
                   ELSE reported \cup {<<p, s>>}

\* A create request arrives, perhaps long after its caller gave up.  The
\* first one opens the collection or is refused for good, later ones change
\* nothing.
Land(p) ==
    /\ collection[p] = "SENT"
    /\ \E s \in {"PENDING", "REFUSED"}
                  \cup (IF "misreport" \in Quirks THEN {} ELSE {"SUCCESS", "FAILED"}) :
           Becomes(p, s)
    /\ UNCHANGED <<dbVars, old, call>>

ProviderMoves ==
    {<<"PENDING", "SUCCESS">>, <<"PENDING", "FAILED">>, <<"SUCCESS", "REVERSED">>}
        \cup (IF "late_success" \in Quirks THEN {<<"FAILED", "SUCCESS">>} ELSE {})

ProviderDecides(p) ==
    /\ "misreport" \notin Quirks
    /\ \E s \in Reportable : <<collection[p], s>> \in ProviderMoves /\ Becomes(p, s)
    /\ UNCHANGED <<dbVars, old, call>>

Exists(p) == collection[p] \in Reportable

\* What a lookup may answer now; it need not carry the reference.
LookupAnswers(p) ==
    IF Exists(p)
    THEN {[status |-> collection[p], ref |-> r, amountOk |-> TRUE] : r \in {NoRef, p}}
    ELSE {NotFound}

\* What a create request may answer now, if it has been answered.
CreateAnswers(p) ==
    IF Exists(p) THEN {[status |-> collection[p], ref |-> p, amountOk |-> TRUE]}
    ELSE IF collection[p] = "REFUSED" THEN {Rejected} ELSE {}

\* The answer leaves the provider; it tells what holds now, and stays on its
\* way while others act.
Respond(c) ==
    /\ "misreport" \notin Quirks
    /\ call[c] # Idle /\ call[c].answer = Nothing
    /\ \E a \in IF call[c].kind = "dispatch" THEN CreateAnswers(call[c].payment)
                ELSE LookupAnswers(call[c].payment) :
           call' = [call EXCEPT ![c].answer = a]
    /\ UNCHANGED <<dbVars, old, providerVars>>

\* The answers a caller may end with, the one it got or none.  When answers
\* may say anything, it does not matter when they were given.
Answers(c) ==
    IF "misreport" \notin Quirks THEN {call[c].answer, Nothing}
    ELSE IF call[c].kind = "dispatch"
    THEN {Nothing, Rejected} \cup {rep \in Report : rep.ref # NoRef /\ rep.amountOk}
    ELSE {Nothing, NotFound} \cup Report

-----------------------------------------------------------------------------
(* Applying a report to a payment: _apply, _settle, _reverse, _review.     *)

RefAfter(p, rep) ==
    IF ref[p] = NoRef THEN rep.ref ELSE ref[p]

\* The report disagrees with the payment on the reference or the amount.
Contradicts(p, rep) ==
    \/ ref[p] # NoRef /\ rep.ref # NoRef /\ ref[p] # rep.ref
    \/ ~rep.amountOk

\* Seeded fault: settled payments too.
OnContradictionReview(p) == "review"

OnContradiction(p) == IF status[p] \in Settled THEN "ignore" ELSE "review"

\* Seeded fault: an opened collection is taken for a paid one.
OutcomePaidWhenOpened(p, rep) ==
    LET known == RefAfter(p, rep) # NoRef
    IN  CASE rep.status \in {"PENDING", "SUCCESS"} /\ known -> "pay"
          [] rep.status = "FAILED" -> "fail"
          [] rep.status = "REVERSED" /\ known -> "payAndReverse"
          [] OTHER -> "review"

\* What a report decides of a payment that waits for its outcome.
Outcome(p, rep) ==
    LET known == RefAfter(p, rep) # NoRef
    IN  CASE rep.status = "PENDING" ->
               IF status[p] = "INITIATED" THEN "open" ELSE "wait"
          [] rep.status = "FAILED" -> "fail"
          [] rep.status = "SUCCESS" /\ known -> "pay"
          [] rep.status = "REVERSED" /\ known -> "payAndReverse"
          [] OTHER -> "review"

\* Seeded fault: a returned payment is looked at, its money left where it is.
VerdictReturnReviewed(p, rep, fromReview) ==
    LET cur == status[p]
    IN  IF Contradicts(p, rep)
        THEN OnContradiction(p)
        ELSE CASE cur = "REVERSED" -> "ignore"
               [] cur = "SUCCESS" ->
                    IF rep.status = "REVERSED" THEN "review" ELSE "ignore"
               [] cur = "FAILED" ->
                    IF rep.status \in Settled THEN "review" ELSE "ignore"
               [] cur = "REQUIRES_REVIEW" /\ ~fromReview -> "ignore"
               [] OTHER -> Outcome(p, rep)

\* What the payment's own status makes of a report; recheck is the one
\* caller that may take a payment out of review.
Verdict(p, rep, fromReview) ==
    LET cur == status[p]
    IN  IF Contradicts(p, rep)
        THEN OnContradiction(p)
        ELSE CASE cur = "REVERSED" -> "ignore"
               [] cur = "SUCCESS" ->
                    IF rep.status = "REVERSED" THEN "reverse" ELSE "ignore"
               [] cur = "FAILED" ->
                    IF rep.status \in Settled THEN "review" ELSE "ignore"
               [] cur = "REQUIRES_REVIEW" /\ ~fromReview -> "ignore"
               [] OTHER -> Outcome(p, rep)

StatusAfter(cur, verdict) ==
    CASE verdict = "review" -> "REQUIRES_REVIEW"
      [] verdict = "open" -> "PENDING"
      [] verdict = "fail" -> "FAILED"
      [] verdict = "pay" -> "SUCCESS"
      [] verdict \in {"reverse", "payAndReverse"} -> "REVERSED"
      [] OTHER -> cur

MoneyStays == UNCHANGED moneyVars

\* One payment per provider reference; the statement that breaks the unique
\* constraint is rolled back.
RefAllowed(p, newRef) ==
    newRef # NoRef => \A q \in Known \ {p} : ref[q] # newRef

\* Seeded fault: a return is posted, and never taken off the instalments.
EnactReturnsBooksOnly(p, rep, verdict) ==
    /\ RefAllowed(p, RefAfter(p, rep))
    /\ status' = [status EXCEPT ![p] = StatusAfter(@, verdict)]
    /\ ref' = [ref EXCEPT ![p] = RefAfter(p, rep)]
    /\ CASE verdict = "pay" -> Settle(p, amount[p])
         [] verdict = "reverse" ->
              Post(Mirror(p)) /\ UNCHANGED <<applied, due, paid, stage>>
         [] verdict = "payAndReverse" -> SettleAndReverse(p, amount[p])
         [] OTHER -> MoneyStays
    /\ UNCHANGED amount

Enact(p, rep, verdict) ==
    /\ RefAllowed(p, RefAfter(p, rep))
    /\ status' = [status EXCEPT ![p] = StatusAfter(@, verdict)]
    /\ ref' = [ref EXCEPT ![p] = RefAfter(p, rep)]
    /\ CASE verdict = "pay" -> Settle(p, amount[p])
         [] verdict = "reverse" -> Reverse(p)
         [] verdict = "payAndReverse" -> SettleAndReverse(p, amount[p])
         [] OTHER -> MoneyStays
    /\ UNCHANGED amount

Sets(p, s) ==
    /\ status' = [status EXCEPT ![p] = s]
    /\ MoneyStays /\ UNCHANGED <<ref, amount>>

NothingDone == UNCHANGED <<payVars, moneyVars>>

-----------------------------------------------------------------------------
(* The customer.                                                           *)

\* A payment with a client key not used yet.  A replay of a used key returns
\* its payment and changes nothing.
Initiate(p) ==
    /\ status[p] = "NONE"
    /\ \A q \in Payments : q < p => q \in Known
    /\ Cardinality({q \in Known : status[q] \in Open}) < MaxOpen
    /\ \E x \in Amounts :
          x <= Outstanding /\ amount' = [amount EXCEPT ![p] = x]
    /\ status' = [status EXCEPT ![p] = "INITIATED"]
    /\ UNCHANGED <<ref, moneyVars, seen, old, call, providerVars>>

-----------------------------------------------------------------------------
(* Calls: the read and the question ...                                    *)

Ask(c, kind, p) ==
    /\ call[c] = Idle
    /\ call' = [call EXCEPT ![c] =
                   [kind |-> kind, payment |-> p, answer |-> Nothing]]
    /\ UNCHANGED <<dbVars, old, reported>>

Dispatch(c, p) ==
    /\ status[p] = "INITIATED" /\ ref[p] = NoRef
    /\ Ask(c, "dispatch", p)
    /\ collection' = [collection EXCEPT ![p] = IF @ = "ABSENT" THEN "SENT" ELSE @]

\* The grace period may be over at any time.
Poll(c, p) ==
    /\ status[p] = "PENDING"
    /\ Ask(c, "poll", p)
    /\ UNCHANGED collection

Recheck(c, p) ==
    /\ status[p] \in Open
    /\ Ask(c, "recheck", p)
    /\ UNCHANGED collection

(* ... and what becomes of the answer, under the locks.                    *)

\* Nothing, when the call timed out.
DispatchOutcome(p, a) ==
    CASE a = Nothing -> NothingDone
      [] a = Rejected -> Sets(p, "FAILED")
      [] OTHER -> Enact(p, a, Verdict(p, a, FALSE))

DispatchEnds(p, a) ==
    IF status[p] = "INITIATED" THEN DispatchOutcome(p, a) ELSE NothingDone

\* Seeded fault: a payment that stays PENDING is polled for ever.
PollOutcomePatient(p, a) ==
    CASE a = Nothing -> NothingDone
      [] a = NotFound -> Sets(p, "REQUIRES_REVIEW")
      [] OTHER -> Enact(p, a, Verdict(p, a, FALSE))

PollOutcome(p, a) ==
    CASE a = Nothing ->
           IF p \in old THEN Sets(p, "REQUIRES_REVIEW") ELSE NothingDone
      [] a = NotFound -> Sets(p, "REQUIRES_REVIEW")
      [] OTHER ->
           LET v == Verdict(p, a, FALSE)
           IN  Enact(p, a, IF v = "wait" /\ p \in old THEN "review" ELSE v)

PollEnds(p, a) ==
    IF status[p] = "PENDING" THEN PollOutcome(p, a) ELSE NothingDone

RecheckEnds(p, a) ==
    LET fromReview == status[p] = "REQUIRES_REVIEW"
    IN  IF a = Nothing \/ status[p] \notin Open
           \/ (a = NotFound /\ ~fromReview)
        THEN NothingDone
        ELSE IF a = NotFound
        THEN Enact(p, Plain("FAILED"), Verdict(p, Plain("FAILED"), TRUE))
        ELSE Enact(p, a, Verdict(p, a, fromReview))

Finish(c) ==
    /\ call[c] # Idle
    /\ call' = [call EXCEPT ![c] = Idle]
    /\ \E a \in Answers(c) :
           LET p == call[c].payment
           IN  CASE call[c].kind = "dispatch" -> DispatchEnds(p, a)
                 [] call[c].kind = "poll" -> PollEnds(p, a)
                 [] call[c].kind = "recheck" -> RecheckEnds(p, a)
    /\ UNCHANGED <<seen, old, providerVars>>

\* The caller dies, or its transaction is rolled back, or the row it wants
\* is locked.
GiveUp(c) ==
    /\ call[c] # Idle
    /\ call' = [call EXCEPT ![c] = Idle]
    /\ UNCHANGED <<dbVars, old, providerVars>>

\* Only of a PENDING payment the age is ever looked at.
Age(p) ==
    /\ status[p] = "PENDING" /\ p \notin old
    /\ old' = old \cup {p}
    /\ UNCHANGED <<dbVars, call, providerVars>>

-----------------------------------------------------------------------------
(* Webhooks.  The payment is found by the reference, else by the key.      *)

Addressee(r, key) ==
    IF \E q \in Known : ref[q] = r
    THEN CHOOSE q \in Known : ref[q] = r
    ELSE key

\* First delivery of an event; a redelivery of a stored one changes nothing.
ReportedEvent(p, s) ==
    LET rep == [status |-> s, ref |-> p, amountOk |-> TRUE]
        d == Addressee(p, p)
    IN  /\ <<p, s>> \in reported \ seen
        /\ seen' = seen \cup {<<p, s>>}
        /\ Enact(d, rep, Verdict(d, rep, FALSE))
        /\ UNCHANGED <<old, call, providerVars>>

\* A signed report that is about no collection the provider made that way,
\* with a reference and a key that lead to payment d.
StrayEvent(d, rep) ==
    /\ "misreport" \in Quirks
    /\ rep.ref # NoRef /\ rep.status \in Reportable
    /\ \E key \in Payments : d = Addressee(rep.ref, key)
    /\ Enact(d, rep, Verdict(d, rep, FALSE))
    /\ UNCHANGED <<seen, old, call, providerVars>>

Webhook(p) ==
    /\ p \in Known
    /\ \/ \E s \in Reportable : ReportedEvent(p, s)
       \/ \E rep \in Report : StrayEvent(p, rep)

\* Late charges are assessed meanwhile.
LateCharge(i) ==
    /\ AssessCharge(i)
    /\ UNCHANGED <<payVars, seen, old, call, providerVars>>

-----------------------------------------------------------------------------

Next ==
    \/ \E p \in Payments :
          \/ Initiate(p) \/ Age(p)
          \/ Land(p) \/ ProviderDecides(p)
          \/ Webhook(p)
          \/ \E c \in Callers : Dispatch(c, p) \/ Poll(c, p) \/ Recheck(c, p)
    \/ \E c \in Callers : Respond(c) \/ Finish(c) \/ GiveUp(c)
    \/ \E i \in Instalments : LateCharge(i)

Spec == Init /\ [][Next]_vars

\* A poll of p comes to its end, by an answer or by a timeout.
PollFinishes(p) ==
    \E c \in Callers :
        call[c] # Idle /\ call[c].kind = "poll" /\ call[c].payment = p /\ Finish(c)

(***************************************************************************)
(* The worker loops for ever, calls time out, and time passes.  A worker   *)
(* that dies may lose a poll again and again, but not for ever.            *)
(***************************************************************************)
WorkerFairness ==
    /\ \A c \in Callers : WF_vars(Finish(c) \/ GiveUp(c))
    /\ \A p \in Payments :
          /\ SF_vars(\E c \in Callers : Poll(c, p))
          /\ SF_vars(PollFinishes(p))
          /\ WF_vars(Age(p))

LiveSpec == Spec /\ WorkerFairness

-----------------------------------------------------------------------------
(* Properties.                                                             *)

TypeOK ==
    /\ status \in [Payments -> Status \cup {"NONE"}]
    /\ ref \in [Payments -> Refs]
    /\ amount \in [Payments -> Amounts \cup {0}]
    /\ seen \subseteq Payments \X Reportable
    /\ old \subseteq Payments
    /\ call \in [Callers -> Call \cup {Idle}]
    /\ collection \in [Payments -> Collection]
    /\ reported \subseteq Payments \X Reportable

\* What the ledger holds of a payment is what its status says: received once
\* when it succeeded, mirrored once when it was returned, nothing before and
\* nothing for one that failed.
BooksMatchPayments ==
    \A p \in Payments :
        /\ Booked(p, "received") <=> status[p] \in Settled
        /\ Booked(p, "reversed") <=> status[p] = "REVERSED"

\* Whatever calls, retries, webhooks and rechecks do to the payments, the
\* account sees each of them received at most once and returned at most once
\* after that, each time with all that belongs to it: rows, allocations and
\* postings change together.
ReceivedAndReturnedOnce == AccountSpec

\* A payment is credited only for money that came in, and taken off only
\* for money that went back: no timeout, retry, or stale answer counts.
CreditOnlyForMoney ==
    \A p \in Payments :
        /\ status[p] = "SUCCESS" => collection[p] \in Settled
        /\ status[p] = "REVERSED" => collection[p] = "REVERSED"

\* Answers are applied long after they were asked for, to payments that
\* have moved on, and still no handler attempts an update that _move or the
\* tables' triggers would refuse: only edges of TRANSITIONS (two of them for
\* a payment first heard of when reversed), no new reference, no change to
\* stored allocations.  (The one update that is refused has no effect here:
\* a poll that times out stamps last_polled_at on a payment that may have
\* become REVERSED meanwhile, and nothing else is in that transaction.)
NoRefusedUpdate ==
    [][/\ \A p \in Known :
             /\ \/ status'[p] = status[p]
                \/ <<status[p], status'[p]>> \in Transitions
                \/ <<status[p], "SUCCESS">> \in Transitions /\ status'[p] = "REVERSED"
             /\ ref[p] # NoRef => ref'[p] = ref[p]
             /\ status[p] \in Settled => applied'[p] = applied[p]]_dbVars

\* A payment does not stay PENDING: it comes to its outcome, or to a human
\* when that takes too long.
PendingResolves ==
    \A p \in Payments : status[p] = "PENDING" ~> status[p] # "PENDING"

\* recheck: "only what the provider reports counts".  A payment whose
\* success was reported and acknowledged is not failed afterwards.
AcknowledgedSuccessKept ==
    \A p \in Payments :
        <<p, "SUCCESS">> \in seen => status[p] # "FAILED"
=============================================================================
