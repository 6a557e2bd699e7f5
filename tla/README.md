# Verification of the InPockets lending backend

InPockets is a lending service: a FastAPI application over PostgreSQL and
Redis, with a handful of worker processes. This directory holds TLA+ modules
for what it does, the TLC runs that check them and TLAPS proofs about them.

## The system

A loan goes through the system along one pipeline. Each component keeps its
state in its own tables and is driven by HTTP handlers (customers, admins,
provider webhooks) and by workers that loop for ever.

| Component (`src/app/...`) | State | Operations | What is hard |
|---|---|---|---|
| One-time passwords (`services/otp.py`) | code rows, reservations in Redis | request, send, verify | reservations outlive their request or their window |
| Sessions (`services/session.py`, `api/v1/auth.py`) | sessions in token families | open, refresh with rotation, log out, revoke | refreshes under a lock, revocations without |
| Onboarding, KYC, PAN, identity | one step per user, verification records | steps around provider calls | provider calls under a Redis lock that may expire, or under none |
| Documents (`services/document.py`) | bytes in object storage, rows that point at them | store | the same content stored twice at once |
| Applications (`services/loan_application.py`) | one row with a status | draft, submit, move | offers depend on it |
| Assessment and policy (`services/risk_engine.py`, `services/policy_engine.py`) | assessments, decisions | assess, evaluate, route | order of rules, thresholds, missing parts |
| Underwriting (`services/underwriting_review.py`, `_override.py`) | review cases | assign, claim, approve, reject | reached by no route |
| Loan offers (`services/loan_offer.py`) | versions of an offer per application | draft, issue, accept, decline, cancel, expire | acceptance racing expiry and supersession |
| E-signing (`services/esign.py`) | one live transaction per offer | start, callback, poll, review | callbacks late, twice, after the offer expired |
| Bank verification (`services/bank_verification.py`) | account checks, one verified per user | request, poll, resolve | an account superseded while a disbursement names it |
| **Disbursement** (`services/disbursement.py`) | one row per payout attempt | create, claim, submit, reconcile, webhook, retry, recheck | money leaves the bank; answers are lost |
| Ledger (`services/ledger.py`) | append-only balanced transactions | post, reverse | replayed postings, mirrors |
| Repayment (`services/repayment.py`) | schedule, instalments, payments, allocations | initiate, dispatch, webhook, reconcile, recheck, settle, reverse | provider calls made with no lock held, several payments in flight |
| Late charges (`services/late_charges.py`) | one row per instalment and day | assess | missed days, payments reversed in between |
| Collections (`services/collections.py`) | one open case per schedule | sync, remind, escalate, close | a periodic picture of a moving schedule |
| Notifications (`services/notifications.py`) | outbox rows with attempts and leases | enqueue, claim, send, receipt, requeue | senders that stall past their lease |
| Reconciliation (`services/reconciliation.py`) | runs, items | claim a run, execute, fail | a worker that lost its run |
| Pricing (`services/pricing.py`, `domain/pricing.py`) | versions, prices frozen into offers | draft, approve, reject, quote, freeze | rounding, approvals that take effect on a date |
| Support (`services/support.py`) | tickets and their events | open, reply, assign, resolve, escalate | a reply racing a resolution |
| Audit log, reporting, admin access | append-only records | - | - |

How they interact. An accepted offer, signed, with a verified bank account, may
be disbursed; a paid disbursement may get a repayment schedule; payments and
late charges move the schedule's instalments under one lock (the schedule's);
disbursements and payments post to the ledger in their own transaction;
collections read the schedule and ask notifications to send. Locks are always
taken in the order offer, schedule, payment, and offer, disbursement. Every
handler is one database transaction; what makes the system hard is what lies
outside of them: provider calls, webhooks, worker lists, and reads made before
a lock is taken.

What makes each component correct, in a sentence:

- disbursement: the loan is paid out once, and the row says what happened;
- ledger: it says what the rows say, and every mirror has an original;
- repayment: money that came in is counted once, on the right instalments;
- late charges: a day is charged once, on what was owed that day;
- offers and e-signing: the customer is bound by one version, the one signed;
- notifications: a message is sent once, and one that cannot be is given up visibly;
- collections: a case follows the loan's arrears as far as the worker's batch reaches;
- reconciliation: a run's result is that of the worker that owns it;
- pricing: what a loan of a past day costs stands, and a schedule asks back what the ledger says is owed;
- bank verification: money goes to an account proved to be the customer's;
- onboarding: nothing is verified, and paid for, twice at once;
- documents: what was said to be stored has its bytes and its row;
- sessions and passwords: a family has one session that works, and codes stay within their limit;
- support: no message of a customer ends up in a ticket nobody looks at;
- scoring and policy: who is worse off is not treated better, and the first rule that blocks decides.

## Modules

| Module | Stands for |
|---|---|
| `Disbursement` | all payout attempts of one offer: rows, stored events, ledger postings, the worker's lists, a retry in progress, and the provider |
| `PayoutPromise` | what disbursement promises, without rows or reports; `Disbursement` holds the mapping to it (`Promise`) |
| `DisbursementProofs` | proofs for every provider: types, one live row, the books |
| `DisbursementMoneyProofs` | proofs for a provider that keeps its contract: one payout, true rows, no lost success, the refinement of `PayoutPromise` |
| `LoanAccount` | the money of one active schedule: instalments, allocations, late charges, ledger postings; at the same time what repayment promises |
| `Repayment` | the payments of that schedule, extending `LoanAccount`: calls, polls, rechecks, webhooks, and the provider |
| `MCRepayment` | the instalment the runs of `Repayment` use |
| `RepaymentProofs` | proofs about `Repayment` for every number of payments, instalments and callers |
| `Notifications` | one notification: its row and lease, the trail of attempts, the workers, the provider and its receipts |
| `NotificationsProofs` | proofs about it for every number of workers and attempts |
| `LateCharges` | the charges of one overdue instalment, day by day, and the job that may miss days |
| `Pricing` | price versions, one loan's frozen price, its payout in the ledger, and its schedule |
| `RiskAssessment` | one application's assessment and the scorecard |
| `Policy` | the rules of a policy version, their evaluation and its routing |
| `LoanOffer` | one application and the versions of its offer |
| `ESign` | the attempts to sign the accepted offer's agreement; extends `LoanOffer` |
| `Sessions` | one customer's sessions and token families |
| `SignIn` | codes and their rate limit; extends `Sessions`, for a verified code opens one |
| `Onboarding` | one customer's step and verification records, with the distributed lock |
| `Documents` | object storage and rows of one owner |
| `BankVerification` | the customers' account verifications and the provider |
| `Collections` | loans in arrears, their cases and the worker's three-phase pass |
| `Reconciliation` | one day's run against a settlement report, with several runners |
| `Support` | one customer's tickets |
| `AccountsProofs` | proofs about `LoanAccount`, `LateCharges`, `Pricing`, `RiskAssessment` and `Policy` |
| `ServicingProofs` | proofs about `Support`, `Reconciliation` and `Collections` |
| `CustomerProofs` | proofs about `LoanOffer`, `ESign`, `Documents`, `Onboarding`, `Sessions`, `SignIn` and `BankVerification` |
| `SetLemmas` | what these three need of sets, counting, sums over a set and recursive functions |
| `MCAccounts`, `MCServicing`, `MCCustomer` | the three composite models the runs use, see below |

`Repayment` composes with `LoanAccount`: it decides when the account's
transactions `Settle`, `Reverse`, `SettleAndReverse` and `AssessCharge` happen,
and `ReceivedAndReturnedOnce` (that is, `AccountSpec`) is what it has to
implement. Disbursement and repayment share the ledger but no posting: the keys
of their transactions differ. `ESign` extends `LoanOffer` because an attempt
starts only for an accepted offer, and `SignIn` extends `Sessions`.

`MCAccounts`, `MCServicing` and `MCCustomer` each hold several models at once.
Their variable `part` is chosen at the start and never changes: a behaviour
takes the steps of one part and leaves the variables of the others as they
began. So the states of the parts add up and do not multiply, and what a run
finds of one part is what it would find in a run of its own. Parts that do not
interact are put together in this way; those that do (`ESign` and
`LoanOffer`, `SignIn` and `Sessions`, `Repayment` and `LoanAccount`) are
interleaved by their own next-state relations.

### Disbursement

The state is the database (`count`, `status`, `ref`: the rows; `seen`: the
stored events; `books`: the ledger), time (`tooOld`: rows older than
`disbursement_max_unresolved_hours`), the processes (`tasks`: the ids a worker
holds between two transactions; `view`: what a retry read before its locks) and
the provider (`payout`: its record per idempotency key; `reported`: the events
it may deliver, any number of times; `delayed`: submits still in flight).

One service call is one action, because a call holds the row lock from its
first locked read to its commit, over the provider call too. Where the code
does not hold the lock the model has separate steps: `Claim` and
`SubmitClaimed` are two transactions of the worker with its list in between,
`FindCandidate` and `ReconcileOne` likewise, and `RetryRead` is the read of
`retry` that precedes its locks and is not refreshed under them. `WorkerCrash`
empties the lists at any moment. A call that dies after the provider acted is
the step `SubmitUnanswered`, for the database rolls back and the provider does
not.

`_apply` is the heart of the code and is kept whole: `Contradicts`, `Verdict`
and `Outcome` are its decision in the order of its tests, and `Enact` its
effect: status, reference, posting, and the two unique indexes, whose refusal
rolls the transaction back and so disables the step. What `_move` and the trigger
`protect_disbursement` would refuse is *not* filtered there: that reports never
lead to it is `NoNewsRefused`. One update does run into the trigger, that of a
retry which saw the row FAILED before it was reversed; `RetryBlocked` has it
undone.

The provider keeps its contract when `Quirks = {}`: it is idempotent on the
key, creates nothing after the caller gave up, refuses only what it does not
have, calls a payout failed only when it failed for good, and reports the truth. Each quirk
drops one of these: `late_success`, `late_landing`, `misreport` (reports of any
status, amount and reference). Names, amounts, UTRs and audit rows are left
out: an amount is right or wrong. With `misreport` the provider's own record
no longer matters, so `ProviderDecides` is off and `SubmitAnswers`, `Answers` and
`StrayWebhook` choose any report at any time. What an offer must have to be disbursed
(accepted, signed, a verified account) is taken as given; a missing
beneficiary is the step `NoBeneficiary`.

### LoanAccount

An instalment has three *slots*, fee, interest and principal, and the slots of
all instalments are numbered in the order in which `allocate` fills them. `due`
and `paid` are the columns of `repayment_installments` slot by slot, `stage` its
status column, `applied` the stored allocations of each payment, and `books` the
ledger's repayment transactions: a key (payment and kind) and the credit lines
per account, the bank being debited with their sum. Amounts are multiples of a
unit: nothing in allocation depends on the size of the unit, only on
comparisons and differences. `Allocate` is the loop of `allocate` as a function
of the slot; `Settle`, `Reverse` and `SettleAndReverse` are `_settle`,
`_reverse` and both in one transaction, each with its postings; `Post` and
`Mirror` are `LedgerService.post` and `reverse`, refusing a used key with other
content. `AssessCharge` stands for what a late charge does to an instalment:
fee due goes up, the stored status stays; which day costs how much is
`LateCharges`, and here an instalment with unpaid principal may be overdue at
any time.

Every transaction holds the schedule's lock, so each is one step.

### Repayment

`status`, `ref` and `amount` are the rows of `repayment_payments`, `seen` the
stored events, `old` the payments past `payment_max_unresolved_hours`,
`collection` and `reported` the provider's record per idempotency key and the
events it may deliver any number of times.

The difference from disbursement is what makes this module: no lock is held
over a provider call. `dispatch_payment`, `reconcile_one` and `recheck` read
the payment and ask (`Dispatch`, `Poll`, `Recheck`), the provider answers with
what holds then (`Respond`), and the answer, or its absence, is applied under
the locks later (`Finish`). `call` is what a caller holds in between, and
anything may happen there: webhooks, other callers, the collection itself
opened late (`Land`). `GiveUp` is a caller that dies, is rolled back or finds the
row locked. `DispatchEnds`, `PollEnds` and `RecheckEnds` repeat the checks the
code makes under the locks; `Verdict`, `Outcome` and `Enact` are `_apply`.

The provider may pay a collection it reported failed (`late_success`) or say
anything (`misreport`: then answers are chosen when used, since their time of
origin no longer matters, and `Webhook` delivers any signed event, a
`StrayEvent`). It is always idempotent on the key, as the code relies on.

Left out: what a poll's time stamp does to the next poll's date (polls may
happen at any time), `dispatch_attempts`, checkout links, failure codes and
audit rows. The age of a payment is looked at only while it is PENDING, so that
is when it passes. A replayed client key and a redelivered event return what is
stored and change nothing: they are not steps.

### Notifications

`status`, `attempts` and `trail` are the row and its `notification_attempts`;
`expired` says that `locked_at` is longer ago than the lease; `seen` are the stored
events. `task` is what each worker does with the row: it has it on the list of
its pass (`Listed`), has asked the provider (`asked`), or holds a result that it
has yet to record. `message` and `emitted` are the provider's: its record of the
notification's idempotency key and the receipts it may deliver.

A pass of `run_once` claims in one transaction (`ClaimDue`, `Reclaim`, `DeadLetter`:
the three things `claim_due` does with a row), then takes each row in a session
of its own. `send_one` reads the row and asks (`SendStarts`), gets an answer
(`Answer`) and records it under the row's lock if the row is still its own
(`Finish`, `Owns`); between these steps no lock is held, the lease may run out and
another worker may claim. The attempt number is the one found when sending
starts, as in the code, not that of the claim. `Crash` is a worker that dies or
whose transaction fails. The trail is a set of pairs of number and outcome
because the table is unique in them and an insertion that finds its pair does
nothing.

Rows share nothing but the batch they are claimed in, so one row stands for all.
What stops a message (no template, an opted-out customer, no destination) is a
free outcome of the check, at enqueue and again at sending. The backoff may be
over at any time. The provider takes a message once per key; a worker that
waited for it may hear of a timeout or a refusal nevertheless, which is more
than a provider should do. Left out: templates and their approval, preferences,
message variables and audit rows.

### LateCharges

One instalment, due on day 0. `charges` are the rows of `late_charges` by day,
`receipts` the principal each payment brought, 0 once returned. `AssessCharges`
is one call of `assess_schedule` for it: the days after the last one charged,
in order, each capped by the room that all rows so far leave (`ChargeForDay`,
`DaysToAssess`). Amounts are whole units and percentages round half up, as
`q` does. That a row raises the fee due is `AssessCharge` of `LoanAccount`.

### Pricing

`prices` are the versions in the order of their numbers, `loan` the price
frozen into the offer when it is drafted (`DraftOffer`; without a version in
force the terms are the older, free ones), `ledger` the balances the payout and
its reversal leave, `schedule` the repayment schedule. Amounts are paise and
monthly rates fractions num/den, so `Emi` and `EmiSchedule` round where the
decimal code rounds: half up in `domain/pricing.py`, half even in
`domain/repayment.py` (`BuildSchedule`). The code divides the yearly rate by 12
before it multiplies, with 28 digits; a product so close to half a paisa that this
decides its rounding is not modelled. `MayQuote` is where the code raises.
The recursion over the months is a recursive function of the balance, and so is
a power of the rate (`Power`). `Roundings` is how far the last row may be from the
others: a paisa per month, half from the interest and half from the instalment,
compounded to the end.

### RiskAssessment and Policy

`applicant` is the truth outside of the system; the bureau or the fraud provider
may time out, which `Assess` stores as a part without a result, as the code
does. The points, bands and action follow the six rules, the bands and the cap
of `risk_engine.py` over whole percents of the income. `GetWorse` changes the
truth in one respect, so that an action property can compare the scores.
`Policy` takes any sequence of rules, a rule being the set of facts it needs and
its effect; `Evaluation` applies `TryRule` to one after the other, as the loop of
`evaluate` does.
`Decide` raises where the result object refuses to be built.

### LoanOffer and ESign

`offer` is each version's status, `over` what is past its window, and `looked`
what an admin's `issue_offer` read before it took its locks: the repository's
locked read does not refresh an object already in the session, so the decision
is made on that. `Write` is a flush: the trigger of `loan_offers` and the partial
unique index decide, and `refused` remembers whether the index ever had to.
`MoveApplication` are all the moves of `transition_status` and `submit`.

`ESign` adds attempts (`tx`), what the provider holds for each (`provider`) and
its callbacks, which come any number of times in any order; `Reported` is
`_apply_report` in the order of its tests, and `Callback`, `SyncSignatures` and
`Recheck` its callers. A callback whose document cannot be fetched in time is
rolled back with its stored event, so it may come again. A callback that says
PENDING is left out: it changes nothing, or leads to review like any other
when it names another document. `sync_pending` and the
sweep over expired offers have no caller in the repository; they may happen here
but nothing relies on them.

### Sessions and SignIn

`revoked` is each session's reason, `successor` the session that replaced it.
`Refresh` is one step: it holds the row's lock. `Intend` and `Revoke` are two:
log-out and the other revocations, that of a family whose token came twice among
them, read their targets without a lock and write the reason over what is there by
then; a successor opened in between is missed. In `SignIn` a request's way from the
reservation in Redis to the commit of its row is a status of the code; a
process may die at each of its steps, Redis may fail, and the window's key may
expire between them. `sentIn` remembers in which window a code that went out was
reserved. A send that raises is UNSENT whether or not the SMS went out (a timeout
may follow an accepted request): `create_otp` gives its slot back in both cases,
so such a code comes on top of the limit, and `CodesWithinLimit` is about the
codes the service does not take for undelivered.

### Onboarding

`record` is the history of each kind of verification, `lock` the Redis keys,
`work` what each request read before it asked the provider. PAN, KYC and
identity requests hold their lock; `refresh_status` and the customer's own step
take none. `LeaseEnds` frees a lock whatever its owner is doing, and `overran`
remembers when that happened to an owner that was still at work.

### Documents

`objects` is the storage, `rows` what is committed. The look for the checksum,
the put, the insert and the commit are separate steps of a request; the unique
index makes an insert wait for another transaction that has the checksum, and
refuses it when that one commits.

### BankVerification

`row` is each verification with its account, `superseded` those that were
current once. `Clear` is the commit of a match: the look for another customer's
verification happened in an earlier step, since nothing serialises two
customers. `answer` is the provider's side, which never changes once settled. An
answer under another reference than the stored one leads to review, as an unclear
one does, and is not distinguished from it.

### Collections

`unpaid` stands for the schedules: customers pay the oldest instalment and any
paid one may be reopened by a reversal. `pass` is what a worker's `run_once` has
left of the list of its phase; each item is one transaction under the
schedule's or the case's lock. The lists are cut to `BatchSize` as the queries
and `sync_candidates` cut them, the most overdue loans first and the live cases
after the overdue loans; a choice among equals is free. What the cut leaves
outside of every pass is never looked at, so `CasesFollowLoans` holds for the loans
the passes have room for (`WithinBatch`). It fails without that condition: while a
batch or more of loans stay overdue, the case of a loan that was paid up is on no
list and stays open at its level, although `sync_candidates` means to list those
with a live case, "which may have been paid up and need closing".

### Reconciliation

`run` is the day's row, `at` where each runner is with it, `saw` the items read
at the start of an execution, `report` the provider's lines by reference. Claim,
execution and `mark_failed` are three transactions; an execution holds the run's
lock from its start to its commit, so `Complete` writes findings and completion
in one step, comparing what was read first with what the ledger holds at the
end (`booked`, which may lack an item's posting to begin with, so that there is
something to find). `touched` are the rows that moved since an execution read
them. The report does not change once the day is over. `recent` says that the day
is within `reconciliation_lookback_days`, or on a worker's list from when it was:
only then do workers claim it. Admins may claim any day.

### Support

`ticket` holds status, kind, assignee and level; `unanswered` the tickets with a
message that no resolution has come after, `told` those with a resolution the
customer can read. Counting the live tickets and inserting one are two steps.

## Runs

| Run | Bounds | Shows |
|---|---|---|
| `disbursement` | 2 attempts, contract kept | one payout, true rows, no lost success, `KnownPayoutResolves`, the refinement of `PayoutPromise` |
| `disbursement_quirks` | 2 attempts, `misreport` and `late_landing` | books match the rows and no report leads to an update that is refused, whatever is reported |
| `disbursement_unresolved` | 1 attempt | violated: a payout the provider keeps not knowing is never reviewed |
| `disbursement_create_again` | 2 attempts, `late_success` | violated: creation pays again with no proof that the first attempt failed |
| `disbursement_late_success` | 2 attempts, `late_success`, events redelivered | violated: a late success cannot be recorded while a retry is live |
| `accounts` | see below | `LoanAccount`: the table accepts what is written, the ledger agrees, allocation is the waterfall. `Pricing`: past prices stand, a schedule asks what is owed, in level rows. `LateCharges`: charges stay within the cap. `RiskAssessment`: never more lenient. `Policy`: the first blocking rule decides |
| `repayment` | 1 payment, 1 instalment, 2 callers, 1 late charge, `late_success` | credit only for money, the account's promise, the books, PENDING resolves |
| `repayment_stale_recheck` | 1 payment, 2 callers, contract kept | violated: a recheck's old NOT_FOUND fails a payment whose success was reported |
| `notifications` | 2 workers, 2 attempts | trail and status agree, late workers undo nothing, sent means accepted, a row does not stay on its way |
| `notifications_trail` | 2 workers, 2 attempts | violated: after a requeue an attempt may leave no row in the trail |
| `servicing` | see below | `Collections`: nothing too early, cases follow loans. `Reconciliation`: sound findings, completed is final, a run ends. `Support`: no message left behind |
| `customer` | see below | `LoanOffer`, `ESign`: one open offer, closed ones stay closed, signed is confirmed and final. `SignIn`, `Sessions`: codes within the limit, one live session per family. `Onboarding`: one verification at a time, nobody else's lock. `Documents`: stored is there. `BankVerification`: one proven account. `Repayment` under a provider that says anything |

Bounds. In disbursement `MaxAttempts` is the only bound, on the rows of one
offer. Two are
enough for every interaction the code has between attempts: the guards and
indexes compare a row with *another* row of the offer, never with two others,
and a third attempt stands to the second as the second to the first. The
proofs below need no bound. Workers are not counted: any number of claims,
polls and handlers may be under way, since a task is a member of a set and any
one of them may be taken at any time.

The money and the races of repayment are checked apart, because they meet only
in the account's transactions: `accounts` has the least with which a
returned payment leaves a hole that later ones fill (three payments, two
instalments, all three components), and `repayment` the least with which an
answer is overtaken (two callers and the webhooks, one payment). That payments
use the account only by its transactions is `ReceivedAndReturnedOnce`, proved
for every bound. Two payments meet in the unique provider reference and in the
lookup of webhooks, which the part "payments" of `customer` covers. `MaxOpen` is
the code's 5; with so few payments it does not bite, and no property needs it
to. `MaxFee` bounds the charges of an instalment, as the cap on late charges
does.

For notifications two workers are enough for one to be overtaken by another; a
third would find the row as the second left it. Two attempts have both kinds
of end, one that is retried and one that is the last, and requeues repeat them
without a bound.

The other parts:

- pricing: two versions, two days, two admins, which is what an approval needs
  to come late or out of order; prices without interest and with 1/12 a month
  at the highest fee and tax, principals of 2 and 999 paise over up to three
  months, so that rounding happens in each row and a last row takes it up;
- late charges: six days with five penal days, three payments of half or all of
  the principal; rates high enough for the cap to be met on the fifth day;
- scoring: a value on each side of the thresholds of the rules, and policies of
  up to two rules over two facts: a third rule would stand to the second as the
  second to the first;
- collections: two loans with two instalments over three days, one worker, one
  milestone and one level, lists of one, so that either loan may be cut off by
  the other;
- reconciliation: two runners, one reference of ours and one we do not know, two
  automatic attempts;
- support: two tickets of which one may be sensitive, an agent and a manager,
  one open ticket allowed;
- offers and signing: two versions, two admins issuing, two attempts, with
  `esign_require_signed_artifact` on; sessions: three, and one revocation under
  way beside the refreshes; codes: three over two windows with one per window;
- onboarding: two requests and at most one record begun per kind, so a second
  one can only come from a request that overtook the first; documents: three
  uploads of two contents with two sets of metadata; bank accounts: two
  customers, two accounts, two verifications each.

`customer` uses the symmetry of its requests, admins and customers: no definition
tells them apart, and its properties are invariants and action properties, for
which the reduction is sound. `servicing` has liveness and uses none.

Deadlock checking is off: nothing obliges an admin to create another
disbursement, and an offer whose attempts are used up has come to rest; so has a
notification that is sent or suppressed, a loan whose bounds are used up, and
so on in every part.

Fairness. `run_forever` loops for ever, sleeps between passes and survives a
failed one, so a row that stays a candidate is taken in turn: weak fairness of
`Claim` and `FindCandidate`. A crashed worker loses its list, so a poll can be
prevented again and again, but it is put on the list again and again:
`ReconcileOne` is strongly fair. `Age` is weakly fair, as time passes. Nothing
is assumed of admins or of the provider's progress; only
`disbursement_late_success` also assumes that the provider redelivers an event
that was not acknowledged.

Repayment's worker is the same kind of loop. A call ends because every provider
call is under a timeout (`WF` of `Finish` or `GiveUp`), a payment that stays
PENDING is listed and polled again and again (`SF` of `Poll`: the caller may
be busy in between), and of its polls some come to their end (`SF` of
`PollFinishes`), if only by timing out. Nothing is assumed of the provider.

The notification worker loops likewise: weak fairness of a claim of a row that
can be claimed, of the steps of a pass (a crash among them, so a worker may
crash every time) and of `LeaseExpires`. That a send ends is an assumption on
the provider's client, which is to raise `NotificationTransient` on a timeout;
`send_one` sets none of its own.

The collections worker runs passes for ever: weak fairness of the next phase and
of an item. Reconciliation's workers claim whatever they may (weak fairness;
a day that is not `recent` is not on their lists, so `RunEnds` says nothing of a run
an admin started for an older day, nor of one whose day has grown old) and
a runner that keeps getting as far as a step takes it in the end (strong
fairness of `Begin`, `End` and `MarkFailed`: a worker may die each time but not
always); time passes, so a run whose runner is gone becomes stale.
`ServicingFairness` states both sets of conditions at once: since a behaviour is
about one part, the disjunction of a step of one with a step of the other is the
same condition in each. Nothing else is assumed: the sweeps `expire_due_offers`
and `sync_pending` of e-signing and of bank verification have no caller in the
repository, so nothing is claimed to happen eventually to an offer, a signing
attempt or a verification.

## What the violations say

1. `reconcile_one` treats NOT_FOUND by submitting again and returns the
   submit's result. When that submit times out too, the row stays PROCESSING
   and the age is not looked at; the setting promises a human instead.
2. `create_for_offer` needs only that no row is live. `retry` asks the provider
   about the attempt first, "before paying again"; a plain create does not.
   With a provider that pays after having reported a failure this pays twice.
3. A success for an attempt that was given up should go to review. If a retry
   is live by then, the index on live rows refuses, the stored event is rolled
   back with it, and every redelivery meets the same end until the retry has
   failed.
4. `recheck` of a payment asks the provider before it takes the locks. If the
   provider does not know the key then (its dispatch is still under way), and
   before the answer is applied the payment is opened, sent to review by a poll
   because it is old, and paid, then the success is stored as
   IGNORED_IN_REVIEW and the old NOT_FOUND fails the payment. It takes a
   payment requested long ago, and all of it within one call and one wait for
   the locks, so it is rare; nothing looks at a FAILED payment again unless the
   provider reports once more.
5. `requeue_dead` sets `attempts` back to 0 and the numbers repeat. The trail is
   unique in number and outcome, and `add_attempt` ignores a conflict: a first
   attempt of the second round that fails like that of the first is not
   recorded, nor is the reason of a second requeue at the same number.

## Proofs

`DisbursementProofs` holds for any `MaxAttempts` and any quirks. `TypeOK` is
inductive with one addition, `OnlyRows`: tasks, events and postings name
attempts that exist. On that, `RowsInv` joins what cannot be proved apart:
one live row per offer, books that match the rows, and a reference on every
settled row (`SettledHasRef`, without which a report could settle a row the
code believes unpaid). The lemmas follow the code: `VerdictFits` (the decision
gives only transitions of the table), `EnactMoves` and `ApplyMoves` (an enacted
decision is a *move*: one row changes along an edge, with the posting that edge
calls for), `MoveKeepsRows` (a move keeps `RowsInv`) and `StepMoves` (every
step of `Next` is a move, a new row, or leaves the rows alone).
`NewsNeverRefused` then reads the same moves as an action property.

`DisbursementMoneyProofs` assumes `Quirks = {}`. `RowsHonest` relates each row
to the provider's record of its key (`Agrees`): PENDING means nothing was sent,
FAILED that nothing moved or will, SUCCESS and REVERSED what they say.
`EventsHonest` says that stored and pending events have happened. Together with
`AcknowledgedSuccessKept` they are inductive, and `PaidOnce` follows from
`RowsHonest` and one live row: two payouts on their way would be two live rows.

`RepaymentProofs` holds for any constants that satisfy the modules'
assumptions: any number of payments, instalments and callers. `TypeOK` is
inductive with `KnownOnly` (calls, events and references are of payments that
exist) and `AppliedDomain`. `FinishCases` reduces what becomes of an answer to
three outcomes (nothing, a new status, a report enacted), `StepCases` every step
to these, a new payment or a late charge.
`NeverRefused` follows from the edges `VerdictAllowed` permits, and
`BooksFollowPayments` from what each enacted verdict posts (`EnactBooks`).
`AccountImplemented` is the refinement: an enacted payment that was not booked
yet is received, one that was received is returned, all else leaves the
account's variables alone; it needs `BooksMatchPayments` to know which.
`CreditedForMoneyOnly` assumes that reports are true (`misreport` is no quirk).
Its invariant adds that the provider's events, delivered or not, and the answers
on their way are `Truthful`: they may be old, but a success or a return they tell of
stays true of the collection (`TrueLater`).

`NotificationsProofs` rests on `Core`: the types, an attempt left for every row
that waits (`AttemptsLeft`; a claim counts up without looking, so the bound on
`attempts` is not inductive without it) and `ClaimsCounted` (a row being sent
has been claimed). `SettleType` says what a result may make of a row whose worker
owns it; `TrailExplains` follows from it action by action. `SentIsAccepted`
adds that a worker holding SENT was told so by the provider. `StatusMoves` lists
where a status may go, and `NothingUndone` reads `NoWayBack` off it.

`DisbursementMoneyProofs` also proves that rows and calls keep the promise
(`PromiseKept`). At most one row has an open *round*: its payout was made and the
row does not say that the money came back (`Rounds`, which follows from
`RowsHonest` and one live row). The promise's two variables can be read off that
row (`RoundOpen`, `RoundClosed`); a step changes the row and the payout of one
attempt at most (`StepChangesOne`), which is a step of the promise or none
(`ChangeKeepsPromise`), and a new row is none (`NewRowKeepsPromise`).

`AccountsProofs` is about numbers, for every value of them.

- `LoanAccount`: `AccountIInv` adds to what the runs check that the stored
  allocations of the payments that stand add up to `paid`, slot by slot
  (`PaidByStanding`), and that a payment's postings carry its allocations
  (`BooksSound`): without them nothing says what a reversal takes back.
  `AllocateIs` and `WaterfallOf` say what the loop of `allocate` returns.
- `Pricing`: `PastStands` needs that `PriceInForce` is the last of the approved
  versions (`InForceIsLast`) and that a decision or a new version never enters a
  day that is over. `ScheduleRepays` and `RowsAreLevel` rest on `LoanIInv` (the loan's
  terms can be quoted, the ledger holds its principal, the rows repay it) and on
  the arithmetic of the schedules: `EmiRowsRepay` and `BuiltRowsRepay` sum the rows,
  `EmiRowsLevel` bounds the last one. For that, `OneRowOff` follows how far a rounded
  balance is from the exact one through one month, both scaled so that no
  fraction occurs, and `RestIsSmall` does so for all of them. `MayQuote`, that is, the
  code's refusal of a row that repays nothing, is what makes the bound true.
- `LateCharges`: `LateIInv` has the charges within the cap and on days of their own;
  `AssessmentFits` follows one call of the job over the days it missed.
- `RiskAssessment`: no rule's points fall when the applicant gets worse
  (`PointsGrow`), so neither does the sum.
- `Policy`: `OneMoreRule` says what one more rule does to the outcome of those before
  it, `EvaluationIs` what that makes of all of them.

`CustomerProofs` has an invariant for each part.

- `OfferIInv`: one open version and no write refused. The decision is made on a
  stale read, so the proof needs what the trigger refuses as well as the index.
- `SigningIInv`: a report that was sent and names this document is the provider's
  word that it signed; a transaction exists only for an accepted offer.
- `StoringIInv`: an upload about to insert has its object, and of two that have
  inserted the checksums differ, which is the index at work before a commit.
- `OnboardingIInv`: while no owner overran its lease, a request at work holds its
  lock and read what still is so (`Undisturbed`), and only the newest record of a
  kind blocks (`OnlyNewestBlocks`).
- `SessionsIInv` and `SlotsCounted`: a successor was opened later, and every code of
  a window, sent or about to be, has a slot that nobody else counts; one whose
  sending raised has given its slot back and is none of them.
- `ProvenIInv`: a match that is being committed is still a match.

`ServicingProofs` likewise: `TicketIInv` is the property with a level for tickets that
do not exist yet; `RunIInv` adds that one runner at most has read the items, and that
those nobody touched are as it read them, while it executes and ever after;
`CaseIInv` (`CaseHolds`) that what was reminded and raised was due by then, and that
a stored number of days past due is never ahead of its instalment's.

`SetLemmas` replaces what the library states with an operator as a parameter.
Induction is over a *set* of numbers or of subsets (`CountUp`, `SubsetInduction`);
`Recursion` says that a step function has a recursive function, which is how a
`LET` recursion is known to be what its equation says; `Added` is a sum over a finite
set, built by taking members away one by one, and the lemmas about it say what
one more member, one changed value or a telescoping sequence makes of a sum.

No assumption on a constant was added for a proof beyond those the modules name:
numbers are naturals, rates have a denominator and the instalments are finitely
many.

Not in any run but proved: `TypeOK` of `Disbursement`, `Repayment` and
`Notifications`, the types of signing, of signing in, of reconciliation and of
collections (`AgreementTypes`, `SignInTypes`, `ReconTypes`, `CollectionTypes`),
`OneLivePerOffer`, `NoRefusedUpdate` of `Repayment` for every provider, and
`AttemptsLeft`.

Only model-checked: liveness and `CasesFollowLoans`, which is liveness too (out of
the prover's reach: `KnownPayoutResolves`, `PendingResolves`, `Resolves`, `RunEnds`), and
`PaymentsStandMisreports`. What the last says of a provider that reports anything is
proved of `Repayment` itself (`NeverRefused` and `BooksFollowPayments` have no
assumption on the provider); that it holds of the copy with renamed variables in
`MCCustomer` is not, because the prover does not use a theorem through `INSTANCE`.
The theorems about parts are theorems of each part's own specification; that a
behaviour of a composite run is one of its part, or stutters, is by construction
of the composite (see `MCCustomer`) and not a theorem.

## Plan

Done: the modules above, and a theorem for every safety property that a run
checks of a module's own specification. What is left to prove:

1. the projections of the three composites onto their parts, as theorems;
2. type invariants of the parts that have no theorem of their own
   (`LoanAccount`, `Pricing`, `Documents`, `BankVerification`, `Support`, `Onboarding`: their
   inductive invariants hold what their proofs need of the types, not always all
   of it);
3. safety that liveness rests on: which steps take a row, a run or a case off the
   list of its worker.

Beyond these: schedules whose disbursement is reversed under them, once the
repository says what becomes of them; templates and preferences of
notifications; manual adjustments of the ledger.

## Not modelled

- Underwriting reviews and overrides. No route or worker calls these services,
  and they use attributes the stored model lacks (`case.is_open`,
  `case.status.value` of what `models/underwriting_review_case.py` declares as a
  plain string), so there is no running behaviour to be faithful to.
- Manual ledger adjustments, loan levels, policy version maintenance, profiles,
  consents and KYC documents' metadata: single-row writes behind a permission.
- Document versions (their route never commits) and deletion (no caller).
- The audit log, reporting and access control: append-only records and reads.
- The HTTP layer, settings and connections are plumbing; what the models rely on
  there (one transaction per call, a webhook acknowledged only after its
  commit) is stated where it is used.
- Midnight between a check of the date and the commit of what it allowed: a
  request's `today` is the day it commits on.
- Wording, formatting, names, templates and generated PDFs.
