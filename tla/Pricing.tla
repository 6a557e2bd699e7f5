------------------------------ MODULE Pricing -------------------------------
(***************************************************************************)
(* Price versions made by one admin and approved by another, one loan      *)
(* priced by the version in force, paid out, booked, and asked back in     *)
(* instalments.                                                            *)
(*                                                                         *)
(* Amounts are whole paise and monthly rates fractions, rounded where the  *)
(* code rounds to paise: half up when pricing, half even in the older      *)
(* schedule without a price.  The code divides the yearly rate by 12 first *)
(* and computes with 28 digits; that a product this close to half a paisa  *)
(* is rounded the other way is not modelled.                               *)
(***************************************************************************)
EXTENDS Integers, Sequences, FiniteSets, FiniteSetsExt

CONSTANTS
    MaxPrices,      \* bound: price versions
    MaxToday,       \* bound: days
    PriceAdmins,
    Terms,          \* prices: monthly rate num/den, fee and gst in percent
    Principals,     \* amounts a loan may have
    MaxMonths,
    PostingEnabled  \* settings: interest and fees may be booked

ASSUME PricingAssumption ==
    /\ MaxPrices \in Nat /\ MaxToday \in Nat /\ MaxMonths \in Nat \ {0}
    /\ PostingEnabled \in BOOLEAN
    /\ Principals \subseteq Nat \ {0}
    /\ \A t \in Terms : /\ t.num \in Nat /\ t.den \in Nat \ {0} /\ t.num <= t.den
                        /\ t.fee \in 0 .. 25 /\ t.gst \in 0 .. 50

VARIABLES
    today,
    prices,     \* the versions, in the order of their numbers
    loan,       \* the offer's frozen price, or Unpriced; NoLoan before
    payout,     \* "none", "paid", "reversed"
    ledger,     \* what each account was debited, less what it was credited
    schedule    \* the repayment schedule's status and rows

pricingVars == <<today, prices, loan, payout, ledger, schedule>>

----------------------------------------------------------------------------
\* Money

HalfUp(n, d) == (n + d \div 2) \div d

HalfEven(n, d) ==
    LET whole == n \div d
        rest == 2 * (n % d)
    IN  IF rest > d \/ (rest = d /\ whole % 2 = 1) THEN whole + 1 ELSE whole

Fee(p, t) == HalfUp(p * t.fee, 100)
Gst(p, t) == HalfUp(Fee(p, t) * t.gst, 100)
Net(p, t) == p - Fee(p, t) - Gst(p, t)

InterestOn(balance, t) == HalfUp(balance * t.num, t.den)

Power(b, n) ==
    LET power[k \in 0 .. n] == IF k = 0 THEN 1 ELSE b * power[k - 1]
    IN  power[n]

\* The fixed instalment: p r / (1 - (1 + r)^-n), with r = num/den.
Emi(p, t, n) ==
    LET up == Power(t.den + t.num, n)
    IN  IF t.num = 0 THEN HalfUp(p, n)
        ELSE HalfUp(p * t.num * up, t.den * (up - Power(t.den, n)))

\* A row's principal given the balance before it; the last one takes it all.
Part(p, t, n, k, balance) ==
    IF k = n THEN balance
    ELSE Min({Emi(p, t, n) - InterestOn(balance, t), balance})

EmiSchedule(p, t, n) ==
    LET balance[k \in 0 .. n] ==
            IF k = 0 THEN p
            ELSE balance[k - 1] - Part(p, t, n, k, balance[k - 1])
    IN  [k \in 1 .. n |-> [principal |-> Part(p, t, n, k, balance[k - 1]),
                           interest |-> InterestOn(balance[k - 1], t)]]

\* emi_schedule raises on a row that repays nothing, quote on an empty payout.
MayQuote(p, t, n) ==
    /\ Net(p, t) > 0
    /\ \A k \in 1 .. n : EmiSchedule(p, t, n)[k].principal > 0

\* Equal principals in whole paise, the paise left over on the last rows;
\* simple interest on what remains, yearly percent, actual/365.
BuildSchedule(p, n, interval, yearly) ==
    LET base == p \div n
        extra == p % n
        PartOf(k) == base + (IF k > n - extra THEN 1 ELSE 0)
        remaining[k \in 1 .. n] ==
            IF k = 1 THEN p ELSE remaining[k - 1] - PartOf(k - 1)
    IN  [k \in 1 .. n |->
            [principal |-> PartOf(k),
             interest |-> HalfEven(remaining[k] * yearly * interval, 36500)]]

\* What the roundings, half a paisa of each row's interest and of the instalment,
\* can come to at the end: the sum of (1 + r)^k over the months.
Roundings(t, n) ==
    LET low == Power(t.den, n)
    IN  IF t.num = 0 THEN n
        ELSE (t.den * (Power(t.den + t.num, n) - low)) \div (t.num * low)

Asked(row) == row.principal + row.interest

Level(rows, t, n) ==
    \A k \in DOMAIN rows :
        Asked(rows[k]) - Asked(rows[1]) \in - Roundings(t, n) .. Roundings(t, n)

SumOf(amounts) == MapThenSumSet(LAMBDA k : amounts[k], DOMAIN amounts)
Principal(rows) == SumOf([k \in DOMAIN rows |-> rows[k].principal])
InterestOf(rows) == SumOf([k \in DOMAIN rows |-> rows[k].interest])

----------------------------------------------------------------------------
\* Price versions

PriceInForce(day) ==
    LET valid == {v \in DOMAIN prices : /\ prices[v].status = "APPROVED"
                                        /\ prices[v].from <= day}
    IN  IF valid = {} THEN 0
        ELSE CHOOSE v \in valid : \A w \in valid :
                \/ prices[w].from < prices[v].from
                \/ prices[w].from = prices[v].from /\ w <= v

CreatePrice(a, t, from) ==
    /\ Len(prices) < MaxPrices
    /\ from >= today
    /\ MayQuote(100000, t, 1)
    /\ prices' = Append(prices, [status |-> "DRAFT", terms |-> t, from |-> from, by |-> a])
    /\ UNCHANGED <<today, loan, payout, ledger, schedule>>

\* Only a draft is decided, under its lock.
MayDecide(v) == prices[v].status = "DRAFT"

\* Seeded fault: Also for a day that is over.
ApprovePriceLate(a, v) ==
    /\ MayDecide(v)
    /\ prices[v].by # a
    /\ PostingEnabled
    /\ prices' = [prices EXCEPT ![v].status = "APPROVED"]
    /\ UNCHANGED <<today, loan, payout, ledger, schedule>>

\* By another admin, and not for a day that is over.
ApprovePrice(a, v) ==
    /\ MayDecide(v)
    /\ prices[v].by # a
    /\ PostingEnabled
    /\ prices[v].from >= today
    /\ prices' = [prices EXCEPT ![v].status = "APPROVED"]
    /\ UNCHANGED <<today, loan, payout, ledger, schedule>>

RejectPrice(v) ==
    /\ MayDecide(v)
    /\ prices' = [prices EXCEPT ![v].status = "REJECTED"]
    /\ UNCHANGED <<today, loan, payout, ledger, schedule>>

NextDay ==
    /\ today < MaxToday
    /\ today' = today + 1
    /\ UNCHANGED <<prices, loan, payout, ledger, schedule>>

----------------------------------------------------------------------------
\* The loan

NoLoan == [kind |-> "none"]

\* An offer drafted today freezes the price in force; without one it has the
\* older free terms, here no interest rate.
DraftOffer(p, n) ==
    LET v == PriceInForce(today)
    IN  /\ loan = NoLoan
        /\ \/ v = 0 /\ loan' = [kind |-> "unpriced", principal |-> p, months |-> n]
           \/ /\ v # 0 /\ PostingEnabled
              /\ MayQuote(p, prices[v].terms, n)
              /\ loan' = [kind |-> "priced", principal |-> p, months |-> n,
                          terms |-> prices[v].terms, net |-> Net(p, prices[v].terms)]
        /\ UNCHANGED <<today, prices, payout, ledger, schedule>>

\* What is sent to the bank.
Amount == IF loan.kind = "priced" THEN loan.net ELSE loan.principal

LedgerAccounts == {"LOAN_PRINCIPAL", "BANK", "FEE_INCOME", "GST_PAYABLE"}

\* post_disbursement
PayoutLines ==
    LET fee == IF loan.kind = "priced" THEN Fee(loan.principal, loan.terms) ELSE 0
        gst == IF loan.kind = "priced" THEN Gst(loan.principal, loan.terms) ELSE 0
    IN  [a \in LedgerAccounts |->
            CASE a = "LOAN_PRINCIPAL" -> loan.principal
              [] a = "BANK" -> - Amount
              [] a = "FEE_INCOME" -> - fee
              [] a = "GST_PAYABLE" -> - gst]

PayOut ==
    /\ loan # NoLoan /\ payout # "paid"
    /\ payout' = "paid"
    /\ ledger' = [a \in LedgerAccounts |-> ledger[a] + PayoutLines[a]]
    /\ UNCHANGED <<today, prices, loan, schedule>>

\* reverse_disbursement posts the mirror.
PayBack ==
    /\ payout = "paid"
    /\ payout' = "reversed"
    /\ ledger' = [a \in LedgerAccounts |-> ledger[a] - PayoutLines[a]]
    /\ UNCHANGED <<today, prices, loan, schedule>>

NoSchedule == [status |-> "none", rows |-> << >>]

\* Seeded fault: What reached the bank is asked back.
RowsForNet(n, interval, yearly) ==
    IF loan.kind = "priced" THEN EmiSchedule(Amount, loan.terms, loan.months)
    ELSE BuildSchedule(Amount, n, interval, yearly)

\* The rows of a schedule for what was paid out: the frozen instalments of a
\* priced loan, else the amount split as the admin asks.
RowsFor(n, interval, yearly) ==
    IF loan.kind = "priced" THEN EmiSchedule(loan.principal, loan.terms, loan.months)
    ELSE BuildSchedule(Amount, n, interval, yearly)

\* One live schedule per loan.  A priced loan fixes the count and 30 days.
CreateSchedule(n, interval, yearly) ==
    /\ payout = "paid"
    /\ schedule.status \in {"none", "CANCELLED"}
    /\ IF loan.kind = "priced" THEN n = loan.months /\ interval = 30
       ELSE interval * n <= 30 * loan.months /\ Amount >= n
    /\ LET rows == RowsFor(n, interval, yearly)
       IN  /\ InterestOf(rows) > 0 => PostingEnabled
           /\ schedule' = [status |-> "DRAFT", rows |-> rows]
    /\ UNCHANGED <<today, prices, loan, payout, ledger>>

ActivateSchedule ==
    /\ schedule.status = "DRAFT" /\ payout = "paid"
    /\ schedule' = [schedule EXCEPT !.status = "ACTIVE"]
    /\ UNCHANGED <<today, prices, loan, payout, ledger>>

CancelSchedule ==
    /\ schedule.status = "DRAFT"
    /\ schedule' = [schedule EXCEPT !.status = "CANCELLED"]
    /\ UNCHANGED <<today, prices, loan, payout, ledger>>

----------------------------------------------------------------------------

PricingInit ==
    /\ today = 1 /\ prices = << >>
    /\ loan = NoLoan /\ payout = "none"
    /\ ledger = [a \in LedgerAccounts |-> 0]
    /\ schedule = NoSchedule

PricingNext ==
    \/ NextDay
    \/ \E a \in PriceAdmins, t \in Terms, d \in 1 .. MaxToday : CreatePrice(a, t, d)
    \/ \E a \in PriceAdmins, v \in DOMAIN prices : ApprovePrice(a, v)
    \/ \E v \in DOMAIN prices : RejectPrice(v)
    \/ \E p \in Principals, n \in 1 .. MaxMonths : DraftOffer(p, n)
    \/ PayOut \/ PayBack
    \/ \E n \in 1 .. MaxMonths, interval \in {15, 30}, yearly \in {0, 24} :
            CreateSchedule(n, interval, yearly)
    \/ ActivateSchedule \/ CancelSchedule

PricingSpec == PricingInit /\ [][PricingNext]_pricingVars

----------------------------------------------------------------------------

PricingTypeOK ==
    /\ today \in 1 .. MaxToday
    /\ Len(prices) <= MaxPrices
    /\ \A v \in DOMAIN prices :
            prices[v] \in [status : {"DRAFT", "APPROVED", "REJECTED"}, terms : Terms,
                          from : 1 .. MaxToday, by : PriceAdmins]
    /\ loan.kind \in {"none", "unpriced", "priced"}
    /\ loan.kind = "priced" => loan.terms \in Terms /\ loan.net \in Nat
    /\ loan # NoLoan => loan.principal \in Principals /\ loan.months \in 1 .. MaxMonths
    /\ payout \in {"none", "paid", "reversed"}
    /\ ledger \in [LedgerAccounts -> Int]
    /\ schedule.status \in {"none", "DRAFT", "ACTIVE", "CANCELLED"}
    /\ \A k \in DOMAIN schedule.rows : schedule.rows[k] \in [principal : Int, interest : Nat]

\* The price of a day that is over does not change afterwards, although
\* versions are drafted ahead, wait, and are approved in any order:
\* services/pricing.py approve, repositories/pricing.py get_effective.
PastPricesStand ==
    [][\A d \in 1 .. today - 1 : PriceInForce(d)' = PriceInForce(d)]_pricingVars

\* The last row of a priced loan absorbs the rounding of all: it differs from
\* the others by a paisa for each month at most, compounded from that month to
\* the last: domain/pricing.py emi_schedule.
InstalmentsAreLevel == loan.kind = "priced" => Level(schedule.rows, loan.terms, loan.months)

\* What the rows ask back is the principal the ledger says the customer owes, fee
\* and GST included although they were never paid out, every row repays
\* something, and the rows of a priced loan are level: services/repayment.py
\* create_schedule, services/ledger.py post_disbursement, domain/pricing.py
\* emi_schedule, domain/repayment.py build_schedule.
ScheduleAsksWhatIsOwed ==
    /\ schedule.status \in {"DRAFT", "ACTIVE"} =>
        /\ payout = "paid" => Principal(schedule.rows) = ledger["LOAN_PRINCIPAL"]
        /\ \A k \in DOMAIN schedule.rows :
                schedule.rows[k].principal > 0 /\ schedule.rows[k].interest >= 0
    /\ InstalmentsAreLevel

=============================================================================
