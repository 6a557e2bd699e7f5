---------------------------- MODULE LateCharges -----------------------------
(***************************************************************************)
(* Late charges on one overdue instalment: a bounce charge for the first   *)
(* day, then a penal charge per day, on the principal still unpaid.  The   *)
(* job that assesses them may miss days and catches up; payments come in   *)
(* and are returned between its runs.                                      *)
(*                                                                         *)
(* The instalment is due on day 0; the job and the payments take the lock  *)
(* of its schedule.                                                        *)
(***************************************************************************)
EXTENDS Integers, Sequences, FiniteSets, FiniteSetsExt

CONSTANTS
    PrincipalDue, InterestDue,
    BouncePercent, BounceCap,       \* the first day
    PenalRate,                      \* percent of the principal, per day
    PenalMaxDays,                   \* the last day charged
    CapPercent,                     \* of what was due, for all charges
    MaxLateDay,                     \* bound: days
    MaxReceipts                     \* bound: payments

ASSUME LateAssumption ==
    /\ {PrincipalDue, BouncePercent, BounceCap, PenalRate, InterestDue} \subseteq Nat
    /\ PenalMaxDays \in 1 .. 365 /\ CapPercent \in 1 .. 100
    /\ MaxLateDay \in Nat /\ MaxReceipts \in Nat

VARIABLES
    day,        \* today
    receipts,   \* principal paid by each payment, 0 once it was returned
    charges     \* day -> amount of the rows stored

lateVars == <<day, receipts, charges>>

\* What the rows charge, what the payments paid.
Charged(rows) == MapThenSumSet(LAMBDA d : rows[d], DOMAIN rows)
Unpaid == PrincipalDue - MapThenSumSet(LAMBDA i : receipts[i], DOMAIN receipts)

Percent(n, percent) == (n * percent + 50) \div 100

BounceAmount(principal) == Min({Percent(principal, BouncePercent), BounceCap})
PenalAmount(principal) == Percent(principal, PenalRate)
TotalCap == Percent(PrincipalDue + InterestDue, CapPercent)

\* Days not yet charged, after the last one that was, up to today and the last
\* penal day.
DaysToAssess ==
    LET first == Max({0} \cup DOMAIN charges) + 1
        last == Min({day, PenalMaxDays})
    IN  [i \in 1 .. Max({0, last - first + 1}) |-> first + i - 1]

\* Seeded fault: Capped by the room that the stored rows leave.
ChargeForDayAlone(rows, d) ==
    Min({IF d = 1 THEN BounceAmount(Unpaid) ELSE PenalAmount(Unpaid),
         TotalCap - Charged(charges)})

\* The charge for day d, capped by the room that the rows leave.
ChargeForDay(rows, d) ==
    Min({IF d = 1 THEN BounceAmount(Unpaid) ELSE PenalAmount(Unpaid),
         TotalCap - Charged(rows)})

\* Add the row of day d, if there is something to charge.
AddCharge(rows, d) ==
    LET amount == ChargeForDay(rows, d)
    IN  IF amount <= 0 THEN rows
        ELSE [x \in DOMAIN rows \cup {d} |->
                IF x = d THEN amount ELSE rows[x]]

----------------------------------------------------------------------------

LateInit ==
    /\ day = 0 /\ receipts = << >>
    /\ charges = [d \in {} |-> 0]

AssessCharges ==
    /\ day > 0 /\ Unpaid > 0
    /\ LET rows[n \in 0 .. Len(DaysToAssess)] ==
                IF n = 0 THEN charges ELSE AddCharge(rows[n - 1], DaysToAssess[n])
       IN  charges' = rows[Len(DaysToAssess)]
    /\ UNCHANGED <<day, receipts>>

Receive(amount) ==
    /\ Len(receipts) < MaxReceipts
    /\ amount <= Unpaid
    /\ receipts' = Append(receipts, amount)
    /\ UNCHANGED <<day, charges>>

Return(i) ==
    /\ receipts[i] > 0
    /\ receipts' = [receipts EXCEPT ![i] = 0]
    /\ UNCHANGED <<day, charges>>

LateNextDay ==
    /\ day < MaxLateDay
    /\ day' = day + 1
    /\ UNCHANGED <<receipts, charges>>

LateNext ==
    \/ AssessCharges
    \/ \E amount \in {PrincipalDue \div 2, PrincipalDue} : Receive(amount)
    \/ \E i \in DOMAIN receipts : Return(i)
    \/ LateNextDay

LateSpec == LateInit /\ [][LateNext]_lateVars

----------------------------------------------------------------------------

LateTypeOK ==
    /\ day \in 0 .. MaxLateDay
    /\ receipts \in Seq(0 .. PrincipalDue) /\ Len(receipts) <= MaxReceipts
    /\ DOMAIN charges \subseteq 1 .. PenalMaxDays
    /\ \A d \in DOMAIN charges : charges[d] \in 1 .. TotalCap

\* However many days one run catches up on, and whatever was paid or returned
\* before: the charges together stay within their cap, and none is for a day
\* still to come or after the last penal day.  services/late_charges.py
\* assess_schedule.
ChargesWithinCap ==
    /\ Charged(charges) <= TotalCap
    /\ \A d \in DOMAIN charges : d <= Min({day, PenalMaxDays})

=============================================================================
