---------------------------- MODULE LoanAccount -----------------------------
(***************************************************************************)
(* The money of one ACTIVE repayment schedule: what is due and paid of its *)
(* instalments, how each payment was allocated to them, and what the       *)
(* ledger holds of it.                                                     *)
(*                                                                         *)
(* Every action is one transaction under the lock of the schedule row, so  *)
(* each is one step.  Which payments are received and returned, and when,  *)
(* is left open here (AccountNext); module Repayment decides it.           *)
(***************************************************************************)
EXTENDS Integers, FiniteSets, FiniteSetsExt

CONSTANTS
    MaxPayments,   \* bound on the payments made to the schedule
    Interest,      \* the interest due of each instalment, oldest first
    MaxFee         \* bound on the late charges of an instalment

ASSUME AccountAssumption ==
    /\ MaxPayments \in Nat \ {0} /\ MaxFee \in Nat
    /\ IsFiniteSet(DOMAIN Interest)
    /\ DOMAIN Interest = 1 .. Cardinality(DOMAIN Interest)
    /\ \A i \in DOMAIN Interest : Interest[i] \in Nat

Payments == 1 .. MaxPayments
Instalments == DOMAIN Interest

(***************************************************************************)
(* The slots money goes into, numbered in the order in which it goes: the  *)
(* oldest instalment first, and in it fee, interest, principal.  Amounts   *)
(* are counted in units of one instalment's principal.                     *)
(***************************************************************************)
Components == {"fee", "interest", "principal"}
Slots == 1 .. 3 * Cardinality(Instalments)
InstalmentOf(s) == (s - 1) \div 3 + 1
ComponentOf(s) ==
    IF s % 3 = 1 THEN "fee" ELSE IF s % 3 = 2 THEN "interest" ELSE "principal"
SlotsOf(c) == {s \in Slots : ComponentOf(s) = c}
Row(i) == {s \in Slots : InstalmentOf(s) = i}
FeeSlot(i) == 3 * i - 2
PrincipalSlot(i) == 3 * i

\* A receipt is credited to one account per component, and what matched
\* nothing due to one of its own.
Accounts == Components \cup {"unapplied"}
EntryKinds == {"received", "reversed"}

VARIABLES
    applied,   \* stored allocations of each payment
    due,       \* due amount of each slot
    paid,      \* paid amount of each slot
    stage,     \* stored status of each instalment
    books      \* the schedule's repayment transactions in the ledger

moneyVars == <<applied, due, paid, stage, books>>

Nil == [s \in Slots |-> 0]
Total(f, S) == MapThenSumSet(LAMBDA s : f[s], S)

\* InstallmentStatus of instalment i when d is due and p is paid.
StoredStatus(i, d, p) ==
    IF \A s \in Row(i) : p[s] = d[s] THEN "PAID"
    ELSE IF \A s \in Row(i) : p[s] = 0 THEN "SCHEDULED"
    ELSE "PARTIALLY_PAID"

AccountInit ==
    /\ applied = [p \in Payments |-> Nil]
    /\ due = [s \in Slots |-> IF ComponentOf(s) = "fee" THEN 0
                              ELSE IF ComponentOf(s) = "interest"
                                   THEN Interest[InstalmentOf(s)]
                              ELSE 1]
    /\ paid = Nil
    /\ stage = [i \in Instalments |-> "SCHEDULED"]
    /\ books = {}

-----------------------------------------------------------------------------
(* Allocation.                                                             *)

Room(s) == due[s] - paid[s]
Outstanding == MapThenSumSet(Room, Slots)
Larger(x, y) == IF x > y THEN x ELSE y

\* Seeded fault: what is due is filled up, paid or not.
AllocateDue(x) ==
    LET left[s \in 0 .. Cardinality(Slots)] ==
            IF s = 0 THEN x ELSE Larger(0, left[s - 1] - due[s])
    IN  [s \in Slots |-> left[s - 1] - left[s]]

\* Seeded fault: the newest instalment first.
AllocateNewest(x) ==
    LET left[s \in 1 .. Cardinality(Slots) + 1] ==
            IF s \notin Slots THEN x ELSE Larger(0, left[s + 1] - Room(s))
    IN  [s \in Slots |-> left[s + 1] - left[s]]

\* allocate: slot after slot takes what it has room for of what is left.
Allocate(x) ==
    LET left[s \in 0 .. Cardinality(Slots)] ==
            IF s = 0 THEN x ELSE Larger(0, left[s - 1] - Room(s))
    IN  [s \in Slots |-> left[s - 1] - left[s]]

-----------------------------------------------------------------------------
(* The ledger: one transaction per key, the key being payment and kind.    *)
(* The bank account is debited with the sum of the credit lines.           *)

Entry(p, kind, lines) == [payment |-> p, kind |-> kind, lines |-> lines]

Lines(x, f) ==
    [a \in Accounts |-> IF a = "unapplied" THEN x - Total(f, Slots)
                        ELSE Total(f, SlotsOf(a))]

\* A replayed key posts nothing; with other content it is refused.
Post(entries) ==
    /\ \A e \in entries, b \in books :
          e.payment = b.payment /\ e.kind = b.kind => e = b
    /\ books' = books \cup entries

\* The mirror of what was posted for p, if anything was.
Mirror(p) ==
    {Entry(p, "reversed", e.lines) :
        e \in {b \in books : b.payment = p /\ b.kind = "received"}}

-----------------------------------------------------------------------------
(* Transactions.                                                           *)

\* Allocated rows get their new status; the others are not written.
Restage(f) ==
    stage' = [i \in Instalments |->
                 IF \E s \in Row(i) : f[s] # 0 THEN StoredStatus(i, due, paid')
                 ELSE stage[i]]

\* _settle: verified money x in for payment p.
Settle(p, x) ==
    LET f == Allocate(x)
    IN  /\ applied' = [applied EXCEPT ![p] = f]
        /\ paid' = [s \in Slots |-> paid[s] + f[s]]
        /\ Restage(f)
        /\ Post({Entry(p, "received", Lines(x, f))})
        /\ UNCHANGED due

\* Seeded fault: as much is taken off again, but from the oldest slots.
ReverseOldest(p) ==
    LET left[s \in 0 .. Cardinality(Slots)] ==
            IF s = 0 THEN Total(applied[p], Slots) ELSE Larger(0, left[s - 1] - paid[s])
    IN  /\ paid' = [s \in Slots |-> paid[s] - (left[s - 1] - left[s])]
        /\ Restage([s \in Slots |-> left[s - 1] - left[s]])
        /\ Post(Mirror(p))
        /\ UNCHANGED <<applied, due>>

\* _reverse: the payment's own allocations are undone, and the posting is
\* mirrored.
Reverse(p) ==
    /\ paid' = [s \in Slots |-> paid[s] - applied[p][s]]
    /\ Restage(applied[p])
    /\ Post(Mirror(p))
    /\ UNCHANGED <<applied, due>>

\* A payment first heard of when it has been returned already: _settle and
\* _reverse in one transaction.
SettleAndReverse(p, x) ==
    LET f == Allocate(x)
    IN  /\ applied' = [applied EXCEPT ![p] = f]
        /\ Post({Entry(p, kind, Lines(x, f)) : kind \in EntryKinds})
        /\ stage' = [i \in Instalments |->
                        IF \E s \in Row(i) : f[s] # 0 THEN StoredStatus(i, due, paid)
                        ELSE stage[i]]
        /\ UNCHANGED <<due, paid>>

\* Late charges on an overdue instalment with principal unpaid.  It may fall
\* overdue at any time.
AssessCharge(i) ==
    /\ Room(PrincipalSlot(i)) > 0
    /\ due[FeeSlot(i)] < MaxFee
    /\ due' = [due EXCEPT ![FeeSlot(i)] = @ + 1]
    /\ UNCHANGED <<applied, paid, stage, books>>

-----------------------------------------------------------------------------
(* What may happen to the account as a whole: a payment is received once,  *)
(* and returned once after that or at the same time.                       *)

Booked(p, kind) == \E e \in books : e.payment = p /\ e.kind = kind

\* More than everything is never asked for, but it may be by the time it comes.
MaxAmount == Total(Interest, Instalments) + Cardinality(Instalments) * (MaxFee + 1)
Amounts == 1 .. MaxAmount

AccountNext ==
    \/ \E p \in Payments :
          \/ /\ ~Booked(p, "received")
             /\ \E x \in Amounts : Settle(p, x) \/ SettleAndReverse(p, x)
          \/ /\ Booked(p, "received") /\ ~Booked(p, "reversed")
             /\ Reverse(p)
    \/ \E i \in Instalments : AssessCharge(i)

AccountSpec == AccountInit /\ [][AccountNext]_moneyVars

-----------------------------------------------------------------------------
(* Properties.                                                             *)

Money == 0 .. MaxAmount

AccountTypeOK ==
    /\ applied \in [Payments -> [Slots -> Money]]
    /\ due \in [Slots -> Money] /\ paid \in [Slots -> Money]
    /\ stage \in [Instalments -> {"SCHEDULED", "PARTIALLY_PAID", "PAID"}]
    /\ books \subseteq [payment : Payments, kind : EntryKinds, lines : [Accounts -> Money]]

\* Payments settle, are returned and settle again in any order, with late
\* charges between: no slot is ever paid beyond its due amount or below
\* nothing.  ck_installment_paid_within_due would abort the transaction, and
\* money that came in would not be recorded.
PaidWithinDue == \A s \in Slots : paid[s] \in 0 .. due[s]

\* The stored status of an instalment is what its amounts say
\* (ck_installment_paid_status, ck_installment_scheduled_status), although
\* only the rows a transaction allocates to are rewritten and a late charge
\* rewrites none.
StageMatchesAmounts ==
    \A i \in Instalments : stage[i] = StoredStatus(i, due, paid)

\* So the table's constraints accept every row these transactions write, and
\* money that came in is never left unrecorded.
TableAcceptsRows == PaidWithinDue /\ StageMatchesAmounts

\* Ledger balance of an account.
Balance(a) ==
    LET line == [e \in books |-> e.lines[a]]
    IN  Total(line, {e \in books : e.kind = "received"})
            - Total(line, {e \in books : e.kind = "reversed"})

\* What the instalments say was paid of each component is what the ledger
\* says of its account, whatever was received and returned in between.
BooksMatchInstalments ==
    \A c \in Components : Total(paid, SlotsOf(c)) = Balance(c)

\* The loop of allocate is the waterfall its comment promises, from every
\* state of the instalments, holes left by returned payments included: a slot
\* gets money only when all before it are filled, and money is left over
\* only when all are.
AllocationIsWaterfall ==
    \A x \in Amounts :
        LET f == Allocate(x)
            Full(s) == f[s] = Room(s)
        IN  /\ \A s \in Slots : f[s] \in 0 .. Room(s)
            /\ \A s \in Slots : f[s] > 0 => \A t \in 1 .. s - 1 : Full(t)
            /\ Total(f, Slots) = x \/ (Total(f, Slots) < x /\ \A s \in Slots : Full(s))
=============================================================================
