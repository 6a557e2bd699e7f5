--------------------------- MODULE Reconciliation ---------------------------
(***************************************************************************)
(* Comparing one day of one flow with the provider's settlement report.    *)
(*                                                                         *)
(* A worker, or an admin, claims the day's run and commits; executes it    *)
(* under the run's lock, in one transaction with every finding; and marks  *)
(* it failed in a third transaction when that raises.  Runners die and     *)
(* stall in between, so that a run goes from one to another: the one that  *)
(* lost it doesn't know.                                                   *)
(*                                                                         *)
(* Payments and payouts go on changing, each with its posting.  Executing  *)
(* reads our items first and what the ledger holds for them in a later     *)
(* statement, which sees what was committed in between.  That the ledger   *)
(* follows the items is what the modules Repayment and Disbursement are    *)
(* about; here a row may lack its posting, for the comparison to find.     *)
(*                                                                         *)
(* Workers only look at the last few days; an admin may ask for any.       *)
(***************************************************************************)
EXTENDS Integers, FiniteSets

CONSTANTS
    Runners,
    Refs,           \* provider references in the report or in our rows
    Foreign,        \* those of them we have no row for
    MaxRunAttempts  \* reconciliation_max_attempts

ASSUME ReconAssumption == MaxRunAttempts \in Nat

Ours == Refs \ Foreign

RunStatus == {"NONE", "RUNNING", "COMPLETED", "FAILED"}
ItemStatus == {"PENDING", "SUCCESS", "FAILED", "REVERSED"}

\* EXPECTED_EXTERNAL
Expected == [SUCCESS |-> "SETTLED", REVERSED |-> "REVERSED", FAILED |-> "FAILED"]

\* What the report has for a reference: how many lines, what the first says,
\* and whether its amount is ours.  The last two are only looked at in a line
\* that is alone, for a row of ours.
Lines == [count : 0 .. 2, says : {"SETTLED", "FAILED", "REVERSED"}, agrees : BOOLEAN]

Findings == {"MATCHED", "MISSING_EXTERNAL", "MISSING_INTERNAL", "AMOUNT_MISMATCH",
             "STATUS_MISMATCH", "DUPLICATE_EXTERNAL", "LEDGER_MISMATCH"}
Reviews == {"NOT_REQUIRED", "OPEN", "IN_REVIEW", "RESOLVED"}

VARIABLES
    run,        \* the day's run: its status and attempts
    stale,      \* it was last touched reconciliation_stale_minutes ago
    report,     \* the day's report: it doesn't change any more
    recent,     \* the day is one of default_days, or on a worker's list of them
    item,       \* the status of each of our rows
    booked,     \* whether the ledger moved the bank account for it
    at,         \* where each runner is with the run
    saw,        \* the statuses an execution read
    finding,    \* the findings committed, by reference
    review,     \* how far their review is
    touched     \* rows that moved since an execution read them

rowsVars == <<item, booked>>
reconVars == <<run, stale, report, recent, rowsVars, at, saw, finding, review, touched>>

Places == {"idle", "claimed", "read", "failed"}

ReconInit ==
    /\ run = [status |-> "NONE", attempts |-> 0]
    /\ stale = FALSE
    /\ report \in [Refs -> Lines]
    /\ \A r \in Refs : report[r].count # 1 \/ r \in Foreign =>
            report[r].says = "SETTLED" /\ report[r].agrees
    /\ recent = TRUE
    /\ item \in [Ours -> {"PENDING", "SUCCESS"}]
    /\ booked \in [Ours -> BOOLEAN]
    /\ \A r \in Ours : booked[r] => item[r] = "SUCCESS"
    /\ at = [w \in Runners |-> "idle"]
    /\ saw = [r \in Ours |-> "PENDING"]
    /\ finding = [r \in {} |-> "MATCHED"] /\ review = [r \in {} |-> "OPEN"]
    /\ touched = {}

\* The bank account moved for an item that succeeded, and for no other.
Moved(status) == status = "SUCCESS"

\* An execution holds the run's lock: whoever wants the run waits.
RunLocked == \E w \in Runners : at[w] = "read"

Go(w, place) == at' = [at EXCEPT ![w] = place]

----------------------------------------------------------------------------
\* Claiming

\* Seeded fault: A stale run is left to its owner.
MayRetakeFailed(byAdmin) ==
    run.status = "FAILED" /\ (byAdmin \/ run.attempts < MaxRunAttempts)

MayRetake(byAdmin) ==
    \/ run.status = "RUNNING" /\ stale
    \/ run.status = "FAILED" /\ (byAdmin \/ run.attempts < MaxRunAttempts)

\* claim, by a worker whose days_needing_work list the day, or by an admin.
\* attempts counts on past the limit that stops workers; here it stops counting
\* one above.
ClaimRun(w, byAdmin) ==
    /\ byAdmin \/ recent
    /\ at[w] = "idle" /\ ~ RunLocked
    /\ run.status = "NONE" \/ MayRetake(byAdmin)
    /\ run' = [status |-> "RUNNING",
               attempts |-> IF run.attempts > MaxRunAttempts THEN run.attempts
                            ELSE run.attempts + 1]
    /\ stale' = FALSE
    /\ Go(w, "claimed")
    /\ UNCHANGED <<report, recent, rowsVars, saw, finding, review, touched>>

----------------------------------------------------------------------------
\* Executing

\* Lock the run, fetch the report, read our items.
StartExecution(w) ==
    /\ at[w] = "claimed" /\ ~ RunLocked
    /\ run.status = "RUNNING"
    /\ saw' = item
    /\ touched' = {}
    /\ Go(w, "read")
    /\ UNCHANGED <<run, stale, report, recent, rowsVars, finding, review>>

\* The run was finished or failed by another: there is nothing to do.
LostRun(w) ==
    /\ at[w] = "claimed" /\ ~ RunLocked
    /\ run.status # "RUNNING"
    /\ Go(w, "idle")
    /\ UNCHANGED <<run, stale, report, recent, rowsVars, saw, finding, review, touched>>

\* Seeded fault: The ledger isn't looked at.
FindingForUnbooked(ref, status, net) ==
    LET line == report[ref]
    IN  IF line.count > 1 THEN "DUPLICATE_EXTERNAL"
        ELSE IF line.count = 1 /\ ref \in Foreign THEN "MISSING_INTERNAL"
        ELSE IF line.count = 0 THEN "MISSING_EXTERNAL"
        ELSE IF status \notin DOMAIN Expected THEN "STATUS_MISMATCH"
        ELSE IF line.says # Expected[status] THEN "STATUS_MISMATCH"
        ELSE IF ~ line.agrees THEN "AMOUNT_MISMATCH"
        ELSE "MATCHED"

\* reconcile, on one reference; net is whether the ledger moved the bank account.
FindingFor(ref, status, net) ==
    LET line == report[ref]
    IN  IF line.count > 1 THEN "DUPLICATE_EXTERNAL"
        ELSE IF line.count = 1 /\ ref \in Foreign THEN "MISSING_INTERNAL"
        ELSE IF line.count = 0 THEN "MISSING_EXTERNAL"
        ELSE IF status \notin DOMAIN Expected THEN "STATUS_MISMATCH"
        ELSE IF line.says # Expected[status] THEN "STATUS_MISMATCH"
        ELSE IF ~ line.agrees THEN "AMOUNT_MISMATCH"
        ELSE IF net # Moved(status) THEN "LEDGER_MISMATCH"
        ELSE "MATCHED"

\* bank_net: what the ledger holds for an item when it is asked.
BankNet(r) == booked[r]

\* Every reference reported, and every item of the day that was settled.
Covered == {r \in Refs : report[r].count > 0}
           \cup {r \in Ours : saw[r] \in {"SUCCESS", "REVERSED"}}

\* The findings and the completion: one commit.
Complete(w) ==
    /\ at[w] = "read"
    /\ finding' = [r \in Covered |->
                        IF r \in Foreign THEN FindingFor(r, "PENDING", FALSE)
                        ELSE FindingFor(r, saw[r], BankNet(r))]
    /\ review' = [r \in Covered |->
                        IF finding'[r] = "MATCHED" THEN "NOT_REQUIRED" ELSE "OPEN"]
    /\ run' = [run EXCEPT !.status = "COMPLETED"]
    /\ stale' = FALSE
    /\ Go(w, "idle")
    /\ UNCHANGED <<report, recent, rowsVars, saw, touched>>

\* The provider or the comparison fails, and the transaction with it.
ExecutionFails(w) ==
    /\ at[w] = "read"
    /\ Go(w, "failed")
    /\ UNCHANGED <<run, stale, report, recent, rowsVars, saw, finding, review, touched>>

\* Seeded fault: Whatever has become of the run.
MarkFailedAnyway(w) ==
    /\ at[w] = "failed" /\ ~ RunLocked
    /\ run' = [run EXCEPT !.status = "FAILED"]
    /\ Go(w, "idle")
    /\ UNCHANGED <<stale, report, recent, rowsVars, saw, finding, review, touched>>

\* mark_failed: whoever the run belongs to by now.
MarkFailed(w) ==
    /\ at[w] = "failed" /\ ~ RunLocked
    /\ run' = IF run.status = "RUNNING" THEN [run EXCEPT !.status = "FAILED"] ELSE run
    /\ Go(w, "idle")
    /\ UNCHANGED <<stale, report, recent, rowsVars, saw, finding, review, touched>>

WorkerDies(w) ==
    /\ at[w] # "idle"
    /\ Go(w, "idle")
    /\ UNCHANGED <<run, stale, report, recent, rowsVars, saw, finding, review, touched>>

----------------------------------------------------------------------------
\* Review: it changes nothing but the record.

StartReview(r) ==
    /\ r \in DOMAIN review /\ review[r] = "OPEN"
    /\ review' = [review EXCEPT ![r] = "IN_REVIEW"]
    /\ UNCHANGED <<run, stale, report, recent, rowsVars, at, saw, finding, touched>>

ResolveFinding(r) ==
    /\ r \in DOMAIN review /\ review[r] \in {"OPEN", "IN_REVIEW"}
    /\ review' = [review EXCEPT ![r] = "RESOLVED"]
    /\ UNCHANGED <<run, stale, report, recent, rowsVars, at, saw, finding, touched>>

----------------------------------------------------------------------------

\* A payment or payout moves on, and its posting with it: a reversal mirrors
\* what was posted.
ItemMoves(r, s) ==
    /\ \/ item[r] = "PENDING" /\ s \in {"SUCCESS", "FAILED"}
       \/ item[r] = "SUCCESS" /\ s = "REVERSED"
    /\ item' = [item EXCEPT ![r] = s]
    /\ booked' = [booked EXCEPT ![r] = Moved(s)]
    /\ touched' = IF RunLocked \/ run.status = "COMPLETED" THEN touched \cup {r}
                  ELSE touched
    /\ UNCHANGED <<run, stale, report, recent, at, saw, finding, review>>

TimePasses ==
    /\ run.status = "RUNNING" /\ ~ stale /\ stale' = TRUE
    /\ UNCHANGED <<run, report, recent, rowsVars, at, saw, finding, review, touched>>

\* reconciliation_lookback_days are over.
DayGrowsOld ==
    /\ recent /\ recent' = FALSE
    /\ UNCHANGED <<run, stale, report, rowsVars, at, saw, finding, review, touched>>

Begin(w) == StartExecution(w) \/ LostRun(w)
End(w) == Complete(w) \/ ExecutionFails(w)

ReconNext ==
    \/ \E w \in Runners :
        \/ \E byAdmin \in BOOLEAN : ClaimRun(w, byAdmin)
        \/ Begin(w)
        \/ End(w)
        \/ MarkFailed(w)
        \/ WorkerDies(w)
    \/ \E r \in Refs : StartReview(r) \/ ResolveFinding(r)
    \/ \E r \in Ours, s \in ItemStatus : ItemMoves(r, s)
    \/ TimePasses
    \/ DayGrowsOld

ReconSpec == ReconInit /\ [][ReconNext]_reconVars

\* The workers run passes for ever and claim what they may, which is nothing of
\* a day that is no longer recent; they die, but one that keeps getting as far
\* as a step takes it in the end.  Nothing is assumed of admins.
ReconFairness ==
    /\ WF_reconVars(TimePasses)
    /\ \A w \in Runners :
        /\ WF_reconVars(ClaimRun(w, FALSE))
        /\ SF_reconVars(Begin(w))
        /\ SF_reconVars(End(w))
        /\ SF_reconVars(MarkFailed(w))

ReconLiveSpec == ReconSpec /\ ReconFairness

----------------------------------------------------------------------------

ReconTypeOK ==
    /\ run \in [status : RunStatus, attempts : 0 .. MaxRunAttempts + 1]
    /\ stale \in BOOLEAN
    /\ report \in [Refs -> Lines] /\ recent \in BOOLEAN
    /\ booked \in [Ours -> BOOLEAN]
    /\ item \in [Ours -> ItemStatus] /\ saw \in [Ours -> ItemStatus]
    /\ at \in [Runners -> Places]
    /\ DOMAIN finding \subseteq Refs /\ DOMAIN review = DOMAIN finding
    /\ \A r \in DOMAIN finding : finding[r] \in Findings /\ review[r] \in Reviews
    /\ touched \subseteq Ours

\* The one line of the report about a row of ours says what the row says, and
\* the ledger has what the row calls for.
Agrees(r) ==
    /\ report[r].count = 1 /\ report[r].agrees
    /\ item[r] \in DOMAIN Expected /\ report[r].says = Expected[item[r]]
    /\ booked[r] = Moved(item[r])

\* Findings are written once, with the run's completion.  None of the report's
\* lines and of our settled rows is left out, and what goes without review is
\* what agrees with the report and with the books, while rows and books were
\* being read one after the other and went on moving: only of a row that moved
\* since it was read may the finding be wrong, and then the report at least
\* agrees with what was read: services/reconciliation.py execute,
\* domain/reconciliation.py reconcile.
FindingsAreSound ==
    /\ run.status # "COMPLETED" => DOMAIN finding = {}
    /\ run.status = "COMPLETED" =>
        /\ \A r \in Refs : report[r].count > 0 => r \in DOMAIN finding
        /\ \A r \in Ours \ touched :
                item[r] \in {"SUCCESS", "REVERSED"} => r \in DOMAIN finding
        /\ \A r \in DOMAIN finding :
            /\ (finding[r] = "MATCHED") = (review[r] = "NOT_REQUIRED")
            /\ r \in Ours \ touched => (finding[r] = "MATCHED") = Agrees(r)
            /\ finding[r] = "MATCHED" =>
                    report[r].count = 1 /\ report[r].agrees /\ r \in Ours
                    /\ saw[r] \in DOMAIN Expected /\ report[r].says = Expected[saw[r]]

\* A completed run is final, whoever still believes it is theirs, and so is a
\* resolved finding: alembic/versions/b8dbaf7ce65b recon_protect_run.
CompletedIsFinal ==
    [][/\ run.status = "COMPLETED" => run' = run /\ finding' = finding
       /\ \A r \in DOMAIN review : review[r] = "RESOLVED" => review'[r] = "RESOLVED"
      ]_reconVars

\* A run that is claimed ends while its day is one that workers look at, although
\* its runner dies or loses it to another: services/reconciliation.py claim,
\* default_days.  Of an older day nothing is said: a run that an admin started
\* and that died stays RUNNING until an admin starts it again.
RunEnds == run.status = "RUNNING" ~> run.status # "RUNNING" \/ ~ recent

=============================================================================
