------------------------- MODULE DisbursementProofs -------------------------
(***************************************************************************)
(* Theorems about Disbursement for every bound on the attempts and, where  *)
(* no assumption says otherwise, every misbehaviour of the provider.       *)
(***************************************************************************)
EXTENDS Disbursement, TLAPS

-----------------------------------------------------------------------------
(* Type correctness.  Every handler changes the rows and the ledger through *)
(* a few operators, so the types of these are one lemma each.              *)

RowsTypeOK ==
    /\ count \in 0 .. MaxAttempts
    /\ status \in [Attempts -> Status]
    /\ ref \in [Attempts -> Refs]
    /\ books \subseteq Postings

ProviderTypeOK ==
    /\ payout \in [Attempts -> PayoutState]
    /\ reported \subseteq Events
    /\ delayed \subseteq Attempts

\* Every answer of the provider is a report.
LEMMA AnswersAreReports ==
    ASSUME NEW a \in Attempts, TypeOK, LookupFinds(a)
    PROVE  Answers(a) \subseteq Report
<1>1. CASE "misreport" \in Quirks
  BY <1>1 DEF Answers
<1>2. CASE "misreport" \notin Quirks
  <2>1. payout[a] \in Reportable
    BY <1>2 DEF LookupFinds, TypeOK, PayoutState, Reportable
  <2>2. a \in Refs /\ NoRef \in Refs
    BY MaxAttemptsAssumption DEF Attempts, Refs, NoRef
  <2> SUFFICES ASSUME NEW rep \in Answers(a) PROVE rep \in Report
    OBVIOUS
  <2>3. PICK r \in {NoRef, a} :
            rep = [status |-> payout[a], ref |-> r, amountOk |-> TRUE]
    BY <1>2 DEF Answers
  <2> QED
    BY <2>1, <2>2, <2>3 DEF Report
<1> QED
  BY <1>1, <1>2

LEMMA StatusAfterType ==
    ASSUME NEW cur \in Status, NEW v
    PROVE  StatusAfter(cur, v) \in Status
BY DEF StatusAfter, Status

LEMMA PostedByType ==
    ASSUME NEW a \in Attempts, NEW v
    PROVE  PostedBy(a, v) \subseteq Postings
BY DEF PostedBy, Postings

LEMMA EnactType ==
    ASSUME RowsTypeOK, NEW a \in Attempts, NEW r \in Report, NEW v,
           Enact(a, r, v)
    PROVE  RowsTypeOK'
<1>1. r.ref \in Refs
  BY DEF Report
<1>2. RefAfter(a, r) \in Refs
  BY <1>1 DEF RefAfter, RowsTypeOK
<1>3. StatusAfter(status[a], v) \in Status
  BY StatusAfterType DEF RowsTypeOK
<1>4. books' \subseteq Postings
  BY PostedByType DEF Enact, RowsTypeOK
<1> QED
  BY <1>2, <1>3, <1>4 DEF Enact, RowsTypeOK

LEMMA ReviewType ==
    ASSUME RowsTypeOK, NEW a \in Attempts, Review(a)
    PROVE  RowsTypeOK'
BY DEF Review, RowsTypeOK, Status

LEMMA NewRowType ==
    ASSUME RowsTypeOK, NewRow
    PROVE  RowsTypeOK'
<1>1. count' \in 0 .. MaxAttempts
  BY MaxAttemptsAssumption DEF NewRow, RowsTypeOK
<1> QED
  BY <1>1 DEF NewRow, RowsTypeOK, Status

LEMMA BecomesType ==
    ASSUME ProviderTypeOK, NEW a \in Attempts, NEW p \in Reportable,
           Becomes(a, p)
    PROVE  payout' \in [Attempts -> PayoutState] /\ reported' \subseteq Events
BY DEF Becomes, ProviderTypeOK, Reportable, PayoutState, Events

LEMMA LandType ==
    ASSUME ProviderTypeOK, NEW a \in Attempts, Land(a)
    PROVE  payout' \in [Attempts -> PayoutState] /\ reported' \subseteq Events
<1>1. CASE payout[a] = "ABSENT"
  <2>1. PICK p \in {"PROCESSING", "SUCCESS", "FAILED"} : Becomes(a, p)
    BY <1>1 DEF Land
  <2> QED
    BY <2>1, BecomesType DEF Reportable, PayoutState
<1>2. CASE payout[a] # "ABSENT"
  BY <1>2 DEF Land, ProviderTypeOK
<1> QED
  BY <1>1, <1>2

LEMMA SubmitType ==
    ASSUME RowsTypeOK, ProviderTypeOK, NEW a \in Attempts, Submit(a)
    PROVE  RowsTypeOK' /\ ProviderTypeOK'
<1>1. CASE NoBeneficiary(a)
  BY <1>1, ReviewType DEF NoBeneficiary, ProviderTypeOK, providerVars
<1>2. CASE SubmitLost(a)
  BY <1>2 DEF SubmitLost, RowsTypeOK, ProviderTypeOK, rowVars
<1>3. CASE SubmitUnanswered(a)
  BY <1>3, LandType DEF SubmitUnanswered, RowsTypeOK, ProviderTypeOK, rowVars
<1>4. CASE SubmitRejected(a)
  BY <1>4 DEF SubmitRejected, RowsTypeOK, ProviderTypeOK, providerVars, Status
<1>5. CASE SubmitAnswered(a)
  <2>1. payout' \in [Attempts -> PayoutState] /\ reported' \subseteq Events
    BY <1>5, LandType DEF SubmitAnswered
  <2>2. payout'[a] \in Reportable
    BY <1>5 DEF SubmitAnswered, Land, Becomes, ProviderTypeOK, Reportable,
                PayoutState
  <2>3. PICK rep \in SubmitAnswers(a, payout'[a]) :
            Enact(a, rep, Verdict(a, rep, FALSE))
    BY <1>5 DEF SubmitAnswered
  <2>4. rep \in Report
    <3>1. CASE "misreport" \in Quirks
      BY <2>3, <3>1 DEF SubmitAnswers
    <3>2. CASE "misreport" \notin Quirks
      <4>1. rep = [status |-> payout'[a], ref |-> a, amountOk |-> TRUE]
        BY <2>3, <3>2 DEF SubmitAnswers
      <4>2. a \in Refs
        BY MaxAttemptsAssumption DEF Attempts, Refs
      <4> QED
        BY <2>2, <4>1, <4>2 DEF Report
    <3> QED
      BY <3>1, <3>2
  <2>5. RowsTypeOK'
    BY <2>3, <2>4, EnactType
  <2> QED
    BY <1>5, <2>1, <2>5 DEF SubmitAnswered, ProviderTypeOK
<1> QED
  BY <1>1, <1>2, <1>3, <1>4, <1>5 DEF Submit

LEMMA ReconcileType ==
    ASSUME TypeOK, NEW a \in Attempts,
           PollTimesOut(a) \/ PollMisses(a) \/ PollFinds(a)
    PROVE  RowsTypeOK' /\ ProviderTypeOK'
<1> USE DEF providerVars, rowVars
<1>1. RowsTypeOK /\ ProviderTypeOK
  BY DEF TypeOK, RowsTypeOK, ProviderTypeOK
<1>2. CASE PollTimesOut(a)
  BY <1>1, <1>2, ReviewType DEF PollTimesOut, RowsTypeOK, ProviderTypeOK
<1>3. CASE PollMisses(a)
  BY <1>1, <1>3, ReviewType, SubmitType DEF PollMisses, ProviderTypeOK
<1>4. CASE PollFinds(a)
  BY <1>1, <1>4, EnactType, AnswersAreReports DEF PollFinds, ProviderTypeOK
<1> QED
  BY <1>2, <1>3, <1>4

LEMMA AddresseeType ==
    ASSUME NEW r, NEW key \in Attempts
    PROVE  Addressee(r, key) \in Attempts
BY DEF Addressee, Rows

LEMMA RecheckType ==
    ASSUME TypeOK, NEW a \in Attempts, Recheck(a)
    PROVE  RowsTypeOK'
<1> USE DEF rowVars
<1>1. RowsTypeOK
  BY DEF TypeOK, RowsTypeOK
<1>2. CASE RecheckMisses(a)
  <2>1. [status |-> "FAILED", ref |-> NoRef, amountOk |-> TRUE] \in Report
    BY MaxAttemptsAssumption DEF Report, Reportable, PayoutState, Refs, NoRef
  <2> QED
    BY <1>1, <1>2, <2>1, EnactType DEF RecheckMisses, RowsTypeOK
<1>3. CASE RecheckFinds(a)
  BY <1>1, <1>3, EnactType, AnswersAreReports DEF RecheckFinds
<1> QED
  BY <1>2, <1>3 DEF Recheck

LEMMA RetryType ==
    ASSUME TypeOK, Retry
    PROVE  RowsTypeOK' /\ view' \in Views
<1>1. RowsTypeOK
  BY DEF TypeOK, RowsTypeOK
<1>2. view' \in Views
  BY DEF Retry, Views
<1>3. CASE RetryRefused
  BY <1>1, <1>2, <1>3 DEF RetryRefused, RowsTypeOK, rowVars
<1>4. CASE RetryBlocked(view.attempt)
  <2>1. view.attempt \in Attempts
    BY DEF Retry, TypeOK, Views
  <2> QED
    BY <1>1, <1>2, <1>4, <2>1, ReviewType DEF RetryBlocked, RowsTypeOK, rowVars
<1>5. CASE RetryAccepted(view.attempt)
  BY <1>1, <1>2, <1>5, NewRowType DEF RetryAccepted
<1> QED
  BY <1>2, <1>3, <1>4, <1>5 DEF Retry

\* The variables always have their types.
THEOREM TypeCorrect == Spec => []TypeOK
<1> USE DEF dbVars, rowVars, providerVars
<1>1. Init => TypeOK
  BY MaxAttemptsAssumption
  DEF Init, TypeOK, Status, Refs, NoRef, Views, PayoutState
<1>2. TypeOK /\ [Next]_vars => TypeOK'
  <2> SUFFICES ASSUME TypeOK, [Next]_vars PROVE TypeOK'
    OBVIOUS
  <2>0. RowsTypeOK /\ ProviderTypeOK
    BY DEF TypeOK, RowsTypeOK, ProviderTypeOK
  <2> SUFFICES RowsTypeOK' /\ ProviderTypeOK' /\ seen' \subseteq Events
               /\ tooOld' \subseteq Attempts /\ tasks' \subseteq Tasks
               /\ view' \in Views
    BY DEF TypeOK, RowsTypeOK, ProviderTypeOK
  <2> USE DEF TypeOK
  <2>1. CASE Create
    BY <2>0, <2>1, NewRowType DEF Create, ProviderTypeOK
  <2>2. CASE Retry
    BY <2>0, <2>2, RetryType DEF Retry, ProviderTypeOK
  <2>3. CASE WorkerCrash
    BY <2>3 DEF WorkerCrash, RowsTypeOK, ProviderTypeOK
  <2>4. ASSUME NEW a \in Attempts, Claim(a) PROVE TypeOK'
    <3>1. <<a, "submit">> \in Tasks
      BY DEF Tasks
    <3> QED
      BY <2>4, <3>1 DEF Claim, Status
  <2>5. ASSUME NEW a \in Attempts, SubmitClaimed(a) PROVE TypeOK'
    BY <2>0, <2>5, SubmitType DEF SubmitClaimed, RowsTypeOK, ProviderTypeOK
  <2>6. ASSUME NEW a \in Attempts, Age(a) PROVE TypeOK'
    BY <2>6 DEF Age
  <2>7. ASSUME NEW a \in Attempts, FindCandidate(a) PROVE TypeOK'
    <3>1. <<a, "poll">> \in Tasks
      BY DEF Tasks
    <3> QED
      BY <2>7, <3>1 DEF FindCandidate
  <2>8. ASSUME NEW a \in Attempts, ReconcileOne(a) PROVE TypeOK'
    BY <2>0, <2>8, ReconcileType DEF ReconcileOne, RowsTypeOK, ProviderTypeOK
  <2>9. ASSUME NEW a \in Attempts, RetryRead(a) PROVE TypeOK'
    BY <2>9 DEF RetryRead, Views
  <2>10. ASSUME NEW a \in Attempts, Recheck(a) PROVE TypeOK'
    <3>1. RowsTypeOK'
      BY <2>10, RecheckType
    <3> QED
      BY <2>10, <3>1 DEF Recheck, RowsTypeOK
  <2>11. ASSUME NEW a \in Attempts, ProviderDecides(a) PROVE TypeOK'
    <3>1. PICK p \in Reportable : Becomes(a, p)
      BY <2>11 DEF ProviderDecides
    <3> QED
      BY <2>0, <2>11, <3>1, BecomesType DEF ProviderDecides
  <2>12. ASSUME NEW a \in Attempts, DelayedLands(a) PROVE TypeOK'
    BY <2>0, <2>12, LandType DEF DelayedLands
  <2>13. ASSUME NEW a \in Attempts, NEW s \in Reportable, Webhook(a, s)
         PROVE  TypeOK'
    <3> DEFINE rep == [status |-> s, ref |-> a, amountOk |-> TRUE]
               d == Addressee(a, a)
    <3>1. rep \in Report /\ <<a, s>> \in Events
      BY DEF Report, Refs, Attempts, Events
    <3>2. d \in Attempts
      BY AddresseeType
    <3>3. Enact(d, rep, Verdict(d, rep, FALSE))
      BY <2>13 DEF Webhook
    <3>4. RowsTypeOK'
      BY <2>0, <3>1, <3>2, <3>3, EnactType
    <3>5. seen' \subseteq Events /\ UNCHANGED <<tooOld, tasks, view, providerVars>>
      BY <2>13, <3>1 DEF Webhook
    <3> QED
      BY <3>4, <3>5 DEF RowsTypeOK
  <2>14. ASSUME NEW a \in Attempts, NEW rep \in Report, StrayWebhook(a, rep)
         PROVE  TypeOK'
    <3>1. RowsTypeOK'
      BY <2>0, <2>14, EnactType DEF StrayWebhook, Rows
    <3>2. UNCHANGED <<seen, tooOld, tasks, view, providerVars>>
      BY <2>14 DEF StrayWebhook
    <3> QED
      BY <3>1, <3>2 DEF RowsTypeOK
  <2>15. CASE UNCHANGED vars
    BY <2>15 DEF vars, RowsTypeOK, ProviderTypeOK
  <2> QED
    BY <2>1, <2>2, <2>3, <2>4, <2>5, <2>6, <2>7, <2>8, <2>9, <2>10, <2>11,
       <2>12, <2>13, <2>14, <2>15
    DEF Next, RowsTypeOK, ProviderTypeOK
<1> QED
  BY <1>1, <1>2, PTL DEF Spec
-----------------------------------------------------------------------------
(* One live row, and the books.  What makes these inductive is that nothing *)
(* ever speaks of an attempt that has no row (OnlyRows), and that a settled *)
(* row has its provider reference, which no report can replace.            *)

OnlyRows ==
    /\ \A a \in Attempts : payout[a] # "ABSENT" => a \in Rows
    /\ \A e \in reported : e[1] \in Rows
    /\ delayed \subseteq Rows
    /\ \A t \in tasks : t[1] \in Rows
    /\ view # NoView => view.attempt \in Rows

SettledHasRef == \A a \in Rows : status[a] \in Settled => ref[a] # NoRef

RowsInv == OneLivePerOffer /\ BooksMatchRows /\ SettledHasRef
BooksInv == TypeOK /\ OnlyRows /\ RowsInv

\* The moves a handler may make with one row.
Move(a) ==
    /\ a \in Rows /\ count' = count
    /\ status' = [status EXCEPT ![a] = status'[a]]
    /\ ref' = [ref EXCEPT ![a] = ref'[a]]
    /\ ref[a] # NoRef => ref'[a] = ref[a]
    /\ \A b \in Attempts \ {a}, k \in {"paid", "reversed"} :
           <<b, k>> \in books' <=> <<b, k>> \in books
    /\ \/ /\ status'[a] = status[a]
          /\ books' = books
       \/ /\ <<status[a], status'[a]>> \in Transitions
          /\ status'[a] \notin Settled
          /\ books' = books
       \/ /\ <<status[a], "SUCCESS">> \in Transitions
          /\ status'[a] = "SUCCESS" /\ ref'[a] # NoRef
          /\ books' = books \cup {<<a, "paid">>}
       \/ /\ <<status[a], "SUCCESS">> \in Transitions
          /\ status'[a] = "REVERSED" /\ ref'[a] # NoRef
          /\ books' = books \cup {<<a, "paid">>, <<a, "reversed">>}
       \/ /\ status[a] = "SUCCESS" /\ status'[a] = "REVERSED"
          /\ books' = books \cup {<<a, "reversed">>}
    /\ status'[a] \in Live => NoOtherLive(a) \/ status[a] \in Live

\* A verdict fits the status of its row.
LEMMA VerdictFits ==
    ASSUME NEW a, status[a] \in Status, NEW rep, NEW fromReview \in BOOLEAN
    PROVE  LET v == Verdict(a, rep, fromReview)
           IN  /\ v \in {"ignore", "review", "wait", "fail", "pay",
                         "payAndReverse", "reverse"}
               /\ v = "review" => status[a] \notin Settled
               /\ v = "reverse" => status[a] = "SUCCESS"
               /\ v \in {"wait", "fail", "pay", "payAndReverse"} =>
                      status[a] \in {"PROCESSING", "REQUIRES_REVIEW"}
               /\ v \in {"pay", "payAndReverse"} => RefAfter(a, rep) # NoRef
<1>1. CASE Contradicts(a, rep)
  BY <1>1 DEF Verdict, OnContradiction
<1>2. CASE ~Contradicts(a, rep) /\ status[a] = "REVERSED"
  BY <1>2 DEF Verdict
<1>3. CASE ~Contradicts(a, rep) /\ status[a] = "SUCCESS"
  BY <1>3 DEF Verdict
<1>4. CASE ~Contradicts(a, rep) /\ status[a] = "FAILED"
  BY <1>4 DEF Verdict, Settled
<1>5. CASE ~Contradicts(a, rep) /\ status[a] = "PENDING"
  BY <1>5 DEF Verdict, Settled
<1>6. CASE /\ ~Contradicts(a, rep)
           /\ status[a] \in {"PROCESSING", "REQUIRES_REVIEW"}
  <2>1. \/ Verdict(a, rep, fromReview) = "ignore"
        \/ Verdict(a, rep, fromReview) = Outcome(a, rep)
    <3>1. CASE status[a] = "PROCESSING"
      BY <1>6, <3>1, Zenon DEF Verdict
    <3>2. CASE status[a] = "REQUIRES_REVIEW" /\ fromReview
      BY <1>6, <3>2, Zenon DEF Verdict
    <3>3. CASE status[a] = "REQUIRES_REVIEW" /\ ~fromReview
      BY <1>6, <3>3, Zenon DEF Verdict
    <3> QED
      BY <1>6, <3>1, <3>2, <3>3
  <2>2. /\ Outcome(a, rep) \in {"wait", "fail", "review", "pay", "payAndReverse"}
        /\ Outcome(a, rep) \in {"pay", "payAndReverse"} =>
               RefAfter(a, rep) # NoRef
    <3>1. CASE rep.status \in Settled /\ RefAfter(a, rep) = NoRef
      BY <3>1 DEF Outcome, Settled
    <3>2. CASE rep.status = "SUCCESS" /\ RefAfter(a, rep) # NoRef
      BY <3>2 DEF Outcome, Settled
    <3>3. CASE rep.status = "REVERSED" /\ RefAfter(a, rep) # NoRef
      BY <3>3 DEF Outcome, Settled
    <3>4. CASE rep.status \notin Settled
      BY <3>4 DEF Outcome, Settled
    <3> QED
      BY <3>1, <3>2, <3>3, <3>4 DEF Settled
  <2> QED
    BY <1>6, <2>1, <2>2 DEF Settled
<1> QED
  BY <1>1, <1>2, <1>3, <1>4, <1>5, <1>6 DEF Status

\* Applying a verdict that fits the row is a move.
LEMMA EnactMoves ==
    ASSUME TypeOK, RowsInv, NEW a \in Rows, NEW rep, NEW v,
           v \in {"ignore", "review", "wait", "fail", "pay",
                  "payAndReverse", "reverse"},
           v = "review" => status[a] \notin Settled,
           v = "reverse" => status[a] = "SUCCESS",
           v \in {"wait", "fail", "pay", "payAndReverse"} =>
               status[a] \in {"PROCESSING", "REQUIRES_REVIEW"},
           v \in {"pay", "payAndReverse"} => RefAfter(a, rep) # NoRef,
           Enact(a, rep, v)
    PROVE  Move(a)
<1>1. a \in Attempts /\ status[a] \in Status
  BY DEF Rows, TypeOK
<1>2. status'[a] = StatusAfter(status[a], v) /\ ref'[a] = RefAfter(a, rep)
  BY <1>1 DEF Enact, TypeOK
<1>3. /\ status' = [status EXCEPT ![a] = status'[a]]
      /\ ref' = [ref EXCEPT ![a] = ref'[a]]
      /\ count' = count
  BY <1>1, <1>2 DEF Enact, TypeOK
<1>4. ref[a] # NoRef => ref'[a] = ref[a]
  BY <1>2 DEF RefAfter
<1>5. \A b \in Attempts \ {a}, k \in {"paid", "reversed"} :
          <<b, k>> \in books' <=> <<b, k>> \in books
  BY DEF Enact, PostedBy
<1>6. status'[a] \in Live => NoOtherLive(a)
  BY <1>2 DEF Enact, IndexesAllow
<1>7. CASE v \in {"ignore", "wait"}
  <2>1. status'[a] = status[a] /\ books' = books
    BY <1>2, <1>7 DEF Enact, StatusAfter, PostedBy
  <2> QED
    BY <1>3, <1>4, <1>5, <1>6, <2>1 DEF Move
<1>8. CASE v \in {"review", "fail"}
  <2>1. /\ status'[a] = status[a] \/ <<status[a], status'[a]>> \in Transitions
        /\ status'[a] \notin Settled
    BY <1>1, <1>2, <1>8 DEF StatusAfter, Transitions, Status, Settled
  <2>2. books' = books
    BY <1>8 DEF Enact, PostedBy
  <2> QED
    BY <1>3, <1>4, <1>5, <1>6, <2>1, <2>2 DEF Move
<1>9. CASE v = "pay"
  <2>1. status'[a] = "SUCCESS" /\ <<status[a], "SUCCESS">> \in Transitions
    BY <1>2, <1>9 DEF StatusAfter, Transitions
  <2>2. books' = books \cup {<<a, "paid">>} /\ ref'[a] # NoRef
    BY <1>2, <1>9 DEF Enact, PostedBy
  <2> QED
    BY <1>3, <1>4, <1>5, <1>6, <2>1, <2>2 DEF Move
<1>10. CASE v = "payAndReverse"
  <2>1. status'[a] = "REVERSED" /\ <<status[a], "SUCCESS">> \in Transitions
    BY <1>2, <1>10 DEF StatusAfter, Transitions
  <2>2. /\ books' = books \cup {<<a, "paid">>, <<a, "reversed">>}
        /\ ref'[a] # NoRef
    BY <1>2, <1>10 DEF Enact, PostedBy
  <2> QED
    BY <1>3, <1>4, <1>5, <1>6, <2>1, <2>2 DEF Move
<1>11. CASE v = "reverse"
  <2>1. status[a] = "SUCCESS" /\ status'[a] = "REVERSED"
    BY <1>2, <1>11 DEF StatusAfter
  <2>2. <<a, "paid">> \in books
    BY <1>1, <2>1 DEF RowsInv, BooksMatchRows, Settled
  <2>3. books' = books \cup {<<a, "reversed">>}
    BY <1>11, <2>2 DEF Enact, PostedBy
  <2> QED
    BY <1>3, <1>4, <1>5, <1>6, <2>1, <2>3 DEF Move
<1> QED
  BY <1>7, <1>8, <1>9, <1>10, <1>11

\* Every application of a report is a move.
LEMMA ApplyMoves ==
    ASSUME TypeOK, RowsInv, NEW a \in Rows, NEW rep, NEW fromReview \in BOOLEAN,
           Enact(a, rep, Verdict(a, rep, fromReview))
    PROVE  Move(a)
<1>1. status[a] \in Status
  BY DEF Rows, TypeOK
<1> QED
  BY <1>1, VerdictFits, EnactMoves

LEMMA ReviewMoves ==
    ASSUME TypeOK, NEW a \in Rows,
           status[a] \in {"PENDING", "PROCESSING", "FAILED"}, Review(a)
    PROVE  Move(a)
<1>1. a \in Attempts
  BY DEF Rows
<1>2. /\ status' = [status EXCEPT ![a] = "REQUIRES_REVIEW"]
      /\ status'[a] = "REQUIRES_REVIEW"
      /\ ref' = [ref EXCEPT ![a] = ref'[a]]
  BY <1>1 DEF Review, TypeOK
<1>3. <<status[a], status'[a]>> \in Transitions
  BY <1>2 DEF Transitions
<1>4. NoOtherLive(a)
  BY DEF Review, IndexesAllow, Live
<1> QED
  BY <1>2, <1>3, <1>4 DEF Review, Move, Settled

\* A move keeps the one live row, the books and the references.
LEMMA MoveKeepsRows ==
    ASSUME TypeOK, RowsInv, NEW a \in Rows, Move(a)
    PROVE  RowsInv'
<1>1. a \in Attempts /\ Rows' = Rows
  BY DEF Rows, Move
<1>2. /\ \A b \in Attempts \ {a} : status'[b] = status[b] /\ ref'[b] = ref[b]
      /\ status[a] \in Status
  BY <1>1 DEF Move, TypeOK
<1>3. OneLivePerOffer'
  BY <1>1, <1>2 DEF Move, RowsInv, OneLivePerOffer, NoOtherLive, Rows
<1>4. BooksMatchRows'
  <2> SUFFICES ASSUME NEW b \in Attempts
               PROVE  /\ <<b, "paid">> \in books' <=>
                             b \in Rows /\ status'[b] \in Settled
                      /\ <<b, "reversed">> \in books' <=>
                             b \in Rows /\ status'[b] = "REVERSED"
    BY <1>1 DEF BooksMatchRows
  <2>1. CASE b # a
    BY <1>2, <2>1 DEF Move, RowsInv, BooksMatchRows
  <2>2. CASE b = a
    <3>1. /\ <<a, "paid">> \in books <=> status[a] \in Settled
          /\ <<a, "reversed">> \in books <=> status[a] = "REVERSED"
      BY <1>1 DEF RowsInv, BooksMatchRows
    <3> QED
      BY <2>2, <3>1 DEF Move, Transitions, Settled
  <2> QED
    BY <2>1, <2>2
<1>5. SettledHasRef'
  <2>1. status'[a] \in Settled => ref'[a] # NoRef
    BY DEF Move, RowsInv, SettledHasRef, Settled, Transitions
  <2> QED
    BY <1>1, <1>2, <2>1 DEF RowsInv, SettledHasRef, Rows
<1> QED
  BY <1>3, <1>4, <1>5 DEF RowsInv

\* A new row keeps them too.
LEMMA NewRowKeepsRows ==
    ASSUME TypeOK, RowsInv, NewRow
    PROVE  RowsInv' /\ Rows' = Rows \cup {count + 1}
<1>1. count + 1 \in Attempts /\ count \in Nat
  BY MaxAttemptsAssumption DEF NewRow, TypeOK, Attempts
<1>2. Rows' = Rows \cup {count + 1} /\ count + 1 \notin Rows
  BY <1>1 DEF NewRow, Rows, Attempts
<1>3. status'[count + 1] = "PENDING"
      /\ \A b \in Rows : status'[b] = status[b] /\ status[b] \notin Live
  BY <1>1, <1>2 DEF NewRow, TypeOK, Rows
<1>4. OneLivePerOffer'
  BY <1>2, <1>3 DEF OneLivePerOffer
<1>5. BooksMatchRows'
  <2> SUFFICES ASSUME NEW b \in Attempts
               PROVE  /\ <<b, "paid">> \in books <=>
                             b \in Rows' /\ status'[b] \in Settled
                      /\ <<b, "reversed">> \in books <=>
                             b \in Rows' /\ status'[b] = "REVERSED"
    BY DEF BooksMatchRows, NewRow
  <2> QED
    BY <1>2, <1>3 DEF RowsInv, BooksMatchRows, Settled
<1>6. SettledHasRef'
  BY <1>2, <1>3 DEF RowsInv, SettledHasRef, NewRow, Settled
<1> QED
  BY <1>2, <1>4, <1>5, <1>6 DEF RowsInv

LEMMA SubmitMoves ==
    ASSUME TypeOK, RowsInv, NEW a \in Rows, status[a] = "PROCESSING", Submit(a)
    PROVE  Move(a) \/ UNCHANGED <<rowVars, books>>
<1>1. CASE NoBeneficiary(a)
  BY <1>1, ReviewMoves DEF NoBeneficiary
<1>2. CASE SubmitLost(a) \/ SubmitUnanswered(a)
  BY <1>2 DEF SubmitLost, SubmitUnanswered, rowVars
<1>3. CASE SubmitRejected(a)
  <2>1. a \in Attempts
    BY DEF Rows
  <2>2. status'[a] = "FAILED" /\ <<status[a], "FAILED">> \in Transitions
    BY <1>3, <2>1 DEF SubmitRejected, TypeOK, Transitions
  <2> QED
    BY <1>3, <2>1, <2>2 DEF SubmitRejected, Move, TypeOK, Settled, Live
<1>4. CASE SubmitAnswered(a)
  BY <1>4, ApplyMoves DEF SubmitAnswered
<1> QED
  BY <1>1, <1>2, <1>3, <1>4 DEF Submit

LEMMA ReconcileMoves ==
    ASSUME TypeOK, RowsInv, NEW a \in Rows, status[a] = "PROCESSING",
           PollTimesOut(a) \/ PollMisses(a) \/ PollFinds(a)
    PROVE  Move(a) \/ UNCHANGED <<rowVars, books>>
<1>1. CASE PollTimesOut(a)
  BY <1>1, ReviewMoves DEF PollTimesOut
<1>2. CASE PollMisses(a)
  BY <1>2, ReviewMoves, SubmitMoves DEF PollMisses
<1>3. CASE PollFinds(a)
  <2>1. PICK rep \in Answers(a) :
            LET v == Verdict(a, rep, FALSE)
            IN  Enact(a, rep, IF v = "wait" /\ a \in tooOld THEN "review" ELSE v)
    BY <1>3 DEF PollFinds
  <2>2. CASE Enact(a, rep, "review")
    BY <2>2, EnactMoves DEF Settled
  <2>3. CASE Enact(a, rep, Verdict(a, rep, FALSE))
    BY <2>3, ApplyMoves
  <2> QED
    BY <2>1, <2>2, <2>3
<1> QED
  BY <1>1, <1>2, <1>3

LEMMA RetryMoves ==
    ASSUME TypeOK, OnlyRows, RowsInv, Retry
    PROVE  NewRow \/ (\E a \in Rows : Move(a)) \/ UNCHANGED <<rowVars, books>>
<1>1. CASE RetryRefused
  BY <1>1 DEF RetryRefused
<1>2. CASE RetryAccepted(view.attempt)
  BY <1>2 DEF RetryAccepted
<1>3. CASE RetryBlocked(view.attempt) /\ \A b \in Rows : status[b] \notin Live
  <2>1. view.attempt \in Rows
    BY DEF Retry, OnlyRows
  <2>2. CASE status[view.attempt] = "REVERSED"
    BY <1>3, <2>2 DEF RetryBlocked
  <2>3. CASE status[view.attempt] # "REVERSED"
    <3>1. status[view.attempt] = "FAILED"
      BY <1>3, <2>1, <2>3 DEF TypeOK, Rows, Status, Live, Retry, Views
    <3> QED
      BY <1>3, <2>1, <2>3, <3>1, ReviewMoves DEF RetryBlocked
  <2> QED
    BY <2>2, <2>3
<1> QED
  BY <1>1, <1>2, <1>3 DEF Retry

LEMMA RecheckMoves ==
    ASSUME TypeOK, RowsInv, NEW a \in Rows, Recheck(a)
    PROVE  Move(a) \/ UNCHANGED <<rowVars, books>>
<1>1. CASE RecheckMisses(a)
  BY <1>1, ApplyMoves DEF RecheckMisses
<1>2. CASE RecheckFinds(a)
  BY <1>2, ApplyMoves DEF RecheckFinds
<1> QED
  BY <1>1, <1>2 DEF Recheck

LEMMA AddresseeHasRow ==
    ASSUME NEW r, NEW key \in Attempts, key \in Rows
    PROVE  Addressee(r, key) \in Rows
BY DEF Addressee

\* A step records a row, moves one row, or leaves rows and books alone.
LEMMA StepMoves ==
    ASSUME TypeOK, OnlyRows, RowsInv, Next
    PROVE  NewRow \/ (\E a \in Rows : Move(a)) \/ UNCHANGED <<rowVars, books>>
<1> USE DEF dbVars
<1>1. CASE Create
  BY <1>1 DEF Create
<1>2. CASE Retry
  BY <1>2, RetryMoves
<1>3. CASE WorkerCrash
  BY <1>3 DEF WorkerCrash
<1>4. ASSUME NEW a \in Attempts, Claim(a) PROVE \E b \in Rows : Move(b)
  <2>1. a \in Rows /\ status[a] = "PENDING" /\ status'[a] = "PROCESSING"
    BY <1>4 DEF Claim, TypeOK
  <2>2. <<status[a], status'[a]>> \in Transitions
    BY <2>1 DEF Transitions
  <2> QED
    BY <1>4, <2>1, <2>2 DEF Claim, Move, TypeOK, Settled, Live
<1>5. ASSUME NEW a \in Attempts, SubmitClaimed(a)
      PROVE  (\E b \in Rows : Move(b)) \/ UNCHANGED <<rowVars, books>>
  <2>1. a \in Rows
    BY <1>5 DEF SubmitClaimed, OnlyRows
  <2> QED
    BY <1>5, <2>1, SubmitMoves DEF SubmitClaimed
<1>6. ASSUME NEW a \in Attempts, ReconcileOne(a)
      PROVE  (\E b \in Rows : Move(b)) \/ UNCHANGED <<rowVars, books>>
  <2>1. a \in Rows
    BY <1>6 DEF ReconcileOne, OnlyRows
  <2> QED
    BY <1>6, <2>1, ReconcileMoves DEF ReconcileOne
<1>7. ASSUME NEW a \in Attempts, Recheck(a)
      PROVE  (\E b \in Rows : Move(b)) \/ UNCHANGED <<rowVars, books>>
  <2>1. a \in Rows
    BY <1>7 DEF Recheck
  <2> QED
    BY <1>7, <2>1, RecheckMoves
<1>8. ASSUME NEW a \in Attempts, NEW s \in Reportable, Webhook(a, s)
      PROVE  \E b \in Rows : Move(b)
  <2>1. a \in Rows
    BY <1>8 DEF Webhook, OnlyRows
  <2>2. Addressee(a, a) \in Rows
    BY <2>1, AddresseeHasRow
  <2> QED
    BY <1>8, <2>2, ApplyMoves DEF Webhook
<1>9. ASSUME NEW a \in Attempts, NEW rep \in Report, StrayWebhook(a, rep)
      PROVE  \E b \in Rows : Move(b)
  BY <1>9, ApplyMoves DEF StrayWebhook
<1>10. ASSUME NEW a \in Attempts,
              Age(a) \/ FindCandidate(a) \/ RetryRead(a) \/ ProviderDecides(a)
                  \/ DelayedLands(a)
       PROVE  UNCHANGED <<rowVars, books>>
  BY <1>10 DEF Age, FindCandidate, RetryRead, ProviderDecides, DelayedLands
<1> QED
  BY <1>1, <1>2, <1>3, <1>4, <1>5, <1>6, <1>7, <1>8, <1>9, <1>10 DEF Next

LEMMA LandOnlyRows ==
    ASSUME TypeOK, OnlyRows, NEW a \in Rows, Land(a)
    PROVE  /\ \A b \in Attempts : payout'[b] # "ABSENT" => b \in Rows
           /\ \A e \in reported' : e[1] \in Rows
<1>1. a \in Attempts
  BY DEF Rows
<1>2. CASE payout[a] = "ABSENT"
  <2>1. PICK p \in {"PROCESSING", "SUCCESS", "FAILED"} : Becomes(a, p)
    BY <1>2 DEF Land
  <2> QED
    BY <1>1, <2>1 DEF Becomes, OnlyRows, TypeOK
<1>3. CASE payout[a] # "ABSENT"
  BY <1>3 DEF Land, OnlyRows
<1> QED
  BY <1>2, <1>3

LEMMA SubmitOnlyRows ==
    ASSUME TypeOK, OnlyRows, NEW a \in Rows, Submit(a)
    PROVE  /\ \A b \in Attempts : payout'[b] # "ABSENT" => b \in Rows
           /\ \A e \in reported' : e[1] \in Rows
           /\ delayed' \subseteq Rows
<1>1. CASE NoBeneficiary(a) \/ SubmitRejected(a)
  BY <1>1 DEF NoBeneficiary, SubmitRejected, providerVars, OnlyRows
<1>2. CASE SubmitLost(a)
  BY <1>2 DEF SubmitLost, OnlyRows
<1>3. CASE SubmitUnanswered(a) \/ SubmitAnswered(a)
  BY <1>3, LandOnlyRows DEF SubmitUnanswered, SubmitAnswered, OnlyRows
<1> QED
  BY <1>1, <1>2, <1>3 DEF Submit

LEMMA OnlyRowsStep ==
    ASSUME TypeOK, OnlyRows, RowsInv, Next
    PROVE  OnlyRows'
<1> USE DEF providerVars
<1>0. Rows \subseteq Rows'
  <2>1. CASE NewRow
    BY <2>1, NewRowKeepsRows
  <2>2. CASE count' = count
    BY <2>2 DEF Rows
  <2> QED
    BY <2>1, <2>2, StepMoves DEF Move, rowVars
<1>1. CASE Create
  BY <1>0, <1>1 DEF Create, OnlyRows
<1>2. CASE Retry
  BY <1>0, <1>2 DEF Retry, OnlyRows
<1>3. CASE WorkerCrash
  BY <1>0, <1>3 DEF WorkerCrash, OnlyRows
<1>4. ASSUME NEW a \in Attempts, Claim(a) PROVE OnlyRows'
  BY <1>0, <1>4 DEF Claim, OnlyRows
<1>5. ASSUME NEW a \in Attempts, SubmitClaimed(a) PROVE OnlyRows'
  <2>1. a \in Rows
    BY <1>5 DEF SubmitClaimed, OnlyRows
  <2>2. CASE Submit(a)
    <3>1. tasks' \subseteq tasks /\ view' = view
      BY <1>5 DEF SubmitClaimed
    <3> QED
      BY <1>0, <2>1, <2>2, <3>1, SubmitOnlyRows DEF OnlyRows
  <2>3. CASE UNCHANGED providerVars
    BY <1>0, <1>5, <2>3 DEF SubmitClaimed, OnlyRows
  <2> QED
    BY <1>5, <2>2, <2>3 DEF SubmitClaimed
<1>6. ASSUME NEW a \in Attempts, ReconcileOne(a) PROVE OnlyRows'
  <2>1. a \in Rows
    BY <1>6 DEF ReconcileOne, OnlyRows
  <2>2. CASE Submit(a)
    <3>1. tasks' \subseteq tasks /\ view' = view
      BY <1>6 DEF ReconcileOne
    <3> QED
      BY <1>0, <2>1, <2>2, <3>1, SubmitOnlyRows DEF OnlyRows
  <2>3. CASE UNCHANGED providerVars
    BY <1>0, <1>6, <2>3 DEF ReconcileOne, OnlyRows
  <2> QED
    BY <1>6, <2>2, <2>3
    DEF ReconcileOne, PollTimesOut, PollMisses, PollFinds
<1>7. ASSUME NEW a \in Attempts, RetryRead(a) PROVE OnlyRows'
  BY <1>0, <1>7 DEF RetryRead, OnlyRows
<1>8. ASSUME NEW a \in Attempts, ProviderDecides(a) PROVE OnlyRows'
  <2>1. PICK p \in Reportable :
            <<payout[a], p>> \in ProviderMoves /\ Becomes(a, p)
    BY <1>8 DEF ProviderDecides
  <2>2. a \in Rows
    BY <2>1 DEF ProviderMoves, OnlyRows
  <2>3. /\ \A b \in Attempts : payout'[b] # "ABSENT" => b \in Rows
        /\ \A e \in reported' : e[1] \in Rows
    BY <2>1, <2>2 DEF Becomes, OnlyRows, TypeOK
  <2> QED
    BY <1>0, <1>8, <2>3 DEF ProviderDecides, OnlyRows
<1>9. ASSUME NEW a \in Attempts, DelayedLands(a) PROVE OnlyRows'
  <2>1. a \in Rows /\ Land(a)
    BY <1>9 DEF DelayedLands, OnlyRows
  <2>2. delayed' \subseteq delayed /\ UNCHANGED <<tasks, view>>
    BY <1>9 DEF DelayedLands
  <2> QED
    BY <1>0, <2>1, <2>2, LandOnlyRows DEF OnlyRows
<1>10. ASSUME NEW a \in Attempts,
              \/ Age(a) \/ Recheck(a)
              \/ \E s \in Reportable : Webhook(a, s)
              \/ \E rep \in Report : StrayWebhook(a, rep)
       PROVE  OnlyRows'
  <2>1. UNCHANGED <<tasks, view, providerVars>>
    BY <1>10 DEF Age, Recheck, Webhook, StrayWebhook
  <2> QED
    BY <1>0, <2>1 DEF OnlyRows
<1>11. ASSUME NEW a \in Attempts, FindCandidate(a) PROVE OnlyRows'
  BY <1>0, <1>11 DEF FindCandidate, OnlyRows
<1> QED
  BY <1>1, <1>2, <1>3, <1>4, <1>5, <1>6, <1>7, <1>8, <1>9, <1>10, <1>11
  DEF Next

LEMMA BooksInvHolds == Spec => []BooksInv
<1>1. Init => OnlyRows /\ RowsInv
  BY DEF Init, OnlyRows, RowsInv, OneLivePerOffer, BooksMatchRows,
         SettledHasRef, Rows, Attempts
<1>2. TypeOK /\ OnlyRows /\ RowsInv /\ [Next]_vars => OnlyRows' /\ RowsInv'
  <2> SUFFICES ASSUME TypeOK, OnlyRows, RowsInv, [Next]_vars
               PROVE  OnlyRows' /\ RowsInv'
    OBVIOUS
  <2>1. CASE Next
    <3>1. OnlyRows'
      BY <2>1, OnlyRowsStep
    <3>2. CASE NewRow
      BY <3>1, <3>2, NewRowKeepsRows
    <3>3. CASE \E a \in Rows : Move(a)
      BY <3>1, <3>3, MoveKeepsRows
    <3>4. CASE UNCHANGED <<rowVars, books>>
      BY <3>1, <3>4 DEF RowsInv, OneLivePerOffer, BooksMatchRows,
                        SettledHasRef, Rows, rowVars
    <3> QED
      BY <2>1, <3>2, <3>3, <3>4, StepMoves
  <2>2. CASE UNCHANGED vars
    BY <2>2 DEF vars, dbVars, rowVars, providerVars, OnlyRows, RowsInv,
                OneLivePerOffer, BooksMatchRows, SettledHasRef, Rows
  <2> QED
    BY <2>1, <2>2
<1> QED
  BY <1>1, <1>2, TypeCorrect, PTL DEF Spec, BooksInv

\* No two attempts of the offer are live, whatever the provider reports, and
\* however creations, stale retries and late reports race.
THEOREM OneLiveRow == Spec => []OneLivePerOffer
<1>1. BooksInv => OneLivePerOffer
  BY DEF BooksInv, RowsInv
<1> QED
  BY <1>1, BooksInvHolds, PTL

\* The ledger says of each attempt what its row says, at every commit and
\* under any report.
THEOREM BooksFollowRows == Spec => []BooksMatchRows
<1>1. BooksInv => BooksMatchRows
  BY DEF BooksInv, RowsInv
<1> QED
  BY <1>1, BooksInvHolds, PTL

\* Submits, polls, webhooks and rechecks, which ask neither _move nor the
\* table's trigger in this model, never make of a report an update that these
\* would refuse, whatever the provider reports.
THEOREM NewsNeverRefused == Spec => NoNewsRefused
<1> DEFINE Kept(a) ==
        /\ \/ status'[a] = status[a]
           \/ <<status[a], status'[a]>> \in Transitions
           \/ <<status[a], "SUCCESS">> \in Transitions /\ status'[a] = "REVERSED"
        /\ ref[a] # NoRef => ref'[a] = ref[a]
        /\ status[a] = "REVERSED" => ref'[a] = ref[a]
<1>1. BooksInv /\ [Next]_vars => [\A a \in Rows : Kept(a)]_rowVars
  <2> SUFFICES ASSUME BooksInv, Next, NEW a \in Rows PROVE Kept(a)
    BY DEF vars, dbVars
  <2> USE DEF BooksInv
  <2>0. a \in Attempts /\ (status[a] = "REVERSED" => ref[a] # NoRef)
    BY DEF Rows, RowsInv, SettledHasRef, Settled
  <2>1. CASE NewRow
    <3>1. a # count + 1
      BY <2>0 DEF Rows, Attempts, TypeOK
    <3> QED
      BY <2>0, <2>1, <3>1 DEF NewRow, TypeOK
  <2>2. ASSUME NEW b \in Rows, Move(b) PROVE Kept(a)
    <3>1. CASE a = b
      <4>1. <<"SUCCESS", "REVERSED">> \in Transitions
        BY DEF Transitions
      <4> QED
        BY <2>0, <2>2, <3>1, <4>1 DEF Move
    <3>2. CASE a # b
      BY <2>0, <2>2, <3>2 DEF Move, TypeOK
    <3> QED
      BY <3>1, <3>2
  <2>3. CASE UNCHANGED <<rowVars, books>>
    BY <2>3 DEF rowVars
  <2> QED
    BY <2>1, <2>2, <2>3, StepMoves
<1> QED
  BY <1>1, BooksInvHolds, PTL DEF Spec, NoNewsRefused
=============================================================================
