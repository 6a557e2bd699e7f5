----------------------- MODULE DisbursementMoneyProofs -----------------------
(***************************************************************************)
(* Theorems about Disbursement with a provider that keeps its contract, for *)
(* every bound on the attempts: the loan is paid out once at most, a final  *)
(* status is a fact about the money, and no acknowledged success is lost.   *)
(***************************************************************************)
EXTENDS DisbursementProofs

-----------------------------------------------------------------------------
(* A status s said of an attempt, by a row or by an event that may be      *)
(* delivered at any later time, agrees with the payout p.  No step of the  *)
(* provider can falsify it: that is why the order of reports is no matter. *)

Agrees(p, s) ==
    /\ s = "SUCCESS" => p \in Settled
    /\ s = "REVERSED" => p = "REVERSED"
    /\ s = "FAILED" => p \in {"ABSENT", "FAILED"}

\* A row that was never sent has no payout; a reference is the row's own.
RowsHonest ==
    /\ \A a \in Rows :
          /\ Agrees(payout[a], status[a])
          /\ status[a] = "PENDING" => payout[a] = "ABSENT"
    /\ \A a \in Attempts : ref[a] \in {NoRef, a}

EventsHonest ==
    /\ \A e \in reported : Agrees(payout[e[1]], e[2]) /\ payout[e[1]] # "ABSENT"
    /\ seen \subseteq reported
    /\ delayed = {}

MoneyInv == RowsHonest /\ EventsHonest /\ AcknowledgedSuccessKept

\* A report that agrees with a payout p of attempt a.
Honest(a, rep, p) ==
    /\ Agrees(p, rep.status) /\ rep.amountOk /\ rep.ref \in {NoRef, a}
    /\ rep.status \in Reportable

\* What the provider does in a step keeps every earlier word true.
ProviderHonestNext ==
    /\ \A b \in Rows : Agrees(payout'[b], status[b])
    /\ \A b \in Rows : status[b] = "PENDING" => payout'[b] = "ABSENT"
    /\ \A e \in reported' : Agrees(payout'[e[1]], e[2]) /\ payout'[e[1]] # "ABSENT"
    /\ reported \subseteq reported'
    /\ delayed' = {}

\* What is asked of the one row a step moves.
RowHonestNext(a) ==
    /\ Agrees(payout'[a], status'[a])
    /\ status'[a] # "PENDING"
    /\ ref'[a] \in {NoRef, a}
    /\ <<a, "SUCCESS">> \in seen' => status'[a] \in Settled \cup {"REQUIRES_REVIEW"}

LEMMA HonestMove ==
    ASSUME TypeOK, MoneyInv, ProviderHonestNext, NEW a \in Rows, Move(a),
           RowHonestNext(a), seen' \subseteq reported',
           \A b \in Rows \ {a} :
               <<b, "SUCCESS">> \in seen' => <<b, "SUCCESS">> \in seen
    PROVE  MoneyInv'
<1>1. a \in Attempts /\ Rows' = Rows
  BY DEF Rows, Move
<1>2. /\ \A b \in Rows \ {a} : status'[b] = status[b]
      /\ \A b \in Attempts \ {a} : ref'[b] = ref[b]
  BY <1>1 DEF Move, TypeOK, Rows
<1>3. RowsHonest'
  BY <1>1, <1>2 DEF RowHonestNext, ProviderHonestNext, MoneyInv, RowsHonest
<1>4. EventsHonest'
  BY DEF ProviderHonestNext, EventsHonest
<1>5. AcknowledgedSuccessKept'
  BY <1>1, <1>2 DEF RowHonestNext, MoneyInv, AcknowledgedSuccessKept
<1> QED
  BY <1>3, <1>4, <1>5 DEF MoneyInv

\* A step that moves no row.
LEMMA HonestIdle ==
    ASSUME MoneyInv, ProviderHonestNext, UNCHANGED rowVars, seen' = seen
    PROVE  MoneyInv'
<1>1. Rows' = Rows
  BY DEF Rows, rowVars
<1> QED
  BY <1>1 DEF MoneyInv, RowsHonest, EventsHonest, AcknowledgedSuccessKept,
              ProviderHonestNext, rowVars

LEMMA QuietProvider ==
    ASSUME MoneyInv, UNCHANGED providerVars
    PROVE  ProviderHonestNext
BY DEF MoneyInv, RowsHonest, EventsHonest, ProviderHonestNext, providerVars

\* What a verdict on an honest report makes of the row.
LEMMA HonestVerdict ==
    ASSUME NEW a, NEW p, NEW rep, NEW fromReview \in BOOLEAN,
           status[a] \in Status, ref[a] \in {NoRef, a},
           Agrees(p, status[a]), Honest(a, rep, p)
    PROVE  LET s == StatusAfter(status[a], Verdict(a, rep, fromReview))
           IN  /\ Agrees(p, s)
               /\ RefAfter(a, rep) \in {NoRef, a}
               /\ s # "PENDING"
               /\ \/ s = status[a] /\ rep.status # "SUCCESS"
                  \/ s = "FAILED" /\ rep.status = "FAILED"
                  \/ s \in Settled \cup {"REQUIRES_REVIEW"}
<1> DEFINE v == Verdict(a, rep, fromReview)
           s == StatusAfter(status[a], v)
<1>2. RefAfter(a, rep) \in {NoRef, a}
  BY DEF RefAfter, Honest
<1>3. ~Contradicts(a, rep)
  BY DEF Contradicts, Honest
<1> SUFFICES /\ Agrees(p, s)
             /\ s # "PENDING"
             /\ \/ s = status[a] /\ rep.status # "SUCCESS"
                \/ s = "FAILED" /\ rep.status = "FAILED"
                \/ s \in Settled \cup {"REQUIRES_REVIEW"}
  BY <1>2
<1>4. CASE status[a] \in {"REVERSED", "SUCCESS"}
  <2>1. v = "ignore" \/ (v = "reverse" /\ rep.status = "REVERSED")
    BY <1>3, <1>4, Zenon DEF Verdict
  <2>2. s = status[a] \/ (s = "REVERSED" /\ rep.status = "REVERSED")
    BY <2>1 DEF StatusAfter
  <2> QED
    BY <1>4, <2>2 DEF Honest, Agrees, Settled
<1>5. CASE status[a] = "FAILED"
  <2>1. v = IF rep.status \in Settled THEN "review" ELSE "ignore"
    BY <1>3, <1>5, Zenon DEF Verdict
  <2>2. s = IF rep.status \in Settled THEN "REQUIRES_REVIEW" ELSE "FAILED"
    BY <1>5, <2>1 DEF StatusAfter
  <2> QED
    BY <1>5, <2>2 DEF Agrees, Settled
<1>6. CASE status[a] = "PENDING"
  <2>1. v = "review"
    BY <1>3, <1>6, Zenon DEF Verdict
  <2> QED
    BY <2>1 DEF StatusAfter, Agrees
<1>7. CASE status[a] = "REQUIRES_REVIEW" /\ ~fromReview
  <2>1. v = "ignore"
    BY <1>3, <1>7, Zenon DEF Verdict
  <2> QED
    BY <1>7, <2>1 DEF StatusAfter, Agrees
<1>8. CASE \/ status[a] = "PROCESSING"
           \/ status[a] = "REQUIRES_REVIEW" /\ fromReview
  <2>1. v = Outcome(a, rep)
    BY <1>3, <1>8, Zenon DEF Verdict
  <2>2. \/ rep.status = "PROCESSING" /\ v = "wait"
        \/ rep.status = "FAILED" /\ v = "fail"
        \/ rep.status = "SUCCESS" /\ v \in {"pay", "review"}
        \/ rep.status = "REVERSED" /\ v \in {"payAndReverse", "review"}
    BY <2>1 DEF Outcome, Honest, Reportable, PayoutState
  <2>3. \/ rep.status = "PROCESSING" /\ s = status[a]
        \/ rep.status = "FAILED" /\ s = "FAILED"
        \/ rep.status = "SUCCESS" /\ s \in {"SUCCESS", "REQUIRES_REVIEW"}
        \/ rep.status = "REVERSED" /\ s \in {"REVERSED", "REQUIRES_REVIEW"}
    BY <2>2 DEF StatusAfter
  <2> QED
    BY <1>8, <2>3 DEF Honest, Agrees, Settled
<1> QED
  BY <1>4, <1>5, <1>6, <1>7, <1>8 DEF Status

\* Applying an honest report keeps the invariant.
LEMMA HonestApply ==
    ASSUME TypeOK, RowsInv, MoneyInv, ProviderHonestNext, payout' \in
               [Attempts -> PayoutState],
           NEW a \in Rows, NEW rep, Honest(a, rep, payout'[a]),
           NEW fromReview \in BOOLEAN,
           Enact(a, rep, Verdict(a, rep, fromReview)),
           seen' \subseteq reported',
           \A b \in Rows \ {a} :
               <<b, "SUCCESS">> \in seen' => <<b, "SUCCESS">> \in seen,
           <<a, "SUCCESS">> \in seen' =>
               <<a, "SUCCESS">> \in seen \/ rep.status = "SUCCESS"
    PROVE  MoneyInv'
<1>1. /\ a \in Attempts /\ status[a] \in Status /\ ref[a] \in {NoRef, a}
      /\ Agrees(payout'[a], status[a])
  BY DEF Rows, TypeOK, MoneyInv, RowsHonest, ProviderHonestNext
<1> DEFINE s == StatusAfter(status[a], Verdict(a, rep, fromReview))
<1>2. /\ Agrees(payout'[a], s)
      /\ RefAfter(a, rep) \in {NoRef, a}
      /\ s # "PENDING"
      /\ \/ s = status[a] /\ rep.status # "SUCCESS"
         \/ s = "FAILED" /\ rep.status = "FAILED"
         \/ s \in Settled \cup {"REQUIRES_REVIEW"}
  BY <1>1, HonestVerdict
<1>3. status'[a] = s /\ ref'[a] = RefAfter(a, rep)
  BY <1>1 DEF Enact, TypeOK
<1>4. <<a, "SUCCESS">> \in seen' => s \in Settled \cup {"REQUIRES_REVIEW"}
  <2> SUFFICES ASSUME <<a, "SUCCESS">> \in seen',
                      s \notin Settled \cup {"REQUIRES_REVIEW"}
               PROVE  FALSE
    OBVIOUS
  <2>1. CASE rep.status = "SUCCESS"
    BY <1>2, <2>1
  <2>2. CASE rep.status # "SUCCESS"
    <3>1. status[a] \in Settled \cup {"REQUIRES_REVIEW"}
      BY <2>2 DEF MoneyInv, AcknowledgedSuccessKept
    <3>2. payout'[a] \in Settled
      <4>1. <<a, "SUCCESS">> \in reported'
        OBVIOUS
      <4> QED
        BY <4>1 DEF ProviderHonestNext, Agrees
    <3>3. s = "FAILED"
      BY <1>2, <3>1
    <3> QED
      BY <1>2, <3>2, <3>3 DEF Agrees, Settled
  <2> QED
    BY <2>1, <2>2
<1>5. RowHonestNext(a)
  BY <1>2, <1>3, <1>4 DEF RowHonestNext
<1>6. Move(a)
  BY ApplyMoves
<1> QED
  BY <1>5, <1>6, HonestMove

\* Sending a row to review keeps it.
LEMMA HonestReview ==
    ASSUME TypeOK, RowsInv, MoneyInv, UNCHANGED <<providerVars, seen>>,
           NEW a \in Rows, status[a] \in {"PROCESSING", "FAILED"}, Review(a)
    PROVE  MoneyInv'
<1>1. Move(a)
  BY ReviewMoves
<1>2. a \in Attempts /\ status'[a] = "REQUIRES_REVIEW" /\ ref'[a] = ref[a]
  BY DEF Review, TypeOK, Rows
<1>3. RowHonestNext(a)
  BY <1>2 DEF RowHonestNext, Agrees, MoneyInv, RowsHonest
<1>4. seen' \subseteq reported'
  BY DEF MoneyInv, EventsHonest, providerVars
<1> QED
  BY <1>1, <1>3, <1>4, QuietProvider, HonestMove

-----------------------------------------------------------------------------
(* The provider's own steps.                                               *)

LEMMA BecomesHonest ==
    ASSUME Quirks = {}, TypeOK, OnlyRows, MoneyInv, UNCHANGED delayed,
           NEW a \in Rows, NEW p \in Reportable, Becomes(a, p),
           \/ /\ payout[a] = "ABSENT" /\ status[a] = "PROCESSING"
              /\ p \in {"PROCESSING", "SUCCESS", "FAILED"}
           \/ <<payout[a], p>> \in ProviderMoves
    PROVE  ProviderHonestNext
<1>1. /\ a \in Attempts
      /\ payout'[a] = p
      /\ \A b \in Attempts \ {a} : payout'[b] = payout[b]
      /\ reported' = reported \cup {<<a, p>>}
  BY DEF Rows, Becomes, TypeOK
<1>2. CASE payout[a] = "ABSENT" /\ status[a] = "PROCESSING"
  <2>1. \A e \in reported : e[1] # a
    BY <1>2 DEF MoneyInv, EventsHonest
  <2>2. \A e \in reported : e[1] \in Attempts
    BY DEF TypeOK, Events
  <2>3. Agrees(p, p)
    BY DEF Agrees, Settled
  <2>4. \A e \in reported' : Agrees(payout'[e[1]], e[2])
                               /\ payout'[e[1]] # "ABSENT"
    <3> SUFFICES ASSUME NEW e \in reported'
                 PROVE  Agrees(payout'[e[1]], e[2]) /\ payout'[e[1]] # "ABSENT"
      OBVIOUS
    <3>1. CASE e \in reported
      BY <1>1, <2>1, <2>2, <3>1 DEF MoneyInv, EventsHonest
    <3>2. CASE e = <<a, p>>
      BY <1>1, <2>3, <3>2 DEF Reportable
    <3> QED
      BY <1>1, <3>1, <3>2
  <2>5. \A b \in Rows : /\ Agrees(payout'[b], status[b])
                        /\ status[b] = "PENDING" => payout'[b] = "ABSENT"
    <3>1. Agrees(p, status[a]) /\ status[a] # "PENDING"
      BY <1>2 DEF Agrees
    <3> QED
      BY <1>1, <3>1 DEF MoneyInv, RowsHonest, Rows
  <2> QED
    BY <1>1, <2>4, <2>5 DEF ProviderHonestNext, MoneyInv, EventsHonest
<1>3. CASE <<payout[a], p>> \in ProviderMoves
  <2>1. \/ payout[a] = "PROCESSING" /\ p \in {"SUCCESS", "FAILED"}
        \/ payout[a] = "SUCCESS" /\ p = "REVERSED"
    BY <1>3 DEF ProviderMoves
  <2>2. \A s : Agrees(payout[a], s) => Agrees(p, s)
    BY <2>1 DEF Agrees, Settled
  <2>3. \A e \in reported : e[1] \in Attempts
    BY DEF TypeOK, Events
  <2>4. Agrees(p, p) /\ p # "ABSENT"
    BY DEF Agrees, Settled, Reportable
  <2>5. \A e \in reported' : Agrees(payout'[e[1]], e[2])
                               /\ payout'[e[1]] # "ABSENT"
    <3> SUFFICES ASSUME NEW e \in reported'
                 PROVE  Agrees(payout'[e[1]], e[2]) /\ payout'[e[1]] # "ABSENT"
      OBVIOUS
    <3>1. CASE e \in reported
      <4>1. Agrees(payout[e[1]], e[2]) /\ payout[e[1]] # "ABSENT"
        BY <3>1 DEF MoneyInv, EventsHonest
      <4> QED
        BY <1>1, <2>2, <2>3, <2>4, <3>1, <4>1
    <3>2. CASE e = <<a, p>>
      BY <1>1, <2>4, <3>2
    <3> QED
      BY <1>1, <3>1, <3>2
  <2>6. \A b \in Rows : /\ Agrees(payout'[b], status[b])
                        /\ status[b] = "PENDING" => payout'[b] = "ABSENT"
    <3>1. Agrees(p, status[a]) /\ status[a] # "PENDING"
      BY <2>1, <2>2 DEF MoneyInv, RowsHonest
    <3> QED
      BY <1>1, <3>1 DEF MoneyInv, RowsHonest, Rows
  <2> QED
    BY <1>1, <2>5, <2>6 DEF ProviderHonestNext, MoneyInv, EventsHonest
<1> QED
  BY <1>2, <1>3

LEMMA LandHonest ==
    ASSUME Quirks = {}, TypeOK, OnlyRows, MoneyInv, UNCHANGED delayed,
           NEW a \in Rows, status[a] = "PROCESSING", Land(a)
    PROVE  ProviderHonestNext /\ payout'[a] \in Reportable
<1>1. a \in Attempts
  BY DEF Rows
<1>2. CASE payout[a] = "ABSENT"
  <2>1. PICK p \in {"PROCESSING", "SUCCESS", "FAILED"} : Becomes(a, p)
    BY <1>2 DEF Land
  <2>2. p \in Reportable
    BY DEF Reportable, PayoutState
  <2>3. payout'[a] = p
    BY <1>1, <2>1 DEF Becomes, TypeOK
  <2> QED
    BY <1>2, <2>1, <2>2, <2>3, BecomesHonest
<1>3. CASE payout[a] # "ABSENT"
  <2>1. UNCHANGED providerVars
    BY <1>3 DEF Land, providerVars
  <2> QED
    BY <1>1, <1>3, <2>1, QuietProvider DEF TypeOK, Reportable, providerVars
<1> QED
  BY <1>2, <1>3

-----------------------------------------------------------------------------
(* The handlers.                                                           *)

LEMMA SubmitHonest ==
    ASSUME Quirks = {}, TypeOK, OnlyRows, RowsInv, MoneyInv, UNCHANGED seen,
           NEW a \in Rows, status[a] = "PROCESSING", Submit(a)
    PROVE  MoneyInv'
<1>1. CASE NoBeneficiary(a)
  BY <1>1, HonestReview DEF NoBeneficiary
<1>2. CASE SubmitLost(a)
  <2>1. UNCHANGED providerVars
    BY <1>2 DEF SubmitLost, providerVars
  <2> QED
    BY <1>2, <2>1, QuietProvider, HonestIdle DEF SubmitLost
<1>3. CASE SubmitUnanswered(a)
  BY <1>3, LandHonest, HonestIdle DEF SubmitUnanswered
<1>4. CASE SubmitRejected(a)
  <2>1. a \in Attempts /\ status'[a] = "FAILED" /\ ref'[a] = ref[a]
    BY <1>4 DEF SubmitRejected, Rows, TypeOK
  <2>2. Move(a)
    BY <1>4, <2>1, SubmitMoves DEF Submit, rowVars
  <2>3. <<a, "SUCCESS">> \notin seen
    BY <1>4 DEF SubmitRejected, MoneyInv, EventsHonest
  <2>4. RowHonestNext(a)
    BY <1>4, <2>1, <2>3
    DEF RowHonestNext, SubmitRejected, providerVars, Agrees, MoneyInv, RowsHonest
  <2>5. seen' \subseteq reported' /\ ProviderHonestNext
    BY <1>4, QuietProvider DEF SubmitRejected, MoneyInv, EventsHonest, providerVars
  <2> QED
    BY <2>2, <2>4, <2>5, HonestMove
<1>5. CASE SubmitAnswered(a)
  <2>1. a \in Attempts
    BY DEF Rows
  <2>2. Land(a) /\ UNCHANGED delayed
    BY <1>5 DEF SubmitAnswered
  <2>3. ProviderHonestNext /\ payout'[a] \in Reportable
    BY <2>2, LandHonest
  <2>4. PICK rep \in [status : {payout'[a]}, ref : {a}, amountOk : {TRUE}] :
            Enact(a, rep, Verdict(a, rep, FALSE))
    BY <1>5 DEF SubmitAnswered, SubmitAnswers
  <2>5. Honest(a, rep, payout'[a])
    BY <2>3, <2>4 DEF Honest, Agrees, Settled
  <2>6. payout' \in [Attempts -> PayoutState]
    BY <2>1, <2>2, LandType DEF TypeOK, ProviderTypeOK
  <2>7. seen' \subseteq reported'
    BY <2>3 DEF MoneyInv, EventsHonest, ProviderHonestNext
  <2> QED
    BY <2>3, <2>4, <2>5, <2>6, <2>7, HonestApply
<1> QED
  BY <1>1, <1>2, <1>3, <1>4, <1>5 DEF Submit

\* An answer to a lookup is honest.
LEMMA AnswersAreHonest ==
    ASSUME Quirks = {}, TypeOK, NEW a \in Rows, LookupFinds(a),
           NEW rep \in Answers(a)
    PROVE  Honest(a, rep, payout[a])
<1>1. PICK r \in {NoRef, a} :
          rep = [status |-> payout[a], ref |-> r, amountOk |-> TRUE]
  BY DEF Answers
<1>2. payout[a] \in Reportable
  BY DEF LookupFinds, TypeOK, Rows, Reportable
<1> QED
  BY <1>1, <1>2 DEF Honest, Agrees, Settled

LEMMA ReconcileHonest ==
    ASSUME Quirks = {}, TypeOK, OnlyRows, RowsInv, MoneyInv, UNCHANGED seen,
           NEW a \in Rows, status[a] = "PROCESSING",
           PollTimesOut(a) \/ PollMisses(a) \/ PollFinds(a)
    PROVE  MoneyInv'
<1>0. a \in Attempts /\ seen \subseteq reported
  BY DEF Rows, MoneyInv, EventsHonest
<1>1. CASE PollTimesOut(a)
  BY <1>1, HonestReview, QuietProvider, HonestIdle DEF PollTimesOut
<1>2. CASE PollMisses(a)
  BY <1>2, HonestReview, SubmitHonest DEF PollMisses
<1>3. CASE PollFinds(a)
  <2>0. UNCHANGED providerVars
    BY <1>3 DEF PollFinds
  <2>1. PICK rep \in Answers(a) :
            LET v == Verdict(a, rep, FALSE)
            IN  Enact(a, rep, IF v = "wait" /\ a \in tooOld THEN "review" ELSE v)
    BY <1>3 DEF PollFinds
  <2>2. Honest(a, rep, payout[a])
    BY <1>3, AnswersAreHonest DEF PollFinds
  <2>3. CASE Enact(a, rep, "review")
    <3>1. Move(a)
      BY <2>3, EnactMoves DEF Settled
    <3>2. status'[a] = "REQUIRES_REVIEW" /\ ref'[a] = RefAfter(a, rep)
      BY <1>0, <2>3 DEF Enact, StatusAfter, TypeOK
    <3>3. RowHonestNext(a)
      BY <1>0, <2>2, <3>2
      DEF RowHonestNext, Agrees, RefAfter, Honest, MoneyInv, RowsHonest
    <3> QED
      BY <1>0, <2>0, <3>1, <3>3, QuietProvider, HonestMove DEF providerVars
  <2>4. CASE Enact(a, rep, Verdict(a, rep, FALSE))
    BY <1>0, <2>0, <2>2, <2>4, QuietProvider, HonestApply DEF providerVars, TypeOK
  <2> QED
    BY <2>1, <2>3, <2>4
<1> QED
  BY <1>1, <1>2, <1>3

LEMMA NewRowHonest ==
    ASSUME TypeOK, OnlyRows, RowsInv, MoneyInv, NewRow,
           UNCHANGED <<seen, providerVars>>
    PROVE  MoneyInv'
<1>1. count + 1 \in Attempts /\ count + 1 \notin Rows
  BY MaxAttemptsAssumption DEF NewRow, TypeOK, Attempts, Rows
<1>2. Rows' = Rows \cup {count + 1}
  BY NewRowKeepsRows
<1>3. status'[count + 1] = "PENDING" /\ \A b \in Rows : status'[b] = status[b]
  BY <1>1 DEF NewRow, TypeOK, Rows
<1>4. payout[count + 1] = "ABSENT"
  BY <1>1 DEF OnlyRows
<1>5. RowsHonest'
  BY <1>2, <1>3, <1>4 DEF MoneyInv, RowsHonest, NewRow, providerVars, Agrees
<1>6. EventsHonest'
  BY DEF MoneyInv, EventsHonest, providerVars
<1>7. AcknowledgedSuccessKept'
  <2>1. <<count + 1, "SUCCESS">> \notin seen
    BY <1>4 DEF MoneyInv, EventsHonest
  <2> QED
    BY <1>2, <1>3, <2>1 DEF MoneyInv, AcknowledgedSuccessKept
<1> QED
  BY <1>5, <1>6, <1>7 DEF MoneyInv

LEMMA RetryHonest ==
    ASSUME Quirks = {}, TypeOK, OnlyRows, RowsInv, MoneyInv, Retry
    PROVE  MoneyInv'
<1>0. UNCHANGED <<seen, providerVars>>
  BY DEF Retry
<1>1. CASE RetryRefused
  BY <1>0, <1>1, QuietProvider, HonestIdle DEF RetryRefused
<1>2. CASE RetryAccepted(view.attempt)
  BY <1>0, <1>2, NewRowHonest DEF RetryAccepted
<1>3. CASE RetryBlocked(view.attempt) /\ \A b \in Rows : status[b] \notin Live
  <2>1. view.attempt \in Rows
    BY DEF Retry, OnlyRows
  <2>2. CASE status[view.attempt] = "REVERSED"
    BY <1>0, <1>3, <2>2, QuietProvider, HonestIdle DEF RetryBlocked
  <2>3. CASE status[view.attempt] # "REVERSED"
    <3>1. status[view.attempt] = "FAILED"
      BY <1>3, <2>1, <2>3 DEF TypeOK, Rows, Status, Live, Retry, Views
    <3> QED
      BY <1>0, <1>3, <2>1, <2>3, <3>1, HonestReview DEF RetryBlocked
  <2> QED
    BY <2>2, <2>3
<1> QED
  BY <1>1, <1>2, <1>3 DEF Retry

LEMMA RecheckHonest ==
    ASSUME Quirks = {}, TypeOK, OnlyRows, RowsInv, MoneyInv,
           NEW a \in Rows, Recheck(a)
    PROVE  MoneyInv'
<1>0. /\ UNCHANGED <<seen, providerVars>> /\ seen \subseteq reported
      /\ a \in Attempts
  BY DEF Recheck, MoneyInv, EventsHonest, Rows
<1>1. CASE RecheckMisses(a)
  <2> DEFINE rep == [status |-> "FAILED", ref |-> NoRef, amountOk |-> TRUE]
  <2>1. Honest(a, rep, payout[a])
    BY <1>1 DEF RecheckMisses, LookupMisses, Honest, Agrees, Reportable,
                PayoutState
  <2>2. CASE Enact(a, rep, Verdict(a, rep, TRUE))
    BY <1>0, <2>1, <2>2, QuietProvider, HonestApply DEF providerVars, TypeOK
  <2>3. CASE UNCHANGED rowVars
    BY <1>0, <2>3, QuietProvider, HonestIdle
  <2> QED
    BY <1>1, <2>2, <2>3 DEF RecheckMisses
<1>2. CASE RecheckFinds(a)
  <2>1. PICK rep \in Answers(a) :
            Enact(a, rep, Verdict(a, rep, status[a] = "REQUIRES_REVIEW"))
    BY <1>2 DEF RecheckFinds
  <2>2. Honest(a, rep, payout[a])
    BY <1>2, AnswersAreHonest DEF RecheckFinds
  <2> QED
    BY <1>0, <2>1, <2>2, QuietProvider, HonestApply DEF providerVars, TypeOK
<1> QED
  BY <1>1, <1>2 DEF Recheck

LEMMA WebhookHonest ==
    ASSUME Quirks = {}, TypeOK, OnlyRows, RowsInv, MoneyInv,
           NEW a \in Attempts, NEW s \in Reportable, Webhook(a, s)
    PROVE  MoneyInv'
<1> DEFINE rep == [status |-> s, ref |-> a, amountOk |-> TRUE]
<1>1. a \in Rows /\ <<a, s>> \in reported
  BY DEF Webhook, OnlyRows
<1>2. Addressee(a, a) = a
  <2>1. \A b \in Rows : ref[b] = a => b = a
    BY DEF MoneyInv, RowsHonest, Rows, NoRef, Attempts
  <2> QED
    BY <2>1 DEF Addressee
<1>3. Enact(a, rep, Verdict(a, rep, FALSE))
  BY <1>2 DEF Webhook
<1>4. Honest(a, rep, payout[a])
  BY <1>1 DEF Honest, MoneyInv, EventsHonest
<1>5. UNCHANGED providerVars /\ seen' = seen \cup {<<a, s>>}
  BY DEF Webhook
<1>6. seen' \subseteq reported'
  BY <1>1, <1>5 DEF MoneyInv, EventsHonest, providerVars
<1> QED
  BY <1>1, <1>3, <1>4, <1>5, <1>6, QuietProvider, HonestApply
  DEF providerVars, TypeOK

LEMMA MoneyInvStep ==
    ASSUME Quirks = {}, TypeOK, OnlyRows, RowsInv, MoneyInv, Next
    PROVE  MoneyInv'
<1> USE DEF dbVars
<1>1. CASE Create
  BY <1>1, NewRowHonest DEF Create
<1>2. CASE Retry
  BY <1>2, RetryHonest
<1>3. CASE WorkerCrash
  BY <1>3, QuietProvider, HonestIdle DEF WorkerCrash
<1>4. ASSUME NEW a \in Attempts, Claim(a) PROVE MoneyInv'
  <2>1. a \in Rows /\ status[a] = "PENDING" /\ status'[a] = "PROCESSING"
        /\ ref' = ref
    BY <1>4 DEF Claim, TypeOK
  <2>2. Move(a)
    <3>1. <<status[a], status'[a]>> \in Transitions
      BY <2>1 DEF Transitions
    <3> QED
      BY <1>4, <2>1, <3>1 DEF Claim, Move, TypeOK, Settled, Live
  <2>3. <<a, "SUCCESS">> \notin seen
    BY <2>1 DEF MoneyInv, AcknowledgedSuccessKept, Settled
  <2>4. RowHonestNext(a)
    BY <1>4, <2>1, <2>3
    DEF Claim, RowHonestNext, Agrees, MoneyInv, RowsHonest
  <2>5. seen' \subseteq reported' /\ seen' = seen
    BY <1>4 DEF Claim, MoneyInv, EventsHonest, providerVars
  <2>6. ProviderHonestNext
    BY <1>4, QuietProvider DEF Claim
  <2> QED
    BY <2>1, <2>2, <2>4, <2>5, <2>6, HonestMove
<1>5. ASSUME NEW a \in Attempts, SubmitClaimed(a) PROVE MoneyInv'
  <2>1. a \in Rows /\ UNCHANGED seen
    BY <1>5 DEF SubmitClaimed, OnlyRows
  <2> QED
    BY <1>5, <2>1, SubmitHonest, QuietProvider, HonestIdle DEF SubmitClaimed
<1>6. ASSUME NEW a \in Attempts, ReconcileOne(a) PROVE MoneyInv'
  <2>1. a \in Rows /\ UNCHANGED seen
    BY <1>6 DEF ReconcileOne, OnlyRows
  <2> QED
    BY <1>6, <2>1, ReconcileHonest, QuietProvider, HonestIdle DEF ReconcileOne
<1>7. ASSUME NEW a \in Attempts, Recheck(a) PROVE MoneyInv'
  BY <1>7, RecheckHonest DEF Recheck
<1>8. ASSUME NEW a \in Attempts, NEW s \in Reportable, Webhook(a, s)
      PROVE  MoneyInv'
  BY <1>8, WebhookHonest
<1>9. ASSUME NEW a \in Attempts, NEW rep \in Report, StrayWebhook(a, rep)
      PROVE  MoneyInv'
  BY <1>9 DEF StrayWebhook
<1>10. ASSUME NEW a \in Attempts, Age(a) \/ FindCandidate(a) \/ RetryRead(a)
       PROVE  MoneyInv'
  <2>1. UNCHANGED <<rowVars, seen, providerVars>>
    BY <1>10 DEF Age, FindCandidate, RetryRead
  <2> QED
    BY <2>1, QuietProvider, HonestIdle
<1>11. ASSUME NEW a \in Attempts, ProviderDecides(a) PROVE MoneyInv'
  <2>1. PICK p \in Reportable :
            <<payout[a], p>> \in ProviderMoves /\ Becomes(a, p)
    BY <1>11 DEF ProviderDecides
  <2>2. a \in Rows
    BY <2>1 DEF ProviderMoves, OnlyRows
  <2>3. UNCHANGED <<rowVars, seen, delayed>>
    BY <1>11 DEF ProviderDecides
  <2> QED
    BY <2>1, <2>2, <2>3, BecomesHonest, HonestIdle
<1>12. ASSUME NEW a \in Attempts, DelayedLands(a) PROVE MoneyInv'
  BY <1>12 DEF DelayedLands, MoneyInv, EventsHonest
<1> QED
  BY <1>1, <1>2, <1>3, <1>4, <1>5, <1>6, <1>7, <1>8, <1>9, <1>10, <1>11, <1>12
  DEF Next

LEMMA MoneyInvHolds ==
    ASSUME Quirks = {}
    PROVE  Spec => []MoneyInv
<1>1. Init => MoneyInv
  BY DEF Init, MoneyInv, RowsHonest, EventsHonest, AcknowledgedSuccessKept,
         Rows, Attempts
<1>2. BooksInv /\ MoneyInv /\ [Next]_vars => MoneyInv'
  <2>1. CASE Next
    BY <2>1, MoneyInvStep DEF BooksInv
  <2>2. CASE UNCHANGED vars
    BY <2>2, QuietProvider, HonestIdle DEF vars, dbVars
  <2> QED
    BY <2>1, <2>2
<1> QED
  BY <1>1, <1>2, BooksInvHolds, PTL DEF Spec

\* With a provider that keeps its contract, a final status of a row is a
\* fact about the money, now and ever after.
THEOREM RowsAreTrue ==
    ASSUME Quirks = {}
    PROVE  Spec => []RowsTellTheTruth
<1>1. MoneyInv => RowsTellTheTruth
  BY DEF MoneyInv, RowsHonest, RowsTellTheTruth, Agrees
<1> QED
  BY <1>1, MoneyInvHolds, PTL

\* With such a provider, the loan is with the customer, or on its way, once
\* at most: a payout that is out belongs to a live row, and one row is live.
THEOREM PaidOnce ==
    ASSUME Quirks = {}
    PROVE  Spec => []AtMostOnePayout
<1>1. BooksInv /\ MoneyInv => AtMostOnePayout
  <2> SUFFICES ASSUME BooksInv, MoneyInv, NEW a \in Attempts, NEW b \in Attempts,
                      payout[a] \in {"PROCESSING", "SUCCESS"},
                      payout[b] \in {"PROCESSING", "SUCCESS"}
               PROVE  a = b
    BY DEF AtMostOnePayout
  <2>1. \A c \in Attempts :
            payout[c] \in {"PROCESSING", "SUCCESS"} =>
                c \in Rows /\ status[c] \in Live
    BY DEF BooksInv, TypeOK, OnlyRows, MoneyInv, RowsHonest, Agrees, Status,
           Live, Rows
  <2> QED
    BY <2>1 DEF BooksInv, RowsInv, OneLivePerOffer
<1> QED
  BY <1>1, BooksInvHolds, MoneyInvHolds, PTL

\* With such a provider, a success that was acknowledged is never lost.
THEOREM SuccessKept ==
    ASSUME Quirks = {}
    PROVE  Spec => []AcknowledgedSuccessKept
<1>1. MoneyInv => AcknowledgedSuccessKept
  BY DEF MoneyInv
<1> QED
  BY <1>1, MoneyInvHolds, PTL
-----------------------------------------------------------------------------
(* The promise.  At any time at most one row has a round that is open: its  *)
(* payout was made and it does not say that the money came back.  The       *)
(* promise's two variables can be read off that row, and a step of the      *)
(* system changes the row and the payout of one attempt at most.            *)

OpenRound(R, st, po, a) == a \in R /\ st[a] # "REVERSED" /\ po[a] \in Settled

Money(po) == \E a \in Attempts : po[a] = "SUCCESS"

Round(R, st, po) ==
    IF \E a \in R : st[a] = "SUCCESS" THEN "booked"
    ELSE IF \E a \in R : st[a] # "REVERSED" /\ po[a] \in Settled
    THEN "unbooked" ELSE "closed"

\* Money that is out has its round, a paid row has its payout, rounds follow
\* one another.
Rounds(R, st, po) ==
    /\ \A a \in Attempts : po[a] = "SUCCESS" => OpenRound(R, st, po, a)
    /\ \A a \in R : st[a] = "SUCCESS" => OpenRound(R, st, po, a)
    /\ \A a, b \in R :
          OpenRound(R, st, po, a) /\ OpenRound(R, st, po, b) => a = b

LEMMA RoundOpen ==
    ASSUME NEW R, NEW st, NEW po, Rounds(R, st, po),
           NEW a, OpenRound(R, st, po, a), a \in Attempts
    PROVE  /\ Money(po) <=> po[a] = "SUCCESS"
           /\ Round(R, st, po) =
                  IF st[a] = "SUCCESS" THEN "booked" ELSE "unbooked"
<1>1. \A b \in Attempts : po[b] = "SUCCESS" => b = a
  BY DEF Rounds, OpenRound
<1>2. \A b \in R : st[b] = "SUCCESS" => b = a
  BY DEF Rounds, OpenRound
<1>3. Money(po) <=> po[a] = "SUCCESS"
  BY <1>1 DEF Money
<1>4. (\E b \in R : st[b] = "SUCCESS") <=> st[a] = "SUCCESS"
  BY <1>2 DEF OpenRound
<1>5. \E b \in R : st[b] # "REVERSED" /\ po[b] \in Settled
  BY DEF OpenRound
<1> QED
  BY <1>3, <1>4, <1>5 DEF Round

LEMMA RoundClosed ==
    ASSUME NEW R, NEW st, NEW po, Rounds(R, st, po),
           \A a \in R : ~OpenRound(R, st, po, a)
    PROVE  ~Money(po) /\ Round(R, st, po) = "closed"
BY DEF Rounds, OpenRound, Money, Round

LEMMA RoundsSound == BooksInv /\ MoneyInv => Rounds(Rows, status, payout)
<1> SUFFICES ASSUME BooksInv, MoneyInv PROVE Rounds(Rows, status, payout)
  OBVIOUS
<1> USE DEF BooksInv
<1>1. \A a \in Attempts : payout[a] = "SUCCESS" =>
          OpenRound(Rows, status, payout, a)
  BY DEF OnlyRows, OpenRound, Settled, MoneyInv, RowsHonest, Agrees
<1>2. \A a \in Rows : status[a] = "SUCCESS" =>
          OpenRound(Rows, status, payout, a)
  BY DEF OpenRound, MoneyInv, RowsHonest, Agrees
<1>3. \A a \in Rows : OpenRound(Rows, status, payout, a) =>
          status[a] \in Live
  BY DEF OpenRound, MoneyInv, RowsHonest, Agrees, TypeOK, Rows, Status, Live,
         Settled
<1> QED
  BY <1>1, <1>2, <1>3 DEF Rounds, RowsInv, OneLivePerOffer, OpenRound

\* What one step may make of an attempt's payout.
PaidStep(p, q) ==
    \/ p \in {"ABSENT", "PROCESSING"} /\ q \in {"PROCESSING", "SUCCESS", "FAILED"}
    \/ p = "SUCCESS" /\ q = "REVERSED"

\* A payout changes alone, or as it is made by the submit that is answered.
PayoutMoves ==
    \/ payout' = payout
    \/ \E a \in Rows :
          /\ payout' = [payout EXCEPT ![a] = payout'[a]]
          /\ PaidStep(payout[a], payout'[a])
          /\ UNCHANGED rowVars \/ (payout[a] = "ABSENT" /\ Move(a))

LEMMA LandMoves ==
    ASSUME Quirks = {}, TypeOK, NEW a \in Rows, Land(a),
           UNCHANGED rowVars \/ Move(a)
    PROVE  PayoutMoves
<1>1. a \in Attempts
  BY DEF Rows
<1>2. CASE payout[a] = "ABSENT"
  <2>1. PICK p \in {"PROCESSING", "SUCCESS", "FAILED"} : Becomes(a, p)
    BY <1>2 DEF Land
  <2>2. payout' = [payout EXCEPT ![a] = p] /\ payout'[a] = p
    BY <1>1, <2>1 DEF Becomes, TypeOK
  <2> QED
    BY <1>2, <2>2 DEF PayoutMoves, PaidStep
<1>3. CASE payout[a] # "ABSENT"
  BY <1>3 DEF Land, PayoutMoves
<1> QED
  BY <1>2, <1>3

LEMMA SubmitPays ==
    ASSUME Quirks = {}, TypeOK, RowsInv, NEW a \in Rows, Submit(a)
    PROVE  PayoutMoves
<1>1. CASE NoBeneficiary(a) \/ SubmitRejected(a)
  BY <1>1 DEF NoBeneficiary, SubmitRejected, providerVars, PayoutMoves
<1>2. CASE SubmitLost(a)
  BY <1>2 DEF SubmitLost, PayoutMoves
<1>3. CASE SubmitUnanswered(a)
  BY <1>3, LandMoves DEF SubmitUnanswered
<1>4. CASE SubmitAnswered(a)
  BY <1>4, ApplyMoves, LandMoves DEF SubmitAnswered
<1> QED
  BY <1>1, <1>2, <1>3, <1>4 DEF Submit

LEMMA StepPays ==
    ASSUME Quirks = {}, TypeOK, OnlyRows, RowsInv, MoneyInv, Next
    PROVE  PayoutMoves
<1> USE DEF providerVars
<1>1. CASE Create \/ Retry \/ WorkerCrash
  BY <1>1 DEF Create, Retry, WorkerCrash, PayoutMoves
<1>2. ASSUME NEW a \in Attempts, SubmitClaimed(a) PROVE PayoutMoves
  <2>1. a \in Rows
    BY <1>2 DEF SubmitClaimed, OnlyRows
  <2>2. Submit(a) \/ payout' = payout
    BY <1>2 DEF SubmitClaimed
  <2> QED
    BY <2>1, <2>2, SubmitPays DEF PayoutMoves
<1>3. ASSUME NEW a \in Attempts, ReconcileOne(a) PROVE PayoutMoves
  <2>1. a \in Rows
    BY <1>3 DEF ReconcileOne, OnlyRows
  <2>2. Submit(a) \/ payout' = payout
    BY <1>3 DEF ReconcileOne, PollTimesOut, PollMisses, PollFinds
  <2> QED
    BY <2>1, <2>2, SubmitPays DEF PayoutMoves
<1>4. ASSUME NEW a \in Attempts, ProviderDecides(a) PROVE PayoutMoves
  <2>1. PICK p \in Reportable :
            <<payout[a], p>> \in ProviderMoves /\ Becomes(a, p)
    BY <1>4 DEF ProviderDecides
  <2>2. a \in Rows /\ PaidStep(payout[a], p)
    BY <2>1 DEF ProviderMoves, OnlyRows, PaidStep
  <2>3. payout' = [payout EXCEPT ![a] = p] /\ payout'[a] = p
    BY <2>1 DEF Becomes, TypeOK
  <2>4. UNCHANGED rowVars
    BY <1>4 DEF ProviderDecides, dbVars
  <2> QED
    BY <2>2, <2>3, <2>4 DEF PayoutMoves
<1>5. ASSUME NEW a \in Attempts, DelayedLands(a) PROVE PayoutMoves
  BY <1>5 DEF DelayedLands, MoneyInv, EventsHonest
<1>6. ASSUME NEW a \in Attempts,
             \/ Claim(a) \/ Age(a) \/ FindCandidate(a) \/ RetryRead(a)
             \/ Recheck(a)
             \/ \E s \in Reportable : Webhook(a, s)
             \/ \E rep \in Report : StrayWebhook(a, rep)
      PROVE  PayoutMoves
  BY <1>6 DEF Claim, Age, FindCandidate, RetryRead, Recheck, Webhook,
              StrayWebhook, PayoutMoves
<1> QED
  BY <1>1, <1>2, <1>3, <1>4, <1>5, <1>6 DEF Next

\* So a step changes the status or the payout of one attempt at most, or
\* records a row that has neither.
OneChanges(a) ==
    /\ a \in Rows /\ Rows' = Rows
    /\ \A b \in Attempts \ {a} : status'[b] = status[b] /\ payout'[b] = payout[b]
    /\ \/ status'[a] = status[a]
       \/ <<status[a], status'[a]>> \in Transitions
       \/ <<status[a], "SUCCESS">> \in Transitions /\ status'[a] = "REVERSED"
    /\ \/ payout'[a] = payout[a]
       \/ /\ PaidStep(payout[a], payout'[a])
          /\ status'[a] = status[a] \/ payout[a] = "ABSENT"

LEMMA StepChangesOne ==
    ASSUME Quirks = {}, TypeOK, OnlyRows, RowsInv, MoneyInv, Next
    PROVE  \/ \E a \in Rows : OneChanges(a)
           \/ UNCHANGED <<rowVars, payout>>
           \/ NewRow /\ payout' = payout
<1>1. PayoutMoves
  BY StepPays
<1>2. ASSUME NEW a \in Rows, Move(a) 
      PROVE  /\ Rows' = Rows
             /\ \A b \in Attempts \ {a} : status'[b] = status[b]
             /\ \/ status'[a] = status[a]
                \/ <<status[a], status'[a]>> \in Transitions
                \/ <<status[a], "SUCCESS">> \in Transitions
                   /\ status'[a] = "REVERSED"
  <2>1. <<"SUCCESS", "REVERSED">> \in Transitions
    BY DEF Transitions
  <2> QED
    BY <1>2, <2>1 DEF Move, TypeOK, Rows
<1>3. CASE payout' = payout
  <2>1. ASSUME NEW a \in Rows, Move(a) PROVE OneChanges(a)
    BY <1>2, <1>3, <2>1 DEF OneChanges
  <2> QED
    BY <1>3, <2>1, StepMoves
<1>4. ASSUME NEW a \in Rows,
             payout' = [payout EXCEPT ![a] = payout'[a]],
             PaidStep(payout[a], payout'[a]),
             UNCHANGED rowVars \/ (payout[a] = "ABSENT" /\ Move(a))
      PROVE  OneChanges(a)
  <2>1. \A b \in Attempts \ {a} : payout'[b] = payout[b]
    BY <1>4 DEF TypeOK
  <2>2. CASE UNCHANGED rowVars
    BY <1>4, <2>1, <2>2 DEF OneChanges, rowVars, Rows
  <2>3. CASE payout[a] = "ABSENT" /\ Move(a)
    BY <1>2, <1>4, <2>1, <2>3 DEF OneChanges
  <2> QED
    BY <1>4, <2>2, <2>3
<1> QED
  BY <1>1, <1>3, <1>4 DEF PayoutMoves
\* A change of one attempt's status or payout is a step of the promise.
LEMMA ChangeKeepsPromise ==
    ASSUME BooksInv, MoneyInv, MoneyInv', NEW a \in Rows, OneChanges(a),
           Rounds(Rows, status, payout), Rounds(Rows', status', payout')
    PROVE  [Promise!Next]_(Promise!promiseVars)
<1> DEFINE Open(b) == OpenRound(Rows, status, payout, b)
           OpenNext(b) == OpenRound(Rows, status', payout', b)
           m == Money(payout)
           mNext == Money(payout')
           r == Round(Rows, status, payout)
           rNext == Round(Rows, status', payout')
<1>1. /\ a \in Attempts /\ Rows' = Rows /\ Rows \subseteq Attempts
      /\ Rounds(Rows, status', payout')
  BY DEF OneChanges, Rows
<1>2. \A b \in Rows \ {a} : OpenNext(b) <=> Open(b)
  BY <1>1 DEF OneChanges, OpenRound
<1>3. \/ m = mNext /\ r = rNext
      \/ r = "closed" /\ ~m /\ mNext /\ rNext \in {"unbooked", "booked"}
      \/ m /\ ~mNext /\ rNext = r
      \/ r = "unbooked" /\ rNext = "booked" /\ mNext = m
      \/ r # "closed" /\ ~m /\ rNext = "closed" /\ ~mNext
  <2> HIDE DEF Open, OpenNext, m, mNext, r, rNext
  <2>1. CASE ~Open(a) /\ ~OpenNext(a)
    <3>0. m \in BOOLEAN /\ mNext \in BOOLEAN
      BY DEF m, mNext, Money
    <3>1. CASE \E b \in Rows : Open(b)
      <4>1. PICK b \in Rows : Open(b)
        BY <3>1
      <4>2. b # a /\ OpenNext(b) /\ b \in Attempts
        BY <1>1, <1>2, <2>1, <4>1
      <4>3. status'[b] = status[b] /\ payout'[b] = payout[b]
        BY <4>2 DEF OneChanges
      <4>4. (m <=> payout[b] = "SUCCESS")
            /\ r = IF status[b] = "SUCCESS" THEN "booked" ELSE "unbooked"
        BY <1>1, <4>1, <4>2, RoundOpen DEF Open, m, r
      <4>5. (mNext <=> payout'[b] = "SUCCESS")
            /\ rNext = IF status'[b] = "SUCCESS" THEN "booked" ELSE "unbooked"
        BY <1>1, <4>2, RoundOpen DEF OpenNext, mNext, rNext
      <4>6. m = mNext
        BY <3>0, <4>3, <4>4, <4>5, Zenon
      <4> QED
        BY <4>3, <4>4, <4>5, <4>6
    <3>2. CASE \A b \in Rows : ~Open(b)
      <4>1. \A b \in Rows : ~OpenNext(b)
        BY <1>2, <2>1, <3>2
      <4>2. ~m /\ r = "closed"
        BY <3>2, RoundClosed DEF Open, m, r
      <4>3. ~mNext /\ rNext = "closed"
        BY <1>1, <4>1, RoundClosed DEF OpenNext, mNext, rNext
      <4>4. m = mNext
        BY <3>0, <4>2, <4>3
      <4> QED
        BY <4>2, <4>3, <4>4
    <3> QED
      BY <3>1, <3>2
  <2>2. CASE ~Open(a) /\ OpenNext(a)
    <3>1. \A b \in Rows : ~Open(b)
      BY <1>1, <1>2, <2>2 DEF Rounds, OpenNext
    <3>2. r = "closed" /\ ~m
      BY <3>1, RoundClosed DEF Open, m, r
    <3>3. payout[a] \notin Settled \/ status[a] = "REVERSED"
      BY <2>2 DEF Open, OpenRound
    <3>4. status[a] # "REVERSED"
      <4>1. status[a] = "REVERSED" => status'[a] = "REVERSED"
        BY DEF OneChanges, Transitions
      <4> QED
        BY <2>2, <4>1 DEF OpenNext, OpenRound
    <3>5. payout'[a] = "SUCCESS"
      BY <2>2, <3>3, <3>4 DEF OpenNext, OpenRound, OneChanges, PaidStep, Settled
    <3> QED
      BY <1>1, <2>2, <3>2, <3>5, RoundOpen DEF OpenNext, mNext, rNext
  <2>3. CASE Open(a) /\ ~OpenNext(a)
    <3>1. \A b \in Rows : ~OpenNext(b)
      BY <1>1, <1>2, <2>3 DEF Rounds, Open
    <3>2. rNext = "closed" /\ ~mNext
      BY <1>1, <3>1, RoundClosed DEF OpenNext, mNext, rNext
    <3>3. payout[a] \in Settled /\ payout'[a] \in Settled
      BY <2>3 DEF Open, OpenRound, OneChanges, PaidStep, Settled
    <3>4. status'[a] = "REVERSED" /\ status[a] # "REVERSED"
      BY <2>3, <3>3 DEF Open, OpenNext, OpenRound
    <3>5. payout'[a] = "REVERSED"
      BY <1>1, <3>4 DEF MoneyInv, RowsHonest, Agrees
    <3>6. payout[a] = "REVERSED"
      BY <3>3, <3>4, <3>5 DEF OneChanges, PaidStep, Settled
    <3> QED
      BY <1>1, <2>3, <3>2, <3>6, RoundOpen DEF Open, m, r
  <2>4. CASE Open(a) /\ OpenNext(a)
    <3>1. /\ m <=> payout[a] = "SUCCESS"
          /\ r = IF status[a] = "SUCCESS" THEN "booked" ELSE "unbooked"
          /\ mNext <=> payout'[a] = "SUCCESS"
          /\ rNext = IF status'[a] = "SUCCESS" THEN "booked" ELSE "unbooked"
      BY <1>1, <2>4, RoundOpen DEF Open, OpenNext, m, mNext, r, rNext
    <3>2. status[a] = "SUCCESS" => status'[a] = "SUCCESS"
      BY <2>4 DEF OpenNext, OpenRound, OneChanges, Transitions
    <3>3. \/ payout'[a] = payout[a]
          \/ /\ payout[a] = "SUCCESS" /\ payout'[a] = "REVERSED"
             /\ status'[a] = status[a]
      BY <2>4 DEF Open, OpenRound, OneChanges, PaidStep, Settled
    <3>4. m \in BOOLEAN /\ mNext \in BOOLEAN
      BY DEF m, mNext, Money
    <3> QED
      BY <3>1, <3>2, <3>3, <3>4
  <2> QED
    BY <2>1, <2>2, <2>3, <2>4
<1> QED
  BY <1>1, <1>3
  DEF Promise!Next, Promise!promiseVars, Promise!PayOut, Promise!ComeBack,
      Promise!Book, Promise!Close, Promise!PayOutAndBook, Money, Round

\* A new row opens no round.
LEMMA NewRowKeepsPromise ==
    ASSUME BooksInv, MoneyInv, NewRow, payout' = payout
    PROVE  UNCHANGED Promise!promiseVars
<1>1. /\ Rows' = Rows \cup {count + 1} /\ count + 1 \in Attempts
      /\ count + 1 \notin Rows
  <2>1. count + 1 \in Attempts /\ count + 1 \notin Rows
    BY MaxAttemptsAssumption DEF BooksInv, NewRow, TypeOK, Attempts, Rows
  <2> QED
    BY <2>1, NewRowKeepsRows DEF BooksInv
<1>2. /\ status'[count + 1] = "PENDING"
      /\ \A b \in Rows : status'[b] = status[b]
      /\ payout[count + 1] = "ABSENT"
  BY <1>1 DEF BooksInv, NewRow, TypeOK, Rows, OnlyRows
<1>3. /\ (\E b \in Rows' : status'[b] = "SUCCESS") <=>
             (\E b \in Rows : status[b] = "SUCCESS")
      /\ (\E b \in Rows' : status'[b] # "REVERSED" /\ payout[b] \in Settled) <=>
             (\E b \in Rows : status[b] # "REVERSED" /\ payout[b] \in Settled)
  BY <1>1, <1>2 DEF Settled
<1> QED
  BY <1>3 DEF Promise!promiseVars

\* Every step of the system keeps the promise or does nothing to it.
LEMMA StepKeepsPromise ==
    ASSUME Quirks = {}
    PROVE  /\ BooksInv /\ MoneyInv
           /\ Rounds(Rows, status, payout)
           /\ BooksInv' /\ MoneyInv'
           /\ Rounds(Rows, status, payout)'
           /\ [Next]_vars
           => [Promise!Next]_(Promise!promiseVars)
<1> SUFFICES ASSUME BooksInv, MoneyInv, BooksInv', MoneyInv', [Next]_vars,
                    Rounds(Rows, status, payout), Rounds(Rows', status', payout')
             PROVE  [Promise!Next]_(Promise!promiseVars)
  OBVIOUS
<1>1. CASE Next
  <2>1. ASSUME NEW a \in Rows, OneChanges(a)
        PROVE  [Promise!Next]_(Promise!promiseVars)
    BY <2>1, ChangeKeepsPromise
  <2>2. CASE UNCHANGED <<rowVars, payout>>
    BY <2>2 DEF Promise!promiseVars, rowVars, Rows
  <2>3. CASE NewRow /\ payout' = payout
    BY <2>3, NewRowKeepsPromise
  <2> QED
    BY <1>1, <2>1, <2>2, <2>3, StepChangesOne DEF BooksInv
<1>2. CASE UNCHANGED vars
  BY <1>2 DEF vars, dbVars, rowVars, providerVars, Rows, Promise!promiseVars
<1> QED
  BY <1>1, <1>2

\* With a provider that keeps its contract, the payouts of an offer
\* implement the promise: the money moves out once per round, it goes out
\* again only when it is back and its round is closed, and the books follow.
THEOREM PromiseKept ==
    ASSUME Quirks = {}
    PROVE  Spec => ImplementsPromise
<1>1. Init => Promise!Init
  BY DEF Init, Promise!Init, Rows, Attempts
<1> QED
  BY <1>1, StepKeepsPromise, RoundsSound, BooksInvHolds, MoneyInvHolds, PTL
  DEF Spec, Promise!Spec, ImplementsPromise
=============================================================================
