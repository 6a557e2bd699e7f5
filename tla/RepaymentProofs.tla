-------------------------- MODULE RepaymentProofs ---------------------------
(***************************************************************************)
(* Theorems about Repayment for every number of payments, instalments and  *)
(* callers, and every misbehaviour of the provider.                        *)
(*                                                                         *)
(* The payments and the account change in four ways only: a payment is     *)
(* initiated, a fee is charged, a payment's status is set, or a verdict is *)
(* enacted that its status allows (Step).  StepCases shows it once for all *)
(* handlers; the theorems then look at these four.                         *)
(***************************************************************************)
EXTENDS Repayment, TLAPS

Verdicts == {"ignore", "review", "open", "wait", "fail", "pay", "reverse",
             "payAndReverse"}

\* The verdicts a payment in status cur may get from rep.
Allows(cur, rep, v) ==
    /\ v = "pay" => rep.status = "SUCCESS"
    /\ v \in {"reverse", "payAndReverse"} => rep.status = "REVERSED"
    /\ v = "open" => cur = "INITIATED"
    /\ v = "reverse" => cur = "SUCCESS"
    /\ v \in {"fail", "pay", "payAndReverse"} => cur \in Open \cup {"NONE"}
    /\ v = "review" => cur \notin Settled

\* Everything an answer or an event can be turned into.
Told == Report \cup {Nothing, Rejected, NotFound, Plain("FAILED")}

SetStep(p) ==
    /\ status[p] \in {"INITIATED", "PENDING"}
    /\ Sets(p, "FAILED") \/ Sets(p, "REQUIRES_REVIEW")

Enacts(p, rep) ==
    \E v \in Verdicts : Allows(status[p], rep, v) /\ Enact(p, rep, v)

EnactStep(p) == \E rep \in Told : Enacts(p, rep)

Step ==
    \/ UNCHANGED <<payVars, moneyVars>>
    \/ \E p \in Known : SetStep(p) \/ EnactStep(p)
    \/ \E p \in Payments : Initiate(p)
    \/ \E i \in Instalments : LateCharge(i)

-----------------------------------------------------------------------------
(* Verdicts.                                                               *)

LEMMA OutcomeAllowed ==
    ASSUME NEW p \in Payments, NEW rep, status[p] \in Open \cup {"NONE"}
    PROVE  Outcome(p, rep) \in Verdicts /\ Allows(status[p], rep, Outcome(p, rep))
BY DEF Outcome, Verdicts, Allows, Open, Settled

LEMMA VerdictAllowed ==
    ASSUME TypeOK, NEW p \in Payments, NEW rep, NEW fromReview \in BOOLEAN
    PROVE  /\ Verdict(p, rep, fromReview) \in Verdicts
           /\ Allows(status[p], rep, Verdict(p, rep, fromReview))
<1> DEFINE v == Verdict(p, rep, fromReview)
<1>1. CASE Contradicts(p, rep)
  BY <1>1 DEF Verdict, OnContradiction, Verdicts, Allows
<1>2. CASE ~Contradicts(p, rep) /\ status[p] \in {"SUCCESS", "REVERSED", "FAILED"}
  BY <1>2 DEF Verdict, Verdicts, Allows, Settled
<1>3. CASE ~Contradicts(p, rep) /\ status[p] \in Open \cup {"NONE"}
  <2>1. v \in {"ignore", Outcome(p, rep)}
    BY <1>3 DEF Verdict, Open
  <2>2. Allows(status[p], rep, "ignore")
    BY DEF Allows
  <2> QED
    BY <1>3, <2>1, <2>2, OutcomeAllowed DEF Verdicts
<1>4. status[p] \in Status \cup {"NONE"}
  BY DEF TypeOK
<1> QED
  BY <1>1, <1>2, <1>3, <1>4 DEF Status, Open

-----------------------------------------------------------------------------
(* What callers end with.                                                  *)

LEMMA AnswersType ==
    ASSUME TypeOK, NEW c \in Callers, call[c] # Idle
    PROVE  call[c] \in Call /\ Answers(c) \subseteq Told
<1>1. call[c] \in Call
  BY DEF TypeOK
<1>2. call[c].answer \in Told
  BY <1>1 DEF Call, Told
<1> QED
  BY <1>1, <1>2 DEF Answers, Told

LEMMA VerdictEnacted ==
    ASSUME TypeOK, NEW p \in Payments, NEW a, NEW fromReview \in BOOLEAN,
           Enact(p, a, Verdict(p, a, fromReview))
    PROVE  Enacts(p, a)
BY VerdictAllowed DEF Enacts

LEMMA FinishCases ==
    ASSUME TypeOK, NEW c \in Callers, Finish(c)
    PROVE  \/ UNCHANGED <<payVars, moneyVars>>
           \/ /\ call[c].payment \in Known
              /\ \/ SetStep(call[c].payment)
                 \/ \E rep \in Answers(c) \cup {Plain("FAILED")} :
                       Enacts(call[c].payment, rep)
<1> DEFINE p == call[c].payment
<1>1. PICK a \in Answers(c) :
          CASE call[c].kind = "dispatch" -> DispatchEnds(p, a)
            [] call[c].kind = "poll" -> PollEnds(p, a)
            [] call[c].kind = "recheck" -> RecheckEnds(p, a)
  BY DEF Finish
<1>2. call[c] \in Call /\ a \in Told
  BY AnswersType DEF Finish
<1>3. p \in Payments /\ call[c].kind \in Kinds
  BY <1>2 DEF Call
<1>4. status[p] \in Open => p \in Known
  BY <1>3 DEF Known, Open
<1>5. CASE call[c].kind = "dispatch"
  <2>1. DispatchEnds(p, a)
    BY <1>1, <1>5
  <2>2. CASE status[p] # "INITIATED"
    BY <2>1, <2>2 DEF DispatchEnds, NothingDone
  <2>3. CASE status[p] = "INITIATED"
    <3>1. \/ NothingDone \/ Sets(p, "FAILED")
          \/ Enact(p, a, Verdict(p, a, FALSE))
      BY <2>1, <2>3 DEF DispatchEnds, DispatchOutcome
    <3>2. Enact(p, a, Verdict(p, a, FALSE)) => Enacts(p, a)
      BY <1>2, <1>3, VerdictEnacted
    <3> QED
      BY <1>4, <2>3, <3>1, <3>2 DEF SetStep, NothingDone, Open
  <2> QED
    BY <2>2, <2>3
<1>6. CASE call[c].kind = "poll"
  <2>1. PollEnds(p, a)
    BY <1>1, <1>6
  <2>2. CASE status[p] # "PENDING"
    BY <2>1, <2>2 DEF PollEnds, NothingDone
  <2>3. CASE status[p] = "PENDING"
    <3> DEFINE v == Verdict(p, a, FALSE)
    <3>1. \/ NothingDone \/ Sets(p, "REQUIRES_REVIEW")
          \/ Enact(p, a, v) \/ Enact(p, a, "review")
      BY <2>1, <2>3 DEF PollEnds, PollOutcome
    <3>2. Enact(p, a, v) => Enacts(p, a)
      BY <1>2, <1>3, VerdictEnacted
    <3>3. "review" \in Verdicts /\ Allows("PENDING", a, "review")
      BY DEF Verdicts, Allows, Settled
    <3>4. Enact(p, a, "review") => Enacts(p, a)
      BY <2>3, <3>3 DEF Enacts
    <3> QED
      BY <1>4, <2>3, <3>1, <3>2, <3>4 DEF SetStep, NothingDone, Open
  <2> QED
    BY <2>2, <2>3
<1>7. CASE call[c].kind = "recheck"
  <2> DEFINE fromReview == status[p] = "REQUIRES_REVIEW"
  <2>1. RecheckEnds(p, a)
    BY <1>1, <1>7
  <2>2. \/ NothingDone
        \/ /\ status[p] \in Open
           /\ \/ Enact(p, Plain("FAILED"), Verdict(p, Plain("FAILED"), TRUE))
              \/ Enact(p, a, Verdict(p, a, fromReview))
    BY <2>1 DEF RecheckEnds
  <2>3. fromReview \in BOOLEAN
    OBVIOUS
  <2>4. /\ Enact(p, a, Verdict(p, a, fromReview)) => Enacts(p, a)
        /\ Enact(p, Plain("FAILED"), Verdict(p, Plain("FAILED"), TRUE))
              => Enacts(p, Plain("FAILED"))
    BY <1>3, <2>3, VerdictEnacted
  <2> QED
    BY <1>4, <2>2, <2>4 DEF NothingDone
<1> QED
  BY <1>3, <1>5, <1>6, <1>7 DEF Kinds

-----------------------------------------------------------------------------
(* Only payments that were initiated are ever heard of.                    *)

KnownOnly ==
    /\ \A p \in Payments : status[p] = "NONE" => collection[p] = "ABSENT"
    /\ \A p \in Payments, s \in Reportable : <<p, s>> \in reported => p \in Known

LEMMA AddresseeKnown ==
    ASSUME NEW r, NEW key \in Known
    PROVE  Addressee(r, key) \in Known
BY DEF Addressee

LEMMA StepCases ==
    ASSUME TypeOK, KnownOnly, Next
    PROVE  Step
<1>1. ASSUME NEW p \in Payments,
             Age(p) \/ Land(p) \/ ProviderDecides(p)
                 \/ \E c \in Callers : Dispatch(c, p) \/ Poll(c, p) \/ Recheck(c, p)
      PROVE  UNCHANGED <<payVars, moneyVars>>
  BY <1>1 DEF Age, Land, ProviderDecides, Dispatch, Poll, Recheck, Ask, dbVars
<1>2. ASSUME NEW c \in Callers, Respond(c) \/ GiveUp(c)
      PROVE  UNCHANGED <<payVars, moneyVars>>
  BY <1>2 DEF Respond, GiveUp, dbVars
<1>3. ASSUME NEW p \in Payments, NEW s \in Reportable, ReportedEvent(p, s)
      PROVE  \E d \in Known : EnactStep(d)
  <2> DEFINE rep == [status |-> s, ref |-> p, amountOk |-> TRUE]
             d == Addressee(p, p)
  <2>1. p \in Known
    BY <1>3 DEF ReportedEvent, KnownOnly
  <2>2. d \in Known /\ d \in Payments
    BY <2>1, AddresseeKnown DEF Known
  <2>3. rep \in Told
    BY AccountAssumption DEF Told, Report, Refs, Payments
  <2>4. Enact(d, rep, Verdict(d, rep, FALSE))
    BY <1>3 DEF ReportedEvent
  <2> QED
    BY <2>2, <2>3, <2>4, VerdictEnacted DEF EnactStep
<1>4. ASSUME NEW d \in Known, NEW rep \in Report, StrayEvent(d, rep)
      PROVE  EnactStep(d)
  <2>1. rep \in Told /\ d \in Payments
    BY DEF Told, Known
  <2> QED
    BY <1>4, <2>1, VerdictEnacted DEF StrayEvent, EnactStep
<1>5. ASSUME NEW c \in Callers, Finish(c)
      PROVE  Step
  <2>1. Answers(c) \cup {Plain("FAILED")} \subseteq Told
    BY <1>5, AnswersType DEF Finish, Told
  <2> QED
    BY <1>5, <2>1, FinishCases DEF Step, EnactStep
<1> QED
  BY <1>1, <1>2, <1>3, <1>4, <1>5 DEF Next, Step, Webhook
-----------------------------------------------------------------------------
(* Type correctness.                                                       *)

RowsTypeOK ==
    /\ status \in [Payments -> Status \cup {"NONE"}]
    /\ ref \in [Payments -> Refs]
    /\ amount \in [Payments -> Amounts \cup {0}]

LEMMA ToldRef ==
    ASSUME NEW rep \in Told
    PROVE  rep.ref \in Refs
<1>1. CASE rep \in Report
  BY <1>1 DEF Report
<1>2. CASE rep \in {Nothing, Rejected, NotFound, Plain("FAILED")}
  <2>1. rep.ref = NoRef
    BY <1>2 DEF Nothing, Rejected, NotFound, Plain
  <2> QED
    BY <2>1, AccountAssumption DEF Refs, NoRef
<1> QED
  BY <1>1, <1>2 DEF Told

\* What a verdict makes of the payment it is enacted on.
LEMMA EnactEffect ==
    ASSUME TypeOK, NEW p \in Payments, NEW rep \in Told, NEW v \in Verdicts,
           Enact(p, rep, v)
    PROVE  /\ status' = [status EXCEPT ![p] = StatusAfter(status[p], v)]
           /\ ref' = [ref EXCEPT ![p] = RefAfter(p, rep)]
           /\ RefAfter(p, rep) \in Refs
           /\ ref[p] # NoRef => RefAfter(p, rep) = ref[p]
           /\ amount' = amount
BY ToldRef DEF Enact, RefAfter, TypeOK

LEMMA StatusAfterType ==
    ASSUME NEW cur, NEW v \in Verdicts
    PROVE  StatusAfter(cur, v) \in Status \cup {cur}
BY DEF StatusAfter, Status

\* No step forgets a payment, and every step keeps the rows well-typed.
LEMMA StepKeepsRows ==
    ASSUME TypeOK, Step
    PROVE  RowsTypeOK' /\ \A p \in Known : status'[p] # "NONE"
<1> USE DEF TypeOK, RowsTypeOK
<1>1. CASE UNCHANGED <<payVars, moneyVars>>
  BY <1>1 DEF payVars, Known
<1>2. CASE \E p \in Payments : Initiate(p)
  BY <1>2 DEF Initiate, Known, Status
<1>3. CASE \E p \in Known : SetStep(p)
  BY <1>3 DEF SetStep, Sets, Known, Status
<1>4. CASE \E p \in Known : EnactStep(p)
  <2>1. PICK p \in Known, rep \in Told, v \in Verdicts : Enact(p, rep, v)
    BY <1>4 DEF EnactStep, Enacts
  <2>2. p \in Payments /\ status[p] \in Status
    BY <2>1 DEF Known
  <2>3. StatusAfter(status[p], v) \in Status
    BY <2>2, StatusAfterType
  <2>4. "NONE" \notin Status
    BY DEF Status
  <2> QED
    BY <2>1, <2>2, <2>3, <2>4, EnactEffect DEF Known
<1>5. CASE \E i \in Instalments : LateCharge(i)
  BY <1>5 DEF LateCharge, payVars, Known
<1> QED
  BY <1>1, <1>2, <1>3, <1>4, <1>5 DEF Step

LEMMA BecomesType ==
    ASSUME TypeOK, NEW p \in Payments, NEW s \in Reportable \cup {"REFUSED"},
           Becomes(p, s)
    PROVE  /\ collection' \in [Payments -> Collection]
           /\ reported' \subseteq Payments \X Reportable
BY DEF Becomes, TypeOK, Collection, Reportable

\* Each payment's record, call and collection keeps its type in every step.
OthersTypeOK ==
    /\ seen \subseteq Payments \X Reportable
    /\ old \subseteq Payments
    /\ call \in [Callers -> Call \cup {Idle}]
    /\ collection \in [Payments -> Collection]
    /\ reported \subseteq Payments \X Reportable

LEMMA AskType ==
    ASSUME TypeOK, NEW c \in Callers, NEW kind \in Kinds, NEW p \in Payments,
           Ask(c, kind, p)
    PROVE  call' \in [Callers -> Call \cup {Idle}]
BY DEF Ask, TypeOK, Call

LEMMA NextKeepsOthers ==
    ASSUME TypeOK, Next
    PROVE  OthersTypeOK'
<1> USE DEF TypeOK, OthersTypeOK
<1>1. ASSUME NEW p \in Payments, Initiate(p) PROVE OthersTypeOK'
  BY <1>1 DEF Initiate, providerVars
<1>2. ASSUME NEW p \in Payments, Age(p) PROVE OthersTypeOK'
  BY <1>2 DEF Age, dbVars, providerVars
<1>3. ASSUME NEW p \in Payments, Land(p) PROVE OthersTypeOK'
  <2>1. PICK s \in Reportable \cup {"REFUSED"} : Becomes(p, s)
    BY <1>3 DEF Land, Reportable
  <2> QED
    BY <1>3, <2>1, BecomesType DEF Land, dbVars
<1>4. ASSUME NEW p \in Payments, ProviderDecides(p) PROVE OthersTypeOK'
  BY <1>4, BecomesType DEF ProviderDecides, dbVars
<1>5. ASSUME NEW p \in Payments, NEW s \in Reportable, ReportedEvent(p, s)
      PROVE  OthersTypeOK'
  BY <1>5 DEF ReportedEvent, providerVars
<1>6. ASSUME NEW p \in Payments, NEW rep \in Report, StrayEvent(p, rep)
      PROVE  OthersTypeOK'
  BY <1>6 DEF StrayEvent, providerVars
<1>7. ASSUME NEW p \in Payments, NEW c \in Callers, Dispatch(c, p)
      PROVE  OthersTypeOK'
  <2>1. call' \in [Callers -> Call \cup {Idle}]
    BY <1>7, AskType DEF Dispatch, Kinds
  <2> QED
    BY <1>7, <2>1 DEF Dispatch, Ask, dbVars, Collection
<1>8. ASSUME NEW p \in Payments, NEW c \in Callers, Poll(c, p) \/ Recheck(c, p)
      PROVE  OthersTypeOK'
  <2>1. call' \in [Callers -> Call \cup {Idle}]
    BY <1>8, AskType DEF Poll, Recheck, Kinds
  <2> QED
    BY <1>8, <2>1 DEF Poll, Recheck, Ask, dbVars
<1>9. ASSUME NEW c \in Callers, Respond(c) PROVE OthersTypeOK'
  <2>1. call[c] \in Call
    BY <1>9 DEF Respond
  <2>2. PICK a : /\ call' = [call EXCEPT ![c].answer = a]
                 /\ a \in CreateAnswers(call[c].payment) \cup LookupAnswers(call[c].payment)
    BY <1>9 DEF Respond
  <2> DEFINE p == call[c].payment
  <2>3. a \in Report \cup {Rejected, NotFound}
    <3>1. p \in Payments /\ p \in Refs /\ NoRef \in Refs
      BY <2>1, AccountAssumption DEF Call, Payments, Refs, NoRef
    <3>2. a \in {Rejected, NotFound}
              \/ (/\ collection[p] \in Reportable
                  /\ \E r \in Refs :
                        a = [status |-> collection[p], ref |-> r, amountOk |-> TRUE])
      <4>1. CASE a \in CreateAnswers(p)
        BY <3>1, <4>1 DEF CreateAnswers, Exists
      <4>2. CASE a \in LookupAnswers(p)
        <5>1. CASE Exists(p)
          <6>1. PICK r \in {NoRef, p} :
                    a = [status |-> collection[p], ref |-> r, amountOk |-> TRUE]
            BY <4>2, <5>1 DEF LookupAnswers
          <6> QED
            BY <3>1, <5>1, <6>1 DEF Exists
        <5>2. CASE ~Exists(p)
          BY <4>2, <5>2 DEF LookupAnswers
        <5> QED
          BY <5>1, <5>2
      <4> QED
        BY <2>2, <4>1, <4>2
    <3>3. ASSUME NEW r \in Refs, collection[p] \in Reportable
          PROVE  [status |-> collection[p], ref |-> r, amountOk |-> TRUE] \in Report
      BY <3>3 DEF Report
    <3> QED
      BY <3>2, <3>3
  <2>4. call' \in [Callers -> Call \cup {Idle}]
    BY <2>1, <2>2, <2>3 DEF Call
  <2> QED
    BY <1>9, <2>4 DEF Respond, dbVars, providerVars
<1>10. ASSUME NEW c \in Callers, Finish(c) \/ GiveUp(c) PROVE OthersTypeOK'
  BY <1>10 DEF Finish, GiveUp, dbVars, providerVars
<1>11. ASSUME NEW i \in Instalments, LateCharge(i) PROVE OthersTypeOK'
  BY <1>11 DEF LateCharge, providerVars
<1> QED
  BY <1>1, <1>2, <1>3, <1>4, <1>5, <1>6, <1>7, <1>8, <1>9, <1>10, <1>11
  DEF Next, Webhook

\* Seen by the provider only after it was initiated: collections, events.
LEMMA KnownOnlyKept ==
    ASSUME TypeOK, KnownOnly, Next
    PROVE  KnownOnly'
<1>0. \A p \in Known : status'[p] # "NONE"
  BY StepCases, StepKeepsRows
<1>1. ASSUME UNCHANGED providerVars PROVE KnownOnly'
  BY <1>0, <1>1 DEF KnownOnly, Known, providerVars
<1>2. ASSUME NEW p \in Known, NEW s, Becomes(p, s) PROVE KnownOnly'
  BY <1>0, <1>2 DEF KnownOnly, Known, Becomes, TypeOK
<1>3. ASSUME NEW p \in Payments, Land(p) \/ ProviderDecides(p) PROVE KnownOnly'
  <2>1. collection[p] # "ABSENT"
    BY <1>3 DEF Land, ProviderDecides, ProviderMoves
  <2>2. p \in Known
    BY <2>1 DEF KnownOnly, Known
  <2> QED
    BY <1>2, <1>3, <2>2 DEF Land, ProviderDecides
<1>4. ASSUME NEW p \in Payments, NEW c \in Callers, Dispatch(c, p)
      PROVE  KnownOnly'
  BY <1>0, <1>4 DEF Dispatch, Ask, KnownOnly, Known, TypeOK
<1>5. ASSUME NEW p \in Payments, NEW c \in Callers, Poll(c, p) \/ Recheck(c, p)
      PROVE  UNCHANGED providerVars
  BY <1>5 DEF Poll, Recheck, Ask, providerVars
<1> QED
  BY <1>1, <1>3, <1>4, <1>5
  DEF Next, Initiate, Age, Webhook, ReportedEvent, StrayEvent, Respond, Finish,
      GiveUp, LateCharge

AppliedDomain == DOMAIN applied = Payments

LEMMA AppliedDomainKept ==
    ASSUME AppliedDomain, Step
    PROVE  AppliedDomain'
<1>1. \/ applied' = applied
      \/ \E p, f : applied' = [applied EXCEPT ![p] = f]
  BY DEF Step, payVars, moneyVars, Initiate, SetStep, Sets, MoneyStays, LateCharge,
         AssessCharge, EnactStep, Enacts, Enact, Settle, Reverse, SettleAndReverse
<1> QED
  BY <1>1 DEF AppliedDomain

\* Every variable keeps its type, and the provider hears of no payment before
\* it is recorded: dispatch comes after the commit.
THEOREM TypeCorrect == Spec => [](TypeOK /\ KnownOnly /\ AppliedDomain)
<1> DEFINE Inv == TypeOK /\ KnownOnly /\ AppliedDomain
<1>1. Init => Inv
  BY AccountAssumption
  DEF Init, AccountInit, TypeOK, KnownOnly, AppliedDomain, Status, Refs, NoRef,
      Collection, Known
<1>2. Inv /\ [Next]_vars => Inv'
  <2>1. CASE Inv /\ Next
    BY <2>1, StepCases, StepKeepsRows, NextKeepsOthers, KnownOnlyKept, AppliedDomainKept
    DEF TypeOK, RowsTypeOK, OthersTypeOK
  <2>2. CASE UNCHANGED vars
    BY <2>2 DEF vars, dbVars, payVars, moneyVars, providerVars, TypeOK, KnownOnly,
                AppliedDomain, Known
  <2> QED
    BY <2>1, <2>2
<1> QED
  BY <1>1, <1>2, PTL DEF Spec
-----------------------------------------------------------------------------
(* Refused updates.                                                        *)

\* The change of a known payment is one that no transition table or trigger
\* refuses.
Kept(p) ==
    /\ \/ status'[p] = status[p]
       \/ <<status[p], status'[p]>> \in Transitions
       \/ <<status[p], "SUCCESS">> \in Transitions /\ status'[p] = "REVERSED"
    /\ ref[p] # NoRef => ref'[p] = ref[p]
    /\ status[p] \in Settled => applied'[p] = applied[p]

LEMMA AllowedEdge ==
    ASSUME NEW cur \in Status, NEW rep, NEW v \in Verdicts, Allows(cur, rep, v)
    PROVE  \/ StatusAfter(cur, v) = cur
           \/ <<cur, StatusAfter(cur, v)>> \in Transitions
           \/ <<cur, "SUCCESS">> \in Transitions /\ StatusAfter(cur, v) = "REVERSED"
<1>1. CASE v \in {"ignore", "wait"}
  BY <1>1 DEF StatusAfter
<1>2. CASE v = "review"
  BY <1>2 DEF StatusAfter, Allows, Status, Settled, Transitions
<1>3. CASE v \in {"open", "reverse"}
  BY <1>3 DEF StatusAfter, Allows, Transitions
<1>4. CASE v \in {"fail", "pay", "payAndReverse"}
  BY <1>4 DEF StatusAfter, Allows, Status, Open, Transitions
<1> QED
  BY <1>1, <1>2, <1>3, <1>4 DEF Verdicts

\* Money moves the allocations of the one payment it is about.
LEMMA EnactApplied ==
    ASSUME AppliedDomain, NEW p \in Payments, NEW rep, NEW v \in Verdicts,
           Enact(p, rep, v),
           NEW q \in Payments, q # p \/ v \notin {"pay", "payAndReverse"}
    PROVE  applied'[q] = applied[q]
<1>1. \/ /\ v \in {"pay", "payAndReverse"}
         /\ \E f : applied' = [applied EXCEPT ![p] = f]
      \/ applied' = applied
  BY DEF Enact, Settle, Reverse, SettleAndReverse, MoneyStays, moneyVars, Verdicts
<1> QED
  BY <1>1 DEF AppliedDomain

LEMMA StepKeeps ==
    ASSUME TypeOK, AppliedDomain, Step, NEW p \in Known
    PROVE  Kept(p)
<1>0. p \in Payments /\ status[p] \in Status
  BY DEF Known, TypeOK
<1>1. CASE UNCHANGED <<payVars, moneyVars>>
  BY <1>1 DEF payVars, moneyVars, Kept
<1>2. ASSUME NEW q \in Payments, Initiate(q) PROVE Kept(p)
  <2>1. p # q
    BY <1>2 DEF Initiate, Known
  <2> QED
    BY <1>0, <1>2, <2>1 DEF Initiate, moneyVars, Kept, TypeOK
<1>3. ASSUME NEW q \in Known, SetStep(q) PROVE Kept(p)
  <2>1. CASE p = q
    BY <1>0, <1>3, <2>1
    DEF SetStep, Sets, MoneyStays, moneyVars, Kept, Transitions, TypeOK
  <2>2. CASE p # q
    BY <1>0, <1>3, <2>2 DEF SetStep, Sets, MoneyStays, moneyVars, Kept, Known, TypeOK
  <2> QED
    BY <2>1, <2>2
<1>4. ASSUME NEW q \in Known, EnactStep(q) PROVE Kept(p)
  <2>0. q \in Payments
    BY DEF Known
  <2>1. PICK rep \in Told, v \in Verdicts :
            Allows(status[q], rep, v) /\ Enact(q, rep, v)
    BY <1>4 DEF EnactStep, Enacts
  <2>2. /\ status' = [status EXCEPT ![q] = StatusAfter(status[q], v)]
        /\ ref' = [ref EXCEPT ![q] = RefAfter(q, rep)]
        /\ ref[q] # NoRef => RefAfter(q, rep) = ref[q]
    BY <2>0, <2>1, EnactEffect
  <2>3. CASE p = q
    <3>1. status'[p] = StatusAfter(status[p], v)
      BY <1>0, <2>2, <2>3 DEF TypeOK
    <3>2. ref[p] # NoRef => ref'[p] = ref[p]
      BY <1>0, <2>2, <2>3 DEF TypeOK
    <3>3. status[p] \in Settled => v \notin {"pay", "payAndReverse"}
      BY <2>1, <2>3 DEF Allows, Settled, Open
    <3> QED
      BY <1>0, <2>1, <2>3, <3>1, <3>2, <3>3, AllowedEdge, EnactApplied DEF Kept
  <2>4. CASE p # q
    BY <1>0, <2>0, <2>1, <2>2, <2>4, EnactApplied DEF Kept, TypeOK
  <2> QED
    BY <2>3, <2>4
<1>5. ASSUME NEW i \in Instalments, LateCharge(i) PROVE Kept(p)
  BY <1>5 DEF LateCharge, AssessCharge, payVars, Kept
<1> QED
  BY <1>1, <1>2, <1>3, <1>4, <1>5 DEF Step

\* However late an answer is applied, and whatever it says: no handler
\* attempts an update that _move or a trigger would refuse.
THEOREM NeverRefused == Spec => NoRefusedUpdate
<1>1. TypeOK /\ KnownOnly /\ AppliedDomain /\ [Next]_vars =>
        [\A p \in Known : Kept(p)]_dbVars
  BY StepCases, StepKeeps DEF vars
<1>2. TypeOK /\ KnownOnly /\ AppliedDomain /\ [Next]_vars =>
        [/\ \A p \in Known :
             /\ \/ status'[p] = status[p]
                \/ <<status[p], status'[p]>> \in Transitions
                \/ <<status[p], "SUCCESS">> \in Transitions /\ status'[p] = "REVERSED"
             /\ ref[p] # NoRef => ref'[p] = ref[p]
             /\ status[p] \in Settled => applied'[p] = applied[p]]_dbVars
  BY <1>1 DEF Kept
<1> QED
  BY <1>2, TypeCorrect, PTL DEF Spec, NoRefusedUpdate

-----------------------------------------------------------------------------
(* The books and the payments.                                             *)

LEMMA BookedAfter ==
    ASSUME NEW entries, books' = books \cup entries, NEW q, NEW kind
    PROVE  Booked(q, kind)' <=>
               Booked(q, kind) \/ \E e \in entries : e.payment = q /\ e.kind = kind
BY DEF Booked

LEMMA SettleBooks ==
    ASSUME NEW p, NEW x, Settle(p, x), NEW q, NEW kind
    PROVE  Booked(q, kind)' <=>
               Booked(q, kind) \/ (q = p /\ kind = "received")
<1> DEFINE new == Entry(p, "received", Lines(x, Allocate(x)))
<1>1. books' = books \cup {new}
  BY DEF Settle, Post
<1>2. new.payment = p /\ new.kind = "received"
  BY DEF Entry
<1>3. (\E e \in {new} : e.payment = q /\ e.kind = kind) <=> (q = p /\ kind = "received")
  BY <1>2
<1>4. PICK n : n = new
  OBVIOUS
<1> HIDE DEF new
<1>5. Booked(q, kind)' <=>
          Booked(q, kind) \/ \E e \in {n} : e.payment = q /\ e.kind = kind
  BY <1>1, <1>4 DEF Booked
<1> QED
  BY <1>3, <1>4, <1>5

LEMMA SettleAndReverseBooks ==
    ASSUME NEW p, NEW x, SettleAndReverse(p, x), NEW q, NEW kind \in EntryKinds
    PROVE  Booked(q, kind)' <=> Booked(q, kind) \/ q = p
<1> DEFINE new(k) == Entry(p, k, Lines(x, Allocate(x)))
           entries == {new(k) : k \in EntryKinds}
<1>1. books' = books \cup entries
  BY DEF SettleAndReverse, Post
<1>2. \A k : new(k).payment = p /\ new(k).kind = k
  BY DEF Entry
<1> HIDE DEF new
<1>3. (\E e \in entries : e.payment = q /\ e.kind = kind) <=> q = p
  BY <1>2
<1> HIDE DEF entries
<1> QED
  BY <1>1, <1>3, BookedAfter

LEMMA ReverseBooks ==
    ASSUME NEW p, Reverse(p), Booked(p, "received"), NEW q, NEW kind
    PROVE  Booked(q, kind)' <=>
               Booked(q, kind) \/ (q = p /\ kind = "reversed")
<1>1. books' = books \cup Mirror(p)
  BY DEF Reverse, Post
<1>2. \A e \in Mirror(p) : e.payment = p /\ e.kind = "reversed"
  BY DEF Mirror, Entry
<1>3. Mirror(p) # {}
  BY DEF Mirror, Booked
<1>4. (\E e \in Mirror(p) : e.payment = q /\ e.kind = kind)
          <=> (q = p /\ kind = "reversed")
  BY <1>2, <1>3
<1> QED
  BY <1>1, <1>4, BookedAfter

\* The books follow the payment a verdict is enacted on.
LEMMA EnactBooks ==
    ASSUME TypeOK, BooksMatchPayments, NEW p \in Known, EnactStep(p)
    PROVE  BooksMatchPayments'
<1>0. p \in Payments
  BY DEF Known
<1>1. PICK rep \in Told, v \in Verdicts :
          Allows(status[p], rep, v) /\ Enact(p, rep, v)
  BY DEF EnactStep, Enacts
<1>2. status' = [status EXCEPT ![p] = StatusAfter(status[p], v)]
  BY <1>0, <1>1, EnactEffect
<1> SUFFICES ASSUME NEW q \in Payments
             PROVE  /\ Booked(q, "received")' <=> status'[q] \in Settled
                    /\ Booked(q, "reversed")' <=> status'[q] = "REVERSED"
  BY DEF BooksMatchPayments
<1>3. /\ Booked(q, "received") <=> status[q] \in Settled
      /\ Booked(q, "reversed") <=> status[q] = "REVERSED"
  BY DEF BooksMatchPayments
<1>4. status'[q] = IF q = p THEN StatusAfter(status[p], v) ELSE status[q]
  BY <1>0, <1>2 DEF TypeOK
<1>5. CASE v = "pay"
  <2>1. Settle(p, amount[p]) /\ status[p] # "REVERSED"
    BY <1>1, <1>5 DEF Enact, Allows, Open
  <2>2. StatusAfter(status[p], v) = "SUCCESS"
    BY <1>5 DEF StatusAfter
  <2> QED
    BY <1>3, <1>4, <2>1, <2>2, SettleBooks DEF Settled
<1>6. CASE v = "payAndReverse"
  <2>1. SettleAndReverse(p, amount[p])
    BY <1>1, <1>6 DEF Enact
  <2>2. StatusAfter(status[p], v) = "REVERSED"
    BY <1>6 DEF StatusAfter
  <2> QED
    BY <1>3, <1>4, <2>1, <2>2, SettleAndReverseBooks DEF Settled, EntryKinds
<1>7. CASE v = "reverse"
  <2>1. Reverse(p) /\ status[p] = "SUCCESS"
    BY <1>1, <1>7 DEF Enact, Allows
  <2>2. Booked(p, "received")
    BY <1>0, <2>1 DEF BooksMatchPayments, Settled
  <2>3. StatusAfter(status[p], v) = "REVERSED"
    BY <1>7 DEF StatusAfter
  <2> QED
    BY <1>3, <1>4, <2>1, <2>2, <2>3, ReverseBooks DEF Settled
<1>8. CASE v \notin {"pay", "payAndReverse", "reverse"}
  <2>1. books' = books
    BY <1>1, <1>8 DEF Enact, MoneyStays, moneyVars
  <2>2. /\ StatusAfter(status[p], v) \in Settled <=> status[p] \in Settled
        /\ StatusAfter(status[p], v) = "REVERSED" <=> status[p] = "REVERSED"
    BY <1>1, <1>8 DEF StatusAfter, Allows, Settled, Open
  <2> QED
    BY <1>3, <1>4, <2>1, <2>2 DEF Booked
<1> QED
  BY <1>5, <1>6, <1>7, <1>8

LEMMA StepBooks ==
    ASSUME TypeOK, BooksMatchPayments, Step
    PROVE  BooksMatchPayments'
<1>1. CASE UNCHANGED <<payVars, moneyVars>>
  BY <1>1 DEF payVars, moneyVars, BooksMatchPayments, Booked
<1>2. ASSUME NEW p \in Payments, Initiate(p) PROVE BooksMatchPayments'
  <2>1. /\ books' = books /\ status[p] = "NONE"
        /\ status' = [status EXCEPT ![p] = "INITIATED"]
    BY <1>2 DEF Initiate, moneyVars
  <2> QED
    BY <2>1 DEF BooksMatchPayments, Booked, Settled, TypeOK
<1>3. ASSUME NEW p \in Known, SetStep(p) PROVE BooksMatchPayments'
  <2>1. /\ books' = books /\ status[p] \notin Settled
        /\ \E s \in {"FAILED", "REQUIRES_REVIEW"} : status' = [status EXCEPT ![p] = s]
    BY <1>3 DEF SetStep, Sets, MoneyStays, moneyVars, Settled
  <2> QED
    BY <2>1 DEF BooksMatchPayments, Booked, Settled, TypeOK, Known
<1>4. ASSUME NEW i \in Instalments, LateCharge(i) PROVE BooksMatchPayments'
  BY <1>4 DEF LateCharge, AssessCharge, payVars, BooksMatchPayments, Booked
<1> QED
  BY <1>1, <1>2, <1>3, <1>4, EnactBooks DEF Step

\* At every commit the ledger holds of each payment what its status says.
THEOREM BooksFollowPayments == Spec => []BooksMatchPayments
<1>1. Init => BooksMatchPayments
  BY DEF Init, AccountInit, BooksMatchPayments, Booked, Settled
<1>2. TypeOK /\ KnownOnly /\ BooksMatchPayments /\ [Next]_vars => BooksMatchPayments'
  <2>1. CASE UNCHANGED vars
    BY <2>1 DEF vars, dbVars, payVars, moneyVars, BooksMatchPayments, Booked
  <2> QED
    BY <2>1, StepCases, StepBooks
<1> QED
  BY <1>1, <1>2, TypeCorrect, PTL DEF Spec
-----------------------------------------------------------------------------
(* The account.                                                            *)

AmountsSet == \A p \in Known : amount[p] \in Amounts

LEMMA AmountsStay ==
    ASSUME TypeOK, AmountsSet, Step
    PROVE  AmountsSet'
<1>1. CASE UNCHANGED <<payVars, moneyVars>>
  BY <1>1 DEF payVars, AmountsSet, Known
<1>2. ASSUME NEW p \in Payments, Initiate(p) PROVE AmountsSet'
  <2>1. PICK x \in Amounts : amount' = [amount EXCEPT ![p] = x]
    BY <1>2 DEF Initiate
  <2> QED
    BY <1>2, <2>1 DEF Initiate, AmountsSet, Known, TypeOK
<1>3. ASSUME NEW p \in Known, SetStep(p) PROVE AmountsSet'
  BY <1>3 DEF SetStep, Sets, AmountsSet, Known, TypeOK
<1>4. ASSUME NEW p \in Known, EnactStep(p) PROVE AmountsSet'
  <2>1. amount' = amount /\ \E s : status' = [status EXCEPT ![p] = s]
    BY <1>4 DEF EnactStep, Enacts, Enact
  <2> QED
    BY <2>1 DEF AmountsSet, Known, TypeOK
<1>5. ASSUME NEW i \in Instalments, LateCharge(i) PROVE AmountsSet'
  BY <1>5 DEF LateCharge, payVars, AmountsSet, Known
<1> QED
  BY <1>1, <1>2, <1>3, <1>4, <1>5 DEF Step

LEMMA StepOfAccount ==
    ASSUME AmountsSet, BooksMatchPayments, Step
    PROVE  [AccountNext]_moneyVars
<1>1. CASE UNCHANGED <<payVars, moneyVars>>
  BY <1>1
<1>2. ASSUME NEW p \in Payments, Initiate(p) PROVE UNCHANGED moneyVars
  BY <1>2 DEF Initiate
<1>3. ASSUME NEW p \in Known, SetStep(p) PROVE UNCHANGED moneyVars
  BY <1>3 DEF SetStep, Sets, MoneyStays
<1>4. ASSUME NEW p \in Known, EnactStep(p) PROVE [AccountNext]_moneyVars
  <2>0. /\ p \in Payments /\ amount[p] \in Amounts
        /\ Booked(p, "received") <=> status[p] \in Settled
        /\ Booked(p, "reversed") <=> status[p] = "REVERSED"
    BY DEF Known, AmountsSet, BooksMatchPayments
  <2>1. PICK rep \in Told, v \in Verdicts :
            Allows(status[p], rep, v) /\ Enact(p, rep, v)
    BY <1>4 DEF EnactStep, Enacts
  <2>2. CASE v \in {"pay", "payAndReverse"}
    <3>1. ~Booked(p, "received")
      BY <2>0, <2>1, <2>2 DEF Allows, Open, Settled
    <3>2. Settle(p, amount[p]) \/ SettleAndReverse(p, amount[p])
      BY <2>1, <2>2 DEF Enact
    <3> QED
      BY <2>0, <3>1, <3>2 DEF AccountNext
  <2>3. CASE v = "reverse"
    BY <2>0, <2>1, <2>3 DEF Allows, Enact, Settled, AccountNext
  <2>4. CASE v \notin {"pay", "payAndReverse", "reverse"}
    BY <2>1, <2>4 DEF Enact, MoneyStays
  <2> QED
    BY <2>2, <2>3, <2>4
<1>5. ASSUME NEW i \in Instalments, LateCharge(i) PROVE AccountNext
  BY <1>5 DEF LateCharge, AccountNext
<1> QED
  BY <1>1, <1>2, <1>3, <1>4, <1>5 DEF Step

\* Repayment implements LoanAccount: however calls, retries, webhooks and
\* rechecks interleave, each payment is received at most once and returned
\* at most once, with rows, allocations and postings together.
THEOREM AccountImplemented == Spec => ReceivedAndReturnedOnce
<1> DEFINE Inv == TypeOK /\ KnownOnly /\ BooksMatchPayments
<1>1. Init => AccountInit /\ AmountsSet
  BY DEF Init, AmountsSet, Known
<1>2. Inv /\ AmountsSet /\ [Next]_vars => AmountsSet'
  <2>1. CASE UNCHANGED vars
    BY <2>1 DEF vars, dbVars, payVars, AmountsSet, Known
  <2> QED
    BY <2>1, StepCases, AmountsStay
<1>3. Inv /\ AmountsSet /\ [Next]_vars => [AccountNext]_moneyVars
  <2>1. CASE UNCHANGED vars
    BY <2>1 DEF vars, dbVars
  <2> QED
    BY <2>1, StepCases, StepOfAccount
<1>4. Spec => []Inv
  BY TypeCorrect, BooksFollowPayments, PTL
<1> QED
  BY <1>1, <1>2, <1>3, <1>4, PTL DEF Spec, ReceivedAndReturnedOnce, AccountSpec
-----------------------------------------------------------------------------
(* Credit only for money, when reports are true.  A true report may be old *)
(* by then; what it says of money that came in stays true.                 *)

Truthful(p, rep) ==
    /\ rep.ref \in {NoRef, p}
    /\ rep.status = "SUCCESS" => collection[p] \in Settled
    /\ rep.status = "REVERSED" => collection[p] = "REVERSED"

OwnRefs == \A p \in Payments : ref[p] \in {NoRef, p}

TrueEvents ==
    \A p \in Payments, s \in Reportable :
        <<p, s>> \in reported => Truthful(p, [status |-> s, ref |-> p, amountOk |-> TRUE])

TrueAnswers ==
    \A c \in Callers : call[c] # Idle => Truthful(call[c].payment, call[c].answer)

Credit == OwnRefs /\ CreditOnlyForMoney

\* The provider keeps the money it took, or gives it back.
LEMMA MoneyTaken ==
    ASSUME TypeOK, NEW q \in Payments, NEW s \in Reportable \cup {"REFUSED"},
           Becomes(q, s), collection[q] = "SENT" \/ <<collection[q], s>> \in ProviderMoves,
           NEW p \in Payments
    PROVE  /\ collection[p] \in Settled => collection'[p] \in Settled
           /\ collection[p] = "REVERSED" => collection'[p] = "REVERSED"
           /\ collection'[q] = s
BY DEF TypeOK, Becomes, ProviderMoves, Settled

LEMMA CollectionKept ==
    ASSUME TypeOK, Next, NEW p \in Payments
    PROVE  /\ collection[p] \in Settled => collection'[p] \in Settled
           /\ collection[p] = "REVERSED" => collection'[p] = "REVERSED"
<1>1. ASSUME NEW q \in Payments, Land(q) \/ ProviderDecides(q)
      PROVE  \E s \in Reportable \cup {"REFUSED"} :
                /\ Becomes(q, s)
                /\ collection[q] = "SENT" \/ <<collection[q], s>> \in ProviderMoves
  BY <1>1 DEF Land, ProviderDecides, Reportable
<1>2. ASSUME NEW q \in Payments, NEW c \in Callers, Dispatch(c, q)
      PROVE  collection' = [collection EXCEPT ![q] =
                               IF @ = "ABSENT" THEN "SENT" ELSE @]
  BY <1>2 DEF Dispatch
<1>3. CASE \E q \in Payments : Land(q) \/ ProviderDecides(q)
  BY <1>1, <1>3, MoneyTaken
<1>4. CASE \E q \in Payments, c \in Callers : Dispatch(c, q)
  BY <1>2, <1>4 DEF TypeOK, Settled
<1>5. CASE collection' = collection
  BY <1>5
<1> QED
  BY <1>3, <1>4, <1>5
  DEF Next, Initiate, Age, Webhook, ReportedEvent, StrayEvent, Poll, Recheck,
      Respond, Finish, GiveUp, LateCharge, providerVars

LEMMA EnactCredit ==
    ASSUME TypeOK, Credit, NEW p \in Known, NEW rep \in Told, Truthful(p, rep),
           Enacts(p, rep), UNCHANGED collection
    PROVE  Credit'
<1>0. p \in Payments
  BY DEF Known
<1>1. PICK v \in Verdicts : Allows(status[p], rep, v) /\ Enact(p, rep, v)
  BY DEF Enacts
<1>2. /\ status' = [status EXCEPT ![p] = StatusAfter(status[p], v)]
      /\ ref' = [ref EXCEPT ![p] = RefAfter(p, rep)]
  BY <1>0, <1>1, EnactEffect
<1>3. RefAfter(p, rep) \in {NoRef, p}
  BY <1>0 DEF RefAfter, Credit, OwnRefs, Truthful
<1>4. /\ StatusAfter(status[p], v) = "SUCCESS" =>
            status[p] = "SUCCESS" \/ collection[p] \in Settled
      /\ StatusAfter(status[p], v) = "REVERSED" =>
            status[p] = "REVERSED" \/ collection[p] = "REVERSED"
  BY <1>1 DEF StatusAfter, Allows, Truthful
<1> QED
  BY <1>0, <1>2, <1>3, <1>4 DEF Credit, OwnRefs, CreditOnlyForMoney, TypeOK

\* The payments stay within what the collections allow.
LEMMA CreditKept ==
    ASSUME "misreport" \notin Quirks, TypeOK, KnownOnly, Credit, TrueEvents,
           TrueAnswers, Next
    PROVE  Credit'
<1>1. ASSUME UNCHANGED <<status, ref>> PROVE Credit'
  <2>1. \A p \in Payments :
            /\ collection[p] \in Settled => collection'[p] \in Settled
            /\ collection[p] = "REVERSED" => collection'[p] = "REVERSED"
    BY CollectionKept
  <2> QED
    BY <1>1, <2>1 DEF Credit, OwnRefs, CreditOnlyForMoney
<1>2. ASSUME NEW p \in Payments, Initiate(p) PROVE Credit'
  BY <1>2 DEF Initiate, providerVars, Credit, OwnRefs, CreditOnlyForMoney, TypeOK
<1>3. ASSUME NEW p \in Payments, NEW s \in Reportable, ReportedEvent(p, s) PROVE Credit'
  <2> DEFINE rep == [status |-> s, ref |-> p, amountOk |-> TRUE]
  <2>1. p \in Known /\ Truthful(p, rep)
    BY <1>3 DEF ReportedEvent, KnownOnly, TrueEvents
  <2>2. Addressee(p, p) = p
    <3>1. \A q \in Known : ref[q] = p => q = p
      BY AccountAssumption DEF Credit, OwnRefs, Known, Payments, NoRef
    <3> QED
      BY <3>1 DEF Addressee
  <2>3. rep \in Told
    BY AccountAssumption DEF Told, Report, Refs, Payments
  <2>4. Enact(p, rep, Verdict(p, rep, FALSE)) /\ UNCHANGED collection
    BY <1>3, <2>2 DEF ReportedEvent, providerVars
  <2> QED
    BY <2>1, <2>3, <2>4, VerdictEnacted, EnactCredit
<1>4. ASSUME NEW c \in Callers, Finish(c) PROVE Credit'
  <2> DEFINE p == call[c].payment
  <2>0. UNCHANGED collection /\ call[c] # Idle
    BY <1>4 DEF Finish, providerVars
  <2>1. CASE UNCHANGED <<payVars, moneyVars>>
    BY <1>1, <2>1 DEF payVars
  <2>2. CASE p \in Known /\ SetStep(p)
    BY <2>0, <2>2
    DEF SetStep, Sets, Credit, OwnRefs, CreditOnlyForMoney, TypeOK, Known
  <2>3. CASE p \in Known /\ \E rep \in Answers(c) \cup {Plain("FAILED")} : Enacts(p, rep)
    <3>1. PICK rep \in Answers(c) \cup {Plain("FAILED")} : Enacts(p, rep)
      BY <2>3
    <3>2. rep \in Told
      BY <2>0, <3>1, AnswersType DEF Told
    <3>3. rep \in {call[c].answer, Nothing, Plain("FAILED")}
      BY <3>1 DEF Answers
    <3>4. Truthful(p, Nothing) /\ Truthful(p, Plain("FAILED"))
      BY DEF Truthful, Nothing, Plain
    <3>5. Truthful(p, call[c].answer)
      BY <2>0 DEF TrueAnswers
    <3> QED
      BY <2>0, <2>3, <3>1, <3>2, <3>3, <3>4, <3>5, EnactCredit
  <2> QED
    BY <1>4, <2>1, <2>2, <2>3, FinishCases
<1> QED
  BY <1>1, <1>2, <1>3, <1>4
  DEF Next, Age, Land, ProviderDecides, Webhook, StrayEvent, Dispatch, Poll, Recheck,
      Ask, Respond, GiveUp, LateCharge, dbVars, payVars

\* A report that is true stays true.
LEMMA TrueLater ==
    ASSUME TypeOK, Next, NEW p \in Payments, NEW rep, Truthful(p, rep)
    PROVE  /\ rep.ref \in {NoRef, p}
           /\ rep.status = "SUCCESS" => collection'[p] \in Settled
           /\ rep.status = "REVERSED" => collection'[p] = "REVERSED"
BY CollectionKept DEF Truthful

LEMMA TrueEventsKept ==
    ASSUME TypeOK, TrueEvents, Next
    PROVE  TrueEvents'
<1> SUFFICES ASSUME NEW p \in Payments, NEW s \in Reportable, <<p, s>> \in reported'
             PROVE  /\ s = "SUCCESS" => collection'[p] \in Settled
                    /\ s = "REVERSED" => collection'[p] = "REVERSED"
  BY DEF TrueEvents, Truthful
<1>1. CASE <<p, s>> \in reported
  <2>1. /\ s = "SUCCESS" => collection[p] \in Settled
        /\ s = "REVERSED" => collection[p] = "REVERSED"
    BY <1>1 DEF TrueEvents, Truthful
  <2> QED
    BY <2>1, CollectionKept
<1>2. CASE <<p, s>> \notin reported
  <2>1. PICK q \in Payments : Land(q) \/ ProviderDecides(q)
    BY <1>2 DEF Next, Initiate, Age, Webhook, ReportedEvent, StrayEvent, Dispatch,
                Poll, Recheck, Ask, Respond, Finish, GiveUp, LateCharge, providerVars
  <2>2. PICK r : Becomes(q, r)
    BY <2>1 DEF Land, ProviderDecides
  <2>3. p = q /\ s = r
    BY <1>2, <2>2 DEF Becomes
  <2>4. collection'[p] = s
    BY <2>2, <2>3 DEF Becomes, TypeOK
  <2> QED
    BY <2>4 DEF Settled
<1> QED
  BY <1>1, <1>2

LEMMA RespondTrue ==
    ASSUME TypeOK, NEW c \in Callers, Respond(c)
    PROVE  \E a : /\ Truthful(call[c].payment, a)
                  /\ call' = [call EXCEPT ![c].answer = a]
<1> DEFINE p == call[c].payment
<1>1. PICK a \in CreateAnswers(p) \cup LookupAnswers(p) :
          call' = [call EXCEPT ![c].answer = a]
  BY DEF Respond
<1>2. \A r \in {NoRef, p} :
          Truthful(p, [status |-> collection[p], ref |-> r, amountOk |-> TRUE])
  BY DEF Truthful, Settled
<1>3. Truthful(p, Rejected) /\ Truthful(p, NotFound)
  BY DEF Truthful, Rejected, NotFound, Plain
<1>4. Truthful(p, a)
  BY <1>1, <1>2, <1>3 DEF CreateAnswers, LookupAnswers
<1> QED
  BY <1>1, <1>4

LEMMA TrueAnswersKept ==
    ASSUME TypeOK, TrueAnswers, Next
    PROVE  TrueAnswers'
<1> SUFFICES ASSUME NEW d \in Callers, call'[d] # Idle
             PROVE  LET p == call'[d].payment
                        a == call'[d].answer
                    IN  /\ a.ref \in {NoRef, p}
                        /\ a.status = "SUCCESS" => collection'[p] \in Settled
                        /\ a.status = "REVERSED" => collection'[p] = "REVERSED"
  BY DEF TrueAnswers, Truthful
<1>1. CASE call'[d] = call[d]
  <2>1. Truthful(call[d].payment, call[d].answer) /\ call[d].payment \in Payments
    BY <1>1 DEF TrueAnswers, TypeOK, Call
  <2> QED
    BY <1>1, <2>1, TrueLater
<1>2. ASSUME NEW c \in Callers, NEW kind, NEW p \in Payments, Ask(c, kind, p),
             call'[d] # call[d]
      PROVE  call'[d].answer = Nothing
  BY <1>2 DEF Ask, TypeOK
<1>3. CASE call'[d].answer = Nothing
  BY <1>3 DEF Nothing, Plain
<1>4. ASSUME NEW c \in Callers, Respond(c), call'[d] # call[d]
      PROVE  \E a : /\ Truthful(call[d].payment, a) /\ call[d].payment \in Payments
                    /\ call'[d].answer = a /\ call'[d].payment = call[d].payment
  <2>1. c = d
    BY <1>4 DEF Respond, TypeOK
  <2>2. call[d] \in Call
    BY <1>4, <2>1 DEF Respond, TypeOK
  <2> QED
    BY <1>4, <2>1, <2>2, RespondTrue DEF TypeOK, Call
<1>5. CASE \E c \in Callers : Respond(c) /\ call'[d] # call[d]
  BY <1>4, <1>5, TrueLater
<1>6. ASSUME NEW c \in Callers, Finish(c) \/ GiveUp(c) PROVE call'[d] = call[d]
  BY <1>6 DEF Finish, GiveUp, TypeOK
<1>7. CASE call'[d] # call[d] /\ \E c \in Callers, p \in Payments :
              Dispatch(c, p) \/ Poll(c, p) \/ Recheck(c, p)
  BY <1>2, <1>3, <1>7 DEF Dispatch, Poll, Recheck
<1> QED
  BY <1>1, <1>5, <1>6, <1>7
  DEF Next, Initiate, Age, Land, ProviderDecides, Webhook, ReportedEvent, StrayEvent,
      LateCharge

\* Unless the provider misreports, no timeout, retry, stale answer or reordered
\* event credits a payment for which no money came in, or takes off one whose
\* money was not returned; not even when a failed collection is paid later.
THEOREM CreditedForMoneyOnly ==
    ASSUME "misreport" \notin Quirks
    PROVE  Spec => []CreditOnlyForMoney
<1> DEFINE Inv == Credit /\ TrueEvents /\ TrueAnswers
<1>1. Init => Inv
  BY DEF Init, Credit, OwnRefs, CreditOnlyForMoney, TrueEvents, TrueAnswers
<1>2. TypeOK /\ KnownOnly /\ Inv /\ [Next]_vars => Inv'
  <2>1. CASE UNCHANGED vars
    BY <2>1 DEF vars, dbVars, payVars, providerVars, Credit, OwnRefs,
                CreditOnlyForMoney, TrueEvents, TrueAnswers, Truthful
  <2> QED
    BY <2>1, CreditKept, TrueEventsKept, TrueAnswersKept
<1>3. Inv => CreditOnlyForMoney
  BY DEF Credit
<1> QED
  BY <1>1, <1>2, <1>3, TypeCorrect, PTL DEF Spec
=============================================================================
