--------------------------- MODULE AccountsProofs ---------------------------
(***************************************************************************)
(* Theorems about what is computed and booked for one loan, for any        *)
(* prices, scores, rules, payments and instalments.                        *)
(***************************************************************************)
EXTENDS LoanAccount, Pricing, LateCharges, RiskAssessment, Policy, SetLemmas

\* What the library's Min and Max say of two numbers, and of a set that has one.
LEMMA MinOfTwo ==
    ASSUME NEW a \in Int, NEW b \in Int
    PROVE  Min({a, b}) = IF a <= b THEN a ELSE b
<1> DEFINE m == IF a <= b THEN a ELSE b
<1>1. m \in {a, b} /\ \A y \in {a, b} : m <= y
  OBVIOUS
<1>2. Min({a, b}) \in {a, b} /\ \A y \in {a, b} : Min({a, b}) <= y
  <2> HIDE DEF m
  <2> QED
    BY <1>1 DEF Min
<1> QED
  BY <1>2

LEMMA MaxOfTwo ==
    ASSUME NEW a \in Int, NEW b \in Int
    PROVE  Max({a, b}) = IF a >= b THEN a ELSE b
<1> DEFINE m == IF a >= b THEN a ELSE b
<1>1. m \in {a, b} /\ \A y \in {a, b} : m >= y
  OBVIOUS
<1>2. Max({a, b}) \in {a, b} /\ \A y \in {a, b} : Max({a, b}) >= y
  <2> HIDE DEF m
  <2> QED
    BY <1>1 DEF Max
<1> QED
  BY <1>2

LEMMA MaxUpTo ==
    ASSUME NEW n \in Nat, NEW S \in SUBSET (0 .. n), S # {}
    PROVE  Max(S) \in S /\ \A y \in S : Max(S) >= y
<1> DEFINE T == {n - y : y \in S}
<1>1. T \in SUBSET Nat /\ T # {}
  <2>1. \A y \in S : n - y \in Nat
    OBVIOUS
  <2>2. PICK y \in S : TRUE
    OBVIOUS
  <2>3. n - y \in T
    BY <2>2
  <2> QED
    BY <2>1, <2>3
<1>2. PICK k \in T : \A m \in T : k <= m
  BY <1>1, LeastNatural
<1>3. PICK x \in S : k = n - x
  BY <1>2
<1>4. \A y \in S : x >= y
  <2> TAKE y \in S
  <2>1. n - x <= n - y
    BY <1>2, <1>3
  <2> QED
    BY <2>1
<1> QED
  BY <1>4 DEF Max

-----------------------------------------------------------------------------
(* Risk.                                                                   *)

\* No threshold crosses another: more of what is bad is never fewer points.
LEMMA PointsGrow ==
    /\ \A s, x \in Nat : x < s => CreditPoints(x) >= CreditPoints(s)
    /\ \A n, m \in Nat : m > n => DelinquencyPoints(m) >= DelinquencyPoints(n)
    /\ \A n, m \in Nat : m > n => InquiryPoints(m) >= InquiryPoints(n)
    /\ \A p, o \in Nat : o > p => /\ ObligationPoints(o) >= ObligationPoints(p)
                                  /\ DisposablePoints(o) >= DisposablePoints(p)
<1>1. \A s, x \in Nat : x < s => CreditPoints(x) >= CreditPoints(s)
  BY DEF CreditPoints, Missing
<1>2. \A n, m \in Nat : m > n => DelinquencyPoints(m) >= DelinquencyPoints(n)
  BY DEF DelinquencyPoints, Missing
<1>3. \A n, m \in Nat : m > n => InquiryPoints(m) >= InquiryPoints(n)
  BY DEF InquiryPoints, Missing
<1>4. \A p, o \in Nat : o > p => /\ ObligationPoints(o) >= ObligationPoints(p)
                                 /\ DisposablePoints(o) >= DisposablePoints(p)
  BY DEF ObligationPoints, DisposablePoints, Missing
<1> QED
  BY <1>1, <1>2, <1>3, <1>4

LEMMA PointsTyped ==
    ASSUME NEW x
    PROVE  /\ CreditPoints(x) \in Nat /\ DelinquencyPoints(x) \in Nat
           /\ InquiryPoints(x) \in Nat /\ FraudPoints(x) \in Nat
           /\ ObligationPoints(x) \in Nat /\ DisposablePoints(x) \in Nat
BY DEF CreditPoints, DelinquencyPoints, InquiryPoints, FraudPoints, ObligationPoints,
       DisposablePoints

\* The sum of the points, before the cap.
Points(in) ==
    CreditPoints(in.score) + DelinquencyPoints(in.delinquent)
        + InquiryPoints(in.inquiries) + FraudPoints(in.level)
        + ObligationPoints(in.burden) + DisposablePoints(in.burden)

LEMMA MorePointsMoreScore ==
    ASSUME NEW in, NEW on, Points(on) >= Points(in),
           in.level \in Levels, on.level \in Levels
    PROVE  /\ Score(on) >= Score(in)
           /\ Action(in) = "MANUAL_REVIEW" => Action(on) = "MANUAL_REVIEW"
<1>1. Points(in) \in Nat /\ Points(on) \in Nat
  BY PointsTyped DEF Points
<1>2. /\ Score(in) = IF MaxScore <= Points(in) THEN MaxScore ELSE Points(in)
      /\ Score(on) = IF MaxScore <= Points(on) THEN MaxScore ELSE Points(on)
  BY <1>1, MinOfTwo DEF Score, Points, MaxScore
<1>3. Score(on) >= Score(in) /\ Score(in) \in Nat /\ Score(on) \in Nat
  BY <1>1, <1>2 DEF MaxScore
<1>4. Band(Score(in)) = "HIGH" => Band(Score(on)) = "HIGH"
  BY <1>3 DEF Band
<1> QED
  BY <1>3, <1>4 DEF Action, HighFlags

LEMMA WorseIsMore ==
    ASSUME NEW a \in Applicants, NEW b \in Worse(a)
    PROVE  /\ b \in Applicants
           /\ Score(Known(b)) >= Score(Known(a))
           /\ Action(Known(a)) = "MANUAL_REVIEW" => Action(Known(b)) = "MANUAL_REVIEW"
<1>0. /\ a.report \in Report /\ a.level \in Levels /\ a.burden \in Burdens
      /\ a = [report |-> a.report, level |-> a.level, burden |-> a.burden]
      /\ a.report.score \in Scores /\ a.report.delinquent \in Delinquencies
      /\ a.report.inquiries \in Inquiries
  BY DEF Applicants, Report
<1>n. \A x \in Scores \cup Delinquencies \cup Inquiries \cup Burdens : x \in Nat
  BY RiskAssumption
<1>k. \A x : Points(Known(x)) =
            CreditPoints(x.report.score) + DelinquencyPoints(x.report.delinquent)
              + InquiryPoints(x.report.inquiries) + FraudPoints(x.level)
              + ObligationPoints(x.burden) + DisposablePoints(x.burden)
  BY DEF Points, Known
<1>l. \A x : Known(x).level = x.level
  BY DEF Known
<1>1. CASE \E s \in Scores : s < a.report.score /\ b = [a EXCEPT !.report.score = s]
  <2>1. PICK s \in Scores : s < a.report.score /\ b = [a EXCEPT !.report.score = s]
    BY <1>1
  <2>2. /\ b \in Applicants /\ b.report.score = s
        /\ b.report.delinquent = a.report.delinquent
        /\ b.report.inquiries = a.report.inquiries
        /\ b.burden = a.burden
        /\ b.level = a.level
    BY <1>0, <2>1 DEF Applicants, Report
  <2>3. CreditPoints(b.report.score) >= CreditPoints(a.report.score)
    BY <1>0, <1>n, <2>1, <2>2, PointsGrow
  <2>4. Points(Known(b)) >= Points(Known(a))
    BY <1>k, <2>2, <2>3, PointsTyped
  <2> QED
    BY <1>0, <1>l, <2>2, <2>4, MorePointsMoreScore
<1>2. CASE \E n \in Delinquencies : n > a.report.delinquent /\ b = [a EXCEPT !.report.delinquent = n]
  <2>1. PICK n \in Delinquencies : n > a.report.delinquent /\ b = [a EXCEPT !.report.delinquent = n]
    BY <1>2
  <2>2. /\ b \in Applicants /\ b.report.delinquent = n
        /\ b.report.score = a.report.score
        /\ b.report.inquiries = a.report.inquiries
        /\ b.burden = a.burden
        /\ b.level = a.level
    BY <1>0, <2>1 DEF Applicants, Report
  <2>3. DelinquencyPoints(b.report.delinquent) >= DelinquencyPoints(a.report.delinquent)
    BY <1>0, <1>n, <2>1, <2>2, PointsGrow
  <2>4. Points(Known(b)) >= Points(Known(a))
    BY <1>k, <2>2, <2>3, PointsTyped
  <2> QED
    BY <1>0, <1>l, <2>2, <2>4, MorePointsMoreScore
<1>3. CASE \E n \in Inquiries : n > a.report.inquiries /\ b = [a EXCEPT !.report.inquiries = n]
  <2>1. PICK n \in Inquiries : n > a.report.inquiries /\ b = [a EXCEPT !.report.inquiries = n]
    BY <1>3
  <2>2. /\ b \in Applicants /\ b.report.inquiries = n
        /\ b.report.score = a.report.score
        /\ b.report.delinquent = a.report.delinquent
        /\ b.burden = a.burden
        /\ b.level = a.level
    BY <1>0, <2>1 DEF Applicants, Report
  <2>3. InquiryPoints(b.report.inquiries) >= InquiryPoints(a.report.inquiries)
    BY <1>0, <1>n, <2>1, <2>2, PointsGrow
  <2>4. Points(Known(b)) >= Points(Known(a))
    BY <1>k, <2>2, <2>3, PointsTyped
  <2> QED
    BY <1>0, <1>l, <2>2, <2>4, MorePointsMoreScore
<1>4. CASE \E p \in Burdens : p > a.burden /\ b = [a EXCEPT !.burden = p]
  <2>1. PICK p \in Burdens : p > a.burden /\ b = [a EXCEPT !.burden = p]
    BY <1>4
  <2>2. /\ b \in Applicants /\ b.burden = p
        /\ b.report.score = a.report.score
        /\ b.report.delinquent = a.report.delinquent
        /\ b.report.inquiries = a.report.inquiries
        /\ b.level = a.level
    BY <1>0, <2>1 DEF Applicants, Report
  <2>3. /\ ObligationPoints(b.burden) >= ObligationPoints(a.burden)
        /\ DisposablePoints(b.burden) >= DisposablePoints(a.burden)
    BY <1>0, <1>n, <2>1, <2>2, PointsGrow
  <2>4. Points(Known(b)) >= Points(Known(a))
    BY <1>k, <2>2, <2>3, PointsTyped
  <2> QED
    BY <1>0, <1>l, <2>2, <2>4, MorePointsMoreScore
<1>5. CASE \E l \in Levels : FraudPoints(l) >= FraudPoints(a.level) /\ b = [a EXCEPT !.level = l]
  <2>1. PICK l \in Levels : FraudPoints(l) >= FraudPoints(a.level) /\ b = [a EXCEPT !.level = l]
    BY <1>5
  <2>2. /\ b \in Applicants /\ b.level = l
        /\ b.report.score = a.report.score
        /\ b.report.delinquent = a.report.delinquent
        /\ b.report.inquiries = a.report.inquiries
        /\ b.burden = a.burden
    BY <1>0, <2>1 DEF Applicants, Report
  <2>3. FraudPoints(b.level) >= FraudPoints(a.level)
    BY <2>1, <2>2, Zenon
  <2>4. Points(Known(b)) >= Points(Known(a))
    BY <1>k, <2>2, <2>3, PointsTyped
  <2> QED
    BY <1>0, <1>l, <2>2, <2>4, MorePointsMoreScore
<1>6. ASSUME NEW l \in IF a.level = "LOW" THEN {"UNKNOWN", "MEDIUM", "HIGH"}
                       ELSE IF a.level = "UNKNOWN" THEN {"MEDIUM", "HIGH"}
                       ELSE IF a.level = "MEDIUM" THEN {"HIGH"}
                       ELSE {}
      PROVE  l \in Levels /\ FraudPoints(l) >= FraudPoints(a.level)
  BY DEF Levels, FraudPoints
<1>7. \/ \E s \in Scores : s < a.report.score /\ b = [a EXCEPT !.report.score = s]
      \/ \E n \in Delinquencies : n > a.report.delinquent
                                  /\ b = [a EXCEPT !.report.delinquent = n]
      \/ \E n \in Inquiries : n > a.report.inquiries /\ b = [a EXCEPT !.report.inquiries = n]
      \/ \E p \in Burdens : p > a.burden /\ b = [a EXCEPT !.burden = p]
      \/ \E l \in IF a.level = "LOW" THEN {"UNKNOWN", "MEDIUM", "HIGH"}
                   ELSE IF a.level = "UNKNOWN" THEN {"MEDIUM", "HIGH"}
                   ELSE IF a.level = "MEDIUM" THEN {"HIGH"}
                   ELSE {} : b = [a EXCEPT !.level = l]
  BY Zenon DEF Worse
<1> QED
  BY <1>1, <1>2, <1>3, <1>4, <1>5, <1>6, <1>7, Zenon

\* The assessment leaves the applicant alone, and nothing else moves but for the
\* worse: no step loses points, or gives up the review (RiskAssessment's
\* thresholds, bands and cap, risk_engine.py).
THEOREM NeverLenient == RiskSpec => NeverMoreLenient
<1> DEFINE T == applicant \in Applicants
           Kept == /\ Score(Known(applicant')) >= Score(Known(applicant))
                   /\ Action(Known(applicant)) = "MANUAL_REVIEW"
                        => Action(Known(applicant')) = "MANUAL_REVIEW"
<1>1. RiskInit => T
  BY DEF RiskInit
<1>2. T /\ [RiskNext]_riskVars => T' /\ Kept
  <2> SUFFICES ASSUME T, [RiskNext]_riskVars PROVE T' /\ Kept
    OBVIOUS
  <2>0. \A x \in Nat : x >= x
    OBVIOUS
  <2>1. Points(Known(applicant)) >= Points(Known(applicant))
    BY PointsTyped DEF Points
  <2>2. Known(applicant).level \in Levels
    BY DEF Applicants, Known
  <2>3. Score(Known(applicant)) >= Score(Known(applicant))
    BY <2>1, <2>2, MorePointsMoreScore
  <2>4. CASE applicant' = applicant
    BY <2>3, <2>4
  <2>5. CASE applicant' \in Worse(applicant)
    BY <2>5, WorseIsMore
  <2> QED
    BY <2>4, <2>5 DEF RiskNext, Assess, GetWorse, riskVars
<1> QED
  BY <1>1, <1>2, PTL DEF RiskSpec, NeverMoreLenient

-----------------------------------------------------------------------------
(* Pricing.                                                                *)

PriceRecord == [status : {"DRAFT", "APPROVED", "REJECTED"}, terms : Terms,
                from : 1 .. MaxToday, by : PriceAdmins]

\* What is known of the versions and the day in every state.
PriceIInv == today \in Nat /\ prices \in Seq(PriceRecord)

\* The approved versions of a day, and the last of them.
Valid(d) == {v \in DOMAIN prices : prices[v].status = "APPROVED" /\ prices[v].from <= d}

LastOf(d) ==
    {v \in Valid(d) : \A w \in Valid(d) :
        \/ prices[w].from < prices[v].from
        \/ prices[w].from = prices[v].from /\ w <= v}

LEMMA InForceIsLast ==
    ASSUME NEW d
    PROVE  /\ PriceInForce(d) = IF Valid(d) = {} THEN 0 ELSE CHOOSE v : v \in LastOf(d)
           /\ PriceInForce(d)' = IF Valid(d)' = {} THEN 0 ELSE CHOOSE v : v \in LastOf(d)'
<1>1. PriceInForce(d) = IF Valid(d) = {} THEN 0 ELSE CHOOSE v : v \in LastOf(d)
  BY DEF PriceInForce, Valid, LastOf
<1>2. PriceInForce(d)' = IF Valid(d)' = {} THEN 0 ELSE CHOOSE v : v \in LastOf(d)'
  BY DEF PriceInForce, Valid, LastOf
<1> QED
  BY <1>1, <1>2

\* A decision changes one draft, and approves none for a day that is over.
LEMMA DecisionKeepsPast ==
    ASSUME PriceIInv, NEW v \in DOMAIN prices, NEW s \in {"APPROVED", "REJECTED"},
           prices[v].status = "DRAFT", s = "APPROVED" => prices[v].from >= today,
           prices' = [prices EXCEPT ![v].status = s]
    PROVE  /\ prices' \in Seq(PriceRecord)
           /\ \A d \in 1 .. today - 1 : Valid(d)' = Valid(d) /\ LastOf(d)' = LastOf(d)
<1> DEFINE q == [prices[v] EXCEPT !.status = s]
<1>1. prices' = [prices EXCEPT ![v] = q]
  BY Zenon
<1>2. prices[v] \in PriceRecord
  BY DEF PriceIInv
<1>3. q \in PriceRecord /\ q.status = s /\ q.from = prices[v].from
  BY <1>2 DEF PriceRecord
<1> HIDE DEF q
<1>4. prices' \in Seq(PriceRecord) /\ DOMAIN prices' = DOMAIN prices
  BY <1>1, <1>3, ExceptSeq DEF PriceIInv
<1>5. \A w \in DOMAIN prices : prices'[w] = IF w = v THEN q ELSE prices[w]
  BY <1>1
<1>6. \A w \in DOMAIN prices : prices'[w].from = prices[w].from
  BY <1>3, <1>5
<1>7. \A w \in DOMAIN prices : prices[w].from \in Nat
  <2>1. \A w \in DOMAIN prices : prices[w] \in PriceRecord
    BY DEF PriceIInv
  <2> QED
    BY <2>1 DEF PriceRecord
<1> SUFFICES ASSUME NEW d \in 1 .. today - 1
             PROVE  Valid(d)' = Valid(d) /\ LastOf(d)' = LastOf(d)
  BY <1>4
<1>8. \A w \in DOMAIN prices : prices[w].from <= d =>
            (prices'[w].status = "APPROVED" <=> prices[w].status = "APPROVED")
  BY <1>3, <1>5, <1>7 DEF PriceIInv
<1>9. Valid(d)' = Valid(d)
  BY <1>4, <1>6, <1>8 DEF Valid
<1>10. LastOf(d)' = LastOf(d)
  <2>1. \A w \in Valid(d) : prices'[w].from = prices[w].from
    BY <1>6 DEF Valid
  <2> QED
    BY <1>9, <2>1 DEF LastOf
<1> QED
  BY <1>9, <1>10

\* A new version is a draft, whatever day it is for.
LEMMA CreationKeepsPast ==
    ASSUME PriceIInv, NEW r \in PriceRecord, r.status = "DRAFT",
           prices' = Append(prices, r), NEW d
    PROVE  prices' \in Seq(PriceRecord) /\ Valid(d)' = Valid(d) /\ LastOf(d)' = LastOf(d)
<1>1. /\ prices' \in Seq(PriceRecord) /\ Len(prices') = Len(prices) + 1
      /\ prices'[Len(prices) + 1] = r
      /\ \A w \in 1 .. Len(prices) : prices'[w] = prices[w]
  BY SeqAppend DEF PriceIInv
<1>2. /\ DOMAIN prices = 1 .. Len(prices) /\ Len(prices) \in Nat
      /\ DOMAIN prices' = 1 .. Len(prices) + 1
  BY <1>1 DEF PriceIInv
<1>3. Valid(d)' = Valid(d)
  BY <1>1, <1>2 DEF Valid
<1>4. LastOf(d)' = LastOf(d)
  <2>1. \A w \in Valid(d) : prices'[w] = prices[w]
    BY <1>1, <1>2 DEF Valid
  <2> QED
    BY <1>3, <2>1 DEF LastOf
<1> QED
  BY <1>1, <1>3, <1>4

\* What no step changes of the days that are over.
PastKept == \A d \in 1 .. today - 1 : PriceInForce(d)' = PriceInForce(d)

LEMMA PriceStep == PriceIInv /\ [PricingNext]_pricingVars => PriceIInv' /\ PastKept
<1> USE DEF PastKept
<1> SUFFICES ASSUME PriceIInv, [PricingNext]_pricingVars PROVE PriceIInv' /\ PastKept
  OBVIOUS
<1>s. ASSUME \A d \in 1 .. today - 1 : Valid(d)' = Valid(d) /\ LastOf(d)' = LastOf(d)
      PROVE  PastKept
  <2> SUFFICES ASSUME NEW d \in 1 .. today - 1
               PROVE  PriceInForce(d)' = PriceInForce(d)
    OBVIOUS
  <2>1. Valid(d)' = Valid(d) /\ LastOf(d)' = LastOf(d)
    BY <1>s
  <2>2. /\ PriceInForce(d) = IF Valid(d) = {} THEN 0 ELSE CHOOSE v : v \in LastOf(d)
        /\ PriceInForce(d)' = IF Valid(d)' = {} THEN 0 ELSE CHOOSE v : v \in LastOf(d)'
    BY InForceIsLast
  <2> QED
    BY <2>1, <2>2
<1>1. CASE UNCHANGED prices /\ today' \in Nat
  <2>1. PastKept
    BY <1>1 DEF PriceInForce
  <2> QED
    BY <1>1, <2>1 DEF PriceIInv
<1>2. CASE /\ UNCHANGED today
           /\ \E v \in DOMAIN prices, s \in {"APPROVED", "REJECTED"} :
                  /\ prices[v].status = "DRAFT" /\ (s = "APPROVED" => prices[v].from >= today)
                  /\ prices' = [prices EXCEPT ![v].status = s]
  <2>1. PICK v \in DOMAIN prices, s \in {"APPROVED", "REJECTED"} :
                  /\ prices[v].status = "DRAFT" /\ (s = "APPROVED" => prices[v].from >= today)
                  /\ prices' = [prices EXCEPT ![v].status = s]
    BY <1>2
  <2>2. \A d \in 1 .. today - 1 : Valid(d)' = Valid(d) /\ LastOf(d)' = LastOf(d)
    BY <2>1, DecisionKeepsPast
  <2>3. prices' \in Seq(PriceRecord)
    BY <2>1, DecisionKeepsPast
  <2> QED
    BY <1>2, <1>s, <2>2, <2>3 DEF PriceIInv
<1>3. CASE /\ UNCHANGED today
           /\ \E r \in PriceRecord : r.status = "DRAFT" /\ prices' = Append(prices, r)
  <2>1. PICK r \in PriceRecord : r.status = "DRAFT" /\ prices' = Append(prices, r)
    BY <1>3
  <2>2. \A d : prices' \in Seq(PriceRecord) /\ Valid(d)' = Valid(d) /\ LastOf(d)' = LastOf(d)
    BY <2>1, CreationKeepsPast
  <2> QED
    BY <1>3, <1>s, <2>2 DEF PriceIInv
<1>4. ASSUME NEW a \in PriceAdmins, NEW t \in Terms, NEW f \in 1 .. MaxToday,
             CreatePrice(a, t, f)
      PROVE  \E r \in PriceRecord : r.status = "DRAFT" /\ prices' = Append(prices, r)
  <2> DEFINE r == [status |-> "DRAFT", terms |-> t, from |-> f, by |-> a]
  <2>1. r \in PriceRecord /\ r.status = "DRAFT"
    BY DEF PriceRecord
  <2>2. prices' = Append(prices, r)
    BY <1>4 DEF CreatePrice
  <2> QED
    BY <2>1, <2>2
<1>5. ASSUME NEW a \in PriceAdmins, NEW v \in DOMAIN prices, ApprovePrice(a, v)
      PROVE  /\ prices[v].status = "DRAFT" /\ prices[v].from >= today
             /\ prices' = [prices EXCEPT ![v].status = "APPROVED"]
  BY <1>5 DEF ApprovePrice, MayDecide
<1>6. ASSUME NEW v \in DOMAIN prices, RejectPrice(v)
      PROVE  /\ prices[v].status = "DRAFT"
             /\ prices' = [prices EXCEPT ![v].status = "REJECTED"]
  BY <1>6 DEF RejectPrice, MayDecide
<1>7. \/ UNCHANGED prices /\ today' \in Nat
      \/ \E a \in PriceAdmins, t \in Terms, f \in 1 .. MaxToday : CreatePrice(a, t, f)
      \/ \E a \in PriceAdmins, v \in DOMAIN prices : ApprovePrice(a, v)
      \/ \E v \in DOMAIN prices : RejectPrice(v)
  BY DEF PricingNext, NextDay, DraftOffer, PayOut, PayBack, CreateSchedule,
         ActivateSchedule, CancelSchedule, pricingVars, PriceIInv
<1>8. /\ \A a \in PriceAdmins, t \in Terms, f \in 1 .. MaxToday :
              CreatePrice(a, t, f) => UNCHANGED today
      /\ \A a \in PriceAdmins, v \in DOMAIN prices : ApprovePrice(a, v) => UNCHANGED today
      /\ \A v \in DOMAIN prices : RejectPrice(v) => UNCHANGED today
  BY DEF CreatePrice, ApprovePrice, RejectPrice
<1> QED
  BY <1>1, <1>2, <1>3, <1>4, <1>5, <1>6, <1>7, <1>8

LEMMA PriceInvariant == PricingSpec => []PriceIInv
<1>1. PricingInit => PriceIInv
  BY DEF PricingInit, PriceIInv
<1> QED
  BY <1>1, PriceStep, PTL DEF PricingSpec

\* Whatever is drafted, approved or rejected, in whatever order: the price of a
\* day that is over is what it was (services/pricing.py approve,
\* repositories/pricing.py get_effective).
THEOREM PastStands == PricingSpec => PastPricesStand
<1>1. PriceIInv /\ [PricingNext]_pricingVars =>
          [\A d \in 1 .. today - 1 : PriceInForce(d)' = PriceInForce(d)]_pricingVars
  BY PriceStep DEF PastKept
<1> QED
  BY <1>1, PriceInvariant, PTL DEF PricingSpec, PastPricesStand

LEMMA HalfUpTyped ==
    ASSUME NEW x \in Nat, NEW d \in Nat \ {0}
    PROVE  HalfUp(x, d) \in Nat
BY DEF HalfUp

LEMMA HalfEvenTyped ==
    ASSUME NEW x \in Nat, NEW d \in Nat \ {0}
    PROVE  HalfEven(x, d) \in Nat
BY DEF HalfEven

\* The function that a power is read off.
LEMMA PowerIs ==
    ASSUME NEW b \in Nat \ {0}, NEW n \in Nat
    PROVE  \E f : /\ f \in [0 .. n -> Nat \ {0}] /\ f[0] = 1
                  /\ \A k \in 0 .. n - 1 : f[k + 1] = b * f[k]
                  /\ Power(b, n) = f[n]
<1> DEFINE V == Nat \ {0}
           G == [q \in V \X (1 .. n) |-> b * q[1]]
           power == CHOOSE f : f = [k \in 0 .. n |-> IF k = 0 THEN 1 ELSE b * f[k - 1]]
<1>1. Power(b, n) = power[n]
  BY DEF Power
<1>2. IsStep(G, n, V)
  <2>1. \A x \in V : b * x \in V
    OBVIOUS
  <2> QED
    BY <2>1 DEF IsStep
<1>3. \A x \in V, k \in 1 .. n : G[<<x, k>>] = b * x
  OBVIOUS
<1> HIDE DEF G
<1>4. PICK f : Recurs(f, 1, G, n, V)
  BY <1>2, Recursion
<1>5. f = [k \in 0 .. n |-> IF k = 0 THEN 1 ELSE b * f[k - 1]]
  <2>1. f \in [0 .. n -> V] /\ f[0] = 1 /\ \A k \in 1 .. n : f[k] = G[<<f[k - 1], k>>]
    BY <1>4 DEF Recurs
  <2>2. \A k \in 1 .. n : f[k] = b * f[k - 1]
    <3> SUFFICES ASSUME NEW k \in 1 .. n PROVE f[k] = b * f[k - 1]
      OBVIOUS
    <3>1. k - 1 \in 0 .. n
      OBVIOUS
    <3>2. f[k - 1] \in V
      BY <2>1, <3>1
    <3> QED
      BY <1>3, <2>1, <3>2
  <2>3. \A k \in 0 .. n : f[k] = IF k = 0 THEN 1 ELSE b * f[k - 1]
    BY <2>1, <2>2
  <2> QED
    BY <2>1, <2>3
<1>6. power = [k \in 0 .. n |-> IF k = 0 THEN 1 ELSE b * power[k - 1]]
  BY <1>5
<1> HIDE DEF power
<1>7. power[0] = 1 /\ \A k \in 0 .. n - 1 : power[k + 1] = b * power[k]
  BY <1>6
<1> DEFINE S == {k \in 0 .. n : power[k] \in V}
<1>8. 0 \in S
  BY <1>7
<1>9. \A k \in 0 .. n - 1 : k \in S => k + 1 \in S
  <2> SUFFICES ASSUME NEW k \in 0 .. n - 1, power[k] \in V PROVE power[k + 1] \in V
    OBVIOUS
  <2>1. \A x \in V : b * x \in V
    OBVIOUS
  <2> QED
    BY <1>7, <2>1
<1> HIDE DEF S
<1>10. \A k \in 0 .. n : k \in S
  BY <1>8, <1>9, CountUp
<1>11. power \in [0 .. n -> V]
  <2>1. \A k \in 0 .. n : power[k] \in V
    BY <1>10 DEF S
  <2> QED
    BY <1>6, <2>1
<1> QED
  BY <1>1, <1>7, <1>11

LEMMA PowersGrow ==
    ASSUME NEW b \in Nat \ {0}, NEW c \in Nat \ {0}, b < c, NEW n \in Nat \ {0}
    PROVE  Power(b, n) \in Nat \ {0} /\ Power(c, n) \in Nat \ {0} /\ Power(b, n) < Power(c, n)
<1>1. PICK f : /\ f \in [0 .. n -> Nat \ {0}] /\ f[0] = 1
               /\ \A k \in 0 .. n - 1 : f[k + 1] = b * f[k]
               /\ Power(b, n) = f[n]
  BY PowerIs
<1>2. PICK g : /\ g \in [0 .. n -> Nat \ {0}] /\ g[0] = 1
               /\ \A k \in 0 .. n - 1 : g[k + 1] = c * g[k]
               /\ Power(c, n) = g[n]
  BY PowerIs
<1> DEFINE S == {k \in 0 .. n : f[k] <= g[k] /\ (k > 0 => f[k] < g[k])}
<1>3. 0 \in S
  BY <1>1, <1>2
<1>4. \A k \in 0 .. n - 1 : k \in S => k + 1 \in S
  <2> SUFFICES ASSUME NEW k \in 0 .. n - 1, f[k] <= g[k]
               PROVE  f[k + 1] < g[k + 1] /\ f[k + 1] <= g[k + 1]
    OBVIOUS
  <2> DEFINE x == f[k]
             y == g[k]
  <2>1. x \in Nat \ {0} /\ y \in Nat \ {0} /\ x <= y
    BY <1>1, <1>2
  <2>2. f[k + 1] = b * x /\ g[k + 1] = c * y
    BY <1>1, <1>2
  <2> HIDE DEF x, y
  <2>3. b * x < c * x
    BY <2>1
  <2>4. c * x <= c * y
    BY <2>1
  <2> QED
    BY <2>1, <2>2, <2>3, <2>4
<1> HIDE DEF S
<1>5. \A k \in 0 .. n : k \in S
  BY <1>3, <1>4, CountUp
<1>6. f[n] < g[n]
  BY <1>5 DEF S
<1> QED
  BY <1>1, <1>2, <1>6

\* What the price of a loan has to be for its instalments to be computed.
PriceTerms(t) == t.num \in Nat /\ t.den \in Nat \ {0}

LEMMA EmiTyped ==
    ASSUME NEW p \in Nat, NEW t, PriceTerms(t), NEW n \in Nat \ {0}
    PROVE  Emi(p, t, n) \in Nat
<1> USE DEF PriceTerms
<1>1. CASE t.num = 0
  BY <1>1, HalfUpTyped DEF Emi
<1>2. CASE t.num # 0
  <2> DEFINE up == Power(t.den + t.num, n)
             low == Power(t.den, n)
  <2>1. up \in Nat \ {0} /\ low \in Nat \ {0} /\ low < up
    BY <1>2, PowersGrow
  <2>2. Emi(p, t, n) = HalfUp(p * t.num * up, t.den * (up - low))
    BY <1>2 DEF Emi
  <2> HIDE DEF up, low
  <2>3. p * t.num * up \in Nat
    BY <2>1
  <2>4. t.den * (up - low) \in Nat \ {0}
    <3>1. up - low \in Nat \ {0}
      BY <2>1
    <3> QED
      BY <3>1
  <2> QED
    BY <2>2, <2>3, <2>4, HalfUpTyped
<1> QED
  BY <1>1, <1>2

LEMMA InterestTyped ==
    ASSUME NEW balance \in Nat, NEW t, PriceTerms(t)
    PROVE  InterestOn(balance, t) \in Nat
<1>1. balance * t.num \in Nat
  BY DEF PriceTerms
<1> QED
  BY <1>1, HalfUpTyped DEF InterestOn, PriceTerms

\* A row never takes more than the balance, and the last one takes it all.
LEMMA PartTyped ==
    ASSUME NEW p \in Nat, NEW t, PriceTerms(t), NEW n \in Nat \ {0}, NEW k \in 1 .. n,
           NEW balance \in Nat
    PROVE  LET part == Part(p, t, n, k, balance)
           IN  part \in Int /\ part <= balance /\ (k = n => part = balance)
<1>1. CASE k = n
  BY <1>1 DEF Part
<1>2. CASE k # n
  <2>1. Emi(p, t, n) - InterestOn(balance, t) \in Int
    BY EmiTyped, InterestTyped
  <2>2. Part(p, t, n, k, balance) = Min({Emi(p, t, n) - InterestOn(balance, t), balance})
    BY <1>2 DEF Part
  <2> QED
    BY <1>2, <2>1, <2>2, MinOfTwo
<1> QED
  BY <1>1, <1>2

\* The instalments of a priced loan take it from balance to balance.
LEMMA EmiBalances ==
    ASSUME NEW p \in Nat, NEW t, PriceTerms(t), NEW n \in Nat \ {0}
    PROVE  \E b : /\ b \in [0 .. n -> Nat] /\ b[0] = p /\ b[n] = 0
                  /\ \A k \in 1 .. n : b[k] = b[k - 1] - Part(p, t, n, k, b[k - 1])
                  /\ EmiSchedule(p, t, n) =
                        [k \in 1 .. n |-> [principal |-> Part(p, t, n, k, b[k - 1]),
                                           interest |-> InterestOn(b[k - 1], t)]]
<1> DEFINE rows == EmiSchedule(p, t, n)
           Less(b, k) == b - Part(p, t, n, k, b)
           G == [q \in Nat \X (1 .. n) |-> Less(q[1], q[2])]
           balance == CHOOSE f : f = [k \in 0 .. n |-> IF k = 0 THEN p
                                      ELSE f[k - 1] - Part(p, t, n, k, f[k - 1])]
<1>1. rows = [k \in 1 .. n |-> [principal |-> Part(p, t, n, k, balance[k - 1]),
                                interest |-> InterestOn(balance[k - 1], t)]]
  BY DEF EmiSchedule
<1>2. \A b \in Nat, k \in 1 .. n : Less(b, k) \in Nat /\ (k = n => Less(b, k) = 0)
  <2> SUFFICES ASSUME NEW b \in Nat, NEW k \in 1 .. n
               PROVE  Less(b, k) \in Nat /\ (k = n => Less(b, k) = 0)
    OBVIOUS
  <2> DEFINE part == Part(p, t, n, k, b)
  <2>1. part \in Int /\ part <= b /\ (k = n => part = b)
    BY PartTyped
  <2> HIDE DEF part
  <2>2. b - part \in Nat /\ (k = n => b - part = 0)
    BY <2>1
  <2> QED
    BY <2>2 DEF part
<1>3. IsStep(G, n, Nat)
  BY <1>2 DEF IsStep
<1>4. \A b \in Nat, k \in 1 .. n : G[<<b, k>>] = Less(b, k)
  OBVIOUS
<1> HIDE DEF G
<1>5. PICK f : Recurs(f, p, G, n, Nat)
  BY <1>3, Recursion
<1>6. f = [k \in 0 .. n |-> IF k = 0 THEN p ELSE f[k - 1] - Part(p, t, n, k, f[k - 1])]
  <2>1. f \in [0 .. n -> Nat] /\ f[0] = p /\ \A k \in 1 .. n : f[k] = G[<<f[k - 1], k>>]
    BY <1>5 DEF Recurs
  <2>2. \A k \in 1 .. n : f[k] = f[k - 1] - Part(p, t, n, k, f[k - 1])
    <3> SUFFICES ASSUME NEW k \in 1 .. n PROVE f[k] = Less(f[k - 1], k)
      OBVIOUS
    <3>1. k - 1 \in 0 .. n
      OBVIOUS
    <3>2. f[k - 1] \in Nat
      BY <2>1, <3>1
    <3> QED
      BY <1>4, <2>1, <3>2
  <2>3. \A k \in 0 .. n : f[k] = IF k = 0 THEN p
                                 ELSE f[k - 1] - Part(p, t, n, k, f[k - 1])
    BY <2>1, <2>2
  <2> QED
    BY <2>1, <2>3
<1>7. balance = [k \in 0 .. n |-> IF k = 0 THEN p
                     ELSE balance[k - 1] - Part(p, t, n, k, balance[k - 1])]
  BY <1>6
<1> HIDE DEF balance
<1>8. balance[0] = p
  BY <1>7
<1>9. \A k \in 0 .. n - 1 : balance[k + 1] = Less(balance[k], k + 1)
  <2> SUFFICES ASSUME NEW k \in 0 .. n - 1 PROVE balance[k + 1] = Less(balance[k], k + 1)
    OBVIOUS
  <2>1. k + 1 \in 0 .. n /\ k + 1 # 0 /\ k + 1 - 1 = k
    OBVIOUS
  <2> QED
    BY <1>7, <2>1
<1> HIDE DEF Less
<1> DEFINE S == {k \in 0 .. n : balance[k] \in Nat}
<1>10. 0 \in S
  BY <1>8
<1>11. \A k \in 0 .. n - 1 : k \in S => k + 1 \in S
  <2> SUFFICES ASSUME NEW k \in 0 .. n - 1, balance[k] \in Nat PROVE balance[k + 1] \in Nat
    OBVIOUS
  <2>1. k + 1 \in 1 .. n
    OBVIOUS
  <2> QED
    BY <1>2, <1>9, <2>1
<1> HIDE DEF S
<1>12. \A k \in 0 .. n : k \in S
  BY <1>10, <1>11, CountUp
<1>13. \A k \in 0 .. n : balance[k] \in Nat
  BY <1>12 DEF S
<1>14. balance[n] = 0
  <2>1. n - 1 \in 0 .. n - 1 /\ n - 1 + 1 = n /\ n \in 1 .. n /\ n - 1 \in 0 .. n
    OBVIOUS
  <2>2. balance[n] = Less(balance[n - 1], n) /\ balance[n - 1] \in Nat
    BY <1>9, <1>13, <2>1
  <2> QED
    BY <1>2, <2>1, <2>2
<1>15. \A k \in 1 .. n : balance[k] = balance[k - 1] - Part(p, t, n, k, balance[k - 1])
  <2> SUFFICES ASSUME NEW k \in 1 .. n
               PROVE  balance[k] = balance[k - 1] - Part(p, t, n, k, balance[k - 1])
    OBVIOUS
  <2>1. k - 1 \in 0 .. n - 1 /\ k - 1 + 1 = k
    OBVIOUS
  <2> QED
    BY <1>9, <2>1 DEF Less
<1>16. balance \in [0 .. n -> Nat]
  BY <1>7, <1>13
<1> QED
  BY <1>1, <1>8, <1>14, <1>15, <1>16

\* So they repay it.
LEMMA EmiRowsRepay ==
    ASSUME NEW p \in Nat, NEW t, PriceTerms(t), NEW n \in Nat \ {0}
    PROVE  LET rows == EmiSchedule(p, t, n)
           IN  /\ DOMAIN rows = 1 .. n
               /\ Principal(rows) = p
               /\ \A k \in 1 .. n : rows[k].interest \in Nat
<1> DEFINE rows == EmiSchedule(p, t, n)
<1>1. PICK b : /\ b \in [0 .. n -> Nat] /\ b[0] = p /\ b[n] = 0
               /\ \A k \in 1 .. n : b[k] = b[k - 1] - Part(p, t, n, k, b[k - 1])
               /\ rows = [k \in 1 .. n |-> [principal |-> Part(p, t, n, k, b[k - 1]),
                                            interest |-> InterestOn(b[k - 1], t)]]
  BY EmiBalances
<1>2. DOMAIN rows = 1 .. n
  BY <1>1
<1>3. \A k \in 1 .. n : /\ rows[k].principal = Part(p, t, n, k, b[k - 1])
                        /\ rows[k].interest = InterestOn(b[k - 1], t)
  BY <1>1
<1> HIDE DEF rows
<1>4. \A k \in 1 .. n : b[k] \in Nat /\ b[k - 1] \in Nat
  <2>1. \A k \in 1 .. n : k \in 0 .. n /\ k - 1 \in 0 .. n
    OBVIOUS
  <2> QED
    BY <1>1, <2>1
<1> DEFINE part == [k \in 1 .. n |-> rows[k].principal]
<1>5. \A k \in 1 .. n : part[k] \in Int /\ part[k] = b[k - 1] - b[k]
  <2> SUFFICES ASSUME NEW k \in 1 .. n PROVE part[k] \in Int /\ part[k] = b[k - 1] - b[k]
    OBVIOUS
  <2>1. b[k] \in Nat /\ b[k - 1] \in Nat
    BY <1>4
  <2>2. Part(p, t, n, k, b[k - 1]) \in Int
    BY <2>1, PartTyped
  <2>3. b[k] = b[k - 1] - Part(p, t, n, k, b[k - 1])
    BY <1>1
  <2> QED
    BY <1>3, <2>1, <2>2, <2>3
<1>6. \A k \in 1 .. n : rows[k].interest \in Nat
  BY <1>3, <1>4, InterestTyped
<1>7. Principal(rows) = Added(part, 1 .. n)
  BY <1>2 DEF Principal, SumOf, Added
<1> HIDE DEF part
<1>8. Added(part, 1 .. n) = b[0] - b[n]
  <2>1. \A k \in 1 .. n : part[k] \in Int
    BY <1>5
  <2>2. n \in Nat /\ \A k \in 0 .. n : b[k] \in Int
    BY <1>1
  <2> QED
    BY <1>5, <2>1, <2>2, AddedDown
<1> QED
  BY <1>1, <1>2, <1>6, <1>7, <1>8 DEF rows

LEMMA HalfUpNear ==
    ASSUME NEW x \in Nat, NEW d \in Nat \ {0}
    PROVE  /\ HalfUp(x, d) \in Nat
           /\ 2 * (d * HalfUp(x, d)) - 2 * x <= d
           /\ 2 * x - 2 * (d * HalfUp(x, d)) <= d
<1> DEFINE h == d \div 2
           q == (x + h) \div d
           r == (x + h) % d
<1>1. h \in Nat /\ 2 * h <= d /\ d <= 2 * h + 1
  OBVIOUS
<1>2. HalfUp(x, d) = q
  BY DEF HalfUp
<1> HIDE DEF h
<1>3. q \in Nat /\ r \in 0 .. d - 1 /\ x + h = d * q + r
  BY <1>1
<1> HIDE DEF q, r
<1> DEFINE z == d * q
<1>4. z \in Nat
  BY <1>3
<1> HIDE DEF z
<1>5. 2 * z - 2 * x <= d /\ 2 * x - 2 * z <= d
  BY <1>1, <1>3, <1>4 DEF z
<1> QED
  BY <1>2, <1>3, <1>5 DEF z

LEMMA TimesMonotone ==
    ASSUME NEW m \in Nat, NEW a \in Int, NEW b \in Int, a <= b
    PROVE  m * a <= m * b
OBVIOUS

LEMMA QuotientBounds ==
    ASSUME NEW a \in Nat, NEW m \in Nat \ {0}, NEW x \in Int, m * x <= a, - (m * x) <= a
    PROVE  a \div m \in Nat /\ x \in - (a \div m) .. (a \div m)
<1> DEFINE q == a \div m
           r == a % m
<1>1. q \in Nat /\ r \in 0 .. m - 1 /\ a = m * q + r
  OBVIOUS
<1> HIDE DEF q, r
<1>2. ASSUME x > q PROVE FALSE
  <2>1. m * (q + 1) <= m * x
    BY <1>1, <1>2, TimesMonotone
  <2>2. m * (q + 1) = m * q + m
    BY <1>1
  <2> QED
    BY <1>1, <2>1, <2>2
<1>3. ASSUME - x > q PROVE FALSE
  <2>1. m * (q + 1) <= m * (- x)
    BY <1>1, <1>3, TimesMonotone
  <2>2. m * (q + 1) = m * q + m /\ m * (- x) = - (m * x)
    BY <1>1
  <2> QED
    BY <1>1, <2>1, <2>2
<1>4. x <= q /\ - x <= q
  BY <1>1, <1>2, <1>3
<1> QED
  BY <1>1, <1>4 DEF q

\* How far the balance c, at compound factors F and G, is from the exact one.
Off(a, d, F, G, p, E, c) == a * (G * c) - a * (F * p) + d * (E * (F - G))

LEMMA OneRowOff ==
    ASSUME NEW a \in Nat, NEW d \in Nat, NEW F \in Nat, NEW G \in Nat, NEW p \in Nat,
           NEW E \in Nat, NEW c \in Int, NEW i \in Int,
           2 * (d * i) - 2 * (a * c) <= d, 2 * (a * c) - 2 * (d * i) <= d,
           2 * Off(a, d, F, G, p, E, c) <= d * (F - G),
           - (d * (F - G)) <= 2 * Off(a, d, F, G, p, E, c)
    PROVE  LET F2 == (d + a) * F
               G2 == d * G
           IN  /\ 2 * Off(a, d, F2, G2, p, E, c + i - E) <= d * (F2 - G2)
               /\ - (d * (F2 - G2)) <= 2 * Off(a, d, F2, G2, p, E, c + i - E)
<1> DEFINE F2 == (d + a) * F
           G2 == d * G
           y == Off(a, d, F, G, p, E, c)
           e == d * i - a * c
           y2 == Off(a, d, F2, G2, p, E, c + i - E)
           w == d * (F - G)
           u == d + a
           m == a * G
<1>1. y2 = u * y + m * e
  BY DEF Off
<1>2. d * (F2 - G2) = u * w + m * d
  OBVIOUS
<1>3. y \in Int /\ e \in Int /\ w \in Int /\ u \in Nat /\ m \in Nat /\ y2 \in Int
  BY DEF Off
<1>4. 2 * e <= d /\ - d <= 2 * e
  <2>1. d * i \in Int /\ a * c \in Int
    OBVIOUS
  <2> QED
    BY <2>1
<1>5. 2 * y <= w /\ - w <= 2 * y
  OBVIOUS
<1> HIDE DEF y, e, y2, w, u, m
<1>6. u * (2 * y) <= u * w /\ u * (- w) <= u * (2 * y)
  BY <1>3, <1>5, TimesMonotone
<1>7. m * (2 * e) <= m * d /\ m * (- d) <= m * (2 * e)
  BY <1>3, <1>4, TimesMonotone
<1>8. 2 * y2 = u * (2 * y) + m * (2 * e)
  BY <1>1, <1>3
<1>9. u * (- w) = - (u * w) /\ m * (- d) = - (m * d)
  BY <1>3
<1> HIDE DEF F2, G2
<1>10. /\ u * w \in Int /\ m * d \in Int /\ u * (2 * y) \in Int /\ m * (2 * e) \in Int
  BY <1>3
<1>11. 2 * y2 <= u * w + m * d /\ - (u * w + m * d) <= 2 * y2
  BY <1>6, <1>7, <1>8, <1>9, <1>10
<1> QED
  BY <1>2, <1>11 DEF F2, G2, y2
\* f and g are the powers of 1 + r and of 1, in the denominator's units.
ArePowers(f, g, t, n) ==
    /\ f \in [0 .. n -> Nat \ {0}] /\ g \in [0 .. n -> Nat \ {0}]
    /\ f[0] = 1 /\ g[0] = 1
    /\ \A k \in 0 .. n - 1 :
            f[k + 1] = (t.den + t.num) * f[k] /\ g[k + 1] = t.den * g[k]
    /\ Power(t.den + t.num, n) = f[n] /\ Power(t.den, n) = g[n]

LEMMA TwoPowers ==
    ASSUME NEW t, PriceTerms(t), NEW n \in Nat
    PROVE  \E f, g : ArePowers(f, g, t, n)
<1>1. t.den + t.num \in Nat \ {0} /\ t.den \in Nat \ {0}
  BY DEF PriceTerms
<1>2. PICK f : /\ f \in [0 .. n -> Nat \ {0}] /\ f[0] = 1
               /\ \A k \in 0 .. n - 1 : f[k + 1] = (t.den + t.num) * f[k]
               /\ Power(t.den + t.num, n) = f[n]
  BY <1>1, PowerIs
<1>3. PICK g : /\ g \in [0 .. n -> Nat \ {0}] /\ g[0] = 1
               /\ \A k \in 0 .. n - 1 : g[k + 1] = t.den * g[k]
               /\ Power(t.den, n) = g[n]
  BY <1>1, PowerIs
<1> QED
  BY <1>2, <1>3 DEF ArePowers

\* The rest after n rounded instalments of a balance that bears rounded interest.
LEMMA RestIsSmall ==
    ASSUME NEW p \in Nat, NEW t, PriceTerms(t), NEW n \in Nat \ {0}, NEW c,
           \A k \in 0 .. n - 1 : c[k] \in Nat, c[n] \in Int, c[0] = p,
           \A k \in 0 .. n - 1 :
               c[k + 1] = c[k] + InterestOn(c[k], t) - Emi(p, t, n)
    PROVE  Roundings(t, n) \in Nat /\ c[n] \in - Roundings(t, n) .. Roundings(t, n)
<1> DEFINE a == t.num
           d == t.den
           E == Emi(p, t, n)
<1>1. a \in Nat /\ d \in Nat \ {0} /\ E \in Nat
  BY EmiTyped DEF PriceTerms
<1>2. CASE a = 0
  <2>1. E = HalfUp(p, n)
    BY <1>2 DEF Emi
  <2> HIDE DEF E
  <2>2. \A k \in 0 .. n - 1 : InterestOn(c[k], t) = 0
    <3> SUFFICES ASSUME NEW k \in 0 .. n - 1 PROVE InterestOn(c[k], t) = 0
      OBVIOUS
    <3>1. c[k] * a = 0
      BY <1>2
    <3>2. HalfUp(0, d) = 0
      BY <1>1 DEF HalfUp
    <3> QED
      BY <3>1, <3>2 DEF InterestOn
  <2>3. \A k \in 0 .. n - 1 : c[k + 1] = c[k] - E
    BY <1>1, <2>2 DEF E
  <2> DEFINE S == {k \in 0 .. n : c[k] = p - k * E}
  <2>4. 0 \in S
    BY <1>1
  <2>5. \A k \in 0 .. n - 1 : k \in S => k + 1 \in S
    <3> SUFFICES ASSUME NEW k \in 0 .. n - 1, c[k] = p - k * E
                 PROVE  c[k + 1] = p - (k + 1) * E
      OBVIOUS
    <3>1. (k + 1) * E = k * E + E /\ k * E \in Nat
      BY <1>1
    <3> QED
      BY <1>1, <2>3, <3>1
  <2> HIDE DEF S
  <2>6. \A k \in 0 .. n : k \in S
    BY <2>4, <2>5, CountUp
  <2>7. c[n] = p - n * E
    BY <2>6 DEF S
  <2>8. 2 * (n * E) - 2 * p <= n /\ 2 * p - 2 * (n * E) <= n
    BY <2>1, HalfUpNear
  <2>9. n * E \in Nat
    BY <1>1
  <2>10. c[n] \in - n .. n
    BY <2>7, <2>8, <2>9
  <2> QED
    BY <1>2, <2>10 DEF Roundings
<1>3. CASE a # 0
  <2>0. PICK f, g : ArePowers(f, g, t, n)
    BY TwoPowers
  <2>1. /\ f \in [0 .. n -> Nat \ {0}] /\ g \in [0 .. n -> Nat \ {0}]
        /\ f[0] = 1 /\ g[0] = 1
        /\ \A k \in 0 .. n - 1 : f[k + 1] = (d + a) * f[k] /\ g[k + 1] = d * g[k]
        /\ Power(d + a, n) = f[n] /\ Power(d, n) = g[n]
    BY <2>0 DEF ArePowers
  <2>2. Roundings(t, n) = (d * (f[n] - g[n])) \div (a * g[n])
    BY <1>3, <2>1 DEF Roundings
  <2>3. E = HalfUp(p * a * f[n], d * (f[n] - g[n])) /\ g[n] < f[n]
    <3>1. E = HalfUp(p * a * f[n], d * (f[n] - g[n]))
      BY <1>3, <2>1 DEF Emi
    <3>2. d < d + a /\ d + a \in Nat \ {0}
      BY <1>1, <1>3
    <3>3. Power(d, n) < Power(d + a, n)
      BY <1>1, <3>2, PowersGrow
    <3> QED
      BY <2>1, <3>1, <3>3
  <2>4. \A k \in 0 .. n - 1 :
            /\ 2 * (d * InterestOn(c[k], t)) - 2 * (a * c[k]) <= d
            /\ 2 * (a * c[k]) - 2 * (d * InterestOn(c[k], t)) <= d
            /\ InterestOn(c[k], t) \in Int
    <3> SUFFICES ASSUME NEW k \in 0 .. n - 1
                 PROVE  /\ 2 * (d * InterestOn(c[k], t)) - 2 * (a * c[k]) <= d
                        /\ 2 * (a * c[k]) - 2 * (d * InterestOn(c[k], t)) <= d
                        /\ InterestOn(c[k], t) \in Int
      OBVIOUS
    <3>1. c[k] * a = a * c[k] /\ c[k] * a \in Nat
      BY <1>1
    <3>2. InterestOn(c[k], t) = HalfUp(c[k] * a, d)
      BY DEF InterestOn
    <3> HIDE DEF a, d
    <3> DEFINE x == c[k] * a
    <3>3. InterestOn(c[k], t) = HalfUp(x, d) /\ x \in Nat
      BY <3>1, <3>2
    <3>4. a * c[k] = x
      BY <3>1
    <3> HIDE DEF x, E
    <3>5. /\ HalfUp(x, d) \in Nat
          /\ 2 * (d * HalfUp(x, d)) - 2 * x <= d
          /\ 2 * x - 2 * (d * HalfUp(x, d)) <= d
      BY <1>1, <3>3, HalfUpNear
    <3> QED
      BY <3>3, <3>4, <3>5
  <2>5. \A k \in 0 .. n - 1 : c[k + 1] = c[k] + InterestOn(c[k], t) - E
    OBVIOUS
  <2>6. \A k \in 0 .. n : c[k] \in Int /\ f[k] \in Nat /\ g[k] \in Nat
    <3>1. \A k \in 0 .. n : k = n \/ k \in 0 .. n - 1
      OBVIOUS
    <3> QED
      BY <2>1, <3>1
  <2> HIDE DEF E, a, d
  <2> DEFINE Y(k) == Off(a, d, f[k], g[k], p, E, c[k])
             W(k) == d * (f[k] - g[k])
             S == {k \in 0 .. n : 2 * Y(k) <= W(k) /\ - W(k) <= 2 * Y(k)}
  <2>7. 0 \in S
    <3>1. Y(0) = 0
      BY <1>1, <2>1 DEF Off
    <3>2. W(0) = 0
      BY <1>1, <2>1
    <3> HIDE DEF Y, W
    <3> QED
      BY <3>1, <3>2
  <2>8. \A k \in 0 .. n - 1 : k \in S => k + 1 \in S
    <3> SUFFICES ASSUME NEW k \in 0 .. n - 1, 2 * Y(k) <= W(k), - W(k) <= 2 * Y(k)
                 PROVE  2 * Y(k + 1) <= W(k + 1) /\ - W(k + 1) <= 2 * Y(k + 1)
      OBVIOUS
    <3> DEFINE F == f[k]
               G == g[k]
               C == c[k]
               I == InterestOn(C, t)
    <3>1. F \in Nat /\ G \in Nat /\ C \in Int
      BY <2>6
    <3>2. I \in Int /\ 2 * (d * I) - 2 * (a * C) <= d /\ 2 * (a * C) - 2 * (d * I) <= d
      BY <2>4
    <3>3. f[k + 1] = (d + a) * F /\ g[k + 1] = d * G /\ c[k + 1] = C + I - E
      BY <2>1, <2>5
    <3>4. /\ 2 * Off(a, d, F, G, p, E, C) <= d * (F - G)
          /\ - (d * (F - G)) <= 2 * Off(a, d, F, G, p, E, C)
      OBVIOUS
    <3> HIDE DEF F, G, C, I
    <3>5. /\ 2 * Off(a, d, (d + a) * F, d * G, p, E, C + I - E) <= d * ((d + a) * F - d * G)
          /\ - (d * ((d + a) * F - d * G)) <= 2 * Off(a, d, (d + a) * F, d * G, p, E, C + I - E)
      BY <1>1, <3>1, <3>2, <3>4, OneRowOff
    <3> QED
      BY <3>3, <3>5
  <2> HIDE DEF S
  <2>9. \A k \in 0 .. n : k \in S
    BY <2>7, <2>8, CountUp
  <2> DEFINE F == f[n]
             G == g[n]
             D == c[n]
  <2>10. /\ F \in Nat \ {0} /\ G \in Nat \ {0} /\ D \in Int /\ G < F
         /\ E = HalfUp(p * a * F, d * (F - G))
         /\ Roundings(t, n) = (d * (F - G)) \div (a * G)
    BY <2>1, <2>2, <2>3
  <2>11. /\ 2 * Off(a, d, F, G, p, E, D) <= d * (F - G)
         /\ - (d * (F - G)) <= 2 * Off(a, d, F, G, p, E, D)
    BY <2>9 DEF S
  <2> HIDE DEF F, G, D, Y, W
  <2> DEFINE w == d * (F - G)
             x == p * a * F
  <2>12. w \in Nat \ {0}
    <3>1. F - G \in Nat \ {0}
      BY <2>10
    <3> QED
      BY <1>1, <3>1
  <2>13. x \in Nat
    BY <1>1, <2>10
  <2>14. 2 * (w * E) - 2 * x <= w /\ 2 * x - 2 * (w * E) <= w
    <3>1. E = HalfUp(x, w)
      BY <2>10
    <3> HIDE DEF w, x
    <3> QED
      BY <2>12, <2>13, <3>1, HalfUpNear
  <2> DEFINE m == a * G
  <2>15. Off(a, d, F, G, p, E, D) = m * D - x + w * E
    BY <1>1, <2>10 DEF Off
  <2>16. m \in Nat \ {0}
    BY <1>1, <1>3, <2>10
  <2>17. Roundings(t, n) = w \div m
    BY <2>10
  <2>18. 2 * (m * D - x + w * E) <= w /\ - w <= 2 * (m * D - x + w * E)
    BY <2>11, <2>15
  <2> HIDE DEF w, x, m
  <2>19. m * D <= w /\ - (m * D) <= w
    <3>1. m * D \in Int /\ w * E \in Int
      BY <1>1, <2>10, <2>12, <2>16
    <3> QED
      BY <2>12, <2>13, <2>14, <2>18, <3>1
  <2>20. w \div m \in Nat /\ D \in - (w \div m) .. (w \div m)
    BY <2>10, <2>12, <2>16, <2>19, QuotientBounds
  <2> QED
    BY <2>17, <2>20 DEF D
<1> QED
  BY <1>2, <1>3

\* What a quote is computed from can be repaid in level instalments.
LEMMA EmiRowsLevel ==
    ASSUME NEW p \in Nat, NEW t, PriceTerms(t), NEW n \in Nat \ {0},
           \A k \in 1 .. n : EmiSchedule(p, t, n)[k].principal > 0
    PROVE  Level(EmiSchedule(p, t, n), t, n)
<1> DEFINE rows == EmiSchedule(p, t, n)
           E == Emi(p, t, n)
<1>1. PICK b : /\ b \in [0 .. n -> Nat] /\ b[0] = p /\ b[n] = 0
               /\ \A k \in 1 .. n : b[k] = b[k - 1] - Part(p, t, n, k, b[k - 1])
               /\ rows = [k \in 1 .. n |-> [principal |-> Part(p, t, n, k, b[k - 1]),
                                            interest |-> InterestOn(b[k - 1], t)]]
  BY EmiBalances
<1>2. DOMAIN rows = 1 .. n
  BY <1>1
<1>3. \A k \in 1 .. n : /\ rows[k].principal = Part(p, t, n, k, b[k - 1])
                        /\ rows[k].interest = InterestOn(b[k - 1], t)
                        /\ rows[k].principal > 0
  BY <1>1
<1> HIDE DEF rows
<1>4. E \in Nat
  BY EmiTyped
<1>5. \A k \in 0 .. n : b[k] \in Nat /\ InterestOn(b[k], t) \in Nat
  BY <1>1, InterestTyped
<1>6. \A k \in 1 .. n : k \in 0 .. n /\ k - 1 \in 0 .. n
  OBVIOUS
\* Before the last row no balance is used up, or a row would repay nothing.
<1>7. \A k \in 1 .. n - 1 : Part(p, t, n, k, b[k - 1]) = E - InterestOn(b[k - 1], t)
  <2> SUFFICES ASSUME NEW k \in 1 .. n - 1,
                      Part(p, t, n, k, b[k - 1]) # E - InterestOn(b[k - 1], t)
               PROVE  FALSE
    OBVIOUS
  <2>1. k \in 1 .. n /\ k # n /\ k + 1 \in 1 .. n /\ k + 1 - 1 = k /\ k \in 0 .. n /\ k - 1 \in 0 .. n
    OBVIOUS
  <2> DEFINE v == E - InterestOn(b[k - 1], t)
             w == b[k - 1]
  <2>2. v \in Int /\ w \in Int
    BY <1>4, <1>5, <2>1
  <2>3. Part(p, t, n, k, b[k - 1]) = Min({v, w})
    BY <2>1 DEF Part
  <2>4. Part(p, t, n, k, b[k - 1]) = w
    <3> HIDE DEF v, w
    <3>1. Min({v, w}) \in {v, w}
      BY <2>2, MinOfTwo
    <3> QED
      BY <2>3, <3>1 DEF v
  <2>5. b[k] = 0
    BY <1>1, <2>1, <2>2, <2>4
  <2>6. Part(p, t, n, k + 1, 0) > 0
    <3>1. rows[k + 1].principal > 0
          /\ rows[k + 1].principal = Part(p, t, n, k + 1, b[k + 1 - 1])
      BY <1>3, <2>1
    <3> QED
      BY <2>1, <2>5, <3>1
  <2>7. Part(p, t, n, k + 1, 0) \in Int /\ Part(p, t, n, k + 1, 0) <= 0
    BY <2>1, PartTyped
  <2> QED
    BY <2>6, <2>7
<1>8. \A k \in 1 .. n - 1 : Asked(rows[k]) = E
  <2> SUFFICES ASSUME NEW k \in 1 .. n - 1 PROVE Asked(rows[k]) = E
    OBVIOUS
  <2>1. k \in 1 .. n /\ k - 1 \in 0 .. n
    OBVIOUS
  <2>2. InterestOn(b[k - 1], t) \in Nat
    BY <1>5, <2>1
  <2> QED
    BY <1>3, <1>4, <1>7, <2>1, <2>2 DEF Asked
<1>9. Asked(rows[n]) = b[n - 1] + InterestOn(b[n - 1], t)
  <2>1. n \in 1 .. n
    OBVIOUS
  <2> QED
    BY <1>3, <2>1 DEF Asked, Part
<1> DEFINE c == [k \in 0 .. n |-> IF k < n THEN b[k] ELSE Asked(rows[n]) - E]
           R == Roundings(t, n)
<1>10. R \in Nat /\ c[n] \in - R .. R
  <2>1. \A k \in 0 .. n - 1 : c[k] = b[k] /\ c[k] \in Nat
    BY <1>5
  <2>2. n - 1 \in 0 .. n - 1 /\ n \in 0 .. n /\ 0 \in 0 .. n - 1
    OBVIOUS
  <2>3. c[n] = b[n - 1] + InterestOn(b[n - 1], t) - E
    <3>1. c[n] = Asked(rows[n]) - E
      BY <2>2
    <3>2. InterestOn(b[n - 1], t) \in Nat /\ b[n - 1] \in Nat
      BY <1>5, <2>2
    <3> HIDE DEF c, E
    <3> QED
      BY <1>4, <1>9, <3>1, <3>2
  <2>4. c[n] \in Int /\ c[0] = p
    <3>1. InterestOn(b[n - 1], t) \in Nat /\ b[n - 1] \in Nat
      BY <1>5, <2>2
    <3> QED
      BY <1>1, <1>4, <2>1, <2>2, <2>3, <3>1
  <2>5. \A k \in 0 .. n - 1 : c[k + 1] = c[k] + InterestOn(c[k], t) - E
    <3> SUFFICES ASSUME NEW k \in 0 .. n - 1
                 PROVE  c[k + 1] = c[k] + InterestOn(c[k], t) - E
      OBVIOUS
    <3>1. c[k] = b[k]
      BY <2>1
    <3>2. CASE k = n - 1
      BY <2>3, <3>1, <3>2
    <3>3. CASE k # n - 1
      <4>1. k + 1 \in 1 .. n - 1 /\ k + 1 \in 1 .. n /\ k + 1 - 1 = k /\ k \in 0 .. n
            /\ k + 1 \in 0 .. n - 1
        BY <3>3
      <4>2. b[k + 1] = b[k] - Part(p, t, n, k + 1, b[k])
        BY <1>1, <4>1
      <4>3. Part(p, t, n, k + 1, b[k]) = E - InterestOn(b[k], t)
        BY <1>7, <4>1
      <4>4. b[k] \in Nat /\ InterestOn(b[k], t) \in Nat
        BY <1>5, <4>1
      <4>5. c[k + 1] = b[k + 1]
        BY <2>1, <4>1
      <4> QED
        BY <1>4, <3>1, <4>2, <4>3, <4>4, <4>5
    <3> QED
      BY <3>2, <3>3
  <2> HIDE DEF c, E
  <2>6. \A k \in 0 .. n - 1 : c[k] \in Nat
    BY <2>1
  <2>7. \A k \in 0 .. n - 1 : c[k + 1] = c[k] + InterestOn(c[k], t) - Emi(p, t, n)
    BY <2>5 DEF E
  <2> QED
    BY <2>4, <2>6, <2>7, RestIsSmall
<1>11. \A k \in 1 .. n : Asked(rows[k]) - Asked(rows[1]) \in - R .. R
  <2> SUFFICES ASSUME NEW k \in 1 .. n PROVE Asked(rows[k]) - Asked(rows[1]) \in - R .. R
    OBVIOUS
  <2>1. CASE n = 1
    <3>1. Asked(rows[1]) \in Nat
      BY <1>5, <1>9, <2>1
    <3>2. k = 1 /\ 0 \in - R .. R
      BY <1>10, <2>1
    <3> HIDE DEF R
    <3> QED
      BY <3>1, <3>2
  <2>2. CASE n # 1
    <3>1. 1 \in 1 .. n - 1
      BY <2>2
    <3>2. Asked(rows[1]) = E
      BY <1>8, <3>1
    <3>3. c[n] = Asked(rows[n]) - E
      OBVIOUS
    <3>4. k = n \/ k \in 1 .. n - 1
      OBVIOUS
    <3> HIDE DEF R, c, E
    <3>5. 0 \in - R .. R /\ E - E = 0
      BY <1>4, <1>10
    <3> QED
      BY <1>8, <1>10, <3>2, <3>3, <3>4, <3>5 DEF E
  <2> QED
    BY <2>1, <2>2
<1> HIDE DEF R
<1>12. Level(rows, t, n)
  BY <1>2, <1>11 DEF Level, R
<1> QED
  BY <1>12 DEF rows

\* The rows of a loan without a price repay it too, in whole paise.
LEMMA BuiltRowsRepay ==
    ASSUME NEW p \in Nat, NEW n \in Nat \ {0}, n <= p,
           NEW interval \in Nat, NEW yearly \in Nat
    PROVE  LET rows == BuildSchedule(p, n, interval, yearly)
           IN  /\ DOMAIN rows = 1 .. n
               /\ Principal(rows) = p
               /\ \A k \in 1 .. n : rows[k].principal > 0 /\ rows[k].interest \in Nat
<1> DEFINE base == p \div n
           extra == p % n
           PartOf(k) == base + (IF k > n - extra THEN 1 ELSE 0)
           remaining == CHOOSE f : f = [k \in 1 .. n |-> IF k = 1 THEN p
                                            ELSE f[k - 1] - PartOf(k - 1)]
           rows == BuildSchedule(p, n, interval, yearly)
           \* what is left after k rows
           Left(k) == p - k * base - (IF k > n - extra THEN k - (n - extra) ELSE 0)
           left == [k \in 0 .. n |-> Left(k)]
<1>1. rows = [k \in 1 .. n |->
                 [principal |-> PartOf(k),
                  interest |-> HalfEven(remaining[k] * yearly * interval, 36500)]]
  BY DEF BuildSchedule
<1>2. base \in Nat /\ extra \in 0 .. n - 1 /\ p = n * base + extra
  OBVIOUS
<1>3. base > 0
  <2>1. base = 0 => p = extra
    BY <1>2
  <2> QED
    BY <1>2, <2>1
<1> HIDE DEF base, extra, rows
<1>4. /\ Left(0) = p /\ Left(n) = 0
      /\ \A k \in 0 .. n : Left(k) \in Int
  BY <1>2
<1>5. \A k \in 1 .. n : PartOf(k) = Left(k - 1) - Left(k)
  <2> SUFFICES ASSUME NEW k \in 1 .. n PROVE PartOf(k) = Left(k - 1) - Left(k)
    OBVIOUS
  <2>1. k * base = (k - 1) * base + base
    BY <1>2
  <2>2. k * base \in Int /\ (k - 1) * base \in Int
    BY <1>2
  <2> DEFINE x == k * base
             y == (k - 1) * base
  <2> HIDE DEF x, y
  <2>3. x = y + base /\ x \in Int /\ y \in Int
    BY <2>1, <2>2 DEF x, y
  <2>4. Left(k) = p - x - (IF k > n - extra THEN k - (n - extra) ELSE 0)
    BY DEF x
  <2>5. Left(k - 1) = p - y - (IF k - 1 > n - extra THEN k - 1 - (n - extra) ELSE 0)
    BY DEF y
  <2> QED
    BY <1>2, <2>3, <2>4, <2>5
<1>6. \A k \in 1 .. n : PartOf(k) \in Nat /\ PartOf(k) > 0
  BY <1>2, <1>3
<1> HIDE DEF PartOf, Left
<1>7. left = [k \in 0 .. n |-> Left(k)]
  OBVIOUS
<1>8. remaining = [k \in 1 .. n |-> IF k = 1 THEN p ELSE remaining[k - 1] - PartOf(k - 1)]
  <2> DEFINE f == [k \in 1 .. n |-> Left(k - 1)]
  <2>1. \A k \in 1 .. n : f[k] = IF k = 1 THEN p ELSE f[k - 1] - PartOf(k - 1)
    <3> SUFFICES ASSUME NEW k \in 1 .. n
                 PROVE  f[k] = IF k = 1 THEN p ELSE f[k - 1] - PartOf(k - 1)
      OBVIOUS
    <3>1. CASE k = 1
      BY <1>4, <3>1
    <3>2. CASE k # 1
      <4>1. k - 1 \in 1 .. n /\ k - 1 \in 0 .. n /\ k - 1 - 1 \in 0 .. n
        BY <3>2
      <4>2. f[k] = Left(k - 1) /\ f[k - 1] = Left(k - 1 - 1)
        BY <4>1
      <4>3. PartOf(k - 1) = Left(k - 1 - 1) - Left(k - 1)
        BY <1>5, <4>1
      <4>4. Left(k - 1) \in Int /\ Left(k - 1 - 1) \in Int
        BY <1>4, <4>1
      <4> QED
        BY <3>2, <4>2, <4>3, <4>4
    <3> QED
      BY <3>1, <3>2
  <2>2. f = [k \in 1 .. n |-> IF k = 1 THEN p ELSE f[k - 1] - PartOf(k - 1)]
    BY <2>1
  <2> QED
    BY <2>2
<1> HIDE DEF remaining
<1>9. remaining[1] = p /\ \A k \in 2 .. n : remaining[k] = remaining[k - 1] - PartOf(k - 1)
  BY <1>8
<1> DEFINE S == {k \in 0 .. n : \A j \in 1 .. k : remaining[j] = Left(j - 1)}
<1>10. 0 \in S
  OBVIOUS
<1>11. \A k \in 0 .. n - 1 : k \in S => k + 1 \in S
  <2> SUFFICES ASSUME NEW k \in 0 .. n - 1,
                      \A j \in 1 .. k : remaining[j] = Left(j - 1)
               PROVE  \A j \in 1 .. k + 1 : remaining[j] = Left(j - 1)
    OBVIOUS
  <2>1. CASE k = 0
    <3>1. \A j \in 1 .. k + 1 : j = 1 /\ j - 1 = 0
      BY <2>1
    <3>2. Left(1 - 1) = Left(0)
      OBVIOUS
    <3> QED
      BY <1>4, <1>9, <3>1, <3>2
  <2>2. CASE k # 0
    <3>1. k + 1 \in 2 .. n /\ k + 1 - 1 = k /\ k \in 1 .. n /\ k \in 1 .. k
          /\ k \in 0 .. n /\ k - 1 \in 0 .. n
      BY <2>2
    <3>2. remaining[k + 1] = remaining[k] - PartOf(k) /\ remaining[k] = Left(k - 1)
      BY <1>9, <3>1
    <3>3. PartOf(k) = Left(k - 1) - Left(k) /\ Left(k - 1) \in Int /\ Left(k) \in Int
      BY <1>4, <1>5, <3>1
    <3>4. remaining[k + 1] = Left(k + 1 - 1)
      BY <3>1, <3>2, <3>3
    <3>5. \A j \in 1 .. k + 1 : j = k + 1 \/ j \in 1 .. k
      OBVIOUS
    <3> QED
      BY <3>4, <3>5
  <2> QED
    BY <2>1, <2>2
<1> HIDE DEF S
<1>12. \A k \in 0 .. n : k \in S
  BY <1>10, <1>11, CountUp
<1>13. \A k \in 1 .. n : remaining[k] = Left(k - 1)
  <2>1. n \in S
    BY <1>12
  <2> QED
    BY <2>1 DEF S
<1> DEFINE R == {k \in 0 .. n : Left(n - k) >= 0}
<1>14. 0 \in R
  <2>1. n - 0 = n
    OBVIOUS
  <2> QED
    BY <1>4, <2>1
<1>15. \A k \in 0 .. n - 1 : k \in R => k + 1 \in R
  <2> SUFFICES ASSUME NEW k \in 0 .. n - 1, Left(n - k) >= 0 PROVE Left(n - (k + 1)) >= 0
    OBVIOUS
  <2> DEFINE j == n - k
  <2>1. j \in 1 .. n /\ j \in 0 .. n /\ j - 1 \in 0 .. n /\ n - (k + 1) = j - 1
    OBVIOUS
  <2> HIDE DEF j
  <2>2. Left(j) >= 0
    BY DEF j
  <2>3. PartOf(j) = Left(j - 1) - Left(j) /\ PartOf(j) \in Nat
        /\ Left(j - 1) \in Int /\ Left(j) \in Int
    BY <1>4, <1>5, <1>6, <2>1
  <2> QED
    BY <2>1, <2>2, <2>3
<1> HIDE DEF R
<1>16. \A k \in 0 .. n : k \in R
  BY <1>14, <1>15, CountUp
<1>17. \A k \in 0 .. n : Left(k) \in Nat
  <2> SUFFICES ASSUME NEW k \in 0 .. n PROVE Left(k) \in Nat
    OBVIOUS
  <2>1. n - k \in 0 .. n /\ n - (n - k) = k
    OBVIOUS
  <2>2. Left(k) >= 0
    BY <1>16, <2>1 DEF R
  <2> QED
    BY <1>4, <2>2
<1>18. \A k \in 1 .. n : rows[k].interest \in Nat /\ rows[k].principal = PartOf(k)
  <2> SUFFICES ASSUME NEW k \in 1 .. n
               PROVE  rows[k].interest \in Nat /\ rows[k].principal = PartOf(k)
    OBVIOUS
  <2>1. k - 1 \in 0 .. n
    OBVIOUS
  <2>2. remaining[k] \in Nat
    BY <1>13, <1>17, <2>1
  <2>3. remaining[k] * yearly * interval \in Nat
    BY <2>2
  <2>4. HalfEven(remaining[k] * yearly * interval, 36500) \in Nat
    BY <2>3, HalfEvenTyped
  <2> QED
    BY <1>1, <2>4
<1> DEFINE part == [k \in 1 .. n |-> rows[k].principal]
<1>19. DOMAIN rows = 1 .. n
  BY <1>1
<1>20. Principal(rows) = Added(part, 1 .. n)
  BY <1>19 DEF Principal, SumOf, Added
<1>21. \A k \in 1 .. n : part[k] \in Int /\ part[k] = left[k - 1] - left[k]
  <2> SUFFICES ASSUME NEW k \in 1 .. n
               PROVE  part[k] \in Int /\ part[k] = left[k - 1] - left[k]
    OBVIOUS
  <2>1. k - 1 \in 0 .. n /\ k \in 0 .. n
    OBVIOUS
  <2>2. left[k - 1] = Left(k - 1) /\ left[k] = Left(k)
    BY <2>1
  <2>3. part[k] = PartOf(k)
    BY <1>18
  <2> QED
    BY <1>5, <1>6, <2>2, <2>3
<1>22. left[0] = p /\ left[n] = 0 /\ \A k \in 0 .. n : left[k] \in Int
  <2>1. 0 \in 0 .. n /\ n \in 0 .. n
    OBVIOUS
  <2> QED
    BY <1>4, <2>1
<1> HIDE DEF part, left
<1>23. Added(part, 1 .. n) = left[0] - left[n]
  <2>1. n \in Nat /\ \A k \in 0 .. n : left[k] \in Int
    BY <1>22
  <2>2. /\ \A k \in 1 .. n : part[k] \in Int
        /\ \A k \in 1 .. n : part[k] = left[k - 1] - left[k]
    BY <1>21
  <2> QED
    BY <2>1, <2>2, AddedDown
<1> QED
  BY <1>6, <1>18, <1>19, <1>20, <1>22, <1>23 DEF rows

\* The rows of a schedule as its theorem wants them.
RowsRepay(rows, p) ==
    /\ Principal(rows) = p
    /\ \A k \in DOMAIN rows : rows[k].principal > 0 /\ rows[k].interest >= 0

\* A loan once drafted keeps its terms, and they can be repaid.
LoanSound ==
    /\ loan.kind \in {"none", "unpriced", "priced"}
    /\ loan.kind = "none" <=> loan = NoLoan
    /\ loan.kind # "none" =>
           loan.principal \in Nat \ {0} /\ loan.months \in Nat \ {0}
    /\ loan.kind = "priced" =>
           PriceTerms(loan.terms) /\ MayQuote(loan.principal, loan.terms, loan.months)

\* The customer owes in the ledger what was paid out and did not come back.
LedgerSound ==
    /\ payout = "paid" => loan.kind # "none"
    /\ ledger["LOAN_PRINCIPAL"] = IF payout = "paid" THEN loan.principal ELSE 0

ScheduleSound ==
    /\ \E s, rows : schedule = [status |-> s, rows |-> rows]
    /\ schedule.status = "none" => schedule.rows = << >>
    /\ schedule.status # "none" =>
           loan.kind # "none" /\ RowsRepay(schedule.rows, loan.principal)

LoanIInv == PriceIInv /\ LoanSound /\ LedgerSound /\ ScheduleSound

LEMMA RowsForRepay ==
    ASSUME LoanSound, loan.kind # "none", NEW n \in 1 .. MaxMonths,
           NEW interval \in {15, 30}, NEW yearly \in {0, 24},
           IF loan.kind = "priced" THEN n = loan.months /\ interval = 30
           ELSE interval * n <= 30 * loan.months /\ Amount >= n
    PROVE  /\ RowsRepay(RowsFor(n, interval, yearly), loan.principal)
           /\ loan.kind = "priced" =>
                  Level(RowsFor(n, interval, yearly), loan.terms, loan.months)
<1>1. CASE loan.kind = "priced"
  <2> DEFINE rows == EmiSchedule(loan.principal, loan.terms, loan.months)
  <2>1. /\ loan.principal \in Nat /\ loan.months \in Nat \ {0}
        /\ PriceTerms(loan.terms)
    BY <1>1 DEF LoanSound
  <2>2. \A k \in 1 .. loan.months : rows[k].principal > 0
    BY <1>1 DEF LoanSound, MayQuote
  <2>3. /\ DOMAIN rows = 1 .. loan.months /\ Principal(rows) = loan.principal
        /\ \A k \in 1 .. loan.months : rows[k].interest \in Nat
    BY <2>1, EmiRowsRepay
  <2>4. RowsFor(n, interval, yearly) = rows
    BY <1>1 DEF RowsFor
  <2>5. Level(rows, loan.terms, loan.months)
    BY <2>1, <2>2, EmiRowsLevel
  <2> HIDE DEF rows
  <2> QED
    BY <2>2, <2>3, <2>4, <2>5 DEF RowsRepay
<1>2. CASE loan.kind # "priced"
  <2> DEFINE rows == BuildSchedule(loan.principal, n, interval, yearly)
  <2>0. RowsFor(n, interval, yearly) = rows
    BY <1>2 DEF RowsFor, Amount
  <2>1. n <= loan.principal
    BY <1>2 DEF Amount, LoanSound
  <2>2. loan.principal \in Nat /\ n \in Nat \ {0} /\ interval \in Nat /\ yearly \in Nat
    BY PricingAssumption DEF LoanSound
  <2>3. /\ DOMAIN rows = 1 .. n /\ Principal(rows) = loan.principal
        /\ \A k \in 1 .. n : rows[k].principal > 0 /\ rows[k].interest \in Nat
    <3> DEFINE p == loan.principal
    <3>1. p \in Nat /\ n <= p
      BY <2>1, <2>2
    <3> HIDE DEF p
    <3>2. LET r == BuildSchedule(p, n, interval, yearly)
          IN  /\ DOMAIN r = 1 .. n
              /\ Principal(r) = p
              /\ \A k \in 1 .. n : r[k].principal > 0 /\ r[k].interest \in Nat
      BY <2>2, <3>1, BuiltRowsRepay
    <3> QED
      BY <3>2 DEF p
  <2> HIDE DEF rows
  <2> QED
    BY <1>2, <2>0, <2>3 DEF RowsRepay
<1> QED
  BY <1>1, <1>2

LEMMA LastExists ==
    ASSUME PriceIInv, NEW d, Valid(d) # {}
    PROVE  \E w : w \in LastOf(d)
<1> DEFINE D == Valid(d)
           N == Len(prices)
           F == {prices[w].from : w \in D}
           top == Max(F)
           E == {w \in D : prices[w].from = top}
<1>1. N \in Nat /\ D \in SUBSET (1 .. N)
  BY DEF Valid, PriceIInv
<1>2. \A w \in D : prices[w].from \in 1 .. MaxToday
  <2>1. \A w \in D : prices[w] \in PriceRecord
    BY DEF Valid, PriceIInv
  <2> QED
    BY <2>1 DEF PriceRecord
<1>3. top \in F /\ \A x \in F : top >= x
  <2>1. F \in SUBSET (0 .. MaxToday) /\ F # {} /\ MaxToday \in Nat
    BY <1>2, PricingAssumption
  <2> HIDE DEF F
  <2> QED
    BY <2>1, MaxUpTo
<1> HIDE DEF top
<1>4. Max(E) \in E /\ \A w \in E : Max(E) >= w
  <2>1. E \in SUBSET (0 .. N) /\ E # {}
    BY <1>1, <1>3
  <2> HIDE DEF E
  <2> QED
    BY <1>1, <2>1, MaxUpTo
<1> DEFINE v == Max(E)
<1> HIDE DEF v
<1>5. v \in E /\ \A w \in E : v >= w
  BY <1>4 DEF v
<1>6. \A w \in D : \/ prices[w].from < prices[v].from
                   \/ prices[w].from = prices[v].from /\ w <= v
  <2> SUFFICES ASSUME NEW w \in D
               PROVE  \/ prices[w].from < prices[v].from
                      \/ prices[w].from = prices[v].from /\ w <= v
    OBVIOUS
  <2>1. prices[v].from = top /\ v \in Nat /\ w \in Nat
    BY <1>1, <1>5
  <2>2. top >= prices[w].from /\ top \in Nat /\ prices[w].from \in Nat
    BY <1>2, <1>3
  <2>3. prices[w].from = top => v >= w
    BY <1>5
  <2> QED
    BY <2>1, <2>2, <2>3
<1> QED
  BY <1>5, <1>6 DEF LastOf

LEMMA DraftSound ==
    ASSUME LoanIInv, NEW p \in Principals, NEW n \in 1 .. MaxMonths, DraftOffer(p, n)
    PROVE  LoanSound' /\ loan = NoLoan
<1> DEFINE v == PriceInForce(today)
<1>1. loan = NoLoan /\ p \in Nat \ {0} /\ n \in Nat \ {0}
  BY PricingAssumption DEF DraftOffer
<1>2. CASE v = 0 /\ loan' = [kind |-> "unpriced", principal |-> p, months |-> n]
  BY <1>1, <1>2 DEF LoanSound, NoLoan
<1>3. CASE /\ v # 0 /\ MayQuote(p, prices[v].terms, n)
           /\ loan' = [kind |-> "priced", principal |-> p, months |-> n,
                       terms |-> prices[v].terms, net |-> Net(p, prices[v].terms)]
  <2>1. v \in Valid(today)
    <3>1. v = IF Valid(today) = {} THEN 0 ELSE CHOOSE w : w \in LastOf(today)
      BY InForceIsLast
    <3>2. Valid(today) # {} /\ \E w : w \in LastOf(today)
      BY <1>3, <3>1, LastExists DEF LoanIInv
    <3> QED
      BY <1>3, <3>1, <3>2 DEF LastOf
  <2>2. prices[v] \in PriceRecord
    BY <2>1 DEF Valid, LoanIInv, PriceIInv
  <2>3. PriceTerms(prices[v].terms)
    BY <2>2, PricingAssumption DEF PriceRecord, PriceTerms
  <2> HIDE DEF v
  <2> QED
    BY <1>1, <1>3, <2>3 DEF LoanSound, NoLoan
<1> QED
  BY <1>2, <1>3 DEF DraftOffer

\* What may happen to a loan.
LEMMA LoanCases ==
    ASSUME [PricingNext]_pricingVars
    PROVE  \/ UNCHANGED <<loan, payout, ledger, schedule>>
           \/ \E p \in Principals, n \in 1 .. MaxMonths : DraftOffer(p, n)
           \/ PayOut \/ PayBack
           \/ \E n \in 1 .. MaxMonths, interval \in {15, 30}, yearly \in {0, 24} :
                 CreateSchedule(n, interval, yearly)
           \/ ActivateSchedule \/ CancelSchedule
<1>1. \A a \in PriceAdmins, t \in Terms, d \in 1 .. MaxToday :
          CreatePrice(a, t, d) => UNCHANGED <<loan, payout, ledger, schedule>>
  BY DEF CreatePrice
<1>2. \A v : \/ RejectPrice(v)
             \/ \E a \in PriceAdmins : ApprovePrice(a, v)
             => UNCHANGED <<loan, payout, ledger, schedule>>
  BY DEF RejectPrice, ApprovePrice
<1> QED
  BY <1>1, <1>2 DEF PricingNext, pricingVars, NextDay

LEMMA LoanStep ==
    ASSUME LoanIInv, [PricingNext]_pricingVars, PriceIInv'
    PROVE  LoanIInv'
<1> USE DEF LoanIInv
<1> SUFFICES LoanSound' /\ LedgerSound' /\ ScheduleSound'
  OBVIOUS
<1>1. ASSUME NEW p \in Principals, NEW n \in 1 .. MaxMonths, DraftOffer(p, n)
      PROVE  LoanSound' /\ LedgerSound' /\ ScheduleSound'
  <2>1. LoanSound' /\ loan = NoLoan
    BY <1>1, DraftSound
  <2>2. UNCHANGED <<payout, ledger, schedule>>
    BY <1>1 DEF DraftOffer
  <2>3. loan.kind = "none"
    BY <2>1 DEF NoLoan
  <2>4. payout # "paid" /\ schedule.status = "none"
    BY <2>3 DEF LedgerSound, ScheduleSound
  <2>5. LedgerSound'
    BY <2>2, <2>4 DEF LedgerSound
  <2>6. ScheduleSound'
    BY <2>2, <2>4 DEF ScheduleSound
  <2> QED
    BY <2>1, <2>5, <2>6
<1>2. PayoutLines["LOAN_PRINCIPAL"] = loan.principal
  BY Zenon DEF PayoutLines, LedgerAccounts
<1>3. CASE PayOut
  <2>1. LoanSound' /\ ScheduleSound'
    BY <1>3 DEF PayOut, LoanSound, ScheduleSound
  <2>2. loan.kind # "none" /\ loan.principal \in Nat
    BY <1>3 DEF PayOut, LoanSound
  <2>3. LedgerSound'
    BY <1>2, <1>3, <2>2 DEF PayOut, LedgerSound, LedgerAccounts
  <2> QED
    BY <2>1, <2>3
<1>4. CASE PayBack
  <2>1. LoanSound' /\ ScheduleSound'
    BY <1>4 DEF PayBack, LoanSound, ScheduleSound
  <2>2. loan.kind # "none" /\ loan.principal \in Nat
    BY <1>4 DEF PayBack, LedgerSound, LoanSound
  <2>3. LedgerSound'
    BY <1>2, <1>4, <2>2 DEF PayBack, LedgerSound, LedgerAccounts
  <2> QED
    BY <2>1, <2>3
<1>5. ASSUME NEW n \in 1 .. MaxMonths, NEW interval \in {15, 30},
             NEW yearly \in {0, 24}, CreateSchedule(n, interval, yearly)
      PROVE  LoanSound' /\ LedgerSound' /\ ScheduleSound'
  <2> DEFINE rows == RowsFor(n, interval, yearly)
  <2>1. loan.kind # "none" /\ UNCHANGED <<loan, payout, ledger>>
    BY <1>5 DEF CreateSchedule, LedgerSound
  <2>2. RowsRepay(rows, loan.principal)
    BY <1>5, <2>1, RowsForRepay DEF CreateSchedule
  <2>3. schedule' = [status |-> "DRAFT", rows |-> rows]
    BY <1>5 DEF CreateSchedule
  <2> HIDE DEF rows
  <2>4. ScheduleSound'
    BY <2>1, <2>2, <2>3 DEF ScheduleSound
  <2> QED
    BY <2>1, <2>4 DEF LoanSound, LedgerSound
<1>6. CASE ActivateSchedule \/ CancelSchedule
  <2>1. UNCHANGED <<loan, payout, ledger>> /\ schedule.status = "DRAFT"
    BY <1>6 DEF ActivateSchedule, CancelSchedule
  <2>2. PICK s, rows : schedule = [status |-> s, rows |-> rows]
    BY DEF ScheduleSound
  <2>3. \E s1 : schedule' = [status |-> s1, rows |-> rows]
    <3>1. \A s1 : [schedule EXCEPT !.status = s1] = [status |-> s1, rows |-> rows]
      BY <2>2
    <3> QED
      BY <1>6, <3>1 DEF ActivateSchedule, CancelSchedule
  <2>4. schedule'.rows = schedule.rows /\ schedule.status # "none"
    BY <2>1, <2>2, <2>3
  <2>5. /\ \E s1, r1 : schedule' = [status |-> s1, rows |-> r1]
        /\ schedule'.status # "none"
    BY <1>6, <2>2, <2>3 DEF ActivateSchedule, CancelSchedule
  <2>6. loan.kind # "none" /\ RowsRepay(schedule.rows, loan.principal)
    BY <2>4 DEF ScheduleSound
  <2>7. loan'.kind # "none" /\ RowsRepay(schedule'.rows, loan'.principal)
    BY <2>1, <2>4, <2>6
  <2>8. ScheduleSound'
    BY <2>5, <2>7 DEF ScheduleSound
  <2> QED
    BY <2>1, <2>8 DEF LoanSound, LedgerSound
<1>7. CASE UNCHANGED <<loan, payout, ledger, schedule>>
  BY <1>7 DEF LoanSound, LedgerSound, ScheduleSound
<1>8. \/ UNCHANGED <<loan, payout, ledger, schedule>>
      \/ \E p \in Principals, n \in 1 .. MaxMonths : DraftOffer(p, n)
      \/ PayOut \/ PayBack
      \/ \E n \in 1 .. MaxMonths, interval \in {15, 30}, yearly \in {0, 24} :
            CreateSchedule(n, interval, yearly)
      \/ ActivateSchedule \/ CancelSchedule
  BY LoanCases
<1> QED
  BY <1>1, <1>3, <1>4, <1>5, <1>6, <1>7, <1>8

LEMMA LoanInvariant == PricingSpec => []LoanIInv
<1>1. PricingInit => LoanIInv
  <2> SUFFICES ASSUME PricingInit PROVE LoanIInv
    OBVIOUS
  <2>1. PriceIInv
    BY DEF PricingInit, PriceIInv
  <2>2. LoanSound /\ LedgerSound
    BY DEF PricingInit, LoanSound, LedgerSound, NoLoan, LedgerAccounts
  <2>3. schedule = [status |-> "none", rows |-> << >>]
    BY DEF PricingInit, NoSchedule
  <2>4. schedule.status = "none" /\ schedule.rows = << >>
    BY <2>3
  <2>5. ScheduleSound
    BY <2>3, <2>4 DEF ScheduleSound
  <2> QED
    BY <2>1, <2>2, <2>5 DEF LoanIInv
<1>2. LoanIInv /\ PriceIInv' /\ [PricingNext]_pricingVars => LoanIInv'
  BY LoanStep
<1> QED
  BY <1>1, <1>2, PriceInvariant, PTL DEF PricingSpec

\* Whatever the rate and the number of months, the last instalment of a priced
\* loan is as far from the others as rounding explains and no further
\* (domain/pricing.py emi_schedule, which lets it absorb the remainder).
THEOREM RowsAreLevel == PricingSpec => []InstalmentsAreLevel
<1>1. PricingInit => InstalmentsAreLevel
  BY DEF PricingInit, InstalmentsAreLevel, NoLoan
<1>2. LoanIInv /\ InstalmentsAreLevel /\ [PricingNext]_pricingVars => InstalmentsAreLevel'
  <2> SUFFICES ASSUME LoanIInv, InstalmentsAreLevel, [PricingNext]_pricingVars
               PROVE  InstalmentsAreLevel'
    OBVIOUS
  <2>1. ASSUME NEW p \in Principals, NEW n \in 1 .. MaxMonths, DraftOffer(p, n)
        PROVE  InstalmentsAreLevel'
    <3>1. loan = NoLoan /\ UNCHANGED schedule
      BY <2>1 DEF DraftOffer
    <3>2. schedule.rows = << >>
      BY <3>1 DEF LoanIInv, ScheduleSound, NoLoan
    <3>3. DOMAIN schedule.rows = {}
      BY <3>2
    <3> QED
      BY <3>1, <3>3 DEF InstalmentsAreLevel, Level
  <2>2. ASSUME NEW n \in 1 .. MaxMonths, NEW interval \in {15, 30},
               NEW yearly \in {0, 24}, CreateSchedule(n, interval, yearly)
        PROVE  InstalmentsAreLevel'
    <3> DEFINE rows == RowsFor(n, interval, yearly)
    <3>1. loan.kind # "none" /\ UNCHANGED loan /\ LoanSound
      BY <2>2 DEF CreateSchedule, LoanIInv, LedgerSound
    <3>2. loan.kind = "priced" => Level(rows, loan.terms, loan.months)
      BY <2>2, <3>1, RowsForRepay DEF CreateSchedule
    <3>3. schedule'.rows = rows
      BY <2>2 DEF CreateSchedule
    <3> HIDE DEF rows
    <3> QED
      BY <3>1, <3>2, <3>3 DEF InstalmentsAreLevel
  <2>3. CASE ActivateSchedule \/ CancelSchedule
    <3>1. UNCHANGED loan /\ schedule'.rows = schedule.rows
      <4>1. PICK s, r : schedule = [status |-> s, rows |-> r]
        BY DEF LoanIInv, ScheduleSound
      <4>2. \A s1 : [schedule EXCEPT !.status = s1] = [status |-> s1, rows |-> r]
        BY <4>1
      <4>3. \E s1 : schedule' = [status |-> s1, rows |-> r]
        BY <2>3, <4>2 DEF ActivateSchedule, CancelSchedule
      <4> QED
        BY <2>3, <4>1, <4>3 DEF ActivateSchedule, CancelSchedule
    <3> QED
      BY <3>1 DEF InstalmentsAreLevel
  <2>4. CASE UNCHANGED <<loan, schedule>>
    BY <2>4 DEF InstalmentsAreLevel
  <2>5. PayOut \/ PayBack => UNCHANGED <<loan, schedule>>
    BY DEF PayOut, PayBack
  <2> QED
    BY <2>1, <2>2, <2>3, <2>4, <2>5, LoanCases
<1> QED
  BY <1>1, <1>2, LoanInvariant, PTL DEF PricingSpec

\* However a loan is priced, drafted, paid out, reversed and scheduled: a
\* schedule asks back what the ledger says is owed, each of its rows repays
\* something, and those of a priced loan are level (services/repayment.py create_schedule, services/ledger.py
\* post_disbursement, domain/pricing.py emi_schedule, domain/repayment.py
\* build_schedule, whose checks of the sum never fail).
THEOREM ScheduleRepays == PricingSpec => []ScheduleAsksWhatIsOwed
<1>1. LoanIInv /\ InstalmentsAreLevel => ScheduleAsksWhatIsOwed
  BY DEF LoanIInv, LedgerSound, ScheduleSound, RowsRepay, ScheduleAsksWhatIsOwed
<1> QED
  BY <1>1, LoanInvariant, RowsAreLevel, PTL

-----------------------------------------------------------------------------
(* Policy.                                                                 *)

NothingYet == [route |-> "MANUAL_REVIEW", matched |-> << >>]
Evaluated == [route : Routes, matched : Seq(Nat)]

\* What evaluating the first n rules must have come to.
Hits(n) == {i \in 1 .. n : Matches(rules[i])}
Stops(n) == {i \in Hits(n) : rules[i].effect \in Blocking}

FirstStop(n, k) == k \in Stops(n) /\ \A j \in Stops(n) : k <= j

Outcome(n, result) ==
    /\ Stops(n) = {} => /\ result.route = "MANUAL_REVIEW"
                        /\ Members(result.matched) = Hits(n)
    /\ Stops(n) # {} => \E k \in Stops(n) :
            /\ FirstStop(n, k)
            /\ result.route = RouteForEffect(rules[k].effect, "none")
            /\ Members(result.matched) = {i \in Hits(n) : i <= k}

\* A stored decision is that outcome for all the rules.
PolicyIInv ==
    /\ rules \in Policies
    /\ decision \in Routes =>
            Outcome(Len(rules), [route |-> decision, matched |-> matched])

LEMMA RulesTyped ==
    ASSUME rules \in Policies
    PROVE  Len(rules) \in Nat /\ \A i \in 1 .. Len(rules) : rules[i].effect \in Effects
<1>1. PICK n \in 0 .. MaxRules : rules \in [1 .. n -> Rule]
  BY DEF Policies
<1>2. n \in Nat
  BY PolicyAssumption
<1>3. Len(rules) = n
  BY <1>1, <1>2
<1> QED
  BY <1>1, <1>2, <1>3 DEF Rule

LEMMA RoutesOfEffects ==
    /\ \A e \in Blocking : \A c : /\ RouteForEffect(e, c) = RouteForEffect(e, "none")
                                  /\ RouteForEffect(e, c) \in Terminal
    /\ \A e \in Effects \ Blocking :
            RouteForEffect(e, "MANUAL_REVIEW") = "MANUAL_REVIEW"
    /\ "MANUAL_REVIEW" \notin Terminal
BY DEF Blocking, Effects, RouteForEffect, Terminal

LEMMA AppendMembers ==
    ASSUME NEW s \in Seq(Nat), NEW x \in Nat
    PROVE  Append(s, x) \in Seq(Nat) /\ Members(Append(s, x)) = Members(s) \cup {x}
BY SeqAppend DEF Members

\* One more rule, and the outcome of the first ones is that of one more.
LEMMA OneMoreRule ==
    ASSUME rules \in Policies, NEW n \in 0 .. Len(rules) - 1,
           NEW r \in Evaluated, Outcome(n, r)
    PROVE  Outcome(n + 1, TryRule(r, n + 1))
<1> DEFINE i == n + 1
           hit == Matches(rules[i])
           stop == hit /\ rules[i].effect \in Blocking
<1>0. n \in Nat /\ i \in 1 .. Len(rules) /\ rules[i].effect \in Effects
  BY RulesTyped
<1>1. /\ Hits(i) = Hits(n) \cup (IF hit THEN {i} ELSE {})
      /\ Stops(i) = Stops(n) \cup (IF stop THEN {i} ELSE {})
  BY <1>0 DEF Hits, Stops
<1>2. \A j \in Hits(n) : j <= n /\ j \in Nat
  BY DEF Hits
<1>2a. \A j \in Stops(n) : j \in Hits(n) /\ rules[j].effect \in Blocking
  BY DEF Stops
<1>3. r.matched \in Seq(Nat) /\ r.route \in Routes
  BY DEF Evaluated
<1>4. CASE Stops(n) # {}
  <2>1. PICK k \in Stops(n) : /\ FirstStop(n, k)
                              /\ r.route = RouteForEffect(rules[k].effect, "none")
                              /\ Members(r.matched) = {j \in Hits(n) : j <= k}
    BY <1>4 DEF Outcome
  <2>2. r.route \in Terminal
    BY <1>2a, <2>1, RoutesOfEffects
  <2>3. TryRule(r, i) = r
    BY <2>2 DEF TryRule
  <2>4. k <= n /\ k \in Nat
    BY <1>0, <1>2, <1>2a DEF Hits
  <2>5. FirstStop(i, k) /\ k \in Stops(i)
    BY <1>0, <1>1, <2>1, <2>4 DEF FirstStop
  <2>6. {j \in Hits(i) : j <= k} = {j \in Hits(n) : j <= k}
    BY <1>0, <1>1, <2>4
  <2> QED
    BY <2>1, <2>3, <2>5, <2>6 DEF Outcome
<1>5. CASE Stops(n) = {}
  <2>1. r.route = "MANUAL_REVIEW" /\ Members(r.matched) = Hits(n)
    BY <1>5 DEF Outcome
  <2>2. CASE ~hit
    <3>1. TryRule(r, i) = r
      BY <2>2 DEF TryRule
    <3> QED
      BY <1>1, <1>5, <2>1, <2>2, <3>1 DEF Outcome
  <2>3. CASE hit
    <3>1. TryRule(r, i) = [route |-> RouteForEffect(rules[i].effect, r.route),
                           matched |-> Append(r.matched, i)]
      BY <2>1, <2>3, RoutesOfEffects DEF TryRule
    <3>2. Members(Append(r.matched, i)) = Hits(i)
      <4>1. Members(Append(r.matched, i)) = Members(r.matched) \cup {i}
        BY <1>0, <1>3, AppendMembers
      <4> QED
        BY <1>1, <2>1, <2>3, <4>1
    <3>r. /\ TryRule(r, i).route = RouteForEffect(rules[i].effect, r.route)
          /\ TryRule(r, i).matched = Append(r.matched, i)
      BY <3>1
    <3>3. CASE rules[i].effect \in Blocking
      <4>1. Stops(i) = {i}
        BY <1>1, <1>5, <2>3, <3>3
      <4>2. FirstStop(i, i)
        BY <1>0, <4>1 DEF FirstStop
      <4>3. {j \in Hits(i) : j <= i} = Hits(i)
        <5>1. \A j \in Hits(i) : j <= i
          BY <1>0, <1>1, <1>2
        <5> QED
          BY <5>1
      <4>4. RouteForEffect(rules[i].effect, r.route) = RouteForEffect(rules[i].effect, "none")
        BY <3>3, RoutesOfEffects
      <4> QED
        BY <3>r, <3>2, <4>1, <4>2, <4>3, <4>4 DEF Outcome
    <3>4. CASE rules[i].effect \notin Blocking
      <4>1. Stops(i) = {}
        BY <1>1, <1>5, <3>4
      <4>2. RouteForEffect(rules[i].effect, r.route) = "MANUAL_REVIEW"
        BY <1>0, <2>1, <3>4, RoutesOfEffects
      <4> QED
        BY <3>r, <3>2, <4>1, <4>2 DEF Outcome
    <3> QED
      BY <3>3, <3>4
  <2> QED
    BY <2>2, <2>3
<1> QED
  BY <1>4, <1>5

LEMMA TryRuleTyped ==
    ASSUME rules \in Policies, NEW r \in Evaluated, NEW i \in 1 .. Len(rules)
    PROVE  TryRule(r, i) \in Evaluated
<1>1. rules[i].effect \in Effects /\ i \in Nat
  BY RulesTyped
<1>2. RouteForEffect(rules[i].effect, r.route) \in Routes
  BY <1>1 DEF RouteForEffect, Routes, Terminal, Evaluated
<1>3. Append(r.matched, i) \in Seq(Nat)
  BY <1>1, AppendMembers DEF Evaluated
<1> QED
  BY <1>2, <1>3 DEF TryRule, Evaluated

LEMMA EvaluationIs ==
    ASSUME rules \in Policies
    PROVE  Evaluation \in Evaluated /\ Outcome(Len(rules), Evaluation)
<1> DEFINE N == Len(rules)
           G == [q \in Evaluated \X (1 .. N) |-> TryRule(q[1], q[2])]
           after == CHOOSE f : f = [i \in 0 .. N |-> IF i = 0 THEN NothingYet
                                                    ELSE TryRule(f[i - 1], i)]
<1>0. N \in Nat
  BY RulesTyped
<1>1. Evaluation = after[N]
  BY DEF Evaluation, NothingYet
<1>2. NothingYet \in Evaluated /\ Outcome(0, NothingYet)
  BY DEF NothingYet, Evaluated, Routes, Outcome, Stops, Hits, Members
<1>3. IsStep(G, N, Evaluated)
  <2>1. \A q \in Evaluated \X (1 .. N) : TryRule(q[1], q[2]) \in Evaluated
    BY TryRuleTyped
  <2> QED
    BY <2>1 DEF IsStep
<1>4. \A r \in Evaluated, i \in 1 .. N : G[<<r, i>>] = TryRule(r, i)
  OBVIOUS
<1> HIDE DEF G
<1>5. PICK f : Recurs(f, NothingYet, G, N, Evaluated)
  BY <1>0, <1>2, <1>3, Recursion
<1>6. f = [i \in 0 .. N |-> IF i = 0 THEN NothingYet ELSE TryRule(f[i - 1], i)]
  <2>1. /\ f \in [0 .. N -> Evaluated] /\ f[0] = NothingYet
        /\ \A i \in 0 .. N : f[i] \in Evaluated
        /\ \A i \in 1 .. N : f[i] = G[<<f[i - 1], i>>]
    BY <1>5 DEF Recurs
  <2>2. \A i \in 1 .. N : f[i] = TryRule(f[i - 1], i)
    <3> SUFFICES ASSUME NEW i \in 1 .. N PROVE f[i] = TryRule(f[i - 1], i)
      OBVIOUS
    <3>1. i - 1 \in 0 .. N
      BY <1>0
    <3>2. f[i - 1] \in Evaluated
      BY <2>1, <3>1
    <3> QED
      BY <1>4, <2>1, <3>2
  <2>3. \A i \in 0 .. N : f[i] = IF i = 0 THEN NothingYet ELSE TryRule(f[i - 1], i)
    BY <1>0, <2>1, <2>2
  <2> QED
    BY <2>1, <2>3
<1>7. after = [i \in 0 .. N |-> IF i = 0 THEN NothingYet ELSE TryRule(after[i - 1], i)]
  BY <1>6
<1> HIDE DEF after
<1>8. /\ after[0] = NothingYet
      /\ \A n \in 0 .. N - 1 : after[n + 1] = TryRule(after[n], n + 1)
  BY <1>0, <1>7
<1> DEFINE S == {n \in 0 .. N : after[n] \in Evaluated /\ Outcome(n, after[n])}
<1>9. 0 \in S
  BY <1>0, <1>2, <1>8
<1>10. \A n \in 0 .. N - 1 : n \in S => n + 1 \in S
  <2> SUFFICES ASSUME NEW n \in 0 .. N - 1, n \in S PROVE n + 1 \in S
    OBVIOUS
  <2>1. n + 1 \in 1 .. N /\ n + 1 \in 0 .. N
    BY <1>0
  <2>2. TryRule(after[n], n + 1) \in Evaluated
    BY <2>1, TryRuleTyped
  <2>3. Outcome(n + 1, TryRule(after[n], n + 1))
    BY OneMoreRule
  <2> QED
    BY <1>8, <2>1, <2>2, <2>3
<1> HIDE DEF S
<1>11. \A n \in 0 .. N : n \in S
  BY <1>0, <1>9, <1>10, CountUp
<1>12. N \in S
  BY <1>0, <1>11
<1> QED
  BY <1>1, <1>12 DEF S

\* For every version and every application: a stored decision is that of the
\* first rule that matches and blocks, or a review (services/policy_engine.py
\* evaluate, DecisionRouter.route).
THEOREM FirstBlocks == PolicySpec => []FirstBlockingRuleDecides
<1>1. PolicyInit => PolicyIInv
  BY DEF PolicyInit, PolicyIInv, Routes, Terminal
<1>2. PolicyIInv /\ [PolicyNext]_policyVars => PolicyIInv'
  <2> SUFFICES ASSUME PolicyIInv, [PolicyNext]_policyVars PROVE PolicyIInv'
    OBVIOUS
  <2>1. CASE UNCHANGED policyVars
    BY <2>1 DEF PolicyIInv, policyVars, Outcome, FirstStop, Stops, Hits, Matches
  <2>2. CASE Change
    BY <2>2 DEF Change, PolicyIInv, Routes, Terminal
  <2>3. CASE Decide /\ decision' = "raised"
    BY <2>3 DEF Decide, PolicyIInv, Routes, Terminal
  <2>4. CASE Decide /\ decision' # "raised"
    <3>1. /\ decision' = Routed(Evaluation.route) /\ matched' = Evaluation.matched
          /\ UNCHANGED <<rules, facts>>
      BY <2>4 DEF Decide
    <3>2. Evaluation \in Evaluated /\ Outcome(Len(rules), Evaluation)
      BY EvaluationIs DEF PolicyIInv
    <3>3. decision' = Evaluation.route
      BY <3>1, <3>2 DEF Routed, Evaluated, Routes, Terminal
    <3>4. [route |-> decision, matched |-> matched]' = Evaluation
      BY <3>1, <3>2, <3>3 DEF Evaluated
    <3>5. Outcome(Len(rules), [route |-> decision, matched |-> matched])'
      BY <3>1, <3>2, <3>4 DEF Outcome, FirstStop, Stops, Hits, Matches
    <3> QED
      BY <3>1, <3>5 DEF PolicyIInv
  <2> QED
    BY <2>1, <2>2, <2>3, <2>4 DEF PolicyNext
<1>3. PolicyIInv => FirstBlockingRuleDecides
  <2> SUFFICES ASSUME PolicyIInv, decision \in Routes PROVE FirstBlockingRuleDecides
    BY DEF FirstBlockingRuleDecides
  <2> DEFINE N == Len(rules)
  <2>1. /\ Stops(N) = {} => decision = "MANUAL_REVIEW" /\ Members(matched) = Hits(N)
        /\ Stops(N) # {} => \E k \in Stops(N) :
                /\ FirstStop(N, k)
                /\ decision = RouteForEffect(rules[k].effect, "none")
                /\ Members(matched) = {i \in Hits(N) : i <= k}
    BY DEF PolicyIInv, Outcome
  <2>2. CASE Stops(N) = {}
    BY <2>1, <2>2 DEF FirstBlockingRuleDecides, Hits, Stops
  <2>3. CASE Stops(N) # {}
    <3>1. PICK k \in Stops(N) :
              /\ FirstStop(N, k)
              /\ decision = RouteForEffect(rules[k].effect, "none")
              /\ Members(matched) = {i \in Hits(N) : i <= k}
      BY <2>1, <2>3
    <3>2. \A j \in Stops(N) : (\A i \in Stops(N) : j <= i) => j = k
      <4>1. Stops(N) \subseteq Int
        BY DEF Stops, Hits
      <4> QED
        BY <3>1, <4>1 DEF FirstStop
    <3>3. (CHOOSE i \in Stops(N) : \A j \in Stops(N) : i <= j) = k
      BY <3>1, <3>2 DEF FirstStop
    <3> QED
      BY <2>3, <3>1, <3>3 DEF FirstBlockingRuleDecides, Hits, Stops
  <2> QED
    BY <2>2, <2>3
<1> QED
  BY <1>1, <1>2, <1>3, PTL DEF PolicySpec


-----------------------------------------------------------------------------
(* The account: what the model's sums and slots are.                       *)

LEMMA TotalIsAdded == ASSUME NEW f, NEW S PROVE Total(f, S) = Added(f, S)
BY DEF Total, Added

LEMMA SlotsFinite ==
    /\ Cardinality(Instalments) \in Nat /\ Instalments = 1 .. Cardinality(Instalments)
    /\ Cardinality(Slots) = 3 * Cardinality(Instalments)
    /\ Slots = 1 .. Cardinality(Slots) /\ IsFiniteSet(Slots)
    /\ \A S \in SUBSET Slots : IsFiniteSet(S)
<1>1. Cardinality(Instalments) \in Nat /\ Instalments = 1 .. Cardinality(Instalments)
  BY AccountAssumption, FS_CardinalityType DEF Instalments
<1>2. IsFiniteSet(Slots) /\ Cardinality(Slots) = 3 * Cardinality(Instalments)
  <2> DEFINE n == 3 * Cardinality(Instalments)
  <2>1. n \in Nat /\ Slots = 1 .. n
    BY <1>1 DEF Slots
  <2> HIDE DEF n
  <2>2. IsFiniteSet(1 .. n) /\ Cardinality(1 .. n) = n
    BY <2>1, FS_Interval
  <2> QED
    BY <2>1, <2>2 DEF n
<1> QED
  BY <1>1, <1>2, FS_Subset DEF Slots

LEMMA RowSlots ==
    /\ \A s \in Slots : /\ s \in Nat /\ InstalmentOf(s) \in Instalments
                        /\ ComponentOf(s) \in Components
    /\ \A i \in Instalments : FeeSlot(i) \in Row(i) /\ PrincipalSlot(i) \in Row(i)
                              /\ FeeSlot(i) # PrincipalSlot(i)
    /\ \A i, j \in Instalments : i # j => Row(i) \cap Row(j) = {}
    /\ \A i : Row(i) \subseteq Slots
<1>0. Slots = 1 .. 3 * Cardinality(Instalments)
  BY DEF Slots
<1>1. \A s \in Slots : /\ s \in Nat /\ InstalmentOf(s) \in Instalments
                       /\ ComponentOf(s) \in Components
  BY <1>0, SlotsFinite DEF InstalmentOf, ComponentOf, Components
<1>2. \A i \in Instalments : FeeSlot(i) \in Slots /\ PrincipalSlot(i) \in Slots
                             /\ InstalmentOf(FeeSlot(i)) = i
                             /\ InstalmentOf(PrincipalSlot(i)) = i
                             /\ FeeSlot(i) # PrincipalSlot(i)
  <2> SUFFICES ASSUME NEW i \in Instalments
               PROVE  /\ FeeSlot(i) \in Slots /\ PrincipalSlot(i) \in Slots
                      /\ InstalmentOf(FeeSlot(i)) = i
                      /\ InstalmentOf(PrincipalSlot(i)) = i
                      /\ FeeSlot(i) # PrincipalSlot(i)
    OBVIOUS
  <2>1. /\ i \in Nat /\ i >= 1 /\ i <= Cardinality(Instalments)
        /\ Cardinality(Instalments) \in Nat
    BY SlotsFinite
  <2>2. FeeSlot(i) = 3 * i - 2 /\ PrincipalSlot(i) = 3 * i
    BY DEF FeeSlot, PrincipalSlot
  <2>3. (3 * i - 2 - 1) \div 3 = i - 1 /\ (3 * i - 1) \div 3 = i - 1
    BY <2>1
  <2>4. InstalmentOf(FeeSlot(i)) = i /\ InstalmentOf(PrincipalSlot(i)) = i
    BY <2>1, <2>2, <2>3 DEF InstalmentOf
  <2> QED
    BY <1>0, <2>1, <2>2, <2>4
<1> QED
  BY <1>1, <1>2 DEF Row

AmountsOf(f) == f \in [Slots -> Nat]

\* What is left of x after the first slots.
IsLeft(left, x) ==
    /\ left \in [0 .. Cardinality(Slots) -> Int]
    /\ left[0] = x
    /\ \A s \in Slots : left[s] = Larger(0, left[s - 1] - Room(s))

LEMMA AllocateIs ==
    ASSUME AmountsOf(due), AmountsOf(paid), NEW x \in Nat
    PROVE  \E left : /\ IsLeft(left, x)
                     /\ Allocate(x) = [s \in Slots |-> left[s - 1] - left[s]]
<1> DEFINE N == Cardinality(Slots)
           G == [q \in Int \X (1 .. N) |-> Larger(0, q[1] - Room(q[2]))]
           rest == CHOOSE f : f = [s \in 0 .. N |-> IF s = 0 THEN x
                                                   ELSE Larger(0, f[s - 1] - Room(s))]
<1>0. N \in Nat /\ Slots = 1 .. N /\ x \in Int
  BY SlotsFinite
<1>1. Allocate(x) = [s \in Slots |-> rest[s - 1] - rest[s]]
  BY DEF Allocate
<1>2. IsStep(G, N, Int)
  <2>1. \A s \in Slots : Room(s) \in Int
    BY DEF Room, AmountsOf
  <2>2. \A q \in Int \X (1 .. N) : Larger(0, q[1] - Room(q[2])) \in Int
    BY <1>0, <2>1 DEF Larger
  <2> QED
    BY <2>2 DEF IsStep
<1>3. \A r \in Int, s \in 1 .. N : G[<<r, s>>] = Larger(0, r - Room(s))
  OBVIOUS
<1> HIDE DEF G
<1>4. PICK f : Recurs(f, x, G, N, Int)
  BY <1>0, <1>2, Recursion
<1>5. /\ f \in [0 .. N -> Int]
      /\ \A s \in 0 .. N : f[s] = IF s = 0 THEN x ELSE Larger(0, f[s - 1] - Room(s))
  <2>1. /\ f \in [0 .. N -> Int] /\ f[0] = x
        /\ \A s \in 1 .. N : f[s] = G[<<f[s - 1], s>>]
    BY <1>4 DEF Recurs
  <2>2. \A s \in 1 .. N : f[s] = Larger(0, f[s - 1] - Room(s))
    <3> SUFFICES ASSUME NEW s \in 1 .. N PROVE f[s] = Larger(0, f[s - 1] - Room(s))
      OBVIOUS
    <3>1. s - 1 \in 0 .. N
      BY <1>0
    <3>2. f[s - 1] \in Int
      BY <2>1, <3>1
    <3> QED
      BY <1>3, <2>1, <3>2
  <2> QED
    BY <1>0, <2>1, <2>2
<1>6. f = [s \in 0 .. N |-> IF s = 0 THEN x ELSE Larger(0, f[s - 1] - Room(s))]
  BY <1>5
<1>7. rest = [s \in 0 .. N |-> IF s = 0 THEN x ELSE Larger(0, rest[s - 1] - Room(s))]
  BY <1>6
<1> HIDE DEF rest
<1>8. IsLeft(rest, x)
  <2> DEFINE P == {n \in 0 .. N : rest[n] \in Int}
  <2>1. \A s \in 0 .. N : rest[s] = IF s = 0 THEN x ELSE Larger(0, rest[s - 1] - Room(s))
    BY <1>7
  <2>2. rest[0] = x /\ \A s \in 1 .. N : rest[s] = Larger(0, rest[s - 1] - Room(s))
    BY <1>0, <2>1
  <2>3. \A s \in 1 .. N : Room(s) \in Int
    BY <1>0 DEF Room, AmountsOf
  <2>4. 0 \in P
    BY <1>0, <2>2
  <2>5. \A n \in 0 .. N - 1 : n \in P => n + 1 \in P
    <3> SUFFICES ASSUME NEW n \in 0 .. N - 1, rest[n] \in Int PROVE n + 1 \in P
      OBVIOUS
    <3>1. n + 1 \in 1 .. N /\ n + 1 - 1 = n
      BY <1>0
    <3>2. rest[n + 1] = Larger(0, rest[n] - Room(n + 1)) /\ Room(n + 1) \in Int
      BY <2>2, <2>3, <3>1
    <3> QED
      BY <1>0, <3>1, <3>2 DEF Larger
  <2> HIDE DEF P
  <2>6. \A n \in 0 .. N : n \in P
    BY <1>0, <2>4, <2>5, CountUp
  <2>7. \A n \in 0 .. N : rest[n] \in Int
    BY <2>6 DEF P
  <2>8. rest \in [0 .. N -> Int]
    BY <1>7, <2>7
  <2> QED
    BY <1>0, <2>2, <2>8 DEF IsLeft
<1> QED
  BY <1>1, <1>8


\* The waterfall, slot by slot: what has gone into the first n slots is what is
\* no longer left, and if something is left, they are full.
LEMMA WaterfallOf ==
    ASSUME AmountsOf(due), AmountsOf(paid), PaidWithinDue, NEW x \in Nat,
           NEW left, IsLeft(left, x), NEW f, f = [s \in Slots |-> left[s - 1] - left[s]]
    PROVE  /\ \A s \in Slots : f[s] \in Nat /\ f[s] <= Room(s)
           /\ \A s \in Slots : f[s] > 0 => \A t \in 1 .. s - 1 : f[t] = Room(t)
           /\ Added(f, Slots) <= x
           /\ Added(f, Slots) = x \/ \A s \in Slots : f[s] = Room(s)
<1> DEFINE N == Cardinality(Slots)
           Sofar(n) == /\ left[n] \in Nat
                       /\ \A s \in 1 .. n : f[s] \in Nat /\ f[s] <= Room(s)
                       /\ left[n] > 0 => \A s \in 1 .. n : f[s] = Room(s)
                       /\ Added(f, 1 .. n) = x - left[n]
           P == {n \in 0 .. N : Sofar(n)}
<1> HIDE DEF Sofar
<1>0. N \in Nat /\ Slots = 1 .. N
  BY SlotsFinite
<1>1. left[0] = x /\ \A s \in 1 .. N : left[s] = Larger(0, left[s - 1] - Room(s))
  BY <1>0 DEF IsLeft
<1>2. \A s \in 1 .. N : Room(s) \in Nat
  <2>1. \A s \in 1 .. N : due[s] \in Nat /\ paid[s] \in Nat /\ paid[s] <= due[s]
    BY <1>0 DEF AmountsOf, PaidWithinDue
  <2> QED
    BY <2>1 DEF Room
<1>3. 0 \in P
  <2>1. 1 .. 0 = {}
    OBVIOUS
  <2>2. Added(f, 1 .. 0) = 0
    BY <2>1, AddedEmpty
  <2> QED
    BY <1>0, <1>1, <2>1, <2>2 DEF Sofar
<1>4. \A n \in 0 .. N - 1 : n \in P => n + 1 \in P
  <2> SUFFICES ASSUME NEW n \in 0 .. N - 1, Sofar(n) PROVE Sofar(n + 1)
    BY <1>0
  <2> DEFINE m == n + 1
  <2>0. n \in Nat /\ m \in 1 .. N /\ m - 1 = n /\ m \in Nat
    BY <1>0
  <2>s. /\ left[n] \in Nat
        /\ \A s \in 1 .. n : f[s] \in Nat /\ f[s] <= Room(s)
        /\ left[n] > 0 => \A s \in 1 .. n : f[s] = Room(s)
        /\ Added(f, 1 .. n) = x - left[n]
    BY DEF Sofar
  <2>1. left[m] = Larger(0, left[n] - Room(m)) /\ Room(m) \in Nat /\ left[n] \in Nat
    BY <1>1, <1>2, <2>0, <2>s
  <2>2. f[m] = left[n] - left[m]
    BY <1>0, <2>0
  <2>3. /\ left[m] \in Nat /\ f[m] \in Nat /\ f[m] <= Room(m)
        /\ left[m] > 0 => f[m] = Room(m) /\ left[n] > 0
    BY <2>1, <2>2 DEF Larger
  <2>4. 1 .. m = (1 .. n) \cup {m} /\ m \notin 1 .. n
    BY <2>0
  <2>5. Added(f, 1 .. m) = Added(f, 1 .. n) + f[m]
    <3>1. IsFiniteSet(1 .. n)
      BY <2>0, FS_Interval
    <3>2. Numeric(f, (1 .. n) \cup {m})
      <4>1. \A s \in (1 .. n) \cup {m} : f[s] \in Int
        BY <2>3, <2>s
      <4> QED
        BY <4>1 DEF Numeric
    <3>3. Added(f, (1 .. n) \cup {m}) = Added(f, 1 .. n) + f[m]
      BY <2>4, <3>1, <3>2, AddedOne
    <3> QED
      BY <2>4, <3>3
  <2>6. \A s \in 1 .. m : f[s] \in Nat /\ f[s] <= Room(s)
    BY <2>3, <2>4, <2>s
  <2>7. left[m] > 0 => \A s \in 1 .. m : f[s] = Room(s)
    BY <2>3, <2>4, <2>s
  <2>8. Added(f, 1 .. m) = x - left[m]
    BY <2>1, <2>2, <2>3, <2>5, <2>s
  <2> QED
    BY <2>3, <2>6, <2>7, <2>8 DEF Sofar
<1> HIDE DEF P
<1>5. \A n \in 0 .. N : n \in P
  BY <1>0, <1>3, <1>4, CountUp
<1>6. \A n \in 0 .. N : Sofar(n)
  BY <1>5 DEF P
<1>7. /\ left[N] \in Nat
      /\ \A s \in 1 .. N : f[s] \in Nat /\ f[s] <= Room(s)
      /\ left[N] > 0 => \A s \in 1 .. N : f[s] = Room(s)
      /\ Added(f, 1 .. N) = x - left[N]
  <2>1. Sofar(N)
    BY <1>0, <1>6
  <2> QED
    BY <2>1 DEF Sofar
<1>8. \A s \in Slots : f[s] \in Nat /\ f[s] <= Room(s)
  BY <1>0, <1>7
<1>9. ASSUME NEW s \in Slots, f[s] > 0 PROVE \A t \in 1 .. s - 1 : f[t] = Room(t)
  <2>1. s \in 1 .. N /\ s - 1 \in 0 .. N /\ s \in 0 .. N
    BY <1>0
  <2>s. Sofar(s - 1) /\ Sofar(s)
    BY <1>6, <2>1
  <2>2. /\ left[s] \in Nat /\ left[s - 1] \in Nat
        /\ left[s - 1] > 0 => \A t \in 1 .. s - 1 : f[t] = Room(t)
    BY <2>s DEF Sofar
  <2>3. f[s] = left[s - 1] - left[s]
    BY <2>1
  <2>4. left[s - 1] > 0
    BY <1>9, <2>2, <2>3
  <2> QED
    BY <2>2, <2>4
<1>10. Added(f, Slots) <= x /\ (Added(f, Slots) = x \/ \A s \in Slots : f[s] = Room(s))
  <2>1. Added(f, Slots) = Added(f, 1 .. N)
    BY <1>0
  <2>2. Added(f, Slots) <= x /\ (left[N] = 0 => Added(f, Slots) = x)
    BY <1>7, <2>1
  <2>3. left[N] > 0 => \A s \in Slots : f[s] = Room(s)
    BY <1>0, <1>7
  <2> QED
    BY <1>7, <2>2, <2>3
<1> QED
  BY <1>8, <1>9, <1>10

\* What the code's loop computes, in every state whose rows are within bounds.
LEMMA AllocatedWithin ==
    ASSUME AmountsOf(due), AmountsOf(paid), PaidWithinDue, NEW x \in Nat
    PROVE  /\ Allocate(x) \in [Slots -> Nat]
           /\ \A s \in Slots : Allocate(x)[s] <= Room(s)
           /\ \A s \in Slots : Allocate(x)[s] > 0 =>
                    \A t \in 1 .. s - 1 : Allocate(x)[t] = Room(t)
           /\ \/ Total(Allocate(x), Slots) = x
              \/ Total(Allocate(x), Slots) < x /\ \A s \in Slots : Allocate(x)[s] = Room(s)
<1>1. PICK left : IsLeft(left, x) /\ Allocate(x) = [s \in Slots |-> left[s - 1] - left[s]]
  BY AllocateIs
<1> DEFINE f == Allocate(x)
<1>2. f = [s \in Slots |-> left[s - 1] - left[s]]
  BY <1>1
<1> HIDE DEF f
<1>3. /\ \A s \in Slots : f[s] \in Nat /\ f[s] <= Room(s)
      /\ \A s \in Slots : f[s] > 0 => \A t \in 1 .. s - 1 : f[t] = Room(t)
      /\ Added(f, Slots) <= x
      /\ Added(f, Slots) = x \/ \A s \in Slots : f[s] = Room(s)
  BY <1>1, <1>2, WaterfallOf
<1>4. f \in [Slots -> Nat]
  BY <1>2, <1>3
<1>5. Numeric(f, Slots) /\ IsFiniteSet(Slots)
  BY <1>3, SlotsFinite DEF Numeric
<1>6. Added(f, Slots) \in Int
  BY <1>5, AddedInt
<1>7. Total(f, Slots) = Added(f, Slots)
  BY TotalIsAdded
<1> QED
  BY <1>3, <1>4, <1>6, <1>7 DEF f


\* The status depends on the amounts of the row alone.
LEMMA StatusOfRow ==
    ASSUME NEW i, NEW d, NEW p, NEW e, NEW q,
           \A s \in Row(i) : d[s] = e[s] /\ p[s] = q[s]
    PROVE  StoredStatus(i, d, p) = StoredStatus(i, e, q)
BY DEF StoredStatus

LEMMA RestageKeeps ==
    ASSUME StageMatchesAmounts, UNCHANGED due, NEW f, Restage(f),
           \A s \in Slots : f[s] = 0 => paid'[s] = paid[s]
    PROVE  StageMatchesAmounts'
<1> SUFFICES ASSUME NEW i \in Instalments PROVE stage'[i] = StoredStatus(i, due', paid')
  BY DEF StageMatchesAmounts
<1>1. CASE \E s \in Row(i) : f[s] # 0
  BY <1>1 DEF Restage
<1>2. CASE \A s \in Row(i) : f[s] = 0
  <2>1. stage'[i] = stage[i] /\ stage[i] = StoredStatus(i, due, paid)
    BY <1>2 DEF Restage, StageMatchesAmounts
  <2>2. \A s \in Row(i) : due'[s] = due[s] /\ paid'[s] = paid[s]
    BY <1>2, RowSlots
  <2>3. StoredStatus(i, due', paid') = StoredStatus(i, due, paid)
    BY <2>2, StatusOfRow
  <2> QED
    BY <2>1, <2>3
<1> QED
  BY <1>1, <1>2

-----------------------------------------------------------------------------
(* The account: the books.                                                 *)

\* What the entries of a kind say of an account.
SumIn(B, a, kind) == Added([e \in B |-> e.lines[a]], {e \in B : e.kind = kind})

HasLines(B, a) == \A b \in B : b.lines[a] \in Int

LEMMA BalanceIs ==
    ASSUME NEW a
    PROVE  /\ Balance(a) = SumIn(books, a, "received") - SumIn(books, a, "reversed")
           /\ Balance(a)' = SumIn(books', a, "received") - SumIn(books', a, "reversed")
<1>1. Balance(a) = SumIn(books, a, "received") - SumIn(books, a, "reversed")
  BY TotalIsAdded, Zenon DEF Balance, SumIn
<1>2. Balance(a)' = SumIn(books', a, "received") - SumIn(books', a, "reversed")
  BY TotalIsAdded, Zenon DEF Balance, SumIn
<1> QED
  BY <1>1, <1>2

LEMMA SumOneMore ==
    ASSUME NEW B, IsFiniteSet(B), NEW e, e \notin B, NEW a, NEW kind,
           HasLines(B \cup {e}, a)
    PROVE  /\ SumIn(B, a, kind) \in Int
           /\ SumIn(B \cup {e}, a, kind)
                = SumIn(B, a, kind) + IF e.kind = kind THEN e.lines[a] ELSE 0
<1> DEFINE K == {b \in B : b.kind = kind}
           line == [b \in B |-> b.lines[a]]
           more == [b \in B \cup {e} |-> b.lines[a]]
           L == {b \in B \cup {e} : b.kind = kind}
<1>1. K \subseteq B /\ IsFiniteSet(K) /\ e \notin K
  BY FS_Subset
<1>2. L = IF e.kind = kind THEN K \cup {e} ELSE K
  OBVIOUS
<1>3. /\ \A b \in K : line[b] \in Int /\ more[b] = line[b]
      /\ more[e] = e.lines[a] /\ e.lines[a] \in Int
  BY DEF HasLines
<1>s. SumIn(B, a, kind) = Added(line, K) /\ SumIn(B \cup {e}, a, kind) = Added(more, L)
  BY DEF SumIn
<1> HIDE DEF K, line, more, L
<1>4. Numeric(line, K)
  BY <1>3 DEF Numeric
<1>5. Added(line, K) \in Int /\ Added(more, K) = Added(line, K)
  BY <1>1, <1>3, <1>4, AddedInt, AddedSame
<1>6. CASE e.kind = kind
  <2>1. Numeric(more, K \cup {e})
    BY <1>3 DEF Numeric
  <2>2. Added(more, K \cup {e}) = Added(more, K) + more[e]
    BY <1>1, <2>1, AddedOne
  <2> QED
    BY <1>2, <1>3, <1>5, <1>6, <1>s, <2>2
<1>7. CASE e.kind # kind
  BY <1>2, <1>5, <1>7, <1>s
<1> QED
  BY <1>6, <1>7

-----------------------------------------------------------------------------
(* The account: what holds in every state.                                 *)

AccountTyped ==
    /\ AmountsOf(due) /\ AmountsOf(paid)
    /\ applied \in [Payments -> [Slots -> Nat]]

\* The payments that were received and have not come back.
Standing == {p \in Payments : Booked(p, "received") /\ ~Booked(p, "reversed")}

\* What is paid of a slot is what those payments put there.
PaidByStanding ==
    \A s \in Slots : paid[s] = Added([p \in Payments |-> applied[p][s]], Standing)

\* One entry for a payment and kind, its lines what the payment was applied to.
BooksSound ==
    /\ IsFiniteSet(books)
    /\ \A e \in books : /\ e.payment \in Payments /\ e.kind \in EntryKinds
                        /\ e.kind = "reversed" => Booked(e.payment, "received")
                        /\ \A c \in Components :
                                e.lines[c] = Added(applied[e.payment], SlotsOf(c))
    /\ \A e, b \in books : e.payment = b.payment /\ e.kind = b.kind => e = b

AccountIInv ==
    /\ AccountTyped /\ PaidWithinDue /\ StageMatchesAmounts
    /\ PaidByStanding /\ BooksSound /\ BooksMatchInstalments

LEMMA SlotSums ==
    ASSUME NEW f \in [Slots -> Nat], NEW c
    PROVE  /\ IsFiniteSet(SlotsOf(c)) /\ SlotsOf(c) \subseteq Slots
           /\ Numeric(f, SlotsOf(c)) /\ Added(f, SlotsOf(c)) \in Int
<1>1. SlotsOf(c) \subseteq Slots
  BY DEF SlotsOf
<1>2. IsFiniteSet(SlotsOf(c))
  BY <1>1, SlotsFinite
<1>3. Numeric(f, SlotsOf(c))
  BY <1>1 DEF Numeric
<1> QED
  BY <1>1, <1>2, <1>3, AddedInt

LEMMA PaymentsFinite == IsFiniteSet(Payments) /\ \A S \in SUBSET Payments : IsFiniteSet(S)
<1>1. IsFiniteSet(Payments)
  BY AccountAssumption, FS_Interval DEF Payments
<1> QED
  BY <1>1, FS_Subset

\* Adding f to what is paid adds its sum to the component's.
LEMMA PaidMore ==
    ASSUME NEW q \in [Slots -> Nat], NEW f \in [Slots -> Nat], NEW r \in [Slots -> Nat],
           \A s \in Slots : r[s] = q[s] + f[s], NEW c
    PROVE  Total(r, SlotsOf(c)) = Total(q, SlotsOf(c)) + Added(f, SlotsOf(c))
<1> DEFINE S == SlotsOf(c)
<1>1. IsFiniteSet(S) /\ S \subseteq Slots /\ Numeric(q, S) /\ Numeric(f, S)
  BY SlotSums
<1> HIDE DEF S
<1>2. \A s \in S : r[s] = q[s] + f[s]
  BY <1>1
<1>3. Added(r, S) = Added(q, S) + Added(f, S)
  BY <1>1, <1>2, AddedSum
<1> QED
  BY <1>3, TotalIsAdded DEF S

LEMMA LinesOf ==
    ASSUME NEW x, NEW f, NEW c \in Components
    PROVE  Lines(x, f)[c] = Added(f, SlotsOf(c))
<1>1. c \in Accounts /\ c # "unapplied"
  BY DEF Components, Accounts
<1> QED
  BY <1>1, TotalIsAdded DEF Lines


LEMMA BooksTyped ==
    ASSUME AccountTyped, BooksSound, NEW c \in Components
    PROVE  HasLines(books, c)
<1> SUFFICES ASSUME NEW e \in books PROVE e.lines[c] \in Int
  BY DEF HasLines
<1>1. applied[e.payment] \in [Slots -> Nat]
  BY DEF AccountTyped, BooksSound
<1>2. e.lines[c] = Added(applied[e.payment], SlotsOf(c))
  BY DEF BooksSound
<1> QED
  BY <1>1, <1>2, SlotSums

\* Nothing in the books is about p, and nothing they are about changes.
NotAbout(p) == \A e \in books : e.payment # p /\ applied'[e.payment] = applied[e.payment]

EntriesOf(p, kinds, l) == {Entry(p, kind, l) : kind \in kinds}

\* The payments booked afterwards.
BookedNow(p, kinds) ==
    \A q \in Payments, k \in EntryKinds :
        Booked(q, k)' <=> Booked(q, k) \/ (q = p /\ k \in kinds)

\* A payment that is not booked yet is allocated f, whatever else happens.
LEMMA NewlyApplied ==
    ASSUME AccountIInv, NEW p \in Payments, ~Booked(p, "received"),
           NEW f \in [Slots -> Nat], applied' = [applied EXCEPT ![p] = f]
    PROVE  /\ applied' \in [Payments -> [Slots -> Nat]] /\ applied'[p] = f
           /\ p \notin Standing /\ ~Booked(p, "reversed")
           /\ NotAbout(p)
           /\ \A s \in Slots : Added([q \in Payments |-> applied'[q][s]], Standing) = paid[s]
<1>1. /\ applied' \in [Payments -> [Slots -> Nat]] /\ applied'[p] = f
      /\ \A q \in Payments \ {p} : applied'[q] = applied[q]
  BY DEF AccountIInv, AccountTyped
<1>2. \A e \in books : e.payment # p
  BY DEF Booked, AccountIInv, BooksSound, EntryKinds
<1>3. p \notin Standing /\ ~Booked(p, "reversed")
  BY <1>2 DEF Standing, Booked
<1>4. ASSUME NEW s \in Slots
      PROVE  Added([q \in Payments |-> applied'[q][s]], Standing) = paid[s]
  <2> DEFINE g == [q \in Payments |-> applied[q][s]]
             h == [q \in Payments |-> applied'[q][s]]
  <2>1. IsFiniteSet(Standing) /\ Standing \subseteq Payments
    BY PaymentsFinite DEF Standing
  <2>2. \A q \in Standing : g[q] \in Int /\ h[q] = g[q]
    BY <1>1, <1>3, <2>1 DEF AccountIInv, AccountTyped
  <2>3. paid[s] = Added(g, Standing)
    BY DEF AccountIInv, PaidByStanding
  <2> HIDE DEF g, h
  <2>4. Numeric(g, Standing)
    BY <2>2 DEF Numeric
  <2>5. Added(h, Standing) = Added(g, Standing)
    BY <2>1, <2>2, <2>4, AddedSame
  <2> QED
    BY <2>3, <2>5 DEF h
<1> QED
  BY <1>1, <1>2, <1>3, <1>4 DEF AccountIInv, BooksSound, NotAbout

\* Entries of a payment that stands in no book yet keep the books sound.
LEMMA NewlyBooked ==
    ASSUME AccountIInv, NEW p \in Payments,
           NEW f \in [Slots -> Nat], applied'[p] = f, NotAbout(p),
           NEW x, NEW kinds \in SUBSET EntryKinds, "received" \in kinds,
           books' = books \cup EntriesOf(p, kinds, Lines(x, f))
    PROVE  BooksSound' /\ BookedNow(p, kinds)
<1> DEFINE new == {Entry(p, kind, Lines(x, f)) : kind \in kinds}
<1>0. books' = books \cup new
  BY DEF EntriesOf
<1>1. IsFiniteSet(new)
  <2>1. new \subseteq {Entry(p, "received", Lines(x, f)), Entry(p, "reversed", Lines(x, f))}
    BY DEF EntryKinds
  <2>2. IsFiniteSet({Entry(p, "received", Lines(x, f)), Entry(p, "reversed", Lines(x, f))})
    <3> DEFINE d == Entry(p, "received", Lines(x, f))
               e == Entry(p, "reversed", Lines(x, f))
    <3> HIDE DEF d, e
    <3>1. IsFiniteSet({d}) /\ {d, e} = {d} \cup {e}
      BY FS_Singleton
    <3>2. IsFiniteSet({d, e})
      BY <3>1, FS_AddElement
    <3> QED
      BY <3>2 DEF d, e
  <2> QED
    BY <2>1, <2>2, FS_Subset
<1>2. IsFiniteSet(books')
  <2> HIDE DEF new
  <2>1. IsFiniteSet(books)
    BY DEF AccountIInv, BooksSound
  <2>2. IsFiniteSet(books \cup new)
    BY <1>1, <2>1, FS_Union
  <2> QED
    BY <1>0, <2>2
<1>3. \A q \in Payments, k \in EntryKinds :
            Booked(q, k)' <=> Booked(q, k) \/ (q = p /\ k \in kinds)
  <2>1. \A e \in new : e.payment = p /\ e.kind \in kinds
    BY DEF Entry
  <2>2. ASSUME NEW k \in kinds PROVE \E e \in new : e.payment = p /\ e.kind = k
    <3>1. Entry(p, k, Lines(x, f)) \in new
      OBVIOUS
    <3> QED
      BY <3>1 DEF Entry
  <2> QED
    BY <1>0, <2>1, <2>2 DEF Booked
<1>4. ASSUME NEW e \in books'
      PROVE  /\ e.payment \in Payments /\ e.kind \in EntryKinds
             /\ e.kind = "reversed" => Booked(e.payment, "received")'
             /\ \A c \in Components : e.lines[c] = Added(applied'[e.payment], SlotsOf(c))
  <2>0. "received" \in EntryKinds
    BY DEF EntryKinds
  <2>1. CASE e \in books
    BY <1>3, <2>0, <2>1 DEF AccountIInv, BooksSound, NotAbout
  <2>2. CASE e \in new
    <3>1. e.payment = p /\ e.kind \in EntryKinds /\ e.lines = Lines(x, f)
      BY <2>2 DEF Entry
    <3> QED
      BY <1>3, <2>0, <3>1, LinesOf
  <2> QED
    BY <1>0, <2>1, <2>2
<1>5. ASSUME NEW e \in books', NEW b \in books', e.payment = b.payment, e.kind = b.kind
      PROVE  e = b
  <2>1. \A d \in new : d = Entry(p, d.kind, Lines(x, f))
    BY DEF Entry
  <2>2. \A d \in new : d.payment = p
    BY DEF Entry
  <2>3. \A d \in books : d.payment # p
    BY DEF NotAbout
  <2>4. CASE e \in books /\ b \in books
    BY <1>5, <2>4 DEF AccountIInv, BooksSound
  <2>5. CASE e \in new /\ b \in new
    BY <1>5, <2>1, <2>5
  <2> HIDE DEF new
  <2> QED
    BY <1>0, <1>5, <2>2, <2>3, <2>4, <2>5
<1>6. BooksSound'
  BY <1>2, <1>4, <1>5 DEF BooksSound, SlotsOf, ComponentOf
<1> QED
  BY <1>3, <1>6 DEF BookedNow


\* One more entry moves the balance of its account by its line.
LEMMA EntryMoves ==
    ASSUME NEW B, IsFiniteSet(B), NEW p, NEW kind \in EntryKinds, NEW l, NEW c,
           Entry(p, kind, l) \notin B, l[c] \in Int, HasLines(B, c)
    PROVE  LET more == B \cup {Entry(p, kind, l)}
           IN  /\ SumIn(B, c, "received") \in Int /\ SumIn(B, c, "reversed") \in Int
               /\ kind = "received" =>
                    SumIn(more, c, "received") - SumIn(more, c, "reversed")
                        = SumIn(B, c, "received") - SumIn(B, c, "reversed") + l[c]
               /\ kind = "reversed" =>
                    SumIn(more, c, "received") - SumIn(more, c, "reversed")
                        = SumIn(B, c, "received") - SumIn(B, c, "reversed") - l[c]
<1> DEFINE e == Entry(p, kind, l)
<1>1. e.kind = kind /\ e.lines = l /\ e \notin B
  BY DEF Entry
<1> HIDE DEF e
<1>2. HasLines(B \cup {e}, c)
  BY <1>1 DEF HasLines
<1>3. /\ SumIn(B, c, "received") \in Int /\ SumIn(B, c, "reversed") \in Int
      /\ SumIn(B \cup {e}, c, "received")
            = SumIn(B, c, "received") + IF e.kind = "received" THEN e.lines[c] ELSE 0
      /\ SumIn(B \cup {e}, c, "reversed")
            = SumIn(B, c, "reversed") + IF e.kind = "reversed" THEN e.lines[c] ELSE 0
  <2>1. \A k : /\ SumIn(B, c, k) \in Int
              /\ SumIn(B \cup {e}, c, k)
                    = SumIn(B, c, k) + IF e.kind = k THEN e.lines[c] ELSE 0
    <3> TAKE k
    <3> QED
      BY <1>1, <1>2, SumOneMore
  <2> QED
    BY <2>1
<1>4. /\ kind = "received" =>
            SumIn(B \cup {e}, c, "received") - SumIn(B \cup {e}, c, "reversed")
                = SumIn(B, c, "received") - SumIn(B, c, "reversed") + l[c]
      /\ kind = "reversed" =>
            SumIn(B \cup {e}, c, "received") - SumIn(B \cup {e}, c, "reversed")
                = SumIn(B, c, "received") - SumIn(B, c, "reversed") - l[c]
  BY <1>1, <1>3
<1> QED
  BY <1>3, <1>4 DEF e

\* What is paid by a set of payments, on one more or one fewer standing payment.
LEMMA StandingSum ==
    ASSUME NEW g, NEW S \in SUBSET Payments, \A q \in Payments : g[q] \in Nat,
           NEW p \in Payments
    PROVE  /\ Added(g, S) \in Nat
           /\ p \notin S => Added(g, S \cup {p}) = Added(g, S) + g[p]
           /\ p \in S => Added(g, S) = Added(g, S \ {p}) + g[p] /\ Added(g, S \ {p}) \in Nat
<1>1. IsFiniteSet(S) /\ IsFiniteSet(S \ {p})
  BY PaymentsFinite
<1>2. Numeric(g, S) /\ Numeric(g, S \cup {p})
  BY DEF Numeric
<1>3. Added(g, S) \in Nat /\ Added(g, S \ {p}) \in Nat
  BY <1>1, AddedNat
<1>4. p \notin S => Added(g, S \cup {p}) = Added(g, S) + g[p]
  BY <1>1, <1>2, AddedOne
<1>5. p \in S => Added(g, S) = g[p] + Added(g, S \ {p})
  BY <1>1, <1>2, AddedLess
<1> QED
  BY <1>3, <1>4, <1>5

LEMMA SettleKeeps ==
    ASSUME AccountIInv, NEW p \in Payments, ~Booked(p, "received"),
           NEW x \in Nat, Settle(p, x)
    PROVE  AccountIInv'
<1> DEFINE f == Allocate(x)
<1>0. AmountsOf(due) /\ AmountsOf(paid) /\ PaidWithinDue /\ UNCHANGED due
  BY DEF AccountIInv, AccountTyped, Settle
<1>1. f \in [Slots -> Nat] /\ \A s \in Slots : f[s] <= Room(s)
  BY <1>0, AllocatedWithin
<1>2. /\ applied' = [applied EXCEPT ![p] = f]
      /\ paid' = [s \in Slots |-> paid[s] + f[s]]
      /\ Restage(f)
      /\ books' = books \cup {Entry(p, "received", Lines(x, f))}
  BY DEF Settle, Post
<1> HIDE DEF f
<1>3. /\ applied' \in [Payments -> [Slots -> Nat]] /\ applied'[p] = f
      /\ p \notin Standing /\ ~Booked(p, "reversed")
      /\ NotAbout(p)
      /\ \A s \in Slots : Added([q \in Payments |-> applied'[q][s]], Standing) = paid[s]
  BY <1>1, <1>2, NewlyApplied
<1>4. \A s \in Slots : /\ due[s] \in Nat /\ paid[s] \in Nat /\ f[s] \in Nat
                       /\ paid'[s] = paid[s] + f[s] /\ paid'[s] <= due[s]
  BY <1>0, <1>1, <1>2 DEF AmountsOf, Room
<1>5. AccountTyped'
  BY <1>0, <1>2, <1>3, <1>4 DEF AccountTyped, AmountsOf
<1>6. PaidWithinDue'
  BY <1>0, <1>4 DEF PaidWithinDue
<1>7. StageMatchesAmounts'
  <2>1. \A s \in Slots : f[s] = 0 => paid'[s] = paid[s]
    BY <1>4
  <2> QED
    BY <1>0, <1>2, <2>1, RestageKeeps DEF AccountIInv
<1>8. BooksSound' /\ BookedNow(p, {"received"})
  <2>1. {"received"} \in SUBSET EntryKinds /\ "received" \in {"received"}
    BY DEF EntryKinds
  <2>2. books' = books \cup EntriesOf(p, {"received"}, Lines(x, f))
    BY <1>2 DEF EntriesOf
  <2> QED
    BY <1>1, <1>3, <2>1, <2>2, NewlyBooked
<1>9. Standing' = Standing \cup {p}
  BY <1>3, <1>8 DEF Standing, EntryKinds, BookedNow
<1>10. PaidByStanding'
  <2> SUFFICES ASSUME NEW s \in Slots
               PROVE  paid'[s] = Added([q \in Payments |-> applied'[q][s]], Standing')
    BY DEF PaidByStanding
  <2> DEFINE g == [q \in Payments |-> applied'[q][s]]
  <2>1. \A q \in Payments : g[q] \in Nat
    BY <1>3
  <2>2. g[p] = f[s] /\ Added(g, Standing) = paid[s] /\ Standing \in SUBSET Payments
    BY <1>3 DEF Standing
  <2> HIDE DEF g
  <2>3. Added(g, Standing \cup {p}) = Added(g, Standing) + g[p]
    BY <1>3, <2>1, <2>2, StandingSum
  <2> QED
    BY <1>4, <1>9, <2>2, <2>3 DEF g
<1>11. BooksMatchInstalments'
  <2> SUFFICES ASSUME NEW c \in Components
               PROVE  Total(paid', SlotsOf(c)) = Balance(c)'
    BY DEF BooksMatchInstalments, SlotsOf, ComponentOf
  <2>1. Total(paid', SlotsOf(c)) = Total(paid, SlotsOf(c)) + Added(f, SlotsOf(c))
    BY <1>0, <1>1, <1>4, <1>5, PaidMore DEF AccountTyped, AmountsOf
  <2>2. Lines(x, f)[c] = Added(f, SlotsOf(c)) /\ Added(f, SlotsOf(c)) \in Int
    BY <1>1, LinesOf, SlotSums
  <2>3. /\ IsFiniteSet(books) /\ Entry(p, "received", Lines(x, f)) \notin books
        /\ HasLines(books, c)
    BY <1>3, BooksTyped DEF AccountIInv, BooksSound, Entry, NotAbout
  <2>4. /\ SumIn(books, c, "received") \in Int /\ SumIn(books, c, "reversed") \in Int
        /\ SumIn(books', c, "received") - SumIn(books', c, "reversed")
             = SumIn(books, c, "received") - SumIn(books, c, "reversed") + Added(f, SlotsOf(c))
    <3> DEFINE l == Lines(x, f)
    <3>1. /\ l[c] \in Int /\ "received" \in EntryKinds
          /\ IsFiniteSet(books) /\ HasLines(books, c) /\ Entry(p, "received", l) \notin books
      BY <2>2, <2>3 DEF EntryKinds
    <3>3. l[c] = Added(f, SlotsOf(c)) /\ books' = books \cup {Entry(p, "received", l)}
      BY <1>2, <2>2
    <3> HIDE DEF l
    <3>2. /\ SumIn(books, c, "received") \in Int /\ SumIn(books, c, "reversed") \in Int
          /\ SumIn(books \cup {Entry(p, "received", l)}, c, "received")
                - SumIn(books \cup {Entry(p, "received", l)}, c, "reversed")
               = SumIn(books, c, "received") - SumIn(books, c, "reversed") + l[c]
      BY <3>1, EntryMoves
    <3> QED
      BY <3>2, <3>3
  <2>5. Total(paid, SlotsOf(c)) = Balance(c)
    BY DEF AccountIInv, BooksMatchInstalments
  <2> QED
    BY <2>1, <2>2, <2>4, <2>5, BalanceIs
<1> QED
  BY <1>5, <1>6, <1>7, <1>8, <1>10, <1>11 DEF AccountIInv

LEMMA SettleAndReverseKeeps ==
    ASSUME AccountIInv, NEW p \in Payments, ~Booked(p, "received"),
           NEW x \in Nat, SettleAndReverse(p, x)
    PROVE  AccountIInv'
<1> DEFINE f == Allocate(x)
           l == Lines(x, f)
<1>0. AmountsOf(due) /\ AmountsOf(paid) /\ PaidWithinDue /\ UNCHANGED <<due, paid>>
  BY DEF AccountIInv, AccountTyped, SettleAndReverse
<1>1. f \in [Slots -> Nat]
  BY <1>0, AllocatedWithin
<1>2. /\ applied' = [applied EXCEPT ![p] = f]
      /\ books' = books \cup EntriesOf(p, EntryKinds, l)
      /\ \A i \in Instalments : stage'[i] \in {stage[i], StoredStatus(i, due, paid)}
  BY DEF SettleAndReverse, Post, EntriesOf
<1> HIDE DEF f
<1>3. /\ applied' \in [Payments -> [Slots -> Nat]] /\ applied'[p] = f
      /\ p \notin Standing /\ ~Booked(p, "reversed") /\ NotAbout(p)
      /\ \A s \in Slots : Added([q \in Payments |-> applied'[q][s]], Standing) = paid[s]
  BY <1>1, <1>2, NewlyApplied
<1>4. AccountTyped' /\ PaidWithinDue'
  BY <1>0, <1>3 DEF AccountTyped, AmountsOf, PaidWithinDue
<1>5. StageMatchesAmounts'
  BY <1>0, <1>2, StatusOfRow DEF AccountIInv, StageMatchesAmounts
<1>6. BooksSound' /\ BookedNow(p, EntryKinds)
  <2>1. EntryKinds \in SUBSET EntryKinds /\ "received" \in EntryKinds
    BY DEF EntryKinds
  <2> QED
    BY <1>1, <1>2, <1>3, <2>1, NewlyBooked
<1>7. Standing' = Standing
  BY <1>3, <1>6 DEF Standing, EntryKinds, BookedNow
<1>8. PaidByStanding'
  BY <1>0, <1>3, <1>7 DEF PaidByStanding
<1>9. BooksMatchInstalments'
  <2> SUFFICES ASSUME NEW c \in Components
               PROVE  Total(paid', SlotsOf(c)) = Balance(c)'
    BY DEF BooksMatchInstalments, SlotsOf, ComponentOf
  <2> DEFINE one == Entry(p, "received", l)
             two == Entry(p, "reversed", l)
  <2>1. l[c] \in Int
    BY <1>1, LinesOf, SlotSums
  <2>2. /\ IsFiniteSet(books) /\ HasLines(books, c) /\ "received" \in EntryKinds
        /\ "reversed" \in EntryKinds
    BY BooksTyped DEF AccountIInv, BooksSound, EntryKinds
  <2>3. one \notin books /\ two \notin books /\ one # two
        /\ one.lines = l /\ books' = (books \cup {one}) \cup {two}
    BY <1>2, <1>3 DEF Entry, NotAbout, EntriesOf, EntryKinds
  <2> HIDE DEF l
  <2>4. /\ SumIn(books, c, "received") \in Int /\ SumIn(books, c, "reversed") \in Int
        /\ SumIn(books \cup {one}, c, "received") - SumIn(books \cup {one}, c, "reversed")
             = SumIn(books, c, "received") - SumIn(books, c, "reversed") + l[c]
    BY <2>1, <2>2, <2>3, EntryMoves
  <2>5. IsFiniteSet(books \cup {one}) /\ HasLines(books \cup {one}, c) /\ two \notin books \cup {one}
    BY <2>1, <2>2, <2>3, FS_AddElement DEF HasLines
  <2>6. SumIn(books', c, "received") - SumIn(books', c, "reversed")
          = SumIn(books \cup {one}, c, "received") - SumIn(books \cup {one}, c, "reversed") - l[c]
        /\ SumIn(books \cup {one}, c, "received") \in Int
        /\ SumIn(books \cup {one}, c, "reversed") \in Int
    <3> DEFINE B == books \cup {one}
    <3>1. IsFiniteSet(B) /\ HasLines(B, c) /\ two \notin B /\ books' = B \cup {two}
      BY <2>3, <2>5
    <3> HIDE DEF B, one
    <3>2. /\ SumIn(B, c, "received") \in Int /\ SumIn(B, c, "reversed") \in Int
          /\ SumIn(B \cup {two}, c, "received") - SumIn(B \cup {two}, c, "reversed")
               = SumIn(B, c, "received") - SumIn(B, c, "reversed") - l[c]
      BY <2>1, <2>2, <3>1, EntryMoves
    <3> QED
      BY <3>1, <3>2 DEF B
  <2>7. Total(paid, SlotsOf(c)) = Balance(c)
    BY DEF AccountIInv, BooksMatchInstalments
  <2> QED
    BY <1>0, <2>1, <2>4, <2>6, <2>7, BalanceIs
<1> QED
  BY <1>4, <1>5, <1>6, <1>8, <1>9 DEF AccountIInv

LEMMA ReverseKeeps ==
    ASSUME AccountIInv, NEW p \in Payments, Booked(p, "received"), ~Booked(p, "reversed"),
           Reverse(p)
    PROVE  AccountIInv'
<1> DEFINE f == applied[p]
<1>0. AmountsOf(due) /\ AmountsOf(paid) /\ PaidWithinDue /\ UNCHANGED <<applied, due>>
  BY DEF AccountIInv, AccountTyped, Reverse
<1>1. f \in [Slots -> Nat] /\ applied \in [Payments -> [Slots -> Nat]]
  BY DEF AccountIInv, AccountTyped
<1>2. paid' = [s \in Slots |-> paid[s] - f[s]] /\ Restage(f) /\ books' = books \cup Mirror(p)
  BY DEF Reverse, Post
<1>3. PICK e \in books : e.payment = p /\ e.kind = "received"
  BY DEF Booked
<1> DEFINE back == Entry(p, "reversed", e.lines)
<1>4. Mirror(p) = {back}
  <2>1. {b \in books : b.payment = p /\ b.kind = "received"} = {e}
    BY <1>3 DEF AccountIInv, BooksSound
  <2> QED
    BY <2>1, Zenon DEF Mirror
<1>5. back.payment = p /\ back.kind = "reversed" /\ back.lines = e.lines /\ back \notin books
  BY DEF Entry, Booked
<1>6. p \in Standing /\ Standing \in SUBSET Payments
  BY DEF Standing
<1>7. ASSUME NEW s \in Slots
      PROVE  /\ paid[s] = Added([q \in Payments |-> applied[q][s]], Standing \ {p}) + f[s]
             /\ paid'[s] = Added([q \in Payments |-> applied[q][s]], Standing \ {p})
             /\ paid'[s] \in Nat
  <2> DEFINE g == [q \in Payments |-> applied[q][s]]
  <2>1. (\A q \in Payments : g[q] \in Nat) /\ g[p] = f[s] /\ paid[s] = Added(g, Standing)
    BY <1>1 DEF AccountIInv, PaidByStanding
  <2> HIDE DEF g
  <2>2. Added(g, Standing) = Added(g, Standing \ {p}) + g[p] /\ Added(g, Standing \ {p}) \in Nat
    BY <1>6, <2>1, StandingSum
  <2>3. f[s] \in Nat /\ paid'[s] = paid[s] - f[s]
    BY <1>1, <1>2
  <2>4. paid[s] = Added(g, Standing \ {p}) + f[s] /\ paid'[s] = Added(g, Standing \ {p})
        /\ paid'[s] \in Nat
    <3> HIDE DEF f
    <3> QED
      BY <2>1, <2>2, <2>3
  <2> QED
    BY <2>4 DEF g
<1>8. \A s \in Slots : /\ paid[s] \in Nat /\ due[s] \in Nat /\ paid[s] <= due[s]
                       /\ f[s] \in Nat /\ paid[s] = paid'[s] + f[s]
  BY <1>0, <1>1, <1>2 DEF AmountsOf, PaidWithinDue
<1>9. AccountTyped'
  BY <1>0, <1>1, <1>2, <1>7 DEF AccountTyped, AmountsOf
<1>10. PaidWithinDue'
  <2>1. \A s \in Slots : paid'[s] \in 0 .. due[s]
    <3> TAKE s \in Slots
    <3>1. paid'[s] \in Nat /\ paid[s] = paid'[s] + f[s] /\ f[s] \in Nat /\ paid[s] <= due[s]
          /\ due[s] \in Nat
      BY <1>7, <1>8
    <3> HIDE DEF f
    <3> QED
      BY <3>1
  <2> QED
    BY <1>0, <2>1 DEF PaidWithinDue
<1>11. StageMatchesAmounts'
  <2>1. \A s \in Slots : f[s] = 0 => paid'[s] = paid[s]
    <3> TAKE s \in Slots
    <3>1. paid'[s] \in Nat /\ paid[s] = paid'[s] + f[s]
      BY <1>7, <1>8
    <3> HIDE DEF f
    <3> QED
      BY <3>1
  <2> HIDE DEF f
  <2> QED
    BY <1>0, <1>2, <2>1, RestageKeeps DEF AccountIInv
<1> HIDE DEF back
<1>12. books' = books \cup {back}
  BY <1>2, <1>4
<1>13. BooksSound'
  <2>1. IsFiniteSet(books')
    BY <1>12, FS_AddElement DEF AccountIInv, BooksSound
  <2>2. \A q, k : Booked(q, k) => Booked(q, k)'
    BY <1>12 DEF Booked
  <2>3. \A c \in Components : e.lines[c] = Added(f, SlotsOf(c))
    BY <1>3 DEF AccountIInv, BooksSound
  <2>4. ASSUME NEW b \in books'
        PROVE  /\ b.payment \in Payments /\ b.kind \in EntryKinds
               /\ b.kind = "reversed" => Booked(b.payment, "received")'
               /\ \A c \in Components : b.lines[c] = Added(applied'[b.payment], SlotsOf(c))
    <3>1. CASE b \in books
      BY <1>0, <2>2, <3>1 DEF AccountIInv, BooksSound
    <3>2. CASE b = back
      BY <1>0, <1>5, <2>2, <2>3, <3>2 DEF EntryKinds
    <3> QED
      BY <1>12, <3>1, <3>2
  <2>5. \A b, d \in books' : b.payment = d.payment /\ b.kind = d.kind => b = d
    <3>1. \A b \in books : ~(b.payment = p /\ b.kind = "reversed")
      BY DEF Booked
    <3> QED
      BY <1>5, <1>12, <3>1 DEF AccountIInv, BooksSound
  <2> QED
    BY <2>1, <2>4, <2>5 DEF BooksSound, SlotsOf, ComponentOf
<1>14. Standing' = Standing \ {p}
  <2>1. \A q \in Payments, k \in EntryKinds :
            Booked(q, k)' <=> Booked(q, k) \/ (q = p /\ k = "reversed")
    BY <1>5, <1>12 DEF Booked
  <2> QED
    BY <1>6, <2>1 DEF Standing, EntryKinds
<1>15. PaidByStanding'
  BY <1>0, <1>7, <1>14 DEF PaidByStanding
<1>16. BooksMatchInstalments'
  <2> SUFFICES ASSUME NEW c \in Components
               PROVE  Total(paid', SlotsOf(c)) = Balance(c)'
    BY DEF BooksMatchInstalments, SlotsOf, ComponentOf
  <2>1. Total(paid, SlotsOf(c)) = Total(paid', SlotsOf(c)) + Added(f, SlotsOf(c))
    <3> HIDE DEF f
    <3> QED
      BY <1>0, <1>1, <1>8, <1>9, PaidMore DEF AccountTyped, AmountsOf
  <2>2. e.lines[c] = Added(f, SlotsOf(c)) /\ Added(f, SlotsOf(c)) \in Int
    BY <1>1, <1>3, SlotSums DEF AccountIInv, BooksSound
  <2>3. IsFiniteSet(books) /\ HasLines(books, c) /\ "reversed" \in EntryKinds
    BY BooksTyped DEF AccountIInv, BooksSound, EntryKinds
  <2>4. /\ SumIn(books, c, "received") \in Int /\ SumIn(books, c, "reversed") \in Int
        /\ SumIn(books', c, "received") - SumIn(books', c, "reversed")
             = SumIn(books, c, "received") - SumIn(books, c, "reversed") - Added(f, SlotsOf(c))
    <3> DEFINE l == e.lines
    <3>1. l[c] \in Int /\ l[c] = Added(f, SlotsOf(c)) /\ Entry(p, "reversed", l) \notin books
          /\ books' = books \cup {Entry(p, "reversed", l)}
      BY <1>5, <1>12, <2>2 DEF back
    <3> HIDE DEF l, f
    <3> QED
      BY <2>3, <3>1, EntryMoves
  <2>5. Total(paid, SlotsOf(c)) = Balance(c)
    BY DEF AccountIInv, BooksMatchInstalments
  <2>6. Total(paid', SlotsOf(c)) \in Int
    <3>1. Total(paid', SlotsOf(c)) = Added(paid', SlotsOf(c))
      BY TotalIsAdded
    <3>2. paid' \in [Slots -> Nat]
      BY <1>9 DEF AccountTyped, AmountsOf
    <3> QED
      BY <3>1, <3>2, SlotSums
  <2> HIDE DEF f
  <2> QED
    BY <2>1, <2>2, <2>4, <2>5, <2>6, BalanceIs
<1> QED
  BY <1>9, <1>10, <1>11, <1>13, <1>15, <1>16 DEF AccountIInv

LEMMA BooksLeftAlone ==
    ASSUME BooksMatchInstalments, UNCHANGED <<paid, books>>
    PROVE  BooksMatchInstalments'
<1> SUFFICES ASSUME NEW c \in Components PROVE Total(paid', SlotsOf(c)) = Balance(c)'
  BY DEF BooksMatchInstalments, SlotsOf, ComponentOf
<1>1. Total(paid, SlotsOf(c)) = Balance(c)
  BY DEF BooksMatchInstalments
<1>2. Balance(c)' = Balance(c)
  BY BalanceIs
<1> QED
  BY <1>1, <1>2

LEMMA AssessChargeKeeps ==
    ASSUME AccountIInv, NEW i \in Instalments, AssessCharge(i)
    PROVE  AccountIInv'
<1> DEFINE a == FeeSlot(i)
           b == PrincipalSlot(i)
<1>0. /\ AmountsOf(due) /\ AmountsOf(paid) /\ PaidWithinDue
      /\ UNCHANGED <<applied, paid, stage, books>>
  BY DEF AccountIInv, AccountTyped, AssessCharge
<1>1. a \in Row(i) /\ b \in Row(i) /\ a # b /\ a \in Slots /\ b \in Slots
  BY RowSlots
<1>2. Room(b) > 0 /\ due' = [due EXCEPT ![a] = @ + 1]
  BY DEF AssessCharge
<1> HIDE DEF a, b
<1>3. \A s \in Slots : /\ due[s] \in Nat /\ paid[s] \in Nat /\ paid[s] <= due[s]
                       /\ due'[s] = IF s = a THEN due[s] + 1 ELSE due[s]
  BY <1>0, <1>1, <1>2 DEF AmountsOf, PaidWithinDue
<1>4. AccountTyped'
  BY <1>0, <1>1, <1>2, <1>3 DEF AccountIInv, AccountTyped, AmountsOf
<1>5. PaidWithinDue'
  BY <1>0, <1>3 DEF PaidWithinDue
<1>6. StageMatchesAmounts'
  <2> SUFFICES ASSUME NEW j \in Instalments
               PROVE  StoredStatus(j, due', paid) = StoredStatus(j, due, paid)
    BY <1>0 DEF AccountIInv, StageMatchesAmounts
  <2>1. CASE j # i
    <3>1. \A s \in Row(j) : s # a /\ s \in Slots
      BY <1>1, <2>1, RowSlots
    <3>2. \A s \in Row(j) : due'[s] = due[s]
      BY <1>3, <3>1
    <3> QED
      BY <3>2, StatusOfRow
  <2>2. CASE j = i
    <3>1. paid[b] # due[b] /\ paid[b] # due'[b]
      BY <1>1, <1>2, <1>3 DEF Room
    <3> QED
      BY <1>1, <2>2, <3>1 DEF StoredStatus
  <2> QED
    BY <2>1, <2>2
<1>7. PaidByStanding'
  BY <1>0 DEF AccountIInv, PaidByStanding, Standing, Booked
<1>8. BooksSound'
  BY <1>0 DEF AccountIInv, BooksSound, Booked, SlotsOf, ComponentOf
<1>9. BooksMatchInstalments'
  BY <1>0, BooksLeftAlone DEF AccountIInv
<1> QED
  BY <1>4, <1>5, <1>6, <1>7, <1>8, <1>9 DEF AccountIInv

LEMMA AccountStarts == AccountInit => AccountIInv
<1> SUFFICES ASSUME AccountInit PROVE AccountIInv
  OBVIOUS
<1>0. books = {} /\ paid = Nil /\ applied = [p \in Payments |-> Nil]
      /\ stage = [i \in Instalments |-> "SCHEDULED"]
  BY DEF AccountInit
<1>1. Nil \in [Slots -> Nat] /\ \A s \in Slots : Nil[s] = 0
  BY DEF Nil
<1>2. AmountsOf(due)
  <2>1. \A s \in Slots : InstalmentOf(s) \in Instalments /\ Interest[InstalmentOf(s)] \in Nat
    BY RowSlots, AccountAssumption DEF Instalments
  <2> QED
    BY <2>1 DEF AccountInit, AmountsOf
<1>3. AccountTyped
  BY <1>0, <1>1, <1>2 DEF AccountTyped, AmountsOf
<1>4. PaidWithinDue
  BY <1>0, <1>1, <1>2 DEF PaidWithinDue, AmountsOf
<1>5. StageMatchesAmounts
  <2> SUFFICES ASSUME NEW i \in Instalments PROVE StoredStatus(i, due, paid) = "SCHEDULED"
    BY <1>0 DEF StageMatchesAmounts
  <2>1. PrincipalSlot(i) \in Row(i) /\ PrincipalSlot(i) \in Slots /\ Row(i) \subseteq Slots
    BY RowSlots
  <2>2. PrincipalSlot(i) = 3 * i /\ i \in Nat
    BY SlotsFinite DEF PrincipalSlot
  <2>3. (3 * i) % 3 = 0
    BY <2>2
  <2>4. due[PrincipalSlot(i)] = 1
    BY <2>1, <2>2, <2>3 DEF AccountInit, ComponentOf
  <2>5. \A s \in Row(i) : paid[s] = 0
    BY <1>0, <1>1, <2>1
  <2> QED
    BY <2>1, <2>4, <2>5 DEF StoredStatus
<1>6. Standing = {}
  BY <1>0 DEF Standing, Booked
<1>7. PaidByStanding
  BY <1>0, <1>1, <1>6, AddedEmpty DEF PaidByStanding
<1>8. BooksSound
  BY <1>0, FS_EmptySet DEF BooksSound
<1>9. BooksMatchInstalments
  <2> SUFFICES ASSUME NEW c \in Components PROVE Total(paid, SlotsOf(c)) = Balance(c)
    BY DEF BooksMatchInstalments
  <2>1. IsFiniteSet(SlotsOf(c)) /\ \A s \in SlotsOf(c) : Nil[s] = 0
    BY <1>1, SlotSums
  <2>2. Added(Nil, SlotsOf(c)) = 0
    BY <2>1, AddedZero
  <2>3. SumIn(books, c, "received") = 0 /\ SumIn(books, c, "reversed") = 0
    <3>1. {e \in books : e.kind = "received"} = {} /\ {e \in books : e.kind = "reversed"} = {}
      BY <1>0
    <3> QED
      BY <3>1, AddedEmpty DEF SumIn
  <2> QED
    BY <1>0, <2>2, <2>3, TotalIsAdded, BalanceIs
<1> QED
  BY <1>3, <1>4, <1>5, <1>7, <1>8, <1>9 DEF AccountIInv

LEMMA AccountInvariant == AccountSpec => []AccountIInv
<1>1. AccountIInv /\ [AccountNext]_moneyVars => AccountIInv'
  <2> SUFFICES ASSUME AccountIInv, [AccountNext]_moneyVars PROVE AccountIInv'
    OBVIOUS
  <2>1. CASE UNCHANGED moneyVars
    <3>1. BooksMatchInstalments'
      BY <2>1, BooksLeftAlone DEF moneyVars, AccountIInv
    <3>2. StageMatchesAmounts'
      BY <2>1 DEF moneyVars, AccountIInv, StageMatchesAmounts, StoredStatus, Row
    <3>3. BooksSound' /\ PaidByStanding'
      BY <2>1 DEF moneyVars, AccountIInv, BooksSound, PaidByStanding, Standing, Booked,
                  SlotsOf, ComponentOf
    <3> QED
      BY <2>1, <3>1, <3>2, <3>3 DEF moneyVars, AccountIInv, AccountTyped, AmountsOf,
                                    PaidWithinDue
  <2>2. \A x \in Amounts : x \in Nat
    BY DEF Amounts
  <2>3. ASSUME NEW p \in Payments, NEW x \in Amounts, ~Booked(p, "received"), Settle(p, x)
        PROVE  AccountIInv'
    BY <2>2, <2>3, SettleKeeps
  <2>4. ASSUME NEW p \in Payments, NEW x \in Amounts, ~Booked(p, "received"),
               SettleAndReverse(p, x)
        PROVE  AccountIInv'
    BY <2>2, <2>4, SettleAndReverseKeeps
  <2>5. ASSUME NEW p \in Payments, Booked(p, "received"), ~Booked(p, "reversed"), Reverse(p)
        PROVE  AccountIInv'
    BY <2>5, ReverseKeeps
  <2>6. ASSUME NEW i \in Instalments, AssessCharge(i) PROVE AccountIInv'
    BY <2>6, AssessChargeKeeps
  <2> QED
    BY <2>1, <2>3, <2>4, <2>5, <2>6, Zenon DEF AccountNext
<1> QED
  BY <1>1, AccountStarts, PTL DEF AccountSpec

\* Whatever is received, returned and charged late, in whatever order, and
\* however many instalments there are: the database accepts every row
\* (models/repayment.py ck_installment_paid_within_due and the status checks).
THEOREM TableAccepts == AccountSpec => []TableAcceptsRows
<1>1. AccountIInv => TableAcceptsRows
  BY DEF AccountIInv, TableAcceptsRows
<1> QED
  BY <1>1, AccountInvariant, PTL

\* The instalments and the ledger agree on what was paid, component by
\* component (services/repayment.py _settle and _reverse, services/ledger.py).
THEOREM BooksAgree == AccountSpec => []BooksMatchInstalments
<1>1. AccountIInv => BooksMatchInstalments
  BY DEF AccountIInv
<1> QED
  BY <1>1, AccountInvariant, PTL

\* allocate fills the slots in their order from every state that the account can
\* be in, and what it can't place is left over (domain/repayment.py allocate).
THEOREM Waterfall == AccountSpec => []AllocationIsWaterfall
<1>1. AccountIInv => AllocationIsWaterfall
  <2> SUFFICES ASSUME AccountIInv, NEW x \in Amounts
               PROVE  LET f == Allocate(x)
                          Full(s) == f[s] = Room(s)
                      IN  /\ \A s \in Slots : f[s] \in 0 .. Room(s)
                          /\ \A s \in Slots : f[s] > 0 => \A t \in 1 .. s - 1 : Full(t)
                          /\ Total(f, Slots) = x
                             \/ (Total(f, Slots) < x /\ \A s \in Slots : Full(s))
    BY Zenon DEF AllocationIsWaterfall
  <2> DEFINE f == Allocate(x)
  <2>1. x \in Nat
    BY DEF Amounts
  <2>2. /\ f \in [Slots -> Nat]
        /\ \A s \in Slots : f[s] <= Room(s)
        /\ \A s \in Slots : f[s] > 0 => \A t \in 1 .. s - 1 : f[t] = Room(t)
        /\ \/ Total(f, Slots) = x
           \/ Total(f, Slots) < x /\ \A s \in Slots : f[s] = Room(s)
    BY <2>1, AllocatedWithin DEF AccountIInv, AccountTyped
  <2>3. \A s \in Slots : Room(s) \in Int
    BY DEF Room, AccountIInv, AccountTyped, AmountsOf
  <2> HIDE DEF f
  <2>4. \A s \in Slots : f[s] \in 0 .. Room(s)
    BY <2>2, <2>3
  <2> QED
    BY <2>2, <2>4 DEF f
<1> QED
  BY <1>1, AccountInvariant, PTL

-----------------------------------------------------------------------------
(* Late charges.                                                           *)

\* What may be stored, and what is known of it in every state.
ChargeRows == UNION {[D -> Nat] : D \in SUBSET (1 .. PenalMaxDays)}

Within(rows, d) ==
    /\ rows \in ChargeRows
    /\ Added(rows, DOMAIN rows) <= TotalCap
    /\ \A e \in DOMAIN rows : e <= d

LastDay == IF day <= PenalMaxDays THEN day ELSE PenalMaxDays

LateIInv == day \in Nat /\ receipts \in Seq(Nat) /\ Within(charges, LastDay)

LEMMA PercentTyped ==
    ASSUME NEW n \in Int, NEW percent \in Nat
    PROVE  Percent(n, percent) \in Int /\ (n >= 0 => Percent(n, percent) >= 0)
<1> DEFINE m == n * percent
<1>1. m \in Int /\ (n >= 0 => m >= 0)
  OBVIOUS
<1>2. Percent(n, percent) = (m + 50) \div 100
  BY DEF Percent
<1> HIDE DEF m
<1> QED
  BY <1>1, <1>2

LEMMA CapTyped == TotalCap \in Nat
<1> DEFINE n == PrincipalDue + InterestDue
<1>1. n \in Int /\ n >= 0 /\ CapPercent \in Nat
  BY LateAssumption
<1>2. TotalCap = Percent(n, CapPercent)
  BY DEF TotalCap
<1> HIDE DEF n
<1>3. Percent(n, CapPercent) \in Int /\ Percent(n, CapPercent) >= 0
  BY <1>1, PercentTyped
<1> QED
  BY <1>2, <1>3

LEMMA RowsFinite ==
    ASSUME NEW rows \in ChargeRows
    PROVE  /\ DOMAIN rows \in SUBSET (1 .. PenalMaxDays) /\ IsFiniteSet(DOMAIN rows)
           /\ rows \in [DOMAIN rows -> Nat] /\ Numeric(rows, DOMAIN rows)
           /\ Charged(rows) = Added(rows, DOMAIN rows) /\ Charged(rows) \in Int
<1>1. DOMAIN rows \in SUBSET (1 .. PenalMaxDays) /\ rows \in [DOMAIN rows -> Nat]
  BY DEF ChargeRows
<1>2. IsFiniteSet(DOMAIN rows)
  <2>1. PenalMaxDays \in Nat
    BY LateAssumption
  <2> QED
    BY <1>1, <2>1, CountableUpTo
<1>3. Numeric(rows, DOMAIN rows)
  BY <1>1 DEF Numeric
<1>4. Charged(rows) = Added(rows, DOMAIN rows)
  BY DEF Charged, Added
<1> QED
  BY <1>1, <1>2, <1>3, <1>4, AddedInt

LEMMA UnpaidTyped ==
    ASSUME receipts \in Seq(Nat)
    PROVE  Unpaid \in Int
<1>1. IsFiniteSet(DOMAIN receipts) /\ Numeric(receipts, DOMAIN receipts)
  <2>1. DOMAIN receipts = 1 .. Len(receipts) /\ Len(receipts) \in Nat
    OBVIOUS
  <2>2. IsFiniteSet(DOMAIN receipts)
    <3>1. IsFiniteSet(1 .. Len(receipts))
      BY <2>1, FS_Interval
    <3> QED
      BY <2>1, <3>1
  <2>3. Numeric(receipts, DOMAIN receipts)
    BY <2>1 DEF Numeric
  <2> QED
    BY <2>2, <2>3
<1>2. Unpaid = PrincipalDue - Added(receipts, DOMAIN receipts)
  BY DEF Unpaid, Added
<1>3. Added(receipts, DOMAIN receipts) \in Int /\ PrincipalDue \in Int
  BY <1>1, AddedInt, LateAssumption
<1> QED
  BY <1>2, <1>3

\* A day's charge is a number that fits in the room the rows leave, and adds a row.
LEMMA ChargeTyped ==
    ASSUME receipts \in Seq(Nat), NEW rows \in ChargeRows, NEW d \in 1 .. PenalMaxDays
    PROVE  /\ ChargeForDay(rows, d) \in Int
           /\ ChargeForDay(rows, d) <= TotalCap - Charged(rows)
           /\ AddCharge(rows, d) \in ChargeRows
<1> DEFINE amount == ChargeForDay(rows, d)
           more == [x \in DOMAIN rows \cup {d} |-> IF x = d THEN amount ELSE rows[x]]
<1>1. /\ DOMAIN rows \in SUBSET (1 .. PenalMaxDays) /\ rows \in [DOMAIN rows -> Nat]
      /\ Charged(rows) \in Int
  BY RowsFinite
<1>2. amount \in Int /\ amount <= TotalCap - Charged(rows)
  <2> DEFINE r == TotalCap - Charged(rows)
             c == IF d = 1 THEN BounceAmount(Unpaid) ELSE PenalAmount(Unpaid)
  <2>1. r \in Int
    BY <1>1, CapTyped
  <2>2. PenalAmount(Unpaid) \in Int /\ BounceAmount(Unpaid) \in Int
    <3>1. Unpaid \in Int /\ PenalRate \in Nat /\ BouncePercent \in Nat /\ BounceCap \in Int
      BY UnpaidTyped, LateAssumption
    <3>2. Percent(Unpaid, PenalRate) \in Int /\ Percent(Unpaid, BouncePercent) \in Int
      BY <3>1, PercentTyped
    <3> QED
      BY <3>1, <3>2, MinOfTwo DEF PenalAmount, BounceAmount
  <2>3. c \in Int
    BY <2>2
  <2>4. amount = Min({c, r})
    BY DEF ChargeForDay
  <2> HIDE DEF c, r, amount
  <2>5. amount \in Int /\ amount <= r
    BY <2>1, <2>3, <2>4, MinOfTwo
  <2> QED
    BY <2>5 DEF r
<1>3. AddCharge(rows, d) = IF amount <= 0 THEN rows ELSE more
  BY DEF AddCharge
<1> HIDE DEF amount
<1>4. ASSUME ~(amount <= 0) PROVE more \in ChargeRows
  <2>1. DOMAIN rows \cup {d} \in SUBSET (1 .. PenalMaxDays)
    BY <1>1
  <2>2. more \in [DOMAIN rows \cup {d} -> Nat]
    BY <1>1, <1>2, <1>4
  <2> QED
    BY <2>1, <2>2 DEF ChargeRows
<1> QED
  BY <1>2, <1>3, <1>4 DEF amount

\* One day's charge fits in the room the rows leave, and is a row of its own.
LEMMA ChargeFits ==
    ASSUME receipts \in Seq(Nat), NEW rows, NEW d \in 1 .. PenalMaxDays,
           Within(rows, d - 1)
    PROVE  Within(AddCharge(rows, d), d)
<1> DEFINE amount == ChargeForDay(rows, d)
           more == [x \in DOMAIN rows \cup {d} |-> IF x = d THEN amount ELSE rows[x]]
<1>0. /\ rows \in ChargeRows /\ Added(rows, DOMAIN rows) <= TotalCap
      /\ \A e \in DOMAIN rows : e <= d - 1
      /\ d \in Nat /\ PenalMaxDays \in Nat
  BY LateAssumption DEF Within
<1>1. /\ DOMAIN rows \in SUBSET (1 .. PenalMaxDays) /\ IsFiniteSet(DOMAIN rows)
      /\ rows \in [DOMAIN rows -> Nat] /\ Numeric(rows, DOMAIN rows)
      /\ Charged(rows) = Added(rows, DOMAIN rows) /\ Charged(rows) \in Int
  BY <1>0, RowsFinite
<1>2. d \notin DOMAIN rows /\ \A e \in DOMAIN rows : e <= d
  BY <1>0, <1>1
<1>3. amount \in Int /\ amount <= TotalCap - Charged(rows)
      /\ AddCharge(rows, d) \in ChargeRows
  BY <1>0, ChargeTyped
<1>4. AddCharge(rows, d) = IF amount <= 0 THEN rows ELSE more
  BY DEF AddCharge
<1> HIDE DEF amount
<1>5. CASE amount <= 0
  BY <1>0, <1>2, <1>4, <1>5 DEF Within
<1>6. CASE ~(amount <= 0)
  <2>1. amount \in Nat
    BY <1>3, <1>6
  <2>2. /\ DOMAIN more = DOMAIN rows \cup {d} /\ more[d] = amount
        /\ \A e \in DOMAIN rows : more[e] = rows[e]
        /\ \A e \in DOMAIN more : more[e] \in Nat
    BY <1>1, <1>2, <2>1
  <2> HIDE DEF more
  <2>4. Numeric(more, DOMAIN rows \cup {d})
    BY <2>2 DEF Numeric
  <2>5. Added(more, DOMAIN rows) = Added(rows, DOMAIN rows)
    BY <1>1, <2>2, AddedSame
  <2>6. Added(more, DOMAIN rows \cup {d}) = Added(more, DOMAIN rows) + more[d]
    BY <1>1, <1>2, <2>4, AddedOne
  <2>7. Added(more, DOMAIN more) <= TotalCap
    BY <1>1, <1>3, <2>1, <2>2, <2>5, <2>6, CapTyped
  <2>8. \A e \in DOMAIN more : e <= d
    BY <1>0, <1>2, <2>2
  <2> QED
    BY <1>3, <1>4, <1>6, <2>7, <2>8 DEF Within
<1> QED
  BY <1>5, <1>6

\* The days of one run follow one another, up to the last day.
LEMMA DaysFollow ==
    ASSUME LateIInv, day > 0
    PROVE  \E first \in Nat : LET N == Len(DaysToAssess)
           IN  /\ N \in Nat /\ first >= 1 /\ first + N - 1 <= LastDay
               /\ \A e \in DOMAIN charges : e <= first - 1
               /\ \A n \in 1 .. N : DaysToAssess[n] = first + n - 1
<1> DEFINE D == DOMAIN charges
           top == Max({0} \cup D)
           first == top + 1
           last == Min({day, PenalMaxDays})
           count == Max({0, last - first + 1})
<1>0. PenalMaxDays \in Nat /\ PenalMaxDays >= 1 /\ day \in Nat
  BY LateAssumption DEF LateIInv
<1>1. LastDay \in Nat /\ LastDay >= 1 /\ last = LastDay
  BY <1>0, MinOfTwo DEF LastDay
<1>2. D \in SUBSET (1 .. PenalMaxDays) /\ \A e \in D : e <= LastDay
  BY RowsFinite DEF LateIInv, Within
<1>3. top \in {0} \cup D /\ \A e \in {0} \cup D : top >= e
  <2> DEFINE S == {0} \cup D
  <2>1. S \in SUBSET (0 .. PenalMaxDays) /\ S # {}
    BY <1>0, <1>2
  <2> HIDE DEF S
  <2>2. Max(S) \in S /\ \A y \in S : Max(S) >= y
    BY <1>0, <2>1, MaxUpTo
  <2> QED
    BY <2>2 DEF S
<1>s. DaysToAssess = [i \in 1 .. count |-> first + i - 1]
  BY DEF DaysToAssess
<1> HIDE DEF top
<1>4. top \in Nat /\ top <= LastDay
  BY <1>1, <1>2, <1>3
<1> HIDE DEF last, D
<1>5. /\ count \in Nat /\ count = IF 0 >= last - first + 1 THEN 0 ELSE last - first + 1
  BY <1>1, <1>4, MaxOfTwo
<1> HIDE DEF count
<1>6. Len(DaysToAssess) = count /\ \A n \in 1 .. count : DaysToAssess[n] = first + n - 1
  BY <1>5, <1>s
<1>7. first \in Nat /\ first >= 1 /\ first + count - 1 <= LastDay
  BY <1>1, <1>4, <1>5
<1>8. \A e \in D : e <= first - 1
  BY <1>2, <1>3, <1>4
<1> HIDE DEF first
<1> QED
  BY <1>5, <1>6, <1>7, <1>8 DEF D

\* However many days one run catches up on: day after day, the charges fit.
LEMMA AssessmentFits ==
    ASSUME LateIInv, AssessCharges
    PROVE  Within(charges', LastDay)
<1>0. day > 0 /\ receipts \in Seq(Nat) /\ charges \in ChargeRows
  BY DEF AssessCharges, LateIInv, Within
<1> DEFINE N == Len(DaysToAssess)
           G == [q \in ChargeRows \X (1 .. N) |-> AddCharge(q[1], DaysToAssess[q[2]])]
           rows == CHOOSE f : f = [n \in 0 .. N |-> IF n = 0 THEN charges
                                        ELSE AddCharge(f[n - 1], DaysToAssess[n])]
<1>1. charges' = rows[N]
  BY DEF AssessCharges
<1>2. PICK first \in Nat :
            /\ N \in Nat /\ first >= 1 /\ first + N - 1 <= LastDay
            /\ \A e \in DOMAIN charges : e <= first - 1
            /\ \A n \in 1 .. N : DaysToAssess[n] = first + n - 1
  BY <1>0, DaysFollow
<1>3. LastDay <= PenalMaxDays /\ LastDay \in Nat /\ PenalMaxDays \in Nat
  BY LateAssumption DEF LastDay, LateIInv
<1> HIDE DEF N
<1>4. \A n \in 1 .. N : DaysToAssess[n] \in 1 .. PenalMaxDays
  BY <1>2, <1>3
<1>5. IsStep(G, N, ChargeRows)
  <2>1. \A r \in ChargeRows, n \in 1 .. N : AddCharge(r, DaysToAssess[n]) \in ChargeRows
    BY <1>0, <1>4, ChargeTyped
  <2> QED
    BY <2>1 DEF IsStep
<1>6. \A r \in ChargeRows, n \in 1 .. N : G[<<r, n>>] = AddCharge(r, DaysToAssess[n])
  OBVIOUS
<1> HIDE DEF G
<1>7. PICK f : Recurs(f, charges, G, N, ChargeRows)
  BY <1>0, <1>2, <1>5, Recursion
<1>8. /\ f \in [0 .. N -> ChargeRows]
      /\ \A n \in 0 .. N : f[n] = IF n = 0 THEN charges
                                  ELSE AddCharge(f[n - 1], DaysToAssess[n])
  <2>1. /\ f \in [0 .. N -> ChargeRows] /\ f[0] = charges
        /\ \A n \in 1 .. N : f[n] = G[<<f[n - 1], n>>]
    BY <1>7 DEF Recurs
  <2>2. \A n \in 1 .. N : f[n] = AddCharge(f[n - 1], DaysToAssess[n])
    <3> SUFFICES ASSUME NEW n \in 1 .. N PROVE f[n] = AddCharge(f[n - 1], DaysToAssess[n])
      OBVIOUS
    <3>1. n - 1 \in 0 .. N
      BY <1>2
    <3>2. f[n - 1] \in ChargeRows
      BY <2>1, <3>1
    <3> QED
      BY <1>6, <2>1, <3>2
  <2> QED
    BY <1>2, <2>1, <2>2
<1>9. f = [n \in 0 .. N |-> IF n = 0 THEN charges ELSE AddCharge(f[n - 1], DaysToAssess[n])]
  BY <1>8
<1>10. rows = [n \in 0 .. N |-> IF n = 0 THEN charges
                                ELSE AddCharge(rows[n - 1], DaysToAssess[n])]
  BY <1>9
<1> HIDE DEF rows
<1>11. \A n \in 0 .. N : rows[n] = IF n = 0 THEN charges
                                   ELSE AddCharge(rows[n - 1], DaysToAssess[n])
  BY <1>10
<1> DEFINE P == {n \in 0 .. N : Within(rows[n], first + n - 1)}
<1>12. 0 \in P
  BY <1>2, <1>11 DEF Within, LateIInv
<1>13. \A n \in 0 .. N - 1 : n \in P => n + 1 \in P
  <2> SUFFICES ASSUME NEW n \in 0 .. N - 1, Within(rows[n], first + n - 1)
               PROVE  n + 1 \in P
    OBVIOUS
  <2> DEFINE d == first + n
  <2>1. n + 1 \in 0 .. N /\ n + 1 # 0 /\ n + 1 - 1 = n /\ n + 1 \in 1 .. N
    BY <1>2
  <2>2. rows[n + 1] = AddCharge(rows[n], DaysToAssess[n + 1])
    BY <1>11, <2>1
  <2>3. DaysToAssess[n + 1] = d /\ d \in 1 .. PenalMaxDays /\ d - 1 = first + n - 1
        /\ first + (n + 1) - 1 = d
    BY <1>2, <1>3, <2>1
  <2> HIDE DEF d
  <2>4. Within(AddCharge(rows[n], d), d)
    BY <1>0, <2>3, ChargeFits
  <2> QED
    BY <2>1, <2>2, <2>3, <2>4
<1> HIDE DEF P
<1>14. \A n \in 0 .. N : n \in P
  BY <1>2, <1>12, <1>13, CountUp
<1>15. Within(rows[N], first + N - 1)
  <2>1. N \in P
    BY <1>2, <1>14
  <2> QED
    BY <2>1 DEF P
<1>16. \A e \in DOMAIN rows[N] : e <= LastDay
  <2>1. \A e \in DOMAIN rows[N] : e \in Int /\ e <= first + N - 1
    BY <1>15, RowsFinite DEF Within
  <2> QED
    BY <1>2, <1>3, <2>1
<1> QED
  BY <1>1, <1>15, <1>16 DEF Within

\* Whatever the prices, the days missed and the payments received and returned
\* between runs: the charges of an instalment stay within their cap and their
\* days (services/late_charges.py assess_schedule, domain/late_charges.py
\* charge_for_day).
THEOREM CapKept == LateSpec => []ChargesWithinCap
<1>1. LateInit => LateIInv
  <2> SUFFICES ASSUME LateInit PROVE LateIInv
    OBVIOUS
  <2>1. charges \in [{} -> Nat] /\ DOMAIN charges = {}
    BY DEF LateInit
  <2>2. charges \in ChargeRows
    BY <2>1 DEF ChargeRows
  <2>3. Added(charges, DOMAIN charges) = 0
    BY <2>1, AddedEmpty
  <2> QED
    BY <2>1, <2>2, <2>3, CapTyped DEF LateInit, LateIInv, Within
<1>2. LateIInv /\ [LateNext]_lateVars => LateIInv'
  <2> SUFFICES ASSUME LateIInv, [LateNext]_lateVars PROVE LateIInv'
    OBVIOUS
  <2>1. CASE UNCHANGED lateVars
    BY <2>1 DEF LateIInv, lateVars, LastDay, Within
  <2>2. CASE AssessCharges
    <3>1. Within(charges', LastDay)
      BY <2>2, AssessmentFits
    <3> QED
      BY <2>2, <3>1 DEF AssessCharges, LateIInv, LastDay
  <2>3. ASSUME NEW amount \in {PrincipalDue \div 2, PrincipalDue}, Receive(amount)
        PROVE  LateIInv'
    <3>1. amount \in Nat
      <4>1. PrincipalDue \in Nat
        BY LateAssumption
      <4> QED
        BY <4>1
    <3>2. Append(receipts, amount) \in Seq(Nat)
      BY <3>1, SeqAppend DEF LateIInv
    <3> QED
      BY <2>3, <3>2 DEF Receive, LateIInv, LastDay
  <2>4. ASSUME NEW i \in DOMAIN receipts, Return(i) PROVE LateIInv'
    <3>1. [receipts EXCEPT ![i] = 0] \in Seq(Nat)
      BY SeqExcept DEF LateIInv
    <3> QED
      BY <2>4, <3>1 DEF Return, LateIInv, LastDay
  <2>5. CASE LateNextDay
    <3>1. day' \in Nat /\ LastDay <= LastDay' /\ LastDay \in Nat /\ LastDay' \in Nat
      BY <2>5, LateAssumption DEF LateNextDay, LateIInv, LastDay
    <3>2. \A e \in DOMAIN charges : e \in Nat /\ e <= LastDay
      BY RowsFinite DEF LateIInv, Within
    <3>3. \A e \in DOMAIN charges : e <= LastDay'
      BY <3>1, <3>2
    <3> QED
      BY <2>5, <3>1, <3>3 DEF LateNextDay, LateIInv, Within
  <2> QED
    BY <2>1, <2>2, <2>3, <2>4, <2>5 DEF LateNext
<1>3. LateIInv => ChargesWithinCap
  <2> SUFFICES ASSUME LateIInv PROVE ChargesWithinCap
    OBVIOUS
  <2>1. Charged(charges) = Added(charges, DOMAIN charges)
    BY RowsFinite DEF LateIInv, Within
  <2>2. Min({day, PenalMaxDays}) = LastDay
    <3>1. day \in Int /\ PenalMaxDays \in Int
      BY LateAssumption DEF LateIInv
    <3> QED
      BY <3>1, MinOfTwo DEF LastDay
  <2> QED
    BY <2>1, <2>2 DEF LateIInv, Within, ChargesWithinCap
<1> QED
  BY <1>1, <1>2, <1>3, PTL DEF LateSpec
=============================================================================
