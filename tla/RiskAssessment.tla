--------------------------- MODULE RiskAssessment ---------------------------
(***************************************************************************)
(* The assessment of one application: a bureau and a fraud provider are    *)
(* asked, the customer's declared income is weighed, a scorecard adds up   *)
(* points, and the result is stored once and kept.                         *)
(*                                                                         *)
(* An assessment is one transaction: it stores its three parts and its     *)
(* result together, or nothing.  Amounts are percents of the income.       *)
(***************************************************************************)
EXTENDS Integers, FiniteSets, FiniteSetsExt

CONSTANTS
    Scores,         \* bureau scores an applicant may have
    Delinquencies,  \* counts of delinquent accounts
    Inquiries,      \* counts of recent inquiries
    Burdens         \* monthly obligations, in percent of the income

ASSUME RiskAssumption ==
    /\ Scores \cup Delinquencies \cup Inquiries \cup Burdens \subseteq Nat

\* What a provider that timed out, or a missing value, leaves.
Missing == -1
Levels == {"LOW", "MEDIUM", "HIGH", "UNKNOWN"}

VARIABLES
    applicant,  \* the truth about the applicant, outside the system
    credit,     \* the stored credit assessment, or Missing
    fraud,      \* the stored fraud level, "none" before
    burden,     \* the stored obligation ratio, or Missing
    risk        \* the stored result, or Unassessed

riskVars == <<applicant, credit, fraud, burden, risk>>

----------------------------------------------------------------------------
\* The scorecard: points for what is known, a flag for what is not

CreditPoints(s) ==
    IF s = Missing THEN 0
    ELSE IF s < 600 THEN 25
    ELSE IF s < 650 THEN 18
    ELSE IF s < 700 THEN 10
    ELSE 0

DelinquencyPoints(n) ==
    IF n \in {Missing, 0} THEN 0
    ELSE IF n = 1 THEN 15
    ELSE 25

\* Seeded fault: The points of the two upper bands are swapped.
InquiryPointsSwapped(n) ==
    IF n = Missing \/ n <= 1 THEN 0
    ELSE IF n <= 3 THEN 10
    ELSE 5

InquiryPoints(n) ==
    IF n = Missing \/ n <= 1 THEN 0
    ELSE IF n <= 3 THEN 5
    ELSE 10

FraudPoints(level) ==
    IF level = "MEDIUM" THEN 20
    ELSE IF level = "HIGH" THEN 35
    ELSE IF level = "UNKNOWN" THEN 10
    ELSE 0

ObligationPoints(percent) ==
    IF percent = Missing \/ percent <= 20 THEN 0
    ELSE IF percent <= 40 THEN 10
    ELSE IF percent <= 60 THEN 20
    ELSE 30

\* What is left of the income is 100 - percent of it.
DisposablePoints(percent) ==
    IF percent = Missing \/ percent < 100 THEN 0
    ELSE IF percent = 100 THEN 15
    ELSE 20

MaxScore == 100

Score(in) ==
    Min({MaxScore,
         CreditPoints(in.score) + DelinquencyPoints(in.delinquent)
            + InquiryPoints(in.inquiries) + FraudPoints(in.level)
            + ObligationPoints(in.burden) + DisposablePoints(in.burden)})

\* HIGH flags: a missing or unheard-of fraud level.  (The providers and the
\* declared amounts give no negative counts or ratios.)
HighFlags(in) == in.level \notin Levels

Band(score) ==
    IF score < 30 THEN "LOW"
    ELSE IF score < 60 THEN "MEDIUM"
    ELSE "HIGH"

Action(in) ==
    IF HighFlags(in) \/ Band(Score(in)) = "HIGH" THEN "MANUAL_REVIEW"
    ELSE "ASSESS"

Result(in) == [score |-> Score(in), band |-> Band(Score(in)), action |-> Action(in)]
Unassessed == [score |-> Missing, band |-> "UNKNOWN", action |-> "ASSESS"]

----------------------------------------------------------------------------
\* The assessment

Report == [score : Scores, delinquent : Delinquencies, inquiries : Inquiries]
NoReport == [score |-> Missing, delinquent |-> Missing, inquiries |-> Missing]

Applicants ==
    [report : Report, level : Levels, burden : Burdens]

\* What the scorecard is given of an applicant about whom everything is known.
Known(a) ==
    [score |-> a.report.score, delinquent |-> a.report.delinquent,
     inquiries |-> a.report.inquiries, level |-> a.level, burden |-> a.burden]

RiskInit ==
    /\ applicant \in Applicants
    /\ credit = NoReport /\ fraud = "none" /\ burden = Missing
    /\ risk = Unassessed

\* Each provider may time out, which is stored as an assessment without a
\* result.
AskBureau == credit' \in {applicant.report, NoReport}
AskFraudProvider == fraud' \in {applicant.level, "UNKNOWN"}

\* The ratio of the declared obligations to the declared income.
WeighObligations == burden' = applicant.burden

\* Once there is a result it is returned as it is, whatever it was based on.
Assess ==
    /\ risk = Unassessed
    /\ AskBureau /\ AskFraudProvider /\ WeighObligations
    /\ risk' = Result([score |-> credit'.score, delinquent |-> credit'.delinquent,
                       inquiries |-> credit'.inquiries, level |-> fraud',
                       burden |-> burden'])
    /\ UNCHANGED applicant

\* The applicant's circumstances get worse in one respect.
Worse(a) ==
    LET r == a.report
    IN  {[a EXCEPT !.report.score = s] : s \in {x \in Scores : x < r.score}}
        \cup {[a EXCEPT !.report.delinquent = n] :
                n \in {x \in Delinquencies : x > r.delinquent}}
        \cup {[a EXCEPT !.report.inquiries = n] :
                n \in {x \in Inquiries : x > r.inquiries}}
        \cup {[a EXCEPT !.burden = p] : p \in {x \in Burdens : x > a.burden}}
        \cup {[a EXCEPT !.level = l] :
                l \in IF a.level = "LOW" THEN {"UNKNOWN", "MEDIUM", "HIGH"}
                      ELSE IF a.level = "UNKNOWN" THEN {"MEDIUM", "HIGH"}
                      ELSE IF a.level = "MEDIUM" THEN {"HIGH"}
                      ELSE {}}

GetWorse ==
    /\ applicant' \in Worse(applicant)
    /\ UNCHANGED <<credit, fraud, burden, risk>>

RiskNext == Assess \/ GetWorse

RiskSpec == RiskInit /\ [][RiskNext]_riskVars

----------------------------------------------------------------------------

RiskTypeOK ==
    /\ applicant \in Applicants
    /\ credit \in Report \cup {NoReport}
    /\ fraud \in Levels \cup {"none"}
    /\ burden \in Burdens \cup {Missing}
    /\ risk \in [score : 0 .. MaxScore, band : {"LOW", "MEDIUM", "HIGH"},
                 action : {"ASSESS", "MANUAL_REVIEW"}] \cup {Unassessed}

\* Whoever gets worse in any respect never gets fewer points, nor leaves manual
\* review for it: the thresholds of services/risk_engine.py's six rules, the
\* bands and the cap do not cross.
NeverMoreLenient ==
    [][/\ Score(Known(applicant')) >= Score(Known(applicant))
       /\ Action(Known(applicant)) = "MANUAL_REVIEW"
            => Action(Known(applicant')) = "MANUAL_REVIEW"]_riskVars

=============================================================================
