------------------------------- MODULE Policy -------------------------------
(***************************************************************************)
(* The lending policy: the rules of the version in force are tried in      *)
(* order on the facts of an application, and the outcome is routed and     *)
(* stored.  A rule that does not match, or an evaluation that raises,      *)
(* leaves nothing behind.                                                  *)
(***************************************************************************)
EXTENDS Integers, FiniteSets, Sequences

CONSTANTS
    Facts,      \* what a rule may ask of an application
    MaxRules    \* bound: rules of a policy

ASSUME PolicyAssumption == MaxRules \in Nat

Effects == {"ALLOW", "REQUIRE_MANUAL_REVIEW", "REQUIRE_ADDITIONAL_INFORMATION",
            "REQUIRE_EXTERNAL_PROVIDER", "REJECT"}

Terminal == {"AUTO_REJECTED", "PENDING_ADDITIONAL_INFORMATION",
             "PENDING_EXTERNAL_PROVIDER", "ERROR_REQUIRES_REVIEW"}

Routes == Terminal \cup {"MANUAL_REVIEW"}

\* A rule: what it needs to match, and its effect.  Orders are unique within a
\* version, so a version is the sequence of its rules.
Rule == [needs : SUBSET Facts, effect : Effects]
Policies == UNION {[1 .. n -> Rule] : n \in 0 .. MaxRules}

VARIABLES
    rules,      \* the rules of the version in force; << >> when none is
    facts,      \* what holds of the application
    matched,    \* the rules that the stored evaluation names
    decision    \* the stored route, "none" before, "raised" when there is none

policyVars == <<rules, facts, matched, decision>>

Matches(rule) == rule.needs \subseteq facts

\* ALLOW leaves the route as it is.
RouteForEffect(effect, current) ==
    IF effect = "ALLOW" THEN current
    ELSE IF effect = "REQUIRE_MANUAL_REVIEW" THEN "MANUAL_REVIEW"
    ELSE IF effect = "REQUIRE_ADDITIONAL_INFORMATION" THEN "PENDING_ADDITIONAL_INFORMATION"
    ELSE IF effect = "REQUIRE_EXTERNAL_PROVIDER" THEN "PENDING_EXTERNAL_PROVIDER"
    ELSE "AUTO_REJECTED"

\* Seeded fault: The rules go on after a terminal route.
TryRuleOn(sofar, i) ==
    IF ~ Matches(rules[i]) THEN sofar
    ELSE [route |-> RouteForEffect(rules[i].effect, sofar.route),
          matched |-> Append(sofar.matched, i)]

\* One rule after the other, until a terminal route.
TryRule(sofar, i) ==
    IF sofar.route \in Terminal \/ ~ Matches(rules[i]) THEN sofar
    ELSE [route |-> RouteForEffect(rules[i].effect, sofar.route),
          matched |-> Append(sofar.matched, i)]

Evaluation ==
    LET after[i \in 0 .. Len(rules)] ==
            IF i = 0 THEN [route |-> "MANUAL_REVIEW", matched |-> << >>]
            ELSE TryRule(after[i - 1], i)
    IN  after[Len(rules)]

\* DecisionRouter.route: nothing is approved without a review.
Routed(route) == IF route = "AUTO_APPROVED" THEN "MANUAL_REVIEW" ELSE route

PolicyInit ==
    /\ rules \in Policies
    /\ facts \in SUBSET Facts
    /\ matched = << >> /\ decision = "none"

\* Without a version, rules, facts, or a rule that matched, the evaluation
\* raises: a result must name what it rests on.
Decide ==
    /\ decision = "none"
    /\ IF facts = {} \/ Evaluation.matched = << >>
       THEN decision' = "raised" /\ UNCHANGED matched
       ELSE decision' = Routed(Evaluation.route) /\ matched' = Evaluation.matched
    /\ UNCHANGED <<rules, facts>>

\* The lender writes another version, the application changes.
Change ==
    /\ decision # "none"
    /\ rules' \in Policies
    /\ facts' \in SUBSET Facts
    /\ matched' = << >> /\ decision' = "none"

PolicyNext == Decide \/ Change

PolicySpec == PolicyInit /\ [][PolicyNext]_policyVars

----------------------------------------------------------------------------

PolicyTypeOK ==
    /\ rules \in Policies /\ facts \in SUBSET Facts
    /\ matched \in Seq(1 .. MaxRules)
    /\ decision \in Routes \cup {"none", "raised"}

Members(seq) == {seq[k] : k \in DOMAIN seq}
Blocking == Effects \ {"ALLOW", "REQUIRE_MANUAL_REVIEW"}

\* The decision is the effect of the first rule that matches and blocks, or a
\* review if there is none, and it names each rule that matched up to there:
\* services/policy_engine.py evaluate.
FirstBlockingRuleDecides ==
    decision \in Routes =>
        LET hits == {i \in 1 .. Len(rules) : Matches(rules[i])}
            stops == {i \in hits : rules[i].effect \in Blocking}
        IN  IF stops = {}
            THEN decision = "MANUAL_REVIEW" /\ Members(matched) = hits
            ELSE LET first == CHOOSE i \in stops : \A j \in stops : i <= j
                 IN  /\ decision = RouteForEffect(rules[first].effect, "none")
                     /\ Members(matched) = {i \in hits : i <= first}

=============================================================================
