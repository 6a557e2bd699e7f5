----------------------------- MODULE MCAccounts -----------------------------
(***************************************************************************)
(* What is computed and booked for one loan, part by part: a behaviour     *)
(* stays in the part it starts in and leaves the others' variables alone.  *)
(***************************************************************************)
EXTENDS LoanAccount, Pricing, LateCharges, RiskAssessment, Policy

VARIABLE part

\* Two instalments, the first with interest.
TwoInstalments == [i \in 1 .. 2 |-> IF i = 1 THEN 1 ELSE 0]

\* Free of interest; 1/12 a month with the highest fee and tax.
Prices ==
    {[num |-> 0, den |-> 1, fee |-> 2, gst |-> 18],
     [num |-> 1, den |-> 12, fee |-> 25, gst |-> 50]}

Parts == {"account", "pricing", "late", "risk", "policy"}

\* A part that is not running has one initial state.
AccountsInit ==
    /\ part \in Parts
    /\ part # "risk" => applicant = CHOOSE a \in Applicants : TRUE
    /\ part # "policy" => rules = << >> /\ facts = {}
    /\ AccountInit /\ PricingInit /\ LateInit /\ RiskInit /\ PolicyInit

AccountsNext ==
    /\ UNCHANGED part
    /\ \/ /\ part = "account" /\ AccountNext
          /\ UNCHANGED <<pricingVars, lateVars, riskVars, policyVars>>
       \/ /\ part = "pricing" /\ PricingNext
          /\ UNCHANGED <<moneyVars, lateVars, riskVars, policyVars>>
       \/ /\ part = "late" /\ LateNext
          /\ UNCHANGED <<moneyVars, pricingVars, riskVars, policyVars>>
       \/ /\ part = "risk" /\ RiskNext
          /\ UNCHANGED <<moneyVars, pricingVars, lateVars, policyVars>>
       \/ /\ part = "policy" /\ PolicyNext
          /\ UNCHANGED <<moneyVars, pricingVars, lateVars, riskVars>>

AccountsSpec ==
    AccountsInit /\ [][AccountsNext]_<<part, moneyVars, pricingVars, lateVars, riskVars,
                                       policyVars>>
=============================================================================
