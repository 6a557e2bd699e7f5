----------------------------- MODULE MCCustomer -----------------------------
(***************************************************************************)
(* What a customer goes through, part by part: a behaviour stays in the    *)
(* part it starts in and leaves the others' variables alone.               *)
(*                                                                         *)
(* One of the parts is Repayment once more, now with a provider that       *)
(* reports any status, amount and reference for anything.                  *)
(***************************************************************************)
EXTENDS ESign, SignIn, Onboarding, Documents, BankVerification, TLC

VARIABLES
    part,
    \* the payments, and the account they fill
    pyStatus, pyRef, pyAmount, pySeen, pyOld, pyCall, pyCollection, pyReported,
    pyApplied, pyDue, pyPaid, pyStage, pyBooks

pyVars == <<pyStatus, pyRef, pyAmount, pySeen, pyOld, pyCall, pyCollection,
            pyReported, pyApplied, pyDue, pyPaid, pyStage, pyBooks>>

\* Two payments into one instalment without interest, one caller at a time.
Payments == INSTANCE Repayment WITH
    MaxPayments <- 2, Interest <- [i \in 1 .. 1 |-> 0], MaxFee <- 0,
    Callers <- {"c"}, MaxOpen <- 5, Quirks <- {"misreport"},
    status <- pyStatus, ref <- pyRef, amount <- pyAmount, seen <- pySeen,
    old <- pyOld, call <- pyCall, collection <- pyCollection,
    reported <- pyReported, applied <- pyApplied, due <- pyDue, paid <- pyPaid,
    stage <- pyStage, books <- pyBooks

Parts == {"signing in", "onboarding", "documents", "bank", "agreement", "payments"}

\* A part that is not running has one initial state.
CustomerInit ==
    /\ part \in Parts
    /\ part # "documents" =>
          request = [u \in Uploads |-> [phase |-> "new", ref |-> CHOOSE r \in Ref : TRUE]]
    /\ ESignInit /\ SignInInit /\ OnboardingInit /\ DocumentInit /\ BankInit
    /\ Payments!Init

CustomerNext ==
    /\ UNCHANGED part
    /\ \/ /\ part = "agreement" /\ ESignNext
          /\ UNCHANGED <<signInVars, onboardingVars, documentVars, bankVars, pyVars>>
       \/ /\ part = "signing in" /\ SignInNext
          /\ UNCHANGED <<esignVars, onboardingVars, documentVars, bankVars, pyVars>>
       \/ /\ part = "onboarding" /\ OnboardingNext
          /\ UNCHANGED <<esignVars, signInVars, documentVars, bankVars, pyVars>>
       \/ /\ part = "documents" /\ DocumentNext
          /\ UNCHANGED <<esignVars, signInVars, onboardingVars, bankVars, pyVars>>
       \/ /\ part = "bank" /\ BankNext
          /\ UNCHANGED <<esignVars, signInVars, onboardingVars, documentVars, pyVars>>
       \/ /\ part = "payments" /\ Payments!Next
          /\ UNCHANGED <<esignVars, signInVars, onboardingVars, documentVars, bankVars>>

CustomerSpec ==
    CustomerInit /\ [][CustomerNext]_<<part, esignVars, signInVars, onboardingVars,
                                       documentVars, bankVars, pyVars>>

\* Whatever the provider claims, in whatever order, the payments move as their
\* table allows and the ledger holds what they say: services/repayment.py
\* _apply_report.
PaymentsStandMisreports ==
    [][Payments!BooksMatchPayments']_pyVars /\ Payments!NoRefusedUpdate

\* The sets of the configuration share their first two values.
Symmetry == Permutations(Requests)
=============================================================================
