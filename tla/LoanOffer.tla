----------------------------- MODULE LoanOffer ------------------------------
(***************************************************************************)
(* One loan application and the versions of its offer: drafted, issued to  *)
(* the customer for a while, accepted, declined, withdrawn or expired.     *)
(*                                                                         *)
(* A request is one transaction on a row it locks, except issuing: it      *)
(* reads the offer first, to learn which application to lock, and the      *)
(* locked read that follows returns the object already in the session,     *)
(* as it was.  So issuing has a step of its own for that first read, and   *)
(* decides on what it saw there; the database's trigger and unique index   *)
(* decide on what is true.                                                 *)
(***************************************************************************)
EXTENDS Integers, FiniteSets

CONSTANTS
    MaxVersions,    \* bound: offers drafted for the application
    Issuers         \* admins who may be issuing an offer

ASSUME OfferAssumption == MaxVersions \in Nat

Versions == 1 .. MaxVersions

ApplicationStatus ==
    {"DRAFT", "SUBMITTED", "PROCESSING", "PENDING_ADDITIONAL_INFORMATION",
     "MANUAL_REVIEW", "APPROVED", "REJECTED", "CANCELLED", "EXPIRED"}

\* LOAN_APPLICATION_TRANSITIONS
ApplicationMoves ==
    LET Ends == {"CANCELLED", "EXPIRED"}
    IN  [s \in ApplicationStatus |->
            CASE s = "DRAFT" -> {"SUBMITTED"} \cup Ends
              [] s = "SUBMITTED" -> {"PROCESSING"} \cup Ends
              [] s = "PROCESSING" ->
                    {"PENDING_ADDITIONAL_INFORMATION", "MANUAL_REVIEW",
                     "APPROVED", "REJECTED"} \cup Ends
              [] s = "PENDING_ADDITIONAL_INFORMATION" -> {"PROCESSING"} \cup Ends
              [] s = "MANUAL_REVIEW" -> {"APPROVED", "REJECTED"} \cup Ends
              [] OTHER -> {}]

\* "NONE": no such version yet.
OfferStatus == {"NONE", "DRAFT", "ISSUED", "ACCEPTED", "DECLINED", "EXPIRED",
                "CANCELLED"}
Open == {"ISSUED", "ACCEPTED"}
Closed == OfferStatus \ (Open \cup {"NONE", "DRAFT"})

VARIABLES
    application,    \* the application's status
    offer,          \* each version's status
    over,           \* versions past their expires_at
    looked,         \* what each admin's preliminary read returned
    refused         \* whether the unique index ever refused a write of an offer

offerVars == <<application, offer, over, looked, refused>>

\* Not issuing anything.
Away == [version |-> 0, saw |-> "NONE"]
Look == [version : Versions, saw : OfferStatus \ {"NONE"}] \cup {Away}

OfferInit ==
    /\ application = "DRAFT"
    /\ offer = [v \in Versions |-> "NONE"]
    /\ over = {}
    /\ looked = [a \in Issuers |-> Away]
    /\ refused = FALSE

OpenVersions(o) == {v \in Versions : o[v] \in Open}

\* Seeded fault: The table without its trigger.
TriggerAllowsAll(from, to) == from # to

\* The trigger on loan_offers: what may follow a status.  It also refuses new
\* terms or timestamps on an issued row, which issuing one again would write.
TriggerAllows(from, to) ==
    \/ from = "DRAFT" /\ to \in {"DRAFT", "ISSUED"}
    \/ from = "ISSUED" /\ to \in {"ACCEPTED"} \cup Closed

\* Flush new statuses, and all of them or none.
\* One partial unique index: a single open version per application.
Write(after) ==
    LET changed == {v \in Versions : after[v] # offer[v]}
        allowed == \A v \in changed : TriggerAllows(offer[v], after[v])
        unique == Cardinality(OpenVersions(after)) <= 1
    IN  /\ refused' = (refused \/ (allowed /\ ~ unique))
        /\ offer' = IF allowed /\ unique THEN after ELSE offer

----------------------------------------------------------------------------
\* The application

\* transition_status, and submit, which the customer calls on a draft.
MoveApplication(s) ==
    /\ s \in ApplicationMoves[application]
    /\ application' = s
    /\ UNCHANGED <<offer, over, looked, refused>>

----------------------------------------------------------------------------
\* Admins

\* The next version, while none is accepted.
CreateDraft ==
    /\ application = "APPROVED"
    /\ \A v \in Versions : offer[v] # "ACCEPTED"
    /\ \E v \in Versions :
        /\ offer[v] = "NONE"
        /\ \A w \in 1 .. v - 1 : offer[w] # "NONE"
        /\ offer' = [offer EXCEPT ![v] = "DRAFT"]
    /\ UNCHANGED <<application, over, looked, refused>>

\* get_by_id without a lock: the object stays in the session.
LookAtOffer(a, v) ==
    /\ looked[a] = Away /\ offer[v] # "NONE"
    /\ looked' = [looked EXCEPT ![a] = [version |-> v, saw |-> offer[v]]]
    /\ UNCHANGED <<application, offer, over, refused>>

\* Seeded fault: The open offers are left as they are.
SupersededLeft(v) == [offer EXCEPT ![v] = "DRAFT"]

\* Supersede what is open: cancel it, unless it is accepted.
Superseded(v) ==
    [w \in Versions |-> IF w # v /\ offer[w] \in Open THEN "CANCELLED"
                        ELSE offer[w]]

\* What issue_offer asks for under both locks: of the offer, the status seen
\* before them.
MayIssue(a) ==
    /\ looked[a].saw = "DRAFT"
    /\ application = "APPROVED"
    /\ \A w \in OpenVersions(offer) \ {looked[a].version} : offer[w] # "ACCEPTED"

\* Generate the documents, cancel the open offers, issue this one.  The write
\* of a row that is no longer a draft changes its timestamps, so the trigger
\* refuses it whatever the row's status.
IssueOffer(a) ==
    LET v == looked[a].version
    IN  /\ looked[a] # Away
        /\ looked' = [looked EXCEPT ![a] = Away]
        /\ IF MayIssue(a) /\ offer[v] # "ISSUED"
           THEN Write([Superseded(v) EXCEPT ![v] = "ISSUED"])
           ELSE UNCHANGED <<offer, refused>>
        /\ UNCHANGED <<application, over>>

CancelOffer(v) ==
    /\ offer[v] = "ISSUED"
    /\ Write([offer EXCEPT ![v] = "CANCELLED"])
    /\ UNCHANGED <<application, over, looked>>

----------------------------------------------------------------------------
\* The customer, and the clock

\* Accepting again returns the accepted offer.  Past its expiry the offer is
\* stored as expired, not accepted.
AcceptOffer(v) ==
    /\ offer[v] = "ISSUED"
    /\ Write([offer EXCEPT ![v] = IF v \in over THEN "EXPIRED" ELSE "ACCEPTED"])
    /\ UNCHANGED <<application, over, looked>>

DeclineOffer(v) ==
    /\ offer[v] = "ISSUED"
    /\ Write([offer EXCEPT ![v] = IF v \in over THEN "EXPIRED" ELSE "DECLINED"])
    /\ UNCHANGED <<application, over, looked>>

\* expire_offer, and each row of the sweep.
ExpireOffer(v) ==
    /\ offer[v] = "ISSUED" /\ v \in over
    /\ Write([offer EXCEPT ![v] = "EXPIRED"])
    /\ UNCHANGED <<application, over, looked>>

\* The window of an issued offer closes.
WindowCloses(v) ==
    /\ offer[v] = "ISSUED" /\ v \notin over
    /\ over' = over \cup {v}
    /\ UNCHANGED <<application, offer, looked, refused>>

OfferNext ==
    \/ \E s \in ApplicationStatus : MoveApplication(s)
    \/ CreateDraft
    \/ \E a \in Issuers, v \in Versions : LookAtOffer(a, v)
    \/ \E a \in Issuers : IssueOffer(a)
    \/ \E v \in Versions :
        \/ CancelOffer(v)
        \/ AcceptOffer(v)
        \/ DeclineOffer(v)
        \/ ExpireOffer(v)
        \/ WindowCloses(v)

----------------------------------------------------------------------------

OfferTypeOK ==
    /\ application \in ApplicationStatus
    /\ offer \in [Versions -> OfferStatus]
    /\ over \subseteq Versions
    /\ looked \in [Issuers -> Look]
    /\ refused \in BOOLEAN

\* An offer the customer declined, that was withdrawn or that ran out is never
\* open again, although an admin may be issuing it from what was read before:
\* services/loan_offer.py issue_offer.
ClosedOffersStayClosed ==
    [][\A v \in Versions : offer[v] \in Closed => offer'[v] = offer[v]]_offerVars

\* Issuing, accepting, expiring and cancelling in any order never leave two
\* offers open, and never rely on the index for it: the write it would refuse
\* is not made.
OneOpenOffer ==
    /\ Cardinality(OpenVersions(offer)) <= 1
    /\ ~ refused

=============================================================================
