------------------------- MODULE BankVerification ---------------------------
(***************************************************************************)
(* Verifying the customers' bank accounts with an outside provider.        *)
(*                                                                         *)
(* Requests of one customer are serialised by an advisory lock, and work   *)
(* on a row by the row's lock; nothing serialises two customers.  So the   *)
(* look for another customer's verification of the same account and the    *)
(* commit of this one's are separate steps.                                *)
(*                                                                         *)
(* Time is free: a row may be past its expiry at any moment, and the limit *)
(* of requests in 24 hours only delays one.  An answer under another       *)
(* provider reference than the row's is left out: it leads to review, as   *)
(* an unclear one does.                                                    *)
(***************************************************************************)
EXTENDS Integers, FiniteSets

CONSTANTS
    Customers, BankAccounts,
    MaxRows         \* bound: verifications a customer ever requests

Rows == Customers \X (1 .. MaxRows)

BankStatus == {"NONE", "INITIATED", "PENDING", "VERIFIED", "FAILED",
               "MANUAL_REVIEW"}
InFlight == {"INITIATED", "PENDING", "MANUAL_REVIEW"}

\* What the provider answers for a row, once it has been asked: the account's
\* state, and how the holder's name compares.  FAILED is also a name mismatch,
\* UNCLEAR a name match PARTIAL or UNAVAILABLE.
Answers == {"UNKNOWN", "PENDING", "FAILED", "MATCH", "UNCLEAR"}
Settled == Answers \ {"UNKNOWN", "PENDING"}

VARIABLES
    row,        \* status and account of each verification
    pennyRef,   \* rows whose provider_ref is stored
    superseded, \* VERIFIED rows that are no longer the customer's current one
    approved,   \* rows an admin resolved as VERIFIED
    clearing,   \* rows found not to be shared, whose VERIFIED isn't committed
    answer      \* the provider's side of each row

bankVars == <<row, pennyRef, superseded, approved, clearing, answer>>

BankInit ==
    /\ row = [r \in Rows |-> [status |-> "NONE", account |-> "none"]]
    /\ pennyRef = {} /\ superseded = {} /\ approved = {}
    /\ clearing = {}
    /\ answer = [r \in Rows |-> "UNKNOWN"]

Of(c) == {r \in Rows : r[1] = c}
InFlightOf(c) == {r \in Of(c) : row[r].status \in InFlight}
CurrentOf(c) == {r \in Of(c) : row[r].status = "VERIFIED" /\ r \notin superseded}

\* verified_for_other_user
HeldByOther(c, account) ==
    \E d \in Customers \ {c} : \E r \in CurrentOf(d) : row[r].account = account

MoveRow(r, s) == row' = [row EXCEPT ![r].status = s]

\* _apply_result on what the provider says.  A match of an account nobody else
\* holds is left to Clear, which commits it.
ApplyAnswer(r, a) ==
    LET matches == a = "MATCH"
        shared == HeldByOther(r[1], row'[r].account)
    IN  /\ pennyRef' = pennyRef \cup {r}
        /\ clearing' = IF matches /\ ~ shared THEN clearing \cup {r} ELSE clearing
        /\ answer' = [answer EXCEPT ![r] = a]

\* The status that goes with it: a row being cleared keeps its own for now.
AnswerStatus(r, a, account) ==
    CASE a = "PENDING" -> "PENDING"
      [] a = "FAILED" -> "FAILED"
      [] a = "UNCLEAR" -> "MANUAL_REVIEW"
      [] a = "MATCH" /\ HeldByOther(r[1], account) -> "MANUAL_REVIEW"
      [] OTHER -> row[r].status

\* What asking about a row may bring: a settled answer never changes.
MayAnswer(r) == IF answer[r] \in Settled THEN {answer[r]}
                ELSE {"PENDING"} \cup Settled

\* _start: ask the provider under the row's client reference.  A timeout keeps
\* the row for a retry; the provider may have got the request.
Start(r, account) ==
    \/ \E a \in MayAnswer(r) :
        /\ row' = [row EXCEPT ![r] =
                [status |-> IF AnswerStatus(r, a, account) = "NONE" THEN "INITIATED"
                            ELSE AnswerStatus(r, a, account),
                 account |-> account]]
        /\ ApplyAnswer(r, a)
    \/ /\ row' = [row EXCEPT ![r] = [status |-> "INITIATED", account |-> account]]
       /\ UNCHANGED <<pennyRef, clearing>>
       /\ \E a \in {answer[r]} \cup MayAnswer(r) : answer' = [answer EXCEPT ![r] = a]
    \/ /\ answer[r] = "UNKNOWN"
       /\ row' = [row EXCEPT ![r] = [status |-> "FAILED", account |-> account]]
       /\ UNCHANGED <<pennyRef, clearing, answer>>

----------------------------------------------------------------------------

\* request: a new row, when nothing is in flight and this isn't the account
\* already verified.
RequestNew(c, account) ==
    /\ InFlightOf(c) = {}
    /\ \A r \in CurrentOf(c) : row[r].account # account
    /\ \E r \in Of(c) :
        /\ row[r].status = "NONE"
        /\ \A q \in Of(c) : q[2] < r[2] => row[q].status # "NONE"
        /\ Start(r, account)
    /\ UNCHANGED <<superseded, approved>>

\* request again for the account in flight, and sync_pending on such a row.
\* Past its expiry the sync sends it to review, also when the provider times out.
Resume(r) ==
    /\ row[r].status = "INITIATED" /\ r \notin clearing
    /\ Start(r, row[r].account)
    /\ UNCHANGED <<superseded, approved>>

SyncVerifications(r) ==
    /\ row[r].status = "PENDING" /\ r \notin clearing
    /\ \E a \in MayAnswer(r) \ {"PENDING"} :
        /\ row' = [row EXCEPT ![r].status = AnswerStatus(r, a, row[r].account)]
        /\ ApplyAnswer(r, a)
    /\ UNCHANGED <<superseded, approved>>

SyncUnresolved(r) ==
    /\ row[r].status \in {"INITIATED", "PENDING"} /\ r \notin clearing
    /\ MoveRow(r, "MANUAL_REVIEW")
    /\ UNCHANGED <<pennyRef, superseded, approved, clearing, answer>>

\* Seeded fault: The previous account stays current.
MarkVerifiedToo(r) == MoveRow(r, "VERIFIED") /\ UNCHANGED superseded

\* _mark_verified: the previous account leaves the one-current slot first.
MarkVerified(r) ==
    /\ MoveRow(r, "VERIFIED")
    /\ superseded' = superseded \cup CurrentOf(r[1])

Clear(r) ==
    /\ r \in clearing
    /\ MarkVerified(r)
    /\ clearing' = clearing \ {r}
    /\ UNCHANGED <<pennyRef, approved, answer>>

\* The provider's answer is not decisive and an admin, not the customer, is.
ResolveVerified(r) ==
    /\ row[r].status = "MANUAL_REVIEW" /\ r \in pennyRef
    /\ MarkVerified(r)
    /\ approved' = approved \cup {r}
    /\ UNCHANGED <<pennyRef, clearing, answer>>

ResolveFailed(r) ==
    /\ row[r].status = "MANUAL_REVIEW"
    /\ MoveRow(r, "FAILED")
    /\ UNCHANGED <<pennyRef, superseded, approved, clearing, answer>>

BankNext ==
    \/ \E c \in Customers, a \in BankAccounts : RequestNew(c, a)
    \/ \E r \in Rows :
        \/ Resume(r)
        \/ SyncVerifications(r)
        \/ SyncUnresolved(r)
        \/ Clear(r)
        \/ ResolveVerified(r)
        \/ ResolveFailed(r)

BankSpec == BankInit /\ [][BankNext]_bankVars

----------------------------------------------------------------------------

BankTypeOK ==
    /\ row \in [Rows -> [status : BankStatus, account : BankAccounts \cup {"none"}]]
    /\ pennyRef \subseteq Rows /\ superseded \subseteq Rows
    /\ approved \subseteq Rows /\ clearing \subseteq Rows
    /\ answer \in [Rows -> Answers]

\* Money is only sent to an account the provider matched with the customer's
\* name, or that an admin settled; a customer has one such account at a time
\* and one verification in flight: services/bank_verification.py _apply_result,
\* _mark_verified.
OneProvenAccount ==
    \A c \in Customers :
        /\ Cardinality(CurrentOf(c)) <= 1
        /\ Cardinality(InFlightOf(c)) <= 1
        /\ \A r \in CurrentOf(c) : answer[r] = "MATCH" \/ r \in approved

=============================================================================
