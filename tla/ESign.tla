------------------------------- MODULE ESign --------------------------------
(***************************************************************************)
(* Signing the agreement of the accepted offer, with an outside provider.  *)
(*                                                                         *)
(* Each attempt is a row with a client reference the provider knows it     *)
(* by.  Its outcome arrives as callbacks - late, again, in any order - and *)
(* through polls, each applied under the row's lock; a human settles what  *)
(* conflicts, but only the provider says that something was signed.  One   *)
(* attempt per offer may be live: a partial unique index holds that.       *)
(***************************************************************************)
EXTENDS LoanOffer

CONSTANTS
    MaxAttempts,        \* bound: signing attempts for the offer
    RequireArtifact     \* esign_require_signed_artifact

ASSUME ESignAssumption == MaxAttempts \in Nat /\ RequireArtifact \in BOOLEAN

Attempts == 1 .. MaxAttempts

ESignStatus == {"NONE", "INITIATED", "PENDING", "SIGNED", "FAILED", "EXPIRED",
                "MANUAL_REVIEW"}
LiveStatuses == {"INITIATED", "PENDING", "SIGNED", "MANUAL_REVIEW"}

\* What the provider holds under an attempt's client reference: signed is for
\* the agreement it was sent, "OTHER" a signature over another document.
ProviderStatus == {"UNKNOWN", "PENDING", "SIGNED", "OTHER", "FAILED", "EXPIRED"}

\* What a callback may say, and what the signed document it names is.  One that
\* says PENDING changes nothing, unless it names another document: then it leads
\* to review as the ones here do, for the checksum is looked at first.
Report == [status : {"SIGNED", "FAILED", "EXPIRED"},
           document : {"same", "other", "none"}]
Event == Attempts \X Report

\* What asking the provider for the signed PDF, and storing it, comes to.
Artifacts == {"stored", "unavailable", "invalid", "timeout"}

VARIABLES
    tx,         \* each attempt's row: its status
    referenced, \* attempts whose provider_ref is stored
    reviewed,   \* attempts whose reviewer is stored
    lapsed,     \* attempts past their expires_at
    provider,   \* the provider's side of each attempt
    signedLate, \* signatures given after the attempt's expires_at
    sent, seen  \* callbacks the provider may deliver, and those stored

signingVars == <<tx, referenced, reviewed, lapsed, provider, signedLate, sent,
                 seen>>
esignVars == <<offerVars, signingVars>>

SigningInit ==
    /\ tx = [i \in Attempts |-> "NONE"]
    /\ referenced = {} /\ reviewed = {} /\ lapsed = {}
    /\ provider = [i \in Attempts |-> "UNKNOWN"]
    /\ signedLate = {} /\ sent = {} /\ seen = {}

ESignInit == OfferInit /\ SigningInit

LiveOf(t) == {i \in Attempts : t[i] \in LiveStatuses}
Accepted == \E v \in Versions : offer[v] = "ACCEPTED"

\* ESIGN_TRANSITIONS, with staying as one is.
ESignMove(from, to) ==
    \/ from = to
    \/ from = "INITIATED"
        /\ to \in {"PENDING", "FAILED", "EXPIRED", "MANUAL_REVIEW"}
    \/ from = "PENDING" /\ to \in {"SIGNED", "FAILED", "EXPIRED", "MANUAL_REVIEW"}
    \/ from \in {"EXPIRED", "FAILED"} /\ to = "MANUAL_REVIEW"
    \/ from = "MANUAL_REVIEW" /\ to \in {"SIGNED", "FAILED"}

----------------------------------------------------------------------------
\* Starting

\* The attempt is with the provider, which knows its reference: a start sent
\* again finds what the first one made.  A timeout leaves the row for a retry
\* and may have reached the provider; a refusal fails the attempt.
StartWithProvider(i) ==
    /\ \/ /\ tx' = [tx EXCEPT ![i] = "PENDING"]
          /\ referenced' = referenced \cup {i}
          /\ provider' = [provider EXCEPT ![i] = IF @ = "UNKNOWN" THEN "PENDING" ELSE @]
       \/ /\ tx' = [tx EXCEPT ![i] = "INITIATED"] /\ UNCHANGED referenced
          /\ \E p \in {provider[i], "PENDING"} :
                /\ provider[i] # "UNKNOWN" => p = provider[i]
                /\ provider' = [provider EXCEPT ![i] = p]
       \/ /\ provider[i] = "UNKNOWN"
          /\ tx' = [tx EXCEPT ![i] = "FAILED"] /\ UNCHANGED <<referenced, provider>>
    /\ UNCHANGED <<reviewed, lapsed, signedLate, sent, seen, offerVars>>

\* The customer starts signing, or resumes an attempt still to be started.
InitiateNew(i) ==
    /\ Accepted /\ LiveOf(tx) = {}
    /\ tx[i] = "NONE" /\ \A j \in 1 .. i - 1 : tx[j] # "NONE"
    /\ StartWithProvider(i)

InitiateAgain(i) ==
    /\ Accepted /\ tx[i] = "INITIATED"
    /\ StartWithProvider(i)

----------------------------------------------------------------------------
\* What the provider reports

\* _complete_signing: fetch the document and store it.
Completed(artifact) ==
    CASE artifact = "stored" -> "SIGNED"
      [] artifact = "unavailable" /\ ~ RequireArtifact -> "SIGNED"
      [] OTHER -> "MANUAL_REVIEW"

\* Seeded fault: A signature that is late counts.
ReportedLate(i, r, early, artifact) ==
    IF tx[i] \in {"SIGNED", "MANUAL_REVIEW"} THEN tx[i]
    ELSE IF r.document = "other" THEN "MANUAL_REVIEW"
    ELSE IF r.status = "SIGNED"
         THEN IF tx[i] # "PENDING" \/ r.document = "none" THEN "MANUAL_REVIEW"
              ELSE Completed(artifact)
    ELSE IF tx[i] \in {"PENDING", "INITIATED"} THEN r.status ELSE tx[i]

\* Seeded fault: Only what is in review is left alone.
ReportedOverSigned(i, r, early, artifact) ==
    IF tx[i] = "MANUAL_REVIEW" THEN tx[i]
    ELSE IF r.document = "other" THEN "MANUAL_REVIEW"
    ELSE IF r.status = "SIGNED"
         THEN IF \/ tx[i] # "PENDING" \/ r.document = "none"
                 \/ i \in lapsed /\ ~ early
              THEN "MANUAL_REVIEW" ELSE Completed(artifact)
    ELSE IF tx[i] \in {"PENDING", "INITIATED"} THEN r.status ELSE tx[i]

\* _apply_report: the status a report gives an attempt.  A signature is late
\* when the attempt has lapsed and it isn't known to have been given before.
Reported(i, r, early, artifact) ==
    IF tx[i] \in {"SIGNED", "MANUAL_REVIEW"} THEN tx[i]
    ELSE IF r.document = "other" THEN "MANUAL_REVIEW"
    ELSE IF r.status = "SIGNED"
         THEN IF \/ tx[i] # "PENDING" \/ r.document = "none"
                 \/ i \in lapsed /\ ~ early
              THEN "MANUAL_REVIEW" ELSE Completed(artifact)
    ELSE IF tx[i] \in {"PENDING", "INITIATED"} THEN r.status ELSE tx[i]

\* Whether applying it fetches the signed document, which may time out.
Fetches(i, r, early) ==
    /\ tx[i] = "PENDING" /\ r.status = "SIGNED" /\ r.document = "same"
    /\ i \in lapsed => early

\* Stored with its effect, or not at all: while the provider's reference is
\* unknown, when fetching times out, or when the index refuses the row.
Callback(e, timed, artifact) ==
    LET i == e[1]
        r == e[2]
        early == timed /\ i \notin signedLate
        after == [tx EXCEPT ![i] = Reported(i, r, early, artifact)]
    IN  /\ e \in sent \ seen
        /\ i \in referenced
        /\ ~ (Fetches(i, r, early) /\ artifact = "timeout")
        /\ Cardinality(LiveOf(after)) <= 1
        /\ tx' = after /\ seen' = seen \cup {e}
        /\ UNCHANGED <<referenced, reviewed, lapsed, provider, signedLate, sent,
                       offerVars>>

\* The report get_status brings for what the provider holds.
Polled(i) ==
    [status |-> IF provider[i] = "OTHER" THEN "SIGNED" ELSE provider[i],
     document |-> CASE provider[i] = "OTHER" -> "other"
                    [] provider[i] = "SIGNED" -> "same" [] OTHER -> "none"]

\* sync_pending on one claimed row: start it, or ask for its status.
SyncInitiated(i) ==
    /\ tx[i] = "INITIATED"
    /\ \/ /\ i \in lapsed
          /\ tx' = [tx EXCEPT ![i] = "EXPIRED"]
          /\ UNCHANGED <<referenced, reviewed, lapsed, provider, signedLate,
                         sent, seen, offerVars>>
       \/ i \notin lapsed /\ StartWithProvider(i)

SyncSignatures(i, artifact) ==
    /\ tx[i] = "PENDING"
    /\ ~ (Fetches(i, Polled(i), FALSE) /\ artifact = "timeout")
    /\ \/ /\ provider[i] # "PENDING"
          /\ tx' = [tx EXCEPT ![i] = Reported(i, Polled(i), FALSE, artifact)]
       \/ /\ provider[i] = "PENDING" /\ i \in lapsed
          /\ tx' = [tx EXCEPT ![i] = "EXPIRED"]
    /\ UNCHANGED <<referenced, reviewed, lapsed, provider, signedLate, sent,
                   seen, offerVars>>

----------------------------------------------------------------------------
\* Review: the admin asks the provider again, or fails the attempt.

Confirmed(i) == provider[i] = "SIGNED"

\* decision RECHECK.  A signature counts if the document can be stored.
Recheck(i, artifact) ==
    /\ tx[i] = "MANUAL_REVIEW" /\ i \in referenced
    /\ provider[i] \in {"SIGNED", "FAILED", "EXPIRED"}
    /\ Confirmed(i) => artifact # "timeout" /\ Completed(artifact) = "SIGNED"
    /\ tx' = [tx EXCEPT ![i] = IF Confirmed(i) THEN "SIGNED" ELSE "FAILED"]
    /\ reviewed' = reviewed \cup {i}
    /\ UNCHANGED <<referenced, lapsed, provider, signedLate, sent, seen,
                   offerVars>>

\* decision FAILED: refused while the provider has the signature.
FailReview(i) ==
    /\ tx[i] = "MANUAL_REVIEW"
    /\ ~ Confirmed(i)
    /\ tx' = [tx EXCEPT ![i] = "FAILED"]
    /\ reviewed' = reviewed \cup {i}
    /\ UNCHANGED <<referenced, lapsed, provider, signedLate, sent, seen,
                   offerVars>>

----------------------------------------------------------------------------
\* The provider, the signer, and the clock

\* The signer signs, here or elsewhere, or the provider ends the attempt; it
\* tells by callback, with or without naming the document.
ProviderDecides(i, p, doc) ==
    /\ provider[i] = "PENDING"
    /\ p = "OTHER" <=> doc = "other"
    /\ doc = "same" => p = "SIGNED"
    /\ provider' = [provider EXCEPT ![i] = p]
    /\ signedLate' = IF p \in {"SIGNED", "OTHER"} /\ i \in lapsed
                     THEN signedLate \cup {i} ELSE signedLate
    /\ sent' = sent \cup {<<i, [status |-> IF p = "OTHER" THEN "SIGNED" ELSE p,
                                document |-> doc]>>}
    /\ UNCHANGED <<tx, referenced, reviewed, lapsed, seen, offerVars>>

AttemptLapses(i) ==
    /\ tx[i] # "NONE" /\ i \notin lapsed
    /\ lapsed' = lapsed \cup {i}
    /\ UNCHANGED <<tx, referenced, reviewed, provider, signedLate, sent, seen,
                   offerVars>>

SigningNext ==
    \E i \in Attempts :
        \/ InitiateNew(i)
        \/ InitiateAgain(i)
        \/ SyncInitiated(i)
        \/ \E a \in Artifacts : SyncSignatures(i, a)
        \/ \E a \in Artifacts : Recheck(i, a)
        \/ FailReview(i)
        \/ \E p \in ProviderStatus \ {"UNKNOWN", "PENDING"},
              doc \in {"same", "other", "none"} : ProviderDecides(i, p, doc)
        \/ AttemptLapses(i)

Callbacks ==
    \E e \in sent, timed \in BOOLEAN, a \in Artifacts : Callback(e, timed, a)

ESignNext ==
    \/ OfferNext /\ UNCHANGED signingVars
    \/ SigningNext
    \/ Callbacks

ESignSpec == ESignInit /\ [][ESignNext]_esignVars

----------------------------------------------------------------------------

ESignTypeOK ==
    /\ OfferTypeOK
    /\ tx \in [Attempts -> ESignStatus]
    /\ provider \in [Attempts -> ProviderStatus]
    /\ referenced \subseteq Attempts /\ reviewed \subseteq Attempts
    /\ lapsed \subseteq Attempts /\ signedLate \subseteq Attempts
    /\ sent \subseteq Event /\ seen \subseteq sent

\* The agreement counts as signed only on the provider's word that this very
\* document was signed, for the accepted offer, and, when that was after the
\* attempt had lapsed, after an admin asked: services/esign.py _apply_report,
\* resolve_review.
SignedIsConfirmed ==
    \A i \in Attempts : tx[i] = "SIGNED" =>
        /\ Accepted /\ i \in referenced /\ provider[i] = "SIGNED"
        /\ i \in signedLate => i \in reviewed

\* A status only moves as ESIGN_TRANSITIONS has it, so that a signed agreement
\* is final whatever is reported, polled or decided after it, and one in review
\* leaves it only through an admin.
SignedIsFinal ==
    [][\A i \in Attempts :
        /\ ESignMove(tx[i], tx'[i]) \/ tx[i] = "NONE"
        /\ tx[i] = "MANUAL_REVIEW" /\ tx'[i] # tx[i] => i \in reviewed']_esignVars

=============================================================================
