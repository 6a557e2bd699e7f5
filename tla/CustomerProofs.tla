--------------------------- MODULE CustomerProofs ---------------------------
(***************************************************************************)
(* Theorems about what a customer goes through, part by part, for any      *)
(* number of requests, offers, attempts, codes, sessions and rows.         *)
(***************************************************************************)
EXTENDS ESign, SignIn, Onboarding, Documents, BankVerification, SetLemmas

-----------------------------------------------------------------------------
(* The agreement: offers.                                                  *)

LEMMA OfferTypeInit == OfferInit => OfferTypeOK
BY DEF OfferInit, OfferTypeOK, ApplicationStatus, OfferStatus, Look

\* No two versions are open.
OneOpen(o) == \A v, w \in OpenVersions(o) : v = w

LEMMA OneOpenCounted == ASSUME NEW o PROVE Cardinality(OpenVersions(o)) <= 1 <=> OneOpen(o)
<1>1. OpenVersions(o) \in SUBSET (1 .. MaxVersions)
  BY DEF OpenVersions, Versions
<1> QED
  BY <1>1, OfferAssumption, CountableUpTo, AtMostOne DEF OneOpen

\* A write of offers, of which no two are open, is not refused by the index.
\* What the trigger refuses stays.
LEMMA WriteKeepsOne ==
    ASSUME OfferTypeOK, NEW after \in [Versions -> OfferStatus],
           Write(after), ~ refused, OneOpen(offer),
           (\A v \in Versions : after[v] # offer[v] => TriggerAllows(offer[v], after[v]))
                => OneOpen(after)
    PROVE  ~ refused' /\ OneOpen(offer')
BY OneOpenCounted, Zenon DEF Write

LEMMA WriteType ==
    ASSUME OfferTypeOK, NEW after \in [Versions -> OfferStatus], Write(after)
    PROVE  /\ offer' \in [Versions -> OfferStatus] /\ refused' \in BOOLEAN
           /\ \A v \in Versions : offer'[v] # offer[v] => TriggerAllows(offer[v], offer'[v])
BY DEF Write, OfferTypeOK

\* What an action of LoanOffer writes is allowed to leave open.
Mover(v) == CancelOffer(v) \/ AcceptOffer(v) \/ DeclineOffer(v) \/ ExpireOffer(v)

LEMMA OfferSteps ==
    OfferNext =>
        \/ \E s \in ApplicationStatus : MoveApplication(s)
        \/ CreateDraft
        \/ \E a \in Issuers, v \in Versions : LookAtOffer(a, v)
        \/ \E a \in Issuers : IssueOffer(a)
        \/ \E v \in Versions : Mover(v) \/ WindowCloses(v)
BY Zenon DEF OfferNext, Mover

\* What the customer, an admin or the clock makes of an issued version.
LEMMA MoverWrites ==
    ASSUME OfferTypeOK, NEW v \in Versions, Mover(v)
    PROVE  /\ offer[v] = "ISSUED" /\ UNCHANGED <<application, over, looked>>
           /\ \E s \in {"CANCELLED", "EXPIRED", "ACCEPTED", "DECLINED"} :
                /\ [offer EXCEPT ![v] = s] \in [Versions -> OfferStatus]
                /\ Write([offer EXCEPT ![v] = s])
<1> DEFINE To(s) == [offer EXCEPT ![v] = s]
<1>1. \A s \in OfferStatus : To(s) \in [Versions -> OfferStatus]
  BY DEF OfferTypeOK
<1>2. offer[v] = "ISSUED" /\ UNCHANGED <<application, over, looked>>
  BY DEF Mover, CancelOffer, AcceptOffer, DeclineOffer, ExpireOffer
<1>3. \E s \in {"CANCELLED", "EXPIRED", "ACCEPTED", "DECLINED"} : Write(To(s))
  BY Zenon DEF Mover, CancelOffer, AcceptOffer, DeclineOffer, ExpireOffer
<1>4. {"CANCELLED", "EXPIRED", "ACCEPTED", "DECLINED"} \subseteq OfferStatus
  BY DEF OfferStatus
<1> QED
  BY <1>1, <1>2, <1>3, <1>4

LEMMA SupersededType ==
    ASSUME OfferTypeOK, NEW v \in Versions
    PROVE  [Superseded(v) EXCEPT ![v] = "ISSUED"] \in [Versions -> OfferStatus]
BY DEF OfferTypeOK, Superseded, OfferStatus

\* Every step keeps the types, and changes an offer as the trigger allows.
LEMMA OfferTypeStep ==
    ASSUME OfferTypeOK, [OfferNext]_offerVars
    PROVE  /\ OfferTypeOK'
           /\ \A v \in Versions : offer'[v] # offer[v] =>
                TriggerAllows(offer[v], offer'[v]) \/ offer[v] = "NONE"
<1>1. CASE \E s \in ApplicationStatus : MoveApplication(s)
  BY <1>1 DEF MoveApplication, OfferTypeOK
<1>2. CASE CreateDraft
  BY <1>2 DEF CreateDraft, OfferTypeOK, OfferStatus
<1>3. CASE \E a \in Issuers, v \in Versions : LookAtOffer(a, v)
  <2>1. PICK a \in Issuers, v \in Versions : LookAtOffer(a, v)
    BY <1>3
  <2>2. [version |-> v, saw |-> offer[v]] \in Look
    BY <2>1 DEF LookAtOffer, Look, OfferTypeOK
  <2> QED
    BY <2>1, <2>2 DEF LookAtOffer, OfferTypeOK
<1>4. CASE \E a \in Issuers : IssueOffer(a)
  <2>1. PICK a \in Issuers : IssueOffer(a)
    BY <1>4
  <2> DEFINE v == looked[a].version
  <2>2. looked[a] \in Look /\ looked[a] # Away
    BY <2>1 DEF IssueOffer, OfferTypeOK
  <2>3. v \in Versions
    BY <2>2 DEF Look
  <2>4. looked' \in [Issuers -> Look] /\ UNCHANGED <<application, over>>
    BY <2>1 DEF IssueOffer, OfferTypeOK, Look
  <2>5. CASE UNCHANGED <<offer, refused>>
    BY <2>4, <2>5 DEF OfferTypeOK
  <2>6. CASE Write([Superseded(v) EXCEPT ![v] = "ISSUED"])
    BY <2>3, <2>4, <2>6, SupersededType, WriteType DEF OfferTypeOK
  <2> QED
    BY <2>1, <2>5, <2>6 DEF IssueOffer
<1>5. CASE \E v \in Versions : Mover(v)
  <2>1. PICK v \in Versions : Mover(v)
    BY <1>5
  <2>2. UNCHANGED <<application, over, looked>>
    BY <2>1, MoverWrites
  <2>3. PICK after \in [Versions -> OfferStatus] : Write(after)
    BY <2>1, MoverWrites
  <2> QED
    BY <2>2, <2>3, WriteType DEF OfferTypeOK
<1>6. CASE \E v \in Versions : WindowCloses(v)
  BY <1>6 DEF WindowCloses, OfferTypeOK
<1>7. CASE UNCHANGED offerVars
  BY <1>7 DEF offerVars, OfferTypeOK
<1> QED
  BY OfferSteps, <1>1, <1>2, <1>3, <1>4, <1>5, <1>6, <1>7

\* OneOpenOffer, without the counting.
OfferIInv == OfferTypeOK /\ OneOpen(offer) /\ ~ refused

LEMMA OfferInvStep ==
    ASSUME OfferIInv, [OfferNext]_offerVars
    PROVE  OfferIInv'
<1> USE DEF OfferIInv
<1>0. OfferTypeOK'
  BY OfferTypeStep
<1>1. CASE \E s \in ApplicationStatus : MoveApplication(s)
  BY <1>0, <1>1 DEF MoveApplication, OneOpen, OpenVersions
<1>2. CASE CreateDraft
  <2>1. OpenVersions(offer') \subseteq OpenVersions(offer)
    BY <1>2 DEF CreateDraft, OpenVersions, OfferTypeOK, Open
  <2> QED
    BY <1>0, <1>2, <2>1 DEF CreateDraft, OneOpen
<1>3. CASE \E a \in Issuers, v \in Versions : LookAtOffer(a, v)
  BY <1>0, <1>3 DEF LookAtOffer, OneOpen, OpenVersions
<1>4. CASE \E a \in Issuers : IssueOffer(a)
  <2>1. PICK a \in Issuers : IssueOffer(a)
    BY <1>4
  <2> DEFINE v == looked[a].version
             after == [Superseded(v) EXCEPT ![v] = "ISSUED"]
  <2>2. looked[a] \in Look /\ looked[a] # Away
    BY <2>1 DEF IssueOffer, OfferTypeOK
  <2>3. v \in Versions
    BY <2>2 DEF Look
  <2>4. CASE UNCHANGED <<offer, refused>>
    BY <1>0, <2>4 DEF OneOpen, OpenVersions
  <2>5. CASE Write(after)
    <3>1. after \in [Versions -> OfferStatus]
      BY <2>3, SupersededType
    <3>2. \A w \in Versions : w # v => after[w] \notin Open
      BY <2>3 DEF Superseded, Open, OfferTypeOK
    <3>3. OneOpen(after)
      BY <3>2 DEF OneOpen, OpenVersions
    <3> QED
      BY <1>0, <2>5, <3>1, <3>3, WriteKeepsOne
  <2> QED
    BY <2>1, <2>4, <2>5 DEF IssueOffer
<1>5. CASE \E v \in Versions : Mover(v)
  <2>1. PICK v \in Versions : Mover(v)
    BY <1>5
  <2>2. PICK s \in {"CANCELLED", "EXPIRED", "ACCEPTED", "DECLINED"} :
            /\ [offer EXCEPT ![v] = s] \in [Versions -> OfferStatus]
            /\ Write([offer EXCEPT ![v] = s])
    BY <2>1, MoverWrites
  <2>3. OpenVersions([offer EXCEPT ![v] = s]) \subseteq OpenVersions(offer)
    BY <2>1, MoverWrites DEF OpenVersions, Open, OfferTypeOK
  <2>4. OneOpen([offer EXCEPT ![v] = s])
    BY <2>3 DEF OneOpen
  <2> QED
    BY <1>0, <2>2, <2>4, WriteKeepsOne
<1>6. CASE \E v \in Versions : WindowCloses(v)
  BY <1>0, <1>6 DEF WindowCloses, OneOpen, OpenVersions
<1>7. CASE UNCHANGED offerVars
  BY <1>0, <1>7 DEF offerVars, OneOpen, OpenVersions
<1> QED
  BY OfferSteps, <1>1, <1>2, <1>3, <1>4, <1>5, <1>6, <1>7

-----------------------------------------------------------------------------
(* The agreement: signing.                                                 *)

\* What the signing of the agreement rests on.  The provider's side:
\*   - what it has decided, and told, stays;
\*   - a report that names the document as the one sent is true;
\*   - only what was signed after it lapsed is late.
\* This side:
\*   - an attempt is for an accepted offer, which stays accepted;
\*   - one that waits for the signer has reached the provider.
SigningIInv ==
    /\ ESignTypeOK
    /\ \A e \in sent : e[2].document = "same" => provider[e[1]] = "SIGNED"
    /\ signedLate \subseteq lapsed
    /\ \A i \in Attempts :
        /\ tx[i] # "NONE" => Accepted
        /\ tx[i] = "PENDING" => i \in referenced /\ provider[i] # "UNKNOWN"
        /\ i \in referenced => tx[i] # "NONE"
    /\ SignedIsConfirmed

LEMMA SigningIInvInit == ESignInit => SigningIInv
BY OfferTypeInit
DEF ESignInit, SigningInit, SigningIInv, ESignTypeOK, SignedIsConfirmed,
    ESignStatus, ProviderStatus

\* An accepted offer stays accepted.
LEMMA AcceptedStays ==
    ASSUME OfferTypeOK, [OfferNext]_offerVars
    PROVE  Accepted => Accepted'
<1> SUFFICES ASSUME NEW v \in Versions, offer[v] = "ACCEPTED"
             PROVE  offer'[v] = "ACCEPTED"
  BY DEF Accepted
<1> QED
  BY OfferTypeStep DEF TriggerAllows, Open, Closed

\* A status that applying a report may lead to, and what makes it SIGNED.
LEMMA ReportedMoves ==
    ASSUME tx \in [Attempts -> ESignStatus],
           NEW i \in Attempts, tx[i] # "NONE", NEW early, NEW artifact,
           NEW r, r.status \in {"SIGNED", "FAILED", "EXPIRED"}
    PROVE  /\ Reported(i, r, early, artifact) \in ESignStatus \ {"NONE"}
           /\ ESignMove(tx[i], Reported(i, r, early, artifact))
           /\ tx[i] = "MANUAL_REVIEW" => Reported(i, r, early, artifact) = tx[i]
           /\ Reported(i, r, early, artifact) = "PENDING" => tx[i] = "PENDING"
           /\ Reported(i, r, early, artifact) = "SIGNED" =>
                \/ tx[i] = "SIGNED"
                \/ /\ tx[i] = "PENDING" /\ r.status = "SIGNED"
                   /\ r.document \notin {"other", "none"}
                   /\ i \in lapsed => early
<1> DEFINE R == Reported(i, r, early, artifact)
<1>1. Completed(artifact) \in {"SIGNED", "MANUAL_REVIEW"}
  BY DEF Completed
<1>2. tx[i] \in ESignStatus
  OBVIOUS
<1>3. CASE tx[i] \in {"SIGNED", "MANUAL_REVIEW"}
  BY <1>2, <1>3 DEF Reported, ESignMove, ESignStatus
<1>4. CASE tx[i] \notin {"SIGNED", "MANUAL_REVIEW"} /\ r.document = "other"
  <2>1. R = "MANUAL_REVIEW"
    BY <1>4 DEF Reported
  <2> QED
    BY <1>2, <1>4, <2>1 DEF ESignMove, ESignStatus
<1>5. CASE /\ tx[i] \notin {"SIGNED", "MANUAL_REVIEW"} /\ r.document # "other"
           /\ r.status = "SIGNED"
  <2>1. \/ R = "MANUAL_REVIEW"
        \/ /\ R = "SIGNED" /\ tx[i] = "PENDING"
           /\ r.document # "none" /\ (i \in lapsed => early)
    BY <1>1, <1>5 DEF Reported
  <2> QED
    BY <1>2, <1>5, <2>1 DEF ESignMove, ESignStatus
<1>6. CASE /\ tx[i] \notin {"SIGNED", "MANUAL_REVIEW"} /\ r.document # "other"
           /\ r.status # "SIGNED"
  <2>1. R = IF tx[i] \in {"PENDING", "INITIATED"} THEN r.status ELSE tx[i]
    BY <1>6 DEF Reported
  <2> QED
    BY <1>2, <1>6, <2>1 DEF ESignMove, ESignStatus
<1> QED
  BY <1>3, <1>4, <1>5, <1>6

LEMMA OffersStay ==
    ASSUME OfferTypeOK, UNCHANGED offerVars
    PROVE  OfferTypeOK' /\ Accepted' = Accepted
BY DEF offerVars, OfferTypeOK, Accepted

\* Starting, whoever does it.
LEMMA StartKeeps ==
    ASSUME SigningIInv, NEW i \in Attempts, tx[i] \in {"NONE", "INITIATED"},
           Accepted, StartWithProvider(i)
    PROVE  SigningIInv' /\ tx'[i] # "MANUAL_REVIEW"
           /\ (ESignMove(tx[i], tx'[i]) \/ tx[i] = "NONE")
           /\ \A j \in Attempts \ {i} : tx'[j] = tx[j]
<1> USE DEF SigningIInv
<1>1. OfferTypeOK' /\ Accepted'
  BY OffersStay DEF StartWithProvider, ESignTypeOK
<1>2. /\ \E s \in {"PENDING", "INITIATED", "FAILED"} : tx' = [tx EXCEPT ![i] = s]
      /\ \E p \in ProviderStatus :
            /\ provider' = [provider EXCEPT ![i] = p]
            /\ provider[i] # "UNKNOWN" => p = provider[i]
            /\ tx'[i] = "PENDING" => p # "UNKNOWN" /\ i \in referenced'
      /\ referenced' \in {referenced, referenced \cup {i}}
      /\ UNCHANGED <<reviewed, lapsed, signedLate, sent, seen>>
  <2>1. CASE /\ tx' = [tx EXCEPT ![i] = "PENDING"]
             /\ referenced' = referenced \cup {i}
             /\ provider' = [provider EXCEPT ![i] = IF @ = "UNKNOWN" THEN "PENDING" ELSE @]
    <3> DEFINE p == IF provider[i] = "UNKNOWN" THEN "PENDING" ELSE provider[i]
    <3>1. p \in ProviderStatus \ {"UNKNOWN"} /\ provider' = [provider EXCEPT ![i] = p]
      BY <2>1 DEF ESignTypeOK, ProviderStatus
    <3>2. provider[i] # "UNKNOWN" => p = provider[i]
      OBVIOUS
    <3> QED
      BY <2>1, <3>1, <3>2 DEF StartWithProvider
  <2>2. CASE /\ tx' = [tx EXCEPT ![i] = "INITIATED"] /\ UNCHANGED referenced
             /\ \E p \in {provider[i], "PENDING"} :
                   /\ provider[i] # "UNKNOWN" => p = provider[i]
                   /\ provider' = [provider EXCEPT ![i] = p]
    <3>1. PICK p \in {provider[i], "PENDING"} :
                   /\ provider[i] # "UNKNOWN" => p = provider[i]
                   /\ provider' = [provider EXCEPT ![i] = p]
      BY <2>2
    <3>2. p \in ProviderStatus /\ tx'[i] = "INITIATED"
      BY <2>2 DEF ESignTypeOK, ProviderStatus
    <3> QED
      BY <2>2, <3>1, <3>2 DEF StartWithProvider
  <2>3. CASE /\ provider[i] = "UNKNOWN"
             /\ tx' = [tx EXCEPT ![i] = "FAILED"] /\ UNCHANGED <<referenced, provider>>
    BY <2>3 DEF StartWithProvider, ESignTypeOK, ProviderStatus
  <2> QED
    BY <2>1, <2>2, <2>3 DEF StartWithProvider
<1>3. PICK s \in {"PENDING", "INITIATED", "FAILED"} : tx' = [tx EXCEPT ![i] = s]
  BY <1>2
<1>4. PICK p \in ProviderStatus :
            /\ provider' = [provider EXCEPT ![i] = p]
            /\ provider[i] # "UNKNOWN" => p = provider[i]
            /\ tx'[i] = "PENDING" => p # "UNKNOWN" /\ i \in referenced'
  BY <1>2
<1>5. /\ ESignTypeOK' /\ tx'[i] # "MANUAL_REVIEW"
      /\ ESignMove(tx[i], tx'[i]) \/ tx[i] = "NONE"
      /\ \A j \in Attempts \ {i} : tx'[j] = tx[j]
  BY <1>1, <1>2, <1>3, <1>4 DEF ESignTypeOK, ESignStatus, ESignMove
<1>6. \A e \in sent' : e[2].document = "same" => provider'[e[1]] = "SIGNED"
  BY <1>2, <1>4 DEF ESignTypeOK
<1>7. \A j \in Attempts :
        /\ tx'[j] # "NONE" => Accepted'
        /\ tx'[j] = "PENDING" => j \in referenced' /\ provider'[j] # "UNKNOWN"
        /\ j \in referenced' => tx'[j] # "NONE"
  BY <1>1, <1>2, <1>3, <1>4 DEF ESignTypeOK
<1>8. SignedIsConfirmed'
  BY <1>1, <1>2, <1>3, <1>4 DEF SignedIsConfirmed, ESignTypeOK
<1> QED
  BY <1>2, <1>5, <1>6, <1>7, <1>8

\* Setting the status of one attempt, the provider's side left alone.
LEMMA StatusKeeps ==
    ASSUME SigningIInv, NEW i \in Attempts, tx[i] # "NONE",
           NEW s \in ESignStatus \ {"NONE"}, tx' = [tx EXCEPT ![i] = s],
           UNCHANGED <<referenced, lapsed, provider, signedLate, sent, offerVars>>,
           seen \subseteq seen', seen' \subseteq sent,
           reviewed \subseteq reviewed', reviewed' \subseteq Attempts,
           s = "PENDING" => tx[i] = "PENDING",
           s = "SIGNED" => \/ tx[i] = "SIGNED"
                           \/ /\ i \in referenced /\ provider[i] = "SIGNED"
                              /\ i \in signedLate => i \in reviewed'
    PROVE  SigningIInv'
<1> USE DEF SigningIInv
<1>1. OfferTypeOK' /\ Accepted'
  BY OffersStay DEF ESignTypeOK
<1>2. ESignTypeOK'
  BY <1>1 DEF ESignTypeOK
<1>3. \A j \in Attempts :
        /\ tx'[j] # "NONE" => Accepted'
        /\ tx'[j] = "PENDING" => j \in referenced' /\ provider'[j] # "UNKNOWN"
        /\ j \in referenced' => tx'[j] # "NONE"
  BY <1>1 DEF ESignTypeOK
<1>4. SignedIsConfirmed'
  BY <1>1 DEF SignedIsConfirmed, ESignTypeOK
<1> QED
  BY <1>2, <1>3, <1>4

\* What a step of signing does to an attempt's status.
Moves ==
    \A i \in Attempts :
        /\ ESignMove(tx[i], tx'[i]) \/ tx[i] = "NONE"
        /\ tx[i] = "MANUAL_REVIEW" /\ tx'[i] # tx[i] => i \in reviewed'

LEMMA CallbackKeeps ==
    ASSUME SigningIInv, NEW e \in sent, NEW timed \in BOOLEAN, NEW a, Callback(e, timed, a)
    PROVE  SigningIInv' /\ Moves
<1> USE DEF SigningIInv
<1> DEFINE i == e[1]
           r == e[2]
<1>0. PICK early \in BOOLEAN : early = (timed /\ i \notin signedLate)
  OBVIOUS
<1> DEFINE s == Reported(i, r, early, a)
<1>1. /\ i \in Attempts /\ r \in Report /\ i \in referenced /\ tx[i] # "NONE"
      /\ tx \in [Attempts -> ESignStatus]
  BY <1>0 DEF Callback, ESignTypeOK, Event
<1>2. r.status \in {"SIGNED", "FAILED", "EXPIRED"} /\ r.document \in {"same", "other", "none"}
  BY <1>1 DEF Report
<1>3. /\ s \in ESignStatus \ {"NONE"} /\ ESignMove(tx[i], s)
      /\ tx[i] = "MANUAL_REVIEW" => s = tx[i]
      /\ s = "PENDING" => tx[i] = "PENDING"
      /\ s = "SIGNED" => \/ tx[i] = "SIGNED"
                         \/ r.document \notin {"other", "none"} /\ (i \in lapsed => early)
  BY <1>0, <1>1, <1>2, ReportedMoves
<1>4. /\ tx' = [tx EXCEPT ![i] = s] /\ seen' = seen \cup {e}
      /\ UNCHANGED <<referenced, reviewed, lapsed, provider, signedLate, sent, offerVars>>
  BY <1>0 DEF Callback
<1>5. s = "SIGNED" => \/ tx[i] = "SIGNED"
                      \/ /\ i \in referenced /\ provider[i] = "SIGNED"
                         /\ i \in signedLate => i \in reviewed'
  BY <1>0, <1>1, <1>2, <1>3
<1>6. SigningIInv'
  BY <1>1, <1>3, <1>4, <1>5, StatusKeeps DEF ESignTypeOK
<1>7. Moves
  BY <1>1, <1>3, <1>4 DEF Moves, ESignMove
<1> QED
  BY <1>6, <1>7

LEMMA SyncKeeps ==
    ASSUME SigningIInv, NEW i \in Attempts, NEW a, SyncSignatures(i, a)
    PROVE  SigningIInv' /\ Moves
<1> USE DEF SigningIInv
<1>1. /\ tx[i] = "PENDING" /\ i \in referenced /\ provider[i] # "UNKNOWN"
      /\ tx \in [Attempts -> ESignStatus] /\ provider[i] \in ProviderStatus
      /\ UNCHANGED <<referenced, reviewed, lapsed, provider, signedLate, sent,
                     seen, offerVars>>
  BY DEF SyncSignatures, ESignTypeOK
<1>2. CASE /\ provider[i] # "PENDING"
           /\ tx' = [tx EXCEPT ![i] = Reported(i, Polled(i), FALSE, a)]
  <2>0. PICK early \in BOOLEAN : ~ early
    OBVIOUS
  <2> DEFINE r == Polled(i)
             s == Reported(i, r, early, a)
  <2>1. /\ r.status \in {"SIGNED", "FAILED", "EXPIRED"}
        /\ r.status = "SIGNED" => provider[i] \in {"SIGNED", "OTHER"}
        /\ provider[i] = "OTHER" => r.document = "other"
    BY <1>1, <1>2, Zenon DEF Polled, ProviderStatus
  <2>2. /\ s \in ESignStatus \ {"NONE"} /\ ESignMove(tx[i], s)
        /\ s = "PENDING" => tx[i] = "PENDING"
        /\ s = "SIGNED" => /\ r.status = "SIGNED" /\ r.document # "other"
                           /\ i \notin lapsed
    <3>1. tx[i] # "NONE" /\ tx[i] # "SIGNED"
      BY <1>1
    <3> HIDE DEF r
    <3> QED
      BY <1>1, <2>0, <2>1, <3>1, ReportedMoves
  <2>3. s = "SIGNED" => provider[i] = "SIGNED" /\ i \notin signedLate
    BY <2>1, <2>2
  <2>6. tx' = [tx EXCEPT ![i] = s]
    BY <1>2, <2>0
  <2> HIDE DEF s
  <2>4. SigningIInv'
    BY <1>1, <2>2, <2>3, <2>6, StatusKeeps DEF ESignTypeOK
  <2>5. Moves
    BY <1>1, <2>2, <2>6 DEF Moves, ESignMove
  <2> QED
    BY <2>4, <2>5
<1>3. CASE tx' = [tx EXCEPT ![i] = "EXPIRED"]
  <2>1. SigningIInv'
    BY <1>1, <1>3, StatusKeeps DEF ESignTypeOK, ESignStatus
  <2>2. Moves
    BY <1>1, <1>3 DEF Moves, ESignMove
  <2> QED
    BY <2>1, <2>2
<1> QED
  BY <1>2, <1>3 DEF SyncSignatures

LEMMA ReviewKeeps ==
    ASSUME SigningIInv, NEW i \in Attempts, NEW a, Recheck(i, a) \/ FailReview(i)
    PROVE  SigningIInv' /\ Moves
<1> USE DEF SigningIInv
<1>1. /\ tx[i] = "MANUAL_REVIEW" /\ tx \in [Attempts -> ESignStatus]
      /\ reviewed' = reviewed \cup {i}
      /\ UNCHANGED <<referenced, lapsed, provider, signedLate, sent, seen, offerVars>>
  BY DEF Recheck, FailReview, ESignTypeOK
<1>2. PICK s \in {"SIGNED", "FAILED"} :
        /\ tx' = [tx EXCEPT ![i] = s]
        /\ s = "SIGNED" => i \in referenced /\ provider[i] = "SIGNED"
  BY DEF Recheck, FailReview, Confirmed
<1>3. SigningIInv'
  BY <1>1, <1>2, StatusKeeps DEF ESignTypeOK, ESignStatus
<1>4. Moves
  BY <1>1, <1>2 DEF Moves, ESignMove
<1> QED
  BY <1>3, <1>4

LEMMA StartingKeeps ==
    ASSUME SigningIInv, NEW i \in Attempts,
           InitiateNew(i) \/ InitiateAgain(i) \/ SyncInitiated(i)
    PROVE  SigningIInv' /\ Moves
<1> USE DEF SigningIInv
<1>1. tx[i] \in {"NONE", "INITIATED"} /\ tx \in [Attempts -> ESignStatus]
  BY DEF InitiateNew, InitiateAgain, SyncInitiated, ESignTypeOK
<1>2. Accepted
  BY DEF InitiateNew, InitiateAgain, SyncInitiated
<1>3. CASE StartWithProvider(i)
  <2>1. /\ SigningIInv'
        /\ ESignMove(tx[i], tx'[i]) \/ tx[i] = "NONE"
        /\ \A j \in Attempts \ {i} : tx'[j] = tx[j]
    BY <1>1, <1>2, <1>3, StartKeeps
  <2> QED
    BY <1>1, <2>1 DEF Moves, ESignMove
<1>4. CASE /\ tx[i] = "INITIATED" /\ tx' = [tx EXCEPT ![i] = "EXPIRED"]
           /\ UNCHANGED <<referenced, reviewed, lapsed, provider, signedLate,
                          sent, seen, offerVars>>
  <2>1. SigningIInv'
    BY <1>1, <1>4, StatusKeeps DEF ESignTypeOK, ESignStatus
  <2>2. Moves
    BY <1>1, <1>4 DEF Moves, ESignMove
  <2> QED
    BY <2>1, <2>2
<1> QED
  BY <1>3, <1>4 DEF InitiateNew, InitiateAgain, SyncInitiated

LEMMA ProviderKeeps ==
    ASSUME SigningIInv, NEW i \in Attempts,
           NEW p \in ProviderStatus \ {"UNKNOWN", "PENDING"},
           NEW doc \in {"same", "other", "none"}, ProviderDecides(i, p, doc)
    PROVE  SigningIInv' /\ Moves
<1> USE DEF SigningIInv
<1>1. OfferTypeOK' /\ Accepted' = Accepted
  BY OffersStay DEF ProviderDecides, ESignTypeOK
<1> DEFINE r == [status |-> IF p = "OTHER" THEN "SIGNED" ELSE p, document |-> doc]
<1>2. /\ provider[i] = "PENDING" /\ provider' = [provider EXCEPT ![i] = p]
      /\ doc = "same" => p = "SIGNED"
      /\ signedLate' = IF p \in {"SIGNED", "OTHER"} /\ i \in lapsed
                       THEN signedLate \cup {i} ELSE signedLate
      /\ sent' = sent \cup {<<i, r>>}
      /\ UNCHANGED <<tx, referenced, reviewed, lapsed, seen>>
  BY DEF ProviderDecides
<1>3. r \in Report /\ r.document = doc
  BY DEF Report, ProviderStatus
<1> HIDE DEF r
<1>4. ESignTypeOK'
  <2>1. sent' \subseteq Event /\ seen' \subseteq sent'
    BY <1>2, <1>3 DEF ESignTypeOK, Event
  <2> QED
    BY <1>1, <1>2, <2>1 DEF ESignTypeOK
<1>5. \A e \in sent' : e[2].document = "same" => provider'[e[1]] = "SIGNED"
  <2>1. ASSUME NEW e \in sent, e[2].document = "same" PROVE provider'[e[1]] = "SIGNED"
    BY <1>2, <2>1 DEF ESignTypeOK
  <2>2. doc = "same" => provider'[i] = "SIGNED"
    BY <1>2 DEF ESignTypeOK
  <2> QED
    BY <1>2, <1>3, <2>1, <2>2
<1>6. \A j \in Attempts :
        /\ tx'[j] # "NONE" => Accepted'
        /\ tx'[j] = "PENDING" => j \in referenced' /\ provider'[j] # "UNKNOWN"
        /\ j \in referenced' => tx'[j] # "NONE"
  BY <1>1, <1>2 DEF ESignTypeOK
<1>7. SignedIsConfirmed'
  BY <1>1, <1>2 DEF SignedIsConfirmed, ESignTypeOK
<1>8. Moves
  BY <1>2 DEF Moves, ESignMove
<1> QED
  BY <1>2, <1>4, <1>5, <1>6, <1>7, <1>8

LEMMA LapseKeeps ==
    ASSUME SigningIInv, NEW i \in Attempts, AttemptLapses(i)
    PROVE  SigningIInv' /\ Moves
<1> USE DEF SigningIInv
<1>1. OfferTypeOK' /\ Accepted' = Accepted
  BY OffersStay DEF AttemptLapses, ESignTypeOK
<1>2. SigningIInv'
  BY <1>1 DEF AttemptLapses, ESignTypeOK, SignedIsConfirmed
<1>3. Moves
  BY DEF AttemptLapses, Moves, ESignMove
<1> QED
  BY <1>2, <1>3

LEMMA SigningIInvStep ==
    ASSUME SigningIInv, [ESignNext]_esignVars
    PROVE  SigningIInv' /\ (Moves \/ UNCHANGED esignVars)
<1>1. CASE OfferNext /\ UNCHANGED signingVars
  <2>1. OfferTypeOK' /\ (Accepted => Accepted')
    BY <1>1, OfferTypeStep, AcceptedStays DEF SigningIInv, ESignTypeOK
  <2>2. SigningIInv'
    BY <1>1, <2>1 DEF SigningIInv, ESignTypeOK, signingVars, SignedIsConfirmed
  <2>3. Moves
    BY <1>1 DEF signingVars, Moves, ESignMove
  <2> QED
    BY <2>2, <2>3
<1>2. CASE SigningNext
  BY <1>2, StartingKeeps, SyncKeeps, ReviewKeeps, ProviderKeeps, LapseKeeps, Zenon
  DEF SigningNext
<1>3. CASE Callbacks
  BY <1>3, CallbackKeeps, Zenon DEF Callbacks
<1>4. CASE UNCHANGED esignVars
  <2>1. OfferTypeOK' /\ Accepted' = Accepted
    BY <1>4, OffersStay DEF esignVars, SigningIInv, ESignTypeOK
  <2> QED
    BY <1>4, <2>1 DEF esignVars, signingVars, SigningIInv, ESignTypeOK, SignedIsConfirmed
<1> QED
  BY <1>1, <1>2, <1>3, <1>4 DEF ESignNext

LEMMA AgreementInvariant == ESignSpec => []SigningIInv
<1>1. SigningIInv /\ [ESignNext]_esignVars => SigningIInv'
  BY SigningIInvStep
<1> QED
  BY <1>1, SigningIInvInit, PTL DEF ESignSpec

\* The agreement keeps its types, for any number of offers, attempts and admins.
THEOREM AgreementTypes == ESignSpec => []ESignTypeOK
<1>1. SigningIInv => ESignTypeOK
  BY DEF SigningIInv
<1> QED
  BY <1>1, AgreementInvariant, PTL

\* The agreement counts as signed only on the provider's word that this very
\* document was signed, for the accepted offer: services/esign.py _apply_report.
THEOREM SignedConfirmed == ESignSpec => []SignedIsConfirmed
<1>1. SigningIInv => SignedIsConfirmed
  BY DEF SigningIInv
<1> QED
  BY <1>1, AgreementInvariant, PTL

\* A status only moves as ESIGN_TRANSITIONS has it: services/esign.py
\* _apply_report, resolve_review.
THEOREM SignedFinal == ESignSpec => SignedIsFinal
<1>1. SigningIInv /\ [ESignNext]_esignVars => [Moves]_esignVars
  BY SigningIInvStep
<1>2. [Moves]_esignVars => [\A i \in Attempts :
        /\ ESignMove(tx[i], tx'[i]) \/ tx[i] = "NONE"
        /\ tx[i] = "MANUAL_REVIEW" /\ tx'[i] # tx[i] => i \in reviewed']_esignVars
  BY DEF Moves
<1> QED
  BY <1>1, <1>2, AgreementInvariant, PTL DEF ESignSpec, SignedIsFinal

\* Signing leaves the offers alone.
LEMMA OffersMoveAlone == [ESignNext]_esignVars => [OfferNext]_offerVars
<1>1. ASSUME NEW i \in Attempts, StartWithProvider(i) PROVE UNCHANGED offerVars
  BY <1>1 DEF StartWithProvider
<1>2. SigningNext => UNCHANGED offerVars
  BY <1>1, Zenon
  DEF SigningNext, InitiateNew, InitiateAgain, SyncInitiated, SyncSignatures,
      Recheck, FailReview, ProviderDecides, AttemptLapses
<1>3. Callbacks => UNCHANGED offerVars
  BY Zenon DEF Callbacks, Callback
<1>4. UNCHANGED esignVars => UNCHANGED offerVars
  BY DEF esignVars
<1> QED
  BY <1>2, <1>3, <1>4 DEF ESignNext

LEMMA OfferInvariant == ESignSpec => []OfferIInv
<1>1. ESignInit => OfferIInv
  <2>1. OfferInit => OneOpen(offer) /\ ~ refused
    BY DEF OfferInit, OneOpen, OpenVersions, Open
  <2> QED
    BY <2>1, OfferTypeInit DEF ESignInit, OfferIInv
<1>2. OfferIInv /\ [ESignNext]_esignVars => OfferIInv'
  BY OffersMoveAlone, OfferInvStep
<1> QED
  BY <1>1, <1>2, PTL DEF ESignSpec

\* No two offers are ever open, whatever is issued, accepted, expired and
\* withdrawn in between, and the unique index never refuses a write:
\* services/loan_offer.py issue_offer.
THEOREM OneOffer == ESignSpec => []OneOpenOffer
<1>1. OfferIInv => OneOpenOffer
  BY OneOpenCounted DEF OfferIInv, OneOpenOffer
<1> QED
  BY <1>1, OfferInvariant, PTL

\* An offer that is closed never opens again: services/loan_offer.py
\* issue_offer, and the table's trigger.
THEOREM OffersStayClosed == ESignSpec => ClosedOffersStayClosed
<1> DEFINE Stays == \A v \in Versions : offer[v] \in Closed => offer'[v] = offer[v]
<1>1. OfferIInv /\ [ESignNext]_esignVars => [Stays]_offerVars
  <2>1. ASSUME OfferIInv, [OfferNext]_offerVars PROVE Stays
    BY <2>1, OfferTypeStep DEF OfferIInv, TriggerAllows, Closed, Open
  <2> QED
    BY <2>1, OffersMoveAlone
<1> QED
  BY <1>1, OfferInvariant, PTL DEF ESignSpec, ClosedOffersStayClosed

-----------------------------------------------------------------------------
(* Documents.                                                              *)

\* What storing rests on: the bytes of a row being inserted are there and its
\* checksum is no one else's; bytes that were put are there, unless another
\* row took the checksum, for good.
StoringIInv ==
    /\ DocumentTypeOK /\ StoredIsThere
    /\ \A r \in Uploads :
        LET ref == request[r].ref IN
        /\ request[r].phase = "put" => ref \in objects \/ RowFor(ref) # {}
        /\ request[r].phase = "inserted" =>
            /\ ref \in objects /\ RowFor(ref) = {}
            /\ \A q \in Uploads \ {r} :
                request[q].phase = "inserted" => request[q].ref[2] # ref[2]

LEMMA StoringIInvInit == DocumentInit => StoringIInv
BY DEF DocumentInit, StoringIInv, DocumentTypeOK, StoredIsThere, Phases

\* What a step does to the request that takes it.
LEMMA BecomeType ==
    ASSUME DocumentTypeOK, NEW r \in Uploads, NEW phase \in Phases, Become(r, phase)
    PROVE  /\ request' \in [Uploads -> [phase : Phases, ref : Ref]]
           /\ request'[r].phase = phase /\ request'[r].ref = request[r].ref
           /\ \A q \in Uploads \ {r} : request'[q] = request[q]
BY DEF DocumentTypeOK, Become

LEMMA StoringIInvStep ==
    ASSUME StoringIInv, [DocumentNext]_documentVars
    PROVE  StoringIInv'
<1> USE DEF StoringIInv, StoredIsThere, RowFor
<1>1. ASSUME NEW r \in Uploads, Find(r) PROVE StoringIInv'
  <2>1. PICK phase \in {"checked", "done", "refused"} : Become(r, phase)
    BY <1>1 DEF Find, Settle
  <2>2. answered' \subseteq rows /\ answered' \subseteq Ref /\ UNCHANGED <<objects, rows>>
    BY <1>1 DEF Find, Settle, DocumentTypeOK
  <2> QED
    BY <2>1, <2>2, BecomeType DEF Phases, DocumentTypeOK
<1>2. ASSUME NEW r \in Uploads, Put(r) PROVE StoringIInv'
  BY <1>2, BecomeType DEF Put, Phases, DocumentTypeOK
<1>3. ASSUME NEW r \in Uploads, Insert(r) PROVE StoringIInv'
  BY <1>3, BecomeType DEF Insert, MustWait, Phases, DocumentTypeOK
<1>4. ASSUME NEW r \in Uploads, InsertConflicts(r) PROVE StoringIInv'
  <2>1. PICK stored \in RowFor(request[r].ref) :
            Settle(r, stored) /\ objects' = CleanUp(request[r].ref, stored)
    BY <1>4 DEF InsertConflicts
  <2>2. PICK phase \in {"done", "refused"} : Become(r, phase)
    BY <2>1 DEF Settle
  <2>3. answered' \subseteq rows /\ answered' \subseteq Ref /\ UNCHANGED rows
    BY <1>4, <2>1 DEF InsertConflicts, Settle, DocumentTypeOK
  <2>4. /\ objects' \subseteq Ref /\ rows' \subseteq objects'
        /\ objects \ {request[r].ref} \subseteq objects'
    BY <2>1, <2>3 DEF CleanUp, DocumentTypeOK
  <2> QED
    BY <2>1, <2>2, <2>3, <2>4, BecomeType DEF Phases, DocumentTypeOK
<1>5. ASSUME NEW r \in Uploads, Commit(r) PROVE StoringIInv'
  <2>1. /\ request[r].phase = "inserted" /\ request[r].ref \in Ref
        /\ rows' = rows \cup {request[r].ref} /\ UNCHANGED objects
        /\ answered' = answered \cup {request[r].ref}
    BY <1>5 DEF Commit, DocumentTypeOK
  <2>2. /\ request' \in [Uploads -> [phase : Phases, ref : Ref]]
        /\ request'[r].phase = "done" /\ request'[r].ref = request[r].ref
        /\ \A q \in Uploads \ {r} : request'[q] = request[q]
    BY <1>5, BecomeType DEF Commit, Phases
  <2>3. DocumentTypeOK'
    BY <2>1, <2>2 DEF DocumentTypeOK
  <2>4. StoredIsThere'
    BY <2>1
  <2> QED
    BY <2>1, <2>2, <2>3, <2>4
<1>6. ASSUME NEW r \in Uploads, RollBack(r) PROVE StoringIInv'
  BY <1>6, BecomeType DEF RollBack, Phases, DocumentTypeOK
<1>7. CASE UNCHANGED documentVars
  BY <1>7 DEF documentVars, DocumentTypeOK
<1> QED
  BY <1>1, <1>2, <1>3, <1>4, <1>5, <1>6, <1>7 DEF DocumentNext

\* What a request was told is stored has its row and its bytes, and a checksum
\* has one row, for any number of uploads: services/document.py store_document.
THEOREM DocumentsStored == DocumentSpec => []StoredIsThere
<1>1. StoringIInv /\ [DocumentNext]_documentVars => StoringIInv'
  BY StoringIInvStep
<1>2. StoringIInv => StoredIsThere
  BY DEF StoringIInv
<1> QED
  BY <1>1, <1>2, StoringIInvInit, PTL DEF DocumentSpec

-----------------------------------------------------------------------------
(* Onboarding.                                                             *)

\* The operations that a PAN's or an identity's lock covers, and all whose
\* records change under it.
Covering == {"pan", "identity", "capture"}
Exclusive == {"PAN", "IDENTITY"}

\* Types, as far as the locks need them.
OnboardingTypes ==
    /\ DOMAIN work = Requests
    /\ record \in [Kinds -> Seq(RecordStatus)]
    /\ lock \in [Kinds -> Requests \cup {"free"}]
    /\ overran \in BOOLEAN
    /\ \A r \in Requests : work[r].op \in Operations \/ work[r] = IdleRequest

\* What a request that runs under a lock may count on until it commits.
Undisturbed(r) ==
    LET w == work[r] IN
    /\ w.op \in Covering => lock[LockOf[w.op]] = r
    /\ w.op \in {"pan", "identity"} => Newest(LockOf[w.op]) \notin Blocking
    /\ w.op = "capture" => w.on = Len(record["IDENTITY"]) /\ w.on > 0

\* Only the newest record may be running or verified.
OnlyNewestBlocks(k) ==
    \A n \in DOMAIN record[k] : record[k][n] \in Blocking => n = Len(record[k])

OnboardingIInv ==
    /\ OnboardingTypes
    /\ ~ overran => /\ \A r \in Requests : Undisturbed(r)
                    /\ \A k \in Exclusive : OnlyNewestBlocks(k)

LEMMA OnboardingIInvInit == OnboardingInit => OnboardingIInv
<1> SUFFICES ASSUME OnboardingInit PROVE OnboardingIInv
  OBVIOUS
<1>1. OnboardingTypes
  BY EmptySeq DEF OnboardingInit, OnboardingTypes
<1>2. \A r \in Requests : Undisturbed(r)
  BY DEF OnboardingInit, IdleRequest, Undisturbed, Covering
<1>3. \A k \in Exclusive : OnlyNewestBlocks(k)
  BY DEF OnboardingInit, OnlyNewestBlocks, Exclusive, Kinds
<1> QED
  BY <1>1, <1>2, <1>3 DEF OnboardingIInv

LEMMA Locks ==
    /\ LockOf["pan"] = "PAN" /\ LockOf["kyc"] = "KYC"
    /\ LockOf["identity"] = "IDENTITY" /\ LockOf["capture"] = "IDENTITY"
    /\ LockOf["refresh"] = "none" /\ LockOf["step"] = "none"
    /\ Operations = {"pan", "kyc", "identity", "capture", "refresh", "step"}
BY DEF LockOf, Operations

\* The record that a commit leaves, operation by operation.
LEMMA Recorded ==
    ASSUME NEW w, NEW result
    PROVE  /\ w.op \in {"pan", "kyc", "identity"} =>
                NextRecord(w, result) = [record EXCEPT ![LockOf[w.op]] = Append(@, result)]
           /\ w.op = "capture" => NextRecord(w, result) \in
                {record, [record EXCEPT !["IDENTITY"][w.on] = result]}
           /\ w.op = "refresh" => NextRecord(w, result) \in
                {record, [record EXCEPT !["KYC"][w.on] = result]}
           /\ w.op = "step" => NextRecord(w, result) = record
BY Zenon DEF NextRecord

LEMMA NewestIsLast ==
    ASSUME OnboardingTypes, NEW k \in Kinds
    PROVE  Newest(k) = IF Len(record[k]) = 0 THEN "none" ELSE record[k][Len(record[k])]
BY DEF OnboardingTypes, Newest

\* A request that begins leaves the others alone.
LEMMA BeginStep ==
    ASSUME OnboardingTypes, NEW r \in Requests, NEW w, Begin(r, w),
           w.op \in Operations, lock' \in [Kinds -> Requests \cup {"free"}]
    PROVE  /\ OnboardingTypes' /\ work[r] = IdleRequest /\ work'[r] = w
           /\ \A q \in Requests \ {r} : work'[q] = work[q]
           /\ UNCHANGED <<record, overran>>
BY DEF Begin, OnboardingTypes

\* A lock that is taken was free: the requests that hold one keep it.
LEMMA AcquireStep ==
    ASSUME OnboardingTypes, NEW r \in Requests, NEW k \in Kinds, Acquire(r, k)
    PROVE  /\ lock' \in [Kinds -> Requests \cup {"free"}] /\ lock'[k] = r
           /\ \A q \in Requests, j \in Kinds : lock[j] = q => lock'[j] = q
BY OnboardingAssumption DEF Acquire, OnboardingTypes

\* Nothing a request does that leaves the records and the locks of the others
\* alone disturbs them.
LEMMA OthersUndisturbed ==
    ASSUME OnboardingTypes, NEW q \in Requests, Undisturbed(q), work'[q] = work[q],
           work[q].op \in Covering =>
                /\ lock[LockOf[work[q].op]] = q => lock'[LockOf[work[q].op]] = q
                /\ record'[LockOf[work[q].op]] = record[LockOf[work[q].op]]
    PROVE  Undisturbed(q)'
BY Locks DEF Undisturbed, Covering, Newest

LEMMA CreatorsBegin ==
    ASSUME OnboardingIInv, NEW r \in Requests,
           VerifyPAN(r) \/ InitiateKYC(r) \/ StartIdentity(r)
    PROVE  OnboardingIInv'
<1>0. OnboardingTypes
  BY DEF OnboardingIInv
<1>1. PICK op \in {"pan", "kyc", "identity"} :
        /\ Newest(LockOf[op]) \notin Blocking
        /\ Acquire(r, LockOf[op]) /\ Begin(r, Creating(op))
  BY Locks DEF VerifyPAN, InitiateKYC, StartIdentity, MayCreate
<1>2. /\ Creating(op).op = op /\ op \in Operations /\ LockOf[op] \in Kinds
      /\ op \in Covering => op \in {"pan", "identity"}
  BY Locks DEF Creating, IdleRequest, Kinds, Covering
<1>3. /\ lock' \in [Kinds -> Requests \cup {"free"}] /\ lock'[LockOf[op]] = r
      /\ \A q \in Requests, j \in Kinds : lock[j] = q => lock'[j] = q
  BY <1>0, <1>1, <1>2, AcquireStep
<1>4. /\ OnboardingTypes' /\ work'[r].op = op
      /\ \A q \in Requests \ {r} : work'[q] = work[q]
      /\ UNCHANGED <<record, overran>>
  BY <1>0, <1>1, <1>2, <1>3, BeginStep
<1>5. ASSUME ~ overran PROVE \A q \in Requests : Undisturbed(q)'
  <2>1. ASSUME NEW q \in Requests \ {r} PROVE Undisturbed(q)'
    <3>1. work[q].op \in Covering => LockOf[work[q].op] \in Kinds
      BY Locks DEF Covering, Kinds
    <3> QED
      BY <1>0, <1>3, <1>4, <1>5, <3>1, OthersUndisturbed DEF OnboardingIInv
  <2>2. Undisturbed(r)'
    BY <1>1, <1>2, <1>3, <1>4 DEF Undisturbed, Newest
  <2> QED
    BY <2>1, <2>2
<1>6. ASSUME ~ overran PROVE \A k \in Exclusive : OnlyNewestBlocks(k)'
  BY <1>4, <1>6 DEF OnboardingIInv, OnlyNewestBlocks
<1> QED
  BY <1>4, <1>5, <1>6 DEF OnboardingIInv

LEMMA CaptureBegins ==
    ASSUME OnboardingIInv, NEW r \in Requests, SubmitCapture(r)
    PROVE  OnboardingIInv'
<1>0. OnboardingTypes
  BY DEF OnboardingIInv
<1>1. /\ Newest("IDENTITY") \in {"PENDING", "RETRY_REQUIRED"}
      /\ Acquire(r, "IDENTITY") /\ Begin(r, Changing("capture", "IDENTITY"))
  BY DEF SubmitCapture
<1>2. /\ Changing("capture", "IDENTITY").op = "capture" /\ "capture" \in Operations
      /\ Changing("capture", "IDENTITY").on = Len(record["IDENTITY"])
      /\ "IDENTITY" \in Kinds /\ LockOf["capture"] = "IDENTITY"
  BY Locks DEF Changing, Kinds
<1>3. Len(record["IDENTITY"]) > 0
  <2>1. Len(record["IDENTITY"]) \in Nat
    BY <1>0, <1>2, LenProperties DEF OnboardingTypes
  <2> QED
    BY <1>0, <1>1, <1>2, <2>1, NewestIsLast
<1>4. /\ lock' \in [Kinds -> Requests \cup {"free"}] /\ lock'["IDENTITY"] = r
      /\ \A q \in Requests, j \in Kinds : lock[j] = q => lock'[j] = q
  BY <1>0, <1>1, <1>2, AcquireStep
<1>5. /\ OnboardingTypes' /\ work'[r].op = "capture"
      /\ work'[r].on = Len(record["IDENTITY"])
      /\ \A q \in Requests \ {r} : work'[q] = work[q]
      /\ UNCHANGED <<record, overran>>
  BY <1>0, <1>1, <1>2, <1>4, BeginStep
<1>6. ASSUME ~ overran PROVE \A q \in Requests : Undisturbed(q)'
  <2>1. ASSUME NEW q \in Requests \ {r} PROVE Undisturbed(q)'
    <3>1. work[q].op \in Covering => LockOf[work[q].op] \in Kinds
      BY Locks DEF Covering, Kinds
    <3> QED
      BY <1>0, <1>4, <1>5, <1>6, <3>1, OthersUndisturbed DEF OnboardingIInv
  <2>2. Undisturbed(r)'
    BY <1>2, <1>3, <1>4, <1>5 DEF Undisturbed
  <2> QED
    BY <2>1, <2>2
<1>7. ASSUME ~ overran PROVE \A k \in Exclusive : OnlyNewestBlocks(k)'
  BY <1>5, <1>7 DEF OnboardingIInv, OnlyNewestBlocks
<1> QED
  BY <1>5, <1>6, <1>7 DEF OnboardingIInv

\* A request that takes no lock of the kinds that exclude.
LEMMA UnlockedBegins ==
    ASSUME OnboardingIInv, NEW r \in Requests, RefreshKYC(r) \/ MoveStep(r)
    PROVE  OnboardingIInv'
<1>0. OnboardingTypes
  BY DEF OnboardingIInv
<1>1. PICK w : Begin(r, w) /\ w.op \in {"refresh", "step"} /\ UNCHANGED lock
  BY DEF RefreshKYC, MoveStep, Changing, IdleRequest
<1>2. /\ OnboardingTypes' /\ work'[r].op \in {"refresh", "step"}
      /\ \A q \in Requests \ {r} : work'[q] = work[q]
      /\ UNCHANGED <<record, overran, lock>>
  BY <1>0, <1>1, BeginStep, Locks DEF OnboardingTypes
<1>3. ASSUME ~ overran PROVE \A q \in Requests : Undisturbed(q)'
  BY <1>0, <1>2, <1>3, OthersUndisturbed DEF OnboardingIInv, Undisturbed, Covering
<1>4. ASSUME ~ overran PROVE \A k \in Exclusive : OnlyNewestBlocks(k)'
  BY <1>2, <1>4 DEF OnboardingIInv, OnlyNewestBlocks
<1> QED
  BY <1>2, <1>3, <1>4 DEF OnboardingIInv

\* A request that is done, or dead, lets go of its own lock at most.
LEMMA IdlesOnly ==
    ASSUME OnboardingTypes, NEW r \in Requests, work[r] # IdleRequest,
           work' = [work EXCEPT ![r] = IdleRequest],
           ReleaseLock(r, LockOf[work[r].op]) \/ UNCHANGED lock
    PROVE  /\ DOMAIN work' = Requests /\ work'[r] = IdleRequest
           /\ \A q \in Requests \ {r} : work'[q] = work[q]
           /\ lock' \in [Kinds -> Requests \cup {"free"}]
           /\ \A q \in Requests \ {r}, k \in Kinds : lock[k] = q => lock'[k] = q
           /\ \A k \in Kinds : lock'[k] # lock[k] => lock[k] = r
BY DEF OnboardingTypes, ReleaseLock

LEMMA CommitKeeps ==
    ASSUME OnboardingIInv, NEW r \in Requests,
           NEW result \in RecordStatus \cup {"none"}, CommitWork(r, result)
    PROVE  OnboardingIInv'
<1> DEFINE w == work[r]
<1>0. /\ OnboardingTypes /\ w # IdleRequest /\ w.op \in Operations
      /\ record' = NextRecord(w, result) /\ UNCHANGED overran
      /\ result \in Results[w.op]
  BY DEF OnboardingIInv, OnboardingTypes, CommitWork
<1>1. /\ DOMAIN work' = Requests /\ work'[r] = IdleRequest
      /\ \A q \in Requests \ {r} : work'[q] = work[q]
      /\ lock' \in [Kinds -> Requests \cup {"free"}]
      /\ \A q \in Requests \ {r}, k \in Kinds : lock[k] = q => lock'[k] = q
  BY <1>0, IdlesOnly DEF CommitWork, Done
<1>2. w.op # "step" => result \in RecordStatus
  BY <1>0, Locks DEF Results, PANResults, KYCResults, CaptureResults, RecordStatus
<1>3. /\ record' \in [Kinds -> Seq(RecordStatus)]
      /\ \A k \in Kinds : (LockOf[w.op] # k /\ ~ (w.op = "refresh" /\ k = "KYC"))
                                => record'[k] = record[k]
  <2>1. CASE w.op \in {"pan", "kyc", "identity"}
    <3>1. LockOf[w.op] \in Kinds
      BY <2>1, Locks DEF Kinds
    <3>2. record' = [record EXCEPT ![LockOf[w.op]] = Append(@, result)]
      BY <1>0, <2>1, Recorded
    <3>3. Append(record[LockOf[w.op]], result) \in Seq(RecordStatus)
      BY <1>0, <1>2, <2>1, <3>1, SeqAppend DEF OnboardingTypes
    <3> QED
      BY <1>0, <2>1, <3>1, <3>2, <3>3 DEF OnboardingTypes
  <2>2. CASE w.op = "capture"
    <3>1. record' \in {record, [record EXCEPT !["IDENTITY"][w.on] = result]}
      BY <1>0, <2>2, Recorded
    <3>2. [record["IDENTITY"] EXCEPT ![w.on] = result] \in Seq(RecordStatus)
      BY <1>0, <1>2, <2>2, SeqExcept DEF OnboardingTypes, Kinds
    <3> QED
      BY <1>0, <2>2, <3>1, <3>2, Locks DEF OnboardingTypes, Kinds
  <2>3. CASE w.op = "refresh"
    <3>1. record' \in {record, [record EXCEPT !["KYC"][w.on] = result]}
      BY <1>0, <2>3, Recorded
    <3>2. [record["KYC"] EXCEPT ![w.on] = result] \in Seq(RecordStatus)
      BY <1>0, <1>2, <2>3, SeqExcept DEF OnboardingTypes, Kinds
    <3> QED
      BY <1>0, <2>3, <3>1, <3>2, Locks DEF OnboardingTypes, Kinds
  <2>4. CASE w.op = "step"
    BY <1>0, <2>4, Recorded DEF OnboardingTypes
  <2> QED
    BY <1>0, <2>1, <2>2, <2>3, <2>4, Locks
<1>4. OnboardingTypes'
  BY <1>0, <1>1, <1>3 DEF OnboardingTypes
<1>5. ASSUME ~ overran, NEW q \in Requests PROVE Undisturbed(q)'
  <2>1. CASE q = r
    BY <1>1, <2>1 DEF Undisturbed, IdleRequest, Covering
  <2>2. CASE q # r
    <3>1. Undisturbed(q) /\ Undisturbed(r)
      BY <1>5 DEF OnboardingIInv
    <3>2. ASSUME work[q].op \in Covering
          PROVE  /\ LockOf[work[q].op] \in Exclusive
                 /\ LockOf[work[q].op] # LockOf[w.op]
      <4>1. LockOf[work[q].op] \in Exclusive
        BY <3>2, Locks DEF Covering, Exclusive
      <4>2. lock[LockOf[work[q].op]] = q
        BY <3>1, <3>2 DEF Undisturbed
      <4>3. w.op \in Covering => lock[LockOf[w.op]] = r
        BY <3>1 DEF Undisturbed
      <4>4. w.op \notin Covering => LockOf[w.op] \notin Exclusive
        BY <1>0, Locks DEF Covering, Exclusive
      <4> QED
        BY <2>2, <4>1, <4>2, <4>3, <4>4
    <3>3. work[q].op \in Covering =>
            /\ lock[LockOf[work[q].op]] = q => lock'[LockOf[work[q].op]] = q
            /\ record'[LockOf[work[q].op]] = record[LockOf[work[q].op]]
      BY <1>1, <1>3, <2>2, <3>2 DEF Exclusive, Kinds
    <3> QED
      BY <1>0, <1>1, <2>2, <3>1, <3>3, OthersUndisturbed
  <2> QED
    BY <2>1, <2>2
<1>6. ASSUME ~ overran, NEW k \in Exclusive PROVE OnlyNewestBlocks(k)'
  <2>0. /\ OnlyNewestBlocks(k) /\ Undisturbed(r) /\ k \in Kinds
        /\ record[k] \in Seq(RecordStatus)
    BY <1>0, <1>6 DEF OnboardingIInv, Exclusive, Kinds, OnboardingTypes
  <2>1. CASE record'[k] = record[k]
    BY <2>0, <2>1 DEF OnlyNewestBlocks
  <2>2. CASE w.op \in {"pan", "identity"} /\ LockOf[w.op] = k
    <3> DEFINE old == record[k]
    <3>1. record'[k] = Append(old, result)
      BY <1>0, <2>0, <2>2, Recorded DEF OnboardingTypes
    <3>2. Newest(k) \notin Blocking
      BY <2>0, <2>2 DEF Undisturbed
    <3>3. \A n \in 1 .. Len(old) : old[n] \notin Blocking
      BY <1>0, <2>0, <3>2, NewestIsLast, LenProperties DEF OnlyNewestBlocks
    <3>4. /\ Append(old, result) \in Seq(RecordStatus)
          /\ Len(Append(old, result)) = Len(old) + 1
          /\ \A n \in 1 .. Len(old) : Append(old, result)[n] = old[n]
      BY <1>2, <2>0, <2>2, SeqAppend
    <3>5. /\ DOMAIN record'[k] = 1 .. Len(old) + 1 /\ Len(record'[k]) = Len(old) + 1
          /\ \A n \in 1 .. Len(old) : record'[k][n] = old[n]
          /\ Len(old) \in Nat
      BY <2>0, <3>1, <3>4, LenProperties
    <3> QED
      BY <3>3, <3>5 DEF OnlyNewestBlocks
  <2>3. CASE w.op = "capture" /\ k = "IDENTITY"
    <3> DEFINE old == record[k]
    <3>1. record'[k] \in {old, [old EXCEPT ![Len(old)] = result]} /\ Len(old) > 0
      BY <1>0, <2>0, <2>3, Recorded DEF OnboardingTypes, Undisturbed
    <3>2. Len(old) \in Nat /\ old \in [1 .. Len(old) -> RecordStatus]
      BY <2>0, LenProperties
    <3>3. Len(old) \in 1 .. Len(old) /\ result \in RecordStatus
      BY <1>2, <2>3, <3>1, <3>2
    <3>4. /\ Len([old EXCEPT ![Len(old)] = result]) = Len(old)
          /\ DOMAIN [old EXCEPT ![Len(old)] = result] = DOMAIN old
          /\ \A n \in 1 .. Len(old) : n # Len(old) =>
                [old EXCEPT ![Len(old)] = result][n] = old[n]
      BY <2>0, <3>2, <3>3, ExceptSeq
    <3> QED
      BY <2>0, <3>1, <3>2, <3>4 DEF OnlyNewestBlocks
  <2> QED
    BY <1>0, <1>3, <2>0, <2>1, <2>2, <2>3, Locks DEF Exclusive, Kinds
<1> QED
  BY <1>0, <1>4, <1>5, <1>6 DEF OnboardingIInv

LEMMA GivingUpKeeps ==
    ASSUME OnboardingIInv, NEW r \in Requests, Fail(r) \/ Die(r)
    PROVE  OnboardingIInv'
<1>0. OnboardingTypes /\ UNCHANGED <<record, overran>>
  BY DEF OnboardingIInv, Fail, Die
<1>1. /\ DOMAIN work' = Requests /\ work'[r] = IdleRequest
      /\ \A q \in Requests \ {r} : work'[q] = work[q]
      /\ lock' \in [Kinds -> Requests \cup {"free"}]
      /\ \A q \in Requests \ {r}, k \in Kinds : lock[k] = q => lock'[k] = q
  BY <1>0, IdlesOnly DEF Fail, Die, Done
<1>2. OnboardingTypes'
  BY <1>0, <1>1 DEF OnboardingTypes
<1>3. ASSUME ~ overran, NEW q \in Requests PROVE Undisturbed(q)'
  <2>1. CASE q = r
    BY <1>1, <2>1 DEF Undisturbed, IdleRequest, Covering
  <2>2. CASE q # r
    <3>1. work[q].op \in Covering => LockOf[work[q].op] \in Kinds
      BY Locks DEF Covering, Kinds
    <3> QED
      BY <1>0, <1>1, <1>3, <2>2, <3>1, OthersUndisturbed DEF OnboardingIInv
  <2> QED
    BY <2>1, <2>2
<1>4. ASSUME ~ overran PROVE \A k \in Exclusive : OnlyNewestBlocks(k)'
  BY <1>0, <1>4 DEF OnboardingIInv, OnlyNewestBlocks
<1> QED
  BY <1>0, <1>2, <1>3, <1>4 DEF OnboardingIInv

LEMMA LeaseKeeps ==
    ASSUME OnboardingIInv, NEW k \in Kinds, LeaseEnds(k)
    PROVE  OnboardingIInv'
<1>0. /\ OnboardingTypes /\ lock[k] \in Requests
      /\ lock' = [lock EXCEPT ![k] = "free"] /\ UNCHANGED <<work, record>>
      /\ overran' = (overran \/ (k # "KYC" /\ work[lock[k]] # IdleRequest))
  BY DEF OnboardingIInv, OnboardingTypes, LeaseEnds
<1>1. OnboardingTypes'
  BY <1>0 DEF OnboardingTypes
<1>2. ASSUME ~ overran', NEW q \in Requests PROVE Undisturbed(q)'
  <2>1. ~ overran /\ (k # "KYC" => work[lock[k]] = IdleRequest)
    BY <1>0, <1>2
  <2>2. Undisturbed(q)
    BY <2>1 DEF OnboardingIInv
  <2>3. ASSUME work[q].op \in Covering PROVE lock'[LockOf[work[q].op]] = q
    <3>1. lock[LockOf[work[q].op]] = q /\ LockOf[work[q].op] \in Exclusive
      BY <2>2, <2>3, Locks DEF Undisturbed, Covering, Exclusive
    <3>2. IdleRequest.op \notin Covering
      BY DEF IdleRequest, Covering
    <3> QED
      BY <1>0, <2>1, <2>3, <3>1, <3>2 DEF OnboardingTypes, Exclusive, Kinds
  <2> QED
    BY <1>0, <2>2, <2>3, OthersUndisturbed
<1>3. ASSUME ~ overran' PROVE \A j \in Exclusive : OnlyNewestBlocks(j)'
  BY <1>0, <1>3 DEF OnboardingIInv, OnlyNewestBlocks
<1> QED
  BY <1>1, <1>2, <1>3 DEF OnboardingIInv

LEMMA OnboardingIInvStep ==
    ASSUME OnboardingIInv, [OnboardingNext]_onboardingVars
    PROVE  OnboardingIInv'
<1>1. CASE UNCHANGED onboardingVars
  BY <1>1 DEF onboardingVars, OnboardingIInv, OnboardingTypes, Undisturbed,
              OnlyNewestBlocks, Newest
<1>2. CASE OnboardingNext
  BY <1>2, CreatorsBegin, CaptureBegins, UnlockedBegins, CommitKeeps, GivingUpKeeps,
     LeaseKeeps, Zenon DEF OnboardingNext
<1> QED
  BY <1>1, <1>2

LEMMA OnboardingInvariant == OnboardingSpec => []OnboardingIInv
<1>1. OnboardingIInv /\ [OnboardingNext]_onboardingVars => OnboardingIInv'
  BY OnboardingIInvStep
<1> QED
  BY <1>1, OnboardingIInvInit, PTL DEF OnboardingSpec

\* While the leases last as long as the work, a PAN or an identity has one
\* record that is running or verified, for any number of requests:
\* services/pan_verification.py verify, services/identity_verification.py start.
THEOREM OneVerification == OnboardingSpec => []OneVerificationAtATime
<1>1. ASSUME OnboardingIInv, ~ overran, NEW k \in Exclusive
      PROVE  Cardinality({n \in DOMAIN record[k] : record[k][n] \in Blocking}) <= 1
  <2> DEFINE S == {n \in DOMAIN record[k] : record[k][n] \in Blocking}
  <2>1. \A m, n \in S : m = n
    BY <1>1 DEF OnboardingIInv, OnlyNewestBlocks
  <2> QED
    BY <2>1, OneCounted
<1>2. OnboardingIInv => OneVerificationAtATime
  BY <1>1 DEF OneVerificationAtATime, Exclusive
<1> QED
  BY <1>2, OnboardingInvariant, PTL

\* A lock goes with its lease or its owner, never because another request was
\* done: core/distributed_lock.py __aexit__.
THEOREM LocksKept == OnboardingSpec => NobodyElsesLock
<1> DEFINE Kept == \A k \in Kinds : lock[k] # "free" /\ lock'[k] # lock[k]
                        => work' = work \/ work'[lock[k]] # work[lock[k]]
<1>1. ASSUME OnboardingTypes, NEW r \in Requests, NEW k \in Kinds, Acquire(r, k)
      PROVE  Kept
  BY <1>1 DEF Acquire, OnboardingTypes
<1>2. ASSUME OnboardingTypes, NEW r \in Requests,
             VerifyPAN(r) \/ InitiateKYC(r) \/ StartIdentity(r) \/ SubmitCapture(r)
      PROVE  Kept
  BY <1>1, <1>2 DEF VerifyPAN, InitiateKYC, StartIdentity, SubmitCapture, Kinds
<1>3. ASSUME OnboardingTypes, NEW r \in Requests, work[r] # IdleRequest,
             work' = [work EXCEPT ![r] = IdleRequest],
             ReleaseLock(r, LockOf[work[r].op]) \/ UNCHANGED lock
      PROVE  Kept
  <2>1. work'[r] = IdleRequest /\ \A k \in Kinds : lock'[k] # lock[k] => lock[k] = r
    BY <1>3, IdlesOnly
  <2> QED
    BY <1>3, <2>1
<1>4. ASSUME OnboardingTypes, NEW r \in Requests, Fail(r) \/ Die(r) PROVE Kept
  BY <1>3, <1>4 DEF Fail, Die, Done
<1>5. ASSUME OnboardingTypes, NEW r \in Requests,
             NEW result \in RecordStatus \cup {"none"}, CommitWork(r, result)
      PROVE  Kept
  BY <1>3, <1>5 DEF CommitWork, Done
<1>6. ASSUME NEW r \in Requests, RefreshKYC(r) \/ MoveStep(r) PROVE Kept
  BY <1>6 DEF RefreshKYC, MoveStep
<1>7. ASSUME NEW k \in Kinds, LeaseEnds(k) PROVE Kept
  BY <1>7 DEF LeaseEnds
<1> HIDE DEF Kept
<1>8. OnboardingIInv /\ [OnboardingNext]_onboardingVars => [Kept]_onboardingVars
  BY <1>2, <1>4, <1>5, <1>6, <1>7, Zenon DEF OnboardingNext, OnboardingIInv
<1> USE DEF Kept
<1> QED
  BY <1>8, OnboardingInvariant, PTL DEF OnboardingSpec, NobodyElsesLock

-----------------------------------------------------------------------------
(* Sessions.                                                               *)

\* What sessions rest on: a family is named after a session already open, as is
\* a successor, and a request that revokes has a reason to write.
SessionsIInv ==
    /\ SessionsTypeOK /\ OneLivePerFamily
    /\ \A i \in Opened : family[i] <= opened
    /\ \A i \in Ids : successor[i] # 0 => i <= opened /\ successor[i] <= opened
    /\ \A r \in Revokers : revoking[r] = Idle \/ revoking[r].why # "none"

LEMMA SessionsIInvInit == SessionsInit => SessionsIInv
BY SessionsAssumption
DEF SessionsInit, SessionsIInv, SessionsTypeOK, OneLivePerFamily, Opened, Live, Ids,
    Idle, Reasons

LEMMA OpenSessionKeeps ==
    ASSUME SessionsIInv, OpenSession
    PROVE  SessionsIInv'
<1>1. /\ opened \in 0 .. MaxSessions /\ opened + 1 \in Ids
      /\ opened' = opened + 1 /\ opened' \in 0 .. MaxSessions
      /\ family' = [family EXCEPT ![opened + 1] = opened + 1]
      /\ UNCHANGED <<successor, revoked, revoking>>
  BY SessionsAssumption DEF SessionsIInv, SessionsTypeOK, OpenSession, Ids
<1>2. SessionsTypeOK'
  BY <1>1 DEF SessionsIInv, SessionsTypeOK, Ids
<1>3. \A i \in Opened' : i = opened + 1 \/ i \in Opened
  BY <1>1 DEF Opened
<1>4. /\ \A i \in Opened : family'[i] = family[i] /\ family[i] # opened + 1
      /\ family'[opened + 1] = opened + 1
  BY <1>1 DEF SessionsIInv, SessionsTypeOK, Opened, Ids
<1>5. successor[opened + 1] = 0
  BY <1>1 DEF SessionsIInv, Ids
<1>6. OneLivePerFamily'
  BY <1>1, <1>3, <1>4, <1>5 DEF SessionsIInv, OneLivePerFamily, Live, Opened
<1>7. \A i \in Opened' : family'[i] <= opened'
  <2>1. ASSUME NEW i \in Opened PROVE family'[i] <= opened'
    <3>1. family[i] \in Int /\ family[i] <= opened /\ opened \in Int
      BY <1>1, <2>1, SessionsAssumption DEF SessionsIInv, SessionsTypeOK, Opened, Ids
    <3> QED
      BY <1>1, <1>4, <2>1, <3>1
  <2> QED
    BY <1>1, <1>3, <1>4, <2>1
<1>8. \A i \in Ids : successor'[i] # 0 => i <= opened' /\ successor'[i] <= opened'
  <2>1. \A i \in Ids : successor[i] \in Int /\ i \in Int
    BY SessionsAssumption DEF SessionsIInv, SessionsTypeOK, Ids
  <2> QED
    BY <1>1, <2>1 DEF SessionsIInv
<1> QED
  BY <1>1, <1>2, <1>6, <1>7, <1>8 DEF SessionsIInv

LEMMA RefreshKeeps ==
    ASSUME SessionsIInv, NEW i \in Ids, Refresh(i)
    PROVE  SessionsIInv'
<1>1. /\ opened \in 0 .. MaxSessions /\ opened + 1 \in Ids
      /\ opened' = opened + 1 /\ opened' \in 0 .. MaxSessions
      /\ i \in Opened /\ i # opened + 1 /\ revoked[i] = "none"
      /\ family' = [family EXCEPT ![opened + 1] = family[i]]
      /\ revoked' = [revoked EXCEPT ![i] = "rotated"]
      /\ successor' = [successor EXCEPT ![i] = opened + 1]
      /\ UNCHANGED revoking
  BY SessionsAssumption DEF SessionsIInv, SessionsTypeOK, Refresh, MayRefresh, Ids, Opened
<1>2. SessionsTypeOK'
  BY <1>1 DEF SessionsIInv, SessionsTypeOK, Ids, Reasons
<1>3. \A j \in Opened' : j = opened + 1 \/ j \in Opened
  BY <1>1 DEF Opened
<1>4. /\ \A j \in Opened : family'[j] = family[j] /\ j <= opened
      /\ family'[opened + 1] = family[i]
      /\ Opened \subseteq Ids
  <2>1. Opened \subseteq Ids /\ \A j \in Opened : j <= opened /\ j # opened + 1
    BY <1>1, SessionsAssumption DEF Opened, Ids
  <2>2. family \in [Ids -> 0 .. MaxSessions]
    BY DEF SessionsIInv, SessionsTypeOK
  <2> QED
    BY <1>1, <2>1, <2>2
<1>5. i \in Live /\ Live' \subseteq (Live \ {i}) \cup {opened + 1}
  BY <1>1, <1>3 DEF Live, SessionsIInv, SessionsTypeOK, Opened, Ids
<1>6. \A j \in Live \ {i} : family[j] # family[i]
  BY <1>5 DEF SessionsIInv, OneLivePerFamily, Live
<1>7. successor[opened + 1] = 0
  BY <1>1 DEF SessionsIInv
<1>8. \A j, k \in Opened' :
        /\ j \in Live' /\ k \in Live' /\ family'[j] = family'[k] => j = k
        /\ j \in Live' /\ family'[k] = family'[j] => k <= j
  BY <1>1, <1>3, <1>4, <1>5, <1>6 DEF SessionsIInv, OneLivePerFamily, Live, Opened
<1>9. /\ \A j \in Opened' : j # i => successor'[j] = successor[j]
      /\ successor'[i] = opened + 1
      /\ \A j \in Opened' : successor[j] # opened + 1
  BY <1>1, <1>3, <1>4, <1>7 DEF SessionsIInv, SessionsTypeOK
<1>10. \A j, k \in Opened' :
        /\ successor'[j] # 0 => j \notin Live'
        /\ successor'[j] # 0 /\ successor'[j] = successor'[k] => j = k
  BY <1>1, <1>3, <1>5, <1>7, <1>9 DEF SessionsIInv, OneLivePerFamily
<1>11. OneLivePerFamily'
  BY <1>8, <1>10 DEF OneLivePerFamily
<1>12. \A j \in Opened' : family'[j] <= opened'
  BY <1>1, <1>3, <1>4 DEF SessionsIInv, SessionsTypeOK
<1>13. \A j \in Ids : successor'[j] # 0 => j <= opened' /\ successor'[j] <= opened'
  BY <1>1 DEF SessionsIInv, SessionsTypeOK, Opened, Ids
<1> QED
  BY <1>1, <1>2, <1>11, <1>12, <1>13 DEF SessionsIInv

\* Reading the sessions to revoke, and writing them.
LEMMA RevokingKeeps ==
    ASSUME SessionsIInv, NEW r \in Revokers,
           \/ Revoke(r)
           \/ \E i \in Ids :
                DetectReuse(r, i) \/ LogOut(r, i) \/ RevokeOne(r, i) \/ RevokeOthers(r, i)
    PROVE  SessionsIInv'
<1>0. Opened \subseteq Ids
  BY SessionsAssumption DEF SessionsIInv, SessionsTypeOK, Opened, Ids
<1>1. CASE \E why \in Reasons, targets \in SUBSET Ids : Intend(r, why, targets)
  <2>1. PICK why \in Reasons, targets \in SUBSET Ids : Intend(r, why, targets)
    BY <1>1
  <2>2. UNCHANGED <<opened, family, successor, revoked>>
    BY <2>1 DEF Intend
  <2>3. SessionsTypeOK' /\ revoking'[r].why # "none"
        /\ \A q \in Revokers \ {r} : revoking'[q] = revoking[q]
    BY <2>1 DEF Intend, SessionsIInv, SessionsTypeOK, Reasons
  <2> QED
    BY <2>2, <2>3 DEF SessionsIInv, OneLivePerFamily, Opened, Live
<1>2. CASE Revoke(r)
  <2>1. revoking[r].why \in Reasons /\ revoking[r].why # "none"
    BY <1>2 DEF Revoke, SessionsIInv, SessionsTypeOK
  <2>2. SessionsTypeOK'
    BY <1>2, <2>1 DEF Revoke, SessionsIInv, SessionsTypeOK, Idle
  <2>3. Opened' = Opened /\ Live' \subseteq Live
    BY <1>0, <1>2, <2>1 DEF Revoke, Live, Opened, SessionsIInv, SessionsTypeOK
  <2>4. OneLivePerFamily'
    BY <1>2, <2>3 DEF Revoke, OneLivePerFamily, SessionsIInv
  <2> QED
    BY <1>2, <2>2, <2>3, <2>4 DEF Revoke, SessionsIInv, SessionsTypeOK
<1>3. \A i \in Ids :
        DetectReuse(r, i) \/ LogOut(r, i) \/ RevokeOne(r, i) \/ RevokeOthers(r, i) =>
            \E why \in Reasons, targets \in SUBSET Ids : Intend(r, why, targets)
  <2>1. /\ "reuse_detected" \in Reasons /\ "logout" \in Reasons
        /\ "manual_revoke" \in Reasons /\ "logout_other_sessions" \in Reasons
    BY DEF Reasons
  <2>2. ASSUME NEW i \in Ids
        PROVE  /\ {j \in Live : family[j] = family[i]} \in SUBSET Ids
               /\ {i} \in SUBSET Ids /\ Live \ {i} \in SUBSET Ids
    BY <1>0 DEF Live
  <2> QED
    BY <2>1, <2>2, Zenon DEF DetectReuse, LogOut, RevokeOne, RevokeOthers
<1> QED
  BY <1>1, <1>2, <1>3

LEMMA SessionsIInvStep ==
    ASSUME SessionsIInv, OpenSession \/ SessionsNext \/ UNCHANGED sessionVars
    PROVE  SessionsIInv'
<1>1. CASE UNCHANGED sessionVars
  BY <1>1 DEF sessionVars, SessionsIInv, SessionsTypeOK, OneLivePerFamily, Opened, Live
<1>2. CASE SessionsNext
  BY <1>2, RefreshKeeps, RevokingKeeps, Zenon DEF SessionsNext
<1> QED
  BY <1>1, <1>2, OpenSessionKeeps

-----------------------------------------------------------------------------
(* Signing in.                                                             *)

\* The counter of the window covers what was sent in it, so that a slot given
\* back is the slot of a code whose sending raised.  A reservation that is still
\* to be settled is of this window.
SlotsCounted ==
    /\ \A n \in Codes : sentIn[n] <= window
    /\ \A n \in reserved : code[n] = "ADDED" => sentIn[n] = window
    /\ Cardinality(SentInWindow(window)) <= count
    /\ CodesWithinLimit

SignInIInv == SignInTypeOK /\ SessionsIInv /\ SlotsCounted

LEMMA SentCounted ==
    ASSUME NEW w
    PROVE  IsFiniteSet(SentInWindow(w)) /\ Cardinality(SentInWindow(w)) \in Nat
<1>1. SentInWindow(w) \in SUBSET (1 .. MaxCodes)
  BY DEF SentInWindow, Codes
<1> QED
  BY <1>1, SignInAssumption, CountableUpTo, FS_CardinalityType

LEMMA SignInIInvInit == SignInInit => SignInIInv
<1> SUFFICES ASSUME SignInInit PROVE SignInIInv
  OBVIOUS
<1>1. SessionsIInv /\ SessionsTypeOK
  BY SessionsIInvInit DEF SignInInit, SessionsIInv
<1>2. /\ code = [n \in Codes |-> "NONE"] /\ attempts = [n \in Codes |-> 0]
      /\ window = 1 /\ count = 0 /\ reserved = {}
      /\ sentIn = [n \in Codes |-> 0]
  BY DEF SignInInit, CodesInit
<1>3. SignInTypeOK
  BY <1>1, <1>2, SignInAssumption DEF SignInTypeOK, CodeStatus
<1>4. \A w \in 1 .. window : SentInWindow(w) = {}
  BY <1>2 DEF SentInWindow
<1>5. \A w \in 1 .. window : Cardinality(SentInWindow(w)) = 0
  BY <1>4, FS_EmptySet
<1>6. CodesWithinLimit
  BY <1>5, SignInAssumption DEF CodesWithinLimit
<1>7. SlotsCounted
  BY <1>2, <1>5, <1>6 DEF SlotsCounted
<1> QED
  BY <1>1, <1>3, <1>7 DEF SignInIInv

\* The slots of a window from which code n may be gone, while the rest stays.
LEMMA SlotsStay ==
    ASSUME SignInIInv, UNCHANGED window, count' \in 0 .. RequestLimit,
           reserved' \subseteq reserved,
           \A n \in Codes : sentIn'[n] \in {sentIn[n], 0},
           \A n \in Codes : code[n] = "UNSENT" => code'[n] = "UNSENT",
           \A n \in reserved' : code'[n] = "ADDED" =>
                code[n] = "ADDED" /\ sentIn'[n] = sentIn[n],
           count' = count \/ \E n \in Codes :
                sentIn[n] = window /\ code[n] # "UNSENT" /\ code'[n] = "UNSENT"
                /\ count' = count - 1
    PROVE  SlotsCounted'
<1>0. /\ count \in Nat /\ RequestLimit \in Nat /\ window \in Nat \ {0}
      /\ \A n \in Codes : sentIn[n] \in Nat
  BY SignInAssumption DEF SignInIInv, SignInTypeOK
<1>1. \A w \in 1 .. window : SentInWindow(w)' \subseteq SentInWindow(w)
  BY <1>0 DEF SentInWindow
<1>2. \A w \in 1 .. window : Cardinality(SentInWindow(w)') <= Cardinality(SentInWindow(w))
  BY <1>1, SentCounted, FS_Subset
<1>3. CodesWithinLimit'
  <2>1. ASSUME NEW w \in 1 .. window PROVE Cardinality(SentInWindow(w)') <= RequestLimit
    <3>1. Cardinality(SentInWindow(w)) <= RequestLimit
      BY DEF SignInIInv, SlotsCounted, CodesWithinLimit
    <3>2. Cardinality(SentInWindow(w)') \in Nat
      BY <1>1, SentCounted, FS_Subset, FS_CardinalityType
    <3> QED
      BY <1>0, <1>2, <3>1, <3>2, SentCounted
  <2> QED
    BY <2>1 DEF CodesWithinLimit
<1>4. Cardinality(SentInWindow(window)') <= count'
  <2>0. /\ Cardinality(SentInWindow(window)) <= count /\ window \in 1 .. window
        /\ Cardinality(SentInWindow(window)) \in Nat
        /\ Cardinality(SentInWindow(window)') \in Nat
    BY <1>0, <1>1, SentCounted, FS_Subset, FS_CardinalityType DEF SignInIInv, SlotsCounted
  <2>1. CASE count' = count
    BY <1>0, <1>2, <2>0, <2>1
  <2>2. ASSUME NEW n \in Codes, sentIn[n] = window, code[n] # "UNSENT",
               code'[n] = "UNSENT", count' = count - 1
        PROVE  Cardinality(SentInWindow(window)') <= count'
    <3>1. /\ SentInWindow(window)' \subseteq SentInWindow(window) \ {n}
          /\ n \in SentInWindow(window)
      BY <1>0, <2>2 DEF SentInWindow
    <3>2. /\ IsFiniteSet(SentInWindow(window) \ {n})
          /\ Cardinality(SentInWindow(window) \ {n}) = Cardinality(SentInWindow(window)) - 1
      BY <3>1, SentCounted, FS_RemoveElement
    <3>3. Cardinality(SentInWindow(window)') <= Cardinality(SentInWindow(window) \ {n})
      BY <3>1, <3>2, FS_Subset
    <3> QED
      BY <1>0, <2>0, <2>2, <3>2, <3>3
  <2> QED
    BY <2>1, <2>2
<1>5. \A n \in Codes : sentIn'[n] <= window'
  BY <1>0 DEF SignInIInv, SlotsCounted
<1>6. \A n \in reserved' : code'[n] = "ADDED" => sentIn'[n] = window'
  BY DEF SignInIInv, SlotsCounted
<1>7. (Cardinality(SentInWindow(window)) <= count)'
  BY <1>4 DEF SentInWindow
<1> QED
  BY <1>3, <1>5, <1>6, <1>7 DEF SlotsCounted

LEMMA RequestCodeKeeps ==
    ASSUME SignInIInv, NEW n \in Codes, RequestCode(n)
    PROVE  SlotsCounted'
<1>0. /\ count \in Nat /\ count < RequestLimit /\ count' = count + 1
      /\ RequestLimit \in Nat /\ window \in Nat \ {0} /\ UNCHANGED window
      /\ sentIn' = [sentIn EXCEPT ![n] = window]
      /\ code' = [code EXCEPT ![n] = "ADDED"] /\ reserved' = reserved \cup {n}
      /\ sentIn \in [Codes -> Nat] /\ code \in [Codes -> CodeStatus]
      /\ reserved \subseteq Codes
  BY SignInAssumption DEF SignInIInv, SignInTypeOK, RequestCode, ReserveSlot
<1>1. ASSUME NEW w \in 1 .. window, w # window
      PROVE  Cardinality(SentInWindow(w)') <= RequestLimit
  <2>1. SentInWindow(w)' \subseteq SentInWindow(w)
    BY <1>0, <1>1 DEF SentInWindow
  <2>2. Cardinality(SentInWindow(w)') <= Cardinality(SentInWindow(w))
    BY <2>1, SentCounted, FS_Subset
  <2>3. Cardinality(SentInWindow(w)) <= RequestLimit
    BY <1>1 DEF SignInIInv, SlotsCounted, CodesWithinLimit
  <2>4. Cardinality(SentInWindow(w)') \in Nat
    BY <2>1, SentCounted, FS_Subset, FS_CardinalityType
  <2> QED
    BY <1>0, <2>2, <2>3, <2>4, SentCounted
<1>2. Cardinality(SentInWindow(window)') <= count + 1
  <2>1. SentInWindow(window)' = SentInWindow(window) \cup {n}
    BY <1>0 DEF SentInWindow
  <2>2. Cardinality(SentInWindow(window)') <= Cardinality(SentInWindow(window)) + 1
    <3>1. Cardinality(SentInWindow(window) \cup {n}) \in
            {Cardinality(SentInWindow(window)), Cardinality(SentInWindow(window)) + 1}
      BY SentCounted, FS_AddElement
    <3>2. Cardinality(SentInWindow(window)) \in Nat
      BY SentCounted
    <3> QED
      BY <2>1, <3>1, <3>2
  <2>3. Cardinality(SentInWindow(window)) <= count
    BY DEF SignInIInv, SlotsCounted
  <2>4. Cardinality(SentInWindow(window)') \in Nat
    BY <2>1, SentCounted, FS_AddElement, FS_CardinalityType
  <2> QED
    BY <1>0, <2>2, <2>3, <2>4, SentCounted
<1>3. Cardinality(SentInWindow(window)') <= RequestLimit
  <2>1. Cardinality(SentInWindow(window)') \in Int
    <3>1. SentInWindow(window)' = SentInWindow(window) \cup {n}
      BY <1>0 DEF SentInWindow
    <3> QED
      BY <3>1, SentCounted, FS_AddElement, FS_CardinalityType
  <2> QED
    BY <1>0, <1>2, <2>1
<1>4. CodesWithinLimit'
  BY <1>0, <1>1, <1>3 DEF CodesWithinLimit
<1>5. (Cardinality(SentInWindow(window)) <= count)'
  BY <1>0, <1>2 DEF SentInWindow
<1>6. /\ \A m \in Codes : sentIn'[m] <= window'
      /\ \A m \in reserved' : code'[m] = "ADDED" => sentIn'[m] = window'
  BY <1>0 DEF SignInIInv, SlotsCounted
<1> QED
  BY <1>4, <1>5, <1>6 DEF SlotsCounted

LEMMA WindowEndsKeeps ==
    ASSUME SignInIInv, WindowEnds
    PROVE  SlotsCounted'
<1>0. /\ window \in Nat \ {0} /\ window' = window + 1 /\ count' = 0 /\ reserved' = {}
      /\ UNCHANGED <<sentIn, code>> /\ \A n \in Codes : sentIn[n] \in Nat /\ sentIn[n] <= window
      /\ RequestLimit \in Nat
  BY SignInAssumption DEF SignInIInv, SignInTypeOK, WindowEnds, SlotsCounted
<1>1. \A w \in 1 .. window : SentInWindow(w)' = SentInWindow(w)
  BY <1>0 DEF SentInWindow
<1>2. Cardinality({n \in Codes : sentIn'[n] = window' /\ code'[n] # "UNSENT"}) = 0
  <2>1. {n \in Codes : sentIn'[n] = window' /\ code'[n] # "UNSENT"} = {}
    BY <1>0
  <2> QED
    BY <2>1, FS_EmptySet
<1>3. CodesWithinLimit'
  <2>1. \A w \in 1 .. window' : w \in 1 .. window \/ w = window'
    BY <1>0
  <2>2. ASSUME NEW w \in 1 .. window
        PROVE  Cardinality({n \in Codes : sentIn'[n] = w /\ code'[n] # "UNSENT"})
                 <= RequestLimit
    <3>1. Cardinality(SentInWindow(w)) <= RequestLimit
      BY DEF SignInIInv, SlotsCounted, CodesWithinLimit
    <3> QED
      BY <1>1, <3>1 DEF SentInWindow
  <2>3. \A w \in 1 .. window' :
          Cardinality({n \in Codes : sentIn'[n] = w /\ code'[n] # "UNSENT"}) <= RequestLimit
    BY <1>0, <1>2, <2>1, <2>2
  <2> QED
    BY <2>3 DEF CodesWithinLimit, SentInWindow
<1>4. (Cardinality(SentInWindow(window)) <= count)'
  BY <1>0, <1>2 DEF SentInWindow
<1> QED
  BY <1>0, <1>3, <1>4 DEF SlotsCounted

\* Every step of a code but its request and the end of the window.
CodeStep(n) ==
    \/ SendCode(n) \/ SendFails(n) \/ CommitCode(n) \/ RequestDies(n)
    \/ TryWrong(n) \/ VerifyCode(n)

LEMMA CodeStepKeeps ==
    ASSUME SignInIInv, NEW n \in Codes, CodeStep(n)
    PROVE  /\ SlotsCounted'
           /\ code' \in [Codes -> CodeStatus] /\ attempts' \in [Codes -> 0 .. MaxOtpAttempts]
           /\ count' \in 0 .. RequestLimit /\ reserved' \subseteq Codes
           /\ sentIn' \in [Codes -> 0 .. MaxWindows] /\ UNCHANGED window
<1>0. /\ code \in [Codes -> CodeStatus] /\ attempts \in [Codes -> 0 .. MaxOtpAttempts]
      /\ window \in 1 .. MaxWindows /\ window \in Nat \ {0}
      /\ count \in 0 .. RequestLimit /\ reserved \subseteq Codes
      /\ sentIn \in [Codes -> 0 .. MaxWindows] /\ UNCHANGED window
      /\ RequestLimit \in Nat /\ MaxOtpAttempts \in Nat /\ MaxWindows \in Nat \ {0}
  BY SignInAssumption
  DEF SignInIInv, SignInTypeOK, CodeStep, SendCode, SendFails, CommitCode, RequestDies,
      TryWrong, VerifyCode
<1>1. /\ code' \in [Codes -> CodeStatus]
      /\ attempts' \in [Codes -> 0 .. MaxOtpAttempts]
  BY <1>0 DEF CodeStep, SendCode, SendFails, CommitCode, RequestDies, TryWrong,
              VerifyCode, MayTry, CodeStatus
<1>2. /\ reserved' \subseteq reserved
      /\ \A m \in Codes : sentIn'[m] \in {sentIn[m], 0}
      /\ sentIn' \in [Codes -> 0 .. MaxWindows]
      /\ \A m \in Codes : code[m] = "UNSENT" => code'[m] = "UNSENT"
  BY <1>0 DEF CodeStep, SendCode, SendFails, CommitCode, RequestDies, TryWrong,
              VerifyCode, ReleaseCode, CommitSlot, MayHaveGoneOut, MayTry, Latest, Stored
<1>3. \A m \in reserved' : code'[m] = "ADDED" =>
        code[m] = "ADDED" /\ sentIn'[m] = sentIn[m]
  <2>1. \A m \in Codes : m # n => code'[m] = code[m] /\ sentIn'[m] = sentIn[m]
    BY <1>0 DEF CodeStep, SendCode, SendFails, CommitCode, RequestDies, TryWrong,
                VerifyCode, MayHaveGoneOut
  <2>2. code'[n] = "ADDED" => code[n] = "ADDED" /\ sentIn'[n] = sentIn[n]
    BY <1>0 DEF CodeStep, SendCode, SendFails, CommitCode, RequestDies, TryWrong,
                VerifyCode
  <2> QED
    BY <1>0, <1>2, <2>1, <2>2
<1>4. count' = count \/ \E m \in Codes :
        sentIn[m] = window /\ code[m] # "UNSENT" /\ code'[m] = "UNSENT"
        /\ count' = count - 1
  <2>1. CASE SendFails(n) /\ ReleaseCode(n) /\ n \in reserved
    <3>1. /\ sentIn[n] = window /\ code[n] # "UNSENT" /\ code'[n] = "UNSENT"
          /\ count' = count - 1
      BY <1>0, <2>1 DEF SendFails, ReleaseCode, SignInIInv, SlotsCounted
    <3> QED
      BY <3>1
  <2>2. CASE ~ (SendFails(n) /\ ReleaseCode(n) /\ n \in reserved)
    BY <2>2 DEF CodeStep, SendCode, SendFails, CommitCode, RequestDies, TryWrong,
                VerifyCode, ReleaseCode, CommitSlot
  <2> QED
    BY <2>1, <2>2
<1>5. count' \in 0 .. RequestLimit
  <2>1. ASSUME NEW m \in Codes, sentIn[m] = window, code[m] # "UNSENT"
        PROVE  count >= 1
    <3>1. m \in SentInWindow(window)
      BY <2>1 DEF SentInWindow
    <3>2. Cardinality(SentInWindow(window)) # 0
      BY <3>1, SentCounted, FS_EmptySet
    <3>3. Cardinality(SentInWindow(window)) <= count
      BY DEF SignInIInv, SlotsCounted
    <3> QED
      BY <1>0, <3>2, <3>3, SentCounted
  <2> QED
    BY <1>0, <1>4, <2>1
<1>6. SlotsCounted'
  BY <1>0, <1>2, <1>3, <1>4, <1>5, SlotsStay
<1> QED
  BY <1>0, <1>1, <1>2, <1>5, <1>6

LEMMA SignInIInvStep ==
    ASSUME SignInIInv, [SignInNext]_signInVars
    PROVE  SignInIInv'
<1>1. SessionsIInv' /\ SessionsTypeOK'
  <2>1. OpenSession \/ SessionsNext \/ UNCHANGED sessionVars
    BY Zenon DEF SignInNext, RequestCode, SendCode, SendFails, CommitCode, RequestDies,
                 TryWrong, VerifyCode, WindowEnds, signInVars, sessionVars
  <2> QED
    BY <2>1, SessionsIInvStep DEF SignInIInv, SessionsIInv
<1>2. CASE \E n \in Codes : RequestCode(n)
  <2>1. PICK n \in Codes : RequestCode(n)
    BY <1>2
  <2>2. SignInTypeOK'
    BY <1>1, <2>1, SignInAssumption
    DEF SignInIInv, SignInTypeOK, RequestCode, ReserveSlot, CodeStatus
  <2> QED
    BY <1>1, <2>1, <2>2, RequestCodeKeeps DEF SignInIInv
<1>3. CASE \E n \in Codes : CodeStep(n)
  <2>1. PICK n \in Codes : CodeStep(n)
    BY <1>3
  <2> QED
    BY <1>1, <2>1, CodeStepKeeps DEF SignInIInv, SignInTypeOK
<1>4. CASE WindowEnds
  <2>1. SignInTypeOK'
    BY <1>1, <1>4, SignInAssumption DEF SignInIInv, SignInTypeOK, WindowEnds
  <2> QED
    BY <1>1, <1>4, <2>1, WindowEndsKeeps DEF SignInIInv
<1>5. CASE UNCHANGED codeVars
  BY <1>1, <1>5 DEF codeVars, SignInIInv, SignInTypeOK, SlotsCounted, SentInWindow,
                    CodesWithinLimit
<1> QED
  BY <1>2, <1>3, <1>4, <1>5, Zenon DEF SignInNext, CodeStep, signInVars

LEMMA SignInInvariant == SignInSpec => []SignInIInv
<1>1. SignInIInv /\ [SignInNext]_signInVars => SignInIInv'
  BY SignInIInvStep
<1> QED
  BY <1>1, SignInIInvInit, PTL DEF SignInSpec

\* Sessions and codes keep their types.
THEOREM SignInTypes == SignInSpec => []SignInTypeOK
<1>1. SignInIInv => SignInTypeOK
  BY DEF SignInIInv
<1> QED
  BY <1>1, SignInInvariant, PTL

\* A family is one chain of sessions, of which only the last may work:
\* services/session.py refresh_session.
THEOREM OneLiveSession == SignInSpec => []OneLivePerFamily
<1>1. SignInIInv => OneLivePerFamily
  BY DEF SignInIInv, SessionsIInv
<1> QED
  BY <1>1, SignInInvariant, PTL

\* No window of the rate limit has more codes sent than it allows, but for those
\* that arrived although their sending raised: services/otp.py
\* _reserve_rate_limit, _release_rate_limit, create_otp.
THEOREM CodesLimited == SignInSpec => []CodesWithinLimit
<1>1. SignInIInv => CodesWithinLimit
  BY DEF SignInIInv, SlotsCounted
<1> QED
  BY <1>1, SignInInvariant, PTL

-----------------------------------------------------------------------------
(* Bank accounts.                                                          *)

\* OneProvenAccount, without the counting; and what a row on its way to
\* VERIFIED rests on: the provider matched it, and it is still in flight.
ProvenIInv ==
    /\ BankTypeOK
    /\ \A c \in Customers :
        /\ \A q, r \in CurrentOf(c) : q = r
        /\ \A q, r \in InFlightOf(c) : q = r
        /\ \A r \in CurrentOf(c) : answer[r] = "MATCH" \/ r \in approved
    /\ \A r \in clearing :
        answer[r] = "MATCH" /\ row[r].status \in {"INITIATED", "PENDING"}

LEMMA ProvenIInvInit == BankInit => ProvenIInv
BY DEF BankInit, ProvenIInv, BankTypeOK, BankStatus, Answers, CurrentOf, InFlightOf,
       InFlight, Of

\* What the provider's word makes of a row, unless it is to be cleared.
LEMMA AnswerMoves ==
    ASSUME NEW r, NEW account, NEW a \in Answers \ {"UNKNOWN"}
    PROVE  /\ AnswerStatus(r, a, account) \in
                {"PENDING", "FAILED", "MANUAL_REVIEW", row[r].status}
           /\ a = "MATCH" /\ ~ HeldByOther(r[1], account) =>
                AnswerStatus(r, a, account) = row[r].status
<1>1. CASE a = "PENDING"
  BY <1>1, Zenon DEF AnswerStatus
<1>2. CASE a = "FAILED"
  BY <1>2, Zenon DEF AnswerStatus
<1>3. CASE a = "UNCLEAR"
  BY <1>3, Zenon DEF AnswerStatus
<1>4. CASE a = "MATCH" /\ HeldByOther(r[1], account)
  BY <1>4, Zenon DEF AnswerStatus
<1>5. CASE a = "MATCH" /\ ~ HeldByOther(r[1], account)
  BY <1>5, Zenon DEF AnswerStatus
<1> QED
  BY <1>1, <1>2, <1>3, <1>4, <1>5 DEF Answers

\* A row that isn't verified moves to a status that isn't VERIFIED.  If it was
\* not in flight, its customer has nothing in flight.
LEMMA UnprovenMove ==
    ASSUME ProvenIInv, NEW r \in Rows, r \notin clearing, row[r].status # "VERIFIED",
           NEW s \in BankStatus \ {"VERIFIED"},
           NEW account \in BankAccounts \cup {"none"},
           row' = [row EXCEPT ![r] = [status |-> s, account |-> account]],
           row[r].status \in InFlight \/ InFlightOf(r[1]) = {},
           NEW a \in Answers, answer' = [answer EXCEPT ![r] = a],
           pennyRef' \subseteq Rows, UNCHANGED <<superseded, approved>>,
           \/ UNCHANGED clearing
           \/ /\ clearing' = clearing \cup {r}
              /\ a = "MATCH" /\ s \in {"INITIATED", "PENDING"}
    PROVE  ProvenIInv'
<1>0. /\ row \in [Rows -> [status : BankStatus, account : BankAccounts \cup {"none"}]]
      /\ answer \in [Rows -> Answers] /\ clearing \subseteq Rows
      /\ r[1] \in Customers
  BY DEF ProvenIInv, BankTypeOK, Rows
<1>1. BankTypeOK'
  BY <1>0 DEF ProvenIInv, BankTypeOK
<1>2. /\ \A q \in Rows : q # r => row'[q] = row[q] /\ answer'[q] = answer[q]
      /\ row'[r].status = s /\ answer'[r] = a
  BY <1>0
<1>3. ASSUME NEW c \in Customers
      PROVE  /\ CurrentOf(c)' = CurrentOf(c) /\ r \notin CurrentOf(c)
             /\ c # r[1] => InFlightOf(c)' = InFlightOf(c)
             /\ InFlightOf(c)' \subseteq InFlightOf(c) \cup {r}
  BY <1>0, <1>2 DEF CurrentOf, InFlightOf, Of
<1>4. ASSUME NEW c \in Customers PROVE \A q, t \in InFlightOf(c)' : q = t
  <2>1. CASE c # r[1]
    BY <1>3, <2>1 DEF ProvenIInv
  <2>2. CASE c = r[1] /\ row[r].status \in InFlight
    <3>1. r \in InFlightOf(c)
      BY <2>2 DEF InFlightOf, Of
    <3> QED
      BY <1>3, <3>1 DEF ProvenIInv
  <2>3. CASE c = r[1] /\ InFlightOf(r[1]) = {}
    BY <1>3, <2>3
  <2> QED
    BY <2>1, <2>2, <2>3
<1>5. \A c \in Customers :
        /\ \A q, t \in CurrentOf(c)' : q = t
        /\ \A q \in CurrentOf(c)' : answer'[q] = "MATCH" \/ q \in approved'
  BY <1>2, <1>3 DEF ProvenIInv, CurrentOf, Of
<1>6. \A q \in clearing' :
        answer'[q] = "MATCH" /\ row'[q].status \in {"INITIATED", "PENDING"}
  BY <1>0, <1>2 DEF ProvenIInv
<1> QED
  BY <1>1, <1>4, <1>5, <1>6 DEF ProvenIInv

\* A row becomes its customer's only current one.
LEMMA ProvenMove ==
    ASSUME ProvenIInv, NEW r \in Rows, row[r].status \in InFlight, MarkVerified(r),
           UNCHANGED <<pennyRef, answer>>,
           approved \subseteq approved', approved' \subseteq Rows,
           clearing' \subseteq clearing,
           r \notin clearing', answer[r] = "MATCH" \/ r \in approved'
    PROVE  ProvenIInv'
<1>0. /\ row \in [Rows -> [status : BankStatus, account : BankAccounts \cup {"none"}]]
      /\ clearing \subseteq Rows /\ r[1] \in Customers
      /\ row' = [row EXCEPT ![r].status = "VERIFIED"]
      /\ superseded' = superseded \cup CurrentOf(r[1])
  BY DEF ProvenIInv, BankTypeOK, Rows, MarkVerified, MoveRow
<1>1. /\ row' \in [Rows -> [status : BankStatus, account : BankAccounts \cup {"none"}]]
      /\ \A q \in Rows : q # r => row'[q] = row[q]
      /\ row'[r].status = "VERIFIED"
  BY <1>0 DEF BankStatus
<1>2. BankTypeOK'
  BY <1>0, <1>1 DEF ProvenIInv, BankTypeOK, CurrentOf, Of
<1>3. ASSUME NEW c \in Customers
      PROVE  /\ InFlightOf(c)' \subseteq InFlightOf(c)
             /\ c # r[1] => CurrentOf(c)' \subseteq CurrentOf(c)
             /\ c = r[1] => CurrentOf(c)' \subseteq {r}
  BY <1>0, <1>1 DEF InFlightOf, CurrentOf, Of, InFlight
<1>4. \A c \in Customers :
        /\ \A q, t \in CurrentOf(c)' : q = t
        /\ \A q, t \in InFlightOf(c)' : q = t
        /\ \A q \in CurrentOf(c)' : answer'[q] = "MATCH" \/ q \in approved'
  BY <1>3 DEF ProvenIInv
<1>5. \A q \in clearing' :
        answer'[q] = "MATCH" /\ row'[q].status \in {"INITIATED", "PENDING"}
  BY <1>0, <1>1 DEF ProvenIInv
<1> QED
  BY <1>2, <1>4, <1>5 DEF ProvenIInv

\* Asking the provider, about a new row or one that is in flight.
LEMMA StartMoves ==
    ASSUME ProvenIInv, NEW r \in Rows, r \notin clearing,
           row[r].status \in {"NONE", "INITIATED"},
           row[r].status = "INITIATED" \/ InFlightOf(r[1]) = {},
           NEW account \in BankAccounts \cup {"none"}, Start(r, account),
           UNCHANGED <<superseded, approved>>
    PROVE  ProvenIInv'
<1>0. /\ answer[r] \in Answers /\ answer \in [Rows -> Answers]
      /\ pennyRef \subseteq Rows
      /\ row[r].status = "INITIATED" => row[r].status \in InFlight
      /\ MayAnswer(r) \subseteq Answers \ {"UNKNOWN"}
      /\ row \in [Rows -> [status : BankStatus, account : BankAccounts \cup {"none"}]]
  BY DEF ProvenIInv, BankTypeOK, InFlight, MayAnswer, Settled, Answers
<1>1. CASE \E a \in MayAnswer(r) :
        /\ row' = [row EXCEPT ![r] =
                [status |-> IF AnswerStatus(r, a, account) = "NONE" THEN "INITIATED"
                            ELSE AnswerStatus(r, a, account),
                 account |-> account]]
        /\ ApplyAnswer(r, a)
  <2>1. PICK a \in MayAnswer(r) :
        /\ row' = [row EXCEPT ![r] =
                [status |-> IF AnswerStatus(r, a, account) = "NONE" THEN "INITIATED"
                            ELSE AnswerStatus(r, a, account),
                 account |-> account]]
        /\ ApplyAnswer(r, a)
    BY <1>1
  <2> DEFINE s == IF AnswerStatus(r, a, account) = "NONE" THEN "INITIATED"
                  ELSE AnswerStatus(r, a, account)
  <2>2. AnswerStatus(r, a, account) \in {"PENDING", "FAILED", "MANUAL_REVIEW", row[r].status}
    BY <1>0, <2>1, AnswerMoves
  <2>3. s \in {"PENDING", "FAILED", "MANUAL_REVIEW", "INITIATED"}
    BY <2>2
  <2>4. row'[r].account = account
    BY <1>0, <2>1
  <2>5. /\ answer' = [answer EXCEPT ![r] = a] /\ pennyRef' = pennyRef \cup {r}
        /\ clearing' = IF a = "MATCH" /\ ~ HeldByOther(r[1], account)
                       THEN clearing \cup {r} ELSE clearing
    BY <2>1, <2>4 DEF ApplyAnswer
  <2>6. a = "MATCH" /\ ~ HeldByOther(r[1], account) => s = "INITIATED"
    BY <1>0, <2>1, AnswerMoves
  <2>7. row' = [row EXCEPT ![r] = [status |-> s, account |-> account]]
    BY <2>1
  <2> HIDE DEF s
  <2> QED
    BY <1>0, <2>1, <2>3, <2>5, <2>6, <2>7, UnprovenMove DEF BankStatus
<1>2. CASE /\ row' = [row EXCEPT ![r] = [status |-> "INITIATED", account |-> account]]
           /\ UNCHANGED <<pennyRef, clearing>>
           /\ \E a \in {answer[r]} \cup MayAnswer(r) : answer' = [answer EXCEPT ![r] = a]
  <2>1. PICK a \in Answers : answer' = [answer EXCEPT ![r] = a]
    BY <1>0, <1>2
  <2> QED
    BY <1>0, <1>2, <2>1, UnprovenMove DEF BankStatus
<1>3. CASE /\ answer[r] = "UNKNOWN"
           /\ row' = [row EXCEPT ![r] = [status |-> "FAILED", account |-> account]]
           /\ UNCHANGED <<pennyRef, clearing, answer>>
  <2>1. answer' = [answer EXCEPT ![r] = answer[r]]
    BY <1>0, <1>3
  <2> QED
    BY <1>0, <1>3, <2>1, UnprovenMove DEF BankStatus
<1> QED
  BY <1>1, <1>2, <1>3 DEF Start

\* Writing the status of a row is writing the row.
LEMMA StatusOfRow ==
    ASSUME ProvenIInv, NEW r \in Rows, NEW s \in BankStatus, MoveRow(r, s)
    PROVE  row' = [row EXCEPT ![r] = [status |-> s, account |-> row[r].account]]
<1>1. /\ row \in [Rows -> [status : BankStatus, account : BankAccounts \cup {"none"}]]
      /\ row' = [row EXCEPT ![r].status = s]
  BY DEF ProvenIInv, BankTypeOK, MoveRow
<1> DEFINE q == [row[r] EXCEPT !.status = s]
<1>2. row' = [row EXCEPT ![r] = q]
  BY <1>1, Zenon
<1>3. q = [status |-> s, account |-> row[r].account]
  <2>1. row[r] \in [status : BankStatus, account : BankAccounts \cup {"none"}]
    BY <1>1
  <2> QED
    BY <2>1
<1> QED
  BY <1>2, <1>3

\* A row that is not being cleared, and whose status alone is written.
LEMMA StatusMoves ==
    ASSUME ProvenIInv, NEW r \in Rows, r \notin clearing, row[r].status \in InFlight,
           NEW s \in BankStatus \ {"VERIFIED"}, MoveRow(r, s),
           UNCHANGED <<pennyRef, superseded, approved, clearing, answer>>
    PROVE  ProvenIInv'
<1>1. /\ row \in [Rows -> [status : BankStatus, account : BankAccounts \cup {"none"}]]
      /\ answer \in [Rows -> Answers] /\ pennyRef \subseteq Rows
  BY DEF ProvenIInv, BankTypeOK
<1>2. /\ row' = [row EXCEPT ![r] = [status |-> s, account |-> row[r].account]]
      /\ row[r].account \in BankAccounts \cup {"none"}
  BY <1>1, StatusOfRow
<1>3. answer' = [answer EXCEPT ![r] = answer[r]] /\ answer[r] \in Answers
  BY <1>1
<1>4. row[r].status # "VERIFIED"
  BY DEF InFlight
<1> QED
  BY <1>1, <1>2, <1>3, <1>4, UnprovenMove

LEMMA SyncMoves ==
    ASSUME ProvenIInv, NEW r \in Rows, SyncVerifications(r)
    PROVE  ProvenIInv'
<1>0. /\ row \in [Rows -> [status : BankStatus, account : BankAccounts \cup {"none"}]]
      /\ answer \in [Rows -> Answers] /\ pennyRef \subseteq Rows
      /\ row[r].status = "PENDING" /\ row[r].status \in InFlight /\ r \notin clearing
      /\ row[r].account \in BankAccounts \cup {"none"}
      /\ UNCHANGED <<superseded, approved>>
  BY DEF ProvenIInv, BankTypeOK, SyncVerifications, InFlight
<1>1. PICK a \in MayAnswer(r) \ {"PENDING"} :
        /\ row' = [row EXCEPT ![r].status = AnswerStatus(r, a, row[r].account)]
        /\ ApplyAnswer(r, a)
  BY DEF SyncVerifications
<1>2. a \in Answers \ {"UNKNOWN"}
  BY <1>0, <1>1 DEF MayAnswer, Settled, Answers
<1> DEFINE s == AnswerStatus(r, a, row[r].account)
<1>3. /\ s \in {"PENDING", "FAILED", "MANUAL_REVIEW"}
      /\ a = "MATCH" /\ ~ HeldByOther(r[1], row[r].account) => s = "PENDING"
  BY <1>0, <1>2, AnswerMoves
<1>4. row' = [row EXCEPT ![r] = [status |-> s, account |-> row[r].account]]
  <2> HIDE DEF s
  <2>1. MoveRow(r, s) /\ s \in BankStatus
    <3>1. MoveRow(r, s)
      BY <1>1, Zenon DEF MoveRow, s
    <3> QED
      BY <1>3, <3>1 DEF BankStatus
  <2> QED
    BY <2>1, StatusOfRow
<1> HIDE DEF s
<1>5. /\ answer' = [answer EXCEPT ![r] = a] /\ pennyRef' = pennyRef \cup {r}
      /\ clearing' = IF a = "MATCH" /\ ~ HeldByOther(r[1], row[r].account)
                     THEN clearing \cup {r} ELSE clearing
  BY <1>0, <1>1, <1>4 DEF ApplyAnswer
<1> QED
  BY <1>0, <1>2, <1>3, <1>4, <1>5, UnprovenMove DEF BankStatus

LEMMA ProvenIInvStep ==
    ASSUME ProvenIInv, [BankNext]_bankVars
    PROVE  ProvenIInv'
<1>1. ASSUME NEW c \in Customers, NEW a \in BankAccounts, RequestNew(c, a)
      PROVE  ProvenIInv'
  <2>1. PICK r \in Of(c) : row[r].status = "NONE" /\ Start(r, a)
    BY <1>1 DEF RequestNew
  <2>2. r \in Rows /\ r[1] = c /\ r \notin clearing
    BY <2>1 DEF Of, ProvenIInv
  <2> QED
    BY <1>1, <2>1, <2>2, StartMoves DEF RequestNew
<1>2. ASSUME NEW r \in Rows, Resume(r) PROVE ProvenIInv'
  <2>1. row[r].account \in BankAccounts \cup {"none"}
    BY DEF ProvenIInv, BankTypeOK
  <2> QED
    BY <1>2, <2>1, StartMoves DEF Resume
<1>3. ASSUME NEW r \in Rows, SyncUnresolved(r) PROVE ProvenIInv'
  BY <1>3, StatusMoves DEF SyncUnresolved, InFlight, BankStatus
<1>4. ASSUME NEW r \in Rows, ResolveFailed(r) PROVE ProvenIInv'
  <2>1. r \notin clearing
    BY <1>4 DEF ResolveFailed, ProvenIInv
  <2> QED
    BY <1>4, <2>1, StatusMoves DEF ResolveFailed, InFlight, BankStatus
<1>5. ASSUME NEW r \in Rows, Clear(r) PROVE ProvenIInv'
  <2>1. /\ answer[r] = "MATCH" /\ row[r].status \in InFlight
        /\ approved \subseteq Rows
    BY <1>5 DEF Clear, ProvenIInv, InFlight, BankTypeOK
  <2> QED
    BY <1>5, <2>1, ProvenMove DEF Clear
<1>6. ASSUME NEW r \in Rows, ResolveVerified(r) PROVE ProvenIInv'
  <2>1. r \notin clearing /\ row[r].status \in InFlight /\ approved \subseteq Rows
    BY <1>6 DEF ResolveVerified, ProvenIInv, InFlight, BankTypeOK
  <2> QED
    BY <1>6, <2>1, ProvenMove DEF ResolveVerified
<1>7. CASE UNCHANGED bankVars
  BY <1>7 DEF bankVars, ProvenIInv, BankTypeOK, CurrentOf, InFlightOf, Of
<1> QED
  BY <1>1, <1>2, <1>3, <1>4, <1>5, <1>6, <1>7, SyncMoves, Zenon DEF BankNext

LEMMA ProvenInvariant == BankSpec => []ProvenIInv
<1>1. ProvenIInv /\ [BankNext]_bankVars => ProvenIInv'
  BY ProvenIInvStep
<1> QED
  BY <1>1, ProvenIInvInit, PTL DEF BankSpec

\* A customer has one current account, proven by the provider or an admin, and
\* one verification in flight: services/bank_verification.py _mark_verified.
THEOREM OneAccount == BankSpec => []OneProvenAccount
<1>1. ProvenIInv => OneProvenAccount
  BY OneCounted DEF ProvenIInv, OneProvenAccount
<1> QED
  BY <1>1, ProvenInvariant, PTL

=============================================================================
