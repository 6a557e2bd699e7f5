----------------------------- MODULE Onboarding -----------------------------
(***************************************************************************)
(* One customer's onboarding: PAN, KYC and identity are each verified with *)
(* an outside provider under a Redis lock, and move the onboarding step.   *)
(*                                                                         *)
(* A request reads the step and the newest record, asks the provider, and  *)
(* commits what follows from what it read; neither row is locked.  The     *)
(* lock has a lease, which may end before its owner is done, and an owner  *)
(* that dies leaves the lock to its lease.                                 *)
(*                                                                         *)
(* The consent a KYC needs may be granted or not at any moment.            *)
(***************************************************************************)
EXTENDS Integers, Sequences, FiniteSets

CONSTANTS
    Requests,       \* requests that may be running at once
    MaxRecords      \* bound: records of one kind

\* A lock that is free holds no request's token.
ASSUME OnboardingAssumption == "free" \notin Requests

Kinds == {"PAN", "KYC", "IDENTITY"}

\* OnboardingStep and ONBOARDING_STEP_ORDER
Steps == <<"PROFILE", "PAN", "KYC", "IDENTITY", "COMPLETED">>
Step == {Steps[n] : n \in DOMAIN Steps}
Position(s) == CHOOSE n \in DOMAIN Steps : Steps[n] = s

\* PENDING is PROCESSING too, and FAILED is MANUAL_REVIEW: nothing tells them
\* apart.
RecordStatus == {"PENDING", "VERIFIED", "FAILED", "RETRY_REQUIRED"}
Blocking == {"PENDING", "VERIFIED"}

\* The lock an operation runs under, or "none".
LockOf == [pan |-> "PAN", kyc |-> "KYC", identity |-> "IDENTITY",
           capture |-> "IDENTITY", refresh |-> "none", step |-> "none"]
Operations == DOMAIN LockOf

VARIABLES
    step,       \* onboarding.current_step
    record,     \* per kind, the statuses of the records created
    lock,       \* per kind, the request whose token is in Redis, or "free"
    work,       \* per request: what it does, and what it read
    overran     \* the lease of a PAN or IDENTITY lock ended before its owner was done

onboardingVars == <<step, record, lock, work, overran>>

IdleRequest == [op |-> "none", on |-> 0, was |-> "none", at |-> "none"]

OnboardingInit ==
    /\ step = "PROFILE"
    /\ record = [k \in Kinds |-> <<>>]
    /\ lock = [k \in Kinds |-> "free"]
    /\ work = [r \in Requests |-> IdleRequest]
    /\ overran = FALSE

\* get_latest_for_user
Newest(k) == IF record[k] = <<>> THEN "none" ELSE record[k][Len(record[k])]

----------------------------------------------------------------------------
\* Reading, and asking the provider

\* Seeded fault: SET without NX.
AcquireOver(r, k) ==
    /\ \A j \in Kinds : lock[j] # r
    /\ lock' = [lock EXCEPT ![k] = r]

\* __aenter__: SET NX with a token of the request's own.
Acquire(r, k) ==
    /\ lock[k] = "free" /\ \A j \in Kinds : lock[j] # r
    /\ lock' = [lock EXCEPT ![k] = r]

Begin(r, w) ==
    /\ work[r] = IdleRequest
    /\ work' = [work EXCEPT ![r] = w]
    /\ UNCHANGED <<step, record, overran>>

\* What will create a record, whatever is there by then.
Creating(op) == [IdleRequest EXCEPT !.op = op]

\* What will change the newest record of a kind.
Changing(op, k) == [op |-> op, on |-> Len(record[k]), was |-> Newest(k), at |-> step]

MayCreate(k) == Newest(k) \notin Blocking /\ Len(record[k]) < MaxRecords

\* PANVerificationService.verify
VerifyPAN(r) ==
    /\ step = "PAN" /\ MayCreate("PAN")
    /\ Acquire(r, "PAN") /\ Begin(r, Creating("pan"))

\* KYCService.initiate
InitiateKYC(r) ==
    /\ step = "KYC" /\ MayCreate("KYC")
    /\ Acquire(r, "KYC") /\ Begin(r, Creating("kyc"))

\* IdentityVerificationService.start
StartIdentity(r) ==
    /\ step = "IDENTITY" /\ MayCreate("IDENTITY")
    /\ Acquire(r, "IDENTITY") /\ Begin(r, Creating("identity"))

\* submit_capture, under the same lock as start.
SubmitCapture(r) ==
    /\ Newest("IDENTITY") \in {"PENDING", "RETRY_REQUIRED"}
    /\ Acquire(r, "IDENTITY")
    /\ Begin(r, Changing("capture", "IDENTITY"))

\* KYCService.refresh_status takes no lock.
RefreshKYC(r) ==
    /\ record["KYC"] # <<>>
    /\ Begin(r, Changing("refresh", "KYC"))
    /\ UNCHANGED lock

\* update_onboarding_step: the customer moves one step on.
MoveStep(r) ==
    /\ step # "COMPLETED"
    /\ Begin(r, [IdleRequest EXCEPT !.op = "step", !.at = step])
    /\ UNCHANGED lock

----------------------------------------------------------------------------
\* Committing

\* Seeded fault: Delete the lock, whoever's it is.
ReleaseLockBlindly(r, k) ==
    lock' = IF k # "none" THEN [lock EXCEPT ![k] = "free"] ELSE lock

\* __aexit__: delete the lock if it still holds this request's token.
ReleaseLock(r, k) ==
    lock' = IF k # "none" /\ lock[k] = r THEN [lock EXCEPT ![k] = "free"] ELSE lock

Done(r) == ReleaseLock(r, LockOf[work[r].op]) /\ work' = [work EXCEPT ![r] = IdleRequest]

\* What the providers may answer; on a PAN at once.
PANResults == {"VERIFIED", "FAILED"}
KYCResults == RecordStatus \ {"RETRY_REQUIRED"}
CaptureResults == RecordStatus

Results ==
    [pan |-> PANResults, kyc |-> {"PENDING"}, identity |-> {"PENDING"},
     capture |-> CaptureResults, refresh |-> KYCResults, step |-> {"none"}]

\* What the step becomes: a verification moves on the step it read.
NextStep(w, result) ==
    CASE w.op = "pan" /\ result = "VERIFIED" -> "KYC"
      [] w.op = "refresh" /\ result = "VERIFIED" /\ w.at = "KYC" -> "IDENTITY"
      [] w.op = "capture" /\ result = "VERIFIED" /\ w.at = "IDENTITY" -> "COMPLETED"
      [] w.op = "step" -> Steps[Position(w.at) + 1]
      [] OTHER -> step

\* A status is written only if it isn't the one that was read.
NextRecord(w, result) ==
    CASE w.op \in {"pan", "kyc", "identity"} ->
            [record EXCEPT ![LockOf[w.op]] = Append(@, result)]
      [] w.op = "capture" /\ result # w.was ->
            [record EXCEPT !["IDENTITY"][w.on] = result]
      [] w.op = "refresh" /\ result # w.was ->
            [record EXCEPT !["KYC"][w.on] = result]
      [] OTHER -> record

\* Commit, then let go of the lock.
CommitWork(r, result) ==
    /\ work[r] # IdleRequest
    /\ result \in Results[work[r].op]
    /\ step' = NextStep(work[r], result)
    /\ record' = NextRecord(work[r], result)
    /\ Done(r)
    /\ UNCHANGED <<overran>>

\* The provider fails: nothing is written.
Fail(r) ==
    /\ work[r] # IdleRequest
    /\ Done(r)
    /\ UNCHANGED <<step, record, overran>>

\* The process dies; the lock stays.
Die(r) ==
    /\ work[r] # IdleRequest
    /\ work' = [work EXCEPT ![r] = IdleRequest]
    /\ UNCHANGED <<step, record, lock, overran>>

LeaseEnds(k) ==
    /\ lock[k] # "free"
    /\ lock' = [lock EXCEPT ![k] = "free"]
    /\ overran' = (overran \/ (k # "KYC" /\ work[lock[k]] # IdleRequest))
    /\ UNCHANGED <<step, record, work>>

OnboardingNext ==
    \/ \E r \in Requests :
        \/ VerifyPAN(r)
        \/ InitiateKYC(r)
        \/ StartIdentity(r)
        \/ SubmitCapture(r)
        \/ RefreshKYC(r)
        \/ MoveStep(r)
        \/ \E s \in RecordStatus \cup {"none"} : CommitWork(r, s)
        \/ Fail(r)
        \/ Die(r)
    \/ \E k \in Kinds : LeaseEnds(k)

OnboardingSpec == OnboardingInit /\ [][OnboardingNext]_onboardingVars

----------------------------------------------------------------------------

OnboardingTypeOK ==
    /\ step \in Step
    /\ \A k \in Kinds : /\ Len(record[k]) <= MaxRecords + Cardinality(Requests)
                        /\ \A n \in DOMAIN record[k] : record[k][n] \in RecordStatus
    /\ lock \in [Kinds -> Requests \cup {"free"}]
    /\ \A r \in Requests : work[r] = IdleRequest \/ work[r].op \in Operations
    /\ overran \in BOOLEAN

\* While the leases last as long as the work, no kind of verification is paid
\* for twice: a PAN or an identity has one record that is running or verified,
\* however requests, failures and deaths fall: services/pan_verification.py
\* verify, services/identity_verification.py start.
OneVerificationAtATime ==
    ~ overran => \A k \in {"PAN", "IDENTITY"} :
        Cardinality({n \in DOMAIN record[k] : record[k][n] \in Blocking}) <= 1

\* A lock goes with its lease or its owner: a request whose lease ran out
\* doesn't free the one that came after it: core/distributed_lock.py __aexit__.
NobodyElsesLock ==
    [][\A k \in Kinds : lock[k] # "free" /\ lock'[k] # lock[k]
            => work' = work \/ work'[lock[k]] # work[lock[k]]]_onboardingVars

=============================================================================
