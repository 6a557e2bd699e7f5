------------------------------- MODULE SignIn --------------------------------
(***************************************************************************)
(* Signing in by a code sent to one phone, on top of the sessions.         *)
(*                                                                         *)
(* A request reserves a slot of the rate limit in Redis, checks the        *)
(* cooldown, adds the code's row, sends the code, settles the reservation  *)
(* and only then commits the row: requests overlap, fail or die in         *)
(* between.  A send that raises may have gone out all the same: the code   *)
(* then arrives, has no row to be tried against, and its slot is given     *)
(* back.  A code is tried under the lock of the newest committed row.      *)
(*                                                                         *)
(* Time is free: the resend cooldown may be over, and a code may have      *)
(* expired, at any moment.  The limits on tries per phone and address      *)
(* only turn tries away.                                                   *)
(***************************************************************************)
EXTENDS Sessions

CONSTANTS
    MaxCodes,       \* bound: codes ever requested
    MaxWindows,     \* bound: windows of the rate limit
    RequestLimit,   \* otp_request_limit
    MaxOtpAttempts  \* MAX_OTP_ATTEMPTS

ASSUME SignInAssumption ==
    /\ MaxCodes \in Nat /\ MaxWindows \in Nat \ {0}
    /\ RequestLimit \in Nat /\ MaxOtpAttempts \in Nat

Codes == 1 .. MaxCodes

\* "ADDED", "SENT": the row isn't committed yet.  It never will be if sending it
\* raised ("UNSENT") or the process died ("GONE").
CodeStatus == {"NONE", "ADDED", "SENT", "USABLE", "VERIFIED", "UNSENT", "GONE"}

VARIABLES
    code,           \* each code, in the order of created_at
    attempts,       \* wrong tries of each
    window,         \* the window the limit's key lives in
    count,          \* __count of the key
    reserved,       \* reservations in the key, by code
    sentIn          \* the window whose slot a code goes out on, or 0: it didn't

codeVars == <<code, attempts, window, count, reserved, sentIn>>
signInVars == <<sessionVars, codeVars>>

CodesInit ==
    /\ code = [n \in Codes |-> "NONE"] /\ attempts = [n \in Codes |-> 0]
    /\ window = 1 /\ count = 0 /\ reserved = {}
    /\ sentIn = [n \in Codes |-> 0]

SignInInit == SessionsInit /\ CodesInit

Stored == {n \in Codes : code[n] \in {"USABLE", "VERIFIED"}}

\* get_latest
Latest(n) == n \in Stored /\ \A m \in Stored : m <= n

----------------------------------------------------------------------------
\* create_otp

\* _reserve_rate_limit: a slot of the window, while there is one.
ReserveSlot(n) ==
    /\ count < RequestLimit
    /\ count' = count + 1
    /\ reserved' = reserved \cup {n}

\* The reservation, and the row, once the cooldown is over.  A refused request
\* gives its slot back.
RequestCode(n) ==
    /\ code[n] = "NONE" /\ \A m \in 1 .. n - 1 : code[m] # "NONE"
    /\ ReserveSlot(n)
    /\ code' = [code EXCEPT ![n] = "ADDED"]
    /\ sentIn' = [sentIn EXCEPT ![n] = window]
    /\ UNCHANGED <<attempts, window, sessionVars>>

\* _commit_rate_limit: the slot stays taken.  When Redis fails the reservation
\* stays as well.
CommitSlot(n) == reserved' \in {reserved, reserved \ {n}} /\ UNCHANGED count

\* The code is on its way.
SendCode(n) ==
    /\ code[n] = "ADDED"
    /\ code' = [code EXCEPT ![n] = "SENT"]
    /\ CommitSlot(n)
    /\ UNCHANGED <<attempts, window, sentIn, sessionVars>>

\* Seeded fault: A slot is given back whether or not it was reserved here.
ReleaseCodeBlindly(n) ==
    /\ reserved' = reserved \ {n}
    /\ count' = IF count > 0 THEN count - 1 ELSE count

\* _release_rate_limit: a reservation that is still there gives its slot back.
ReleaseCode(n) ==
    /\ reserved' = reserved \ {n}
    /\ count' = IF n \in reserved THEN count - 1 ELSE count

\* What becomes of a code whose sending is not known to have worked.
MayHaveGoneOut(n) == sentIn' \in {sentIn, [sentIn EXCEPT ![n] = 0]}

\* send_otp raises: the provider refused, or the call timed out, before or after
\* the provider took the SMS.  Redis may fail too: the slot then stays taken.
SendFails(n) ==
    /\ code[n] = "ADDED"
    /\ code' = [code EXCEPT ![n] = "UNSENT"]
    /\ MayHaveGoneOut(n)
    /\ ReleaseCode(n) \/ UNCHANGED <<reserved, count>>
    /\ UNCHANGED <<attempts, window, sessionVars>>

CommitCode(n) ==
    /\ code[n] = "SENT"
    /\ code' = [code EXCEPT ![n] = "USABLE"]
    /\ UNCHANGED <<attempts, window, count, reserved, sentIn,
                   sessionVars>>

\* The process dies, before or after the code is sent.
RequestDies(n) ==
    /\ code[n] \in {"ADDED", "SENT"}
    /\ code' = [code EXCEPT ![n] = "GONE"]
    /\ IF code[n] = "SENT" THEN UNCHANGED sentIn ELSE MayHaveGoneOut(n)
    /\ UNCHANGED <<attempts, window, count, reserved, sessionVars>>

----------------------------------------------------------------------------
\* verify_otp

MayTry(n) ==
    /\ Latest(n)
    /\ code[n] # "VERIFIED"
    /\ attempts[n] < MaxOtpAttempts

\* A wrong try is committed before it is refused.
TryWrong(n) ==
    /\ MayTry(n)
    /\ attempts' = [attempts EXCEPT ![n] = @ + 1]
    /\ UNCHANGED <<code, window, count, reserved, sentIn,
                   sessionVars>>

\* The code is verified and the session opened in one transaction.
VerifyCode(n) ==
    /\ MayTry(n)
    /\ code' = [code EXCEPT ![n] = "VERIFIED"]
    /\ OpenSession
    /\ UNCHANGED <<attempts, window, count, reserved, sentIn>>

----------------------------------------------------------------------------
\* The key expires: every reservation in it is forgotten.
WindowEnds ==
    /\ count > 0 /\ window < MaxWindows
    /\ window' = window + 1 /\ count' = 0 /\ reserved' = {}
    /\ UNCHANGED <<code, attempts, sentIn, sessionVars>>

SignInNext ==
    \/ \E n \in Codes :
        \/ RequestCode(n)
        \/ SendCode(n)
        \/ SendFails(n)
        \/ CommitCode(n)
        \/ RequestDies(n)
        \/ TryWrong(n)
        \/ VerifyCode(n)
    \/ WindowEnds
    \/ SessionsNext /\ UNCHANGED codeVars

SignInSpec == SignInInit /\ [][SignInNext]_signInVars

----------------------------------------------------------------------------

SignInTypeOK ==
    /\ SessionsTypeOK
    /\ code \in [Codes -> CodeStatus]
    /\ attempts \in [Codes -> 0 .. MaxOtpAttempts]
    /\ window \in 1 .. MaxWindows
    /\ count \in 0 .. RequestLimit
    /\ reserved \subseteq Codes
    /\ sentIn \in [Codes -> 0 .. MaxWindows]

\* The codes that go out on a slot of window w, but for those whose sending
\* raised: a code of a request that died is one of them.
SentInWindow(w) == {n \in Codes : sentIn[n] = w /\ code[n] # "UNSENT"}

\* No window of the rate limit has more codes sent than it allows, although
\* requests overlap, fail and die, and give slots back after the window they
\* were taken in is over.  The limit counts what the service knows of: a code that
\* arrives although its sending raised comes on top, its slot being free again:
\* services/otp.py _reserve_rate_limit, _release_rate_limit, create_otp.
CodesWithinLimit ==
    \A w \in 1 .. window : Cardinality(SentInWindow(w)) <= RequestLimit

=============================================================================
