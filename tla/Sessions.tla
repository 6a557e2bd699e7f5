------------------------------ MODULE Sessions ------------------------------
(***************************************************************************)
(* A customer's sessions.  Refreshing revokes the session as "rotated" and *)
(* opens the next one of its family, under the row's lock; a rotated       *)
(* session presented again revokes what is then found of the family.       *)
(*                                                                         *)
(* Logging out, revoking and ending a family read sessions without a lock  *)
(* and write what they read later, so those requests take two steps: a     *)
(* session that a refresh opens between them is not revoked.               *)
(*                                                                         *)
(* Time is free: a token may have expired at any moment, and is then only  *)
(* turned away.                                                            *)
(***************************************************************************)
EXTENDS Integers, FiniteSets

CONSTANTS
    MaxSessions,    \* bound: sessions ever opened
    Revokers        \* requests that may be revoking sessions

ASSUME SessionsAssumption == MaxSessions \in Nat

Ids == 1 .. MaxSessions

\* revocation_reason; "none" in a session that isn't revoked.
Reasons == {"rotated", "logout", "manual_revoke", "logout_other_sessions",
            "reuse_detected"}

VARIABLES
    opened,     \* how many sessions have been opened
    family,     \* token_family_id: the number of the family's first session
    successor,  \* the session a refresh opened in place of this one, or 0
    revoked,    \* the reason, or "none"
    revoking    \* each request: the sessions it read as its targets, and why

sessionVars == <<opened, family, successor, revoked, revoking>>

Idle == [why |-> "none", targets |-> {}]

SessionsInit ==
    /\ opened = 0
    /\ family = [i \in Ids |-> 0] /\ successor = [i \in Ids |-> 0]
    /\ revoked = [i \in Ids |-> "none"]
    /\ revoking = [r \in Revokers |-> Idle]

Opened == 1 .. opened
Live == {i \in Opened : revoked[i] = "none"}

----------------------------------------------------------------------------

\* create_session: a family of its own.
OpenSession ==
    /\ opened < MaxSessions
    /\ opened' = opened + 1
    /\ family' = [family EXCEPT ![opened + 1] = opened + 1]
    /\ UNCHANGED <<successor, revoked, revoking>>

\* Seeded fault: A rotated session may be exchanged once more.
MayRefreshRotated(i) == revoked[i] \in {"none", "rotated"}

\* The refresh token may be exchanged for the next session.
MayRefresh(i) == revoked[i] = "none"

\* refresh_token and refresh_session.
Refresh(i) ==
    /\ i \in Opened /\ opened < MaxSessions
    /\ MayRefresh(i)
    /\ opened' = opened + 1
    /\ revoked' = [revoked EXCEPT ![i] = "rotated"]
    /\ successor' = [successor EXCEPT ![i] = opened + 1]
    /\ family' = [family EXCEPT ![opened + 1] = family[i]]
    /\ UNCHANGED revoking

Intend(r, why, targets) ==
    /\ revoking[r] = Idle
    /\ revoking' = [revoking EXCEPT ![r] = [why |-> why, targets |-> targets]]
    /\ UNCHANGED <<opened, family, successor, revoked>>

\* A token that was rotated is presented again: revoke what is live in the
\* family.
DetectReuse(r, i) ==
    /\ i \in Opened /\ revoked[i] = "rotated"
    /\ Intend(r, "reuse_detected", {j \in Live : family[j] = family[i]})

\* logout, by the session's access token whatever has become of the session.
LogOut(r, i) == i \in Opened /\ Intend(r, "logout", {i})

\* revoke_session, by a live session of the same customer.
RevokeOne(r, i) == i \in Opened /\ Live # {} /\ Intend(r, "manual_revoke", {i})

\* revoke_other_sessions.
RevokeOthers(r, i) ==
    i \in Live /\ Intend(r, "logout_other_sessions", Live \ {i})

\* revoke: the reason is written over what is there by then.
Revoke(r) ==
    /\ revoking[r] # Idle
    /\ revoked' = [i \in Ids |-> IF i \in revoking[r].targets
                                 THEN revoking[r].why ELSE revoked[i]]
    /\ revoking' = [revoking EXCEPT ![r] = Idle]
    /\ UNCHANGED <<opened, family, successor>>

\* All but signing in.
SessionsNext ==
    \/ \E i \in Ids : Refresh(i)
    \/ \E r \in Revokers, i \in Ids :
        \/ DetectReuse(r, i)
        \/ LogOut(r, i)
        \/ RevokeOne(r, i)
        \/ RevokeOthers(r, i)
    \/ \E r \in Revokers : Revoke(r)

----------------------------------------------------------------------------

SessionsTypeOK ==
    /\ opened \in 0 .. MaxSessions
    /\ family \in [Ids -> 0 .. MaxSessions]
    /\ successor \in [Ids -> 0 .. MaxSessions]
    /\ revoked \in [Ids -> Reasons \cup {"none"}]
    /\ revoking \in [Revokers -> [why : Reasons \cup {"none"}, targets : SUBSET Ids]]

\* However refreshes, reuses, log-outs and revocations interleave, a family is
\* one chain with at most one session that still works, its last; a session
\* that was exchanged for another never works again: services/session.py
\* refresh_session, api/v1/auth.py refresh_token.
OneLivePerFamily ==
    \A i, j \in Opened :
        /\ i \in Live /\ j \in Live /\ family[i] = family[j] => i = j
        /\ successor[i] # 0 => i \notin Live
        /\ successor[i] # 0 /\ successor[i] = successor[j] => i = j
        /\ i \in Live /\ family[j] = family[i] => j <= i

=============================================================================
