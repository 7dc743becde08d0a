---------------------------- MODULE AdminSessions ----------------------------
(***************************************************************************)
(* AdminAuthenticationService and the sessions of one administrator: what  *)
(* logins, password changes, resets and revocations do when they overlap.  *)
(* Each is a few requests to the database, with a slow password hash       *)
(* between them, and works on what its first request has read.             *)
(*                                                                         *)
(* Tokens, cookies and what they are hashed with are opaque: a session is  *)
(* known by its number.  Passwords are those the policy accepts.           *)
(***************************************************************************)
EXTENDS Naturals, FiniteSets

CONSTANTS
    Visitors,       \* HTTP requests, or resets from the command line, under way
    Passwords,
    NoVisit,
    MaxSessions,    \* bound on the sessions ever issued
    SessionCap,     \* live sessions of one user (10 in the code)
    FailureLimit    \* failed logins within 15 minutes (5 in the code)

ASSUME SessionsAssumption ==
    /\ IsFiniteSet(Visitors)
    /\ MaxSessions \in Nat
    /\ SessionCap \in Nat \ {0}
    /\ FailureLimit \in Nat \ {0}

VARIABLES
    credential, \* the row of admin_credentials
    enabled,    \* users.active
    live,       \* admin_sessions not revoked and not expired
    stale,      \* admin_sessions not revoked, but expired or idle for too long
    issued,     \* sessions ever begun, numbered in the order of their issued_at
    failures,   \* failed logins that count: recent, after the last success
    visit,      \* what each request is doing
    under,      \* history: the password each session was issued or kept under
    late        \* history: sessions inserted since the user was disabled

sessionVars == <<credential, enabled, live, stale, issued, failures, visit, under, late>>

Tokens == 1..MaxSessions
NoToken == 0

Credentials == [password: Passwords, mustChange: BOOLEAN]

\* own is the session that asks, or is being created; valid, what the first request has established:
\* that the password is the one read, of a user who is active, or that the
\* session may end others.  Until it is compared, given is the password offered.
Visits == [step: {"gate", "verify", "insert", "read", "change", "revoke"}, own: Tokens \cup {NoToken},
           valid: BOOLEAN, given: Passwords \cup {NoVisit}, new: Passwords \cup {NoVisit}]

\* admin_sessions, as far as they are not revoked.
Unrevoked == live \cup stale

EndsSessions(tokens) == live' = live \ tokens /\ stale' = stale \ tokens

Doing(v, step) == visit[v] # NoVisit /\ visit[v].step = step

Leaves(v) == visit' = [visit EXCEPT ![v] = NoVisit]

HasSession(token) == token \in live /\ enabled

-----------------------------------------------------------------------------
(* Requests begin *)

Visit(v, step, own, valid, given, new) ==
    /\ visit[v] = NoVisit
    /\ visit' = [visit EXCEPT ![v] = [step |-> step, own |-> own, valid |-> valid,
                                      given |-> given, new |-> new]]
    /\ UNCHANGED <<credential, enabled, live, stale, issued, failures, under, late>>

\* login: findCredentialByEmail.  The comparison comes after the gate, but with
\* the password and the user as they are now.
login(v, given) ==
    Visit(v, "gate", NoToken, given = credential.password /\ enabled, NoVisit, NoVisit)

\* The command line finds the credential and hashes the password.
resetPassword(v, new) == Visit(v, "change", NoToken, TRUE, NoVisit, new)

\* POST /password is open to a session that must change its password; so is
\* logout, but not the end of other sessions.
AskChange(v, token, given, new) == HasSession(token) /\ Visit(v, "read", token, TRUE, given, new)

AskRevoke(v, token) ==
    HasSession(token) /\ Visit(v, "revoke", token, ~credential.mustChange, NoVisit, NoVisit)

-----------------------------------------------------------------------------
(* Logging in *)

Locked == failures >= FailureLimit

evaluateLoginGate(v) ==
    /\ Doing(v, "gate")
    /\ IF Locked THEN Leaves(v) ELSE visit' = [visit EXCEPT ![v].step = "verify"]
    /\ UNCHANGED <<credential, enabled, live, stale, issued, failures, under, late>>

recordLoginFailure(v) ==
    /\ Doing(v, "verify") /\ ~visit[v].valid
    /\ failures' = failures + 1
    /\ Leaves(v)
    /\ UNCHANGED <<credential, enabled, live, stale, issued, under, late>>

\* The newest sessions, as many as the cap allows; the expired ones count too.
Kept(tokens) == {t \in tokens: Cardinality({u \in tokens: u > t}) < SessionCap}

\* create_admin_session looks at the user again, not at the password, and locks
\* neither.  The session is as old as the call, whenever it comes to be.
createSession(v) ==
    /\ Doing(v, "verify") /\ visit[v].valid
    /\ IF enabled
         THEN /\ issued < MaxSessions /\ issued' = issued + 1
              /\ visit' = [visit EXCEPT ![v].step = "insert", ![v].own = issued + 1]
         ELSE Leaves(v) /\ UNCHANGED issued
    /\ UNCHANGED <<credential, enabled, live, stale, failures, under, late>>

\* Under the lock of the cap the session is inserted, whatever has become of the
\* user.  Failures recorded since the call began still count.
insertSession(v) ==
    /\ Doing(v, "insert")
    /\ LET token == visit[v].own
           kept == Kept(Unrevoked \cup {token})
       IN /\ live' = (live \cup {token}) \cap kept /\ stale' = stale \cap kept
          /\ under' = [under EXCEPT ![token] = credential.password]
          /\ late' = IF enabled THEN late ELSE late \cup {token}
    /\ failures' \in 0..failures
    /\ Leaves(v)
    /\ UNCHANGED <<credential, enabled, issued>>

-----------------------------------------------------------------------------
(* Changing the password *)

\* findCredentialByUserId, and the comparison with the current password.
readCredential(v) ==
    /\ Doing(v, "read")
    /\ IF visit[v].given = credential.password
         THEN visit' = [visit EXCEPT ![v].step = "change", ![v].given = NoVisit]
         ELSE Leaves(v)
    /\ UNCHANGED <<credential, enabled, live, stale, issued, failures, under, late>>

\* A slip: the newest session is taken for the one that asks.
RevokedOlder(v) == {t \in Unrevoked: t < issued} \ {visit[v].own}

Revoked(v) == Unrevoked \ {visit[v].own}

\* change_admin_password
changePassword(v) ==
    /\ Doing(v, "change")
    /\ credential' = [password |-> visit[v].new, mustChange |-> FALSE]
    /\ EndsSessions(Revoked(v))
    /\ under' = IF visit[v].own \in Unrevoked THEN [under EXCEPT ![visit[v].own] = visit[v].new] ELSE under
    /\ Leaves(v)
    /\ UNCHANGED <<enabled, issued, failures, late>>

-----------------------------------------------------------------------------
\* revoke_admin_session: logout, or the end of another session of one's own.
revokeSession(v, token) ==
    /\ Doing(v, "revoke")
    /\ token = visit[v].own \/ visit[v].valid
    /\ EndsSessions({token})
    /\ Leaves(v)
    /\ UNCHANGED <<credential, enabled, issued, failures, under, late>>

\* Expired, or idle for too long.
SessionExpires(token) ==
    /\ token \in live
    /\ live' = live \ {token} /\ stale' = stale \cup {token}
    /\ UNCHANGED <<credential, enabled, issued, failures, visit, under, late>>

\* Administrators disable and enable one another; disabling ends the sessions.
SetActive ==
    /\ enabled' = ~enabled
    /\ IF enabled THEN EndsSessions(Unrevoked) ELSE UNCHANGED <<live, stale>>
    /\ late' = {}
    /\ UNCHANGED <<credential, issued, failures, visit, under>>

\* A failure is 15 minutes old.
FailureAges ==
    /\ failures > 0 /\ failures' = failures - 1
    /\ UNCHANGED <<credential, enabled, live, stale, issued, visit, under, late>>

\* A request to the database fails, or the process dies.
VisitFails(v) ==
    /\ visit[v] # NoVisit
    /\ Leaves(v)
    /\ UNCHANGED <<credential, enabled, live, stale, issued, failures, under, late>>

SessionsInit ==
    /\ credential \in Credentials
    /\ enabled = TRUE
    /\ live = {} /\ stale = {} /\ issued = 0 /\ failures = 0
    /\ visit = [v \in Visitors |-> NoVisit]
    /\ under = [t \in Tokens |-> credential.password] /\ late = {}

SessionsNext ==
    \/ \E v \in Visitors, p \in Passwords: login(v, p) \/ resetPassword(v, p)
    \/ \E v \in Visitors, t \in Tokens, p, q \in Passwords: AskChange(v, t, p, q)
    \/ \E v \in Visitors, t \in Tokens: AskRevoke(v, t) \/ revokeSession(v, t)
    \/ \E v \in Visitors:
        \/ evaluateLoginGate(v) \/ recordLoginFailure(v) \/ createSession(v) \/ insertSession(v)
        \/ readCredential(v) \/ changePassword(v) \/ VisitFails(v)
    \/ \E t \in Tokens: SessionExpires(t)
    \/ SetActive \/ FailureAges

SessionsSpec == SessionsInit /\ [][SessionsNext]_sessionVars

-----------------------------------------------------------------------------
SessionsTypeOK ==
    /\ credential \in Credentials /\ enabled \in BOOLEAN
    /\ visit \in [Visitors -> Visits \cup {NoVisit}]
    /\ issued \in 0..MaxSessions /\ under \in [Tokens -> Passwords] /\ late \subseteq Tokens

\* However logins, changes, resets and revocations overlap: no more sessions are live
\* than the cap allows, and none that was not issued; none outlives the password in
\* force when it was created (a login under way may have compared with an earlier one),
\* unless it asked for the change; only logins already past the gate can fail beyond
\* the limit; and a disabled administrator has no session left but those inserted since by
\* logins that found the user active before, which are of no use until the user is enabled.
SessionsInv ==
    /\ SessionsTypeOK
    /\ live \subseteq 1..issued /\ Cardinality(live) <= SessionCap
    /\ \A t \in live: under[t] = credential.password
    /\ failures < FailureLimit + Cardinality(Visitors)
    /\ enabled \/ live \subseteq late

-----------------------------------------------------------------------------
(* The inductive invariant behind it *)

\* Logins past the gate, which may still fail.
PastGate == {v \in Visitors: Doing(v, "verify")}

\* The gate counts the failures there are: those past it can each add one.
LockoutHolds == failures \in Nat /\ failures + Cardinality(PastGate) < FailureLimit + Cardinality(Visitors)

\* What is revoked stays so: the rows left over are few, under the password in force.
SessionsCapped ==
    /\ Unrevoked \subseteq 1..issued /\ IsFiniteSet(Unrevoked)
    /\ Cardinality(Unrevoked) <= SessionCap

UnderPassword == \A t \in Unrevoked: under[t] = credential.password

\* Who changes a password has said to what.
NewGiven ==
    \A v \in Visitors: Doing(v, "read") \/ Doing(v, "change") => visit[v].new \in Passwords

\* Disabling ended what there was.
DisabledLate == enabled \/ Unrevoked \subseteq late

\* What is being inserted has its number.
Numbered == \A v \in Visitors: Doing(v, "insert") => visit[v].own \in 1..issued

SessionsIndInv ==
    /\ SessionsTypeOK /\ NewGiven /\ LockoutHolds /\ SessionsCapped /\ UnderPassword
    /\ DisabledLate /\ Numbered
=============================================================================
