----------------------- MODULE IntegrationCredentials -----------------------
(***************************************************************************)
(* The keys of one integration: administrators issue, rotate and revoke    *)
(* them while machines present them.  Every call is a transaction of       *)
(* migration 202609110001 whose now() is the moment it began; it may wait  *)
(* for the integration's advisory lock, or for the row of a key.           *)
(*                                                                         *)
(* Issuing takes the advisory lock and then, for a rotation, shares the    *)
(* row of the key it replaces; revoking takes the row and then the         *)
(* advisory lock.  The database notices the cycle and fails one of them.   *)
(***************************************************************************)
EXTENDS Naturals, FiniteSets

CONSTANTS
    Keys,        \* rows of public.integration_credentials, in the order they are made
    Issuers,     \* administrators, one call at a time each
    Clients,     \* requests that present a key
    Horizon,     \* bound on the clock; a key that ends then never does
    Expiries, Graces,  \* ends asked for, and grace periods, 0 for none
    UseLag,      \* how old last_used_at gets before it is written again
    NoKey,
    MaxIssuing,  \* bound on the calls of administrators
    MaxBreaks    \* bound on failed calls and on changes made by somebody else

ASSUME CredentialsAssumption ==
    /\ Keys \subseteq Nat /\ Horizon \in Nat /\ Expiries \subseteq 0..Horizon /\ Graces \subseteq Nat
    /\ UseLag \in Nat \ {0} /\ MaxIssuing \in Nat /\ MaxBreaks \in Nat
    /\ NoKey \notin [ends: 0..Horizon, revoked: BOOLEAN]

VARIABLES
    key,         \* the rows: when they end, and whether they were revoked
    lastUsed,    \* last_used_at of each
    usable,      \* the integration is active and has the capability asked for
    issuing,     \* the call of each administrator
    presenting,  \* the call of each client
    clock, calls, breaks,
    promised,    \* history: the earliest end announced for each key
    until        \* history: the same, but no end counts before it was announced

credentialVars == <<key, lastUsed, usable, issuing, presenting, clock, calls, breaks, promised, until>>

Times == 0..Horizon
Never == Horizon
KeyRows == [ends: Times, revoked: BOOLEAN]
Creations == [kind: {"create"}, now: Times, ends: Times, key: Keys \cup {NoKey}, step: {"lock", "insert"}]
Revocations == [kind: {"revoke"}, now: Times, grace: Graces, key: Keys, step: {"row", "lock"}]
Presentations == [key: Keys, now: Times, passed: BOOLEAN]

Issued(k) == key[k] # NoKey

\* What the functions count, and authenticate_integration_credential looks at.
Lives(k, row, t) == row[k] # NoKey /\ ~row[k].revoked /\ (row[k].ends > t \/ row[k].ends = Never)

LiveKeys(row, t) == {k \in Keys: Lives(k, row, t)}

-----------------------------------------------------------------------------
(* Locks *)

InCall(a, kind, step) == issuing[a] # NoKey /\ issuing[a].kind = kind /\ issuing[a].step = step

\* A slip: pg_advisory_xact_lock forgotten.
AdvisoryFreeAlways == TRUE

\* The advisory lock is held over a statement only by an insert under way.
AdvisoryFree == \A a \in Issuers: ~InCall(a, "create", "insert")

\* select ... for update
RowFree(k) == \A a \in Issuers: ~(InCall(a, "revoke", "lock") /\ issuing[a].key = k)

Finish(a) == issuing' = [issuing EXCEPT ![a] = NoKey]

-----------------------------------------------------------------------------
(* Administrators *)

\* createCredential, and the command line, by somebody with authority over the
\* installation: a key that ends in the future.
AskCreate(a, ends, rotated) ==
    /\ issuing[a] = NoKey /\ calls < MaxIssuing
    /\ ends > clock /\ (rotated # NoKey => Issued(rotated))
    /\ issuing' = [issuing EXCEPT ![a] =
          [kind |-> "create", now |-> clock, ends |-> ends, key |-> rotated, step |-> "lock"]]
    /\ calls' = calls + 1
    /\ UNCHANGED <<key, lastUsed, usable, presenting, clock, breaks, promised, until>>

CountKeys(a) ==
    /\ InCall(a, "create", "lock") /\ AdvisoryFree
    /\ IF Cardinality(LiveKeys(key, issuing[a].now)) >= 2
         THEN Finish(a) ELSE issuing' = [issuing EXCEPT ![a].step = "insert"]
    /\ UNCHANGED <<key, lastUsed, usable, presenting, clock, calls, breaks, promised, until>>

InsertKey(a, k) ==
    /\ InCall(a, "create", "insert")
    /\ ~Issued(k) /\ \A j \in Keys: j < k => Issued(j)
    /\ issuing[a].key # NoKey => RowFree(issuing[a].key)
    /\ key' = [key EXCEPT ![k] = [ends |-> issuing[a].ends, revoked |-> FALSE]]
    /\ promised' = [promised EXCEPT ![k] = issuing[a].ends]
    /\ until' = [until EXCEPT ![k] = issuing[a].ends]
    /\ Finish(a)
    /\ UNCHANGED <<lastUsed, usable, presenting, clock, calls, breaks>>

\* revokeCredential finds the key among those of the integration.
AskRevokeKey(a, k, grace) ==
    /\ issuing[a] = NoKey /\ calls < MaxIssuing /\ Issued(k)
    /\ issuing' = [issuing EXCEPT ![a] =
          [kind |-> "revoke", now |-> clock, grace |-> grace, key |-> k, step |-> "row"]]
    /\ calls' = calls + 1
    /\ UNCHANGED <<key, lastUsed, usable, presenting, clock, breaks, promised, until>>

LockRow(a) ==
    /\ InCall(a, "revoke", "row") /\ RowFree(issuing[a].key)
    /\ issuing' = [issuing EXCEPT ![a].step = "lock"]
    /\ UNCHANGED <<key, lastUsed, usable, presenting, clock, calls, breaks, promised, until>>

Least(s, t) == IF s < t THEN s ELSE t
Latest(s, t) == IF s < t THEN t ELSE s

\* A slip: the new end replaces the old one, also when it is later.
ShortenedTo(row, t) == [row EXCEPT !.ends = Least(t, Never)]

Shortened(row, t) == [row EXCEPT !.ends = Least(@, t)]

\* Whether a grace period can still be set.
Extant(row, t) == row.ends > t \/ row.ends = Never

Replaced(a) ==
    LET row == key[issuing[a].key]  now == issuing[a].now  grace == issuing[a].grace
    IN IF row.revoked THEN row
       ELSE IF grace > 0 THEN Shortened(row, now + grace) ELSE [row EXCEPT !.revoked = TRUE]

\* Revocation answers with the row; a row revoked before stays as it is.
RevokeKey(a) ==
    /\ InCall(a, "revoke", "lock") /\ AdvisoryFree
    /\ LET k == issuing[a].key  now == issuing[a].now  next == [key EXCEPT ![k] = Replaced(a)]
           end == IF next[k].revoked THEN clock ELSE next[k].ends
       IN IF /\ key[k].revoked \/ issuing[a].grace = 0 \/ Extant(key[k], now)
             /\ Cardinality(LiveKeys(next, now)) <= 2
            THEN /\ key' = next
                 /\ promised' = [promised EXCEPT ![k] = Least(@, end)]
                 /\ until' = [until EXCEPT ![k] = Least(@, Latest(end, clock))]
            ELSE UNCHANGED <<key, promised, until>>
    /\ Finish(a)
    /\ UNCHANGED <<lastUsed, usable, presenting, clock, calls, breaks>>

-----------------------------------------------------------------------------
(* Machines *)

Present(m, k) ==
    /\ presenting[m] = NoKey /\ Issued(k)
    /\ presenting' = [presenting EXCEPT ![m] = [key |-> k, now |-> clock, passed |-> FALSE]]
    /\ UNCHANGED <<key, lastUsed, usable, issuing, clock, calls, breaks, promised, until>>

\* The key, the integration and its capability are looked at.
LookAtKey(m) ==
    /\ presenting[m] # NoKey /\ ~presenting[m].passed
    /\ presenting' = [presenting EXCEPT ![m] =
          IF Lives(@.key, key, @.now) /\ usable THEN [@ EXCEPT !.passed = TRUE] ELSE NoKey]
    /\ UNCHANGED <<key, lastUsed, usable, issuing, clock, calls, breaks, promised, until>>

StaleUse(k, now) == lastUsed[k] = NoKey \/ lastUsed[k] + UseLag <= now

\* last_used_at is written, which waits for the row, and the key is accepted.
AcceptKey(m) ==
    /\ presenting[m] # NoKey /\ presenting[m].passed
    /\ LET k == presenting[m].key  now == presenting[m].now
       IN /\ StaleUse(k, now) => RowFree(k)
          /\ lastUsed' = IF StaleUse(k, now) THEN [lastUsed EXCEPT ![k] = now] ELSE lastUsed
    /\ presenting' = [presenting EXCEPT ![m] = NoKey]
    /\ UNCHANGED <<key, usable, issuing, clock, calls, breaks, promised, until>>

-----------------------------------------------------------------------------
(* Around them *)

Passes ==
    /\ clock < Horizon - 1
    /\ clock' = clock + 1
    /\ UNCHANGED <<key, lastUsed, usable, issuing, presenting, calls, breaks, promised, until>>

Breaks == breaks < MaxBreaks /\ breaks' = breaks + 1

\* An insert that waits for the row of the key it replaces, and the revocation of
\* that key that waits for the insert.
Caught(a, b) ==
    /\ InCall(a, "create", "insert") /\ InCall(b, "revoke", "lock")
    /\ issuing[a].key = issuing[b].key

\* The database fails one of the two.
DeadlockBroken(a, b) ==
    /\ Caught(a, b)
    /\ Finish(a) \/ Finish(b)
    /\ UNCHANGED <<key, lastUsed, usable, presenting, clock, calls, breaks, promised, until>>

\* The call ends without committing.
IssuerFails(a) ==
    /\ Breaks /\ issuing[a] # NoKey
    /\ Finish(a)
    /\ UNCHANGED <<key, lastUsed, usable, presenting, clock, calls, promised, until>>

\* setActive, grantCapability and revokeCapability of the service
UsabilityChanges ==
    /\ Breaks /\ usable' = ~usable
    /\ UNCHANGED <<key, lastUsed, issuing, presenting, clock, calls, promised, until>>

CredentialsInit ==
    /\ key = [k \in Keys |-> NoKey] /\ lastUsed = [k \in Keys |-> NoKey]
    /\ usable = TRUE
    /\ issuing = [a \in Issuers |-> NoKey] /\ presenting = [m \in Clients |-> NoKey]
    /\ clock = 0 /\ calls = 0 /\ breaks = 0
    /\ promised = [k \in Keys |-> Never] /\ until = [k \in Keys |-> Never]

CredentialsNext ==
    \/ \E a \in Issuers:
          \/ \E ends \in Expiries, k \in Keys \cup {NoKey}: AskCreate(a, ends, k)
          \/ \E k \in Keys, grace \in Graces: AskRevokeKey(a, k, grace)
          \/ CountKeys(a) \/ LockRow(a) \/ RevokeKey(a) \/ IssuerFails(a)
          \/ \E k \in Keys: InsertKey(a, k)
          \/ \E b \in Issuers: DeadlockBroken(a, b)
    \/ \E m \in Clients: LookAtKey(m) \/ AcceptKey(m) \/ \E k \in Keys: Present(m, k)
    \/ Passes \/ UsabilityChanges

CredentialsSpec == CredentialsInit /\ [][CredentialsNext]_credentialVars

-----------------------------------------------------------------------------
CredentialsTypeOK ==
    /\ key \in [Keys -> KeyRows \cup {NoKey}] /\ lastUsed \in [Keys -> Times \cup {NoKey}]
    /\ issuing \in [Issuers -> Creations \cup Revocations \cup {NoKey}]
    /\ presenting \in [Clients -> Presentations \cup {NoKey}]
    /\ promised \in [Keys -> Times] /\ until \in [Keys -> Times]
    /\ usable \in BOOLEAN /\ clock \in Times /\ calls \in 0..MaxIssuing /\ breaks \in 0..MaxBreaks

\* Somebody's next statement does not have to wait.
GoesOn(a) ==
    \/ InCall(a, "create", "lock") /\ AdvisoryFree
    \/ InCall(a, "create", "insert") /\ (issuing[a].key = NoKey \/ RowFree(issuing[a].key))
    \/ InCall(a, "revoke", "row") /\ RowFree(issuing[a].key)
    \/ InCall(a, "revoke", "lock") /\ AdvisoryFree

\* Two keys live at most; no key outlives the earliest end announced, nor is used by a
\* call that began after that end and after it was announced.
KeysKept ==
    /\ Cardinality(LiveKeys(key, clock)) <= 2
    /\ \A k \in Keys: Issued(k) => key[k].revoked \/ key[k].ends <= promised[k]
    /\ \A k \in Keys: lastUsed[k] # NoKey => lastUsed[k] <= until[k]

\* Calls wait for one another for ever only around a rotation, which the database sees.
WaitsKnown ==
    \/ \A a \in Issuers: issuing[a] = NoKey
    \/ \E a \in Issuers: GoesOn(a)
    \/ \E a, b \in Issuers: Caught(a, b)

\* However the calls of administrators and machines overlap and wait, keys are kept
\* to their number and ends, and no wait is for ever but the known one.
CredentialsInv == CredentialsTypeOK /\ KeysKept /\ WaitsKnown

-----------------------------------------------------------------------------
(* The inductive invariant behind it.                                      *)

\* An insert holds the advisory lock, and what was counted before it still counts.
RoomForKey ==
    /\ IsFiniteSet({k \in Keys: Issued(k)})
    /\ \A a \in Issuers: InCall(a, "create", "insert") =>
          /\ Cardinality(LiveKeys(key, clock)) <= 1
          /\ \A b \in Issuers: InCall(b, "create", "insert") => b = a

\* No call began in the future, and none is about a key that does not exist.
CallsBegan ==
    /\ \A a \in Issuers: issuing[a] # NoKey => issuing[a].now <= clock
    /\ \A a \in Issuers: issuing[a] # NoKey /\ issuing[a].kind = "revoke" => Issued(issuing[a].key)
    /\ \A m \in Clients: presenting[m] # NoKey =>
          presenting[m].now <= clock /\ Issued(presenting[m].key)

\* A call that passed began in time, and so did the last one that was accepted.
UsesInTime ==
    /\ \A k \in Keys: promised[k] <= until[k]
    /\ \A m \in Clients: presenting[m] # NoKey /\ presenting[m].passed =>
          presenting[m].now <= until[presenting[m].key]
    /\ \A k \in Keys: lastUsed[k] # NoKey => Issued(k) /\ lastUsed[k] <= clock

CredentialsIndInv == CredentialsTypeOK /\ KeysKept /\ RoomForKey /\ CallsBegan /\ UsesInTime
=============================================================================
