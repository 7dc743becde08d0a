------------------------------ MODULE HttpGate ------------------------------
(***************************************************************************)
(* What a request passes before its handler runs: the token buckets of its *)
(* address, the penalty earlier 401 answers earned that address, the one   *)
(* budget all logins share, then the administrator's session or the shared *)
(* key, whose first use must be on record before it is honoured, and the   *)
(* bucket of whoever it turned out to be.                                  *)
(*                                                                         *)
(* The limiter keeps a bounded map of buckets.  A full bucket may be       *)
(* forgotten, since a new one starts full; with no room left the least     *)
(* recently used one is, full or not.  Time is the machine's wall clock,   *)
(* which somebody may set back.                                            *)
(***************************************************************************)
EXTENDS Naturals, FiniteSets

CONSTANTS
    Peers,      \* addresses of clients, as normalizeIp groups them
    TrustedPeers,  \* RATE_LIMIT_TRUSTED_IPS
    Calls,      \* requests, as the server is handed them
    RoutePolicies,  \* of the routes that are called
    MaxKeys,    \* RATE_LIMIT_MAX_KEYS
    Capacity,   \* of a bucket, by its policy; a token takes one unit of time to come back
    NoBucket,   \* also for no request and for nobody
    MaxWall,    \* bound on the clock
    MaxGateFaults \* bound on how often it is set back, and on audit rows that fail

\* What admin stands for: every policy of a scope that defineAdminRoutes made.
CredentialPolicies == {"login", "admin"}

\* The administrators are one identity here: the session's, or the shared key's.
BucketKeys == (RoutePolicies \cup {"auth-failure"}) \X Peers \cup {<<"admin", NoBucket>>}
LoginGlobal == <<"login-global", NoBucket>>

ASSUME GateAssumption ==
    /\ RoutePolicies \subseteq {"login", "admin", "default"}
    /\ TrustedPeers \subseteq Peers /\ NoBucket \notin Peers
    /\ MaxKeys \in Nat \ {0} /\ MaxWall \in Nat /\ MaxGateFaults \in Nat
    /\ Capacity \in [RoutePolicies \cup {"admin", "auth-failure", "login-global"} -> Nat \ {0}]
    /\ NoBucket \notin [tokens: Nat, at: Nat]

VARIABLES
    buckets,    \* the map of the limiter, and the single bucket of globalLoginLimiter
    inGate,     \* the requests under way
    observation,  \* fallbackObservation: "none", "pending", "stored"
    onRecord,   \* the use of the shared key is in audit_logs
    wall, setBacks, gateFaults,
    ideal       \* history: buckets that are never forgotten but for want of room, and
                \* that a clock moving forward refills

gateVars == <<buckets, inGate, observation, onRecord, wall, setBacks, gateFaults, ideal>>

AllKeys == BucketKeys \cup {LoginGlobal}
CapacityOf(k) == Capacity[k[1]]
Lesser(m, n) == IF m < n THEN m ELSE n
Greater(m, n) == IF m < n THEN n ELSE m

-----------------------------------------------------------------------------
(* Buckets *)

Mapped(bs) == {k \in BucketKeys: bs[k] # NoBucket}

Elapsed(b) == IF wall > b.at THEN wall - b.at ELSE 0

\* What a bucket holds now; one that is not kept counts as full.
Level(bs, k) ==
    IF bs[k] = NoBucket THEN CapacityOf(k)
    ELSE Lesser(CapacityOf(k), bs[k].tokens + Elapsed(bs[k]))

Touched(bs, k, tokens) ==
    [bs EXCEPT ![k] = [tokens |-> tokens, at |-> IF @ = NoBucket THEN wall ELSE Greater(@.at, wall)]]

inspect(bs, k) == IF bs[k] = NoBucket THEN bs ELSE Touched(bs, k, Level(bs, k))

\* A slip: every bucket that was not used at this very moment is forgotten.
SweepableIdle(bs, k) == Elapsed(bs[k]) > 0

Sweepable(bs, k) == Level(bs, k) >= CapacityOf(k)

sweep(bs) == [k \in DOMAIN bs |-> IF bs[k] # NoBucket /\ Sweepable(bs, k) THEN NoBucket ELSE bs[k]]

\* makeRoom, and the buckets it gives up; among equally old ones any may go.
Rooms(bs) ==
    LET swept == sweep(bs)
        oldest == {k \in Mapped(swept): \A j \in Mapped(swept): swept[k].at <= swept[j].at}
    IN CASE Cardinality(Mapped(bs)) < MaxKeys -> {[buckets |-> bs, lost |-> {}]}
         [] Cardinality(Mapped(swept)) < MaxKeys -> {[buckets |-> [swept EXCEPT ![LoginGlobal] = bs[LoginGlobal]], lost |-> {}]}
         [] OTHER -> {[buckets |-> [swept EXCEPT ![LoginGlobal] = bs[LoginGlobal], ![k] = NoBucket],
                       lost |-> {k}]: k \in oldest}

\* consume: what becomes of the buckets, which were given up, and whether it may pass.
Consumptions(bs, k) ==
    LET level == Level(bs, k)
        after == IF level >= 1 THEN level - 1 ELSE level
    IN {[buckets |-> Touched(room.buckets, k, after), lost |-> room.lost, allowed |-> level >= 1]:
           room \in IF bs[k] # NoBucket \/ k = LoginGlobal THEN {[buckets |-> bs, lost |-> {}]} ELSE Rooms(bs)}

\* The ideal buckets once those in `lost` were given up and k was asked for a token.
Charged(f, lost, k) ==
    [j \in AllKeys |-> LET held == IF j \in lost THEN CapacityOf(j) ELSE f[j]
                       IN IF j = k /\ held > 0 THEN held - 1 ELSE held]

-----------------------------------------------------------------------------
(* Requests *)

InStep(r, step) == inGate[r] # NoBucket /\ inGate[r].step = step

Move(r, step) == inGate' = [inGate EXCEPT ![r].step = step]

Trusts(peer, credential) == peer \in TrustedPeers /\ credential # "key"

Rejected(r) == inGate' = [inGate EXCEPT ![r] = [@ EXCEPT !.step = "answer", !.status = 429]]

\* A login carries no credential yet.
Receives(r, peer, policy, credential) ==
    /\ inGate[r] = NoBucket
    /\ policy # "admin" => credential = "none"
    /\ inGate' = [inGate EXCEPT ![r] = [peer |-> peer, policy |-> policy, credential |-> credential,
           trusted |-> Trusts(peer, credential), step |-> "request", status |-> 200]]
    /\ UNCHANGED <<buckets, observation, onRecord, wall, setBacks, gateFaults, ideal>>

onRequest(r) ==
    /\ InStep(r, "request")
    /\ LET policy == inGate[r].policy  peer == inGate[r].peer
           penalty == <<"auth-failure", peer>>
           seen == IF policy \in CredentialPolicies THEN inspect(buckets, penalty) ELSE buckets
       IN IF inGate[r].trusted THEN Move(r, "handle") /\ UNCHANGED <<buckets, ideal>>
          ELSE IF policy \in CredentialPolicies /\ Level(buckets, penalty) = 0
            THEN buckets' = seen /\ Rejected(r) /\ UNCHANGED ideal
          ELSE \E own \in Consumptions(seen, <<policy, peer>>):
                 LET charged == Charged(ideal, own.lost, <<policy, peer>>)
                 IN IF ~own.allowed
                      THEN buckets' = own.buckets /\ ideal' = charged /\ Rejected(r)
                    ELSE IF policy # "login"
                      THEN buckets' = own.buckets /\ ideal' = charged /\ Move(r, "handle")
                    ELSE \E all \in Consumptions(own.buckets, LoginGlobal):
                           /\ buckets' = all.buckets /\ ideal' = Charged(charged, {}, LoginGlobal)
                           /\ IF all.allowed THEN Move(r, "handle") ELSE Rejected(r)
    /\ UNCHANGED <<observation, onRecord, wall, setBacks, gateFaults>>

\* The handler's answer, be it that of the login or that of a route nobody guards.
Handled(r, status) ==
    /\ InStep(r, "handle") /\ inGate[r].policy # "admin"
    /\ inGate' = [inGate EXCEPT ![r].step = "answer", ![r].status = status]
    /\ UNCHANGED <<buckets, observation, onRecord, wall, setBacks, gateFaults, ideal>>

\* resolveAdminPrincipal: a session that may have ended, or the shared key.
resolveAdminPrincipal(r) ==
    /\ InStep(r, "handle") /\ inGate[r].policy = "admin"
    /\ CASE inGate[r].credential = "none" ->
              /\ inGate' = [inGate EXCEPT ![r].step = "answer", ![r].status = 401]
              /\ UNCHANGED observation
         [] inGate[r].credential = "session" ->
              /\ \/ Move(r, "identity")
                 \/ inGate' = [inGate EXCEPT ![r].step = "answer", ![r].status = 401]
              /\ UNCHANGED observation
         [] inGate[r].credential = "key" ->
              /\ Move(r, IF observation = "stored" THEN "identity" ELSE "observe")
              /\ observation' = IF observation = "none" THEN "pending" ELSE observation
    /\ UNCHANGED <<buckets, onRecord, wall, setBacks, gateFaults, ideal>>

\* A slip: one that waits for the row is let through when it cannot be stored.
UnobservedPasses(r) == [inGate[r] EXCEPT !.step = "identity"]

Unobserved(r) == [inGate[r] EXCEPT !.step = "answer", !.status = 500]

\* The audit row was stored, or not, or only the answer was lost.
AuditStored ==
    /\ observation = "pending"
    /\ observation' = "stored" /\ onRecord' = TRUE
    /\ inGate' = [r \in Calls |-> IF InStep(r, "observe") THEN [inGate[r] EXCEPT !.step = "identity"] ELSE inGate[r]]
    /\ UNCHANGED <<buckets, wall, setBacks, gateFaults, ideal>>

AuditFails ==
    /\ observation = "pending" /\ setBacks + gateFaults < MaxGateFaults
    /\ gateFaults' = gateFaults + 1
    /\ observation' = "none" /\ onRecord' \in {onRecord, TRUE}
    /\ inGate' = [r \in Calls |-> IF InStep(r, "observe") THEN Unobserved(r) ELSE inGate[r]]
    /\ UNCHANGED <<buckets, wall, setBacks, ideal>>

\* rateLimitAdminIdentity, also for a trusted address
rateLimitAdminIdentity(r) ==
    /\ InStep(r, "identity")
    /\ \E own \in Consumptions(buckets, <<"admin", NoBucket>>):
          /\ buckets' = own.buckets
          /\ ideal' = Charged(ideal, own.lost, <<"admin", NoBucket>>)
          /\ IF own.allowed THEN Move(r, "answer") ELSE Rejected(r)
    /\ UNCHANGED <<observation, onRecord, wall, setBacks, gateFaults>>

\* A slip: every refusal counts against the address.
PunishedAny(status) == status \in {401, 429}

Punished(status) == status = 401

onResponse(r) ==
    /\ InStep(r, "answer")
    /\ LET penalty == <<"auth-failure", inGate[r].peer>>
       IN IF Punished(inGate[r].status) /\ ~inGate[r].trusted
            THEN \E own \in Consumptions(buckets, penalty):
                   /\ buckets' = own.buckets
                   /\ ideal' = IF inGate[r].status = 401 THEN Charged(ideal, own.lost, penalty)
                                                        ELSE Charged(ideal, own.lost, NoBucket)
            ELSE UNCHANGED <<buckets, ideal>>
    /\ inGate' = [inGate EXCEPT ![r] = NoBucket]
    /\ UNCHANGED <<observation, onRecord, wall, setBacks, gateFaults>>

-----------------------------------------------------------------------------
(* Time *)

\* The timer sweeps both limiters.
SweepTimer ==
    /\ buckets' = sweep(buckets)
    /\ UNCHANGED <<inGate, observation, onRecord, wall, setBacks, gateFaults, ideal>>

ClockForward ==
    /\ wall < MaxWall
    /\ wall' = wall + 1
    /\ ideal' = [k \in AllKeys |-> Lesser(CapacityOf(k), ideal[k] + 1)]
    /\ UNCHANGED <<buckets, inGate, observation, onRecord, setBacks, gateFaults>>

ClockSetBack ==
    /\ wall > 0 /\ setBacks + gateFaults < MaxGateFaults
    /\ wall' = wall - 1 /\ setBacks' = setBacks + 1
    /\ UNCHANGED <<buckets, inGate, observation, onRecord, gateFaults, ideal>>

GateInit ==
    /\ buckets = [k \in AllKeys |-> NoBucket]
    /\ inGate = [r \in Calls |-> NoBucket]
    /\ observation = "none" /\ onRecord = FALSE
    /\ wall = 0 /\ setBacks = 0 /\ gateFaults = 0
    /\ ideal = [k \in AllKeys |-> CapacityOf(k)]

GateNext ==
    \/ \E r \in Calls:
          \/ \E peer \in Peers, policy \in RoutePolicies, credential \in {"none", "session", "key"}:
                Receives(r, peer, policy, credential)
          \/ onRequest(r) \/ resolveAdminPrincipal(r) \/ rateLimitAdminIdentity(r) \/ onResponse(r)
          \/ \E status \in {200, 401}: Handled(r, status)
    \/ AuditStored \/ AuditFails \/ SweepTimer \/ ClockForward \/ ClockSetBack

GateSpec == GateInit /\ [][GateNext]_gateVars

-----------------------------------------------------------------------------
GateTypeOK ==
    /\ \A k \in AllKeys: buckets[k] = NoBucket \/ buckets[k] \in [tokens: 0..CapacityOf(k), at: 0..MaxWall]
    /\ \A k \in AllKeys: ideal[k] \in 0..CapacityOf(k)
    /\ observation \in {"none", "pending", "stored"} /\ onRecord \in BOOLEAN
    /\ wall \in 0..MaxWall /\ setBacks \in 0..MaxGateFaults /\ gateFaults \in 0..MaxGateFaults

\* However requests overlap and whenever buckets are swept: the limiter keeps no more
\* than its share of buckets, none holds more than it would had it never been
\* forgotten, and none less, unless the clock was set back; in particular no refusal
\* of the limiter adds to the penalty of an address, and no lack of room adds to the
\* budget of all logins.  Nobody is let in by the shared key before its use is on
\* record.
GateInv ==
    /\ GateTypeOK
    /\ Cardinality(Mapped(buckets)) <= MaxKeys
    /\ \A k \in AllKeys: Level(buckets, k) <= ideal[k]
    /\ setBacks = 0 => \A k \in AllKeys: Level(buckets, k) = ideal[k]
    /\ \A r \in Calls: InStep(r, "identity") /\ inGate[r].credential = "key" => onRecord

-----------------------------------------------------------------------------
(* The inductive invariant behind it *)

Steps == {"request", "handle", "observe", "identity", "answer"}
Statuses == {200, 401, 429, 500}

GateRequests ==
    [peer: Peers, policy: RoutePolicies, credential: {"none", "session", "key"}, trusted: BOOLEAN,
     step: Steps, status: Statuses]

GateTyped ==
    /\ buckets \in [AllKeys -> {NoBucket} \cup [tokens: Nat, at: 0..MaxWall]]
    /\ inGate \in [Calls -> {NoBucket} \cup GateRequests]
    /\ ideal \in [AllKeys -> Nat]

\* The map keeps no more than its share, which is counted one bucket at a time.
KeepsItsShare == IsFiniteSet(Mapped(buckets)) /\ Cardinality(Mapped(buckets)) <= MaxKeys

\* Only a clock that was set back is behind a bucket.
NoneAhead == setBacks = 0 => \A k \in AllKeys: buckets[k] # NoBucket => buckets[k].at <= wall

\* What is remembered of the shared key was written before.
Remembered == observation = "stored" => onRecord

GateIndInv == GateInv /\ GateTyped /\ KeepsItsShare /\ NoneAhead /\ Remembered
=============================================================================
