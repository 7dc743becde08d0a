------------------------------ MODULE Readiness ------------------------------
(***************************************************************************)
(* GET /ready: ReadinessService asks the database once for everybody who   *)
(* asks meanwhile, gives up after a while, and repeats what it found for   *)
(* another while.  What it repeats is told by the machine's wall clock,    *)
(* which somebody may set back; timers run by another.                     *)
(*                                                                         *)
(* How the process is wired does not change while it runs, and the         *)
(* warnings of an answer decide nothing: both are left out.                *)
(***************************************************************************)
EXTENDS Integers

CONSTANTS
    Monitors,     \* who ask
    Timeout,      \* READINESS_TIMEOUT_MS, in steps of a clock
    CacheFor,     \* READINESS_CACHE_MS
    NoProbe,
    MaxTurns,     \* bound: changes of the database
    MaxSetBack    \* bound: how far the wall clock is set back

ASSUME ReadinessAssumption ==
    /\ Timeout \in Nat /\ CacheFor \in Nat /\ MaxTurns \in Nat /\ MaxSetBack \in Nat
    /\ NoProbe \notin [age: Nat, found: {"good", "bad", "none"}]

VARIABLES
    health,    \* of the database and its schema: "good" or "bad"
    probe,     \* inFlight: for how long, and what the database has said; or NoProbe
    cache,     \* cached: the result, and how long until it expires (or since it did)
    waiting,   \* monitors whose request awaits inFlight
    turns, setBack,
    ago,       \* history: since the database was last good, and last bad
    reply      \* history: the last answer, and how long ago what it says was so

readinessVars == <<health, probe, cache, waiting, turns, setBack, ago, reply>>

\* "none": no answer of the database in time, or a connection that broke.
Findings == {"good", "bad", "none"}

Longest == Timeout + CacheFor + MaxSetBack
Later(n) == IF n = Longest THEN n ELSE n + 1

Replies(found) == reply' = [found |-> found, ago |-> IF found = "none" THEN 0 ELSE ago[found]]

\* A slip: a result is repeated at the very moment it expires.
CurrentAtExpiry == cache.found # "nothing" /\ cache.left >= 0

Current == cache.left > 0

-----------------------------------------------------------------------------
Check(m) ==
    /\ m \notin waiting
    /\ \/ Current /\ Replies(cache.found) /\ UNCHANGED <<probe, waiting>>
       \/ /\ ~Current
          /\ waiting' = waiting \cup {m}
          /\ probe' = IF probe = NoProbe THEN [age |-> 0, found |-> "none"] ELSE probe
          /\ UNCHANGED reply
    /\ UNCHANGED <<health, cache, turns, setBack, ago>>

\* The database looks at itself; its answer is under way.
Probed ==
    /\ probe # NoProbe /\ probe.found = "none"
    /\ probe' = [probe EXCEPT !.found = health]
    /\ UNCHANGED <<health, cache, waiting, turns, setBack, ago, reply>>

\* evaluate ends: the result is kept, and everybody who waits gets it.
Evaluated(found) ==
    /\ probe' = NoProbe /\ waiting' = {}
    /\ cache' = [found |-> found, left |-> CacheFor]
    /\ Replies(found)
    /\ UNCHANGED <<health, turns, setBack, ago>>

ProbeAnswers == probe # NoProbe /\ probe.found # "none" /\ Evaluated(probe.found)
ProbeBreaks == probe # NoProbe /\ Evaluated("none")
ProbeTimesOut == probe # NoProbe /\ probe.age = Timeout /\ Evaluated("none")

-----------------------------------------------------------------------------
\* The timer of a probe fires when it is due.
ReadinessTick ==
    /\ probe # NoProbe => probe.age < Timeout
    /\ probe' = IF probe = NoProbe THEN probe ELSE [probe EXCEPT !.age = @ + 1]
    /\ cache' = [cache EXCEPT !.left = IF @ = -MaxSetBack THEN @ ELSE @ - 1]
    /\ ago' = [h \in DOMAIN ago |-> IF h = health THEN 0 ELSE Later(ago[h])]
    /\ UNCHANGED <<health, waiting, turns, setBack, reply>>

DatabaseTurns ==
    /\ turns < MaxTurns /\ turns' = turns + 1
    /\ \E h \in {"good", "bad"} \ {health}: health' = h /\ ago' = [ago EXCEPT ![h] = 0]
    /\ UNCHANGED <<probe, cache, waiting, setBack, reply>>

\* What had expired a moment ago is current again.
ClockSetBack ==
    /\ setBack < MaxSetBack /\ setBack' = setBack + 1
    /\ cache.found # "nothing" /\ cache' = [cache EXCEPT !.left = @ + 1]
    /\ UNCHANGED <<health, probe, waiting, turns, ago, reply>>

ReadinessInit ==
    /\ health \in {"good", "bad"}
    /\ probe = NoProbe /\ cache = [found |-> "nothing", left |-> -MaxSetBack] /\ waiting = {}
    /\ turns = 0 /\ setBack = 0
    /\ ago = [h \in {"good", "bad"} |-> IF h = health THEN 0 ELSE Longest]
    /\ reply = [found |-> "none", ago |-> 0]

ReadinessNext ==
    \/ \E m \in Monitors: Check(m)
    \/ Probed \/ ProbeAnswers \/ ProbeBreaks \/ ProbeTimesOut
    \/ ReadinessTick \/ DatabaseTurns \/ ClockSetBack

ReadinessSpec == ReadinessInit /\ [][ReadinessNext]_readinessVars

-----------------------------------------------------------------------------
\* An answer was true of the database a bounded while ago, whoever shared whose probe.
RepliesRecent == reply.found # "none" => reply.ago <= Timeout + (IF CacheFor = 0 THEN 0 ELSE CacheFor - 1) + setBack

\* Nobody waits but for a probe that is under way, and so for its timeout at most.
NobodyForgotten == waiting # {} => probe # NoProbe

\* readiness.service.ts
ReadinessInv == RepliesRecent /\ NobodyForgotten

-----------------------------------------------------------------------------
(* The inductive invariant behind it *)

ReadinessTyped ==
    /\ health \in {"good", "bad"}
    /\ probe \in [age: 0..Timeout, found: Findings] \cup {NoProbe}
    /\ cache \in [found: Findings \cup {"nothing"}, left: Int]
    /\ setBack \in 0..MaxSetBack
    /\ ago \in [{"good", "bad"} -> Nat]
    /\ reply \in [found: Findings, ago: Nat]

\* The database is as it is now, and was as a probe found it while the probe was on its way.
ProbeRecent ==
    /\ ago[health] = 0
    /\ probe # NoProbe /\ probe.found # "none" => ago[probe.found] <= probe.age

\* A result grows old as its time runs out, but for what the clock was set back; one whose
\* time has been out for longer than that never comes back to life.
CacheRecent ==
    \/ cache.left + MaxSetBack <= setBack
    \/ /\ cache.found # "nothing"
       /\ cache.found # "none" => ago[cache.found] + cache.left <= Timeout + CacheFor + setBack

ReadinessIndInv == ReadinessInv /\ ReadinessTyped /\ ProbeRecent /\ CacheRecent
=============================================================================
