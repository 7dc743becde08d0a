----------------------------- MODULE AtLeastOnce -----------------------------
(***************************************************************************)
(* What the Telegram poller promises about each update, with no cursor, no *)
(* ledger, no batches and no crashes: an update Telegram has accepted is   *)
(* tried a bounded number of times, each try runs the handler at most      *)
(* once, the update is finished only after a run or after the last try,    *)
(* and nothing happens to it once it is finished.  An update may be        *)
(* excused: Telegram expired it, or an operator moved the cursor past it.  *)
(***************************************************************************)
EXTENDS Integers

CONSTANTS Updates,      \* the update identifiers
          MaxTries      \* claims that may hand an update to the handler

VARIABLES inbox,        \* updates Telegram has accepted
          tries,        \* how often each was handed to the handler
          runs,         \* how often the handler ran for each
          done,         \* updates with a terminal outcome
          excused       \* updates that may be left unhandled

avars == <<inbox, tries, runs, done, excused>>

Open == inbox \ done

AInit == /\ inbox = {}
         /\ tries = [u \in Updates |-> 0]
         /\ runs = [u \in Updates |-> 0]
         /\ done = {}
         /\ excused = {}

Accept(u) == /\ u \notin inbox
             /\ inbox' = inbox \union {u}
             /\ UNCHANGED <<tries, runs, done, excused>>

Try(u) == /\ u \in Open
          /\ tries[u] < MaxTries
          /\ tries' = [tries EXCEPT ![u] = @ + 1]
          /\ UNCHANGED <<inbox, runs, done, excused>>

Run(u) == /\ u \in Open
          /\ runs[u] < tries[u]
          /\ runs' = [runs EXCEPT ![u] = @ + 1]
          /\ UNCHANGED <<inbox, tries, done, excused>>

Finish(u) == /\ u \in Open
             /\ runs[u] > 0 \/ tries[u] = MaxTries
             /\ done' = done \union {u}
             /\ UNCHANGED <<inbox, tries, runs, excused>>

Excuse == /\ excused \subseteq excused'
          /\ excused' \in SUBSET Updates
          /\ UNCHANGED <<inbox, tries, runs, done>>

ANext == \/ \E u \in Updates : Accept(u) \/ Try(u) \/ Run(u) \/ Finish(u)
         \/ Excuse

ASpec == AInit /\ [][ANext]_avars

==============================================================================
