------------------------- MODULE NotificationIntake -------------------------
(***************************************************************************)
(* Event intake (NotificationIntakeService and migration 202609080001),    *)
(* composed with the delivery ledger it fills and drains.                  *)
(*                                                                         *)
(* All requests carry the same event identity; requests of other events    *)
(* meet them only in the ledger.  A caller's retry is one more request.    *)
(* Recipients with a normalized user get a delivery row, named here by the *)
(* recipient (Deliveries); the others are sent to directly.  A request is  *)
(* also a worker of the ledger, restricted to its own recipients; the      *)
(* remaining workers are the scheduler's.                                  *)
(***************************************************************************)
EXTENDS NotificationDelivery

CONSTANTS
  Requests,              \* requests for the one identity
  Recipients,            \* everyone a request may be addressed to
  Eligible,              \* Eligible[r]: whom the resolver finds for r
  Payload,               \* Payload[r]: what r hashes to
  MaxRounds,             \* batches of processDue in one dispatch
  MaxLapses              \* bound: failures and crashes, those of the ledger included

ASSUME IntakeAssumption ==
  /\ Requests \subseteq Workers
  /\ Deliveries \subseteq Recipients
  /\ IsFiniteSet(Recipients)
  /\ None \notin Requests
  /\ Eligible \in [Requests -> SUBSET Recipients]
  /\ \A r \in Requests : /\ Event[r] = Deliveries
                         /\ Scope[r] = Eligible[r] \intersect Deliveries
  /\ MaxRounds \in Nat \ {0}
  /\ MaxLapses \in Nat

VARIABLES
  \* notification_events and notifications, for the identity
  event,                 \* whether it is stored, and whether dispatched
  payload,               \* payload_hash, None before
  expansion,             \* recipients recorded when it was created
  summary,               \* dispatch_sent and dispatch_failed
  \* the requests
  owner,                 \* the active map's entry
  stage,                 \* where send is
  rounds,                \* batches processed
  attempted,             \* rows claimed in the latest batch
  direct,                \* unrouted recipients still to be sent to
  counts,                \* sent and failed, as far as counted
  \* history and bound
  mails,                 \* direct messages that reached a recipient
  lapses

stored == <<event, payload, expansion, summary>>
request == <<owner, stage, rounds, attempted, direct, counts>>
ivars == <<vars, stored, request, mails, lapses>>

Unrouted == Recipients \ Deliveries
NoCounts == [sent |-> 0, failed |-> 0]
Running == {"intake", "dispatch", "broadcast"}

IntakeTypeOK ==
  /\ TypeOK
  /\ event \in {"none", "accepted", "dispatched"}
  /\ payload \in {Payload[r] : r \in Requests} \union {None}
  /\ expansion \in SUBSET Recipients
  /\ summary \in [sent : Nat, failed : Nat]
  /\ owner \in Requests \union {None}
  /\ stage \in [Requests -> {"new", "answered", "conflict", "error"} \union Running]
  /\ rounds \in [Requests -> 0 .. MaxRounds]
  /\ attempted \in [Requests -> SUBSET Deliveries]
  /\ direct \in [Requests -> SUBSET Unrouted]
  /\ counts \in [Requests -> [sent : Nat, failed : Nat]]
  /\ mails \in [Unrouted -> Nat]
  /\ lapses \in 0 .. MaxLapses

IntakeInit ==
  /\ Init
  /\ event = "none"
  /\ payload = None
  /\ expansion = {}
  /\ summary = NoCounts
  /\ owner = None
  /\ stage = [r \in Requests |-> "new"]
  /\ rounds = [r \in Requests |-> 0]
  /\ attempted = [r \in Requests |-> {}]
  /\ direct = [r \in Requests |-> {}]
  /\ counts = [r \in Requests |-> NoCounts]
  /\ mails = [u \in Unrouted |-> 0]
  /\ lapses = 0

------------------------------------------------------------------------------
(* send: one request of an identity at a time. *)

\* No operation for the identity is in the active map.
Free == owner = None

\* The request's operation enters the active map; the others go on waiting.
Begin(r) ==
  /\ stage[r] = "new"
  /\ Free
  /\ owner' = r
  /\ stage' = [stage EXCEPT ![r] = "intake"]
  /\ UNCHANGED <<vars, stored, rounds, attempted, direct, counts, mails, lapses>>

\* Mutant: a failed operation stays in the map.
SettleKeeps(r, outcome) ==
  /\ owner' = IF outcome = "error" THEN owner ELSE None
  /\ stage' = [stage EXCEPT ![r] = outcome]
  /\ rounds' = [rounds EXCEPT ![r] = 0]
  /\ attempted' = [attempted EXCEPT ![r] = {}]
  /\ direct' = [direct EXCEPT ![r] = {}]

\* The operation settles and leaves the map, whatever its outcome.
Settle(r, outcome) ==
  /\ owner' = None
  /\ stage' = [stage EXCEPT ![r] = outcome]
  /\ rounds' = [rounds EXCEPT ![r] = 0]
  /\ attempted' = [attempted EXCEPT ![r] = {}]
  /\ direct' = [direct EXCEPT ![r] = {}]

Advance(r, next) ==
  /\ stage' = [stage EXCEPT ![r] = next]
  /\ UNCHANGED <<owner, rounds, attempted>>

------------------------------------------------------------------------------
(* persistAndDispatch. *)

\* intake_notification_event inserts the event, a notification for every
\* recipient and a delivery for every routed one.
CreateEvent(r) ==
  /\ event = "none"
  /\ event' = "accepted"
  /\ payload' = Payload[r]
  /\ expansion' = Eligible[r]
  /\ Insert(Eligible[r] \intersect Deliveries)
  /\ UNCHANGED summary

Accept(r) ==
  /\ stage[r] = "intake"
  /\ CreateEvent(r)
  /\ Advance(r, "dispatch")
  /\ UNCHANGED <<direct, counts, mails, lapses>>

\* Mutant: a different payload is not noticed.
ConflictsNever(r) == FALSE

Conflicts(r) == event # "none" /\ payload # Payload[r]

Reject(r) ==
  /\ stage[r] = "intake"
  /\ Conflicts(r)
  /\ Settle(r, "conflict")
  /\ UNCHANGED <<vars, stored, counts, mails, lapses>>

\* Mutant: the marker is not consulted.
UnrecordedAlways == TRUE

\* dispatched_at is null: the event was accepted, its dispatch not recorded.
Unrecorded == event = "accepted"

\* REPLAY: the stored summary is the answer.
Replay(r) ==
  /\ stage[r] = "intake"
  /\ event # "none" /\ ~Unrecorded
  /\ ~Conflicts(r)
  /\ counts' = [counts EXCEPT ![r] = summary]
  /\ Settle(r, "answered")
  /\ UNCHANGED <<vars, stored, mails, lapses>>

\* RESUMED: the dispatch starts over.
Resume(r) ==
  /\ stage[r] = "intake"
  /\ event # "none" /\ Unrecorded
  /\ ~Conflicts(r)
  /\ Advance(r, "dispatch")
  /\ UNCHANGED <<vars, stored, direct, counts, mails, lapses>>

InBounds == faults' + lapses' <= MaxLapses

Fail(r) ==
  /\ faults + lapses < MaxLapses
  /\ lapses' = lapses + 1
  /\ Settle(r, "error")

\* The call fails, or commits and its answer is lost.
IntakeFails(r) ==
  /\ stage[r] = "intake"
  /\ Fail(r)
  /\ CreateEvent(r) \/ UNCHANGED <<vars, stored>>
  /\ UNCHANGED <<counts, mails>>

\* One processDue call over the event's rows begins.
Round(r) ==
  /\ stage[r] = "dispatch"
  /\ rounds[r] < MaxRounds
  /\ rounds[r] = 0 \/ attempted[r] # {}
  /\ FindDue(r)
  /\ rounds' = [rounds EXCEPT ![r] = @ + 1]
  /\ attempted' = [attempted EXCEPT ![r] = {}]
  /\ UNCHANGED <<stored, owner, stage, direct, counts, mails, lapses>>

\* It goes on; attempted counts the claimed rows.
Deliver(r) ==
  /\ stage[r] = "dispatch"
  /\ Proceed(r)
  /\ attempted' = [attempted EXCEPT ![r] = @ \union ({hand'[r]} \ {None})]
  /\ UNCHANGED <<stored, owner, stage, rounds, direct, counts, mails, lapses>>

\* A failed markDelivered is caught and turned into a failed delivery.
DeliverDegrades(r) ==
  /\ stage[r] = "dispatch"
  /\ MarkDeliveredFails(r)
  /\ UNCHANGED <<stored, request, mails, lapses>>
  /\ InBounds

\* A failed claim or markFailed makes processDue, and with it the request, fail.
DeliverFails(r) ==
  /\ stage[r] = "dispatch"
  /\ MarkFailedFails(r) \/ \E d \in Deliveries : ClaimFails(r, d)
  /\ Settle(r, "error")
  /\ UNCHANGED <<stored, counts, mails, lapses>>
  /\ InBounds

\* The loop ends after a call that attempted nothing, or after MaxRounds.
Drained(r) ==
  /\ stage[r] = "dispatch"
  /\ pc[r] = "idle"
  /\ \/ rounds[r] = MaxRounds
     \/ rounds[r] > 0 /\ attempted[r] = {}
     \/ {} \in Findable(r)

\* Unrouted recipients on record that this request cannot address.
Missing(r) == (expansion \intersect Unrouted) \ Eligible[r]

\* dispatchState: what is delivered by now, and everything else.
Summarise(r) ==
  /\ Drained(r)
  /\ LET routed == expansion \intersect Deliveries
         delivered == {d \in routed : state[d] = "DELIVERED"}
     IN  counts' = [counts EXCEPT ![r] =
                      [sent |-> Cardinality(delivered),
                       failed |-> Cardinality(routed \ delivered) + Cardinality(Missing(r))]]
  /\ direct' = [direct EXCEPT ![r] = expansion \intersect Unrouted \intersect Eligible[r]]
  /\ Advance(r, "broadcast")
  /\ UNCHANGED <<vars, stored, mails, lapses>>

SummariseFails(r) ==
  /\ Drained(r)
  /\ Fail(r)
  /\ UNCHANGED <<vars, stored, counts, mails>>

Got(u) == mails' = [mails EXCEPT ![u] = @ + 1]

\* sendAll, one recipient at a time in any order: only a fulfilled send
\* counts as sent, though an unanswered one may have arrived.
Broadcast(r, u) ==
  /\ stage[r] = "broadcast"
  /\ u \in direct[r]
  /\ direct' = [direct EXCEPT ![r] = @ \ {u}]
  /\ \/ Got(u) /\ counts' = [counts EXCEPT ![r].sent = @ + 1]
     \/ /\ Got(u) \/ UNCHANGED mails
        /\ counts' = [counts EXCEPT ![r].failed = @ + 1]
  /\ UNCHANGED <<vars, stored, owner, stage, rounds, attempted, lapses>>

\* completeDispatch writes only where dispatched_at is null.
RecordSummary(r) ==
  IF Unrecorded
    THEN /\ event' = "dispatched"
         /\ summary' = counts[r]
         /\ UNCHANGED <<payload, expansion>>
    ELSE UNCHANGED stored

\* The request answers with its own counts.
Record(r) ==
  /\ stage[r] = "broadcast"
  /\ direct[r] = {}
  /\ RecordSummary(r)
  /\ Settle(r, "answered")
  /\ UNCHANGED <<vars, counts, mails, lapses>>

\* The write fails, or commits and its answer is lost.
RecordFails(r) ==
  /\ stage[r] = "broadcast"
  /\ direct[r] = {}
  /\ RecordSummary(r) \/ UNCHANGED stored
  /\ Fail(r)
  /\ UNCHANGED <<vars, counts, mails>>

------------------------------------------------------------------------------
(* The rest of the process. *)

Schedule(w) ==
  /\ w \notin Requests
  /\ FindDue(w) \/ Proceed(w) \/ Fault(w)
  /\ UNCHANGED <<stored, request, mails, lapses>>
  /\ InBounds

Pass ==
  /\ Tick
  /\ UNCHANGED <<stored, request, mails, lapses>>

\* The process crashes; requests in it are never answered.
CrashAll ==
  /\ \/ Crash /\ UNCHANGED lapses
     \/ /\ \A w \in Workers : pc[w] = "idle"
        /\ \E r \in Requests : stage[r] \in Running
        /\ lapses' = lapses + 1
        /\ UNCHANGED vars
  /\ InBounds
  /\ owner' = None
  /\ stage' = [r \in Requests |-> IF stage[r] \in Running THEN "error" ELSE stage[r]]
  /\ rounds' = [r \in Requests |-> 0]
  /\ attempted' = [r \in Requests |-> {}]
  /\ direct' = [r \in Requests |-> {}]
  /\ UNCHANGED <<stored, counts, mails>>

Serve(r) ==
  \/ Begin(r)
  \/ Accept(r) \/ Reject(r) \/ Replay(r) \/ Resume(r)
  \/ Round(r) \/ Deliver(r) \/ Summarise(r)
  \/ \E u \in Unrouted : Broadcast(r, u)
  \/ Record(r)

ServeFails(r) ==
  \/ IntakeFails(r)
  \/ DeliverDegrades(r) \/ DeliverFails(r)
  \/ SummariseFails(r)
  \/ RecordFails(r)

IntakeNext ==
  \/ \E r \in Requests : Serve(r) \/ ServeFails(r)
  \/ \E w \in Workers : Schedule(w)
  \/ Pass
  \/ CrashAll

IntakeSpec == IntakeInit /\ [][IntakeNext]_ivars

\* Every call ends: while some request can go on, one does.  Nothing is assumed
\* of the clock, nor of the scheduler, for a request waits for neither.
IntakeFairSpec == IntakeSpec /\ WF_ivars(\E r \in Requests : Serve(r))

------------------------------------------------------------------------------
(* What must hold. *)

Received(c) == IF c \in Deliveries THEN sends[c] > 0 ELSE mails[c] > 0

Answered(r) == stage[r] = "answered"

\* A request answered with failed = 0 (success: true) means that everyone the
\* event was expanded to has the message, and this request's message at
\* that: also when it was resumed after a crash, replayed, or resolved other
\* recipients than the request that created the event.
SuccessMeansReceived ==
  \A r \in Requests : Answered(r) /\ counts[r].failed = 0 =>
    payload = Payload[r] /\ \A c \in expansion : Received(c)

\* Everyone on record is counted as sent or failed, once, in every answer and
\* in the stored summary.
CountsComplete ==
  /\ \A r \in Requests : Answered(r) =>
       counts[r].sent + counts[r].failed = Cardinality(expansion)
  /\ event = "dispatched" => summary.sent + summary.failed = Cardinality(expansion)

\* Without a failure in between, no repetition of the request, concurrent or
\* later, sends an unrouted recipient the message again: there is no row to
\* prevent it, only the active map and the dispatched_at marker.
RepeatsNeedFailures == \A u \in Unrouted : mails[u] <= 1 + faults + lapses

\* The three together, for requests of the right shape: what callers are told is
\* true and complete, and they did not pay for it with repeated messages.
IntakeInv == IntakeTypeOK /\ SuccessMeansReceived /\ CountsComplete /\ RepeatsNeedFailures

\* The first recorded dispatch stands: every later replay gets the same answer.
SummaryIsFinal ==
  [][event = "dispatched" => UNCHANGED stored]_ivars

\* Intake uses the ledger as its own workers do: every step of the composition
\* is a step of NotificationDelivery or leaves the ledger alone, so what is
\* proved there holds here.
DeliveryLedger == Init /\ [][Next]_vars

\* No request waits for the one before it, and none is left without an answer or
\* an error.
AllSettled == \A r \in Requests : stage[r] \in {"answered", "conflict", "error"}

\* docs/adr/P0-05: an unrouted recipient gets "no replay resume", "a replay
\* returns the stored summary and re-sends nothing".
UnroutedNotResent == \A u \in Unrouted : mails[u] <= 1

------------------------------------------------------------------------------
(* The inductive invariant behind them, where no worker stalls. *)

\* One request at a time, and what the event is while it is dispatched and
\* once it is answered.
IntakeOrder ==
  \A r \in Requests :
    /\ stage[r] \in Running <=> owner = r
    /\ stage[r] \in {"dispatch", "broadcast"} => event = "accepted" /\ payload = Payload[r]
    /\ Answered(r) => event = "dispatched" /\ payload = Payload[r]

\* Counts c are complete and true, but for the recipients still to be sent to.
Told(c, left) ==
  /\ c.sent + c.failed + Cardinality(left) = Cardinality(expansion)
  /\ c.failed = 0 => \A x \in expansion \ left : Received(x)

CountsTrue ==
  /\ \A r \in Requests :
       /\ stage[r] = "broadcast" => direct[r] \subseteq expansion /\ Told(counts[r], direct[r])
       /\ Answered(r) => Told(counts[r], {})
  /\ event = "dispatched" => Told(summary, {})

\* A message no failure accounts for is one of the recorded dispatch or of the
\* broadcast under way.
MailsBalanced ==
  \A u \in Unrouted :
    /\ mails[u] <= 1 + faults + lapses
    /\ \/ event = "dispatched"
       \/ \E r \in Requests : stage[r] = "broadcast" /\ u \notin direct[r]
       \/ mails[u] <= faults + lapses

IntakeIndInv == IndInv /\ IntakeTypeOK /\ IntakeOrder /\ CountsTrue /\ MailsBalanced

==============================================================================
