------------------------ MODULE NotificationDelivery ------------------------
(***************************************************************************)
(* The delivery ledger (notification_deliveries) and the workers that      *)
(* drain it with NotificationDeliveryService.processDue: the reminder      *)
(* scheduler's, which ranges over every row, and those of event intake,    *)
(* which range over the rows of their event and keep the rows of their     *)
(* recipients.  All run in one process, which may crash.                   *)
(*                                                                         *)
(* Time passes in ticks of five minutes and is kept relative: how long     *)
(* until a row is due, how long since it was written.  The two counters    *)
(* stop where the code no longer tells them apart, so runs have no time    *)
(* bound.  A claim compares updated_at, which every write changes, with    *)
(* what the worker read: it holds for rows not written since.              *)
(***************************************************************************)
EXTENDS Integers, FiniteSets

CONSTANTS
  Deliveries,            \* rows of notification_deliveries
  Workers,               \* callers of processDue
  Event,                 \* Event[w]: the rows worker w's query ranges over
  Scope,                 \* Scope[w]: those of them it keeps
  None,                  \* no row in hand
  MaxAttempts,           \* max_attempts
  BatchLimit,            \* the limit of findDue
  Stale,                 \* ticks until a PROCESSING row may be reclaimed
  FirstDelay,            \* ticks between the first attempt and the second
  LaterDelay,            \* ticks between later attempts
  MaxFaults,             \* bound: crashes and failed or unanswered calls
  MaxStalls              \* bound: times a live worker outlasts Stale

ASSUME DeliveryAssumption ==
  /\ Event \in [Workers -> SUBSET Deliveries]
  /\ Scope \in [Workers -> SUBSET Deliveries]
  /\ \A w \in Workers : Scope[w] \subseteq Event[w]
  /\ None \notin Deliveries
  /\ MaxAttempts \in Nat \ {0}
  /\ BatchLimit \in Nat \ {0}
  /\ Stale \in Nat \ {0}
  /\ FirstDelay \in Nat \ {0}
  /\ LaterDelay \in Nat
  /\ FirstDelay <= LaterDelay
  /\ MaxFaults \in Nat
  /\ MaxStalls \in Nat

VARIABLES
  \* notification_deliveries
  state,                 \* the column, "NONE" before the row is inserted
  attempts,              \* attempt_count
  wait,                  \* ticks until next_attempt_at
  age,                   \* ticks a row has been PROCESSING, no more than Stale
  \* the workers
  pc,                    \* where processDue is
  batch,                 \* rows found and not yet taken up
  unwritten,             \* rows of the last batch not written since they were found
  hand,                  \* the claimed row
  attempt,               \* claimed.attempt_count + 1
  since,                 \* ticks since the batch's now, no more than LaterDelay
  failure,               \* class of the failure to record
  \* history and bounds
  sends,                 \* messages that reached the recipient
  reclaims,              \* PROCESSING rows claimed again
  faults, stalls

rows == <<state, attempts, wait, age>>
claim == <<hand, attempt, failure>>
worker == <<pc, batch, unwritten, claim, since>>
history == <<sends, reclaims>>
vars == <<rows, worker, history, faults, stalls>>

Terminal == {"DELIVERED", "FAILED"}
Open == {"PENDING", "PROCESSING"}
Holding == {"send", "delivered", "failed"}

RowsTypeOK ==
  /\ state \in [Deliveries -> {"NONE"} \union Open \union Terminal]
  /\ attempts \in [Deliveries -> 0 .. MaxAttempts]
  /\ wait \in [Deliveries -> 0 .. LaterDelay]
  /\ age \in [Deliveries -> 0 .. Stale]

WorkersTypeOK ==
  /\ pc \in [Workers -> {"idle", "claim"} \union Holding]
  /\ batch \in [Workers -> SUBSET Deliveries]
  /\ unwritten \in [Workers -> SUBSET Deliveries]
  /\ hand \in [Workers -> Deliveries \union {None}]
  /\ attempt \in [Workers -> 0 .. MaxAttempts]
  /\ since \in [Workers -> 0 .. LaterDelay]
  /\ failure \in [Workers -> {"TRANSIENT", "PERMANENT"}]

HistoryTypeOK ==
  /\ sends \in [Deliveries -> Nat]
  /\ reclaims \in [Deliveries -> Nat]
  /\ faults \in 0 .. MaxFaults
  /\ stalls \in 0 .. MaxStalls

TypeOK == RowsTypeOK /\ WorkersTypeOK /\ HistoryTypeOK

Init ==
  /\ state = [d \in Deliveries |-> "NONE"]
  /\ attempts = [d \in Deliveries |-> 0]
  /\ wait = [d \in Deliveries |-> 0]
  /\ age = [d \in Deliveries |-> 0]
  /\ pc = [w \in Workers |-> "idle"]
  /\ batch = [w \in Workers |-> {}]
  /\ unwritten = [w \in Workers |-> {}]
  /\ hand = [w \in Workers |-> None]
  /\ attempt = [w \in Workers |-> 0]
  /\ since = [w \in Workers |-> 0]
  /\ failure = [w \in Workers |-> "TRANSIENT"]
  /\ sends = [d \in Deliveries |-> 0]
  /\ reclaims = [d \in Deliveries |-> 0]
  /\ faults = 0
  /\ stalls = 0

------------------------------------------------------------------------------
(* The table and the clock. *)

\* Notifications are routed, one reminder's or all of an event's in one
\* transaction: their deliveries are due at once.
Insert(new) ==
  /\ \A d \in new : state[d] = "NONE"
  /\ state' = [d \in Deliveries |-> IF d \in new THEN "PENDING" ELSE state[d]]
  /\ UNCHANGED <<attempts, wait, age, worker, history, faults, stalls>>

\* Live workers that outlast the reclaim threshold with this tick.
Stalling == {w \in Workers : hand[w] # None /\ state[hand[w]] = "PROCESSING"
                                            /\ age[hand[w]] + 1 = Stale}

Until(t) == IF t > 0 THEN t - 1 ELSE 0
UpTo(cap, t) == IF t < cap THEN t + 1 ELSE cap

Tick ==
  /\ stalls' = IF Stalling = {} THEN stalls ELSE stalls + 1
  /\ stalls' <= MaxStalls
  /\ wait' = [d \in Deliveries |-> Until(wait[d])]
  /\ age' = [d \in Deliveries |-> IF state[d] = "PROCESSING" THEN UpTo(Stale, age[d])
                                                             ELSE age[d]]
  /\ since' = [w \in Workers |-> IF pc[w] = "idle" THEN since[w]
                                                   ELSE UpTo(LaterDelay, since[w])]
  /\ UNCHANGED <<state, attempts, pc, batch, unwritten, claim, history, faults>>

\* An update of the row of d: its updated_at changes under every reader.
Write(d, newState, count, due) ==
  /\ state' = [state EXCEPT ![d] = newState]
  /\ attempts' = [attempts EXCEPT ![d] = count]
  /\ wait' = [wait EXCEPT ![d] = due]
  /\ age' = [age EXCEPT ![d] = 0]
  /\ unwritten' = [w \in Workers |-> unwritten[w] \ {d}]

\* The worker's locals: gone when processDue returns or throws.
Goto(w, place) ==
  /\ pc' = [pc EXCEPT ![w] = place]
  /\ since' = IF place = "idle" THEN [since EXCEPT ![w] = 0] ELSE since

------------------------------------------------------------------------------
(* processDue. *)

Due(w) == {d \in Event[w] : state[d] \in Open /\ wait[d] = 0}

\* A slip: interrupted rows are never found.
TakeableNever(d) == state[d] = "PENDING"

Takeable(d) == state[d] = "PENDING" \/ age[d] >= Stale

\* findDue: the limit applies before the rows in other hands, or addressed to
\* recipients the request does not have, are left out.  How long a row has
\* been due is not kept, so any due row may come first.
Findable(w) ==
  {{d \in found \intersect Scope[w] : Takeable(d)} : found \in
     {f \in SUBSET Due(w) : /\ Cardinality(f) <= BatchLimit
                            /\ Cardinality(f) = BatchLimit \/ f = Due(w)}}

FindDue(w) ==
  /\ pc[w] = "idle"
  /\ \E found \in Findable(w) \ {{}} :
       /\ batch' = [batch EXCEPT ![w] = found]
       /\ unwritten' = [unwritten EXCEPT ![w] = found]
  /\ pc' = [pc EXCEPT ![w] = "claim"]
  /\ since' = [since EXCEPT ![w] = 0]
  /\ UNCHANGED <<rows, claim, history, faults, stalls>>

\* Mutant: the claim compares the state alone.
ClaimableByState(w, d) == state[d] \in Open

\* The compare-and-set of claim finds the row as it was read.
Claimable(w, d) == d \in unwritten[w]

\* After the last row of the batch processDue returns.
Rest(left) == IF left = {} THEN "idle" ELSE "claim"

\* The row is set to PROCESSING.
ClaimRow(d) ==
  /\ Write(d, "PROCESSING", attempts[d], wait[d])
  /\ reclaims' = IF state[d] = "PROCESSING" THEN [reclaims EXCEPT ![d] = @ + 1]
                                            ELSE reclaims

Claim(w, d) ==
  /\ pc[w] = "claim"
  /\ d \in batch[w]
  /\ Claimable(w, d)
  /\ ClaimRow(d)
  /\ batch' = [batch EXCEPT ![w] = @ \ {d}]
  /\ hand' = [hand EXCEPT ![w] = d]
  /\ attempt' = [attempt EXCEPT ![w] = attempts[d] + 1]
  /\ pc' = [pc EXCEPT ![w] = "send"]
  /\ UNCHANGED <<since, failure, sends, faults, stalls>>

\* Another worker wrote the row in the meantime: the loop goes on.
ClaimLost(w, d) ==
  /\ pc[w] = "claim"
  /\ d \in batch[w]
  /\ ~Claimable(w, d)
  /\ batch' = [batch EXCEPT ![w] = @ \ {d}]
  /\ Goto(w, Rest(batch'[w]))
  /\ UNCHANGED <<rows, unwritten, claim, history, faults, stalls>>

\* Nothing is in hand any more.
Release(w) ==
  /\ hand' = [hand EXCEPT ![w] = None]
  /\ attempt' = [attempt EXCEPT ![w] = 0]
  /\ failure' = [failure EXCEPT ![w] = "TRANSIENT"]

\* processDue throws: the rest of the batch is dropped.
Drop(w) ==
  /\ faults < MaxFaults
  /\ faults' = faults + 1
  /\ batch' = [batch EXCEPT ![w] = {}]
  /\ Release(w)
  /\ Goto(w, "idle")
  /\ UNCHANGED stalls

\* The claim fails, or commits and its answer is lost.
ClaimFails(w, d) ==
  /\ pc[w] = "claim"
  /\ d \in batch[w]
  /\ \/ Claimable(w, d) /\ ClaimRow(d)
     \/ UNCHANGED <<rows, unwritten, reclaims>>
  /\ Drop(w)
  /\ UNCHANGED sends

\* The message goes out and Telegram accepts it.
SendAccepted(w) ==
  /\ pc[w] = "send"
  /\ sends' = [sends EXCEPT ![hand[w]] = @ + 1]
  /\ pc' = [pc EXCEPT ![w] = "delivered"]
  /\ UNCHANGED <<rows, batch, unwritten, claim, since, reclaims, faults, stalls>>

\* A timeout, a network or server error, or a rate limit: TRANSIENT, though
\* the recipient may have got the message.
SendUncertain(w) ==
  /\ pc[w] = "send"
  /\ sends' \in {sends, [sends EXCEPT ![hand[w]] = @ + 1]}
  /\ failure' = [failure EXCEPT ![w] = "TRANSIENT"]
  /\ pc' = [pc EXCEPT ![w] = "failed"]
  /\ UNCHANGED <<rows, batch, unwritten, hand, attempt, since, reclaims, faults, stalls>>

\* resolveChannel finds no unique active channel or cannot read the database,
\* or Telegram rejects the message: PERMANENT.
SendRejected(w) ==
  /\ pc[w] = "send"
  /\ failure' = [failure EXCEPT ![w] = "PERMANENT"]
  /\ pc' = [pc EXCEPT ![w] = "failed"]
  /\ UNCHANGED <<rows, batch, unwritten, hand, attempt, since, history, faults, stalls>>

\* markDelivered writes by id alone.
MarkDelivered(w) ==
  /\ pc[w] = "delivered"
  /\ Write(hand[w], "DELIVERED", attempt[w], 0)
  /\ Release(w)
  /\ Goto(w, Rest(batch[w]))
  /\ UNCHANGED <<batch, history, faults, stalls>>

\* The write fails, or commits and its answer is lost: the database error is
\* classified like a failed send, and as PERMANENT.
MarkDeliveredFails(w) ==
  /\ pc[w] = "delivered"
  /\ faults < MaxFaults
  /\ faults' = faults + 1
  /\ \/ Write(hand[w], "DELIVERED", attempt[w], 0)
     \/ UNCHANGED <<rows, unwritten>>
  /\ failure' = [failure EXCEPT ![w] = "PERMANENT"]
  /\ pc' = [pc EXCEPT ![w] = "failed"]
  /\ UNCHANGED <<batch, hand, attempt, since, history, stalls>>

\* Mutant: one attempt too many.
FinalLate(w) == failure[w] = "PERMANENT" \/ attempt[w] > MaxAttempts

\* A permanent failure, or the last attempt.
Final(w) == failure[w] = "PERMANENT" \/ attempt[w] >= MaxAttempts

\* The back-off counts from the moment the batch was read.
Backoff(w) ==
  LET delay == IF attempt[w] <= 1 THEN FirstDelay ELSE LaterDelay
  IN  IF since[w] < delay THEN delay - since[w] ELSE 0

FailRow(w) ==
  IF Final(w) THEN Write(hand[w], "FAILED", attempt[w], 0)
              ELSE Write(hand[w], "PENDING", attempt[w], Backoff(w))

\* markFailed writes by id alone.
MarkFailed(w) ==
  /\ pc[w] = "failed"
  /\ FailRow(w)
  /\ Release(w)
  /\ Goto(w, Rest(batch[w]))
  /\ UNCHANGED <<batch, history, faults, stalls>>

\* The write fails, or commits and its answer is lost: processDue throws.
MarkFailedFails(w) ==
  /\ pc[w] = "failed"
  /\ FailRow(w) \/ UNCHANGED <<rows, unwritten>>
  /\ Drop(w)
  /\ UNCHANGED history

\* There is one process: every worker's locals are lost.
Crash ==
  /\ \E w \in Workers : pc[w] # "idle"
  /\ faults < MaxFaults
  /\ faults' = faults + 1
  /\ pc' = [w \in Workers |-> "idle"]
  /\ batch' = [w \in Workers |-> {}]
  /\ unwritten' = [w \in Workers |-> {}]
  /\ hand' = [w \in Workers |-> None]
  /\ attempt' = [w \in Workers |-> 0]
  /\ since' = [w \in Workers |-> 0]
  /\ failure' = [w \in Workers |-> "TRANSIENT"]
  /\ UNCHANGED <<rows, history, stalls>>

Proceed(w) ==
  \/ \E d \in Deliveries : Claim(w, d) \/ ClaimLost(w, d)
  \/ SendAccepted(w) \/ SendUncertain(w) \/ SendRejected(w)
  \/ MarkDelivered(w) \/ MarkFailed(w)

Fault(w) ==
  \/ \E d \in Deliveries : ClaimFails(w, d)
  \/ MarkDeliveredFails(w) \/ MarkFailedFails(w)

Next ==
  \/ \E new \in SUBSET Deliveries : Insert(new)
  \/ Tick
  \/ \E w \in Workers : FindDue(w) \/ Proceed(w) \/ Fault(w)
  \/ Crash

Spec == Init /\ [][Next]_vars

\* Every call a worker makes ends.  The scheduler calls processDue on every
\* tick of its timer; a worker that sees only its event's rows is a request,
\* which nothing repeats.
FairSpec ==
  /\ Spec
  /\ WF_vars(Tick)
  /\ \A w \in Workers : WF_vars(Proceed(w))
  /\ \A w \in Workers : Scope[w] = Deliveries => WF_vars(FindDue(w))

------------------------------------------------------------------------------
(* What must hold. *)

\* As long as a worker is done with a row before the reclaim threshold, no
\* other worker has the same row in hand: not after a crash, not after a
\* claim whose answer was lost, and whoever found the row when.
OneHolder ==
  \A v, w \in Workers : v # w /\ hand[v] # None => hand[v] # hand[w]

\* Then, too, a recipient gets a message at most max_attempts times and once
\* more for each time an interrupted row had to be reclaimed.
SendsBounded == \A d \in Deliveries : sends[d] <= MaxAttempts + reclaims[d]

\* A row recorded as DELIVERED was sent: no failure, crash or late write of
\* another worker records a delivery nobody got.
DeliveredMeansSent == \A d \in Deliveries : state[d] = "DELIVERED" => sends[d] > 0

\* A finished delivery is never taken up again (as long as no worker outlasts
\* the threshold), although markDelivered and markFailed write by id alone.
NeverReopened ==
  [][\A d \in Deliveries : state[d] \in Terminal => state'[d] \in Terminal]_vars

\* Every delivery is settled in the end: neither a crash, nor a lost answer,
\* nor a full window of the limit leaves a row PENDING or PROCESSING for ever.
EveryDeliverySettles ==
  \A d \in Deliveries : state[d] \in Open ~> [](state[d] \in Terminal)

\* docs/architecture/task-reminder-notification-foundation.md: "Delivery
\* supports three bounded attempts".
AttemptsBounded == \A d \in Deliveries : sends[d] <= MaxAttempts

------------------------------------------------------------------------------
(* The inductive invariant behind them, where no worker stalls. *)

\* A row as some worker read it may be claimed; no holder can have it.
UnwrittenTakeable ==
  \A w \in Workers : \A d \in unwritten[w] :
    state[d] = "PENDING" \/ (state[d] = "PROCESSING" /\ age[d] = Stale)

\* The row in hand is the holder's, up to a mark whose answer was lost.
HolderOwnsRow ==
  \A w \in Workers :
    /\ pc[w] \in Holding <=> hand[w] # None
    /\ hand[w] # None =>
         \/ /\ state[hand[w]] = "PROCESSING"
            /\ attempt[w] = attempts[hand[w]] + 1
            /\ age[hand[w]] < Stale
         \/ /\ state[hand[w]] = "DELIVERED"
            /\ attempt[w] = attempts[hand[w]]
            /\ pc[w] = "failed" /\ failure[w] = "PERMANENT"

\* Each claim sends at most once, and is recorded as an attempt or reclaimed.
SendsBalanced ==
  \A d \in Deliveries :
    /\ sends[d] <= attempts[d] + reclaims[d] + (IF state[d] = "PROCESSING" THEN 1 ELSE 0)
    /\ state[d] \in Open => attempts[d] < MaxAttempts
    /\ state[d] = "NONE" => attempts[d] = 0

SendsInHand ==
  \A w \in Workers :
    /\ pc[w] = "send" => sends[hand[w]] <= attempts[hand[w]] + reclaims[hand[w]]
    /\ pc[w] = "delivered" => sends[hand[w]] > 0

IndInv ==
  /\ TypeOK
  /\ OneHolder
  /\ UnwrittenTakeable
  /\ HolderOwnsRow
  /\ SendsBalanced
  /\ SendsInHand
  /\ DeliveredMeansSent

==============================================================================
