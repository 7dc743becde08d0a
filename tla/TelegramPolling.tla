--------------------------- MODULE TelegramPolling ---------------------------
(***************************************************************************)
(* The Telegram long-polling loop (src/telegram/bot.ts), the durable       *)
(* ledger and cursor it keeps in Postgres (load, claim, complete and       *)
(* force-advance RPCs of migration 202609120001), and Telegram's own       *)
(* queue, which drops an update once a getUpdates call names an offset     *)
(* above it.                                                               *)
(*                                                                         *)
(* Each RPC is one database transaction, so it is one step; its response   *)
(* may be lost after the commit.  The process may crash between any two    *)
(* steps.  Update identifiers arrive in ascending order, with gaps.        *)
(***************************************************************************)
EXTENDS Integers, FiniteSets

CONSTANTS
  MaxUpdateId,           \* bound: largest update identifier
  MaxAttempts,           \* TELEGRAM_UPDATE_MAX_ATTEMPTS
  BatchLimit,            \* most updates one getUpdates call returns
  Malformed,             \* queue entries without a readable update_id
  MaxMalformedBatches,   \* TELEGRAM_MALFORMED_MAX_BATCHES
  MaxFaults,             \* bound: crashes, stops, failed calls
  MaxExpired,            \* bound: updates Telegram gives up on
  MaxForced              \* bound: operator cursor moves

Updates == 0 .. MaxUpdateId
Offsets == 0 .. MaxUpdateId + 1

ASSUME PollingAssumption ==
  /\ MaxUpdateId \in Nat
  /\ MaxAttempts \in Nat \ {0}
  /\ BatchLimit \in Nat \ {0}
  /\ Malformed \subseteq Updates
  /\ MaxMalformedBatches \in Nat \ {0}
  /\ MaxFaults \in Nat
  /\ MaxExpired \in Nat
  /\ MaxForced \in Nat

VARIABLES
  \* Postgres
  status,                \* telegram_processed_updates.status, "NONE" without a row
  attempts,              \* telegram_processed_updates.attempt_count
  old,                   \* terminal rows older than the retention period
  nextOffset,            \* telegram_polling_state.next_offset
  \* Telegram
  pending,               \* updates Telegram would still deliver
  \* the bot process
  pc,                    \* where the polling loop is
  offset,                \* the offset field
  todo,                  \* rest of the batch, the update in hand included
  verdict,               \* terminal status the update in hand will get
  malformedBatches,      \* consecutive rejected batches
  shutdown,              \* whether stop() was called: the stopped flag
  \* history and bounds
  arrived, expired,      \* updates Telegram accepted, and gave up on
  claims, runs,          \* PROCESS answers and handler runs for each update
  finished,              \* updates that ever reached a terminal row
  forced, forces,        \* highest forced offset, and number of forces
  faults                 \* faults so far

ledger == <<status, attempts, old, nextOffset>>
queue == <<pending, arrived, expired>>
bot == <<pc, offset, todo, verdict, malformedBatches, shutdown>>
history == <<claims, runs, finished>>
operator == <<forced, forces>>
vars == <<ledger, queue, bot, history, operator, faults>>

Terminal == {"COMPLETED", "FAILED"}
Down == {"crashed", "halted"}

LedgerTypeOK ==
  /\ status \in [Updates -> {"NONE", "PROCESSING"} \union Terminal]
  /\ attempts \in [Updates -> 0 .. MaxAttempts + 1]
  /\ old \in SUBSET Updates
  /\ nextOffset \in Offsets

QueueTypeOK ==
  /\ pending \in SUBSET Updates
  /\ arrived \in SUBSET Updates
  /\ expired \in SUBSET Updates

BotTypeOK ==
  /\ pc \in Down \union {"poll", "batch", "handle", "complete"}
  /\ offset \in Offsets
  /\ todo \in SUBSET Updates
  /\ verdict \in Terminal
  /\ malformedBatches \in Nat
  /\ shutdown \in {"none", "requested"}

HistoryTypeOK ==
  /\ claims \in [Updates -> Nat]
  /\ runs \in [Updates -> Nat]
  /\ finished \in SUBSET Updates
  /\ forced \in Offsets
  /\ forces \in Nat
  /\ faults \in Nat

TypeOK == LedgerTypeOK /\ QueueTypeOK /\ BotTypeOK /\ HistoryTypeOK

Init ==
  /\ status = [u \in Updates |-> "NONE"]
  /\ attempts = [u \in Updates |-> 0]
  /\ old = {}
  /\ nextOffset = 0
  /\ pending = {}
  /\ pc = "halted"
  /\ offset = 0
  /\ todo = {}
  /\ verdict = "COMPLETED"
  /\ malformedBatches = 0
  /\ shutdown = "none"
  /\ arrived = {}
  /\ expired = {}
  /\ claims = [u \in Updates |-> 0]
  /\ runs = [u \in Updates |-> 0]
  /\ finished = {}
  /\ forced = 0
  /\ forces = 0
  /\ faults = 0

------------------------------------------------------------------------------
(* Telegram's queue, and time passing. *)

Arrive(u) ==
  /\ \A v \in arrived : v < u
  /\ arrived' = arrived \union {u}
  /\ pending' = pending \union {u}
  /\ UNCHANGED <<expired, ledger, bot, history, operator, faults>>

Expire(u) ==
  /\ u \in pending
  /\ Cardinality(expired) < MaxExpired
  /\ pending' = pending \ {u}
  /\ expired' = expired \union {u}
  /\ UNCHANGED <<arrived, ledger, bot, history, operator, faults>>

\* The retention period (at least a day) is longer than Telegram keeps an
\* update and than the bot holds a batch.
Age(u) ==
  /\ status[u] \in Terminal
  /\ u \notin pending \union todo
  /\ old' = old \union {u}
  /\ UNCHANGED <<status, attempts, nextOffset, queue, bot, history, operator, faults>>

------------------------------------------------------------------------------
(* The ledger's transactions. *)

\* The attempt after the present one would be one too many.
Exhausted(u) == attempts[u] + 1 > MaxAttempts

\* Mutant: a failed update is taken up again.
ResumableFailed(u) == status[u] \in {"PROCESSING", "FAILED"}

\* Only an update in progress is taken up again.
Resumable(u) == status[u] = "PROCESSING"

\* claim_telegram_update inserts the row: PROCESS.
ClaimInserts(u) ==
  /\ status[u] = "NONE"
  /\ status' = [status EXCEPT ![u] = "PROCESSING"]
  /\ attempts' = [attempts EXCEPT ![u] = 1]
  /\ claims' = [claims EXCEPT ![u] = @ + 1]
  /\ UNCHANGED finished

\* An interrupted update is taken up again: PROCESS.
ClaimRetries(u) ==
  /\ Resumable(u)
  /\ ~Exhausted(u)
  /\ attempts' = [attempts EXCEPT ![u] = @ + 1]
  /\ claims' = [claims EXCEPT ![u] = @ + 1]
  /\ UNCHANGED <<status, finished>>

\* Its attempts are used up: SKIP_EXHAUSTED.
ClaimExhausts(u) ==
  /\ Resumable(u)
  /\ Exhausted(u)
  /\ status' = [status EXCEPT ![u] = "FAILED"]
  /\ attempts' = [attempts EXCEPT ![u] = @ + 1]
  /\ finished' = finished \union {u}
  /\ UNCHANGED claims

\* The update is already terminal: SKIP_DUPLICATE.
ClaimDuplicate(u) ==
  /\ status[u] # "NONE"
  /\ ~Resumable(u)
  /\ UNCHANGED <<status, attempts, claims, finished>>

ClaimRow(u) ==
  \/ ClaimInserts(u)
  \/ ClaimRetries(u)
  \/ ClaimExhausts(u)
  \/ ClaimDuplicate(u)

\* The rows after the terminal write for u, and those that hold the cursor.
Marked(u) == IF status[u] = "PROCESSING" THEN [status EXCEPT ![u] = verdict]
                                         ELSE status

\* A slip: a clamp computed before the terminal write.
BlockingBefore(u) == {v \in Updates : status[v] = "PROCESSING"}

Blocking(u) == {v \in Updates : Marked(u)[v] = "PROCESSING"}

\* complete_telegram_update: the cursor moves to the successor of u, or to
\* the lowest update still in progress, and never back; expired rows below
\* it are pruned when a prune is due (at most hourly).
CompleteRow(u) ==
  /\ status[u] # "NONE"
  /\ \E candidate \in {u + 1} \union Blocking(u) :
       /\ \A b \in {u + 1} \union Blocking(u) : candidate <= b
       /\ nextOffset' = IF candidate > nextOffset THEN candidate ELSE nextOffset
  /\ \/ status' = Marked(u) /\ UNCHANGED old
     \/ LET pruned == {v \in old : v < nextOffset' /\ Marked(u)[v] # "PROCESSING"}
        IN  /\ status' = [v \in Updates |-> IF v \in pruned THEN "NONE" ELSE Marked(u)[v]]
            /\ old' = old \ pruned
  /\ finished' = finished \union {u}
  /\ UNCHANGED <<attempts, claims>>

------------------------------------------------------------------------------
(* The polling loop. *)

Start ==
  /\ pc \in Down
  /\ pc' = "poll"
  /\ offset' = nextOffset
  /\ shutdown' = "none"
  /\ malformedBatches' = 0
  /\ UNCHANGED <<todo, verdict, ledger, queue, history, operator, faults>>

\* getMe or the cursor cannot be read: start() throws and nothing retries it.
StartFails ==
  /\ pc \in Down
  /\ faults < MaxFaults
  /\ faults' = faults + 1
  /\ pc' = "halted"
  /\ UNCHANGED <<offset, todo, verdict, malformedBatches, shutdown, ledger, queue,
                 history, operator>>

\* A getUpdates call confirms every update below the offset it names.
Available == {u \in pending : u >= offset}

IsBatch(b) ==
  /\ b \subseteq Available
  /\ b # {} \/ Available = {}
  /\ \A u \in Available, v \in b : u < v => u \in b
  /\ Cardinality(b) <= BatchLimit

GetUpdates(b) ==
  /\ pc = "poll"
  /\ shutdown = "none"
  /\ IsBatch(b)
  /\ b \intersect Malformed = {}
  /\ pending' = Available
  /\ malformedBatches' = 0
  /\ todo' = b
  /\ pc' = IF b = {} THEN "poll" ELSE "batch"
  /\ UNCHANGED <<offset, verdict, shutdown, arrived, expired, ledger, history, operator, faults>>

\* One malformed entry rejects the whole batch; too many in a row halt the loop.
GetMalformed(b) ==
  /\ pc = "poll"
  /\ shutdown = "none"
  /\ IsBatch(b)
  /\ b \intersect Malformed # {}
  /\ pending' = Available
  /\ malformedBatches' = malformedBatches + 1
  /\ IF malformedBatches + 1 >= MaxMalformedBatches
       THEN pc' = "halted" /\ shutdown' = "requested"
       ELSE UNCHANGED <<pc, shutdown>>
  /\ UNCHANGED <<offset, todo, verdict, arrived, expired, ledger, history, operator, faults>>

\* The call fails after its bounded retries, having been confirmed or not:
\* start() rethrows, and nothing in the process calls it again.
PollFails ==
  /\ pc = "poll"
  /\ shutdown = "none"
  /\ faults < MaxFaults
  /\ faults' = faults + 1
  /\ pending' \in {pending, Available}
  /\ pc' = "halted"
  /\ UNCHANGED <<offset, todo, verdict, malformedBatches, shutdown, arrived, expired,
                 ledger, history, operator>>

\* The batch is handled in ascending order.
IsNext(u) == u \in todo /\ \A v \in todo : u <= v

Claim(u) ==
  /\ pc = "batch"
  /\ shutdown = "none"
  /\ IsNext(u)
  /\ \/ /\ ClaimInserts(u) \/ ClaimRetries(u)
        /\ pc' = "handle"
        /\ verdict' = "COMPLETED"
     \/ /\ ClaimExhausts(u)
        /\ pc' = "complete"
        /\ verdict' = "FAILED"
     \/ /\ ClaimDuplicate(u)
        /\ pc' = "complete"
        /\ verdict' = "COMPLETED"
  /\ UNCHANGED <<old, nextOffset, queue, offset, todo, malformedBatches, shutdown,
                 runs, operator, faults>>

\* Mutant: the loop goes on with the next update after a database error.
AfterErrorSkips(u) == todo \ {u}

\* What is left of the batch after a database error: nothing.
AfterError(u) == {}

\* The claim fails, or commits and its answer is lost: the batch is dropped.
ClaimFails(u) ==
  /\ pc = "batch"
  /\ shutdown = "none"
  /\ IsNext(u)
  /\ faults < MaxFaults
  /\ faults' = faults + 1
  /\ \/ ClaimRow(u)
     \/ UNCHANGED <<status, attempts, claims, finished>>
  /\ todo' = AfterError(u)
  /\ pc' = IF todo' = {} THEN "poll" ELSE "batch"
  /\ UNCHANGED <<old, nextOffset, queue, offset, verdict, malformedBatches, shutdown,
                 runs, operator>>

\* handleUpdate returns or throws.
Handle(u) ==
  /\ pc = "handle"
  /\ IsNext(u)
  /\ runs' = [runs EXCEPT ![u] = @ + 1]
  /\ verdict' \in Terminal
  /\ pc' = "complete"
  /\ UNCHANGED <<offset, todo, malformedBatches, shutdown, ledger, queue, claims, finished,
                 operator, faults>>

\* The shutdown grace ran out while the handler ran: no terminal write.
Abandon(u) ==
  /\ pc = "handle"
  /\ shutdown = "requested"
  /\ IsNext(u)
  /\ runs' = [runs EXCEPT ![u] = @ + 1]
  /\ todo' = {}
  /\ pc' = "halted"
  /\ UNCHANGED <<offset, verdict, malformedBatches, shutdown, ledger, queue, claims, finished,
                 operator, faults>>

\* Mutant: the bot computes the next offset itself.
OffsetAfterOwn(u) == u + 1

\* The offset field is what the transaction returned.
OffsetAfter(u) == nextOffset'

Complete(u) ==
  /\ pc = "complete"
  /\ IsNext(u)
  /\ CompleteRow(u)
  /\ offset' = OffsetAfter(u)
  /\ todo' = todo \ {u}
  /\ pc' = IF todo' = {} THEN "poll" ELSE "batch"
  /\ UNCHANGED <<verdict, malformedBatches, shutdown, queue, runs, operator, faults>>

\* The terminal write fails, or commits and its answer is lost.
CompleteFails(u) ==
  /\ pc = "complete"
  /\ IsNext(u)
  /\ faults < MaxFaults
  /\ faults' = faults + 1
  /\ \/ CompleteRow(u)
     \/ UNCHANGED <<status, attempts, old, nextOffset, claims, finished>>
  /\ todo' = AfterError(u)
  /\ pc' = IF todo' = {} THEN "poll" ELSE "batch"
  /\ UNCHANGED <<offset, verdict, malformedBatches, shutdown, queue, runs, operator>>

\* stop(): the loop leaves at its next check of the flag.
Stop ==
  /\ pc \notin Down
  /\ shutdown = "none"
  /\ faults < MaxFaults
  /\ faults' = faults + 1
  /\ shutdown' = "requested"
  /\ UNCHANGED <<pc, offset, todo, verdict, malformedBatches, ledger, queue, history, operator>>

Quit ==
  /\ shutdown = "requested"
  /\ pc \in {"poll", "batch"}
  /\ pc' = "halted"
  /\ todo' = {}
  /\ UNCHANGED <<offset, verdict, malformedBatches, shutdown, ledger, queue, history,
                 operator, faults>>

Crash ==
  /\ pc \notin Down
  /\ faults < MaxFaults
  /\ faults' = faults + 1
  /\ pc' = "crashed"
  /\ todo' = {}
  /\ UNCHANGED <<offset, verdict, malformedBatches, shutdown, ledger, queue, history, operator>>

\* force_advance_telegram_offset: an operator moves the cursor forward.
ForceAdvance(n) ==
  /\ forces < MaxForced
  /\ n > nextOffset
  /\ forces' = forces + 1
  /\ forced' = n
  /\ nextOffset' = n
  /\ UNCHANGED <<status, attempts, old, queue, bot, history, faults>>

Next ==
  \/ \E u \in Updates : Arrive(u) \/ Expire(u) \/ Age(u)
  \/ Start
  \/ StartFails
  \/ \E b \in SUBSET Updates : GetUpdates(b) \/ GetMalformed(b)
  \/ PollFails
  \/ \E u \in Updates : \/ Claim(u) \/ ClaimFails(u)
                        \/ Handle(u) \/ Abandon(u)
                        \/ Complete(u) \/ CompleteFails(u)
  \/ Stop
  \/ Quit
  \/ Crash
  \/ \E n \in Offsets : ForceAdvance(n)

Spec == Init /\ [][Next]_vars

\* The loop never waits on anything but its own calls, which time out, and
\* the service manager restarts a crashed process.  Nothing restarts a
\* halted loop, so Start is fair only after a crash.
FairSpec ==
  /\ Spec
  /\ WF_vars(pc = "crashed" /\ Start)
  /\ WF_vars(\E b \in SUBSET Updates : GetUpdates(b) \/ GetMalformed(b))
  /\ WF_vars(\E u \in Updates : Claim(u))
  /\ WF_vars(\E u \in Updates : Handle(u))
  /\ WF_vars(\E u \in Updates : Complete(u))
  /\ WF_vars(Quit)

------------------------------------------------------------------------------
(* What must hold. *)

\* An update Telegram accepted is in its queue, given up on by it, finished
\* here, or below an offset an operator forced: neither the acknowledging
\* offset of getUpdates nor a crash between two steps loses one.
NoLoss ==
  \A u \in arrived : u \in pending \union expired \union finished \/ u < forced

\* The durable cursor never moves past an update still in progress, whatever
\* order updates complete in; only an operator's forced move may skip one.
CursorNeverPassesProcessing ==
  \A u \in Updates : status[u] = "PROCESSING" /\ u >= forced => nextOffset <= u

\* The offset the bot acknowledges with is never ahead of the durable one.
OffsetNeverAhead == offset <= nextOffset

\* Crashes and redeliveries run the handler at most MaxAttempts times for one
\* update, also after its ledger row was pruned.
RunsBounded == \A u \in Updates : runs[u] <= MaxAttempts

\* The handler runs for an update only when every earlier update Telegram
\* accepted is finished, given up on, or skipped by an operator: a failed
\* database call in the middle of a batch lets no later update overtake.
InOrder ==
  [][\A u \in Updates : runs'[u] # runs[u] =>
       \A v \in arrived : v < u => v \in finished \union expired \/ v < forced]_vars

\* An update with a terminal outcome is never handled again, not even when a
\* lost answer makes Telegram deliver it again or its row was pruned.
FinishedNeverRerun ==
  [][\A u \in finished : runs'[u] = runs[u]]_vars

\* Updates in progress that Telegram will not deliver again: they expired, or
\* an operator moved the cursor past them.
Orphaned == {u \in Updates : status[u] = "PROCESSING" /\ u \notin pending \union todo}

\* Every update Telegram accepted gets a terminal outcome, unless Telegram
\* gives up on it, an operator skips it, the loop halts and waits for one, or
\* an orphan holds the cursor, and with it the window getUpdates returns.
EveryUpdateFinishes ==
  \A u \in Updates :
    u \in arrived ~> \/ u \in finished \union expired
                     \/ u < forced \/ pc = "halted" \/ Orphaned # {}

\* The cursor gets past every finished update, with the same exceptions: a
\* lost answer or a crash in mid-batch never holds it for ever.
CursorAdvances ==
  \A u \in Updates :
    u \in finished ~> nextOffset > u \/ pc = "halted" \/ Orphaned # {}

\* docs/adr/P1-05: a stuck update delays the cursor for a bounded number of
\* polls, "never forever".
CursorNeverWedged ==
  \A u \in Updates : u \in finished ~> nextOffset > u \/ pc = "halted"

\* The poller implements the promise of module AtLeastOnce.
Promise == INSTANCE AtLeastOnce
             WITH MaxTries <- MaxAttempts,
                  inbox <- arrived,
                  tries <- claims,
                  runs <- runs,
                  done <- finished,
                  excused <- expired \union {u \in Updates : u < forced}

PromiseKept == Promise!ASpec

------------------------------------------------------------------------------
(* The inductive invariant behind the safety properties. *)

\* A deliverable update below the cursor is terminal: a duplicate.
BelowCursorTerminal ==
  \A u \in pending \union todo : u < nextOffset => status[u] \in Terminal \/ u < forced

\* Whatever Telegram would still deliver from below an update of the batch,
\* and is not in the batch, is terminal.
BatchIsPrefix ==
  \A u \in pending, t \in todo : u < t => u \in todo \/ status[u] \in Terminal \/ u < forced

\* The update in hand has a row that fits where the loop is.
HeldRow ==
  /\ pc = "poll" \/ pc \in Down => todo = {}
  /\ \A u \in Updates : IsNext(u) =>
       /\ pc = "handle" => status[u] = "PROCESSING" /\ runs[u] < claims[u]
       /\ pc = "complete" => status[u] # "NONE"
       /\ pc = "complete" /\ status[u] = "PROCESSING" => runs[u] > 0

\* How the counters of one update relate to its row.
RowHistory(u) ==
  /\ runs[u] <= claims[u] /\ claims[u] <= MaxAttempts
  /\ status[u] # "NONE" => u \in arrived /\ claims[u] <= attempts[u]
  /\ status[u] = "PROCESSING" => /\ u \notin finished
                                 /\ claims[u] = attempts[u]
                                 /\ attempts[u] <= MaxAttempts
  /\ status[u] \in Terminal => u \in finished
  /\ status[u] = "NONE" /\ u \notin finished => claims[u] = 0
  /\ status[u] = "NONE" /\ u \in pending \union todo => u \notin finished
  /\ u \in finished => u \in arrived

QueueHistory ==
  /\ pending \union todo \union expired \subseteq arrived
  /\ todo \intersect Malformed = {}
  /\ \A u \in old : status[u] \in Terminal /\ u \notin pending \union todo
  /\ forced <= nextOffset

\* The cursor stands no further than behind an update that arrived, unless
\* an operator put it there: what arrives later arrives above it.
CursorBacked ==
  nextOffset <= forced \/ \E u \in arrived : nextOffset <= u + 1

IndInv ==
  /\ TypeOK
  /\ NoLoss
  /\ CursorNeverPassesProcessing
  /\ OffsetNeverAhead
  /\ BelowCursorTerminal
  /\ BatchIsPrefix
  /\ HeldRow
  /\ QueueHistory
  /\ CursorBacked
  /\ \A u \in Updates : RowHistory(u)

==============================================================================
