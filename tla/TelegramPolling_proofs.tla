----------------------- MODULE TelegramPolling_proofs -----------------------
(***************************************************************************)
(* The safety of the Telegram poller, for every number of updates, attempt *)
(* cap, batch limit, set of malformed entries and number of faults: IndInv *)
(* is inductive (one lemma per action, one step per conjunct), and NoLoss, *)
(* CursorNeverPassesProcessing, RunsBounded, the two action properties and *)
(* the refinement of AtLeastOnce follow from it.                           *)
(*                                                                         *)
(* Then that of the page of the console, for every number of calls under   *)
(* way: what is typed first, and then what the lists show, what dialogs    *)
(* wait for, which test repeats which and which password is on show, each  *)
(* kept by every step: mostly because no call that comes or goes is about  *)
(* it.                                                                     *)
(***************************************************************************)
EXTENDS TelegramPolling, BrowserConsole, FiniteSetTheorems, TLAPS

\* The initial states satisfy the invariant.
LEMMA InitInv == Init => IndInv
<1> USE PollingAssumption
       DEF Init, Updates, Offsets, Terminal, Down
<1> SUFFICES ASSUME Init PROVE IndInv OBVIOUS
<1>1. TypeOK BY DEF TypeOK, LedgerTypeOK, QueueTypeOK, BotTypeOK, HistoryTypeOK
<1>2. NoLoss /\ CursorNeverPassesProcessing /\ OffsetNeverAhead /\ CursorBacked
  BY DEF NoLoss, CursorNeverPassesProcessing, OffsetNeverAhead, CursorBacked
<1>3. BelowCursorTerminal /\ BatchIsPrefix /\ HeldRow /\ QueueHistory
  BY DEF BelowCursorTerminal, BatchIsPrefix, HeldRow, IsNext, QueueHistory
<1>4. \A u \in Updates : RowHistory(u) BY DEF RowHistory
<1> QED BY <1>1, <1>2, <1>3, <1>4 DEF IndInv

\* A new update is above the cursor (CursorBacked) and above the batch.
LEMMA ArriveStep ==
  ASSUME IndInv, NEW u \in Updates, Arrive(u)
  PROVE  IndInv'
<1> USE PollingAssumption
       DEF Updates, Offsets, Terminal, Down, IndInv, TypeOK, LedgerTypeOK, QueueTypeOK,
           BotTypeOK, HistoryTypeOK, ledger, queue, bot, history, operator, Arrive
<1>1. LedgerTypeOK' /\ QueueTypeOK' OBVIOUS
<1>2. BotTypeOK' OBVIOUS
<1>3. HistoryTypeOK' OBVIOUS
<1>4. NoLoss' /\ CursorNeverPassesProcessing' BY DEF NoLoss, CursorNeverPassesProcessing
<1>5. OffsetNeverAhead' /\ CursorBacked' BY DEF OffsetNeverAhead, CursorBacked
<1>6. BelowCursorTerminal' BY DEF BelowCursorTerminal, CursorBacked
<1>7. BatchIsPrefix' BY DEF BatchIsPrefix, QueueHistory
<1>8. HeldRow' BY DEF HeldRow, IsNext
<1>9. QueueHistory' BY DEF QueueHistory, RowHistory
<1>10. \A v \in Updates : RowHistory(v)' BY DEF RowHistory, QueueHistory
<1> QED BY <1>1, <1>2, <1>3, <1>4, <1>5, <1>6, <1>7, <1>8, <1>9, <1>10

\* An expired update stays accounted for.
LEMMA ExpireStep ==
  ASSUME IndInv, NEW u \in Updates, Expire(u)
  PROVE  IndInv'
<1> USE PollingAssumption
       DEF Updates, Offsets, Terminal, Down, IndInv, TypeOK, LedgerTypeOK, QueueTypeOK,
           BotTypeOK, HistoryTypeOK, ledger, queue, bot, history, operator, Expire
<1>1. LedgerTypeOK' /\ QueueTypeOK' OBVIOUS
<1>2. BotTypeOK' OBVIOUS
<1>3. HistoryTypeOK' OBVIOUS
<1>4. NoLoss' /\ CursorNeverPassesProcessing' BY DEF NoLoss, CursorNeverPassesProcessing
<1>5. OffsetNeverAhead' /\ CursorBacked' BY DEF OffsetNeverAhead, CursorBacked
<1>6. BelowCursorTerminal' /\ BatchIsPrefix' BY DEF BelowCursorTerminal, BatchIsPrefix
<1>7. HeldRow' BY DEF HeldRow, IsNext
<1>8. QueueHistory' BY DEF QueueHistory
<1>9. \A v \in Updates : RowHistory(v)' BY DEF RowHistory
<1> QED BY <1>1, <1>2, <1>3, <1>4, <1>5, <1>6, <1>7, <1>8, <1>9

\* Ageing marks rows that are neither deliverable nor in the batch.
LEMMA AgeStep ==
  ASSUME IndInv, NEW u \in Updates, Age(u)
  PROVE  IndInv'
<1> USE PollingAssumption
       DEF Updates, Offsets, Terminal, Down, IndInv, TypeOK, LedgerTypeOK, QueueTypeOK,
           BotTypeOK, HistoryTypeOK, ledger, queue, bot, history, operator, Age
<1>1. LedgerTypeOK' /\ QueueTypeOK' OBVIOUS
<1>2. BotTypeOK' OBVIOUS
<1>3. HistoryTypeOK' OBVIOUS
<1>4. NoLoss' /\ CursorNeverPassesProcessing' BY DEF NoLoss, CursorNeverPassesProcessing
<1>5. OffsetNeverAhead' /\ CursorBacked' BY DEF OffsetNeverAhead, CursorBacked
<1>6. BelowCursorTerminal' /\ BatchIsPrefix' BY DEF BelowCursorTerminal, BatchIsPrefix
<1>7. HeldRow' BY DEF HeldRow, IsNext
<1>8. QueueHistory' BY DEF QueueHistory
<1>9. \A v \in Updates : RowHistory(v)' BY DEF RowHistory
<1> QED BY <1>1, <1>2, <1>3, <1>4, <1>5, <1>6, <1>7, <1>8, <1>9

\* What a forced move skips is excused by forced.
LEMMA ForceAdvanceStep ==
  ASSUME IndInv, NEW n \in Offsets, ForceAdvance(n)
  PROVE  IndInv'
<1> USE PollingAssumption
       DEF Updates, Offsets, Terminal, Down, IndInv, TypeOK, LedgerTypeOK, QueueTypeOK,
           BotTypeOK, HistoryTypeOK, ledger, queue, bot, history, operator, ForceAdvance
<1>1. LedgerTypeOK' /\ QueueTypeOK' OBVIOUS
<1>2. BotTypeOK' OBVIOUS
<1>3. HistoryTypeOK' OBVIOUS
<1>4. NoLoss' BY DEF NoLoss, QueueHistory
<1>5. CursorNeverPassesProcessing' BY DEF CursorNeverPassesProcessing, QueueHistory
<1>6. OffsetNeverAhead' /\ CursorBacked' BY DEF OffsetNeverAhead, CursorBacked
<1>7. BelowCursorTerminal' BY DEF BelowCursorTerminal, QueueHistory
<1>8. BatchIsPrefix' BY DEF BatchIsPrefix, QueueHistory
<1>9. HeldRow' BY DEF HeldRow, IsNext
<1>10. QueueHistory' BY DEF QueueHistory
<1>11. \A v \in Updates : RowHistory(v)' BY DEF RowHistory
<1> QED BY <1>1, <1>2, <1>3, <1>4, <1>5, <1>6, <1>7, <1>8, <1>9, <1>10, <1>11

\* The offset is read from the durable cursor.
LEMMA StartStep ==
  ASSUME IndInv, Start
  PROVE  IndInv'
<1> USE PollingAssumption
       DEF Updates, Offsets, Terminal, Down, IndInv, TypeOK, LedgerTypeOK, QueueTypeOK,
           BotTypeOK, HistoryTypeOK, ledger, queue, bot, history, operator, Start
<1>1. LedgerTypeOK' /\ QueueTypeOK' OBVIOUS
<1>2. BotTypeOK' OBVIOUS
<1>3. HistoryTypeOK' OBVIOUS
<1>4. NoLoss' /\ CursorNeverPassesProcessing' BY DEF NoLoss, CursorNeverPassesProcessing
<1>5. OffsetNeverAhead' /\ CursorBacked' BY DEF OffsetNeverAhead, CursorBacked
<1>6. BelowCursorTerminal' /\ BatchIsPrefix' BY DEF BelowCursorTerminal, BatchIsPrefix
<1>7. HeldRow' BY DEF HeldRow, IsNext
<1>8. QueueHistory' BY DEF QueueHistory
<1>9. \A v \in Updates : RowHistory(v)' BY DEF RowHistory
<1> QED BY <1>1, <1>2, <1>3, <1>4, <1>5, <1>6, <1>7, <1>8, <1>9

\* A failed start changes only the loop.
LEMMA StartFailsStep ==
  ASSUME IndInv, StartFails
  PROVE  IndInv'
<1> USE PollingAssumption
       DEF Updates, Offsets, Terminal, Down, IndInv, TypeOK, LedgerTypeOK, QueueTypeOK,
           BotTypeOK, HistoryTypeOK, ledger, queue, bot, history, operator, StartFails
<1>1. LedgerTypeOK' /\ QueueTypeOK' OBVIOUS
<1>2. BotTypeOK' OBVIOUS
<1>3. HistoryTypeOK' OBVIOUS
<1>4. NoLoss' /\ CursorNeverPassesProcessing' BY DEF NoLoss, CursorNeverPassesProcessing
<1>5. OffsetNeverAhead' /\ CursorBacked' BY DEF OffsetNeverAhead, CursorBacked
<1>6. BelowCursorTerminal' /\ BatchIsPrefix' BY DEF BelowCursorTerminal, BatchIsPrefix
<1>7. HeldRow' BY DEF HeldRow, IsNext
<1>8. QueueHistory' BY DEF QueueHistory
<1>9. \A v \in Updates : RowHistory(v)' BY DEF RowHistory
<1> QED BY <1>1, <1>2, <1>3, <1>4, <1>5, <1>6, <1>7, <1>8, <1>9

\* A stop request changes only its flag.
LEMMA StopStep ==
  ASSUME IndInv, Stop
  PROVE  IndInv'
<1> USE PollingAssumption
       DEF Updates, Offsets, Terminal, Down, IndInv, TypeOK, LedgerTypeOK, QueueTypeOK,
           BotTypeOK, HistoryTypeOK, ledger, queue, bot, history, operator, Stop
<1>1. LedgerTypeOK' /\ QueueTypeOK' OBVIOUS
<1>2. BotTypeOK' OBVIOUS
<1>3. HistoryTypeOK' OBVIOUS
<1>4. NoLoss' /\ CursorNeverPassesProcessing' BY DEF NoLoss, CursorNeverPassesProcessing
<1>5. OffsetNeverAhead' /\ CursorBacked' BY DEF OffsetNeverAhead, CursorBacked
<1>6. BelowCursorTerminal' /\ BatchIsPrefix' BY DEF BelowCursorTerminal, BatchIsPrefix
<1>7. HeldRow' BY DEF HeldRow, IsNext
<1>8. QueueHistory' BY DEF QueueHistory
<1>9. \A v \in Updates : RowHistory(v)' BY DEF RowHistory
<1> QED BY <1>1, <1>2, <1>3, <1>4, <1>5, <1>6, <1>7, <1>8, <1>9

\* Leaving the loop drops the batch.
LEMMA QuitStep ==
  ASSUME IndInv, Quit
  PROVE  IndInv'
<1> USE PollingAssumption
       DEF Updates, Offsets, Terminal, Down, IndInv, TypeOK, LedgerTypeOK, QueueTypeOK,
           BotTypeOK, HistoryTypeOK, ledger, queue, bot, history, operator, Quit
<1>1. LedgerTypeOK' /\ QueueTypeOK' OBVIOUS
<1>2. BotTypeOK' OBVIOUS
<1>3. HistoryTypeOK' OBVIOUS
<1>4. NoLoss' /\ CursorNeverPassesProcessing' BY DEF NoLoss, CursorNeverPassesProcessing
<1>5. OffsetNeverAhead' /\ CursorBacked' BY DEF OffsetNeverAhead, CursorBacked
<1>6. BelowCursorTerminal' /\ BatchIsPrefix' BY DEF BelowCursorTerminal, BatchIsPrefix
<1>7. HeldRow' BY DEF HeldRow, IsNext
<1>8. QueueHistory' BY DEF QueueHistory
<1>9. \A v \in Updates : RowHistory(v)' BY DEF RowHistory
<1> QED BY <1>1, <1>2, <1>3, <1>4, <1>5, <1>6, <1>7, <1>8, <1>9

\* A crash drops the batch.
LEMMA CrashStep ==
  ASSUME IndInv, Crash
  PROVE  IndInv'
<1> USE PollingAssumption
       DEF Updates, Offsets, Terminal, Down, IndInv, TypeOK, LedgerTypeOK, QueueTypeOK,
           BotTypeOK, HistoryTypeOK, ledger, queue, bot, history, operator, Crash
<1>1. LedgerTypeOK' /\ QueueTypeOK' OBVIOUS
<1>2. BotTypeOK' OBVIOUS
<1>3. HistoryTypeOK' OBVIOUS
<1>4. NoLoss' /\ CursorNeverPassesProcessing' BY DEF NoLoss, CursorNeverPassesProcessing
<1>5. OffsetNeverAhead' /\ CursorBacked' BY DEF OffsetNeverAhead, CursorBacked
<1>6. BelowCursorTerminal' /\ BatchIsPrefix' BY DEF BelowCursorTerminal, BatchIsPrefix
<1>7. HeldRow' BY DEF HeldRow, IsNext
<1>8. QueueHistory' BY DEF QueueHistory
<1>9. \A v \in Updates : RowHistory(v)' BY DEF RowHistory
<1> QED BY <1>1, <1>2, <1>3, <1>4, <1>5, <1>6, <1>7, <1>8, <1>9

\* What a getUpdates call confirms is below the cursor, hence finished or excused.
LEMMA PollFailsStep ==
  ASSUME IndInv, PollFails
  PROVE  IndInv'
<1> USE PollingAssumption
       DEF Updates, Offsets, Terminal, Down, IndInv, TypeOK, LedgerTypeOK, QueueTypeOK,
           BotTypeOK, HistoryTypeOK, ledger, queue, bot, history, operator, PollFails, Available
<1>1. LedgerTypeOK' /\ QueueTypeOK' OBVIOUS
<1>2. BotTypeOK' OBVIOUS
<1>3. HistoryTypeOK' OBVIOUS
<1>4. NoLoss'
  BY DEF NoLoss, OffsetNeverAhead, BelowCursorTerminal, RowHistory
<1>5. CursorNeverPassesProcessing' /\ OffsetNeverAhead' /\ CursorBacked'
  BY DEF CursorNeverPassesProcessing, OffsetNeverAhead, CursorBacked
<1>6. BelowCursorTerminal' /\ BatchIsPrefix' BY DEF BelowCursorTerminal, BatchIsPrefix
<1>7. HeldRow' BY DEF HeldRow, IsNext
<1>8. QueueHistory' BY DEF QueueHistory
<1>9. \A v \in Updates : RowHistory(v)' BY DEF RowHistory
<1> QED BY <1>1, <1>2, <1>3, <1>4, <1>5, <1>6, <1>7, <1>8, <1>9

\* A rejected batch confirms no more than an accepted one.
LEMMA GetMalformedStep ==
  ASSUME IndInv, NEW b \in SUBSET Updates, GetMalformed(b)
  PROVE  IndInv'
<1> USE PollingAssumption
       DEF Updates, Offsets, Terminal, Down, IndInv, TypeOK, LedgerTypeOK, QueueTypeOK,
           BotTypeOK, HistoryTypeOK, ledger, queue, bot, history, operator, GetMalformed, Available
<1>1. LedgerTypeOK' /\ QueueTypeOK' OBVIOUS
<1>2. BotTypeOK' OBVIOUS
<1>3. HistoryTypeOK' OBVIOUS
<1>4. NoLoss'
  BY DEF NoLoss, OffsetNeverAhead, BelowCursorTerminal, RowHistory
<1>5. CursorNeverPassesProcessing' /\ OffsetNeverAhead' /\ CursorBacked'
  BY DEF CursorNeverPassesProcessing, OffsetNeverAhead, CursorBacked
<1>6. BelowCursorTerminal' /\ BatchIsPrefix' BY DEF BelowCursorTerminal, BatchIsPrefix
<1>7. HeldRow' BY DEF HeldRow, IsNext
<1>8. QueueHistory' BY DEF QueueHistory
<1>9. \A v \in Updates : RowHistory(v)' BY DEF RowHistory
<1> QED BY <1>1, <1>2, <1>3, <1>4, <1>5, <1>6, <1>7, <1>8, <1>9

\* A batch is a prefix of what Telegram holds above the offset.
LEMMA GetUpdatesStep ==
  ASSUME IndInv, NEW b \in SUBSET Updates, GetUpdates(b)
  PROVE  IndInv'
<1> USE PollingAssumption
       DEF Updates, Offsets, Terminal, Down, IndInv, TypeOK, LedgerTypeOK, QueueTypeOK,
           BotTypeOK, HistoryTypeOK, ledger, queue, bot, history, operator, GetUpdates, Available, IsBatch
<1>1. LedgerTypeOK' /\ QueueTypeOK' OBVIOUS
<1>2. BotTypeOK' OBVIOUS
<1>3. HistoryTypeOK' OBVIOUS
<1>4. NoLoss'
  BY DEF NoLoss, OffsetNeverAhead, BelowCursorTerminal, RowHistory
<1>5. CursorNeverPassesProcessing' /\ OffsetNeverAhead' /\ CursorBacked'
  BY DEF CursorNeverPassesProcessing, OffsetNeverAhead, CursorBacked
<1>6. BelowCursorTerminal' BY DEF BelowCursorTerminal, OffsetNeverAhead, HeldRow
<1>7. BatchIsPrefix' BY DEF BatchIsPrefix
<1>8. HeldRow' BY DEF HeldRow
<1>9. QueueHistory' BY DEF QueueHistory, HeldRow
<1>10. \A v \in Updates : RowHistory(v)' BY DEF RowHistory, QueueHistory, HeldRow
<1> QED BY <1>1, <1>2, <1>3, <1>4, <1>5, <1>6, <1>7, <1>8, <1>9, <1>10

\* The update in hand is unique.
LEMMA OneNext ==
  ASSUME TypeOK, NEW u, NEW v, IsNext(u), IsNext(v)
  PROVE  u = v
BY DEF TypeOK, BotTypeOK, IsNext, Updates

\* The claim left room for one more run (HeldRow).
LEMMA HandleStep ==
  ASSUME IndInv, NEW u \in Updates, Handle(u)
  PROVE  IndInv'
<1> USE DEF IndInv, TypeOK, Handle, ledger, queue, operator
<1>1. /\ runs' \in [Updates -> Nat]
      /\ \A v \in Updates : runs'[v] = IF v = u THEN runs[u] + 1 ELSE runs[v]
  BY DEF HistoryTypeOK
<1>2. LedgerTypeOK' /\ QueueTypeOK' BY DEF LedgerTypeOK, QueueTypeOK
<1>3. BotTypeOK' BY DEF BotTypeOK, Down, Terminal
<1>4. HistoryTypeOK' BY <1>1 DEF HistoryTypeOK
<1>5. NoLoss' /\ CursorNeverPassesProcessing' BY DEF NoLoss, CursorNeverPassesProcessing
<1>6. OffsetNeverAhead' /\ CursorBacked' BY DEF OffsetNeverAhead, CursorBacked
<1>7. BelowCursorTerminal' /\ BatchIsPrefix' BY DEF BelowCursorTerminal, BatchIsPrefix
<1>8. HeldRow'
  <2> SUFFICES ASSUME NEW v \in Updates, IsNext(v)
               PROVE  status[v] = "PROCESSING" /\ runs'[v] > 0
    BY DEF HeldRow, IsNext, Down
  <2>1. v = u BY OneNext
  <2>2. runs[u] \in Nat BY DEF HistoryTypeOK
  <2> QED BY <1>1, <2>1, <2>2 DEF HeldRow
<1>9. QueueHistory' BY DEF QueueHistory
<1>10. ASSUME NEW v \in Updates PROVE RowHistory(v)'
  <2>1. RowHistory(v) /\ runs[v] \in Nat /\ claims[v] \in Nat BY DEF HistoryTypeOK
  <2>2. CASE v = u
    <3>1. runs[u] < claims[u] BY DEF HeldRow
    <3>2. runs'[u] <= claims'[u] BY <1>1, <2>1, <2>2, <3>1
    <3> QED BY <2>1, <2>2, <3>2 DEF RowHistory
  <2>3. CASE v # u
    <3>1. runs'[v] = runs[v] BY <1>1, <2>3
    <3> QED BY <2>1, <2>3, <3>1 DEF RowHistory
  <2> QED BY <2>2, <2>3
<1> QED BY <1>2, <1>3, <1>4, <1>5, <1>6, <1>7, <1>8, <1>9, <1>10

\* An abandoned handler counts as a run.
LEMMA AbandonStep ==
  ASSUME IndInv, NEW u \in Updates, Abandon(u)
  PROVE  IndInv'
<1> USE DEF IndInv, TypeOK, Abandon, ledger, queue, operator
<1>1. /\ runs' \in [Updates -> Nat]
      /\ \A v \in Updates : runs'[v] = IF v = u THEN runs[u] + 1 ELSE runs[v]
  BY DEF HistoryTypeOK
<1>2. LedgerTypeOK' /\ QueueTypeOK' BY DEF LedgerTypeOK, QueueTypeOK
<1>3. BotTypeOK' BY DEF BotTypeOK, Down, Terminal
<1>4. HistoryTypeOK' BY <1>1 DEF HistoryTypeOK
<1>5. NoLoss' /\ CursorNeverPassesProcessing' BY DEF NoLoss, CursorNeverPassesProcessing
<1>6. OffsetNeverAhead' /\ CursorBacked' BY DEF OffsetNeverAhead, CursorBacked
<1>7. BelowCursorTerminal' /\ BatchIsPrefix' BY DEF BelowCursorTerminal, BatchIsPrefix
<1>8. HeldRow'
  BY DEF HeldRow, IsNext, Down
<1>9. QueueHistory' BY DEF QueueHistory
<1>10. ASSUME NEW v \in Updates PROVE RowHistory(v)'
  <2>1. RowHistory(v) /\ runs[v] \in Nat /\ claims[v] \in Nat BY DEF HistoryTypeOK
  <2>2. CASE v = u
    <3>1. runs[u] < claims[u] BY DEF HeldRow
    <3>2. runs'[u] <= claims'[u] BY <1>1, <2>1, <2>2, <3>1
    <3> QED BY <2>1, <2>2, <3>2 DEF RowHistory
  <2>3. CASE v # u
    <3>1. runs'[v] = runs[v] BY <1>1, <2>3
    <3> QED BY <2>1, <2>3, <3>1 DEF RowHistory
  <2> QED BY <2>2, <2>3
<1> QED BY <1>2, <1>3, <1>4, <1>5, <1>6, <1>7, <1>8, <1>9, <1>10

\* What a claim transaction, whatever it answers, does to the ledger conjuncts.
LEMMA ClaimRowStep ==
  ASSUME IndInv, NEW u \in Updates, IsNext(u),
         ClaimRow(u) \/ UNCHANGED <<status, attempts, claims, finished>>,
         todo' \in {todo, {}},
         faults' \in Nat,
         UNCHANGED <<old, nextOffset, queue, offset, runs, operator>>
  PROVE  /\ LedgerTypeOK' /\ QueueTypeOK' /\ HistoryTypeOK'
         /\ NoLoss'
         /\ CursorNeverPassesProcessing'
         /\ OffsetNeverAhead'
         /\ BelowCursorTerminal'
         /\ BatchIsPrefix'
         /\ QueueHistory'
         /\ CursorBacked'
         /\ \A v \in Updates : RowHistory(v)'
<1> USE PollingAssumption DEF Updates, Offsets, Terminal, queue, operator
<1>1. u \in todo BY DEF IsNext
<1>2. /\ LedgerTypeOK /\ QueueTypeOK /\ HistoryTypeOK /\ BotTypeOK
      /\ CursorNeverPassesProcessing /\ NoLoss /\ OffsetNeverAhead
      /\ BelowCursorTerminal /\ BatchIsPrefix /\ QueueHistory /\ CursorBacked
      /\ \A v \in Updates : RowHistory(v)
  BY DEF IndInv, TypeOK
<1>3. /\ u \in arrived
      /\ status[u] = "NONE" => (u >= nextOffset \/ u < forced) /\ claims[u] = 0 /\ u \notin finished
      /\ status[u] = "PROCESSING" => attempts[u] \in 0 .. MaxAttempts /\ claims[u] = attempts[u]
  <2>1. RowHistory(u) BY <1>2
  <2>2. u \in arrived BY <1>1, <1>2 DEF QueueHistory
  <2>3. u < nextOffset => u < forced \/ status[u] \in Terminal
    BY <1>1, <1>2 DEF BelowCursorTerminal
  <2>4. nextOffset \in Int /\ attempts[u] \in Nat /\ claims[u] \in Nat /\ runs[u] \in Nat
    BY <1>2 DEF LedgerTypeOK, HistoryTypeOK
  <2>5. CASE status[u] = "NONE"
    BY <1>1, <2>1, <2>2, <2>3, <2>4, <2>5 DEF RowHistory
  <2>6. CASE status[u] = "PROCESSING"
    <3>1. claims[u] = attempts[u] /\ attempts[u] <= MaxAttempts BY <2>1, <2>6 DEF RowHistory
    <3> QED BY <2>2, <2>4, <2>6, <3>1
  <2> QED BY <2>2, <2>5, <2>6
<1> DEFINE Row(s, a, c) ==
      \A v \in Updates : /\ status'[v] = IF v = u THEN s ELSE status[v]
                         /\ attempts'[v] = IF v = u THEN a ELSE attempts[v]
                         /\ claims'[v] = IF v = u THEN c ELSE claims[v]
<1>4. QueueTypeOK' BY <1>2 DEF QueueTypeOK
<1>5. CursorBacked' /\ OffsetNeverAhead' BY <1>2 DEF CursorBacked, OffsetNeverAhead
<1>6. CASE ClaimInserts(u)
  <2>1. LedgerTypeOK' BY <1>2, <1>6 DEF ClaimInserts, LedgerTypeOK
  <2>2. HistoryTypeOK' BY <1>2, <1>6, SMTT(40) DEF ClaimInserts, HistoryTypeOK
  <2>3. Row("PROCESSING", 1, claims[u] + 1) /\ finished' = finished /\ status[u] = "NONE"
    BY <1>2, <1>6 DEF ClaimInserts, LedgerTypeOK, HistoryTypeOK
  <2> USE <1>1, <1>2, <1>3, <2>3
  <2>4. NoLoss' BY DEF NoLoss
  <2>5. CursorNeverPassesProcessing'
    <3> SUFFICES ASSUME NEW v \in Updates, status'[v] = "PROCESSING", v >= forced
                 PROVE  nextOffset <= v
        BY DEF CursorNeverPassesProcessing
    <3>1. CASE v = u BY <3>1 DEF LedgerTypeOK, HistoryTypeOK
    <3>2. CASE v # u
      <4>1. status[v] = "PROCESSING" BY <3>2
      <4> QED BY <4>1 DEF CursorNeverPassesProcessing
    <3> QED BY <3>1, <3>2
  <2>6. BelowCursorTerminal' BY DEF BelowCursorTerminal, LedgerTypeOK, QueueTypeOK, BotTypeOK
  <2>7. BatchIsPrefix' BY DEF BatchIsPrefix, LedgerTypeOK, QueueTypeOK, BotTypeOK
  <2>8. QueueHistory' BY DEF QueueHistory, LedgerTypeOK
  <2>9. ASSUME NEW v \in Updates PROVE RowHistory(v)'
    <3>1. RowHistory(v) OBVIOUS
    <3>2. CASE v = u BY <3>1, <3>2 DEF RowHistory, LedgerTypeOK, HistoryTypeOK
    <3>3. CASE v # u BY <3>1, <3>3 DEF RowHistory
    <3> QED BY <3>2, <3>3
  <2> QED BY <1>4, <1>5, <2>1, <2>2, <2>4, <2>5, <2>6, <2>7, <2>8, <2>9
<1>7. CASE ClaimRetries(u)
  <2>1. LedgerTypeOK' BY <1>2, <1>3, <1>7 DEF ClaimRetries, Resumable, Exhausted, LedgerTypeOK
  <2>2. HistoryTypeOK' BY <1>2, <1>7, SMTT(40) DEF ClaimRetries, HistoryTypeOK
  <2>3. /\ Row("PROCESSING", attempts[u] + 1, claims[u] + 1)
        /\ finished' = finished /\ status' = status /\ status[u] = "PROCESSING"
        /\ attempts[u] < MaxAttempts
    BY <1>2, <1>3, <1>7 DEF ClaimRetries, Resumable, Exhausted, LedgerTypeOK, HistoryTypeOK
  <2> USE <1>1, <1>2, <1>3, <2>3
  <2>4. NoLoss' /\ CursorNeverPassesProcessing' /\ QueueHistory'
    BY DEF NoLoss, CursorNeverPassesProcessing, QueueHistory
  <2>5. BelowCursorTerminal' /\ BatchIsPrefix' BY DEF BelowCursorTerminal, BatchIsPrefix
  <2>6. ASSUME NEW v \in Updates PROVE RowHistory(v)'
    <3>1. RowHistory(v) OBVIOUS
    <3>2. CASE v = u BY <3>1, <3>2 DEF RowHistory, LedgerTypeOK, HistoryTypeOK
    <3>3. CASE v # u BY <3>1, <3>3 DEF RowHistory
    <3> QED BY <3>2, <3>3
  <2> QED BY <1>4, <1>5, <2>1, <2>2, <2>4, <2>5, <2>6
<1>8. CASE ClaimExhausts(u)
  <2>1. LedgerTypeOK' BY <1>2, <1>3, <1>8 DEF ClaimExhausts, Resumable, LedgerTypeOK
  <2>2. HistoryTypeOK' BY <1>2, <1>8 DEF ClaimExhausts, HistoryTypeOK
  <2>3. /\ Row("FAILED", attempts[u] + 1, claims[u])
        /\ finished' = finished \union {u} /\ status[u] = "PROCESSING"
    BY <1>2, <1>8 DEF ClaimExhausts, Resumable, LedgerTypeOK, HistoryTypeOK
  <2> USE <1>1, <1>2, <1>3, <2>3
  <2>4. NoLoss' BY DEF NoLoss
  <2>5. CursorNeverPassesProcessing' BY DEF CursorNeverPassesProcessing, LedgerTypeOK
  <2>6. BelowCursorTerminal' BY DEF BelowCursorTerminal, LedgerTypeOK, QueueTypeOK, BotTypeOK
  <2>7. BatchIsPrefix' BY DEF BatchIsPrefix, LedgerTypeOK, QueueTypeOK, BotTypeOK
  <2>8. QueueHistory' BY DEF QueueHistory, LedgerTypeOK
  <2>9. ASSUME NEW v \in Updates PROVE RowHistory(v)'
    <3>1. RowHistory(v) OBVIOUS
    <3>2. CASE v = u BY <3>1, <3>2 DEF RowHistory, LedgerTypeOK, HistoryTypeOK
    <3>3. CASE v # u BY <3>1, <3>3 DEF RowHistory
    <3> QED BY <3>2, <3>3
  <2> QED BY <1>4, <1>5, <2>1, <2>2, <2>4, <2>5, <2>6, <2>7, <2>8, <2>9
<1>9. CASE UNCHANGED <<status, attempts, claims, finished>>
  <2> USE <1>2, <1>9
  <2>1. LedgerTypeOK' /\ HistoryTypeOK' BY DEF LedgerTypeOK, HistoryTypeOK
  <2>2. NoLoss' /\ CursorNeverPassesProcessing' /\ QueueHistory'
    BY DEF NoLoss, CursorNeverPassesProcessing, QueueHistory
  <2>3. BelowCursorTerminal' /\ BatchIsPrefix' BY DEF BelowCursorTerminal, BatchIsPrefix
  <2>4. ASSUME NEW v \in Updates PROVE RowHistory(v)' BY DEF RowHistory
  <2> QED BY <1>4, <1>5, <2>1, <2>2, <2>3, <2>4
<1> QED BY <1>6, <1>7, <1>8, <1>9 DEF ClaimRow, ClaimDuplicate

\* What a terminal write does to them, prune included.
LEMMA CompleteRowStep ==
  ASSUME IndInv, NEW u \in Updates, IsNext(u), CompleteRow(u),
         todo' \in {todo \ {u}, {}},
         offset' \in {offset, nextOffset'},
         faults' \in Nat,
         UNCHANGED <<queue, runs, operator>>
  PROVE  /\ LedgerTypeOK' /\ QueueTypeOK' /\ HistoryTypeOK'
         /\ NoLoss'
         /\ CursorNeverPassesProcessing'
         /\ OffsetNeverAhead'
         /\ BelowCursorTerminal'
         /\ BatchIsPrefix'
         /\ QueueHistory'
         /\ CursorBacked'
         /\ \A v \in Updates : RowHistory(v)'
<1> USE PollingAssumption DEF Updates, Offsets, Terminal, queue, operator
<1>0. u \in todo /\ \A v \in todo : u <= v BY DEF IsNext
<1>t. LedgerTypeOK /\ QueueTypeOK /\ HistoryTypeOK /\ BotTypeOK /\ CursorNeverPassesProcessing /\ NoLoss
  /\ OffsetNeverAhead /\ BelowCursorTerminal /\ BatchIsPrefix /\ QueueHistory /\ CursorBacked
  /\ \A v \in Updates : RowHistory(v)
  BY DEF IndInv, TypeOK
<1> DEFINE M == Marked(u)
<1>1. /\ M \in [Updates -> {"NONE", "PROCESSING", "COMPLETED", "FAILED"}]
      /\ M[u] \in Terminal
      /\ \A v \in Updates : v # u => M[v] = status[v]
  BY <1>t DEF Marked, LedgerTypeOK, BotTypeOK, CompleteRow
<1>2. /\ nextOffset' \in Offsets
      /\ nextOffset <= nextOffset'
      /\ \/ nextOffset' = nextOffset
         \/ nextOffset' <= u + 1 /\ \A v \in Updates : M[v] = "PROCESSING" => nextOffset' <= v
  <2>1. PICK candidate \in {u + 1} \union Blocking(u) :
         /\ \A b \in {u + 1} \union Blocking(u) : candidate <= b
         /\ nextOffset' = IF candidate > nextOffset THEN candidate ELSE nextOffset
    BY DEF CompleteRow
  <2>2. candidate \in Offsets /\ nextOffset \in Offsets BY <1>t DEF Blocking, LedgerTypeOK
  <2>3. candidate <= u + 1 /\ \A v \in Updates : M[v] = "PROCESSING" => candidate <= v
    BY <2>1 DEF Blocking
  <2> HIDE DEF M
  <2> QED BY <2>1, <2>2, <2>3
<1>3. \E pruned \in SUBSET old :
         /\ status' = [v \in Updates |-> IF v \in pruned THEN "NONE" ELSE M[v]]
         /\ old' = old \ pruned
  <2>1. CASE status' = M /\ UNCHANGED old
    <3>1. status' = [v \in Updates |-> IF v \in {} THEN "NONE" ELSE M[v]] /\ old' = old \ {}
      BY <2>1, <1>1
    <3> QED BY <3>1
  <2>2. CASE LET pruned == {v \in old : v < nextOffset' /\ M[v] # "PROCESSING"}
             IN  /\ status' = [v \in Updates |-> IF v \in pruned THEN "NONE" ELSE M[v]]
                 /\ old' = old \ pruned
    <3> DEFINE P == {v \in old : v < nextOffset' /\ M[v] # "PROCESSING"}
    <3>1. P \in SUBSET old OBVIOUS
    <3> QED BY <3>1, <2>2
  <2> QED BY <2>1, <2>2 DEF CompleteRow
<1>4. PICK pruned \in SUBSET old :
         /\ status' = [v \in Updates |-> IF v \in pruned THEN "NONE" ELSE M[v]]
         /\ old' = old \ pruned
  BY <1>3
<1>5. finished' = finished \union {u} /\ attempts' = attempts /\ claims' = claims
  BY DEF CompleteRow
<1> HIDE DEF M
<1>6. pruned \subseteq Updates /\ u \in Updates /\ \A v \in pruned : v # u /\ v \notin pending \union todo
       /\ status[v] \in Terminal
  BY <1>0, <1>t DEF QueueHistory, LedgerTypeOK
<1>7. \A v \in Updates : status'[v] = IF v \in pruned THEN "NONE" ELSE IF v = u THEN M[u] ELSE status[v]
  BY <1>4, <1>1
<1> USE <1>0, <1>t, <1>1, <1>2, <1>5, <1>6, <1>7
<1>8. LedgerTypeOK' /\ QueueTypeOK' /\ HistoryTypeOK'
  <2>1. LedgerTypeOK' BY <1>4 DEF LedgerTypeOK
  <2>2. QueueTypeOK' BY DEF QueueTypeOK
  <2>3. HistoryTypeOK' BY DEF HistoryTypeOK
  <2> QED BY <2>1, <2>2, <2>3
<1>9. NoLoss' BY DEF NoLoss
<1>10. CursorNeverPassesProcessing' BY DEF CursorNeverPassesProcessing, LedgerTypeOK, HistoryTypeOK
<1>11. OffsetNeverAhead' BY DEF OffsetNeverAhead, LedgerTypeOK, BotTypeOK
<1>12. BelowCursorTerminal'
  <2> SUFFICES ASSUME NEW v \in pending \union todo, v < nextOffset', v # u
               PROVE  status[v] \in Terminal \/ v < forced
    BY DEF BelowCursorTerminal, QueueTypeOK, BotTypeOK
  <2>1. CASE v < nextOffset BY <2>1 DEF BelowCursorTerminal
  <2>2. CASE v < u
    <3>1. v \notin todo /\ v \in pending BY <2>2 DEF BotTypeOK, QueueTypeOK
    <3> QED BY <2>2, <3>1 DEF BatchIsPrefix
  <2> QED BY <2>1, <2>2 DEF LedgerTypeOK, QueueTypeOK, BotTypeOK
<1>13. BatchIsPrefix' BY SMTT(40) DEF BatchIsPrefix, LedgerTypeOK, QueueTypeOK, BotTypeOK, HistoryTypeOK
<1>14. QueueHistory' BY <1>4, SMTT(40) DEF QueueHistory, LedgerTypeOK, QueueTypeOK, HistoryTypeOK
<1>15. CursorBacked' BY SMTT(40) DEF CursorBacked, QueueHistory, LedgerTypeOK, QueueTypeOK, BotTypeOK, HistoryTypeOK
<1>17. u \in arrived /\ status[u] # "NONE" /\ claims[u] <= attempts[u]
  BY DEF QueueHistory, RowHistory, CompleteRow
<1>16. ASSUME NEW v \in Updates PROVE RowHistory(v)'
  BY <1>17 DEF RowHistory, LedgerTypeOK, QueueTypeOK, BotTypeOK, HistoryTypeOK, QueueHistory
<1> QED BY <1>8, <1>9, <1>10, <1>11, <1>12, <1>13, <1>14, <1>15, <1>16

\* A claim answers PROCESS, SKIP_EXHAUSTED or SKIP_DUPLICATE.
LEMMA ClaimStep ==
  ASSUME IndInv, NEW u \in Updates, Claim(u)
  PROVE  IndInv'
<1> USE DEF IndInv, TypeOK
<1>1. IsNext(u) /\ ClaimRow(u) /\ todo' = todo /\ faults' \in Nat
      /\ UNCHANGED <<old, nextOffset, queue, offset, runs, operator>>
  BY DEF Claim, ClaimRow, HistoryTypeOK
<1>2. BotTypeOK' BY DEF Claim, BotTypeOK, Terminal
<1>3. HeldRow'
  <2> SUFFICES ASSUME NEW v \in Updates, IsNext(v)', pc' # "batch"
               PROVE  /\ pc' = "handle" => status'[v] = "PROCESSING" /\ runs'[v] < claims'[v]
                      /\ pc' = "complete" => status'[v] \notin {"NONE", "PROCESSING"}
    BY DEF Claim, HeldRow, Down
  <2>1. v = u BY <1>1, OneNext DEF IsNext
  <2>2. RowHistory(u) /\ claims[u] \in Nat /\ runs[u] \in Nat /\ runs' = runs
    BY <1>1 DEF HistoryTypeOK
  <2>3. CASE ClaimInserts(u) \/ ClaimRetries(u)
    <3>1. claims'[u] = claims[u] + 1 /\ status'[u] = "PROCESSING"
      BY <2>3 DEF ClaimInserts, ClaimRetries, Resumable, LedgerTypeOK, HistoryTypeOK
    <3>2. pc' = "handle"
      BY <2>3 DEF Claim, ClaimInserts, ClaimRetries, ClaimExhausts, ClaimDuplicate, Resumable
    <3> QED BY <2>1, <2>2, <3>1, <3>2 DEF RowHistory
  <2>4. CASE ClaimExhausts(u) \/ ClaimDuplicate(u)
    <3>1. status'[u] \notin {"NONE", "PROCESSING"}
      BY <2>4 DEF ClaimExhausts, ClaimDuplicate, Resumable, LedgerTypeOK
    <3>2. pc' = "complete"
      BY <2>4 DEF Claim, ClaimInserts, ClaimRetries, ClaimExhausts, ClaimDuplicate, Resumable
    <3> QED BY <2>1, <3>1, <3>2
  <2> QED BY <1>1, <2>3, <2>4 DEF ClaimRow
<1> QED BY <1>1, <1>2, <1>3, ClaimRowStep

\* Whether a failed claim committed or not, the batch is gone.
LEMMA ClaimFailsStep ==
  ASSUME IndInv, NEW u \in Updates, ClaimFails(u)
  PROVE  IndInv'
<1> USE DEF IndInv, TypeOK
<1>1. IsNext(u) /\ todo' = {} /\ pc' = "poll" /\ faults' \in Nat
      /\ UNCHANGED <<old, nextOffset, queue, offset, runs, operator>>
      /\ (ClaimRow(u) \/ UNCHANGED <<status, attempts, claims, finished>>)
  BY DEF ClaimFails, HistoryTypeOK, AfterError
<1>2. BotTypeOK' BY <1>1 DEF ClaimFails, BotTypeOK, Down
<1>3. HeldRow' BY <1>1 DEF HeldRow, IsNext
<1> QED BY <1>1, <1>2, <1>3, ClaimRowStep

\* A terminal write moves the cursor over what is finished only.
LEMMA CompleteStep ==
  ASSUME IndInv, NEW u \in Updates, Complete(u)
  PROVE  IndInv'
<1> USE DEF IndInv, TypeOK
<1>1. IsNext(u) /\ CompleteRow(u) /\ todo' = todo \ {u} /\ offset' = nextOffset' /\ faults' \in Nat
      /\ UNCHANGED <<queue, runs, operator>>
  BY DEF Complete, OffsetAfter, HistoryTypeOK
<1>2. LedgerTypeOK' BY <1>1, CompleteRowStep
<1>3. BotTypeOK' BY <1>1, <1>2 DEF Complete, BotTypeOK, LedgerTypeOK, Down
<1>4. HeldRow' BY <1>1 DEF Complete, HeldRow, Down
<1> QED BY <1>1, <1>3, <1>4, CompleteRowStep

\* A lost answer leaves the offset behind the cursor, never ahead.
LEMMA CompleteFailsStep ==
  ASSUME IndInv, NEW u \in Updates, CompleteFails(u)
  PROVE  IndInv'
<1> USE DEF IndInv, TypeOK
<1>1. IsNext(u) /\ todo' = {} /\ pc' = "poll" /\ faults' \in Nat
      /\ UNCHANGED <<queue, runs, offset, operator>>
  BY DEF CompleteFails, HistoryTypeOK, AfterError
<1>2. BotTypeOK' BY <1>1 DEF CompleteFails, BotTypeOK, Down
<1>3. HeldRow' BY <1>1 DEF HeldRow, IsNext
<1>4. CASE CompleteRow(u) BY <1>1, <1>2, <1>3, <1>4, CompleteRowStep
<1>5. CASE UNCHANGED <<status, attempts, old, nextOffset, claims, finished>>
  BY <1>1, <1>2, <1>3, <1>5, ClaimRowStep
<1> QED BY <1>4, <1>5 DEF CompleteFails

------------------------------------------------------------------------------

\* Every step preserves the invariant.
LEMMA NextInv == IndInv /\ [Next]_vars => IndInv'
<1> SUFFICES ASSUME IndInv, [Next]_vars PROVE IndInv' OBVIOUS
<1>1. CASE UNCHANGED vars
  BY <1>1 DEF vars, ledger, queue, bot, history, operator, IndInv, TypeOK, LedgerTypeOK,
              QueueTypeOK, BotTypeOK, HistoryTypeOK, NoLoss, CursorNeverPassesProcessing,
              OffsetNeverAhead, BelowCursorTerminal, BatchIsPrefix, HeldRow, IsNext,
              QueueHistory, CursorBacked, RowHistory
<1>2. ASSUME NEW u \in Updates,
             Arrive(u) \/ Expire(u) \/ Age(u) \/ Claim(u) \/ ClaimFails(u) \/ Handle(u)
               \/ Abandon(u) \/ Complete(u) \/ CompleteFails(u)
      PROVE  IndInv'
  BY <1>2, ArriveStep, ExpireStep, AgeStep, ClaimStep, ClaimFailsStep, HandleStep,
     AbandonStep, CompleteStep, CompleteFailsStep
<1>3. ASSUME NEW b \in SUBSET Updates, GetUpdates(b) \/ GetMalformed(b)
      PROVE  IndInv'
  BY <1>3, GetUpdatesStep, GetMalformedStep
<1>4. CASE Start \/ StartFails \/ PollFails \/ Stop \/ Quit \/ Crash
  BY <1>4, StartStep, StartFailsStep, PollFailsStep, StopStep, QuitStep, CrashStep
<1>5. ASSUME NEW n \in Offsets, ForceAdvance(n) PROVE IndInv'
  BY <1>5, ForceAdvanceStep
<1> QED BY <1>1, <1>2, <1>3, <1>4, <1>5 DEF Next

\* The inductive invariant holds of every behaviour.
THEOREM Invariance == Spec => []IndInv
BY InitInv, NextInv, PTL DEF Spec

\* Every variable keeps its type.
THEOREM TypeCorrect == Spec => []TypeOK
<1>1. IndInv => TypeOK BY DEF IndInv
<1> QED BY <1>1, Invariance, PTL

\* No update Telegram accepted is lost, for any number of faults.
THEOREM NothingLost == Spec => []NoLoss
<1>1. IndInv => NoLoss BY DEF IndInv
<1> QED BY <1>1, Invariance, PTL

\* The cursor passes no update in progress without an operator.
THEOREM CursorSafe == Spec => []CursorNeverPassesProcessing
<1>1. IndInv => CursorNeverPassesProcessing BY DEF IndInv
<1> QED BY <1>1, Invariance, PTL

\* The bot never acknowledges more than the durable cursor.
THEOREM OffsetSafe == Spec => []OffsetNeverAhead
<1>1. IndInv => OffsetNeverAhead BY DEF IndInv
<1> QED BY <1>1, Invariance, PTL

\* At most MaxAttempts handler runs for any update.
THEOREM RunsSafe == Spec => []RunsBounded
<1>1. IndInv => RunsBounded
  BY PollingAssumption
     DEF IndInv, TypeOK, HistoryTypeOK, RowHistory, RunsBounded
<1> QED BY <1>1, Invariance, PTL

\* A step that changes a run count is a handler run of the update in hand.
LEMMA OnlyHandleRuns ==
  ASSUME IndInv, [Next]_vars, NEW u \in Updates, runs'[u] # runs[u]
  PROVE  /\ IsNext(u) /\ pc = "handle" /\ (Handle(u) \/ Abandon(u))
         /\ status[u] = "PROCESSING" /\ u \in todo /\ u \in arrived
<1>1. ~UNCHANGED runs OBVIOUS
<1>2. PICK v \in Updates : Handle(v) \/ Abandon(v)
  BY <1>1 DEF Next, vars, history, Arrive, Expire, Age, Start, StartFails, GetUpdates,
              GetMalformed, PollFails, Claim, ClaimFails, Complete, CompleteFails, Stop,
              Quit, Crash, ForceAdvance
<1>3. v = u BY <1>2 DEF Handle, Abandon, IndInv, TypeOK, HistoryTypeOK
<1>4. IsNext(u) /\ pc = "handle" BY <1>2, <1>3 DEF Handle, Abandon
<1>5. u \in todo /\ u \in arrived BY <1>4 DEF IsNext, IndInv, QueueHistory
<1>6. status[u] = "PROCESSING" BY <1>4 DEF IndInv, HeldRow
<1> QED BY <1>2, <1>3, <1>4, <1>5, <1>6

\* A finished update is never handled again.
THEOREM NeverRerun == Spec => FinishedNeverRerun
<1>1. IndInv /\ [Next]_vars => [\A u \in finished : runs'[u] = runs[u]]_vars
  <2> SUFFICES ASSUME IndInv, [Next]_vars, NEW u \in finished PROVE runs'[u] = runs[u]
    OBVIOUS
  <2>1. u \in Updates BY DEF IndInv, TypeOK, HistoryTypeOK
  <2>2. status[u] # "PROCESSING" BY <2>1 DEF IndInv, RowHistory
  <2> QED BY <2>1, <2>2, OnlyHandleRuns
<1> QED BY <1>1, Invariance, PTL DEF Spec, FinishedNeverRerun

\* No update overtakes an earlier one that is still to be handled.
THEOREM Ordered == Spec => InOrder
<1> DEFINE A == \A u \in Updates : runs'[u] # runs[u] =>
       \A v \in arrived : v < u => v \in finished \union expired \/ v < forced
<1>1. IndInv /\ [Next]_vars => [A]_vars
  <2> SUFFICES ASSUME IndInv, [Next]_vars, NEW u \in Updates, runs'[u] # runs[u],
                      NEW v \in arrived, v < u
               PROVE  v \in finished \union expired \/ v < forced
    OBVIOUS
  <2>1. IsNext(u) /\ u \in todo BY OnlyHandleRuns
  <2>2. v \in Updates /\ u \in Updates BY DEF IndInv, TypeOK, QueueTypeOK
  <2>3. v \notin todo BY <2>1, <2>2 DEF IsNext, Updates
  <2>4. CASE v \in pending
    <3>1. status[v] \in Terminal \/ v < forced
      BY <2>1, <2>3, <2>4 DEF IndInv, BatchIsPrefix
    <3> QED BY <2>2, <3>1 DEF IndInv, RowHistory
  <2>5. CASE v \notin pending BY <2>5 DEF IndInv, NoLoss
  <2> QED BY <2>4, <2>5
<1> HIDE DEF A
<1>2. [][A]_vars => InOrder BY DEF A, InOrder
<1> QED BY <1>1, <1>2, Invariance, PTL DEF Spec

------------------------------------------------------------------------------
(* The poller implements AtLeastOnce. *)

\* A claim is a try, a finish after the last try, or nothing.
LEMMA ClaimRefines ==
  ASSUME IndInv, NEW u \in Updates, IsNext(u), ClaimRow(u),
         UNCHANGED <<arrived, expired, runs, forced>>
  PROVE  [Promise!ANext]_(Promise!avars)
<1>1. u \in arrived /\ RowHistory(u) /\ (status[u] = "NONE" => u \notin finished)
  BY DEF IndInv, QueueHistory, RowHistory, IsNext
<1>2. claims[u] \in Nat /\ attempts[u] \in Nat
  BY DEF IndInv, TypeOK, HistoryTypeOK, LedgerTypeOK
<1>3. CASE ClaimInserts(u)
  <2>1. claims[u] < MaxAttempts
    BY <1>1, <1>3, PollingAssumption DEF RowHistory, ClaimInserts
  <2>2. Promise!Try(u)
    BY <1>1, <1>3, <2>1 DEF Promise!Try, Promise!Open, ClaimInserts
  <2> QED BY <2>2 DEF Promise!ANext
<1>4. CASE ClaimRetries(u)
  <2>1. claims[u] < MaxAttempts /\ u \notin finished
    BY <1>1, <1>2, <1>4, PollingAssumption DEF RowHistory, ClaimRetries, Resumable, Exhausted
  <2>2. Promise!Try(u)
    BY <1>1, <1>4, <2>1 DEF Promise!Try, Promise!Open, ClaimRetries
  <2> QED BY <2>2 DEF Promise!ANext
<1>5. CASE ClaimExhausts(u)
  <2>1. claims[u] = MaxAttempts /\ u \notin finished
    BY <1>1, <1>2, <1>5, PollingAssumption DEF RowHistory, ClaimExhausts, Resumable, Exhausted
  <2>2. Promise!Finish(u)
    BY <1>1, <1>5, <2>1 DEF Promise!Finish, Promise!Open, ClaimExhausts
  <2> QED BY <2>2 DEF Promise!ANext
<1>6. CASE ClaimDuplicate(u)
  BY <1>6 DEF Promise!avars, ClaimDuplicate
<1> QED BY <1>3, <1>4, <1>5, <1>6 DEF ClaimRow

\* A terminal write is a finish, or nothing for a duplicate.
LEMMA CompleteRefines ==
  ASSUME IndInv, NEW u \in Updates, IsNext(u), pc = "complete", CompleteRow(u),
         UNCHANGED <<arrived, expired, runs, forced>>
  PROVE  [Promise!ANext]_(Promise!avars)
<1>1. u \in arrived /\ RowHistory(u)
  BY DEF IndInv, QueueHistory, IsNext
<1>2. finished' = finished \union {u} /\ claims' = claims /\ status[u] # "NONE"
  BY DEF CompleteRow
<1>3. CASE u \in finished
  BY <1>2, <1>3 DEF Promise!avars
<1>4. CASE u \notin finished
  <2>1. status[u] = "PROCESSING"
    BY <1>1, <1>2, <1>4 DEF RowHistory, Terminal, IndInv, TypeOK, LedgerTypeOK
  <2>2. runs[u] > 0 BY <2>1 DEF IndInv, HeldRow
  <2>3. Promise!Finish(u)
    BY <1>1, <1>2, <1>4, <2>2 DEF Promise!Finish, Promise!Open
  <2> QED BY <2>3 DEF Promise!ANext
<1> QED BY <1>3, <1>4

\* Running the handler is a run of the update the last claim handed out.
LEMMA HandleRefines ==
  ASSUME IndInv, NEW u \in Updates, IsNext(u), pc = "handle",
         runs' = [runs EXCEPT ![u] = @ + 1],
         UNCHANGED <<arrived, expired, forced, claims, finished>>
  PROVE  [Promise!ANext]_(Promise!avars)
<1>1. u \in arrived /\ RowHistory(u) BY DEF IndInv, QueueHistory, IsNext
<1>2. status[u] = "PROCESSING" /\ runs[u] < claims[u] BY DEF IndInv, HeldRow
<1>3. u \notin finished BY <1>1, <1>2 DEF RowHistory
<1>4. Promise!Run(u) BY <1>1, <1>2, <1>3 DEF Promise!Run, Promise!Open
<1> QED BY <1>4 DEF Promise!ANext

\* Every step of the poller is a step of the promise or leaves it alone.
LEMMA StepRefines ==
  IndInv /\ [Next]_vars => [Promise!ANext]_(Promise!avars)
<1> SUFFICES ASSUME IndInv, [Next]_vars PROVE [Promise!ANext]_(Promise!avars) OBVIOUS
<1> USE DEF ledger, queue, bot, history, operator
<1>1. CASE UNCHANGED vars BY <1>1 DEF vars, Promise!avars
<1>2. ASSUME NEW u \in Updates, Arrive(u) PROVE Promise!ANext
  <2>1. u \notin arrived
    BY <1>2 DEF Arrive, Updates, IndInv, TypeOK, QueueTypeOK
  <2>2. finished \subseteq arrived
    BY DEF IndInv, RowHistory, TypeOK, HistoryTypeOK
  <2>3. Promise!Accept(u) BY <1>2, <2>1 DEF Promise!Accept, Arrive
  <2> QED BY <2>3 DEF Promise!ANext
<1>3. ASSUME NEW u \in Updates, Expire(u) PROVE Promise!ANext
  <2>1. Promise!Excuse
    BY <1>3 DEF Promise!Excuse, Expire, IndInv, TypeOK, QueueTypeOK
  <2> QED BY <2>1 DEF Promise!ANext
<1>4. ASSUME NEW n \in Offsets, ForceAdvance(n) PROVE Promise!ANext
  <2>1. forced <= nextOffset /\ nextOffset < n /\ forced' = n /\ expired' = expired
        /\ UNCHANGED <<arrived, claims, runs, finished>>
    BY <1>4 DEF ForceAdvance, IndInv, QueueHistory
  <2>2. forced \in Int /\ nextOffset \in Int /\ n \in Int /\ expired \in SUBSET Updates
    BY PollingAssumption DEF IndInv, TypeOK, HistoryTypeOK, LedgerTypeOK, QueueTypeOK, Offsets
  <2>3. \A u \in Updates : u < forced => u < forced'
    BY <2>1, <2>2, PollingAssumption DEF Updates
  <2>4. expired' \union {u \in Updates : u < forced'} \in SUBSET Updates
    BY <2>1, <2>2
  <2>5. Promise!Excuse BY <2>1, <2>3, <2>4 DEF Promise!Excuse
  <2> QED BY <2>5 DEF Promise!ANext
<1>5. ASSUME NEW u \in Updates, Claim(u) \/ ClaimFails(u)
      PROVE  [Promise!ANext]_(Promise!avars)
  <2>1. IsNext(u) /\ UNCHANGED <<arrived, expired, runs, forced>>
    BY <1>5 DEF Claim, ClaimFails
  <2>2. CASE ClaimRow(u) BY <2>1, <2>2, ClaimRefines
  <2>3. CASE UNCHANGED <<claims, finished>> BY <2>1, <2>3 DEF Promise!avars
  <2> QED BY <1>5, <2>2, <2>3 DEF Claim, ClaimFails, ClaimRow
<1>6. ASSUME NEW u \in Updates, Complete(u) \/ CompleteFails(u)
      PROVE  [Promise!ANext]_(Promise!avars)
  <2>1. IsNext(u) /\ pc = "complete" /\ UNCHANGED <<arrived, expired, runs, forced>>
    BY <1>6 DEF Complete, CompleteFails
  <2>2. CASE CompleteRow(u) BY <2>1, <2>2, CompleteRefines
  <2>3. CASE UNCHANGED <<claims, finished>> BY <2>1, <2>3 DEF Promise!avars
  <2> QED BY <1>6, <2>2, <2>3 DEF Complete, CompleteFails
<1>7. ASSUME NEW u \in Updates, Handle(u) \/ Abandon(u)
      PROVE  [Promise!ANext]_(Promise!avars)
  BY <1>7, HandleRefines DEF Handle, Abandon
<1>8. ASSUME \/ \E u \in Updates : Age(u)
             \/ Start \/ StartFails \/ PollFails \/ Stop \/ Quit \/ Crash
             \/ \E b \in SUBSET Updates : GetUpdates(b) \/ GetMalformed(b)
      PROVE  UNCHANGED Promise!avars
  BY <1>8 DEF Promise!avars, Age, Start, StartFails, PollFails, Stop, Quit, Crash,
              GetUpdates, GetMalformed
<1> QED BY <1>1, <1>2, <1>3, <1>4, <1>5, <1>6, <1>7, <1>8 DEF Next

\* The poller keeps the promise: bounded tries, at most one run a try, a
\* terminal outcome only after a run or the last try, nothing after it.
THEOREM Refinement == Spec => PromiseKept
<1>1. Init => Promise!AInit
  BY DEF Init, Promise!AInit, Updates
<1> QED BY <1>1, Invariance, StepRefines, PTL DEF Spec, PromiseKept, Promise!ASpec

------------------------------------------------------------------------------
------------------------------------------------------------------------------
(* The page of the console: what its calls and its lists are *)

\* What a call of each kind carries.
LEMMA CallFields == ASSUME NEW c \in PageCalls
    PROVE  /\ c = Idle <=> c.kind = "idle"
           /\ c # Idle => c.as \in Nat
           /\ c.kind = "load" => c.about \in [panel: Panels, for: {NoOne, "create"}]
           /\ c.kind = "list" => c.about \in [filter: Filters, for: {NoOne, "create"} \cup TaskDialogs]
           /\ c.kind = "detail" => c.about \in [task: Tasks \cup {NoOne}, for: {NoOne} \cup TaskDialogs]
           /\ c.kind = "context" => c.about \in [search: Searches, for: {NoOne}]
           /\ c.kind = "people" => c.about \in [search: Searches, for: {NoOne, "administrator"}]
           /\ c.kind = "keys" => c.about \in Integrations
           /\ c.kind = "change" => c.about \in Writes
           /\ c.kind = "test" => c.about \in Trials
           /\ c.kind = "secret" => c.about \in {"login", "administrator"}
<1> USE DEF PlainCalls, LoadCalls, ChangeCalls
<1>1. CASE c = Idle BY <1>1 DEF Idle
<1>2. CASE c \in PlainCalls BY <1>2 DEF Idle
<1>3. CASE c \in LoadCalls BY <1>3 DEF Idle
<1>4. CASE c \in ChangeCalls BY <1>4 DEF Idle
<1> QED BY <1>1, <1>2, <1>3, <1>4 DEF PageCalls

\* Calls that carry what their kind does are calls.
LEMMA CallsMade == ASSUME BrowserTypeOK
    PROVE  /\ Idle \in PageCalls
           /\ \A k \in {"login", "logout", "password", "recipients", "recent"}: Call(k, NoOne) \in PageCalls
           /\ \A i \in Integrations: Call("keys", i) \in PageCalls
           /\ \A t \in Tasks \cup {NoOne}, d \in {NoOne} \cup TaskDialogs: AskDetail(t, d) \in PageCalls
           /\ \A f \in Filters, d \in {NoOne, "create"} \cup TaskDialogs:
                  Call("list", [filter |-> f, for |-> d]) \in PageCalls
           /\ \A p \in Panels, d \in {NoOne, "create"}: Call("load", [panel |-> p, for |-> d]) \in PageCalls
           /\ \A q \in Searches: Call("context", [search |-> q, for |-> NoOne]) \in PageCalls
           /\ \A q \in Searches, d \in {NoOne, "administrator"}:
                  Call("people", [search |-> q, for |-> d]) \in PageCalls
           /\ \A w \in Writes: Call("change", w) \in PageCalls
           /\ \A r \in Trials: Call("test", r) \in PageCalls
           /\ \A f \in {"login", "administrator"}: Call("secret", f) \in PageCalls
<1>1. server.session \in Nat BY DEF BrowserTypeOK
<1> USE <1>1 DEF Call, PageCalls
<1>2. Idle \in PageCalls OBVIOUS
<1>3. \A k \in {"login", "logout", "password", "recipients", "recent"}: Call(k, NoOne) \in PlainCalls
    BY DEF PlainCalls
<1>4. \A i \in Integrations: Call("keys", i) \in LoadCalls
    BY DEF LoadCalls
<1>5. \A t \in Tasks \cup {NoOne}, d \in {NoOne} \cup TaskDialogs: AskDetail(t, d) \in LoadCalls
    BY DEF LoadCalls, AskDetail
<1>6. \A f \in Filters, d \in {NoOne, "create"} \cup TaskDialogs:
          Call("list", [filter |-> f, for |-> d]) \in LoadCalls
    BY DEF LoadCalls
<1>7. \A p \in Panels, d \in {NoOne, "create"}: Call("load", [panel |-> p, for |-> d]) \in LoadCalls
    BY DEF LoadCalls
<1>8. \A q \in Searches: Call("context", [search |-> q, for |-> NoOne]) \in LoadCalls
    BY DEF LoadCalls
<1>9. \A q \in Searches, d \in {NoOne, "administrator"}: Call("people", [search |-> q, for |-> d]) \in LoadCalls
    BY DEF LoadCalls
<1>10. \A w \in Writes: Call("change", w) \in ChangeCalls
    BY DEF ChangeCalls
<1>11. \A r \in Trials: Call("test", r) \in ChangeCalls
    BY DEF ChangeCalls
<1>12. \A f \in {"login", "administrator"}: Call("secret", f) \in ChangeCalls
    BY DEF ChangeCalls
<1> HIDE DEF Call
<1> QED BY <1>2, <1>3, <1>4, <1>5, <1>6, <1>7, <1>8, <1>9, <1>10, <1>11, <1>12

LEMMA SlotSet == ASSUME net \in [Slots -> PageCalls], NEW s \in Slots, NEW c \in PageCalls,
                        net' = [net EXCEPT ![s] = c]
    PROVE  net' \in [Slots -> PageCalls] /\ net'[s] = c /\ \A t \in Slots \ {s}: net'[t] = net[t]
OBVIOUS

\* A panel is asked for with the filter or the search chosen now.
LEMMA LoadsAre == ASSUME BrowserTypeOK, BrowserAssumption, NEW p \in Panels, NEW d \in {NoOne, "create"} \cup TaskDialogs,
                         d # NoOne => p \in {"dashboard", "tasks"}, d \in TaskDialogs => p = "tasks"
    PROVE  /\ LoadOf(p, d) \in PageCalls
           /\ LoadOf(p, d).kind \in {"list", "people", "context", "load"}
           /\ LoadOf(p, d).about.for = d
           /\ LoadOf(p, d).kind = "list" => LoadOf(p, d).about.filter = lists.filter
           /\ LoadOf(p, d).kind \in {"people", "context"} => p = "users" /\ d = NoOne
           /\ LoadOf(p, d).kind = "list" <=> p = "tasks"
<1>1. lists.filter \in Filters /\ lists.search \in Searches /\ lists.catalogs \in BOOLEAN
    BY DEF BrowserTypeOK, Contents
<1>2. CASE p = "tasks"
    <2>1. LoadOf(p, d) = Call("list", [filter |-> lists.filter, for |-> d])
        BY <1>2 DEF LoadOf
    <2> QED BY <1>1, <1>2, <2>1, CallsMade DEF Call
<1>3. CASE p = "users"
    <2>1. d = NoOne
        BY <1>3
    <2>2. LoadOf(p, d) = Call(IF lists.catalogs THEN "people" ELSE "context", [search |-> lists.search, for |-> NoOne])
        BY <1>3, <2>1 DEF LoadOf
    <2>3. LoadOf(p, d) \in PageCalls
        BY <1>1, <2>2, CallsMade
    <2>4. /\ LoadOf(p, d).kind \in {"people", "context"}
          /\ LoadOf(p, d).about = [search |-> lists.search, for |-> NoOne]
        BY <2>2 DEF Call
    <2> QED BY <1>3, <2>1, <2>3, <2>4
<1>4. CASE p \notin {"tasks", "users"}
    <2>1. LoadOf(p, d) = Call("load", [panel |-> p, for |-> d])
        BY <1>4 DEF LoadOf
    <2>2. d \in {NoOne, "create"}
        BY <1>4
    <2>3. LoadOf(p, d) \in PageCalls
        BY <2>1, <2>2, CallsMade
    <2>4. LoadOf(p, d).kind = "load" /\ LoadOf(p, d).about = [panel |-> p, for |-> d]
        BY <2>1 DEF Call
    <2> QED BY <1>4, <2>3, <2>4
<1> QED BY <1>2, <1>3, <1>4

\* Emptying a panel forgets its contents and whose they were, and nothing of what was chosen.
LEMMA EmptiedIs == ASSUME BrowserTypeOK, NEW p \in Panels, NEW e, e = Emptied(p)
    PROVE  /\ e \in Contents
           /\ e.filter = lists.filter /\ e.search = lists.search /\ e.catalogs = lists.catalogs
           /\ e.keys.rows = lists.keys.rows
           /\ e.rows \in {NoOne, lists.rows} /\ e.people \in {{}, lists.people}
           /\ e.keys.title \in {NoOne, lists.keys.title}
           /\ p = "tasks" => e.rows = NoOne
           /\ p = "users" => e.people = {}
           /\ e.shown[p] = 0 /\ \A o \in Panels \ {p}: e.shown[o] = lists.shown[o]
<1>1. lists \in Contents BY DEF BrowserTypeOK
<1> USE DEF Contents
<1>2. CASE p = "tasks" BY <1>1, <1>2 DEF Emptied
<1>3. CASE p = "users" BY <1>1, <1>3 DEF Emptied
<1>4. CASE p = "integrations" BY <1>1, <1>4 DEF Emptied
<1>5. CASE p \notin {"tasks", "users", "integrations"} BY <1>1, <1>5 DEF Emptied
<1> QED BY <1>2, <1>3, <1>4, <1>5

\* What an answer makes of the page.
LEMMA PageTurns == ASSUME BrowserTypeOK, NEW answer
    PROVE  /\ PageAfter(answer) \in PageStates
           /\ PageAfter(answer).panel = page.panel
           /\ \/ PageAfter(answer) = page
              \/ PageAfter(answer).view = "login" /\ PageAfter(answer).login = NoOne /\ answer = "unauthorized"
BY DEF PageAfter, Unauthorized, showLogin, BrowserTypeOK, PageStates

\* A dialog is let go by the last of the calls it waits for.
LEMMA LetsGo == ASSUME BrowserTypeOK, NEW s \in Slots, NEW w, w = LetGo(s)
    PROVE  /\ w \in WorkStates
           /\ w.task = work.task /\ w.open = work.open /\ w.form = work.form /\ w.dialog = work.dialog
           /\ \/ w.busy = work.busy
              \/ /\ w.busy = work.busy \ {net[s].about.for}
                 /\ \A t \in Slots \ {s}: net[t] # Idle /\ net[t].kind \in {"list", "detail"} =>
                        net[t].about.for # net[s].about.for
BY DEF LetGo, BrowserTypeOK, WorkStates

\* And by no other.
LEMMA DialogCloses == ASSUME BrowserTypeOK, NEW d, NEW w, w = Closed(d)
    PROVE  /\ w \in WorkStates
           /\ w.task = work.task /\ w.open = work.open /\ w.busy = work.busy
           /\ IF work.dialog = d THEN w.dialog = NoOne /\ w.form = NoOne
              ELSE w.dialog = work.dialog /\ w.form = work.form
BY DEF Closed, BrowserTypeOK, WorkStates, Dialogs

\* A call goes out in a free slot, or follows another in its slot.
LEMMA SendsIs == ASSUME BrowserTypeOK, NEW k, NEW a, Call(k, a) \in PageCalls, Sends(k, a)
    PROVE  /\ net' \in [Slots -> PageCalls]
           /\ \E s \in Slots: /\ net[s] = Idle /\ net[s].kind = "idle"
                              /\ net'[s].kind = k /\ net'[s].about = a /\ net'[s].as = server.session
                              /\ \A t \in Slots \ {s}: net'[t] = net[t]
<1>1. PICK s \in Slots: net[s] = Idle /\ net' = [net EXCEPT ![s] = Call(k, a)]
    BY DEF Sends
<1>2. net' \in [Slots -> PageCalls] /\ net'[s] = Call(k, a) /\ \A t \in Slots \ {s}: net'[t] = net[t]
    BY <1>1, SlotSet DEF BrowserTypeOK
<1> QED BY <1>1, <1>2 DEF Call, Idle

LEMMA FollowsIs == ASSUME BrowserTypeOK, NEW s \in Slots, NEW k, NEW a, Call(k, a) \in PageCalls, Follows(s, k, a)
    PROVE  /\ net' \in [Slots -> PageCalls]
           /\ net'[s].kind = k /\ net'[s].about = a /\ net'[s].as = server.session
           /\ \A t \in Slots \ {s}: net'[t] = net[t]
<1>1. net' \in [Slots -> PageCalls] /\ net'[s] = Call(k, a) /\ \A t \in Slots \ {s}: net'[t] = net[t]
    BY SlotSet DEF BrowserTypeOK, Follows
<1> QED BY <1>1 DEF Call

LEMMA SettlesIs == ASSUME BrowserTypeOK, NEW s \in Slots, Settles(s)
    PROVE  /\ net' \in [Slots -> PageCalls]
           /\ net'[s] = Idle /\ net'[s].kind = "idle"
           /\ \A t \in Slots \ {s}: net'[t] = net[t]
<1>1. net' \in [Slots -> PageCalls] /\ net'[s] = Idle /\ \A t \in Slots \ {s}: net'[t] = net[t]
    BY SlotSet, CallsMade DEF BrowserTypeOK, Settles
<1> QED BY <1>1 DEF Idle

LEMMA SameCall == ASSUME NEW c \in PageCalls, c # Idle, NEW n \in Nat, NEW d, d = [c EXCEPT !.as = n]
    PROVE  d \in PageCalls /\ d.kind = c.kind /\ d.about = c.about /\ d.as = n
<1>1. CASE c \in PlainCalls BY <1>1 DEF PlainCalls, PageCalls
<1>2. CASE c \in ChangeCalls BY <1>2 DEF ChangeCalls, PageCalls
<1>3. CASE c \in LoadCalls
    <2>1. d \in LoadCalls /\ d.kind = c.kind /\ d.about = c.about /\ d.as = n
        BY <1>3 DEF LoadCalls
    <2> QED BY <2>1 DEF PageCalls
<1> QED BY <1>1, <1>2, <1>3 DEF PageCalls

\* Whoever enters finds a panel that is asked for, or must change a password first.
LEMMA EntersIs == ASSUME BrowserAssumption, BrowserTypeOK, NEW s \in Slots, NEW login \in Nat, NEW restricted \in BOOLEAN,
                         server'.session \in Nat, Enters(s, login, restricted)
    PROVE  /\ page' \in PageStates /\ page'.login = login /\ page'.panel = page.panel
           /\ net' \in [Slots -> PageCalls] /\ \A t \in Slots \ {s}: net'[t] = net[t]
           /\ \/ /\ restricted /\ page'.view = "password" /\ net'[s] = Idle /\ net'[s].kind = "idle" /\ lists' = lists
              \/ /\ ~restricted /\ page'.view = "shell" /\ lists' = Emptied(page.panel)
                 /\ net'[s].kind \in {"list", "people", "context", "load"} /\ net'[s].about.for = NoOne
                 /\ net'[s].kind = "list" => net'[s].about.filter = lists.filter
                 /\ net'[s].kind = "list" <=> page.panel = "tasks"
                 /\ net'[s].kind \in {"people", "context"} => page.panel = "users"
<1>1. page' \in PageStates /\ page'.login = login /\ page'.panel = page.panel
      /\ page'.view = IF restricted THEN "password" ELSE "shell"
    BY DEF Enters, Entered, BrowserTypeOK, PageStates
<1>2. CASE restricted
    <2>1. Settles(s) /\ lists' = lists
        BY <1>2 DEF Enters
    <2> QED BY <1>1, <1>2, <2>1, SettlesIs
<1>3. CASE ~restricted
    <2>1. page.panel \in Panels
        BY DEF BrowserTypeOK, PageStates
    <2> DEFINE c == LoadOf(page.panel, NoOne)
               d == [c EXCEPT !.as = server'.session]
    <2>2. /\ c \in PageCalls /\ c.kind \in {"list", "people", "context", "load"} /\ c.about.for = NoOne
          /\ c.kind = "list" => c.about.filter = lists.filter
          /\ c.kind \in {"people", "context"} => page.panel = "users"
          /\ c.kind = "list" <=> page.panel = "tasks"
        BY <2>1, LoadsAre DEF BrowserAssumption, TaskDialogs
    <2>3. net' = [net EXCEPT ![s] = d] /\ lists' = Emptied(page.panel)
        BY <1>3 DEF Enters
    <2>4. c # Idle
        BY <2>2 DEF Idle
    <2>5. d \in PageCalls /\ d.kind = c.kind /\ d.about = c.about
        <3> HIDE DEF c
        <3> QED BY <2>2, <2>4, SameCall
    <2>6. net' \in [Slots -> PageCalls] /\ net'[s] = d /\ \A t \in Slots \ {s}: net'[t] = net[t]
        <3> HIDE DEF d
        <3> QED BY <2>3, <2>5, SlotSet DEF BrowserTypeOK
    <2> HIDE DEF c, d
    <2> QED BY <1>1, <1>3, <2>2, <2>3, <2>5, <2>6
<1> QED BY <1>2, <1>3

\* The history notes an answer that is shown to somebody else, and keeps the rest.
LEMMA TakenUpIs == ASSUME BrowserTypeOK, NEW s \in Slots, TakenUp(s)
    PROVE  /\ past' \in Histories /\ (past'.strays <=> past.strays \/ Stray(s))
           /\ past'.crossed = past.crossed /\ past'.swapped = past.swapped /\ past'.requests = past.requests
           /\ past'.unknown = past.unknown /\ past'.issued = past.issued /\ past'.kept = past.kept
           /\ past'.doubled = past.doubled
<1>1. Stray(s) \in BOOLEAN
    BY DEF Stray
<1> HIDE DEF Stray
<1> QED BY <1>1 DEF TakenUp, BrowserTypeOK, Histories

LEMMA ListedIs == ASSUME BrowserTypeOK, NEW s \in Slots, NEW answer, Listed(s, answer)
    PROVE  /\ past' \in Histories /\ (past'.strays <=> past.strays \/ (answer = "ok" /\ Stray(s)))
           /\ (past'.crossed <=> past.crossed \/ Crossing(s))
           /\ past'.swapped = past.swapped /\ past'.requests = past.requests
           /\ past'.unknown = past.unknown /\ past'.issued = past.issued /\ past'.kept = past.kept
           /\ past'.doubled = past.doubled
<1>1. Stray(s) \in BOOLEAN /\ Crossing(s) \in BOOLEAN
    BY DEF Stray, Crossing
<1> HIDE DEF Stray, Crossing
<1> QED BY <1>1 DEF Listed, BrowserTypeOK, Histories

\* What a load brings is shown, with the login it was asked for by.
LEMMA LoadSettlesIs == ASSUME BrowserTypeOK, NEW s \in Slots, NEW p \in Panels, net[s].kind = "load", NEW answer, NEW shown \in BOOLEAN,
                              LoadSettles(s, p, answer, shown)
    PROVE  /\ page' = PageAfter(answer) /\ page' \in PageStates /\ work' = LetGo(s) /\ work' \in WorkStates
           /\ UNCHANGED <<server, secret>>
           /\ lists' \in Contents /\ lists'.filter = lists.filter /\ lists'.rows = lists.rows
           /\ lists'.keys = lists.keys /\ lists'.people = lists.people
           /\ past' \in Histories
           /\ past'.crossed = past.crossed /\ past'.swapped = past.swapped /\ past'.requests = past.requests
           /\ past'.unknown = past.unknown /\ past'.issued = past.issued /\ past'.kept = past.kept
           /\ past'.doubled = past.doubled
           /\ \/ lists' = lists /\ past' = past
              \/ /\ answer = "ok" /\ (past'.strays <=> past.strays \/ Stray(s))
                 /\ lists'.shown[p] = net[s].as
                 /\ \A o \in Panels \ {p}: lists'.shown[o] = lists.shown[o]
<1>1. page' = PageAfter(answer) /\ work' = LetGo(s) /\ UNCHANGED <<server, secret>>
    BY DEF LoadSettles
<1>2. page' \in PageStates
    BY <1>1, PageTurns
<1>3. work' \in WorkStates
    BY <1>1, LetsGo
<1>4. CASE answer = "ok" /\ shown
    <2>1. lists' = [lists EXCEPT !.shown[p] = net[s].as] /\ TakenUp(s)
        BY <1>4 DEF LoadSettles
    <2>2. net[s] \in PageCalls /\ lists \in Contents
        BY DEF BrowserTypeOK
    <2>3. net[s].as \in Nat
        BY <2>2, CallFields DEF Idle
    <2>4. /\ lists' \in Contents /\ lists'.filter = lists.filter /\ lists'.rows = lists.rows
          /\ lists'.keys = lists.keys /\ lists'.people = lists.people /\ lists'.shown[p] = net[s].as
          /\ \A o \in Panels \ {p}: lists'.shown[o] = lists.shown[o]
        BY <2>1, <2>2, <2>3 DEF Contents
    <2> QED BY <1>1, <1>2, <1>3, <1>4, <2>1, <2>4, TakenUpIs
<1>5. CASE ~(answer = "ok" /\ shown)
    <2>1. lists' = lists /\ past' = past
        BY <1>5 DEF LoadSettles
    <2> QED BY <1>1, <1>2, <1>3, <2>1 DEF BrowserTypeOK
<1> QED BY <1>4, <1>5

LEMMA SessionTypes == ASSUME BrowserAssumption, BrowserTypeOK, SessionNext PROVE BrowserTypeOK'
<1>1. CASE SubmitLogin \/ SubmitLogout \/ SubmitPassword
    BY <1>1, SendsIs, CallsMade DEF SubmitLogin, SubmitLogout, SubmitPassword, BrowserTypeOK
<1>2. CASE SessionEnds
    BY <1>2 DEF SessionEnds, BrowserTypeOK
<1>3. ASSUME NEW s \in Slots, LoginAnswered(s) PROVE BrowserTypeOK'
    <2>1. CASE UNCHANGED <<server, page, lists>> /\ Settles(s)
        BY <1>3, <2>1, SettlesIs DEF LoginAnswered, BrowserTypeOK
    <2>2. CASE ~(UNCHANGED <<server, page, lists>> /\ Settles(s))
        <3>1. PICK restricted \in BOOLEAN:
                  /\ server' = [server EXCEPT !.session = server.logins + 1, !.logins = server.logins + 1,
                        !.restricted = IF restricted THEN @ \cup {server.logins + 1} ELSE @]
                  /\ \/ Settles(s) /\ UNCHANGED <<page, lists>>
                     \/ Enters(s, server.logins + 1, restricted)
            BY <1>3, <2>2 DEF LoginAnswered
        <3>2. server' \in [session: Nat, logins: Nat, restricted: SUBSET Nat] /\ server.logins + 1 \in Nat
            <4>1. server' = [server EXCEPT !.session = server.logins + 1, !.logins = server.logins + 1,
                        !.restricted = IF restricted THEN @ \cup {server.logins + 1} ELSE @]
                BY <3>1
            <4>2. server \in [session: Nat, logins: Nat, restricted: SUBSET Nat]
                BY DEF BrowserTypeOK
            <4> DEFINE n == server.logins + 1
                       R == IF restricted THEN server.restricted \cup {n} ELSE server.restricted
            <4>3. server' = [server EXCEPT !.session = n, !.logins = n, !.restricted = R]
                BY <4>1
            <4>4. server.logins \in Nat /\ server.restricted \subseteq Nat
                BY <4>2
            <4>5. n \in Nat /\ R \subseteq Nat
                BY <4>4
            <4> HIDE DEF n, R
            <4>6. server' \in [session: Nat, logins: Nat, restricted: SUBSET Nat]
                BY <4>2, <4>3, <4>5
            <4> QED BY <4>5, <4>6 DEF n
        <3>3. UNCHANGED <<work, trial, secret, past>>
            BY <1>3 DEF LoginAnswered
        <3>4. CASE Settles(s) /\ UNCHANGED <<page, lists>>
            BY <3>2, <3>3, <3>4, SettlesIs DEF BrowserTypeOK
        <3>5. CASE Enters(s, server.logins + 1, restricted)
            <4>1. server'.session \in Nat BY <3>2
            <4>2. page.panel \in Panels BY DEF BrowserTypeOK, PageStates
            <4>3. lists' \in Contents
                BY <3>2, <3>5, <4>1, <4>2, EntersIs, EmptiedIs DEF BrowserTypeOK
            <4> QED BY <3>2, <3>3, <3>5, <4>1, <4>3, EntersIs DEF BrowserTypeOK
        <3> QED BY <3>1, <3>4, <3>5
    <2> QED BY <2>1, <2>2
<1>4. ASSUME NEW s \in Slots, LogoutAnswered(s) PROVE BrowserTypeOK'
    <2>1. page' \in PageStates
        BY <1>4 DEF LogoutAnswered, showLogin, BrowserTypeOK, PageStates
    <2>2. server' \in {server, [server EXCEPT !.session = 0]}
        BY <1>4 DEF LogoutAnswered
    <2> QED BY <1>4, <2>1, <2>2, SettlesIs DEF LogoutAnswered, BrowserTypeOK
<1>5. ASSUME NEW s \in Slots, PasswordAnswered(s) PROVE BrowserTypeOK'
    <2>1. PICK answer \in Answers(s):
              \/ /\ answer = "ok"
                 /\ server' = [server EXCEPT !.restricted = @ \ {net[s].as}]
                 /\ Enters(s, IF page.login = NoOne THEN 0 ELSE page.login, FALSE)
                 /\ TakenUp(s)
              \/ /\ answer # "ok"
                 /\ page' = PageAfter(answer) /\ Settles(s)
                 /\ UNCHANGED <<server, lists, past>>
        BY <1>5 DEF PasswordAnswered
    <2>2. UNCHANGED <<work, trial, secret>>
        BY <1>5 DEF PasswordAnswered
    <2>3. CASE answer = "ok"
        <3>1. server' \in [session: Nat, logins: Nat, restricted: SUBSET Nat] /\ server'.session \in Nat
            BY <2>1, <2>3 DEF BrowserTypeOK
        <3>2. (IF page.login = NoOne THEN 0 ELSE page.login) \in Nat /\ page.panel \in Panels
            BY DEF BrowserTypeOK, PageStates
        <3>3. page' \in PageStates /\ lists' \in Contents /\ net' \in [Slots -> PageCalls]
            BY <2>1, <2>3, <3>1, <3>2, EntersIs, EmptiedIs
        <3> QED BY <2>1, <2>2, <2>3, <3>1, <3>3, TakenUpIs DEF BrowserTypeOK
    <2>4. CASE answer # "ok"
        <3>1. page' = PageAfter(answer) /\ Settles(s) /\ UNCHANGED <<server, lists, past>>
            BY <2>1, <2>4
        <3>2. page' \in PageStates
            BY <3>1, PageTurns
        <3> QED BY <2>2, <3>1, <3>2, SettlesIs DEF BrowserTypeOK
    <2> QED BY <2>3, <2>4
<1> QED BY <1>1, <1>2, <1>3, <1>4, <1>5 DEF SessionNext

LEMMA PanelTypes == ASSUME BrowserAssumption, BrowserTypeOK, PanelsNext PROVE BrowserTypeOK'
<1>1. ASSUME NEW p \in Panels, navigate(p) PROVE BrowserTypeOK'
    <2>1. PICK s \in Slots: net[s] = Idle /\ net' = [net EXCEPT ![s] = LoadOf(p, NoOne)]
        BY <1>1 DEF navigate
    <2>2. LoadOf(p, NoOne) \in PageCalls
        BY LoadsAre DEF BrowserAssumption, TaskDialogs
    <2>3. net' \in [Slots -> PageCalls]
        BY <2>1, <2>2, SlotSet DEF BrowserTypeOK
    <2>4. page' \in PageStates
        BY <1>1 DEF navigate, BrowserTypeOK, PageStates
    <2>5. lists' \in Contents
        BY <1>1, EmptiedIs DEF navigate
    <2> QED BY <1>1, <2>3, <2>4, <2>5 DEF navigate, BrowserTypeOK
<1>2. ASSUME NEW s \in Slots, initializeApplication(s) PROVE BrowserTypeOK'
    <2>1. CASE page' = showLogin /\ UNCHANGED <<lists, net>>
        BY <1>2, <2>1 DEF initializeApplication, showLogin, BrowserTypeOK, PageStates
    <2>2. CASE Enters(s, server.session, server.session \in server.restricted)
        <3>1. server' = server /\ server.session \in Nat /\ (server.session \in server.restricted) \in BOOLEAN
              /\ page.panel \in Panels
            BY <1>2 DEF initializeApplication, BrowserTypeOK, PageStates
        <3>2. page' \in PageStates /\ lists' \in Contents /\ net' \in [Slots -> PageCalls]
            <4>1. ASSUME NEW r \in BOOLEAN, Enters(s, server.session, r)
                  PROVE  page' \in PageStates /\ lists' \in Contents /\ net' \in [Slots -> PageCalls]
                BY <3>1, <4>1, EntersIs, EmptiedIs DEF BrowserTypeOK
            <4> QED BY <2>2, <3>1, <4>1
        <3> QED BY <1>2, <3>1, <3>2 DEF initializeApplication, BrowserTypeOK
    <2> QED BY <1>2, <2>1, <2>2 DEF initializeApplication
<1>3. ASSUME NEW s \in Slots, ListAnswered(s) PROVE BrowserTypeOK'
    <2>1. PICK answer \in Answers(s):
              /\ page' = PageAfter(answer)
              /\ lists' = IF answer # "ok" THEN lists
                          ELSE [lists EXCEPT !.rows = net[s].about.filter, !.shown["tasks"] = net[s].as]
              /\ Listed(s, answer)
        BY <1>3 DEF ListAnswered
    <2>2. net[s].about.filter \in Filters /\ net[s].as \in Nat
        BY <1>3, CallFields DEF ListAnswered, BrowserTypeOK, Idle
    <2>3. lists' \in Contents
        BY <2>1, <2>2 DEF BrowserTypeOK, Contents
    <2>4. page' \in PageStates /\ past' \in Histories
        BY <2>1, PageTurns, ListedIs
    <2> QED BY <1>3, <2>3, <2>4, SettlesIs, LetsGo DEF ListAnswered, BrowserTypeOK
<1>4. ASSUME NEW s \in Slots, NEW p \in {"dashboard", "notifications", "integrations"}, NEW answer, NEW shown \in BOOLEAN,
             net[s].kind = "load", LoadSettles(s, p, answer, shown), Settles(s), UNCHANGED trial
      PROVE  BrowserTypeOK'
    <2>1. p \in Panels BY DEF Panels
    <2> QED BY <1>4, <2>1, LoadSettlesIs, SettlesIs DEF BrowserTypeOK
<1>5. ASSUME NEW s \in Slots, DashboardAnswered(s) PROVE BrowserTypeOK'
    BY <1>4, <1>5 DEF DashboardAnswered, Loading, StaysIn
<1>6. ASSUME NEW s \in Slots, NotificationsAnswered(s) PROVE BrowserTypeOK'
    BY <1>4, <1>6 DEF NotificationsAnswered, Loading, StaysIn
<1>7. ASSUME NEW s \in Slots, IntegrationsAnswered(s) PROVE BrowserTypeOK'
    BY <1>4, <1>7 DEF IntegrationsAnswered, Loading
<1>8. ASSUME NEW s \in Slots, SystemAnswered(s) PROVE BrowserTypeOK'
    <2>1. PICK answer \in Answers(s):
            /\ LoadSettles(s, "system", answer, StaysIn(answer))
            /\ IF StaysIn(answer) THEN Follows(s, "recipients", NoOne) /\ trial' = [trial EXCEPT !.ready = FALSE]
               ELSE Settles(s) /\ UNCHANGED trial
        BY <1>8 DEF SystemAnswered
    <2>2. StaysIn(answer) \in BOOLEAN /\ "system" \in Panels /\ net[s].kind = "load"
        BY <1>8 DEF StaysIn, Panels, SystemAnswered, Loading
    <2>3. server' \in [session: Nat, logins: Nat, restricted: SUBSET Nat] /\ page' \in PageStates /\ lists' \in Contents
          /\ work' \in WorkStates /\ secret' \in [value: Nat, saved: BOOLEAN] /\ past' \in Histories
        BY <2>1, <2>2, LoadSettlesIs DEF BrowserTypeOK
    <2>4. trial' \in TrialStates
        BY <2>1 DEF BrowserTypeOK, TrialStates
    <2>5. net' \in [Slots -> PageCalls]
        BY <2>1, FollowsIs, SettlesIs, CallsMade
    <2> QED BY <2>3, <2>4, <2>5 DEF BrowserTypeOK
<1>9. ASSUME NEW s \in Slots, KeysAnswered(s) PROVE BrowserTypeOK'
    <2>1. PICK answer \in Answers(s):
              /\ page' = PageAfter(answer)
              /\ lists' = IF answer # "ok" THEN lists ELSE [lists EXCEPT !.keys.rows = net[s].about]
              /\ Listed(s, answer)
        BY <1>9 DEF KeysAnswered
    <2>2. net[s].about \in Integrations
        BY <1>9, CallFields DEF KeysAnswered, BrowserTypeOK
    <2>3. lists' \in Contents
        BY <2>1, <2>2 DEF BrowserTypeOK, Contents
    <2>4. page' \in PageStates /\ past' \in Histories
        BY <2>1, PageTurns, ListedIs
    <2> QED BY <1>9, <2>3, <2>4, SettlesIs DEF KeysAnswered, BrowserTypeOK
<1>10. ASSUME NEW i \in Integrations, OpenKeys(i) PROVE BrowserTypeOK'
    <2>1. lists' \in Contents
        BY <1>10 DEF OpenKeys, BrowserTypeOK, Contents
    <2>2. net' \in [Slots -> PageCalls]
        BY <1>10, SendsIs, CallsMade DEF OpenKeys
    <2> QED BY <1>10, <2>1, <2>2 DEF OpenKeys, BrowserTypeOK
<1> QED BY <1>1, <1>2, <1>3, <1>5, <1>6, <1>7, <1>8, <1>9, <1>10 DEF PanelsNext

\* A dialog that opens shows a task or none.
LEMMA OpensIs == ASSUME BrowserTypeOK, NEW d \in Dialogs, NEW t \in Tasks \cup {NoOne}, Opens(d, t)
    PROVE  /\ work' \in WorkStates /\ work'.dialog = d /\ work'.form = t
           /\ work'.task = work.task /\ work'.open = work.open /\ work'.busy = work.busy
           /\ past' \in Histories /\ past'.swapped = FALSE
           /\ past'.crossed = past.crossed /\ past'.strays = past.strays /\ past'.requests = past.requests
           /\ past'.unknown = past.unknown /\ past'.issued = past.issued /\ past'.kept = past.kept
           /\ past'.doubled = past.doubled
           /\ UNCHANGED <<server, page, lists, trial, secret, net>>
<1>1. work' \in WorkStates /\ work'.dialog = d /\ work'.form = t
      /\ work'.task = work.task /\ work'.open = work.open /\ work'.busy = work.busy
    BY DEF Opens, BrowserTypeOK, WorkStates
<1> QED BY <1>1 DEF Opens, BrowserTypeOK, Histories

\* What is submitted names the task selected now.
LEMMA WritesMade == ASSUME BrowserTypeOK, NEW t \in Tasks \cup {NoOne}, work.dialog \in {"create", "edit", "status", "cancel"}
    PROVE  [dialog |-> work.dialog, form |-> work.form, task |-> t, swapped |-> past.swapped] \in Writes
BY DEF BrowserTypeOK, WorkStates, Histories, Writes, TaskDialogs

LEMMA CreationTypes == ASSUME BrowserAssumption, BrowserTypeOK, CreationNext PROVE BrowserTypeOK'
<1>1. ASSUME NEW f \in Filters, ChangeFilter(f) PROVE BrowserTypeOK'
    <2>1. Emptied("tasks") \in Contents
        BY EmptiedIs DEF Panels
    <2>2. lists' \in Contents
        <3> HIDE DEF Emptied
        <3> QED BY <1>1, <2>1 DEF ChangeFilter, Contents
    <2>3. net' \in [Slots -> PageCalls]
        BY <1>1, SendsIs, CallsMade DEF ChangeFilter
    <2> QED BY <1>1, <2>2, <2>3 DEF ChangeFilter, BrowserTypeOK
<1>2. CASE OpenCreate
    BY <1>2, OpensIs DEF OpenCreate, Dialogs, BrowserTypeOK
<1>3. CASE CloseDialog
    BY <1>3 DEF CloseDialog, BrowserTypeOK, WorkStates
<1>4. CASE SubmitDialog
    <2>1. work' \in WorkStates
        BY <1>4 DEF SubmitDialog, BrowserTypeOK, WorkStates, Dialogs, TaskDialogs
    <2> DEFINE w == [dialog |-> work.dialog, form |-> work.form,
                     task |-> IF work.dialog = "create" THEN NoOne ELSE work.task, swapped |-> past.swapped]
    <2>2. w \in Writes
        <3>1. (IF work.dialog = "create" THEN NoOne ELSE work.task) \in Tasks \cup {NoOne}
            BY DEF BrowserTypeOK, WorkStates
        <3> QED BY <1>4, <3>1, WritesMade DEF SubmitDialog
    <2>3. Sends("change", w) /\ UNCHANGED <<server, page, lists, trial, secret, past>>
        BY <1>4 DEF SubmitDialog
    <2> HIDE DEF w
    <2>4. net' \in [Slots -> PageCalls]
        BY <2>2, <2>3, SendsIs, CallsMade
    <2> QED BY <2>1, <2>3, <2>4 DEF BrowserTypeOK
<1>5. ASSUME NEW s \in Slots, ChangeFailed(s) PROVE BrowserTypeOK'
    <2>1. page' \in PageStates
        BY <1>5, PageTurns DEF ChangeFailed
    <2>2. work' \in WorkStates
        BY <1>5 DEF ChangeFailed, BrowserTypeOK, WorkStates
    <2> QED BY <1>5, <2>1, <2>2, SettlesIs DEF ChangeFailed, BrowserTypeOK
<1>6. ASSUME NEW s \in Slots, CreateDone(s) PROVE BrowserTypeOK'
    <2>1. PICK panel \in {"dashboard", "tasks"}:
              lists' = Emptied(panel) /\ net' = [net EXCEPT ![s] = LoadOf(panel, "create")]
        BY <1>6 DEF CreateDone
    <2>2. panel \in Panels /\ LoadOf(panel, "create") \in PageCalls
        BY LoadsAre DEF BrowserAssumption, TaskDialogs, Panels
    <2>3. lists' \in Contents /\ net' \in [Slots -> PageCalls]
        BY <2>1, <2>2, EmptiedIs, SlotSet DEF BrowserTypeOK
    <2> QED BY <1>6, <2>3, DialogCloses DEF CreateDone, BrowserTypeOK
<1> QED BY <1>1, <1>2, <1>3, <1>4, <1>5, <1>6 DEF CreationNext

LEMMA TaskTypes == ASSUME BrowserAssumption, BrowserTypeOK, TasksNext PROVE BrowserTypeOK'
<1>1. ASSUME NEW t \in Tasks, openTaskDetail(t) PROVE BrowserTypeOK'
    <2>1. net' \in [Slots -> PageCalls]
        <3>1. PICK s \in Slots: net[s] = Idle /\ net' = [net EXCEPT ![s] = AskDetail(t, NoOne)]
            BY <1>1 DEF openTaskDetail
        <3> QED BY <3>1, SlotSet, CallsMade DEF BrowserTypeOK
    <2> QED BY <1>1, <2>1 DEF openTaskDetail, BrowserTypeOK, WorkStates
<1>2. CASE closeTaskDetail
    BY <1>2 DEF closeTaskDetail, BrowserTypeOK, WorkStates
<1>3. CASE OpenEdit \/ OpenStatus \/ OpenCancel
    <2>1. work.task \in Tasks \cup {NoOne} /\ {"edit", "status", "cancel"} \subseteq Dialogs
        BY DEF BrowserTypeOK, WorkStates, Dialogs, TaskDialogs
    <2> QED BY <1>3, <2>1, OpensIs DEF OpenEdit, OpenStatus, OpenCancel, BrowserTypeOK
<1>4. ASSUME NEW s \in Slots, DetailAnswered(s) PROVE BrowserTypeOK'
    <2>1. PICK answer \in Answers(s), task \in {NoOne, net[s].about.task}:
              /\ page' = PageAfter(answer)
              /\ work' = [LetGo(s) EXCEPT !.task = task]
              /\ past' = [past EXCEPT !.swapped = @ \/ (work.dialog # NoOne /\ task # work.task)]
        BY <1>4 DEF DetailAnswered
    <2>2. task \in Tasks \cup {NoOne}
        BY <1>4, CallFields DEF DetailAnswered, BrowserTypeOK
    <2>3. LetGo(s) \in WorkStates
        BY LetsGo
    <2>4. work' \in WorkStates
        <3> HIDE DEF LetGo
        <3> QED BY <2>1, <2>2, <2>3 DEF WorkStates
    <2>5. past' \in Histories
        BY <2>1 DEF BrowserTypeOK, Histories
    <2>6. page' \in PageStates
        BY <2>1, PageTurns
    <2> QED BY <1>4, <2>4, <2>5, <2>6, SettlesIs DEF DetailAnswered, BrowserTypeOK
<1>5. ASSUME NEW s \in Slots, ChangeDone(s) PROVE BrowserTypeOK'
    <2> DEFINE d == net[s].about.dialog
    <2>1. PICK t \in Slots:
             /\ net[t] = Idle
             /\ net' = [net EXCEPT ![s] = LoadOf("tasks", d), ![t] = AskDetail(net[s].about.task, d)]
             /\ work' = [Closed(d) EXCEPT !.open = TRUE]
        BY <1>5 DEF ChangeDone
    <2>2. d \in TaskDialogs /\ net[s].about.task \in Tasks \cup {NoOne} /\ s # t
        BY <1>5, <2>1, CallFields DEF ChangeDone, BrowserTypeOK, Writes, TaskDialogs, Idle
    <2>3. LoadOf("tasks", d) \in PageCalls /\ AskDetail(net[s].about.task, d) \in PageCalls /\ "tasks" \in Panels
        BY <2>2, LoadsAre, CallsMade DEF Panels
    <2>4. Closed(d) \in WorkStates
        BY DialogCloses
    <2> HIDE DEF d, Closed
    <2>5. net' \in [Slots -> PageCalls]
        BY <2>1, <2>3 DEF BrowserTypeOK
    <2>6. work' \in WorkStates
        BY <2>1, <2>4 DEF WorkStates
    <2>7. lists' \in Contents
        BY <1>5, <2>3, EmptiedIs DEF ChangeDone
    <2> QED BY <1>5, <2>5, <2>6, <2>7 DEF ChangeDone, BrowserTypeOK
<1> QED BY <1>1, <1>2, <1>3, <1>4, <1>5, CreationTypes DEF TasksNext

LEMMA TestTypes == ASSUME BrowserAssumption, BrowserTypeOK, TestNext PROVE BrowserTypeOK'
<1>1. Forgotten \in Histories
    BY DEF Forgotten, BrowserTypeOK, Histories
<1>2. ASSUME NEW t \in Types, ChangeType(t) PROVE BrowserTypeOK'
    <2>1. trial' \in TrialStates
        BY <1>2 DEF ChangeType, BrowserTypeOK, TrialStates
    <2> QED BY <1>1, <1>2, <2>1, SendsIs, CallsMade DEF ChangeType, BrowserTypeOK
<1>3. ASSUME NEW r \in Addressees, ChangeRecipient(r) PROVE BrowserTypeOK'
    <2>1. trial' \in TrialStates
        BY <1>3 DEF ChangeRecipient, BrowserTypeOK, TrialStates
    <2> QED BY <1>1, <1>3, <2>1 DEF ChangeRecipient, BrowserTypeOK
<1>4. CASE SendTest
    <2>1. PICK id \in 1..MaxRequests:
            /\ Sends("test", [id |-> id, type |-> trial.type, recipient |-> trial.recipient])
            /\ past' = [Forgotten EXCEPT !.requests =
                    @ \cup {[id |-> id, type |-> trial.type, recipient |-> trial.recipient]}]
            /\ trial' = [trial EXCEPT !.request = id, !.disabled = TRUE]
        BY <1>4 DEF SendTest
    <2> DEFINE request == [id |-> id, type |-> trial.type, recipient |-> trial.recipient]
    <2>2. request \in Trials /\ id \in Nat
        BY <1>4 DEF SendTest, BrowserTypeOK, TrialStates, Trials
    <2>3. past' \in Histories
        <3>1. past' = [Forgotten EXCEPT !.requests = Forgotten.requests \cup {request}]
            BY <2>1
        <3> HIDE DEF request, Forgotten
        <3> QED BY <1>1, <2>2, <3>1 DEF Histories
    <2>4. trial' \in TrialStates
        BY <2>1, <2>2 DEF BrowserTypeOK, TrialStates
    <2>5. net' \in [Slots -> PageCalls]
        BY <2>1, <2>2, SendsIs, CallsMade
    <2> QED BY <1>4, <2>3, <2>4, <2>5 DEF SendTest, BrowserTypeOK
<1>5. ASSUME NEW s \in Slots, RecipientsAnswered(s) PROVE BrowserTypeOK'
    <2>1. page' \in PageStates
        BY <1>5, PageTurns DEF RecipientsAnswered
    <2>2. trial' \in TrialStates
        <3>1. CASE UNCHANGED trial
            BY <3>1 DEF BrowserTypeOK
        <3>2. CASE trial' = [trial EXCEPT !.ready = TRUE, !.disabled = TRUE]
            BY <3>2 DEF BrowserTypeOK, TrialStates
        <3>3. ASSUME NEW first \in Addressees \cup {NoOne}, NEW off \in BOOLEAN,
                     trial' = [trial EXCEPT !.ready = TRUE, !.recipient = first, !.disabled = off]
              PROVE  trial' \in TrialStates
            BY <3>3 DEF BrowserTypeOK, TrialStates
        <3> QED BY <1>5, <3>1, <3>2, <3>3 DEF RecipientsAnswered
    <2> QED BY <1>5, <2>1, <2>2, SettlesIs DEF RecipientsAnswered, BrowserTypeOK
<1>6. ASSUME NEW s \in Slots, TestAnswered(s) PROVE BrowserTypeOK'
    <2>1. PICK answer \in Answers(s):
          /\ page' = PageAfter(answer)
          /\ trial' = [trial EXCEPT !.request = IF Concludes(answer) THEN 0 ELSE @,
                                    !.disabled = IF answer = "ok" THEN @ ELSE FALSE]
          /\ past' = [past EXCEPT !.unknown =
                 IF answer = "unknown" /\ ~Crossing(s) /\ trial.request = net[s].about.id THEN net[s].about ELSE NoOne]
          /\ IF answer = "ok" THEN Follows(s, "recent", NoOne) ELSE Settles(s)
        BY <1>6 DEF TestAnswered
    <2>2. net[s].about \in Trials
        BY <1>6, CallFields DEF TestAnswered, BrowserTypeOK
    <2>3. page' \in PageStates
        BY <2>1, PageTurns
    <2>4. trial' \in TrialStates
        BY <2>1 DEF BrowserTypeOK, TrialStates
    <2>5. past' \in Histories
        <3>1. PICK u \in Trials \cup {NoOne}: past' = [past EXCEPT !.unknown = u]
            BY <2>1, <2>2
        <3> QED BY <3>1 DEF BrowserTypeOK, Histories
    <2>6. net' \in [Slots -> PageCalls]
        BY <2>1, FollowsIs, SettlesIs, CallsMade
    <2> QED BY <1>6, <2>3, <2>4, <2>5, <2>6 DEF TestAnswered, BrowserTypeOK
<1>7. ASSUME NEW s \in Slots, RecentAnswered(s) PROVE BrowserTypeOK'
    <2>1. page' \in PageStates
        BY <1>7, PageTurns DEF RecentAnswered
    <2>2. trial' \in TrialStates
        BY <1>7 DEF RecentAnswered, BrowserTypeOK, TrialStates
    <2> QED BY <1>7, <2>1, <2>2, SettlesIs DEF RecentAnswered, BrowserTypeOK
<1> QED BY <1>2, <1>3, <1>4, <1>5, <1>6, <1>7 DEF TestNext

\* The second half of a question for people: whoever asked again may have doubled it.
LEMMA AsksIs == ASSUME BrowserTypeOK, NEW f \in {"login", "administrator"}, Asks(f)
    PROVE  /\ net' \in [Slots -> PageCalls] /\ Sends("secret", f)
           /\ past' \in Histories /\ (past'.doubled <=> past.doubled \/ Calling("secret"))
           /\ past'.crossed = past.crossed /\ past'.strays = past.strays /\ past'.swapped = past.swapped
           /\ past'.requests = past.requests /\ past'.unknown = past.unknown
           /\ past'.issued = past.issued /\ past'.kept = past.kept
           /\ UNCHANGED <<server, page, lists, trial, secret>>
<1>1. Calling("secret") \in BOOLEAN
    BY DEF Calling
<1>2. past' = [past EXCEPT !.doubled = @ \/ Calling("secret")] /\ Sends("secret", f)
      /\ UNCHANGED <<server, page, lists, trial, secret>>
    BY DEF Asks
<1>3. net' \in [Slots -> PageCalls]
    BY <1>2, SendsIs, CallsMade
<1> HIDE DEF Calling
<1> QED BY <1>1, <1>2, <1>3 DEF BrowserTypeOK, Histories

LEMMA PeopleTypes == ASSUME BrowserAssumption, BrowserTypeOK, PeopleNext PROVE BrowserTypeOK'
<1>1. ASSUME NEW q \in Searches, TypeSearch(q) PROVE BrowserTypeOK'
    BY <1>1 DEF TypeSearch, BrowserTypeOK, Contents
<1>2. ASSUME NEW append \in BOOLEAN, loadUsers(append) PROVE BrowserTypeOK'
    <2>1. lists' \in Contents
        BY <1>2, EmptiedIs DEF loadUsers, Panels, BrowserTypeOK
    <2>2. past' \in Histories
        BY <1>2 DEF loadUsers, BrowserTypeOK, Histories
    <2>3. lists.search \in Searches
        BY DEF BrowserTypeOK, Contents
    <2>4. net' \in [Slots -> PageCalls]
        BY <1>2, <2>3, SendsIs, CallsMade DEF loadUsers
    <2> QED BY <1>2, <2>1, <2>2, <2>4 DEF loadUsers, BrowserTypeOK
<1>3. CASE GrantLogin
    BY <1>3, AsksIs DEF GrantLogin, BrowserTypeOK
<1>4. CASE OpenAdministrator
    BY <1>4, OpensIs DEF OpenAdministrator, Dialogs, BrowserTypeOK
<1>5. CASE SubmitAdministrator
    <2>1. work' \in WorkStates
        BY <1>5 DEF SubmitAdministrator, BrowserTypeOK, WorkStates, Dialogs
    <2> QED BY <1>5, <2>1, AsksIs DEF SubmitAdministrator, BrowserTypeOK
<1>6. CASE TickSaved
    BY <1>6 DEF TickSaved, BrowserTypeOK
<1>7. CASE CloseSecret
    BY <1>7 DEF CloseSecret, BrowserTypeOK, Histories
<1>8. ASSUME NEW s \in Slots, ContextAnswered(s) PROVE BrowserTypeOK'
    <2>1. PICK answer \in Answers(s):
              /\ page' = PageAfter(answer)
              /\ lists' = [Emptied("users") EXCEPT !.catalogs = @ \/ answer = "ok"]
        BY <1>8 DEF ContextAnswered
    <2>2. lists' \in Contents
        <3>1. Emptied("users") \in Contents
            BY EmptiedIs DEF Panels
        <3> HIDE DEF Emptied
        <3> QED BY <2>1, <3>1 DEF Contents
    <2>3. page' \in PageStates
        BY <2>1, PageTurns
    <2>4. lists.search \in Searches
        BY DEF BrowserTypeOK, Contents
    <2>5. net' \in [Slots -> PageCalls]
        BY <1>8, <2>4, FollowsIs, CallsMade DEF ContextAnswered
    <2> QED BY <1>8, <2>2, <2>3, <2>5 DEF ContextAnswered, BrowserTypeOK
<1>9. ASSUME NEW s \in Slots, PeopleAnswered(s) PROVE BrowserTypeOK'
    <2>1. PICK answer \in Answers(s):
          /\ page' = PageAfter(answer)
          /\ lists' = IF answer # "ok" THEN lists
                      ELSE [lists EXCEPT !.people = @ \cup {net[s].about.search}, !.shown["users"] = net[s].as]
          /\ Listed(s, answer)
        BY <1>9 DEF PeopleAnswered
    <2>2. net[s].about.search \in Searches /\ net[s].as \in Nat
        BY <1>9, CallFields DEF PeopleAnswered, BrowserTypeOK, Idle
    <2>3. lists' \in Contents
        BY <2>1, <2>2 DEF BrowserTypeOK, Contents
    <2>4. page' \in PageStates /\ past' \in Histories
        BY <2>1, PageTurns, ListedIs
    <2> QED BY <1>9, <2>3, <2>4, SettlesIs, LetsGo DEF PeopleAnswered, BrowserTypeOK
<1>10. ASSUME NEW s \in Slots, SecretAnswered(s) PROVE BrowserTypeOK'
    <2> DEFINE from == net[s].about
               d == IF from = "administrator" THEN from ELSE NoOne
    <2>1. PICK answer \in Answers(s):
             /\ page' = PageAfter(answer)
             /\ IF answer = "ok"
                THEN /\ past' = [past EXCEPT !.issued = @ + 1]
                     /\ secret' = [value |-> past.issued + 1, saved |-> FALSE]
                     /\ work' = IF d = NoOne THEN work ELSE Closed(d)
                     /\ lists' = Emptied("users")
                     /\ Follows(s, "people", [search |-> lists.search, for |-> d])
                ELSE /\ work' = [work EXCEPT !.busy = @ \ {from}]
                     /\ Settles(s)
                     /\ UNCHANGED <<past, secret, lists>>
        BY <1>10 DEF SecretAnswered
    <2>2. d \in {NoOne, "administrator"} /\ lists.search \in Searches
        BY DEF BrowserTypeOK, Contents
    <2>3. page' \in PageStates
        BY <2>1, PageTurns
    <2>4. UNCHANGED <<server, trial>>
        BY <1>10 DEF SecretAnswered
    <2> HIDE DEF d
    <2>5. CASE answer = "ok"
        <3>1. past' \in Histories /\ secret' \in [value: Nat, saved: BOOLEAN]
            <4>1. past' = [past EXCEPT !.issued = @ + 1] /\ secret' = [value |-> past.issued + 1, saved |-> FALSE]
                BY <2>1, <2>5
            <4>2. past.issued + 1 \in Nat
                BY DEF BrowserTypeOK, Histories
            <4> QED BY <4>1, <4>2 DEF BrowserTypeOK, Histories
        <3>2. work' \in WorkStates
            BY <2>1, <2>5, DialogCloses DEF BrowserTypeOK
        <3>3. lists' \in Contents
            BY <2>1, <2>5, EmptiedIs DEF Panels
        <3>4. net' \in [Slots -> PageCalls]
            BY <2>1, <2>2, <2>5, FollowsIs, CallsMade
        <3> QED BY <2>3, <2>4, <3>1, <3>2, <3>3, <3>4 DEF BrowserTypeOK
    <2>6. CASE answer # "ok"
        <3>1. work' \in WorkStates
            BY <2>1, <2>6 DEF BrowserTypeOK, WorkStates
        <3> QED BY <2>1, <2>3, <2>4, <2>6, <3>1, SettlesIs DEF BrowserTypeOK
    <2> QED BY <2>5, <2>6
<1> QED BY <1>1, <1>2, <1>3, <1>4, <1>5, <1>6, <1>7, <1>8, <1>9, <1>10 DEF PeopleNext

LEMMA BrowserTypes == ASSUME BrowserAssumption, BrowserTypeOK, [BrowserNext]_browserVars PROVE BrowserTypeOK'
<1>1. CASE UNCHANGED browserVars
    BY <1>1 DEF browserVars, BrowserTypeOK
<1> QED BY <1>1, SessionTypes, PanelTypes, TaskTypes, TestTypes, PeopleTypes DEF BrowserNext

------------------------------------------------------------------------------
(* Test notifications *)

TestsRest == /\ trial'.request = trial.request /\ trial'.type = trial.type
             /\ past'.requests = past.requests /\ past'.unknown = past.unknown

LEMMA TestsAtRest == ASSUME TestsHold, TestsRest PROVE TestsHold'
BY DEF TestsHold, TestsRest, IdentityInUse, RepeatsKeepTheirIdentity

LEMMA TestsRestElsewhere ==
    ASSUME BrowserTypeOK, SessionNext \/ PanelsNext \/ TasksNext \/ PeopleNext PROVE TestsRest
<1> USE DEF TestsRest
<1>1. CASE SessionNext
    <2>1. ASSUME NEW s \in Slots, PasswordAnswered(s) PROVE TestsRest
        BY <2>1, TakenUpIs DEF PasswordAnswered
    <2> QED BY <1>1, <2>1 DEF SessionNext, SubmitLogin, SubmitLogout, SubmitPassword, SessionEnds, LoginAnswered, LogoutAnswered
<1>2. CASE PanelsNext
    <2>1. ASSUME NEW s \in Slots, ListAnswered(s) \/ KeysAnswered(s) PROVE TestsRest
        BY <2>1, ListedIs DEF ListAnswered, KeysAnswered
    <2>2. ASSUME NEW s \in Slots, NEW p \in {"dashboard", "notifications", "integrations"}, NEW answer, NEW shown \in BOOLEAN,
                 net[s].kind = "load", LoadSettles(s, p, answer, shown), UNCHANGED trial
          PROVE  TestsRest
        BY <2>2, LoadSettlesIs DEF Panels
    <2>3. ASSUME NEW s \in Slots, DashboardAnswered(s) PROVE TestsRest
        BY <2>2, <2>3 DEF DashboardAnswered, Loading, StaysIn
    <2>4. ASSUME NEW s \in Slots, NotificationsAnswered(s) PROVE TestsRest
        BY <2>2, <2>4 DEF NotificationsAnswered, Loading, StaysIn
    <2>5. ASSUME NEW s \in Slots, IntegrationsAnswered(s) PROVE TestsRest
        BY <2>2, <2>5 DEF IntegrationsAnswered, Loading
    <2>6. ASSUME NEW s \in Slots, SystemAnswered(s) PROVE TestsRest
        <3>1. PICK answer \in Answers(s):
                /\ LoadSettles(s, "system", answer, StaysIn(answer))
                /\ trial' = [trial EXCEPT !.ready = FALSE] \/ UNCHANGED trial
            BY <2>6 DEF SystemAnswered
        <3>2. StaysIn(answer) \in BOOLEAN /\ "system" \in Panels /\ net[s].kind = "load"
            BY <2>6 DEF StaysIn, Panels, SystemAnswered, Loading
        <3>3. past'.requests = past.requests /\ past'.unknown = past.unknown
            BY <3>1, <3>2, LoadSettlesIs
        <3>4. trial'.request = trial.request /\ trial'.type = trial.type
            BY <3>1 DEF BrowserTypeOK, TrialStates
        <3> QED BY <3>3, <3>4
    <2> QED BY <1>2, <2>1, <2>3, <2>4, <2>5, <2>6 DEF PanelsNext, navigate, initializeApplication, OpenKeys
<1>3. CASE TasksNext
    <2>1. ASSUME NEW t, Opens("edit", t) \/ Opens("status", t) \/ Opens("cancel", t) \/ Opens("create", t) PROVE TestsRest
        BY <2>1 DEF Opens, BrowserTypeOK, Histories
    <2>2. ASSUME NEW s \in Slots, DetailAnswered(s) PROVE TestsRest
        BY <2>2 DEF DetailAnswered, BrowserTypeOK, Histories
    <2> QED BY <1>3, <2>1, <2>2 DEF TasksNext, CreationNext, openTaskDetail, closeTaskDetail, OpenEdit, OpenStatus, OpenCancel,
            ChangeDone, ChangeFilter, OpenCreate, CloseDialog, SubmitDialog, ChangeFailed, CreateDone
<1>4. CASE PeopleNext
    <2>1. ASSUME NEW s \in Slots, PeopleAnswered(s) PROVE TestsRest
        BY <2>1, ListedIs DEF PeopleAnswered
    <2>2. CASE GrantLogin \/ SubmitAdministrator
        BY <2>2, AsksIs DEF GrantLogin, SubmitAdministrator
    <2>3. CASE OpenAdministrator
        BY <2>3, OpensIs DEF OpenAdministrator, Dialogs
    <2>4. ASSUME NEW s \in Slots, SecretAnswered(s) PROVE TestsRest
        <3>1. past' = [past EXCEPT !.issued = past.issued + 1] \/ past' = past
            BY <2>4 DEF SecretAnswered
        <3>2. trial' = trial
            BY <2>4 DEF SecretAnswered
        <3> QED BY <3>1, <3>2 DEF BrowserTypeOK, Histories
    <2>5. ASSUME NEW append \in BOOLEAN, loadUsers(append) PROVE TestsRest
        BY <2>5 DEF loadUsers, BrowserTypeOK, Histories
    <2>6. CASE CloseSecret
        BY <2>6 DEF CloseSecret, BrowserTypeOK, Histories
    <2> QED BY <1>4, <2>1, <2>2, <2>3, <2>4, <2>5, <2>6 DEF PeopleNext, TypeSearch, TickSaved, ContextAnswered
<1> QED BY <1>1, <1>2, <1>3, <1>4

LEMMA TestsStep == ASSUME BrowserTypeOK, TestsHold, [BrowserNext]_browserVars PROVE TestsHold'
<1>1. CASE UNCHANGED browserVars
    BY <1>1, TestsAtRest DEF browserVars, TestsRest
<1>2. ASSUME NEW t \in Types, ChangeType(t) PROVE TestsHold'
    <2>1. trial'.request = 0 /\ past'.requests = past.requests /\ past'.unknown = NoOne
        BY <1>2 DEF ChangeType, Forgotten, BrowserTypeOK, Histories, TrialStates
    <2> QED BY <2>1 DEF TestsHold, IdentityInUse, RepeatsKeepTheirIdentity
<1>3. ASSUME NEW r \in Addressees, ChangeRecipient(r) PROVE TestsHold'
    <2>1. trial'.request = 0 /\ past'.requests = past.requests /\ past'.unknown = NoOne
        BY <1>3 DEF ChangeRecipient, Forgotten, BrowserTypeOK, Histories, TrialStates
    <2> QED BY <2>1 DEF TestsHold, IdentityInUse, RepeatsKeepTheirIdentity
<1>4. CASE SendTest
    <2>1. PICK id \in 1..MaxRequests:
            /\ IF trial.request # 0 THEN id = trial.request
               ELSE id \notin RequestIds /\ 1..(id - 1) \subseteq RequestIds
            /\ past' = [Forgotten EXCEPT !.requests =
                    @ \cup {[id |-> id, type |-> trial.type, recipient |-> trial.recipient]}]
            /\ trial' = [trial EXCEPT !.request = id, !.disabled = TRUE]
        BY <1>4 DEF SendTest
    <2>2. Forgotten \in Histories /\ Forgotten.requests = past.requests /\ Forgotten.unknown = NoOne
        BY DEF Forgotten, BrowserTypeOK, Histories
    <2>3. /\ past'.requests = past.requests \cup {[id |-> id, type |-> trial.type, recipient |-> trial.recipient]}
          /\ past'.unknown = NoOne
        <3> HIDE DEF Forgotten
        <3> QED BY <2>1, <2>2 DEF Histories
    <2>4. trial'.request = id /\ trial'.type = trial.type
        BY <2>1 DEF BrowserTypeOK, TrialStates
    <2>5. \A r \in past.requests: r.id = id => r.type = trial.type
        BY <2>1 DEF TestsHold, IdentityInUse, RequestIds
    <2> QED BY <2>3, <2>4, <2>5 DEF TestsHold, IdentityInUse, RepeatsKeepTheirIdentity
<1>5. ASSUME NEW s \in Slots, RecipientsAnswered(s) \/ RecentAnswered(s) PROVE TestsHold'
    <2>1. past' = past
        BY <1>5 DEF RecipientsAnswered, RecentAnswered
    <2>2. ASSUME NEW first, NEW off, trial' = [trial EXCEPT !.ready = TRUE, !.recipient = first, !.disabled = off]
          PROVE  trial'.request = trial.request /\ trial'.type = trial.type
        BY <2>2 DEF BrowserTypeOK, TrialStates
    <2>3. ASSUME NEW off, trial' = [trial EXCEPT !.ready = TRUE, !.disabled = off] \/ trial' = [trial EXCEPT !.disabled = off]
          PROVE  trial'.request = trial.request /\ trial'.type = trial.type
        BY <2>3 DEF BrowserTypeOK, TrialStates
    <2>4. CASE RecipientsAnswered(s)
        <3>1. \/ \E first \in Addressees \cup {NoOne}:
                     trial' = [trial EXCEPT !.ready = TRUE, !.recipient = first, !.disabled = (first = NoOne)]
              \/ trial' = [trial EXCEPT !.ready = TRUE, !.disabled = TRUE]
              \/ trial' = trial
            BY <2>4 DEF RecipientsAnswered
        <3>2. trial'.request = trial.request /\ trial'.type = trial.type
            BY <2>2, <2>3, <3>1
        <3> QED BY <2>1, <3>2, TestsAtRest DEF TestsRest
    <2>5. CASE RecentAnswered(s)
        <3>1. trial' = [trial EXCEPT !.disabled = FALSE]
            BY <2>5 DEF RecentAnswered
        <3>2. trial'.request = trial.request /\ trial'.type = trial.type
            BY <2>3, <3>1
        <3> QED BY <2>1, <3>2, TestsAtRest DEF TestsRest
    <2> QED BY <1>5, <2>4, <2>5
<1>6. ASSUME NEW s \in Slots, TestAnswered(s) PROVE TestsHold'
    <2>1. PICK answer \in Answers(s):
          /\ trial' = [trial EXCEPT !.request = IF Concludes(answer) THEN 0 ELSE @,
                                    !.disabled = IF answer = "ok" THEN @ ELSE FALSE]
          /\ past' = [past EXCEPT !.unknown =
                 IF answer = "unknown" /\ ~Crossing(s) /\ trial.request = net[s].about.id THEN net[s].about ELSE NoOne]
        BY <1>6 DEF TestAnswered
    <2>2. /\ trial'.request = IF Concludes(answer) THEN 0 ELSE trial.request
          /\ trial'.type = trial.type
        BY <2>1 DEF BrowserTypeOK, TrialStates
    <2>3. /\ past'.requests = past.requests
          /\ past'.unknown # NoOne => answer = "unknown" /\ trial.request = past'.unknown.id
        BY <2>1 DEF BrowserTypeOK, Histories
    <2>4. answer = "unknown" => ~Concludes(answer)
        BY DEF Concludes
    <2> QED BY <2>2, <2>3, <2>4 DEF TestsHold, IdentityInUse, RepeatsKeepTheirIdentity
<1> QED BY <1>1, <1>2, <1>3, <1>4, <1>5, <1>6, TestsRestElsewhere, TestsAtRest DEF BrowserNext, TestNext

------------------------------------------------------------------------------
(* Which calls come and go *)

Elsewhere(s) == \A t \in Slots \ {s}: net'[t] = net[t]

\* A call that no dialog is about ends, and what follows it in its slot, if anything does,
\* asks for what is chosen and joins nothing that is listed.
QuietTurn(s) ==
    /\ Elsewhere(s)
    /\ net[s].kind \in {"idle", "login", "logout", "password", "recipients", "recent", "test", "context"}
    /\ net'[s].kind \in {"idle", "login", "logout", "password", "recipients", "recent", "test", "context",
                         "load", "list", "people", "detail"}
    /\ net'[s].kind \in {"load", "list", "people", "detail"} => net'[s].about.for = NoOne
    /\ net'[s].kind = "list" => net'[s].about.filter = lists'.filter
    /\ net'[s].kind = "people" => lists'.people = {}

LEMMA EntersQuietly == ASSUME BrowserAssumption, BrowserTypeOK, NEW s \in Slots, NEW login \in Nat, NEW restricted \in BOOLEAN,
                              server'.session \in Nat, Enters(s, login, restricted),
                              net[s].kind \in {"idle", "login", "password"}
    PROVE  QuietTurn(s) /\ lists' \in {lists, Emptied(page.panel)}
<1>1. page.panel \in Panels BY DEF BrowserTypeOK, PageStates
<1>2. Emptied(page.panel).filter = lists.filter /\ (page.panel = "users" => Emptied(page.panel).people = {})
    BY <1>1, EmptiedIs
<1> HIDE DEF Emptied
<1> QED BY <1>2, EntersIs DEF QuietTurn, Elsewhere

LEMMA SessionTurns == ASSUME BrowserAssumption, BrowserTypeOK, SessionNext
    PROVE  /\ net' = net \/ \E s \in Slots: QuietTurn(s)
           /\ lists' \in {lists, Emptied(page.panel)}
<1>1. CASE SubmitLogin \/ SubmitLogout \/ SubmitPassword
    BY <1>1, SendsIs, CallsMade DEF SubmitLogin, SubmitLogout, SubmitPassword, QuietTurn, Elsewhere
<1>2. CASE SessionEnds
    BY <1>2 DEF SessionEnds
<1>3. ASSUME NEW s \in Slots, Settles(s), lists' = lists, net[s].kind \in {"login", "logout", "password"}
      PROVE  QuietTurn(s)
    BY <1>3, SettlesIs DEF QuietTurn, Elsewhere
<1>4. ASSUME NEW s \in Slots, LoginAnswered(s) PROVE QuietTurn(s) /\ lists' \in {lists, Emptied(page.panel)}
    <2>1. CASE Settles(s) /\ lists' = lists
        BY <1>3, <1>4, <2>1 DEF LoginAnswered
    <2>2. ASSUME NEW r \in BOOLEAN, Enters(s, server.logins + 1, r)
          PROVE  QuietTurn(s) /\ lists' \in {lists, Emptied(page.panel)}
        <3>1. server'.session \in Nat
            BY <1>4, SessionTypes DEF SessionNext, BrowserTypeOK
        <3>2. server.logins + 1 \in Nat
            BY DEF BrowserTypeOK
        <3>3. net[s].kind = "login"
            BY <1>4 DEF LoginAnswered
        <3> QED BY <2>2, <3>1, <3>2, <3>3, EntersQuietly
    <2> QED BY <1>4, <2>1, <2>2 DEF LoginAnswered
<1>5. ASSUME NEW s \in Slots, LogoutAnswered(s) PROVE QuietTurn(s) /\ lists' = lists
    BY <1>3, <1>5 DEF LogoutAnswered
<1>6. ASSUME NEW s \in Slots, PasswordAnswered(s) PROVE QuietTurn(s) /\ lists' \in {lists, Emptied(page.panel)}
    <2>1. CASE Settles(s) /\ lists' = lists
        BY <1>3, <1>6, <2>1 DEF PasswordAnswered
    <2>2. CASE Enters(s, IF page.login = NoOne THEN 0 ELSE page.login, FALSE)
        <3>1. server'.session \in Nat
            BY <1>6, SessionTypes DEF SessionNext, BrowserTypeOK
        <3>2. (IF page.login = NoOne THEN 0 ELSE page.login) \in Nat
            BY DEF BrowserTypeOK, PageStates
        <3> QED BY <1>6, <2>2, <3>1, <3>2, EntersQuietly DEF PasswordAnswered
    <2> QED BY <1>6, <2>1, <2>2 DEF PasswordAnswered
<1> QED BY <1>1, <1>2, <1>4, <1>5, <1>6 DEF SessionNext

LEMMA NavigationTurns ==
    ASSUME BrowserAssumption, BrowserTypeOK, (\E p \in Panels: navigate(p)) \/ (\E s \in Slots: initializeApplication(s))
    PROVE  /\ net' = net \/ \E s \in Slots: QuietTurn(s)
           /\ lists' = lists \/ \E p \in Panels: lists' = Emptied(p)
           /\ UNCHANGED <<server, work, trial, secret, past>>
<1>1. ASSUME NEW p \in Panels, navigate(p)
      PROVE  lists' = Emptied(p) /\ (\E s \in Slots: QuietTurn(s)) /\ UNCHANGED <<server, work, trial, secret, past>>
    <2>1. PICK s \in Slots: net[s] = Idle /\ net' = [net EXCEPT ![s] = LoadOf(p, NoOne)]
        BY <1>1 DEF navigate
    <2>2. /\ LoadOf(p, NoOne) \in PageCalls
          /\ LoadOf(p, NoOne).kind \in {"list", "people", "context", "load"}
          /\ LoadOf(p, NoOne).about.for = NoOne
          /\ LoadOf(p, NoOne).kind = "list" => LoadOf(p, NoOne).about.filter = lists.filter
          /\ LoadOf(p, NoOne).kind \in {"people", "context"} => p = "users"
        BY LoadsAre DEF BrowserAssumption, TaskDialogs
    <2>3. Elsewhere(s) /\ net'[s] = LoadOf(p, NoOne)
        BY <2>1, <2>2, SlotSet DEF BrowserTypeOK, Elsewhere
    <2>4. lists' = Emptied(p) /\ UNCHANGED <<server, work, trial, secret, past>>
        BY <1>1 DEF navigate
    <2>5. lists'.filter = lists.filter /\ (p = "users" => lists'.people = {})
        BY <2>4, EmptiedIs
    <2>6. QuietTurn(s)
        BY <2>1, <2>2, <2>3, <2>5 DEF QuietTurn, Idle
    <2> QED BY <2>4, <2>6
<1>2. ASSUME NEW s \in Slots, initializeApplication(s)
      PROVE  /\ net' = net \/ QuietTurn(s)
             /\ lists' \in {lists, Emptied(page.panel)} /\ page.panel \in Panels
             /\ UNCHANGED <<server, work, trial, secret, past>>
    <2>1. page.panel \in Panels /\ server.session \in Nat /\ (server.session \in server.restricted) \in BOOLEAN
        BY DEF BrowserTypeOK, PageStates
    <2>2. ASSUME NEW r \in BOOLEAN, Enters(s, server.session, r)
          PROVE  QuietTurn(s) /\ lists' \in {lists, Emptied(page.panel)}
        <3>1. server'.session \in Nat /\ net[s].kind = "idle"
            BY <1>2, <2>1 DEF initializeApplication, Idle
        <3> QED BY <2>1, <2>2, <3>1, EntersQuietly
    <2>3. \/ Enters(s, server.session, server.session \in server.restricted)
          \/ UNCHANGED <<lists, net>>
        BY <1>2 DEF initializeApplication
    <2>4. UNCHANGED <<server, work, trial, secret, past>>
        BY <1>2 DEF initializeApplication
    <2>5. (net' = net \/ QuietTurn(s)) /\ lists' \in {lists, Emptied(page.panel)}
        BY <2>1, <2>2, <2>3
    <2> QED BY <2>1, <2>4, <2>5
<1> QED BY <1>1, <1>2

LEMMA TestTurns == ASSUME BrowserAssumption, BrowserTypeOK, TestNext
    PROVE  /\ net' = net \/ \E s \in Slots: QuietTurn(s)
           /\ UNCHANGED <<server, lists, work, secret>>
           /\ past'.strays = past.strays /\ past'.crossed = past.crossed /\ past'.swapped = past.swapped
           /\ past'.issued = past.issued /\ past'.kept = past.kept /\ past'.doubled = past.doubled
<1>1. past' = past \/ (\E u: past' = [past EXCEPT !.unknown = u]) \/ (\E r: past' = [Forgotten EXCEPT !.requests = r])
    BY DEF TestNext, ChangeType, ChangeRecipient, SendTest, RecipientsAnswered, TestAnswered, RecentAnswered, Forgotten
<1>2. /\ past'.strays = past.strays /\ past'.crossed = past.crossed /\ past'.swapped = past.swapped
      /\ past'.issued = past.issued /\ past'.kept = past.kept /\ past'.doubled = past.doubled
    <2> DEFINE SameButTests(p, q) == /\ p.strays = q.strays /\ p.crossed = q.crossed /\ p.swapped = q.swapped
                                     /\ p.issued = q.issued /\ p.kept = q.kept /\ p.doubled = q.doubled
    <2>1. past \in Histories
        BY DEF BrowserTypeOK
    <2>2. ASSUME NEW u PROVE SameButTests([past EXCEPT !.unknown = u], past)
        BY <2>1 DEF Histories
    <2>3. Forgotten \in Histories /\ SameButTests(Forgotten, past)
        BY <2>1 DEF Forgotten, Histories
    <2>4. ASSUME NEW r PROVE SameButTests([Forgotten EXCEPT !.requests = r], past)
        <3> HIDE DEF Forgotten
        <3> QED BY <2>3 DEF Histories
    <2>5. SameButTests(past', past)
        <3> HIDE DEF SameButTests, Forgotten
        <3>1. SameButTests(past, past)
            BY DEF SameButTests
        <3> QED BY <1>1, <2>2, <2>4, <3>1
    <2> QED BY <2>5
<1>3. UNCHANGED <<server, lists, work, secret>>
    BY DEF TestNext, ChangeType, ChangeRecipient, SendTest, RecipientsAnswered, TestAnswered, RecentAnswered
<1>4. net' = net \/ \E s \in Slots: QuietTurn(s)
    <2>1. ASSUME NEW t \in Types, ChangeType(t) PROVE \E s \in Slots: QuietTurn(s)
        BY <2>1, SendsIs, CallsMade DEF ChangeType, QuietTurn, Elsewhere
    <2>2. ASSUME NEW r \in Addressees, ChangeRecipient(r) PROVE net' = net
        BY <2>2 DEF ChangeRecipient
    <2>3. CASE SendTest
        <3>1. PICK id \in 1..MaxRequests: Sends("test", [id |-> id, type |-> trial.type, recipient |-> trial.recipient])
            BY <2>3 DEF SendTest
        <3>2. [id |-> id, type |-> trial.type, recipient |-> trial.recipient] \in Trials
            BY <2>3 DEF SendTest, BrowserTypeOK, TrialStates, Trials
        <3> QED BY <3>1, <3>2, SendsIs, CallsMade DEF QuietTurn, Elsewhere
    <2>4. ASSUME NEW s \in Slots, RecipientsAnswered(s) \/ RecentAnswered(s) PROVE QuietTurn(s)
        BY <2>4, SettlesIs DEF RecipientsAnswered, RecentAnswered, QuietTurn, Elsewhere
    <2>5. ASSUME NEW s \in Slots, TestAnswered(s) PROVE QuietTurn(s)
        <3>1. Follows(s, "recent", NoOne) \/ Settles(s)
            BY <2>5 DEF TestAnswered
        <3> QED BY <2>5, <3>1, FollowsIs, SettlesIs, CallsMade DEF TestAnswered, QuietTurn, Elsewhere
    <2> QED BY <2>1, <2>2, <2>3, <2>4, <2>5 DEF TestNext
<1> QED BY <1>2, <1>3, <1>4

\* The answer to a load is shown, or not, and at most the recipients of a test are asked for.
LEMMA LoadTurns ==
    ASSUME BrowserTypeOK, NEW s \in Slots,
           DashboardAnswered(s) \/ NotificationsAnswered(s) \/ IntegrationsAnswered(s) \/ SystemAnswered(s)
    PROVE  /\ Elsewhere(s) /\ net[s].kind = "load" /\ net'[s].kind \in {"idle", "recipients"}
           /\ \E p \in Panels, answer \in Answers(s), shown \in BOOLEAN: LoadSettles(s, p, answer, shown)
<1>1. net[s].kind = "load"
    BY DEF DashboardAnswered, NotificationsAnswered, IntegrationsAnswered, SystemAnswered, Loading
<1>2. Settles(s) \/ Follows(s, "recipients", NoOne)
    BY DEF DashboardAnswered, NotificationsAnswered, IntegrationsAnswered, SystemAnswered
<1>3. Elsewhere(s) /\ net'[s].kind \in {"idle", "recipients"}
    BY <1>2, SettlesIs, FollowsIs, CallsMade DEF Elsewhere
<1>4. PICK p \in {"dashboard", "notifications", "integrations", "system"}, answer \in Answers(s):
          LoadSettles(s, p, answer, StaysIn(answer)) \/ LoadSettles(s, p, answer, TRUE)
    BY DEF DashboardAnswered, NotificationsAnswered, IntegrationsAnswered, SystemAnswered
<1>5. p \in Panels /\ StaysIn(answer) \in BOOLEAN /\ TRUE \in BOOLEAN
    BY DEF Panels, StaysIn
<1> QED BY <1>1, <1>3, <1>4, <1>5

\* After a change the list and the task itself are asked for again, for the dialog.
LEMMA ChangeTurns ==
    ASSUME BrowserAssumption, BrowserTypeOK, NEW s \in Slots, ChangeDone(s), NEW d, d = net[s].about.dialog
    PROVE  /\ net[s].kind = "change" /\ d \in TaskDialogs
           /\ net'[s].kind = "list" /\ net'[s].about.for = d /\ net'[s].about.filter = lists.filter
           /\ \E t \in Slots \ {s}: /\ net[t].kind = "idle" /\ net'[t].kind = "detail" /\ net'[t].about.for = d
                                    /\ \A u \in Slots \ {s, t}: net'[u] = net[u]
           /\ lists' = Emptied("tasks")
           /\ work'.dialog = (IF work.dialog = d THEN NoOne ELSE work.dialog)
           /\ work'.form = (IF work.dialog = d THEN NoOne ELSE work.form)
           /\ work'.task = work.task /\ work'.busy = work.busy
           /\ UNCHANGED <<server, page, trial, secret, past>>
<1>1. PICK t \in Slots:
         /\ net[t] = Idle
         /\ net' = [net EXCEPT ![s] = LoadOf("tasks", d), ![t] = AskDetail(net[s].about.task, d)]
         /\ work' = [Closed(d) EXCEPT !.open = TRUE]
    BY DEF ChangeDone
<1>2. net[s].kind = "change" /\ net[s].about.dialog # "create"
    BY DEF ChangeDone
<1>3. d \in TaskDialogs /\ net[s].about.task \in Tasks \cup {NoOne} /\ t \in Slots \ {s} /\ net[t].kind = "idle"
    BY <1>1, <1>2, CallFields DEF BrowserTypeOK, Writes, TaskDialogs, Idle
<1>4. /\ LoadOf("tasks", d).kind = "list" /\ LoadOf("tasks", d).about.for = d
      /\ LoadOf("tasks", d).about.filter = lists.filter
    BY <1>3, LoadsAre DEF Panels
<1>5. AskDetail(net[s].about.task, d).kind = "detail" /\ AskDetail(net[s].about.task, d).about.for = d
    BY DEF AskDetail, Call
<1> HIDE DEF LoadOf, AskDetail
<1>6. /\ net'[s] = LoadOf("tasks", d) /\ net'[t] = AskDetail(net[s].about.task, d)
      /\ \A u \in Slots \ {s, t}: net'[u] = net[u]
    BY <1>1, <1>3 DEF BrowserTypeOK
<1>7. /\ work'.dialog = (IF work.dialog = d THEN NoOne ELSE work.dialog)
      /\ work'.form = (IF work.dialog = d THEN NoOne ELSE work.form)
      /\ work'.task = work.task /\ work'.busy = work.busy
    <2>1. Closed(d) \in WorkStates
        BY DialogCloses
    <2> HIDE DEF Closed
    <2>2. work'.dialog = Closed(d).dialog /\ work'.form = Closed(d).form /\ work'.task = Closed(d).task
          /\ work'.busy = Closed(d).busy
        BY <1>1, <2>1 DEF WorkStates
    <2> QED BY <2>2, DialogCloses
<1>8. lists' = Emptied("tasks") /\ UNCHANGED <<server, page, trial, secret, past>>
    BY DEF ChangeDone
<1> QED BY <1>2, <1>3, <1>4, <1>5, <1>6, <1>7, <1>8

LEMMA CreateTurns ==
    ASSUME BrowserAssumption, BrowserTypeOK, NEW s \in Slots, CreateDone(s)
    PROVE  /\ net[s].kind = "change" /\ net[s].about.dialog = "create" /\ Elsewhere(s)
           /\ net'[s].kind \in {"list", "load"} /\ net'[s].about.for = "create"
           /\ net'[s].kind = "list" => net'[s].about.filter = lists.filter
           /\ \E p \in Panels: lists' = Emptied(p)
           /\ work' = Closed("create")
           /\ UNCHANGED <<server, page, trial, secret, past>>
<1>1. PICK p \in {"dashboard", "tasks"}:
          lists' = Emptied(p) /\ net' = [net EXCEPT ![s] = LoadOf(p, "create")]
    BY DEF CreateDone
<1>2. /\ p \in Panels /\ LoadOf(p, "create") \in PageCalls
      /\ LoadOf(p, "create").kind \in {"list", "load"} /\ LoadOf(p, "create").about.for = "create"
      /\ LoadOf(p, "create").kind = "list" => LoadOf(p, "create").about.filter = lists.filter
    BY LoadsAre DEF BrowserAssumption, TaskDialogs, Panels
<1> HIDE DEF LoadOf
<1>3. Elsewhere(s) /\ net'[s] = LoadOf(p, "create")
    BY <1>1, <1>2, SlotSet DEF BrowserTypeOK, Elsewhere
<1>4. /\ net[s].kind = "change" /\ net[s].about.dialog = "create" /\ work' = Closed("create")
      /\ UNCHANGED <<server, page, trial, secret, past>>
    BY DEF CreateDone
<1> QED BY <1>1, <1>2, <1>3, <1>4

------------------------------------------------------------------------------
(* Temporary passwords *)

SecretsRest == /\ secret'.value = secret.value
               /\ past'.issued = past.issued /\ past'.kept = past.kept /\ past'.doubled = past.doubled
               /\ \A t \in Slots: net'[t].kind = "secret" => net[t].kind = "secret"

LEMMA SecretsAtRest == ASSUME SecretsHold, SecretsRest PROVE SecretsHold'
BY DEF SecretsHold, SecretsRest, SecretsInTurn, PasswordsSeen

LEMMA SecretsElsewhere == ASSUME NEW s \in Slots, Elsewhere(s), net'[s].kind # "secret", secret'.value = secret.value,
                                 past'.issued = past.issued, past'.kept = past.kept, past'.doubled = past.doubled
    PROVE  SecretsRest
BY DEF SecretsRest, Elsewhere

LEMMA SecretsRestElsewhere ==
    ASSUME BrowserAssumption, BrowserTypeOK, SessionNext \/ PanelsNext \/ TasksNext \/ TestNext PROVE SecretsRest
<1>1. CASE SessionNext
    <2>1. secret' = secret
        BY <1>1 DEF SessionNext, SubmitLogin, SubmitLogout, SubmitPassword, SessionEnds, LoginAnswered, LogoutAnswered,
            PasswordAnswered
    <2>2. past'.issued = past.issued /\ past'.kept = past.kept /\ past'.doubled = past.doubled
        <3>1. ASSUME NEW s \in Slots, PasswordAnswered(s)
              PROVE  past'.issued = past.issued /\ past'.kept = past.kept /\ past'.doubled = past.doubled
            BY <3>1, TakenUpIs DEF PasswordAnswered
        <3> QED BY <1>1, <3>1 DEF SessionNext, SubmitLogin, SubmitLogout, SubmitPassword, SessionEnds, LoginAnswered,
                LogoutAnswered
    <2> QED BY <1>1, <2>1, <2>2, SessionTurns, SecretsElsewhere DEF QuietTurn, SecretsRest
<1>2. CASE TestNext
    BY <1>2, TestTurns, SecretsElsewhere DEF QuietTurn, SecretsRest
<1>3. CASE PanelsNext
    <2>1. CASE (\E p \in Panels: navigate(p)) \/ (\E s \in Slots: initializeApplication(s))
        BY <2>1, NavigationTurns, SecretsElsewhere DEF QuietTurn, SecretsRest
    <2>2. ASSUME NEW s \in Slots, ListAnswered(s) \/ KeysAnswered(s) PROVE SecretsRest
        BY <2>2, ListedIs, SettlesIs, SecretsElsewhere DEF ListAnswered, KeysAnswered, Elsewhere
    <2>3. ASSUME NEW s \in Slots,
                 DashboardAnswered(s) \/ NotificationsAnswered(s) \/ IntegrationsAnswered(s) \/ SystemAnswered(s)
          PROVE  SecretsRest
        BY <2>3, LoadTurns, LoadSettlesIs, SecretsElsewhere
    <2>4. ASSUME NEW i \in Integrations, OpenKeys(i) PROVE SecretsRest
        BY <2>4, SendsIs, CallsMade, SecretsElsewhere DEF OpenKeys, Elsewhere
    <2> QED BY <1>3, <2>1, <2>2, <2>3, <2>4 DEF PanelsNext
<1>4. CASE TasksNext
    <2>1. ASSUME NEW t, Opens("edit", t) \/ Opens("status", t) \/ Opens("cancel", t) \/ Opens("create", t) PROVE SecretsRest
        BY <2>1 DEF Opens, BrowserTypeOK, Histories, SecretsRest
    <2>2. ASSUME NEW s \in Slots, DetailAnswered(s) PROVE SecretsRest
        <3>1. past'.issued = past.issued /\ past'.kept = past.kept /\ past'.doubled = past.doubled
            BY <2>2 DEF DetailAnswered, BrowserTypeOK, Histories
        <3> QED BY <2>2, <3>1, SettlesIs, SecretsElsewhere DEF DetailAnswered, Elsewhere
    <2>3. ASSUME NEW s \in Slots, ChangeDone(s) PROVE SecretsRest
        BY <2>3, ChangeTurns DEF SecretsRest
    <2>4. ASSUME NEW s \in Slots, CreateDone(s) PROVE SecretsRest
        BY <2>4, CreateTurns, SecretsElsewhere
    <2>5. ASSUME NEW t \in Tasks, openTaskDetail(t) PROVE SecretsRest
        <3>1. PICK s \in Slots: net' = [net EXCEPT ![s] = AskDetail(t, NoOne)]
            BY <2>5 DEF openTaskDetail
        <3>2. net'[s] = AskDetail(t, NoOne) /\ Elsewhere(s)
            BY <3>1 DEF BrowserTypeOK, Elsewhere
        <3> QED BY <2>5, <3>2, SecretsElsewhere DEF openTaskDetail, AskDetail, Call
    <2>6. ASSUME NEW f \in Filters, ChangeFilter(f) PROVE SecretsRest
        BY <2>6, SendsIs, CallsMade, SecretsElsewhere DEF ChangeFilter, Elsewhere
    <2>7. ASSUME NEW s \in Slots, ChangeFailed(s) PROVE SecretsRest
        BY <2>7, SettlesIs, SecretsElsewhere DEF ChangeFailed, Elsewhere
    <2>8. CASE SubmitDialog
        <3>1. PICK s \in Slots: \E w: net' = [net EXCEPT ![s] = Call("change", w)]
            BY <2>8 DEF SubmitDialog, Sends
        <3>2. net'[s].kind = "change" /\ Elsewhere(s)
            BY <3>1 DEF BrowserTypeOK, Elsewhere, Call
        <3> QED BY <2>8, <3>2, SecretsElsewhere DEF SubmitDialog
    <2>9. CASE closeTaskDetail \/ CloseDialog
        BY <2>9 DEF closeTaskDetail, CloseDialog, SecretsRest
    <2> QED BY <1>4, <2>1, <2>2, <2>3, <2>4, <2>5, <2>6, <2>7, <2>8, <2>9
            DEF TasksNext, CreationNext, OpenEdit, OpenStatus, OpenCancel, OpenCreate
<1> QED BY <1>1, <1>2, <1>3, <1>4

LEMMA SecretsStep == ASSUME BrowserAssumption, BrowserTypeOK, SecretsHold, [BrowserNext]_browserVars PROVE SecretsHold'
<1>1. CASE UNCHANGED browserVars
    BY <1>1, SecretsAtRest DEF browserVars, SecretsRest
<1>2. CASE \E q \in Searches: TypeSearch(q)
    BY <1>2, SecretsAtRest DEF TypeSearch, SecretsRest
<1>3. ASSUME NEW append \in BOOLEAN, loadUsers(append) PROVE SecretsHold'
    <2>1. past'.issued = past.issued /\ past'.kept = past.kept /\ past'.doubled = past.doubled
        BY <1>3 DEF loadUsers, BrowserTypeOK, Histories
    <2>2. lists.search \in Searches
        BY DEF BrowserTypeOK, Contents
    <2>3. Sends("people", [search |-> lists.search, for |-> NoOne]) /\ secret' = secret
        BY <1>3 DEF loadUsers
    <2>4. \E s \in Slots: net'[s].kind = "people" /\ Elsewhere(s)
        <3>1. Call("people", [search |-> lists.search, for |-> NoOne]) \in PageCalls
            BY <2>2, CallsMade
        <3> QED BY <2>3, <3>1, SendsIs DEF Elsewhere
    <2> QED BY <2>1, <2>3, <2>4, SecretsElsewhere, SecretsAtRest
<1>4. CASE GrantLogin \/ SubmitAdministrator
    <2>1. PICK f \in {"login", "administrator"}: Asks(f)
        BY <1>4 DEF GrantLogin, SubmitAdministrator
    <2>2. secret.value = 0
        BY <1>4 DEF GrantLogin, SubmitAdministrator, Reaches
    <2>3. PICK s \in Slots: net'[s].kind = "secret" /\ Elsewhere(s)
        BY <2>1, AsksIs, SendsIs, CallsMade DEF Elsewhere
    <2>4. past'.issued = past.issued /\ past'.kept = past.kept /\ secret' = secret
          /\ (past'.doubled <=> past.doubled \/ Calling("secret"))
        BY <2>1, AsksIs
    <2> QED BY <2>2, <2>3, <2>4 DEF SecretsHold, SecretsInTurn, PasswordsSeen, Calling, Elsewhere
<1>5. CASE OpenAdministrator
    BY <1>5, OpensIs, SecretsAtRest DEF OpenAdministrator, Dialogs, SecretsRest
<1>6. CASE TickSaved
    BY <1>6, SecretsAtRest DEF TickSaved, SecretsRest, BrowserTypeOK
<1>7. CASE CloseSecret
    <2>1. past'.issued = past.issued /\ past'.kept = past.kept + 1 /\ past'.doubled = past.doubled
          /\ secret.value # 0 /\ secret'.value = 0 /\ net' = net /\ past.kept \in Nat
        BY <1>7 DEF CloseSecret, BrowserTypeOK, Histories
    <2> QED BY <2>1 DEF SecretsHold, SecretsInTurn, PasswordsSeen
<1>8. ASSUME NEW s \in Slots, ContextAnswered(s) PROVE SecretsHold'
    <2>1. lists.search \in Searches
        BY DEF BrowserTypeOK, Contents
    <2>2. Follows(s, "people", [search |-> lists.search, for |-> NoOne]) /\ UNCHANGED <<secret, past>>
        BY <1>8 DEF ContextAnswered
    <2>3. net'[s].kind = "people" /\ Elsewhere(s)
        BY <2>1, <2>2, FollowsIs, CallsMade DEF Elsewhere
    <2> QED BY <2>2, <2>3, SecretsElsewhere, SecretsAtRest
<1>9. ASSUME NEW s \in Slots, PeopleAnswered(s) PROVE SecretsHold'
    BY <1>9, ListedIs, SettlesIs, SecretsElsewhere, SecretsAtRest DEF PeopleAnswered, Elsewhere
<1>10. ASSUME NEW s \in Slots, SecretAnswered(s) PROVE SecretsHold'
    <2>1. CASE /\ past' = [past EXCEPT !.issued = @ + 1]
               /\ secret' = [value |-> past.issued + 1, saved |-> FALSE]
               /\ \E d \in {NoOne, "administrator"}: Follows(s, "people", [search |-> lists.search, for |-> d])
        <3>1. lists.search \in Searches
            BY DEF BrowserTypeOK, Contents
        <3>2. net'[s].kind = "people" /\ Elsewhere(s)
            BY <2>1, <3>1, FollowsIs, CallsMade DEF Elsewhere
        <3>3. past'.issued = past.issued + 1 /\ past'.kept = past.kept /\ past'.doubled = past.doubled
              /\ past.issued \in Nat /\ past.kept \in Nat
            BY <2>1 DEF BrowserTypeOK, Histories
        <3>4. secret'.value = past.issued + 1
            BY <2>1
        <3>5. net[s].kind = "secret"
            BY <1>10 DEF SecretAnswered
        <3> QED BY <3>2, <3>3, <3>4, <3>5 DEF SecretsHold, SecretsInTurn, PasswordsSeen, Elsewhere
    <2>2. CASE Settles(s) /\ UNCHANGED <<past, secret>>
        BY <2>2, SettlesIs, SecretsElsewhere, SecretsAtRest DEF Elsewhere
    <2> QED BY <1>10, <2>1, <2>2 DEF SecretAnswered
<1> QED BY <1>1, <1>2, <1>3, <1>4, <1>5, <1>6, <1>7, <1>8, <1>9, <1>10, SecretsRestElsewhere, SecretsAtRest
        DEF BrowserNext, PeopleNext

------------------------------------------------------------------------------
(* Whose page it is *)

PageRest == \/ page'.view = page.view /\ page'.login = page.login /\ page'.panel = page.panel
            \/ page'.view = "login" /\ page'.login = NoOne

\* Nobody enters, and nothing more is shown.
AccountsRest ==
    /\ server'.session \in {0, server.session} /\ server'.logins = server.logins /\ server'.restricted = server.restricted
    /\ PageRest
    /\ past.strays => past'.strays
    /\ \A o \in Panels: lists'.shown[o] \in {0, lists.shown[o]}

LEMMA AccountsAtRest == ASSUME BrowserTypeOK, BrowserTypeOK', AccountsHold, AccountsRest PROVE AccountsHold'
<1>1. page.panel \in Panels /\ server.logins \in Nat
    BY DEF BrowserTypeOK, PageStates
<1>2. LoginsKnown'
    BY <1>1 DEF AccountsHold, AccountsRest, PageRest, LoginsKnown
<1>3. ShowsItsOwn'
    BY <1>1 DEF AccountsHold, AccountsRest, PageRest, ShowsItsOwn
<1> QED BY <1>2, <1>3 DEF AccountsHold

LEMMA PageTurnsRest == ASSUME BrowserTypeOK, NEW answer, page' = PageAfter(answer) PROVE PageRest
BY PageTurns DEF PageRest

LEMMA ListsRestful == ASSUME BrowserTypeOK, lists' = lists \/ \E p \in Panels: lists' = Emptied(p)
    PROVE  \A o \in Panels: lists'.shown[o] \in {0, lists.shown[o]}
<1>1. CASE lists' = lists
    BY <1>1
<1>2. ASSUME NEW p \in Panels, lists' = Emptied(p) PROVE \A o \in Panels: lists'.shown[o] \in {0, lists.shown[o]}
    <2>1. lists'.shown[p] = 0 /\ \A o \in Panels \ {p}: lists'.shown[o] = lists.shown[o]
        BY <1>2, EmptiedIs
    <2> QED BY <2>1
<1> QED BY <1>1, <1>2

\* What is shown is from the login whose page it is, or the history knows.
LEMMA ShownOrStray ==
    ASSUME BrowserTypeOK, AccountsHold, NEW s \in Slots, NEW p \in Panels,
           server' = server, page' = page, past'.strays <=> past.strays \/ Stray(s),
           lists'.shown[p] = net[s].as, \A o \in Panels \ {p}: lists'.shown[o] = lists.shown[o]
    PROVE  AccountsHold'
<1>1. page.panel \in Panels
    BY DEF BrowserTypeOK, PageStates
<1>2. ShowsItsOwn'
    BY <1>1 DEF AccountsHold, LoginsKnown, ShowsItsOwn, Stray
<1> QED BY <1>2 DEF AccountsHold, LoginsKnown

LEMMA EntersTheirOwn ==
    ASSUME BrowserAssumption, BrowserTypeOK, BrowserTypeOK', NEW s \in Slots, NEW login \in Nat, NEW restricted \in BOOLEAN,
           Enters(s, login, restricted), login <= server'.logins, server'.session <= server'.logins,
           server'.restricted \subseteq 1..server'.logins,
           restricted \/ past'.strays \/ login \notin server'.restricted
    PROVE  AccountsHold'
<1>1. server'.session \in Nat /\ page.panel \in Panels
    BY DEF BrowserTypeOK, PageStates
<1>2. page'.login = login /\ page'.panel = page.panel /\ page'.view = IF restricted THEN "password" ELSE "shell"
    BY <1>1, EntersIs
<1>3. login # NoOne
    BY DEF BrowserAssumption
<1>4. LoginsKnown'
    BY <1>2, <1>3 DEF LoginsKnown
<1>5. ~restricted => lists'.shown[page.panel] = 0
    <2>1. ~restricted => lists' = Emptied(page.panel)
        BY <1>1, EntersIs
    <2> QED BY <1>1, <2>1, EmptiedIs
<1>6. ShowsItsOwn'
    BY <1>2, <1>5 DEF ShowsItsOwn
<1> QED BY <1>4, <1>6 DEF AccountsHold

LEMMA SessionAccounts ==
    ASSUME BrowserAssumption, BrowserTypeOK, BrowserTypeOK', AccountsHold, SessionNext PROVE AccountsHold'
<1>1. CASE SubmitLogin \/ SubmitLogout \/ SubmitPassword
    BY <1>1, AccountsAtRest DEF SubmitLogin, SubmitLogout, SubmitPassword, AccountsRest, PageRest
<1>2. CASE SessionEnds
    <2>1. server'.session = 0 /\ server'.logins = server.logins /\ server'.restricted = server.restricted
        BY <1>2 DEF SessionEnds, BrowserTypeOK
    <2> QED BY <1>2, <2>1, AccountsAtRest DEF SessionEnds, AccountsRest, PageRest
<1>3. ASSUME NEW s \in Slots, LoginAnswered(s) PROVE AccountsHold'
    <2>1. CASE UNCHANGED <<server, page, lists>>
        BY <1>3, <2>1, AccountsAtRest DEF LoginAnswered, AccountsRest, PageRest
    <2>2. CASE ~UNCHANGED <<server, page, lists>>
        <3> DEFINE n == server.logins + 1
        <3>1. PICK restricted \in BOOLEAN:
                  /\ server' = [server EXCEPT !.session = n, !.logins = n,
                        !.restricted = IF restricted THEN @ \cup {n} ELSE @]
                  /\ \/ UNCHANGED <<page, lists>>
                     \/ Enters(s, n, restricted)
            BY <1>3, <2>2 DEF LoginAnswered
        <3>2. server.logins \in Nat /\ server.restricted \subseteq 1..server.logins /\ n \in Nat
            BY DEF BrowserTypeOK, AccountsHold, LoginsKnown
        <3> DEFINE R == IF restricted THEN server.restricted \cup {n} ELSE server.restricted
        <3>3. server'.session = n /\ server'.logins = n /\ server'.restricted = R
            <4>1. server' = [server EXCEPT !.session = n, !.logins = n, !.restricted = R]
                BY <3>1
            <4> HIDE DEF n, R
            <4> QED BY <4>1 DEF BrowserTypeOK
        <3>4. server'.restricted \subseteq 1..n /\ (~restricted => n \notin server'.restricted)
            BY <3>2, <3>3
        <3>5. past' = past
            BY <1>3 DEF LoginAnswered
        <3>6. CASE UNCHANGED <<page, lists>>
            <4>1. LoginsKnown'
                BY <3>2, <3>3, <3>4, <3>6 DEF AccountsHold, LoginsKnown, BrowserTypeOK, PageStates
            <4>2. page.login # NoOne => page.login # n
                BY <3>2 DEF AccountsHold, LoginsKnown, BrowserTypeOK, PageStates
            <4>3. ShowsItsOwn'
                <5>1. page.view = "shell" => (page.login \in server'.restricted <=> page.login \in server.restricted)
                    BY <3>3, <4>2 DEF AccountsHold, LoginsKnown
                <5> QED BY <3>5, <3>6, <5>1 DEF AccountsHold, ShowsItsOwn
            <4> QED BY <4>1, <4>3 DEF AccountsHold
        <3>7. CASE Enters(s, n, restricted)
            <4> HIDE DEF n, R
            <4>1. n <= server'.logins /\ server'.session <= server'.logins
                  /\ server'.restricted \subseteq 1..server'.logins
                BY <3>2, <3>3, <3>4
            <4> QED BY <3>2, <3>4, <3>7, <4>1, EntersTheirOwn
        <3> QED BY <3>1, <3>6, <3>7
    <2> QED BY <2>1, <2>2
<1>4. ASSUME NEW s \in Slots, LogoutAnswered(s) PROVE AccountsHold'
    <2>1. PageRest
        BY <1>4 DEF LogoutAnswered, showLogin, PageRest, BrowserTypeOK, PageStates
    <2>2. server'.session \in {0, server.session} /\ server'.logins = server.logins
          /\ server'.restricted = server.restricted
        <3>1. server' = server \/ server' = [server EXCEPT !.session = 0]
            BY <1>4 DEF LogoutAnswered
        <3> QED BY <3>1 DEF BrowserTypeOK
    <2> QED BY <1>4, <2>1, <2>2, AccountsAtRest DEF LogoutAnswered, AccountsRest
<1>5. ASSUME NEW s \in Slots, PasswordAnswered(s) PROVE AccountsHold'
    <2>1. PICK answer \in Answers(s):
              \/ /\ server' = [server EXCEPT !.restricted = @ \ {net[s].as}]
                 /\ Enters(s, IF page.login = NoOne THEN 0 ELSE page.login, FALSE)
                 /\ TakenUp(s)
              \/ /\ page' = PageAfter(answer)
                 /\ UNCHANGED <<server, lists, past>>
        BY <1>5 DEF PasswordAnswered
    <2>2. CASE page' = PageAfter(answer) /\ UNCHANGED <<server, lists, past>>
        BY <2>2, PageTurnsRest, AccountsAtRest DEF AccountsRest
    <2>3. CASE /\ server' = [server EXCEPT !.restricted = @ \ {net[s].as}]
               /\ Enters(s, IF page.login = NoOne THEN 0 ELSE page.login, FALSE)
               /\ TakenUp(s)
        <3> DEFINE login == IF page.login = NoOne THEN 0 ELSE page.login
        <3>1. server'.session = server.session /\ server'.logins = server.logins
              /\ server'.restricted = server.restricted \ {net[s].as}
            BY <2>3 DEF BrowserTypeOK
        <3>2. login \in Nat /\ login <= server.logins /\ server.logins \in Nat
            BY DEF AccountsHold, LoginsKnown, BrowserTypeOK, PageStates
        <3>3. server'.session <= server'.logins /\ server'.restricted \subseteq 1..server'.logins
            BY <3>1 DEF AccountsHold, LoginsKnown
        <3>4. past'.strays \/ login \notin server'.restricted
            <4>1. CASE page.login = NoOne
                BY <3>3, <4>1
            <4>2. CASE page.login # NoOne
                <5>1. past'.strays <=> past.strays \/ Stray(s)
                    BY <2>3, TakenUpIs
                <5> QED BY <3>1, <4>2, <5>1 DEF Stray
            <4> QED BY <4>1, <4>2
        <3>5. Enters(s, login, FALSE)
            BY <2>3
        <3> HIDE DEF login
        <3> QED BY <3>1, <3>2, <3>3, <3>4, <3>5, EntersTheirOwn
    <2> QED BY <2>1, <2>2, <2>3
<1> QED BY <1>1, <1>2, <1>3, <1>4, <1>5 DEF SessionNext

LEMMA PanelAccounts ==
    ASSUME BrowserAssumption, BrowserTypeOK, BrowserTypeOK', AccountsHold, PanelsNext PROVE AccountsHold'
<1>1. ASSUME NEW p \in Panels, navigate(p) PROVE AccountsHold'
    <2>1. page'.panel = p /\ page'.view = page.view /\ page'.login = page.login
        BY <1>1 DEF navigate, BrowserTypeOK, PageStates
    <2>2. lists'.shown[p] = 0
        BY <1>1, EmptiedIs DEF navigate
    <2>3. server' = server /\ past' = past
        BY <1>1 DEF navigate
    <2>4. ShowsItsOwn'
        BY <2>1, <2>2, <2>3 DEF AccountsHold, ShowsItsOwn
    <2> QED BY <2>1, <2>3, <2>4 DEF AccountsHold, LoginsKnown
<1>2. ASSUME NEW s \in Slots, initializeApplication(s) PROVE AccountsHold'
    <2>1. CASE page' = showLogin /\ UNCHANGED lists
        <3>1. PageRest
            BY <2>1 DEF showLogin, PageRest, BrowserTypeOK, PageStates
        <3> QED BY <1>2, <2>1, <3>1, AccountsAtRest DEF initializeApplication, AccountsRest
    <2>2. ASSUME NEW r \in BOOLEAN, r = (server.session \in server.restricted), Enters(s, server.session, r)
          PROVE  AccountsHold'
        <3>1. server' = server /\ server.session \in Nat /\ server.session <= server.logins
              /\ server.restricted \subseteq 1..server.logins
            BY <1>2 DEF initializeApplication, AccountsHold, LoginsKnown, BrowserTypeOK
        <3> QED BY <2>2, <3>1, EntersTheirOwn
    <2>3. (server.session \in server.restricted) \in BOOLEAN
        OBVIOUS
    <2>4. \/ page' = showLogin /\ UNCHANGED lists
          \/ Enters(s, server.session, server.session \in server.restricted)
        BY <1>2 DEF initializeApplication
    <2> QED BY <2>1, <2>2, <2>3, <2>4
<1>3. ASSUME NEW s \in Slots, ListAnswered(s) PROVE AccountsHold'
    <2>1. PICK answer \in Answers(s):
              /\ page' = PageAfter(answer)
              /\ lists' = IF answer # "ok" THEN lists
                          ELSE [lists EXCEPT !.rows = net[s].about.filter, !.shown["tasks"] = net[s].as]
              /\ Listed(s, answer)
        BY <1>3 DEF ListAnswered
    <2>2. server' = server
        BY <1>3 DEF ListAnswered
    <2>3. CASE answer # "ok"
        <3>1. past.strays => past'.strays
            BY <2>1, ListedIs
        <3>2. lists' = lists
            BY <2>1, <2>3
        <3> QED BY <2>1, <2>2, <3>1, <3>2, PageTurnsRest, AccountsAtRest DEF AccountsRest
    <2>4. CASE answer = "ok"
        <3>1. lists'.shown["tasks"] = net[s].as /\ \A o \in Panels \ {"tasks"}: lists'.shown[o] = lists.shown[o]
            BY <2>1, <2>4 DEF BrowserTypeOK, Contents, Panels
        <3>2. page' = page
            BY <2>1, <2>4, PageTurns
        <3>3. past'.strays <=> past.strays \/ Stray(s)
            BY <2>1, <2>4, ListedIs
        <3>4. "tasks" \in Panels
            BY DEF Panels
        <3> QED BY <2>2, <3>1, <3>2, <3>3, <3>4, ShownOrStray
    <2> QED BY <2>3, <2>4
<1>4. ASSUME NEW s \in Slots,
             DashboardAnswered(s) \/ NotificationsAnswered(s) \/ IntegrationsAnswered(s) \/ SystemAnswered(s)
      PROVE  AccountsHold'
    <2>1. PICK p \in Panels, answer \in Answers(s), shown \in BOOLEAN: LoadSettles(s, p, answer, shown)
        BY <1>4, LoadTurns
    <2>2. net[s].kind = "load"
        BY <1>4, LoadTurns
    <2>3. page' = PageAfter(answer) /\ server' = server
        BY <2>1, <2>2, LoadSettlesIs
    <2>4. CASE lists' = lists /\ past' = past
        BY <2>3, <2>4, PageTurnsRest, AccountsAtRest DEF AccountsRest
    <2>5. CASE /\ answer = "ok" /\ (past'.strays <=> past.strays \/ Stray(s))
               /\ lists'.shown[p] = net[s].as
               /\ \A o \in Panels \ {p}: lists'.shown[o] = lists.shown[o]
        <3>1. page' = page
            BY <2>3, <2>5, PageTurns
        <3> QED BY <2>3, <2>5, <3>1, ShownOrStray
    <2> QED BY <2>1, <2>2, <2>4, <2>5, LoadSettlesIs
<1>5. ASSUME NEW s \in Slots, KeysAnswered(s) PROVE AccountsHold'
    <2>1. PICK answer \in Answers(s):
              /\ page' = PageAfter(answer)
              /\ lists' = IF answer # "ok" THEN lists ELSE [lists EXCEPT !.keys.rows = net[s].about]
              /\ Listed(s, answer)
        BY <1>5 DEF KeysAnswered
    <2>2. lists'.shown = lists.shown
        BY <2>1 DEF BrowserTypeOK, Contents
    <2>3. past.strays => past'.strays
        BY <2>1, ListedIs
    <2>4. server' = server
        BY <1>5 DEF KeysAnswered
    <2> QED BY <2>1, <2>2, <2>3, <2>4, PageTurnsRest, AccountsAtRest DEF AccountsRest
<1>6. ASSUME NEW i \in Integrations, OpenKeys(i) PROVE AccountsHold'
    <2>1. lists'.shown = lists.shown
        BY <1>6 DEF OpenKeys, BrowserTypeOK, Contents
    <2> QED BY <1>6, <2>1, AccountsAtRest DEF OpenKeys, AccountsRest, PageRest
<1> QED BY <1>1, <1>2, <1>3, <1>4, <1>5, <1>6 DEF PanelsNext

LEMMA TaskAccounts == ASSUME BrowserAssumption, BrowserTypeOK, TasksNext PROVE AccountsRest
<1>1. server' = server
    BY DEF TasksNext, CreationNext, openTaskDetail, closeTaskDetail, OpenEdit, OpenStatus, OpenCancel, Opens, DetailAnswered,
        ChangeDone, ChangeFilter, OpenCreate, CloseDialog, SubmitDialog, ChangeFailed, CreateDone
<1>2. PageRest
    <2>1. ASSUME NEW s \in Slots, ChangeFailed(s) \/ DetailAnswered(s) PROVE PageRest
        BY <2>1, PageTurnsRest DEF ChangeFailed, DetailAnswered
    <2> QED BY <2>1 DEF TasksNext, CreationNext, openTaskDetail, closeTaskDetail, OpenEdit, OpenStatus, OpenCancel, Opens,
            ChangeDone, ChangeFilter, OpenCreate, CloseDialog, SubmitDialog, CreateDone, PageRest
<1>3. past'.strays = past.strays
    <2>1. past' = past \/ \E x: past' = [past EXCEPT !.swapped = x]
        BY DEF TasksNext, CreationNext, openTaskDetail, closeTaskDetail, OpenEdit, OpenStatus, OpenCancel, Opens, DetailAnswered,
            ChangeDone, ChangeFilter, OpenCreate, CloseDialog, SubmitDialog, ChangeFailed, CreateDone
    <2> QED BY <2>1 DEF BrowserTypeOK, Histories
<1>4. \A o \in Panels: lists'.shown[o] \in {0, lists.shown[o]}
    <2>1. CASE lists' = lists \/ \E p \in Panels: lists' = Emptied(p)
        BY <2>1, ListsRestful
    <2>2. ASSUME NEW f \in Filters, ChangeFilter(f) PROVE \A o \in Panels: lists'.shown[o] \in {0, lists.shown[o]}
        <3>1. /\ Emptied("tasks") \in Contents /\ "tasks" \in Panels /\ Emptied("tasks").shown["tasks"] = 0
              /\ \A o \in Panels \ {"tasks"}: Emptied("tasks").shown[o] = lists.shown[o]
            BY EmptiedIs DEF Panels
        <3>2. lists'.shown = Emptied("tasks").shown
            <4> HIDE DEF Emptied
            <4> QED BY <2>2, <3>1 DEF ChangeFilter, Contents
        <3> QED BY <3>1, <3>2
    <2>3. ASSUME NEW s \in Slots, ChangeDone(s) \/ CreateDone(s) PROVE lists' = lists \/ \E p \in Panels: lists' = Emptied(p)
        BY <2>3, CreateTurns DEF ChangeDone, Panels
    <2> QED BY <2>1, <2>2, <2>3 DEF TasksNext, CreationNext, openTaskDetail, closeTaskDetail, OpenEdit, OpenStatus, OpenCancel,
            Opens, DetailAnswered, OpenCreate, CloseDialog, SubmitDialog, ChangeFailed
<1> QED BY <1>1, <1>2, <1>3, <1>4 DEF AccountsRest

LEMMA TestAccounts == ASSUME BrowserAssumption, BrowserTypeOK, TestNext PROVE AccountsRest
<1>1. PageRest
    <2>1. ASSUME NEW s \in Slots, RecipientsAnswered(s) \/ TestAnswered(s) \/ RecentAnswered(s) PROVE PageRest
        BY <2>1, PageTurnsRest DEF RecipientsAnswered, TestAnswered, RecentAnswered
    <2> QED BY <2>1 DEF TestNext, ChangeType, ChangeRecipient, SendTest, PageRest
<1> QED BY <1>1, TestTurns DEF AccountsRest

LEMMA PeopleAccounts ==
    ASSUME BrowserAssumption, BrowserTypeOK, BrowserTypeOK', AccountsHold, PeopleNext PROVE AccountsHold'
<1>1. ASSUME NEW q \in Searches, TypeSearch(q) PROVE AccountsHold'
    <2>1. lists'.shown = lists.shown
        BY <1>1 DEF TypeSearch, BrowserTypeOK, Contents
    <2> QED BY <1>1, <2>1, AccountsAtRest DEF TypeSearch, AccountsRest, PageRest
<1>2. ASSUME NEW append \in BOOLEAN, loadUsers(append) PROVE AccountsHold'
    <2>1. past'.strays = past.strays
        BY <1>2 DEF loadUsers, BrowserTypeOK, Histories
    <2>2. \A o \in Panels: lists'.shown[o] \in {0, lists.shown[o]}
        BY <1>2, ListsRestful DEF loadUsers, Panels
    <2> QED BY <1>2, <2>1, <2>2, AccountsAtRest DEF loadUsers, AccountsRest, PageRest
<1>3. CASE GrantLogin \/ SubmitAdministrator
    <2>1. past'.strays = past.strays /\ UNCHANGED <<server, page, lists>>
        BY <1>3, AsksIs DEF GrantLogin, SubmitAdministrator
    <2> QED BY <2>1, AccountsAtRest DEF AccountsRest, PageRest
<1>4. CASE OpenAdministrator
    <2>1. past'.strays = past.strays /\ UNCHANGED <<server, page, lists>>
        BY <1>4, OpensIs DEF OpenAdministrator, Dialogs
    <2> QED BY <2>1, AccountsAtRest DEF AccountsRest, PageRest
<1>5. CASE TickSaved \/ CloseSecret
    <2>1. past'.strays = past.strays /\ UNCHANGED <<server, page, lists>>
        BY <1>5 DEF TickSaved, CloseSecret, BrowserTypeOK, Histories
    <2> QED BY <2>1, AccountsAtRest DEF AccountsRest, PageRest
<1>6. ASSUME NEW s \in Slots, ContextAnswered(s) PROVE AccountsHold'
    <2>1. PICK answer \in Answers(s):
              /\ page' = PageAfter(answer)
              /\ lists' = [Emptied("users") EXCEPT !.catalogs = @ \/ answer = "ok"]
        BY <1>6 DEF ContextAnswered
    <2>2. /\ Emptied("users") \in Contents /\ "users" \in Panels /\ Emptied("users").shown["users"] = 0
          /\ \A o \in Panels \ {"users"}: Emptied("users").shown[o] = lists.shown[o]
        BY EmptiedIs DEF Panels
    <2>3. lists'.shown = Emptied("users").shown
        <3> HIDE DEF Emptied
        <3> QED BY <2>1, <2>2 DEF Contents
    <2>4. UNCHANGED <<server, past>>
        BY <1>6 DEF ContextAnswered
    <2> QED BY <2>1, <2>2, <2>3, <2>4, PageTurnsRest, AccountsAtRest DEF AccountsRest
<1>7. ASSUME NEW s \in Slots, PeopleAnswered(s) PROVE AccountsHold'
    <2>1. PICK answer \in Answers(s):
          /\ page' = PageAfter(answer)
          /\ lists' = IF answer # "ok" THEN lists
                      ELSE [lists EXCEPT !.people = @ \cup {net[s].about.search}, !.shown["users"] = net[s].as]
          /\ Listed(s, answer)
        BY <1>7 DEF PeopleAnswered
    <2>2. server' = server
        BY <1>7 DEF PeopleAnswered
    <2>3. CASE answer # "ok"
        <3>1. past.strays => past'.strays
            BY <2>1, ListedIs
        <3>2. lists' = lists
            BY <2>1, <2>3
        <3> QED BY <2>1, <2>2, <3>1, <3>2, PageTurnsRest, AccountsAtRest DEF AccountsRest
    <2>4. CASE answer = "ok"
        <3>1. lists'.shown["users"] = net[s].as /\ \A o \in Panels \ {"users"}: lists'.shown[o] = lists.shown[o]
            BY <2>1, <2>4 DEF BrowserTypeOK, Contents, Panels
        <3>2. page' = page
            BY <2>1, <2>4, PageTurns
        <3>3. past'.strays <=> past.strays \/ Stray(s)
            BY <2>1, <2>4, ListedIs
        <3>4. "users" \in Panels
            BY DEF Panels
        <3> QED BY <2>2, <3>1, <3>2, <3>3, <3>4, ShownOrStray
    <2> QED BY <2>3, <2>4
<1>8. ASSUME NEW s \in Slots, SecretAnswered(s) PROVE AccountsHold'
    <2>1. PageRest
        BY <1>8, PageTurnsRest DEF SecretAnswered
    <2>2. lists' = lists \/ lists' = Emptied("users")
        BY <1>8 DEF SecretAnswered
    <2>3. past' = [past EXCEPT !.issued = past.issued + 1] \/ past' = past
        BY <1>8 DEF SecretAnswered
    <2>4. past'.strays = past.strays
        BY <2>3 DEF BrowserTypeOK, Histories
    <2>5. \A o \in Panels: lists'.shown[o] \in {0, lists.shown[o]}
        BY <2>2, ListsRestful DEF Panels
    <2>6. server' = server
        BY <1>8 DEF SecretAnswered
    <2> QED BY <2>1, <2>4, <2>5, <2>6, AccountsAtRest DEF AccountsRest
<1> QED BY <1>1, <1>2, <1>3, <1>4, <1>5, <1>6, <1>7, <1>8 DEF PeopleNext

LEMMA AccountsStep ==
    ASSUME BrowserAssumption, BrowserTypeOK, AccountsHold, [BrowserNext]_browserVars PROVE AccountsHold'
<1>1. BrowserTypeOK'
    BY BrowserTypes
<1>2. CASE UNCHANGED browserVars
    BY <1>1, <1>2, AccountsAtRest DEF browserVars, AccountsRest, PageRest
<1> QED BY <1>1, <1>2, SessionAccounts, PanelAccounts, TaskAccounts, TestAccounts, PeopleAccounts, AccountsAtRest
        DEF BrowserNext

------------------------------------------------------------------------------
(* Dialogs *)

\* Neither about a dialog nor asked for by one.
Unattached(s) == \A d \in Dialogs: ~Waits(s, d) /\ ~Submitted(s, d)

\* The dialogs stay as they are, and at most the one that waited for the call in s is let go.
DialogsRest(s) ==
    /\ Elsewhere(s) /\ Unattached(s)' /\ \A d \in Dialogs: ~Submitted(s, d)
    /\ work'.dialog = work.dialog /\ work'.form = work.form
    /\ \/ work'.busy = work.busy
       \/ /\ work'.busy = work.busy \ {net[s].about.for}
          /\ net[s].kind \in {"list", "detail", "load", "people"}
          /\ \A t \in Slots \ {s}: net[t] # Idle /\ net[t].kind \in {"list", "detail"} =>
                 net[t].about.for # net[s].about.for

LEMMA ChangeIsSubmitted == ASSUME BrowserTypeOK, NEW s \in Slots, net[s].kind = "change"
    PROVE  net[s].about.dialog \in Dialogs \ {"administrator"} /\ Submitted(s, net[s].about.dialog)
<1>1. net[s].about \in Writes
    BY CallFields DEF BrowserTypeOK
<1> QED BY <1>1 DEF Writes, Dialogs, TaskDialogs, Submitted

LEMMA DialogsAtRest == ASSUME BrowserTypeOK, BrowserTypeOK', DialogsHeld, MeantForItsTask, DialogWaits, NEW s \in Slots, DialogsRest(s)
    PROVE  DialogsHeld' /\ MeantForItsTask' /\ DialogWaits'
<1>1. \A t \in Slots, d \in Dialogs: Submitted(t, d)' => t # s /\ Submitted(t, d)
    BY DEF DialogsRest, Unattached, Elsewhere, Submitted
<1>2. \A t \in Slots, d \in Dialogs: Waits(t, d)' => t # s /\ Waits(t, d) /\ net'[t] = net[t]
    BY DEF DialogsRest, Unattached, Elsewhere, Waits
<1>3. \A d \in Dialogs: d \in work.busy /\ d \notin work'.busy =>
          Waits(s, d) /\ \A t \in Slots \ {s}: Waits(t, d) => net[t].kind \notin {"list", "detail"}
    <2>1. \A t \in Slots: net[t] # Idle <=> net[t].kind # "idle"
        BY CallFields DEF BrowserTypeOK
    <2> QED BY <2>1 DEF DialogsRest, Waits
<1>4. DialogsHeld'
    <2> SUFFICES ASSUME NEW t \in Slots, NEW d \in Dialogs
                 PROVE  /\ Submitted(t, d)' => d \in work'.busy /\ \A u \in Slots \ {t}: ~Submitted(u, d)' /\ ~Waits(u, d)'
                        /\ Waits(t, d)' => /\ d \in work'.busy
                                           /\ \A u \in Slots \ {t}: Waits(u, d)' => net'[t].kind \in {"list", "detail"}
        BY DEF DialogsHeld
    <2>1. CASE Submitted(t, d)'
        <3>1. t # s /\ Submitted(t, d) /\ ~Waits(t, d)'
            BY <1>1, <1>2, <2>1 DEF Submitted, Waits
        <3>2. d \in work.busy /\ \A u \in Slots \ {t}: ~Submitted(u, d) /\ ~Waits(u, d)
            BY <3>1 DEF DialogsHeld
        <3> QED BY <1>1, <1>2, <1>3, <3>1, <3>2
    <2>2. CASE Waits(t, d)'
        <3>1. t # s /\ Waits(t, d) /\ net'[t] = net[t] /\ ~Submitted(t, d)'
            BY <1>1, <1>2, <2>2 DEF Submitted, Waits
        <3>2. d \in work.busy /\ \A u \in Slots \ {t}: Waits(u, d) => net[t].kind \in {"list", "detail"}
            BY <3>1 DEF DialogsHeld
        <3> QED BY <1>2, <1>3, <3>1, <3>2
    <2> QED BY <2>1, <2>2
<1>5. \A t \in Slots: net'[t].kind = "change" => t # s /\ net'[t] = net[t]
    <2> SUFFICES ASSUME NEW t \in Slots, net'[t].kind = "change" PROVE t # s /\ net'[t] = net[t]
        OBVIOUS
    <2>1. net'[t].about \in Writes
        BY CallFields DEF BrowserTypeOK
    <2>2. \E d \in Dialogs: Submitted(t, d)'
        BY <2>1 DEF Writes, Dialogs, TaskDialogs, Submitted
    <2> QED BY <1>1, <2>2 DEF DialogsRest, Elsewhere
<1>6. MeantForItsTask'
    BY <1>5 DEF MeantForItsTask
<1>7. DialogWaits'
    BY <1>5 DEF DialogWaits, DialogsRest
<1> QED BY <1>4, <1>6, <1>7

LEMMA FormsAtRest == ASSUME FormsShow, work'.dialog = work.dialog, work'.form = work.form, work'.task = work.task,
                            past'.swapped = past.swapped
    PROVE  FormsShow'
BY DEF FormsShow

LEMMA NobodyWaitsForNoOne == ASSUME BrowserAssumption PROVE NoOne \notin Dialogs
BY DEF BrowserAssumption, Dialogs, TaskDialogs

LEMMA QuietForDialogs ==
    ASSUME BrowserAssumption, NEW s \in Slots, QuietTurn(s), work' = work
    PROVE  DialogsRest(s)
BY NobodyWaitsForNoOne DEF QuietTurn, DialogsRest, Unattached, Waits, Submitted

\* The answer a dialog waited for.
LEMMA AnswerForDialogs ==
    ASSUME BrowserAssumption, BrowserTypeOK, NEW s \in Slots, net[s].kind \in {"list", "detail", "load", "people"},
           Elsewhere(s), net'[s].kind \in {"idle", "recipients"}, NEW w, w = LetGo(s),
           work'.dialog = w.dialog, work'.form = w.form, work'.busy = w.busy
    PROVE  DialogsRest(s)
<1>1. /\ w.form = work.form /\ w.dialog = work.dialog
      /\ \/ w.busy = work.busy
         \/ /\ w.busy = work.busy \ {net[s].about.for}
            /\ \A t \in Slots \ {s}: net[t] # Idle /\ net[t].kind \in {"list", "detail"} =>
                   net[t].about.for # net[s].about.for
    BY LetsGo
<1>2. Unattached(s)' /\ \A d \in Dialogs: ~Submitted(s, d)
    BY DEF Unattached, Waits, Submitted
<1> QED BY <1>1, <1>2 DEF DialogsRest

LEMMA QuietDialogs ==
    ASSUME BrowserAssumption, BrowserTypeOK, BrowserTypeOK', DialogsHold, net' = net \/ \E s \in Slots: QuietTurn(s),
           work' = work, past'.swapped = past.swapped
    PROVE  DialogsHold'
<1>1. CASE net' = net
    <2>1. DialogsHeld' /\ MeantForItsTask' /\ DialogWaits'
        BY <1>1 DEF DialogsHold, DialogsHeld, MeantForItsTask, DialogWaits, Waits, Submitted
    <2> QED BY <2>1, FormsAtRest DEF DialogsHold
<1>2. ASSUME NEW s \in Slots, QuietTurn(s) PROVE DialogsHold'
    BY <1>2, QuietForDialogs, DialogsAtRest, FormsAtRest DEF DialogsHold
<1> QED BY <1>1, <1>2

LEMMA SessionDialogs ==
    ASSUME BrowserAssumption, BrowserTypeOK, BrowserTypeOK', DialogsHold, SessionNext PROVE DialogsHold'
<1>1. work' = work
    BY DEF SessionNext, SubmitLogin, SubmitLogout, SubmitPassword, SessionEnds, LoginAnswered, LogoutAnswered, PasswordAnswered
<1>2. past'.swapped = past.swapped
    <2>1. ASSUME NEW s \in Slots, PasswordAnswered(s) PROVE past'.swapped = past.swapped
        BY <2>1, TakenUpIs DEF PasswordAnswered
    <2> QED BY <2>1 DEF SessionNext, SubmitLogin, SubmitLogout, SubmitPassword, SessionEnds, LoginAnswered, LogoutAnswered
<1> QED BY <1>1, <1>2, SessionTurns, QuietDialogs

LEMMA PanelDialogs ==
    ASSUME BrowserAssumption, BrowserTypeOK, BrowserTypeOK', DialogsHold, PanelsNext PROVE DialogsHold'
<1>1. CASE (\E p \in Panels: navigate(p)) \/ (\E s \in Slots: initializeApplication(s))
    BY <1>1, NavigationTurns, QuietDialogs
<1>2. ASSUME NEW s \in Slots, ListAnswered(s) PROVE DialogsHold'
    <2>1. DialogsRest(s)
        BY <1>2, SettlesIs, AnswerForDialogs DEF ListAnswered, Elsewhere
    <2>2. past'.swapped = past.swapped
        BY <1>2, ListedIs DEF ListAnswered
    <2>3. work'.task = work.task /\ work'.form = work.form /\ work'.dialog = work.dialog
        BY <1>2, LetsGo DEF ListAnswered
    <2> QED BY <2>1, <2>2, <2>3, DialogsAtRest, FormsAtRest DEF DialogsHold
<1>3. ASSUME NEW s \in Slots,
             DashboardAnswered(s) \/ NotificationsAnswered(s) \/ IntegrationsAnswered(s) \/ SystemAnswered(s)
      PROVE  DialogsHold'
    <2>1. /\ Elsewhere(s) /\ net[s].kind = "load" /\ net'[s].kind \in {"idle", "recipients"}
          /\ work' = LetGo(s) /\ past'.swapped = past.swapped
        BY <1>3, LoadTurns, LoadSettlesIs
    <2>2. DialogsRest(s)
        BY <2>1, AnswerForDialogs
    <2>3. work'.task = work.task /\ work'.form = work.form /\ work'.dialog = work.dialog
        BY <2>1, LetsGo
    <2> QED BY <2>1, <2>2, <2>3, DialogsAtRest, FormsAtRest DEF DialogsHold
<1>4. ASSUME NEW s \in Slots, KeysAnswered(s) PROVE DialogsHold'
    <2>1. DialogsRest(s) /\ work' = work
        BY <1>4, SettlesIs DEF KeysAnswered, DialogsRest, Elsewhere, Unattached, Waits, Submitted
    <2>2. past'.swapped = past.swapped
        BY <1>4, ListedIs DEF KeysAnswered
    <2> QED BY <2>1, <2>2, DialogsAtRest, FormsAtRest DEF DialogsHold
<1>5. ASSUME NEW i \in Integrations, OpenKeys(i) PROVE DialogsHold'
    <2>1. \E s \in Slots: DialogsRest(s)
        BY <1>5, SendsIs, CallsMade DEF OpenKeys, DialogsRest, Elsewhere, Unattached, Waits, Submitted
    <2> QED BY <1>5, <2>1, DialogsAtRest, FormsAtRest DEF DialogsHold, OpenKeys
<1> QED BY <1>1, <1>2, <1>3, <1>4, <1>5 DEF PanelsNext

\* A dialog may open only when there is none, so no change is under way.
LEMMA OpenedDialogs ==
    ASSUME BrowserAssumption, BrowserTypeOK, DialogsHold, work.dialog = NoOne, NEW d \in Dialogs, NEW t \in Tasks \cup {NoOne},
           d \in TaskDialogs => t = work.task, d = "create" => t = NoOne, Opens(d, t)
    PROVE  DialogsHold'
<1>1. \A s \in Slots: net[s].kind # "change"
    BY ChangeIsSubmitted, NobodyWaitsForNoOne DEF DialogsHold, DialogWaits
<1>2. net' = net /\ work'.busy = work.busy /\ work'.dialog = d /\ work'.form = t /\ work'.task = work.task
    BY OpensIs
<1>3. DialogsHeld' /\ MeantForItsTask' /\ DialogWaits'
    BY <1>1, <1>2 DEF DialogsHold, DialogsHeld, MeantForItsTask, DialogWaits, Waits, Submitted
<1>4. FormsShow'
    BY <1>2 DEF FormsShow
<1> QED BY <1>3, <1>4 DEF DialogsHold

LEMMA CreationDialogs ==
    ASSUME BrowserAssumption, BrowserTypeOK, BrowserTypeOK', DialogsHold, CreationNext PROVE DialogsHold'
<1>1. ASSUME NEW f \in Filters, ChangeFilter(f) PROVE DialogsHold'
    <2>1. \E s \in Slots: DialogsRest(s)
        <3>1. PICK s \in Slots: /\ net[s].kind = "idle" /\ net'[s].kind = "list"
                                /\ net'[s].about = [filter |-> f, for |-> NoOne] /\ Elsewhere(s)
            BY <1>1, SendsIs, CallsMade DEF ChangeFilter, Elsewhere
        <3>2. Unattached(s)' /\ \A d \in Dialogs: ~Submitted(s, d)
            BY <3>1, NobodyWaitsForNoOne DEF Unattached, Waits, Submitted
        <3> QED BY <1>1, <3>1, <3>2 DEF DialogsRest, ChangeFilter
    <2> QED BY <1>1, <2>1, DialogsAtRest, FormsAtRest DEF DialogsHold, ChangeFilter
<1>2. CASE OpenCreate
    BY <1>2, OpenedDialogs DEF OpenCreate, Reaches, Dialogs, TaskDialogs
<1>3. CASE CloseDialog
    <2>1. net' = net /\ work'.busy = work.busy /\ past' = past /\ work.dialog \notin work.busy
          /\ work'.dialog = NoOne /\ work'.form = NoOne
        BY <1>3 DEF CloseDialog, Held, BrowserTypeOK, WorkStates
    <2>2. \A s \in Slots: net[s].kind # "change"
        BY <2>1, ChangeIsSubmitted DEF DialogsHold, DialogWaits, DialogsHeld
    <2>3. DialogsHeld' /\ MeantForItsTask' /\ DialogWaits'
        BY <2>1, <2>2 DEF DialogsHold, DialogsHeld, MeantForItsTask, DialogWaits, Waits, Submitted
    <2>4. FormsShow'
        BY <2>1, NobodyWaitsForNoOne DEF FormsShow, Dialogs
    <2> QED BY <2>3, <2>4 DEF DialogsHold
<1>4. CASE SubmitDialog
    <2> DEFINE w == [dialog |-> work.dialog, form |-> work.form,
                     task |-> IF work.dialog = "create" THEN NoOne ELSE work.task, swapped |-> past.swapped]
    <2>1. work.dialog \in Dialogs \ {"administrator"} /\ work.dialog \notin work.busy
        BY <1>4 DEF SubmitDialog, Dialogs, TaskDialogs
    <2>2. PICK s \in Slots: net[s] = Idle /\ net' = [net EXCEPT ![s] = Call("change", w)]
        BY <1>4 DEF SubmitDialog, Sends
    <2>3. /\ Elsewhere(s) /\ net'[s].kind = "change" /\ net'[s].about = w /\ net[s].kind = "idle"
        BY <2>2 DEF BrowserTypeOK, Elsewhere, Call, Idle
    <2>4. work'.busy = work.busy \cup {work.dialog} /\ work'.dialog = work.dialog /\ work'.form = work.form
          /\ work'.task = work.task /\ past' = past
        BY <1>4 DEF SubmitDialog, BrowserTypeOK, WorkStates
    <2>5. \A t \in Slots: ~Submitted(t, work.dialog) /\ ~Waits(t, work.dialog)
        BY <2>1 DEF DialogsHold, DialogsHeld
    <2>6. \A d \in Dialogs: (Submitted(s, d)' <=> d = work.dialog) /\ ~Waits(s, d)'
        BY <2>3 DEF Submitted, Waits
    <2>7. \A t \in Slots \ {s}, d \in Dialogs: /\ Submitted(t, d)' <=> Submitted(t, d)
                                               /\ Waits(t, d)' <=> Waits(t, d)
                                               /\ net'[t] = net[t]
        BY <2>3 DEF Elsewhere, Submitted, Waits
    <2>8. DialogsHeld'
        <3> SUFFICES ASSUME NEW t \in Slots, NEW d \in Dialogs
                     PROVE  /\ Submitted(t, d)' => d \in work'.busy /\ \A u \in Slots \ {t}: ~Submitted(u, d)' /\ ~Waits(u, d)'
                            /\ Waits(t, d)' => /\ d \in work'.busy
                                               /\ \A u \in Slots \ {t}: Waits(u, d)' => net'[t].kind \in {"list", "detail"}
            BY DEF DialogsHeld
        <3>1. CASE t = s
            BY <2>4, <2>5, <2>6, <2>7, <3>1
        <3>2. CASE t # s
            BY <2>4, <2>5, <2>6, <2>7, <3>2 DEF DialogsHold, DialogsHeld
        <3> QED BY <3>1, <3>2
    <2>9. \A t \in Slots: net[t].kind # "change"
        BY <2>5, ChangeIsSubmitted DEF DialogsHold, DialogWaits
    <2>10. DialogWaits'
        BY <2>3, <2>4, <2>7, <2>9 DEF DialogWaits, Elsewhere
    <2>11. MeantForItsTask'
        <3>1. net'[s].about.swapped \/ net'[s].about.task = net'[s].about.form
            BY <2>1, <2>3 DEF DialogsHold, FormsShow, Dialogs
        <3> QED BY <2>3, <2>9, <3>1 DEF MeantForItsTask, Elsewhere
    <2> QED BY <2>4, <2>8, <2>10, <2>11, FormsAtRest DEF DialogsHold
<1>5. ASSUME NEW s \in Slots, ChangeFailed(s) PROVE DialogsHold'
    <2> DEFINE d == net[s].about.dialog
    <2>1. net[s].kind = "change" /\ d \in Dialogs \ {"administrator"} /\ Submitted(s, d) /\ d \in work.busy
          /\ \A t \in Slots \ {s}: ~Submitted(t, d) /\ ~Waits(t, d)
        BY <1>5, ChangeIsSubmitted DEF ChangeFailed, DialogsHold, DialogsHeld
    <2>2. work'.busy = work.busy \ {d} /\ work'.dialog = work.dialog /\ work'.form = work.form
          /\ work'.task = work.task /\ past' = past
        BY <1>5 DEF ChangeFailed, BrowserTypeOK, WorkStates
    <2>3. Elsewhere(s) /\ net'[s].kind = "idle"
        BY <1>5, SettlesIs DEF ChangeFailed, Elsewhere
    <2> HIDE DEF d
    <2>4. DialogsHeld' /\ MeantForItsTask' /\ DialogWaits'
        BY <2>1, <2>2, <2>3 DEF DialogsHold, DialogsHeld, MeantForItsTask, DialogWaits, Waits, Submitted, Elsewhere
    <2> QED BY <2>2, <2>4, FormsAtRest DEF DialogsHold
<1>6. ASSUME NEW s \in Slots, CreateDone(s) PROVE DialogsHold'
    <2>1. /\ net[s].kind = "change" /\ net[s].about.dialog = "create" /\ Elsewhere(s)
          /\ net'[s].kind \in {"list", "load"} /\ net'[s].about.for = "create"
          /\ work' = Closed("create") /\ past' = past
        BY <1>6, CreateTurns
    <2>2. Submitted(s, "create") /\ "create" \in Dialogs
        BY <2>1 DEF Submitted, Dialogs
    <2>3. "create" \in work.busy /\ \A t \in Slots \ {s}: ~Submitted(t, "create") /\ ~Waits(t, "create")
        BY <2>2 DEF DialogsHold, DialogsHeld
    <2>4. \A t \in Slots \ {s}: net[t].kind # "change"
        BY <2>1, <2>3, ChangeIsSubmitted DEF DialogsHold, DialogWaits
    <2>5. work'.busy = work.busy /\ work'.dialog = NoOne /\ work'.form = NoOne
        BY <2>1, DialogCloses DEF DialogsHold, DialogWaits
    <2>6. DialogsHeld'
        BY <2>1, <2>3, <2>5 DEF DialogsHold, DialogsHeld, Waits, Submitted, Elsewhere
    <2>7. MeantForItsTask' /\ DialogWaits'
        BY <2>1, <2>4 DEF MeantForItsTask, DialogWaits, Elsewhere
    <2>8. FormsShow'
        BY <2>5, NobodyWaitsForNoOne DEF FormsShow, Dialogs
    <2> QED BY <2>6, <2>7, <2>8 DEF DialogsHold
<1> QED BY <1>1, <1>2, <1>3, <1>4, <1>5, <1>6 DEF CreationNext

LEMMA TaskDialogsStep ==
    ASSUME BrowserAssumption, BrowserTypeOK, BrowserTypeOK', DialogsHold, TasksNext PROVE DialogsHold'
<1>1. ASSUME NEW t \in Tasks, openTaskDetail(t) PROVE DialogsHold'
    <2>1. PICK s \in Slots: net[s] = Idle /\ net' = [net EXCEPT ![s] = AskDetail(t, NoOne)]
        BY <1>1 DEF openTaskDetail
    <2>2. Elsewhere(s) /\ net[s].kind = "idle" /\ net'[s].kind = "detail" /\ net'[s].about = [task |-> t, for |-> NoOne]
        BY <2>1 DEF BrowserTypeOK, Elsewhere, AskDetail, Call, Idle
    <2>3. Unattached(s)' /\ \A d \in Dialogs: ~Submitted(s, d)
        BY <2>2, NobodyWaitsForNoOne DEF Unattached, Waits, Submitted
    <2>4. work'.busy = work.busy /\ work'.dialog = work.dialog /\ work'.form = work.form
          /\ work'.task = work.task /\ past' = past
        BY <1>1 DEF openTaskDetail, BrowserTypeOK, WorkStates
    <2> QED BY <2>2, <2>3, <2>4, DialogsAtRest, FormsAtRest DEF DialogsHold, DialogsRest
<1>2. CASE closeTaskDetail
    <2>1. net' = net /\ work.dialog = NoOne /\ work'.busy = work.busy /\ work'.dialog = work.dialog /\ work'.form = work.form
        BY <1>2 DEF closeTaskDetail, Reaches, BrowserTypeOK, WorkStates
    <2>2. DialogsHeld' /\ MeantForItsTask' /\ DialogWaits'
        BY <2>1 DEF DialogsHold, DialogsHeld, MeantForItsTask, DialogWaits, Waits, Submitted
    <2> QED BY <2>1, <2>2, NobodyWaitsForNoOne DEF DialogsHold, FormsShow, Dialogs
<1>3. CASE OpenEdit \/ OpenStatus \/ OpenCancel
    <2>1. work.task \in Tasks \cup {NoOne} /\ {"edit", "status", "cancel"} \subseteq Dialogs \ {"create"}
        BY DEF BrowserTypeOK, WorkStates, Dialogs, TaskDialogs
    <2> QED BY <1>3, <2>1, OpenedDialogs DEF OpenEdit, OpenStatus, OpenCancel, Reaches
<1>4. ASSUME NEW s \in Slots, DetailAnswered(s) PROVE DialogsHold'
    <2>1. PICK answer \in Answers(s), task \in {NoOne, net[s].about.task}:
              /\ work' = [LetGo(s) EXCEPT !.task = task]
              /\ past' = [past EXCEPT !.swapped = @ \/ (work.dialog # NoOne /\ task # work.task)]
        BY <1>4 DEF DetailAnswered
    <2>2. /\ LetGo(s) \in WorkStates /\ LetGo(s).dialog = work.dialog /\ LetGo(s).form = work.form
        BY LetsGo
    <2>3. work'.task = task /\ work'.dialog = LetGo(s).dialog /\ work'.form = LetGo(s).form /\ work'.busy = LetGo(s).busy
        <3> HIDE DEF LetGo
        <3> QED BY <2>1, <2>2 DEF WorkStates
    <2>4. past'.swapped <=> past.swapped \/ (work.dialog # NoOne /\ task # work.task)
        BY <2>1 DEF BrowserTypeOK, Histories
    <2>5. net[s].kind = "detail" /\ Elsewhere(s) /\ net'[s].kind = "idle"
        BY <1>4, SettlesIs DEF DetailAnswered, Elsewhere
    <2>6. DialogsRest(s)
        BY <2>3, <2>5, AnswerForDialogs
    <2>7. FormsShow'
        BY <2>2, <2>3, <2>4, NobodyWaitsForNoOne DEF DialogsHold, FormsShow, Dialogs
    <2> QED BY <2>6, <2>7, DialogsAtRest DEF DialogsHold
<1>5. ASSUME NEW s \in Slots, ChangeDone(s) PROVE DialogsHold'
    <2>1. PICK d: d = net[s].about.dialog
        OBVIOUS
    <2>2. /\ net[s].kind = "change" /\ d \in TaskDialogs
          /\ net'[s].kind = "list" /\ net'[s].about.for = d
          /\ work'.dialog = (IF work.dialog = d THEN NoOne ELSE work.dialog)
          /\ work'.form = (IF work.dialog = d THEN NoOne ELSE work.form)
          /\ work'.busy = work.busy
        BY <1>5, <2>1, ChangeTurns
    <2>3. PICK t \in Slots \ {s}: /\ net[t].kind = "idle" /\ net'[t].kind = "detail" /\ net'[t].about.for = d
                                  /\ \A u \in Slots \ {s, t}: net'[u] = net[u]
        BY <1>5, <2>1, ChangeTurns
    <2>4. Submitted(s, d) /\ d \in Dialogs
        BY <2>1, <2>2 DEF Submitted, Dialogs
    <2>5. d \in work.busy /\ \A u \in Slots \ {s}: ~Submitted(u, d) /\ ~Waits(u, d)
        BY <2>4 DEF DialogsHold, DialogsHeld
    <2>6. \A u \in Slots \ {s}: net[u].kind # "change"
        BY <2>1, <2>2, <2>5, ChangeIsSubmitted DEF DialogsHold, DialogWaits
    <2>7. work'.dialog = NoOne
        BY <2>1, <2>2 DEF DialogsHold, DialogWaits
    <2>8. \A u \in Slots, e \in Dialogs: /\ Submitted(u, e)' => u \notin {s, t} /\ Submitted(u, e)
                                         /\ Waits(u, e)' => /\ u \in {s, t} => e = d /\ net'[u].kind \in {"list", "detail"}
                                                            /\ u \notin {s, t} => Waits(u, e) /\ net'[u] = net[u]
        BY <2>2, <2>3 DEF Submitted, Waits
    <2>9. DialogsHeld'
        <3> SUFFICES ASSUME NEW u \in Slots, NEW e \in Dialogs
                     PROVE  /\ Submitted(u, e)' => e \in work'.busy /\ \A v \in Slots \ {u}: ~Submitted(v, e)' /\ ~Waits(v, e)'
                            /\ Waits(u, e)' => /\ e \in work'.busy
                                               /\ \A v \in Slots \ {u}: Waits(v, e)' => net'[u].kind \in {"list", "detail"}
            BY DEF DialogsHeld
        <3>1. CASE Submitted(u, e)'
            <4>1. u \notin {s, t} /\ Submitted(u, e) /\ ~Waits(u, e)'
                BY <2>8, <3>1 DEF Submitted, Waits
            <4>2. e \in work.busy /\ e # d /\ \A v \in Slots \ {u}: ~Submitted(v, e) /\ ~Waits(v, e)
                BY <2>5, <4>1 DEF DialogsHold, DialogsHeld
            <4> QED BY <2>2, <2>8, <4>1, <4>2
        <3>2. CASE Waits(u, e)' /\ u \in {s, t}
            <4>1. ~Submitted(u, e)'
                BY <2>8, <3>2
            <4> QED BY <2>2, <2>5, <2>8, <3>2, <4>1
        <3>3. CASE Waits(u, e)' /\ u \notin {s, t}
            <4>1. Waits(u, e) /\ net'[u] = net[u] /\ ~Submitted(u, e)'
                BY <2>8, <3>3 DEF Submitted, Waits
            <4>2. e \in work.busy /\ e # d /\ \A v \in Slots \ {u}: Waits(v, e) => net[u].kind \in {"list", "detail"}
                BY <2>5, <3>3, <4>1 DEF DialogsHold, DialogsHeld
            <4> QED BY <2>2, <2>8, <4>1, <4>2
        <3> QED BY <3>1, <3>2, <3>3
    <2>10. MeantForItsTask' /\ DialogWaits'
        BY <2>2, <2>3, <2>6 DEF MeantForItsTask, DialogWaits
    <2>11. FormsShow'
        BY <2>7, NobodyWaitsForNoOne DEF FormsShow, Dialogs
    <2> QED BY <2>9, <2>10, <2>11 DEF DialogsHold
<1> QED BY <1>1, <1>2, <1>3, <1>4, <1>5, CreationDialogs DEF TasksNext

\* Nothing about the dialogs of tasks or of administrators changes with the people listed.
LEMMA PeopleDialogs ==
    ASSUME BrowserAssumption, BrowserTypeOK, BrowserTypeOK', DialogsHold, PeopleNext PROVE DialogsHold'
<1> DEFINE asked(d) == Call("people", [search |-> lists.search, for |-> d])
<1>1. \A d \in {NoOne, "administrator"}: asked(d) \in PageCalls
    <2>1. lists.search \in Searches
        BY DEF BrowserTypeOK, Contents
    <2> QED BY <2>1, CallsMade
<1>2. ASSUME NEW s \in Slots, DialogsRest(s), work'.task = work.task, past'.swapped = past.swapped PROVE DialogsHold'
    <2>1. work'.dialog = work.dialog /\ work'.form = work.form
        BY <1>2 DEF DialogsRest
    <2> QED BY <1>2, <2>1, DialogsAtRest, FormsAtRest DEF DialogsHold
<1>3. ASSUME net' = net, work' = work, past'.swapped = past.swapped PROVE DialogsHold'
    BY <1>3, QuietDialogs
<1>4. ASSUME NEW s \in Slots, net'[s].kind = "people", net'[s].about.for = NoOne, Elsewhere(s),
             net[s].kind \in {"idle", "context"}, work' = work
      PROVE  DialogsRest(s)
    BY <1>4, NobodyWaitsForNoOne DEF DialogsRest, Unattached, Waits, Submitted
<1>5. ASSUME NEW q \in Searches, TypeSearch(q) PROVE DialogsHold'
    BY <1>3, <1>5 DEF TypeSearch
<1>6. ASSUME NEW append \in BOOLEAN, loadUsers(append) PROVE DialogsHold'
    <2>1. Sends("people", [search |-> lists.search, for |-> NoOne]) /\ work' = work
        BY <1>6 DEF loadUsers
    <2>2. PICK s \in Slots: /\ net[s].kind = "idle" /\ net'[s].kind = "people" /\ Elsewhere(s)
                            /\ net'[s].about = [search |-> lists.search, for |-> NoOne]
        BY <1>1, <2>1, SendsIs DEF Elsewhere
    <2>3. past'.swapped = past.swapped
        BY <1>6 DEF loadUsers, BrowserTypeOK, Histories
    <2> QED BY <1>2, <1>4, <2>1, <2>2, <2>3
<1>7. CASE GrantLogin
    <2>1. Sends("secret", "login") /\ work' = work /\ past'.swapped = past.swapped
        BY <1>7, AsksIs DEF GrantLogin
    <2>2. PICK s \in Slots: net[s].kind = "idle" /\ net'[s].kind = "secret" /\ net'[s].about = "login" /\ Elsewhere(s)
        BY <2>1, SendsIs, CallsMade DEF Elsewhere
    <2>3. DialogsRest(s)
        BY <2>1, <2>2 DEF DialogsRest, Unattached, Waits, Submitted, Dialogs, TaskDialogs
    <2> QED BY <1>2, <2>1, <2>3
<1>8. CASE OpenAdministrator
    BY <1>8, OpenedDialogs DEF OpenAdministrator, Reaches, Dialogs, TaskDialogs
<1>9. CASE SubmitAdministrator
    <2>1. Sends("secret", "administrator") /\ past'.swapped = past.swapped
        BY <1>9, AsksIs DEF SubmitAdministrator
    <2>2. PICK s \in Slots: net[s].kind = "idle" /\ net'[s].kind = "secret" /\ net'[s].about = "administrator" /\ Elsewhere(s)
        BY <2>1, SendsIs, CallsMade DEF Elsewhere
    <2>3. work'.busy = work.busy \cup {"administrator"} /\ work'.dialog = work.dialog /\ work'.form = work.form
          /\ work'.task = work.task /\ "administrator" \notin work.busy
        BY <1>9 DEF SubmitAdministrator, BrowserTypeOK, WorkStates
    <2>4. \A t \in Slots: ~Submitted(t, "administrator") /\ ~Waits(t, "administrator")
        BY <2>3 DEF DialogsHold, DialogsHeld, Dialogs
    <2>5. \A d \in Dialogs: (Submitted(s, d)' <=> d = "administrator") /\ ~Waits(s, d)'
        BY <2>2 DEF Submitted, Waits
    <2>6. \A t \in Slots \ {s}, d \in Dialogs: /\ Submitted(t, d)' <=> Submitted(t, d)
                                               /\ Waits(t, d)' <=> Waits(t, d)
                                               /\ net'[t] = net[t]
        BY <2>2 DEF Elsewhere, Submitted, Waits
    <2>7. DialogsHeld'
        <3> SUFFICES ASSUME NEW t \in Slots, NEW d \in Dialogs
                     PROVE  /\ Submitted(t, d)' => d \in work'.busy /\ \A u \in Slots \ {t}: ~Submitted(u, d)' /\ ~Waits(u, d)'
                            /\ Waits(t, d)' => /\ d \in work'.busy
                                               /\ \A u \in Slots \ {t}: Waits(u, d)' => net'[t].kind \in {"list", "detail"}
            BY DEF DialogsHeld
        <3>1. CASE t = s
            BY <2>3, <2>4, <2>5, <2>6, <3>1
        <3>2. CASE t # s
            BY <2>3, <2>4, <2>5, <2>6, <3>2 DEF DialogsHold, DialogsHeld
        <3> QED BY <3>1, <3>2
    <2>8. MeantForItsTask' /\ DialogWaits'
        BY <2>2, <2>3 DEF DialogsHold, MeantForItsTask, DialogWaits, Elsewhere
    <2> QED BY <2>1, <2>3, <2>7, <2>8, FormsAtRest DEF DialogsHold
<1>10. CASE TickSaved \/ CloseSecret
    <2>1. net' = net /\ work' = work /\ past'.swapped = past.swapped
        BY <1>10 DEF TickSaved, CloseSecret, BrowserTypeOK, Histories
    <2> QED BY <1>3, <2>1
<1>11. ASSUME NEW s \in Slots, ContextAnswered(s) PROVE DialogsHold'
    <2>1. net[s].kind = "context" /\ Follows(s, "people", [search |-> lists.search, for |-> NoOne])
          /\ work' = work /\ past' = past
        BY <1>11 DEF ContextAnswered
    <2>2. net'[s].kind = "people" /\ Elsewhere(s) /\ net'[s].about = [search |-> lists.search, for |-> NoOne]
        BY <1>1, <2>1, FollowsIs DEF Elsewhere
    <2> QED BY <1>2, <1>4, <2>1, <2>2
<1>12. ASSUME NEW s \in Slots, PeopleAnswered(s) PROVE DialogsHold'
    <2>1. DialogsRest(s)
        BY <1>12, SettlesIs, AnswerForDialogs DEF PeopleAnswered, Elsewhere
    <2>2. past'.swapped = past.swapped
        BY <1>12, ListedIs DEF PeopleAnswered
    <2>3. work'.task = work.task
        BY <1>12, LetsGo DEF PeopleAnswered
    <2> QED BY <1>2, <2>1, <2>2, <2>3
<1>13. ASSUME NEW s \in Slots, SecretAnswered(s) PROVE DialogsHold'
    <2> DEFINE from == net[s].about
               d == IF from = "administrator" THEN from ELSE NoOne
    <2>1. net[s].kind = "secret" /\ from \in {"login", "administrator"}
        BY <1>13, CallFields DEF SecretAnswered, BrowserTypeOK
    <2>2. past'.swapped = past.swapped
        <3>1. past' = [past EXCEPT !.issued = past.issued + 1] \/ past' = past
            BY <1>13 DEF SecretAnswered
        <3> QED BY <3>1 DEF BrowserTypeOK, Histories
    <2>3. from = "administrator" =>
              "administrator" \in work.busy /\ \A t \in Slots \ {s}: ~Submitted(t, "administrator") /\ ~Waits(t, "administrator")
        BY <2>1 DEF DialogsHold, DialogsHeld, Submitted, Dialogs
    <2>4. \A t \in Slots: net[t].kind = "change" => net[t].about.dialog # "administrator" /\ t # s
        BY <2>1, ChangeIsSubmitted
    <2>5. d \in {NoOne, "administrator"} /\ (d = NoOne <=> from = "login")
        BY <2>1 DEF BrowserAssumption
    <2>6. CASE /\ work' = IF d = NoOne THEN work ELSE Closed(d)
               /\ Follows(s, "people", [search |-> lists.search, for |-> d])
        <3> HIDE DEF d
        <3>1. net'[s].kind = "people" /\ Elsewhere(s) /\ net'[s].about = [search |-> lists.search, for |-> d]
            BY <1>1, <2>5, <2>6, FollowsIs DEF Elsewhere
        <3>2. CASE d = NoOne
            <4>1. DialogsRest(s)
                BY <2>1, <2>5, <2>6, <3>1, <3>2, NobodyWaitsForNoOne
                   DEF DialogsRest, Unattached, Waits, Submitted, Dialogs, TaskDialogs
            <4> QED BY <1>2, <2>2, <2>6, <3>2, <4>1
        <3>3. CASE d = "administrator"
            <4>1. d # NoOne /\ from = "administrator"
                BY <2>1, <2>5, <3>3 DEF BrowserAssumption
            <4>2. /\ work'.task = work.task /\ work'.busy = work.busy
                  /\ IF work.dialog = d THEN work'.dialog = NoOne /\ work'.form = NoOne
                     ELSE work'.dialog = work.dialog /\ work'.form = work.form
                BY <2>6, <4>1, DialogCloses
            <4>3. DialogsHeld'
                <5>1. \A e \in Dialogs: (Waits(s, e)' <=> e = "administrator") /\ ~Submitted(s, e)'
                    BY <3>1, <3>3 DEF Submitted, Waits
                <5>2. \A t \in Slots \ {s}, e \in Dialogs: /\ Submitted(t, e)' <=> Submitted(t, e)
                                                           /\ Waits(t, e)' <=> Waits(t, e)
                                                           /\ net'[t] = net[t]
                    BY <3>1 DEF Elsewhere, Submitted, Waits
                <5> SUFFICES ASSUME NEW t \in Slots, NEW e \in Dialogs
                             PROVE  /\ Submitted(t, e)' =>
                                          e \in work'.busy /\ \A u \in Slots \ {t}: ~Submitted(u, e)' /\ ~Waits(u, e)'
                                    /\ Waits(t, e)' =>
                                          /\ e \in work'.busy
                                          /\ \A u \in Slots \ {t}: Waits(u, e)' => net'[t].kind \in {"list", "detail"}
                    BY DEF DialogsHeld
                <5>3. CASE t = s
                    BY <2>3, <4>1, <4>2, <5>1, <5>2, <5>3
                <5>4. CASE t # s
                    BY <2>3, <4>1, <4>2, <5>1, <5>2, <5>4 DEF DialogsHold, DialogsHeld
                <5> QED BY <5>3, <5>4
            <4>4. \A t \in Slots: net'[t].kind = "change" =>
                      t # s /\ net'[t] = net[t] /\ work'.dialog = work.dialog /\ work'.form = work.form
                BY <2>4, <3>1, <3>3, <4>2 DEF Elsewhere, DialogsHold, DialogWaits
            <4>5. MeantForItsTask' /\ DialogWaits'
                BY <4>4 DEF DialogsHold, MeantForItsTask, DialogWaits
            <4>6. FormsShow'
                BY <2>2, <4>2, NobodyWaitsForNoOne DEF DialogsHold, FormsShow, Dialogs
            <4> QED BY <4>3, <4>5, <4>6 DEF DialogsHold
        <3> QED BY <2>5, <3>2, <3>3
    <2>7. CASE work' = [work EXCEPT !.busy = @ \ {from}] /\ Settles(s)
        <3>1. work'.busy = work.busy \ {from} /\ work'.dialog = work.dialog /\ work'.form = work.form /\ work'.task = work.task
            BY <2>7 DEF BrowserTypeOK, WorkStates
        <3>2. Elsewhere(s) /\ net'[s].kind = "idle"
            BY <2>7, SettlesIs DEF Elsewhere
        <3>3. \A t \in Slots, e \in Dialogs: /\ Submitted(t, e)' => t # s /\ Submitted(t, e) /\ e # from
                                             /\ Waits(t, e)' => t # s /\ Waits(t, e) /\ e # from /\ net'[t] = net[t]
            <4>1. \A t \in Slots, e \in Dialogs: /\ Submitted(t, e)' => t # s /\ Submitted(t, e)
                                                 /\ Waits(t, e)' => t # s /\ Waits(t, e) /\ net'[t] = net[t]
                BY <3>2 DEF Elsewhere, Submitted, Waits
            <4>2. "login" \notin Dialogs
                BY DEF Dialogs, TaskDialogs
            <4> QED BY <2>1, <2>3, <4>1, <4>2
        <3>4. DialogsHeld'
            <4> SUFFICES ASSUME NEW t \in Slots, NEW e \in Dialogs
                         PROVE  /\ Submitted(t, e)' =>
                                      e \in work'.busy /\ \A u \in Slots \ {t}: ~Submitted(u, e)' /\ ~Waits(u, e)'
                                /\ Waits(t, e)' =>
                                      /\ e \in work'.busy
                                      /\ \A u \in Slots \ {t}: Waits(u, e)' => net'[t].kind \in {"list", "detail"}
                BY DEF DialogsHeld
            <4> QED BY <3>1, <3>3 DEF DialogsHold, DialogsHeld
        <3>5. MeantForItsTask' /\ DialogWaits'
            BY <3>1, <3>2 DEF DialogsHold, MeantForItsTask, DialogWaits, Elsewhere
        <3> QED BY <2>2, <3>1, <3>4, <3>5, FormsAtRest DEF DialogsHold
    <2> QED BY <1>13, <2>6, <2>7 DEF SecretAnswered
<1> QED BY <1>5, <1>6, <1>7, <1>8, <1>9, <1>10, <1>11, <1>12, <1>13 DEF PeopleNext

LEMMA DialogsStep == ASSUME BrowserAssumption, BrowserTypeOK, DialogsHold, [BrowserNext]_browserVars PROVE DialogsHold'
<1>1. BrowserTypeOK'
    BY BrowserTypes
<1>2. CASE UNCHANGED browserVars
    BY <1>1, <1>2, QuietDialogs DEF browserVars
<1>3. CASE TestNext
    BY <1>1, <1>3, TestTurns, QuietDialogs
<1> QED BY <1>1, <1>2, <1>3, SessionDialogs, PanelDialogs, TaskDialogsStep, PeopleDialogs DEF BrowserNext

------------------------------------------------------------------------------
(* Lists *)

Listing == {"list", "keys", "people"}

\* Calls for lists that come and go leave the lists answering the same questions.
ListsRest(s) ==
    /\ \A t \in Slots \ {s}: net'[t] = net[t] \/ (net[t].kind \notin Listing /\ net'[t].kind \notin Listing)
    /\ past.crossed => past'.crossed
    /\ past'.crossed \/ net[s].kind \notin Listing \/ (Alone(s, net[s].kind) /\ net'[s].kind \notin Listing)

\* What is listed, and what the new call in s asks for.
ContentsRest ==
    /\ lists'.filter = lists.filter /\ lists'.rows \in {NoOne, lists.rows}
    /\ lists'.keys.rows = lists.keys.rows /\ lists'.keys.title \in {NoOne, lists.keys.title}
    /\ lists'.people \in {{}, lists.people}

LEMMA LoneCallsAtRest ==
    ASSUME BrowserTypeOK, BrowserTypeOK', ListsHold, NEW s \in Slots, ListsRest(s),
           lists'.filter = lists.filter \/ net'[s].kind = "list",
           lists'.keys.title \in {NoOne, lists.keys.title} \/ net'[s].kind = "keys",
           lists'.people \in {{}, lists.people} \/ net[s].kind = "people",
           past'.crossed \/ \E q \in Searches: lists'.people \subseteq {q},
           net'[s].kind = "list" => net'[s].about.filter = lists'.filter,
           net'[s].kind = "keys" => lists'.keys.title \in {NoOne, net'[s].about},
           net'[s].kind = "people" => past'.crossed \/ lists'.people \subseteq {net'[s].about.search}
    PROVE  LoneCallsFit'
<1> SUFFICES ASSUME ~past'.crossed, NEW t \in Slots
             PROVE  /\ Alone(t, "list")' => net'[t].about.filter = lists'.filter
                    /\ Alone(t, "keys")' => lists'.keys.title \in {NoOne, net'[t].about}
                    /\ Alone(t, "people")' => lists'.people \subseteq {net'[t].about.search}
    BY DEF LoneCallsFit
<1>1. CASE t = s
    BY <1>1 DEF Alone
<1>2. CASE t # s
    <2>1. \A k \in Listing: Alone(t, k)' => Alone(t, k) /\ net'[t] = net[t] /\ net'[s].kind # k /\ net[s].kind # k
        <3> SUFFICES ASSUME NEW k \in Listing, Alone(t, k)'
                     PROVE  Alone(t, k) /\ net'[t] = net[t] /\ net'[s].kind # k /\ net[s].kind # k
            OBVIOUS
        <3>1. net'[t].kind = k /\ \A u \in Slots \ {t}: net'[u].kind # k
            BY DEF Alone
        <3>2. net'[t] = net[t] /\ net'[s].kind # k
            BY <1>2, <3>1 DEF ListsRest
        <3>3. net[s].kind # k
            BY <1>2, <3>1, <3>2 DEF ListsRest, Alone
        <3>4. \A u \in Slots \ {t}: net[u].kind # k
            BY <3>1, <3>3 DEF ListsRest
        <3> QED BY <3>1, <3>2, <3>3, <3>4 DEF Alone
    <2>2. ~past.crossed
        BY DEF ListsRest
    <2> QED BY <1>2, <2>1, <2>2 DEF ListsHold, LoneCallsFit, Listing
<1> QED BY <1>1, <1>2

\* Whatever is a part of one search is one at most.
LEMMA OneAtMost == ASSUME NEW S, NEW q, S \subseteq {q} PROVE Cardinality(S) <= 1
<1>1. CASE S = {}
    BY <1>1, FS_EmptySet
<1>2. CASE S = {q}
    <2>1. Cardinality({q}) = 1
        BY FS_Singleton
    <2> QED BY <1>2, <2>1
<1> QED BY <1>1, <1>2

LEMMA ListsAnew ==
    ASSUME LoneCallsFit',
           past'.crossed \/ /\ lists'.rows \in {NoOne, lists'.filter}
                            /\ lists'.keys.title # NoOne => lists'.keys.rows \in {NoOne, lists'.keys.title}
    PROVE  ListsHold'
<1>1. ASSUME ~past'.crossed PROVE Cardinality(lists'.people) <= 1
    <2>1. PICK q \in Searches: lists'.people \subseteq {q}
        BY <1>1 DEF LoneCallsFit
    <2> QED BY <2>1, OneAtMost
<1> QED BY <1>1 DEF ListsHold, ListsAnswerTheQuestion

LEMMA ListsAtRest ==
    ASSUME BrowserTypeOK, BrowserTypeOK', ListsHold, NEW s \in Slots, ListsRest(s), ContentsRest,
           net'[s].kind = "list" => net'[s].about.filter = lists'.filter,
           net'[s].kind # "keys",
           net'[s].kind = "people" => past'.crossed \/ lists'.people \subseteq {net'[s].about.search}
    PROVE  ListsHold'
<1>1. past'.crossed \/ \E q \in Searches: lists'.people \subseteq {q}
    BY DEF ListsHold, LoneCallsFit, ListsRest, ContentsRest
<1>2. LoneCallsFit'
    BY <1>1, LoneCallsAtRest DEF ContentsRest
<1>3. past'.crossed \/ /\ lists'.rows \in {NoOne, lists'.filter}
                       /\ lists'.keys.title # NoOne => lists'.keys.rows \in {NoOne, lists'.keys.title}
    BY DEF ListsHold, ListsAnswerTheQuestion, ContentsRest, ListsRest
<1> QED BY <1>2, <1>3, ListsAnew

LEMMA ContentsAtRest ==
    ASSUME BrowserTypeOK, lists' = lists \/ \E p \in Panels: lists' = Emptied(p) PROVE ContentsRest
BY EmptiedIs DEF ContentsRest

\* No call comes or goes, or only such as bring no list.
LEMMA ListsStill ==
    ASSUME ListsHold, net' = net, past'.crossed = past.crossed, ContentsRest PROVE ListsHold'
<1>1. LoneCallsFit'
    BY DEF ListsHold, LoneCallsFit, Alone, ContentsRest
<1>2. past'.crossed \/ /\ lists'.rows \in {NoOne, lists'.filter}
                       /\ lists'.keys.title # NoOne => lists'.keys.rows \in {NoOne, lists'.keys.title}
    BY DEF ListsHold, ListsAnswerTheQuestion, ContentsRest
<1> QED BY <1>1, <1>2, ListsAnew

LEMMA ListsElsewhere ==
    ASSUME BrowserTypeOK, BrowserTypeOK', ListsHold, NEW s \in Slots, Elsewhere(s), net[s].kind \notin Listing,
           past'.crossed = past.crossed, ContentsRest,
           net'[s].kind = "list" => net'[s].about.filter = lists'.filter,
           net'[s].kind # "keys",
           net'[s].kind = "people" => lists'.people = {}
    PROVE  ListsHold'
<1>1. ListsRest(s)
    BY DEF ListsRest, Elsewhere
<1>2. net'[s].kind = "people" => lists'.people \subseteq {net'[s].about.search}
    OBVIOUS
<1> QED BY <1>1, <1>2, ListsAtRest

LEMMA ListsQuiet ==
    ASSUME BrowserTypeOK, BrowserTypeOK', ListsHold, net' = net \/ \E s \in Slots: QuietTurn(s),
           past'.crossed = past.crossed, ContentsRest
    PROVE  ListsHold'
<1>1. ASSUME NEW s \in Slots, QuietTurn(s) PROVE ListsHold'
    BY <1>1, ListsElsewhere DEF QuietTurn, Listing
<1> QED BY <1>1, ListsStill

\* A lone answer brings what was asked for last; the others have crossed.
LEMMA AnswersCross ==
    ASSUME BrowserTypeOK, NEW s \in Slots, NEW answer, Listed(s, answer), Settles(s), net[s].kind \in Listing
    PROVE  ListsRest(s) /\ (past'.crossed \/ (~past.crossed /\ Alone(s, net[s].kind)))
<1>1. past'.crossed <=> past.crossed \/ Crossing(s)
    BY ListedIs
<1>2. ~Crossing(s) => Alone(s, net[s].kind)
    BY DEF Crossing, Alone
<1>3. net'[s].kind = "idle" /\ \A t \in Slots \ {s}: net'[t] = net[t]
    BY SettlesIs
<1> QED BY <1>1, <1>2, <1>3 DEF ListsRest, Listing

LEMMA ListLists ==
    ASSUME BrowserTypeOK, BrowserTypeOK', ListsHold, NEW s \in Slots, ListAnswered(s) PROVE ListsHold'
<1>1. PICK answer \in Answers(s):
          /\ lists' = IF answer # "ok" THEN lists
                      ELSE [lists EXCEPT !.rows = net[s].about.filter, !.shown["tasks"] = net[s].as]
          /\ Listed(s, answer)
    BY DEF ListAnswered
<1>2. net[s].kind = "list" /\ Settles(s)
    BY DEF ListAnswered
<1>3. ListsRest(s) /\ (past'.crossed \/ (~past.crossed /\ Alone(s, "list")))
    BY <1>1, <1>2, AnswersCross DEF Listing
<1>4. net'[s].kind = "idle"
    BY <1>2, SettlesIs
<1>5. /\ lists'.filter = lists.filter /\ lists'.keys = lists.keys /\ lists'.people = lists.people
      /\ lists'.rows \in {lists.rows, net[s].about.filter}
    BY <1>1 DEF BrowserTypeOK, Contents
<1>6. past'.crossed \/ \E q \in Searches: lists'.people \subseteq {q}
    BY <1>3, <1>5 DEF ListsHold, LoneCallsFit
<1>7. LoneCallsFit'
    BY <1>3, <1>4, <1>5, <1>6, LoneCallsAtRest
<1>8. past'.crossed \/ lists'.rows \in {NoOne, lists'.filter}
    BY <1>3, <1>5 DEF ListsHold, LoneCallsFit, ListsAnswerTheQuestion
<1>9. past'.crossed \/ (lists'.keys.title # NoOne => lists'.keys.rows \in {NoOne, lists'.keys.title})
    BY <1>3, <1>5 DEF ListsHold, ListsAnswerTheQuestion
<1> QED BY <1>7, <1>8, <1>9, ListsAnew

LEMMA KeysLists ==
    ASSUME BrowserTypeOK, BrowserTypeOK', ListsHold, NEW s \in Slots, KeysAnswered(s) PROVE ListsHold'
<1>1. PICK answer \in Answers(s):
          /\ lists' = IF answer # "ok" THEN lists ELSE [lists EXCEPT !.keys.rows = net[s].about]
          /\ Listed(s, answer)
    BY DEF KeysAnswered
<1>2. net[s].kind = "keys" /\ Settles(s)
    BY DEF KeysAnswered
<1>3. ListsRest(s) /\ (past'.crossed \/ (~past.crossed /\ Alone(s, "keys")))
    BY <1>1, <1>2, AnswersCross DEF Listing
<1>4. net'[s].kind = "idle"
    BY <1>2, SettlesIs
<1>5. /\ lists'.filter = lists.filter /\ lists'.rows = lists.rows /\ lists'.people = lists.people
      /\ lists'.keys.title = lists.keys.title /\ lists'.keys.rows \in {lists.keys.rows, net[s].about}
    BY <1>1 DEF BrowserTypeOK, Contents
<1>6. past'.crossed \/ \E q \in Searches: lists'.people \subseteq {q}
    BY <1>3, <1>5 DEF ListsHold, LoneCallsFit
<1>7. LoneCallsFit'
    BY <1>3, <1>4, <1>5, <1>6, LoneCallsAtRest
<1>8. past'.crossed \/ (lists'.keys.title # NoOne => lists'.keys.rows \in {NoOne, lists'.keys.title})
    BY <1>3, <1>5 DEF ListsHold, LoneCallsFit, ListsAnswerTheQuestion
<1>9. past'.crossed \/ lists'.rows \in {NoOne, lists'.filter}
    BY <1>3, <1>5 DEF ListsHold, ListsAnswerTheQuestion
<1> QED BY <1>7, <1>8, <1>9, ListsAnew

LEMMA PeopleAnsweredLists ==
    ASSUME BrowserTypeOK, BrowserTypeOK', ListsHold, NEW s \in Slots, PeopleAnswered(s) PROVE ListsHold'
<1>1. PICK answer \in Answers(s):
          /\ lists' = IF answer # "ok" THEN lists
                      ELSE [lists EXCEPT !.people = @ \cup {net[s].about.search}, !.shown["users"] = net[s].as]
          /\ Listed(s, answer)
    BY DEF PeopleAnswered
<1>2. net[s].kind = "people" /\ Settles(s)
    BY DEF PeopleAnswered
<1>3. ListsRest(s) /\ (past'.crossed \/ (~past.crossed /\ Alone(s, "people")))
    BY <1>1, <1>2, AnswersCross DEF Listing
<1>4. net'[s].kind = "idle"
    BY <1>2, SettlesIs
<1>5. /\ lists'.filter = lists.filter /\ lists'.rows = lists.rows /\ lists'.keys = lists.keys
      /\ lists'.people \in {lists.people, lists.people \cup {net[s].about.search}}
    BY <1>1 DEF BrowserTypeOK, Contents
<1>6. net[s].about.search \in Searches
    BY <1>2, CallFields DEF BrowserTypeOK
<1>7. past'.crossed \/ lists'.people \subseteq {net[s].about.search}
    BY <1>3, <1>5 DEF ListsHold, LoneCallsFit
<1>8. past'.crossed \/ \E q \in Searches: lists'.people \subseteq {q}
    BY <1>6, <1>7
<1>9. LoneCallsFit'
    BY <1>2, <1>3, <1>4, <1>5, <1>8, LoneCallsAtRest
<1>10. past'.crossed \/ /\ lists'.rows \in {NoOne, lists'.filter}
                        /\ lists'.keys.title # NoOne => lists'.keys.rows \in {NoOne, lists'.keys.title}
    BY <1>3, <1>5 DEF ListsHold, ListsAnswerTheQuestion
<1> QED BY <1>9, <1>10, ListsAnew

\* What is chosen anew is what its call asks for.
LEMMA FilterLists ==
    ASSUME BrowserTypeOK, BrowserTypeOK', ListsHold, NEW f \in Filters, ChangeFilter(f) PROVE ListsHold'
<1>1. lists' = [Emptied("tasks") EXCEPT !.filter = f] /\ past' = past
      /\ Sends("list", [filter |-> f, for |-> NoOne])
    BY DEF ChangeFilter
<1>2. Call("list", [filter |-> f, for |-> NoOne]) \in PageCalls
    BY CallsMade
<1>3. PICK s \in Slots: /\ net[s].kind = "idle" /\ net'[s].kind = "list" /\ Elsewhere(s)
                        /\ net'[s].about = [filter |-> f, for |-> NoOne]
    BY <1>1, <1>2, SendsIs DEF Elsewhere
<1>4. /\ lists'.filter = f /\ lists'.rows = NoOne /\ lists'.keys = lists.keys /\ lists'.people = lists.people
    BY <1>1 DEF Emptied, BrowserTypeOK, Contents
<1>5. ListsRest(s) /\ net'[s].about.filter = f
    BY <1>1, <1>3 DEF ListsRest, Elsewhere, Listing
<1>6. past'.crossed \/ \E q \in Searches: lists'.people \subseteq {q}
    BY <1>1, <1>4 DEF ListsHold, LoneCallsFit
<1>7. LoneCallsFit'
    BY <1>3, <1>4, <1>5, <1>6, LoneCallsAtRest
<1>8. past'.crossed \/ (lists'.keys.title # NoOne => lists'.keys.rows \in {NoOne, lists'.keys.title})
    BY <1>1, <1>4 DEF ListsHold, ListsAnswerTheQuestion
<1> QED BY <1>4, <1>7, <1>8, ListsAnew

LEMMA OpenKeysLists ==
    ASSUME BrowserTypeOK, BrowserTypeOK', ListsHold, NEW i \in Integrations, OpenKeys(i) PROVE ListsHold'
<1>1. lists' = [lists EXCEPT !.keys = [title |-> i, rows |-> NoOne]] /\ past' = past /\ Sends("keys", i)
    BY DEF OpenKeys
<1>2. Call("keys", i) \in PageCalls
    BY CallsMade
<1>3. PICK s \in Slots: net[s].kind = "idle" /\ net'[s].kind = "keys" /\ Elsewhere(s) /\ net'[s].about = i
    BY <1>1, <1>2, SendsIs DEF Elsewhere
<1>4. /\ lists'.filter = lists.filter /\ lists'.rows = lists.rows /\ lists'.people = lists.people
      /\ lists'.keys.title = i /\ lists'.keys.rows = NoOne
    BY <1>1 DEF BrowserTypeOK, Contents
<1>5. ListsRest(s)
    BY <1>1, <1>3 DEF ListsRest, Elsewhere, Listing
<1>6. past'.crossed \/ \E q \in Searches: lists'.people \subseteq {q}
    BY <1>1, <1>4 DEF ListsHold, LoneCallsFit
<1>7. LoneCallsFit'
    BY <1>3, <1>4, <1>5, <1>6, LoneCallsAtRest
<1>8. past'.crossed \/ lists'.rows \in {NoOne, lists'.filter}
    BY <1>1, <1>4 DEF ListsHold, ListsAnswerTheQuestion
<1> QED BY <1>4, <1>7, <1>8, ListsAnew

LEMMA SearchLists ==
    ASSUME BrowserTypeOK, BrowserTypeOK', ListsHold, NEW append \in BOOLEAN, loadUsers(append) PROVE ListsHold'
<1>1. /\ append => lists.people # {}
      /\ lists' = IF append THEN lists ELSE Emptied("users")
      /\ Sends("people", [search |-> lists.search, for |-> NoOne])
      /\ past' = [past EXCEPT !.crossed = @ \/ (append /\ lists.people # {lists.search})]
    BY DEF loadUsers
<1>2. lists.search \in Searches
    BY DEF BrowserTypeOK, Contents
<1>3. Call("people", [search |-> lists.search, for |-> NoOne]) \in PageCalls
    BY <1>2, CallsMade
<1>4. PICK s \in Slots: /\ net[s].kind = "idle" /\ net'[s].kind = "people" /\ Elsewhere(s)
                        /\ net'[s].about = [search |-> lists.search, for |-> NoOne]
    BY <1>1, <1>3, SendsIs DEF Elsewhere
<1>5. past'.crossed <=> past.crossed \/ (append /\ lists.people # {lists.search})
    BY <1>1 DEF BrowserTypeOK, Histories
<1>6. ContentsRest /\ (~append => lists'.people = {}) /\ (append => lists'.people = lists.people)
    BY <1>1, ContentsAtRest, EmptiedIs DEF Panels
<1>7. ListsRest(s)
    BY <1>4, <1>5 DEF ListsRest, Elsewhere, Listing
<1>8. net'[s].about.search = lists.search
    BY <1>4
<1>9. past'.crossed \/ lists'.people \subseteq {net'[s].about.search}
    BY <1>5, <1>6, <1>8
<1> QED BY <1>4, <1>6, <1>7, <1>9, ListsAtRest

LEMMA PanelLists == ASSUME BrowserAssumption, BrowserTypeOK, BrowserTypeOK', ListsHold, PanelsNext PROVE ListsHold'
<1>1. ASSUME (\E p \in Panels: navigate(p)) \/ (\E s \in Slots: initializeApplication(s)) PROVE ListsHold'
    BY <1>1, NavigationTurns, ContentsAtRest, ListsQuiet
<1>2. ASSUME NEW s \in Slots,
             DashboardAnswered(s) \/ NotificationsAnswered(s) \/ IntegrationsAnswered(s) \/ SystemAnswered(s)
      PROVE  ListsHold'
    <2>1. /\ Elsewhere(s) /\ net[s].kind = "load" /\ net'[s].kind \in {"idle", "recipients"}
          /\ \E p \in Panels, answer \in Answers(s), shown \in BOOLEAN: LoadSettles(s, p, answer, shown)
        BY <1>2, LoadTurns
    <2>2. past'.crossed = past.crossed /\ ContentsRest
        BY <2>1, LoadSettlesIs DEF ContentsRest
    <2> QED BY <2>1, <2>2, ListsElsewhere DEF Listing
<1> QED BY <1>1, <1>2, ListLists, KeysLists, OpenKeysLists DEF PanelsNext

LEMMA TaskLists == ASSUME BrowserAssumption, BrowserTypeOK, BrowserTypeOK', ListsHold, TasksNext PROVE ListsHold'
<1>1. ASSUME NEW d \in Dialogs, NEW t \in Tasks \cup {NoOne}, Opens(d, t) PROVE ListsHold'
    <2>1. past'.crossed = past.crossed /\ lists' = lists /\ net' = net
        BY <1>1, OpensIs
    <2> QED BY <2>1, ContentsAtRest, ListsStill
<1>2. CASE OpenEdit \/ OpenStatus \/ OpenCancel \/ OpenCreate
    <2>1. work.task \in Tasks \cup {NoOne}
        BY DEF BrowserTypeOK, WorkStates
    <2> QED BY <1>1, <1>2, <2>1 DEF OpenEdit, OpenStatus, OpenCancel, OpenCreate, Dialogs, TaskDialogs
<1>3. CASE closeTaskDetail \/ CloseDialog
    <2>1. past' = past /\ lists' = lists /\ net' = net
        BY <1>3 DEF closeTaskDetail, CloseDialog
    <2> QED BY <2>1, ContentsAtRest, ListsStill
<1>4. ASSUME NEW s \in Slots, Elsewhere(s), net[s].kind \notin Listing, net'[s].kind \notin Listing,
             past' = past, lists' = lists
      PROVE  ListsHold'
    BY <1>4, ContentsAtRest, ListsElsewhere DEF Listing
<1>5. ASSUME NEW t \in Tasks, openTaskDetail(t) PROVE ListsHold'
    <2>1. AskDetail(t, NoOne) \in PageCalls /\ AskDetail(t, NoOne).kind = "detail"
        BY CallsMade DEF AskDetail, Call
    <2>2. PICK s \in Slots: net[s] = Idle /\ net' = [net EXCEPT ![s] = AskDetail(t, NoOne)]
        BY <1>5 DEF openTaskDetail
    <2>3. Elsewhere(s) /\ net'[s].kind = "detail" /\ net[s].kind = "idle"
        <3> HIDE DEF AskDetail
        <3> QED BY <2>1, <2>2, SlotSet DEF BrowserTypeOK, Elsewhere, Idle
    <2>4. past' = past /\ lists' = lists
        BY <1>5 DEF openTaskDetail
    <2> QED BY <1>4, <2>3, <2>4 DEF Listing
<1>6. CASE SubmitDialog
    <2> DEFINE w == [dialog |-> work.dialog, form |-> work.form,
                     task |-> IF work.dialog = "create" THEN NoOne ELSE work.task, swapped |-> past.swapped]
    <2>1. Sends("change", w) /\ past' = past /\ lists' = lists /\ work.dialog \in {"create", "edit", "status", "cancel"}
        BY <1>6 DEF SubmitDialog
    <2>2. (IF work.dialog = "create" THEN NoOne ELSE work.task) \in Tasks \cup {NoOne}
        BY DEF BrowserTypeOK, WorkStates
    <2>3. w \in Writes
        BY <2>1, <2>2, WritesMade
    <2> HIDE DEF w
    <2>4. Call("change", w) \in PageCalls
        BY <2>3, CallsMade
    <2>5. PICK s \in Slots: net[s].kind = "idle" /\ net'[s].kind = "change" /\ Elsewhere(s)
        BY <2>1, <2>4, SendsIs DEF Elsewhere
    <2> QED BY <1>4, <2>1, <2>5 DEF Listing
<1>7. ASSUME NEW s \in Slots, DetailAnswered(s) \/ ChangeFailed(s) PROVE ListsHold'
    <2>1. Settles(s) /\ lists' = lists /\ net[s].kind \in {"detail", "change"} /\ past'.crossed = past.crossed
        BY <1>7 DEF DetailAnswered, ChangeFailed, BrowserTypeOK, Histories
    <2>2. Elsewhere(s) /\ net'[s].kind = "idle"
        BY <2>1, SettlesIs DEF Elsewhere
    <2> QED BY <2>1, <2>2, ContentsAtRest, ListsElsewhere DEF Listing
<1>8. ASSUME NEW s \in Slots, CreateDone(s) PROVE ListsHold'
    <2>1. /\ net[s].kind = "change" /\ Elsewhere(s) /\ net'[s].kind \in {"list", "load"}
          /\ net'[s].kind = "list" => net'[s].about.filter = lists.filter
          /\ \E p \in Panels: lists' = Emptied(p)
          /\ past' = past
        BY <1>8, CreateTurns
    <2>2. ContentsRest /\ lists'.filter = lists.filter
        BY <2>1, ContentsAtRest DEF ContentsRest
    <2> QED BY <2>1, <2>2, ListsElsewhere DEF Listing
<1>9. ASSUME NEW s \in Slots, ChangeDone(s) PROVE ListsHold'
    <2>1. /\ net[s].kind = "change" /\ net'[s].kind = "list" /\ net'[s].about.filter = lists.filter
          /\ \E t \in Slots \ {s}: /\ net[t].kind = "idle" /\ net'[t].kind = "detail"
                                   /\ \A u \in Slots \ {s, t}: net'[u] = net[u]
          /\ lists' = Emptied("tasks") /\ past' = past
        BY <1>9, ChangeTurns
    <2>2. ListsRest(s)
        BY <2>1 DEF ListsRest, Listing
    <2>3. ContentsRest /\ lists'.filter = lists.filter
        BY <2>1, ContentsAtRest DEF ContentsRest, Panels
    <2> QED BY <2>1, <2>2, <2>3, ListsAtRest
<1> QED BY <1>2, <1>3, <1>5, <1>6, <1>7, <1>8, <1>9, FilterLists DEF TasksNext, CreationNext

LEMMA PeopleLists == ASSUME BrowserAssumption, BrowserTypeOK, BrowserTypeOK', ListsHold, PeopleNext PROVE ListsHold'
<1>1. ASSUME NEW q \in Searches, TypeSearch(q) PROVE ListsHold'
    <2>1. lists' = [lists EXCEPT !.search = q] /\ net' = net /\ past' = past
        BY <1>1 DEF TypeSearch
    <2>2. ContentsRest
        BY <2>1 DEF ContentsRest, BrowserTypeOK, Contents
    <2> QED BY <2>1, <2>2, ListsStill
<1>2. CASE GrantLogin \/ SubmitAdministrator
    <2>1. PICK f \in {"login", "administrator"}: Asks(f)
        BY <1>2 DEF GrantLogin, SubmitAdministrator
    <2>2. Sends("secret", f) /\ past'.crossed = past.crossed /\ lists' = lists
        BY <2>1, AsksIs
    <2>3. Call("secret", f) \in PageCalls
        BY CallsMade
    <2>4. PICK s \in Slots: net[s].kind = "idle" /\ net'[s].kind = "secret" /\ Elsewhere(s)
        BY <2>2, <2>3, SendsIs DEF Elsewhere
    <2> QED BY <2>2, <2>4, ContentsAtRest, ListsElsewhere DEF Listing
<1>3. CASE OpenAdministrator
    <2>1. past'.crossed = past.crossed /\ lists' = lists /\ net' = net
        BY <1>3, OpensIs DEF OpenAdministrator, Dialogs
    <2> QED BY <2>1, ContentsAtRest, ListsStill
<1>4. CASE TickSaved \/ CloseSecret
    <2>1. past'.crossed = past.crossed /\ lists' = lists /\ net' = net
        BY <1>4 DEF TickSaved, CloseSecret, BrowserTypeOK, Histories
    <2> QED BY <2>1, ContentsAtRest, ListsStill
<1>5. lists.search \in Searches /\ "users" \in Panels
    BY DEF BrowserTypeOK, Contents, Panels
<1>6. ASSUME NEW s \in Slots, NEW d \in {NoOne, "administrator"},
             Follows(s, "people", [search |-> lists.search, for |-> d])
      PROVE  Elsewhere(s) /\ net'[s].kind = "people"
    <2>1. Call("people", [search |-> lists.search, for |-> d]) \in PageCalls
        BY <1>5, CallsMade
    <2> QED BY <1>6, <2>1, FollowsIs DEF Elsewhere
<1>7. ASSUME NEW s \in Slots, ContextAnswered(s) PROVE ListsHold'
    <2>1. PICK answer: lists' = [Emptied("users") EXCEPT !.catalogs = @ \/ answer = "ok"]
        BY <1>7 DEF ContextAnswered
    <2>2. net[s].kind = "context" /\ past' = past /\ Follows(s, "people", [search |-> lists.search, for |-> NoOne])
        BY <1>7 DEF ContextAnswered
    <2>3. ContentsRest /\ lists'.people = {}
        <3>1. lists' = [lists EXCEPT !.people = {}, !.shown["users"] = 0, !.catalogs = @ \/ answer = "ok"]
            BY <2>1 DEF Emptied, BrowserTypeOK, Contents
        <3> QED BY <3>1 DEF ContentsRest, BrowserTypeOK, Contents
    <2>4. Elsewhere(s) /\ net'[s].kind = "people"
        BY <1>6, <2>2
    <2> QED BY <2>2, <2>3, <2>4, ListsElsewhere DEF Listing
<1>8. ASSUME NEW s \in Slots, SecretAnswered(s) PROVE ListsHold'
    <2> DEFINE d == IF net[s].about = "administrator" THEN net[s].about ELSE NoOne
    <2>1. net[s].kind = "secret" /\ d \in {NoOne, "administrator"}
        BY <1>8 DEF SecretAnswered
    <2>2. past'.crossed = past.crossed
        <3>1. past' = [past EXCEPT !.issued = past.issued + 1] \/ past' = past
            BY <1>8 DEF SecretAnswered
        <3> QED BY <3>1 DEF BrowserTypeOK, Histories
    <2>3. \/ lists' = Emptied("users") /\ Follows(s, "people", [search |-> lists.search, for |-> d])
          \/ lists' = lists /\ Settles(s)
        BY <1>8 DEF SecretAnswered
    <2> HIDE DEF d
    <2>4. ContentsRest /\ (lists' = Emptied("users") => lists'.people = {})
        BY <1>5, <2>3, ContentsAtRest, EmptiedIs
    <2>5. /\ Elsewhere(s)
          /\ \/ net'[s].kind = "people" /\ lists' = Emptied("users")
             \/ net'[s].kind = "idle"
        BY <1>6, <2>1, <2>3, SettlesIs DEF Elsewhere
    <2> QED BY <2>1, <2>2, <2>4, <2>5, ListsElsewhere DEF Listing
<1> QED BY <1>1, <1>2, <1>3, <1>4, <1>7, <1>8, PeopleAnsweredLists, SearchLists DEF PeopleNext

LEMMA ListsStep ==
    ASSUME BrowserAssumption, BrowserTypeOK, ListsHold, [BrowserNext]_browserVars PROVE ListsHold'
<1>1. BrowserTypeOK'
    BY BrowserTypes
<1>2. CASE UNCHANGED browserVars
    BY <1>1, <1>2, ContentsAtRest, ListsStill DEF browserVars
<1>3. CASE SessionNext
    <2>1. past'.crossed = past.crossed
        BY <1>3, TakenUpIs DEF SessionNext, SubmitLogin, SubmitLogout, SubmitPassword, SessionEnds, LoginAnswered,
           LogoutAnswered, PasswordAnswered
    <2>2. page.panel \in Panels
        BY DEF BrowserTypeOK, PageStates
    <2> QED BY <1>1, <1>3, <2>1, <2>2, SessionTurns, ContentsAtRest, ListsQuiet
<1>4. CASE TestNext
    BY <1>1, <1>4, TestTurns, ContentsAtRest, ListsQuiet
<1> QED BY <1>1, <1>2, <1>3, <1>4, PanelLists, TaskLists, PeopleLists DEF BrowserNext

------------------------------------------------------------------------------
(* The page *)

LEMMA BrowserStarts == ASSUME BrowserAssumption, BrowserInit PROVE ConsoleIndInv
<1>1. PICK f \in Filters, q \in Searches:
          lists = [filter |-> f, rows |-> NoOne, search |-> q, catalogs |-> FALSE, people |-> {},
                   keys |-> [title |-> NoOne, rows |-> NoOne], shown |-> [p \in Panels |-> 0]]
    BY DEF BrowserInit
<1>2. PICK t \in Types:
          trial = [ready |-> FALSE, type |-> t, recipient |-> NoOne, request |-> 0, disabled |-> FALSE]
    BY DEF BrowserInit
<1>3. /\ page \in [view: {"blank"}, login: {NoOne}, panel: Panels]
      /\ server \in [session: {0, 1}, logins: {1}, restricted: SUBSET {1}]
      /\ work = [task |-> NoOne, open |-> FALSE, dialog |-> NoOne, form |-> NoOne, busy |-> {}]
      /\ secret = [value |-> 0, saved |-> FALSE]
      /\ net = [s \in Slots |-> Idle]
      /\ past = [strays |-> FALSE, crossed |-> FALSE, swapped |-> FALSE, requests |-> {},
                 unknown |-> NoOne, issued |-> 0, kept |-> 0, doubled |-> FALSE]
    BY DEF BrowserInit
<1>4. \A s \in Slots: net[s] = Idle /\ net[s].kind = "idle"
    BY <1>3 DEF Idle
<1>5. BrowserTypeOK
    <2>1. lists \in Contents
        BY <1>1 DEF Contents
    <2>2. trial \in TrialStates
        BY <1>2 DEF TrialStates
    <2>3. net \in [Slots -> PageCalls]
        BY <1>3 DEF PageCalls
    <2>4. page \in PageStates /\ server \in [session: Nat, logins: Nat, restricted: SUBSET Nat]
        BY <1>3 DEF PageStates
    <2>5. work \in WorkStates /\ secret \in [value: Nat, saved: BOOLEAN]
        BY <1>3 DEF WorkStates
    <2>6. past \in Histories
        BY <1>3 DEF Histories
    <2> QED BY <2>1, <2>2, <2>3, <2>4, <2>5, <2>6 DEF BrowserTypeOK
<1>6. AccountsHold
    BY <1>3 DEF AccountsHold, LoginsKnown, ShowsItsOwn
<1>7. ListsHold
    <2>1. Cardinality(lists.people) <= 1
        BY <1>1, OneAtMost
    <2> QED BY <1>1, <1>4, <2>1 DEF ListsHold, LoneCallsFit, ListsAnswerTheQuestion, Alone
<1>8. DialogsHold
    BY <1>3, <1>4 DEF DialogsHold, DialogsHeld, FormsShow, MeantForItsTask, DialogWaits, Submitted, Waits, BrowserAssumption,
       TaskDialogs
<1>9. TestsHold
    BY <1>2, <1>3 DEF TestsHold, IdentityInUse, RepeatsKeepTheirIdentity
<1>10. SecretsHold
    BY <1>3, <1>4 DEF SecretsHold, SecretsInTurn, PasswordsSeen
<1> QED BY <1>5, <1>6, <1>7, <1>8, <1>9, <1>10 DEF ConsoleIndInv

\* However answers come in, the page's state is one its functions can have made of them: held
\* dialogs are held by the calls that will let them go, and a lone call asks what was chosen.
THEOREM ConsoleInvariance == BrowserSpec => []ConsoleIndInv
<1>1. BrowserInit => ConsoleIndInv
    BY BrowserStarts, BrowserAssumption
<1>2. ConsoleIndInv /\ [BrowserNext]_browserVars => ConsoleIndInv'
    BY BrowserTypes, AccountsStep, ListsStep, DialogsStep, TestsStep, SecretsStep, BrowserAssumption DEF ConsoleIndInv
<1> QED BY <1>1, <1>2, PTL DEF BrowserSpec

\* Whatever a person clicks while calls are under way (app.js, ui-core.js, users.js), a panel
\* shows what was loaded for whoever is logged in and asked for last, a change goes to the task
\* its dialog shows, a repeated test keeps its identity and no temporary password is lost.
THEOREM ConsoleSafe == BrowserSpec => []ConsoleInv
<1>1. ConsoleIndInv => ConsoleInv
    BY DEF ConsoleIndInv, AccountsHold, ListsHold, DialogsHold, TestsHold, SecretsHold, ConsoleInv
<1> QED BY <1>1, ConsoleInvariance, PTL
==============================================================================
