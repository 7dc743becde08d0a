--------------------- MODULE NotificationDelivery_proofs ---------------------
(***************************************************************************)
(* The safety of the delivery ledger for every set of rows and workers,    *)
(* attempt cap, batch limit, delays and number of faults, as long as no    *)
(* live worker outlasts the reclaim threshold (MaxStalls = 0): IndInv is   *)
(* inductive (one lemma per action, one step per conjunct), and the named  *)
(* properties follow from it.                                              *)
(***************************************************************************)
EXTENDS NotificationDelivery, TLAPS

\* A new row is PENDING, with no history and in nobody's hands.
LEMMA InsertStep ==
  ASSUME IndInv, MaxStalls = 0, NEW new \in SUBSET Deliveries, Insert(new)
  PROVE  IndInv'
<1> USE DeliveryAssumption DEF IndInv, TypeOK
<1>1. RowsTypeOK'
  BY DEF Insert, Open, RowsTypeOK
<1>2. WorkersTypeOK'
  BY DEF Insert, WorkersTypeOK, claim, worker
<1>3. HistoryTypeOK'
  BY DEF HistoryTypeOK, Insert, history
<1>4. OneHolder'
  BY DEF Insert, OneHolder, claim, worker
<1>5. UnwrittenTakeable'
  BY DEF Insert, UnwrittenTakeable, WorkersTypeOK, worker
<1>6. HolderOwnsRow'
  BY DEF HolderOwnsRow, Insert, WorkersTypeOK, claim, worker
<1>7. SendsBalanced'
  BY DEF Insert, SendsBalanced, history
<1>8. SendsInHand'
  BY DEF Insert, SendsInHand, claim, history, worker
<1>9. DeliveredMeansSent'
  BY DEF DeliveredMeansSent, Insert, history
<1> QED BY <1>1, <1>2, <1>3, <1>4, <1>5, <1>6, <1>7, <1>8, <1>9

\* As nobody stalls, no row in hand reaches the reclaim threshold.
LEMMA TickStep ==
  ASSUME IndInv, MaxStalls = 0, Tick
  PROVE  IndInv'
<1> USE DeliveryAssumption DEF IndInv, TypeOK
<1>1. RowsTypeOK'
  BY DEF RowsTypeOK, Tick, Until, UpTo
<1>2. WorkersTypeOK'
  BY DEF Tick, UpTo, WorkersTypeOK, claim
<1>3. HistoryTypeOK'
  BY DEF HistoryTypeOK, Tick, history
<1>4. OneHolder'
  BY DEF OneHolder, Tick, claim
<1>5. UnwrittenTakeable'
  BY DEF Tick, UnwrittenTakeable, UpTo, WorkersTypeOK
<1>6. HolderOwnsRow'
  <2>1. Stalling = {}
    BY DEF Tick, HistoryTypeOK
  <2>2. ASSUME NEW w \in Workers, hand[w] # None, state[hand[w]] = "PROCESSING",
     age[hand[w]] < Stale
        PROVE  age'[hand[w]] < Stale
    <3>1. hand[w] \in Deliveries /\ age[hand[w]] \in 0 .. Stale
      BY <2>2 DEF RowsTypeOK, WorkersTypeOK
    <3>2. age[hand[w]] + 1 # Stale
      BY <2>1, <2>2 DEF Stalling
    <3> QED BY <2>2, <3>1, <3>2 DEF Tick, UpTo
  <2> QED BY <2>2 DEF Tick, HolderOwnsRow, claim
<1>7. SendsBalanced'
  BY DEF SendsBalanced, Tick, history
<1>8. SendsInHand'
  BY DEF SendsInHand, Tick, claim, history
<1>9. DeliveredMeansSent'
  BY DEF DeliveredMeansSent, Tick, history
<1> QED BY <1>1, <1>2, <1>3, <1>4, <1>5, <1>6, <1>7, <1>8, <1>9

\* What is found may be claimed: PENDING, or PROCESSING for long enough that
\* no holder can have it.
LEMMA FindDueStep ==
  ASSUME IndInv, MaxStalls = 0, NEW w \in Workers, FindDue(w)
  PROVE  IndInv'
<1> USE DeliveryAssumption DEF IndInv, TypeOK
<1>1. RowsTypeOK'
  BY DEF FindDue, RowsTypeOK, rows
<1>2. WorkersTypeOK'
  <2>1. PICK found \in Findable(w) :
          /\ batch' = [batch EXCEPT ![w] = found]
          /\ unwritten' = [unwritten EXCEPT ![w] = found]
    BY DEF FindDue
  <2>2. \A d \in found : d \in Deliveries /\ state[d] \in Open /\ Takeable(d)
    BY DEF Findable, Due
  <2>3. found \in SUBSET Deliveries
    BY <2>2
  <2> QED BY <2>1, <2>3 DEF FindDue, WorkersTypeOK, claim
<1>3. HistoryTypeOK'
  BY DEF FindDue, HistoryTypeOK, history
<1>4. OneHolder'
  BY DEF FindDue, OneHolder, claim
<1>5. UnwrittenTakeable'
  <2>1. PICK found \in Findable(w) :
          /\ batch' = [batch EXCEPT ![w] = found]
          /\ unwritten' = [unwritten EXCEPT ![w] = found]
    BY DEF FindDue
  <2>2. \A d \in found : d \in Deliveries /\ state[d] \in Open /\ Takeable(d)
    BY DEF Findable, Due
  <2> QED BY <2>1, <2>2 DEF FindDue, UnwrittenTakeable, WorkersTypeOK, RowsTypeOK,
     Takeable, Open, rows
<1>6. HolderOwnsRow'
  BY DEF FindDue, HolderOwnsRow, Holding, claim, rows
<1>7. SendsBalanced'
  BY DEF FindDue, SendsBalanced, history, rows
<1>8. SendsInHand'
  BY DEF FindDue, SendsInHand, claim, history, rows
<1>9. DeliveredMeansSent'
  BY DEF DeliveredMeansSent, FindDue, history, rows
<1> QED BY <1>1, <1>2, <1>3, <1>4, <1>5, <1>6, <1>7, <1>8, <1>9

\* The compare-and-set succeeds on a row nobody holds; writing it takes it
\* from everyone who found it too.
LEMMA ClaimStep ==
  ASSUME IndInv, MaxStalls = 0, NEW w \in Workers, NEW d \in Deliveries, Claim(w, d)
  PROVE  IndInv'
<1> USE DeliveryAssumption DEF IndInv, TypeOK
<1>1. RowsTypeOK'
  BY DEF Claim, ClaimRow, Claimable, Open, RowsTypeOK, Write
<1>2. WorkersTypeOK'
  BY DEF Claim, ClaimRow, Claimable, Holding, Open, RowsTypeOK, SendsBalanced,
     UnwrittenTakeable, WorkersTypeOK, Write, claim
<1>3. HistoryTypeOK'
  BY DEF Claim, ClaimRow, Claimable, HistoryTypeOK, Write
<1>4. OneHolder'
  BY DEF Claim, ClaimRow, Claimable, HolderOwnsRow, OneHolder, UnwrittenTakeable,
     Write, claim
<1>5. UnwrittenTakeable'
  BY DEF Claim, ClaimRow, Claimable, UnwrittenTakeable, Write
<1>6. HolderOwnsRow'
  BY DEF Claim, ClaimRow, Claimable, HolderOwnsRow, Holding, RowsTypeOK,
     UnwrittenTakeable, WorkersTypeOK, Write, claim
<1>7. SendsBalanced'
  BY DEF Claim, ClaimRow, Claimable, HistoryTypeOK, Open, RowsTypeOK, SendsBalanced,
     UnwrittenTakeable, Write
<1>8. SendsInHand'
  BY DEF Claim, ClaimRow, Claimable, HistoryTypeOK, RowsTypeOK, SendsBalanced,
     SendsInHand, WorkersTypeOK, Write, claim
<1>9. DeliveredMeansSent'
  BY DEF Claim, ClaimRow, Claimable, DeliveredMeansSent, Write
<1> QED BY <1>1, <1>2, <1>3, <1>4, <1>5, <1>6, <1>7, <1>8, <1>9

\* A lost claim leaves the table alone.
LEMMA ClaimLostStep ==
  ASSUME IndInv, MaxStalls = 0, NEW w \in Workers, NEW d \in Deliveries, ClaimLost(w, d)
  PROVE  IndInv'
<1> USE DeliveryAssumption DEF IndInv, TypeOK
<1>1. RowsTypeOK'
  BY DEF ClaimLost, RowsTypeOK, rows
<1>2. WorkersTypeOK'
  BY DEF ClaimLost, Goto, Rest, WorkersTypeOK, claim
<1>3. HistoryTypeOK'
  BY DEF ClaimLost, HistoryTypeOK, history
<1>4. OneHolder'
  BY DEF ClaimLost, Claimable, OneHolder, claim
<1>5. UnwrittenTakeable'
  BY DEF ClaimLost, Claimable, UnwrittenTakeable, rows
<1>6. HolderOwnsRow'
  BY DEF ClaimLost, Claimable, Goto, HolderOwnsRow, Holding, Rest, claim, rows
<1>7. SendsBalanced'
  BY DEF ClaimLost, Claimable, SendsBalanced, history, rows
<1>8. SendsInHand'
  BY DEF ClaimLost, Claimable, Goto, Rest, SendsInHand, claim, history, rows
<1>9. DeliveredMeansSent'
  BY DEF ClaimLost, Claimable, DeliveredMeansSent, history, rows
<1> QED BY <1>1, <1>2, <1>3, <1>4, <1>5, <1>6, <1>7, <1>8, <1>9

\* A claim that commits without an answer leaves a row nobody holds.
LEMMA ClaimFailsStep ==
  ASSUME IndInv, MaxStalls = 0, NEW w \in Workers, NEW d \in Deliveries, ClaimFails(w, d)
  PROVE  IndInv'
<1> USE DeliveryAssumption DEF IndInv, TypeOK
<1>1. RowsTypeOK'
  BY DEF ClaimFails, ClaimRow, Open, RowsTypeOK, Write, rows
<1>2. WorkersTypeOK'
  BY DEF ClaimFails, ClaimRow, Drop, Goto, Release, WorkersTypeOK, Write, claim
<1>3. HistoryTypeOK'
  BY DEF ClaimFails, ClaimRow, Drop, HistoryTypeOK, Write
<1>4. OneHolder'
  BY DEF ClaimFails, ClaimRow, Claimable, Drop, OneHolder, Release, Write, claim
<1>5. UnwrittenTakeable'
  BY DEF ClaimFails, ClaimRow, Claimable, RowsTypeOK, UnwrittenTakeable,
     WorkersTypeOK, Write, rows
<1>6. HolderOwnsRow'
  BY DEF ClaimFails, ClaimRow, Claimable, Drop, Goto, HolderOwnsRow, Holding, Release,
     RowsTypeOK, UnwrittenTakeable, WorkersTypeOK, Write, claim, rows
<1>7. SendsBalanced'
  <2>1. CASE Claimable(w, d) /\ ClaimRow(d)
    BY <2>1 DEF ClaimFails, ClaimRow, Claimable, HistoryTypeOK, Open, RowsTypeOK,
       SendsBalanced, UnwrittenTakeable, Write, rows
  <2>2. CASE UNCHANGED <<rows, unwritten, reclaims>>
    BY <2>2 DEF ClaimFails, ClaimRow, Claimable, HistoryTypeOK, Open, RowsTypeOK,
       SendsBalanced, UnwrittenTakeable, Write, rows
  <2> QED BY <2>1, <2>2 DEF ClaimFails
<1>8. SendsInHand'
  <2>1. CASE Claimable(w, d) /\ ClaimRow(d)
    BY <2>1 DEF ClaimFails, ClaimRow, Claimable, Drop, Goto, HolderOwnsRow, Release,
       SendsInHand, UnwrittenTakeable, Write, claim, rows
  <2>2. CASE UNCHANGED <<rows, unwritten, reclaims>>
    BY <2>2 DEF ClaimFails, ClaimRow, Claimable, Drop, Goto, HolderOwnsRow, Release,
       SendsInHand, UnwrittenTakeable, Write, claim, rows
  <2> QED BY <2>1, <2>2 DEF ClaimFails
<1>9. DeliveredMeansSent'
  BY DEF ClaimFails, ClaimRow, Claimable, DeliveredMeansSent, RowsTypeOK, Write, rows
<1> QED BY <1>1, <1>2, <1>3, <1>4, <1>5, <1>6, <1>7, <1>8, <1>9

\* The send is covered by the claim in hand.
LEMMA SendAcceptedStep ==
  ASSUME IndInv, MaxStalls = 0, NEW w \in Workers, SendAccepted(w)
  PROVE  IndInv'
<1> USE DeliveryAssumption DEF IndInv, TypeOK
<1>1. RowsTypeOK'
  BY DEF RowsTypeOK, SendAccepted, rows
<1>2. WorkersTypeOK'
  BY DEF Holding, SendAccepted, WorkersTypeOK, claim
<1>3. HistoryTypeOK'
  BY DEF HistoryTypeOK, HolderOwnsRow, SendAccepted, WorkersTypeOK
<1>4. OneHolder'
  BY DEF OneHolder, SendAccepted, claim
<1>5. UnwrittenTakeable'
  BY DEF SendAccepted, UnwrittenTakeable, rows
<1>6. HolderOwnsRow'
  BY DEF HolderOwnsRow, Holding, SendAccepted, claim, rows
<1>7. SendsBalanced'
  BY DEF HistoryTypeOK, HolderOwnsRow, RowsTypeOK, SendAccepted, SendsBalanced,
     SendsInHand, rows
<1>8. SendsInHand'
  BY DEF HistoryTypeOK, HolderOwnsRow, OneHolder, SendAccepted, SendsInHand,
     WorkersTypeOK, claim, rows
<1>9. DeliveredMeansSent'
  BY DEF DeliveredMeansSent, HolderOwnsRow, SendAccepted, rows
<1> QED BY <1>1, <1>2, <1>3, <1>4, <1>5, <1>6, <1>7, <1>8, <1>9

\* So is a send whose outcome is unknown.
LEMMA SendUncertainStep ==
  ASSUME IndInv, MaxStalls = 0, NEW w \in Workers, SendUncertain(w)
  PROVE  IndInv'
<1> USE DeliveryAssumption DEF IndInv, TypeOK
<1>1. RowsTypeOK'
  BY DEF RowsTypeOK, SendUncertain, rows
<1>2. WorkersTypeOK'
  BY DEF Holding, SendUncertain, WorkersTypeOK, claim
<1>3. HistoryTypeOK'
  BY DEF HistoryTypeOK, SendUncertain
<1>4. OneHolder'
  BY DEF OneHolder, SendUncertain
<1>5. UnwrittenTakeable'
  BY DEF SendUncertain, UnwrittenTakeable, rows
<1>6. HolderOwnsRow'
  BY DEF HolderOwnsRow, Holding, SendUncertain, claim, rows
<1>7. SendsBalanced'
  BY DEF HistoryTypeOK, HolderOwnsRow, RowsTypeOK, SendUncertain, SendsBalanced,
     SendsInHand, rows
<1>8. SendsInHand'
  BY DEF HistoryTypeOK, HolderOwnsRow, OneHolder, SendUncertain, SendsInHand,
     WorkersTypeOK, claim, rows
<1>9. DeliveredMeansSent'
  BY DEF DeliveredMeansSent, HistoryTypeOK, SendUncertain, rows
<1> QED BY <1>1, <1>2, <1>3, <1>4, <1>5, <1>6, <1>7, <1>8, <1>9

\* A rejected send changes only the worker.
LEMMA SendRejectedStep ==
  ASSUME IndInv, MaxStalls = 0, NEW w \in Workers, SendRejected(w)
  PROVE  IndInv'
<1> USE DeliveryAssumption DEF IndInv, TypeOK
<1>1. RowsTypeOK'
  BY DEF RowsTypeOK, SendRejected, rows
<1>2. WorkersTypeOK'
  BY DEF Holding, SendRejected, WorkersTypeOK, claim
<1>3. HistoryTypeOK'
  BY DEF HistoryTypeOK, SendRejected, history
<1>4. OneHolder'
  BY DEF OneHolder, SendRejected
<1>5. UnwrittenTakeable'
  BY DEF SendRejected, UnwrittenTakeable, rows
<1>6. HolderOwnsRow'
  BY DEF HolderOwnsRow, Holding, SendRejected, claim, rows
<1>7. SendsBalanced'
  BY DEF SendRejected, SendsBalanced, history, rows
<1>8. SendsInHand'
  BY DEF SendRejected, SendsInHand, claim, history, rows
<1>9. DeliveredMeansSent'
  BY DEF DeliveredMeansSent, SendRejected, history, rows
<1> QED BY <1>1, <1>2, <1>3, <1>4, <1>5, <1>6, <1>7, <1>8, <1>9

\* The holder's write is the only one: the row is settled.
LEMMA MarkDeliveredStep ==
  ASSUME IndInv, MaxStalls = 0, NEW w \in Workers, MarkDelivered(w)
  PROVE  IndInv'
<1> USE DeliveryAssumption DEF IndInv, TypeOK
<1>1. RowsTypeOK'
  BY DEF HolderOwnsRow, MarkDelivered, RowsTypeOK, Terminal, WorkersTypeOK, Write
<1>2. WorkersTypeOK'
  BY DEF Goto, MarkDelivered, Release, Rest, WorkersTypeOK, Write, claim
<1>3. HistoryTypeOK'
  BY DEF HistoryTypeOK, MarkDelivered, Write, history
<1>4. OneHolder'
  BY DEF MarkDelivered, OneHolder, Release, Write, claim
<1>5. UnwrittenTakeable'
  BY DEF MarkDelivered, UnwrittenTakeable, Write
<1>6. HolderOwnsRow'
  BY DEF Goto, HolderOwnsRow, Holding, MarkDelivered, OneHolder, Release, Rest,
     WorkersTypeOK, Write, claim
<1>7. SendsBalanced'
  BY DEF HistoryTypeOK, HolderOwnsRow, MarkDelivered, Open, RowsTypeOK, SendsBalanced,
     Write, history
<1>8. SendsInHand'
  BY DEF Goto, MarkDelivered, OneHolder, Release, Rest, RowsTypeOK, SendsInHand,
     WorkersTypeOK, Write, claim, history
<1>9. DeliveredMeansSent'
  BY DEF DeliveredMeansSent, MarkDelivered, SendsInHand, Write, history
<1> QED BY <1>1, <1>2, <1>3, <1>4, <1>5, <1>6, <1>7, <1>8, <1>9

\* A lost answer leaves the holder with a row that is settled already.
LEMMA MarkDeliveredFailsStep ==
  ASSUME IndInv, MaxStalls = 0, NEW w \in Workers, MarkDeliveredFails(w)
  PROVE  IndInv'
<1> USE DeliveryAssumption DEF IndInv, TypeOK
<1>1. RowsTypeOK'
  <2>1. CASE Write(hand[w], "DELIVERED", attempt[w], 0)
    BY <2>1 DEF HolderOwnsRow, MarkDeliveredFails, RowsTypeOK, Terminal, WorkersTypeOK,
       Write, rows
  <2>2. CASE UNCHANGED <<rows, unwritten>>
    BY <2>2 DEF HolderOwnsRow, MarkDeliveredFails, RowsTypeOK, Terminal, WorkersTypeOK,
       Write, rows
  <2> QED BY <2>1, <2>2 DEF MarkDeliveredFails
<1>2. WorkersTypeOK'
  BY DEF Holding, MarkDeliveredFails, WorkersTypeOK, Write, claim
<1>3. HistoryTypeOK'
  BY DEF HistoryTypeOK, MarkDeliveredFails, Write, history
<1>4. OneHolder'
  BY DEF MarkDeliveredFails, OneHolder, Write
<1>5. UnwrittenTakeable'
  BY DEF MarkDeliveredFails, RowsTypeOK, UnwrittenTakeable, WorkersTypeOK, Write, rows
<1>6. HolderOwnsRow'
  BY DEF HolderOwnsRow, Holding, MarkDeliveredFails, OneHolder, RowsTypeOK,
     WorkersTypeOK, Write, claim, rows
<1>7. SendsBalanced'
  <2>1. CASE Write(hand[w], "DELIVERED", attempt[w], 0)
    BY <2>1 DEF HistoryTypeOK, HolderOwnsRow, MarkDeliveredFails, Open, RowsTypeOK,
       SendsBalanced, Write, history, rows
  <2>2. CASE UNCHANGED <<rows, unwritten>>
    BY <2>2 DEF HistoryTypeOK, HolderOwnsRow, MarkDeliveredFails, Open, RowsTypeOK,
       SendsBalanced, Write, history, rows
  <2> QED BY <2>1, <2>2 DEF MarkDeliveredFails
<1>8. SendsInHand'
  BY DEF HolderOwnsRow, MarkDeliveredFails, OneHolder, RowsTypeOK, SendsInHand,
     WorkersTypeOK, Write, claim, history, rows
<1>9. DeliveredMeansSent'
  BY DEF DeliveredMeansSent, MarkDeliveredFails, RowsTypeOK, SendsInHand, Write,
     history, rows
<1> QED BY <1>1, <1>2, <1>3, <1>4, <1>5, <1>6, <1>7, <1>8, <1>9

\* That row is then settled as FAILED; any other gives up its attempt.
LEMMA MarkFailedStep ==
  ASSUME IndInv, MaxStalls = 0, NEW w \in Workers, MarkFailed(w)
  PROVE  IndInv'
<1> USE DeliveryAssumption DEF IndInv, TypeOK
<1>1. RowsTypeOK'
  <2>1. hand[w] \in Deliveries /\ attempt[w] \in 0 .. MaxAttempts
    BY DEF MarkFailed, HolderOwnsRow, WorkersTypeOK, Holding
  <2>2. Backoff(w) \in 0 .. LaterDelay
    BY DEF Backoff, WorkersTypeOK
  <2> QED BY <2>1, <2>2 DEF MarkFailed, FailRow, Write, RowsTypeOK, Open, Terminal, rows
<1>2. WorkersTypeOK'
  BY DEF Backoff, FailRow, Final, Goto, MarkFailed, Release, Rest, WorkersTypeOK,
     Write, claim
<1>3. HistoryTypeOK'
  BY DEF Backoff, FailRow, Final, HistoryTypeOK, MarkFailed, Write, history
<1>4. OneHolder'
  BY DEF Backoff, FailRow, Final, MarkFailed, OneHolder, Release, Write, claim
<1>5. UnwrittenTakeable'
  BY DEF Backoff, FailRow, Final, MarkFailed, RowsTypeOK, UnwrittenTakeable,
     WorkersTypeOK, Write
<1>6. HolderOwnsRow'
  BY DEF Backoff, FailRow, Final, Goto, HolderOwnsRow, Holding, MarkFailed, OneHolder,
     Release, Rest, RowsTypeOK, WorkersTypeOK, Write, claim
<1>7. SendsBalanced'
  BY DEF Backoff, FailRow, Final, HistoryTypeOK, HolderOwnsRow, MarkFailed, Open,
     RowsTypeOK, SendsBalanced, SendsInHand, Write, history
<1>8. SendsInHand'
  BY DEF Backoff, FailRow, Final, Goto, HolderOwnsRow, Holding, MarkFailed, OneHolder,
     Release, Rest, RowsTypeOK, SendsInHand, WorkersTypeOK, Write, claim, history
<1>9. DeliveredMeansSent'
  BY DEF Backoff, DeliveredMeansSent, FailRow, Final, MarkFailed, RowsTypeOK, Write,
     history
<1> QED BY <1>1, <1>2, <1>3, <1>4, <1>5, <1>6, <1>7, <1>8, <1>9

\* The same when the answer is lost; otherwise the row waits to be reclaimed.
LEMMA MarkFailedFailsStep ==
  ASSUME IndInv, MaxStalls = 0, NEW w \in Workers, MarkFailedFails(w)
  PROVE  IndInv'
<1> USE DeliveryAssumption DEF IndInv, TypeOK
<1>1. RowsTypeOK'
  <2>1. hand[w] \in Deliveries /\ attempt[w] \in 0 .. MaxAttempts
    BY DEF MarkFailedFails, HolderOwnsRow, WorkersTypeOK, Holding
  <2>2. Backoff(w) \in 0 .. LaterDelay
    BY DEF Backoff, WorkersTypeOK
  <2> QED BY <2>1, <2>2 DEF MarkFailedFails, FailRow, Write, RowsTypeOK, Open, Terminal,
     rows
<1>2. WorkersTypeOK'
  BY DEF Backoff, Drop, FailRow, Final, Goto, MarkFailedFails, Release, WorkersTypeOK,
     Write, claim
<1>3. HistoryTypeOK'
  BY DEF Backoff, Drop, FailRow, Final, HistoryTypeOK, MarkFailedFails, Write, history
<1>4. OneHolder'
  BY DEF Backoff, Drop, FailRow, Final, MarkFailedFails, OneHolder, Release, Write,
     claim
<1>5. UnwrittenTakeable'
  BY DEF Backoff, FailRow, Final, MarkFailedFails, RowsTypeOK, UnwrittenTakeable,
     WorkersTypeOK, Write, rows
<1>6. HolderOwnsRow'
  BY DEF Backoff, Drop, FailRow, Final, Goto, HolderOwnsRow, Holding, MarkFailedFails,
     OneHolder, Release, RowsTypeOK, WorkersTypeOK, Write, claim, rows
<1>7. SendsBalanced'
  <2>1. CASE FailRow(w)
    BY <2>1 DEF Backoff, FailRow, Final, HistoryTypeOK, HolderOwnsRow, MarkFailedFails,
       Open, RowsTypeOK, SendsBalanced, Terminal, Write, history, rows
  <2>2. CASE UNCHANGED <<rows, unwritten>>
    BY <2>2 DEF Backoff, FailRow, Final, HistoryTypeOK, HolderOwnsRow, MarkFailedFails,
       Open, RowsTypeOK, SendsBalanced, Terminal, Write, history, rows
  <2> QED BY <2>1, <2>2 DEF MarkFailedFails
<1>8. SendsInHand'
  BY DEF Backoff, Drop, FailRow, Final, Goto, HolderOwnsRow, MarkFailedFails,
     OneHolder, Release, RowsTypeOK, SendsInHand, WorkersTypeOK, Write, claim,
     history, rows
<1>9. DeliveredMeansSent'
  BY DEF Backoff, DeliveredMeansSent, FailRow, Final, MarkFailedFails, RowsTypeOK,
     Write, history, rows
<1> QED BY <1>1, <1>2, <1>3, <1>4, <1>5, <1>6, <1>7, <1>8, <1>9

\* After a crash nobody holds anything.
LEMMA CrashStep ==
  ASSUME IndInv, MaxStalls = 0, Crash
  PROVE  IndInv'
<1> USE DeliveryAssumption DEF IndInv, TypeOK
<1>1. RowsTypeOK'
  BY DEF Crash, RowsTypeOK, rows
<1>2. WorkersTypeOK'
  BY DEF Crash, WorkersTypeOK, claim
<1>3. HistoryTypeOK'
  BY DEF Crash, HistoryTypeOK, history
<1>4. OneHolder'
  BY DEF Crash, OneHolder, claim
<1>5. UnwrittenTakeable'
  BY DEF Crash, UnwrittenTakeable, rows
<1>6. HolderOwnsRow'
  BY DEF Crash, HolderOwnsRow, Holding, claim, rows
<1>7. SendsBalanced'
  BY DEF Crash, SendsBalanced, history, rows
<1>8. SendsInHand'
  BY DEF Crash, SendsInHand, claim, history, rows
<1>9. DeliveredMeansSent'
  BY DEF Crash, DeliveredMeansSent, history, rows
<1> QED BY <1>1, <1>2, <1>3, <1>4, <1>5, <1>6, <1>7, <1>8, <1>9
------------------------------------------------------------------------------

\* An empty table and idle workers satisfy the invariant.
LEMMA InitInv == Init => IndInv
<1> SUFFICES ASSUME Init PROVE IndInv OBVIOUS
<1> USE DeliveryAssumption DEF Init, Open, Terminal, Holding
<1>1. TypeOK BY DEF TypeOK, RowsTypeOK, WorkersTypeOK, HistoryTypeOK
<1>2. OneHolder /\ UnwrittenTakeable /\ HolderOwnsRow
  BY DEF OneHolder, UnwrittenTakeable, HolderOwnsRow
<1>3. SendsBalanced /\ SendsInHand /\ DeliveredMeansSent
  BY DEF SendsBalanced, SendsInHand, DeliveredMeansSent
<1> QED BY <1>1, <1>2, <1>3 DEF IndInv

\* So does a step that changes nothing.
LEMMA StutterStep == ASSUME IndInv, UNCHANGED vars PROVE IndInv'
<1> USE DEF IndInv, vars, rows, worker, claim, history
<1>1. TypeOK' BY DEF TypeOK, RowsTypeOK, WorkersTypeOK, HistoryTypeOK
<1>2. (OneHolder /\ UnwrittenTakeable /\ HolderOwnsRow)'
  BY DEF OneHolder, UnwrittenTakeable, HolderOwnsRow, Holding
<1>3. (SendsBalanced /\ SendsInHand /\ DeliveredMeansSent)'
  BY DEF SendsBalanced, SendsInHand, DeliveredMeansSent
<1> QED BY <1>1, <1>2, <1>3

\* Every step preserves the invariant.
LEMMA NextStep == ASSUME IndInv, MaxStalls = 0, [Next]_vars PROVE IndInv'
<1>1. CASE UNCHANGED vars BY <1>1, StutterStep
<1>2. ASSUME NEW new \in SUBSET Deliveries, Insert(new) PROVE IndInv' BY <1>2, InsertStep
<1>3. CASE Tick BY <1>3, TickStep
<1>4. ASSUME NEW w \in Workers, FindDue(w) PROVE IndInv' BY <1>4, FindDueStep
<1>5. ASSUME NEW w \in Workers, Proceed(w) PROVE IndInv'
  BY <1>5, ClaimStep, ClaimLostStep, SendAcceptedStep, SendUncertainStep, SendRejectedStep,
     MarkDeliveredStep, MarkFailedStep DEF Proceed
<1>6. ASSUME NEW w \in Workers, Fault(w) PROVE IndInv'
  BY <1>6, ClaimFailsStep, MarkDeliveredFailsStep, MarkFailedFailsStep DEF Fault
<1>7. CASE Crash BY <1>7, CrashStep
<1> QED BY <1>1, <1>2, <1>3, <1>4, <1>5, <1>6, <1>7 DEF Next

\* The invariant holds in every state.
THEOREM Invariance == MaxStalls = 0 /\ Spec => []IndInv
<1>1. MaxStalls = 0 /\ IndInv /\ [Next]_vars => IndInv' BY NextStep
<1> SUFFICES ASSUME MaxStalls = 0 PROVE Spec => []IndInv OBVIOUS
<1>2. IndInv /\ [Next]_vars => IndInv' BY <1>1
<1> QED BY <1>2, InitInv, PTL DEF Spec

\* Rows, workers and history stay in their types: no attempt count passes the
\* cap although a failed, interrupted or repeated mark may write it again.
THEOREM TypeCorrect == MaxStalls = 0 /\ Spec => []TypeOK
<1>1. IndInv => TypeOK BY DEF IndInv
<1> QED BY <1>1, Invariance, PTL

\* No two workers ever have the same row in hand.
THEOREM ExclusiveHolder == MaxStalls = 0 /\ Spec => []OneHolder
<1>1. IndInv => OneHolder BY DEF IndInv
<1> QED BY <1>1, Invariance, PTL

\* A recipient gets at most max_attempts messages and one more per reclaim.
THEOREM SendsSafe == MaxStalls = 0 /\ Spec => []SendsBounded
<1>1. IndInv => SendsBounded
  <2> SUFFICES ASSUME IndInv, NEW d \in Deliveries PROVE sends[d] <= MaxAttempts + reclaims[d]
    BY DEF SendsBounded
  <2>1. /\ sends[d] <= attempts[d] + reclaims[d] + (IF state[d] = "PROCESSING" THEN 1 ELSE 0)
        /\ state[d] = "PROCESSING" => attempts[d] < MaxAttempts
    BY DEF IndInv, SendsBalanced, Open
  <2>2. attempts[d] \in 0 .. MaxAttempts /\ sends[d] \in Nat /\ reclaims[d] \in Nat
    BY DEF IndInv, TypeOK, RowsTypeOK, HistoryTypeOK
  <2> QED BY <2>1, <2>2, DeliveryAssumption
<1> QED BY <1>1, Invariance, PTL

\* What is recorded as DELIVERED was sent.
THEOREM DeliveredSafe == MaxStalls = 0 /\ Spec => []DeliveredMeansSent
<1>1. IndInv => DeliveredMeansSent BY DEF IndInv
<1> QED BY <1>1, Invariance, PTL

\* A settled row stays settled: the compare-and-set protects it from claims,
\* and a mark, though it writes by id, finds the holder's own row.
LEMMA SettledStep ==
  ASSUME IndInv, [Next]_vars, NEW d \in Deliveries, state[d] \in Terminal
  PROVE  state'[d] \in Terminal
<1> USE DEF Terminal, rows
<1>1. /\ state[d] \notin Open /\ state[d] # "NONE"
      /\ state \in [Deliveries -> {"NONE"} \union Open \union Terminal]
  BY DEF Open, IndInv, TypeOK, RowsTypeOK
<1>2. CASE UNCHANGED vars BY <1>2 DEF vars
<1>3. CASE \E new \in SUBSET Deliveries : Insert(new) BY <1>1, <1>3 DEF Insert
<1>4. CASE Tick \/ Crash \/ \E w \in Workers : FindDue(w)
  BY <1>4 DEF Tick, Crash, FindDue
<1>5. ASSUME NEW w \in Workers, NEW e \in Deliveries, Claim(w, e) \/ ClaimFails(w, e)
      PROVE  state'[d] = state[d]
  BY <1>1, <1>5 DEF Claim, ClaimFails, Claimable, ClaimRow, Write, IndInv, UnwrittenTakeable, Open
<1>6. ASSUME NEW w \in Workers, MarkDelivered(w) \/ MarkDeliveredFails(w)
      PROVE  state'[d] \in Terminal
  BY <1>1, <1>6 DEF MarkDelivered, MarkDeliveredFails, Write
<1>7. ASSUME NEW w \in Workers, MarkFailed(w) \/ MarkFailedFails(w)
      PROVE  state'[d] \in Terminal
  <2>1. hand[w] = d => Final(w)
    BY <1>1, <1>7 DEF MarkFailed, MarkFailedFails, IndInv, HolderOwnsRow, Holding, Final, Open
  <2>2. CASE FailRow(w) BY <1>1, <2>1, <2>2 DEF FailRow, Write
  <2>3. CASE UNCHANGED rows BY <2>3
  <2> QED BY <1>7, <2>2, <2>3 DEF MarkFailed, MarkFailedFails
<1>8. ASSUME NEW w \in Workers,
             \/ \E e \in Deliveries : ClaimLost(w, e)
             \/ SendAccepted(w) \/ SendUncertain(w) \/ SendRejected(w)
      PROVE  state'[d] = state[d]
  BY <1>8 DEF ClaimLost, SendAccepted, SendUncertain, SendRejected
<1> QED BY <1>2, <1>3, <1>4, <1>5, <1>6, <1>7, <1>8 DEF Next, Proceed, Fault

\* A finished delivery is never taken up again.
THEOREM Finality == MaxStalls = 0 /\ Spec => NeverReopened
<1>1. IndInv /\ [Next]_vars =>
        (\A d \in Deliveries : state[d] \in Terminal => state'[d] \in Terminal)
  BY SettledStep
<1> QED BY <1>1, Invariance, PTL DEF Spec, NeverReopened

==============================================================================
