----------------------- MODULE NotificationIntake_proofs ----------------------
(***************************************************************************)
(* Event intake only ever works the ledger the way NotificationDelivery    *)
(* allows: its composition with the ledger implements the ledger alone, so *)
(* the theorems of NotificationDelivery_proofs hold for it too.  Then what *)
(* intake itself answers is shown to be true, for any number of requests,  *)
(* and the gate that requests pass before they are handled (HttpGate) to   *)
(* keep its buckets.                                                       *)
(***************************************************************************)
EXTENDS NotificationIntake, NotificationDelivery_proofs, HttpGate, FiniteSetTheorems

\* What a request does to the ledger when every call succeeds.
LEMMA ServeLedger == ASSUME NEW r \in Requests, Serve(r) PROVE [Next]_vars
<1>1. r \in Workers BY IntakeAssumption
<1>2. CASE Accept(r)
  <2>1. Insert(Eligible[r] \intersect Deliveries) BY <1>2 DEF Accept, CreateEvent
  <2> QED BY <2>1 DEF Next
<1>3. CASE Round(r) BY <1>1, <1>3 DEF Round, Next
<1>4. CASE Deliver(r) BY <1>1, <1>4 DEF Deliver, Next
<1>5. CASE \/ Begin(r) \/ Reject(r) \/ Replay(r) \/ Resume(r) \/ Summarise(r) \/ Record(r)
           \/ \E u \in Unrouted : Broadcast(r, u)
  BY <1>5 DEF Begin, Reject, Replay, Resume, Summarise, Record, Broadcast
<1> QED BY <1>2, <1>3, <1>4, <1>5 DEF Serve

\* What it does when one of them fails.
LEMMA ServeFailsLedger == ASSUME NEW r \in Requests, ServeFails(r) PROVE [Next]_vars
<1>1. r \in Workers BY IntakeAssumption
<1>2. CASE IntakeFails(r)
  <2>1. CASE CreateEvent(r)
    <3>1. Insert(Eligible[r] \intersect Deliveries) BY <2>1 DEF CreateEvent
    <3> QED BY <3>1 DEF Next
  <2>2. CASE UNCHANGED vars BY <2>2
  <2> QED BY <1>2, <2>1, <2>2 DEF IntakeFails
<1>3. CASE DeliverDegrades(r) BY <1>1, <1>3 DEF DeliverDegrades, Next, Fault
<1>4. CASE DeliverFails(r) BY <1>1, <1>4 DEF DeliverFails, Next, Fault
<1>5. CASE SummariseFails(r) \/ RecordFails(r) BY <1>5 DEF SummariseFails, RecordFails
<1> QED BY <1>2, <1>3, <1>4, <1>5 DEF ServeFails

\* Every step of the composition is a step of the ledger or leaves it alone.
LEMMA LedgerStep == ASSUME [IntakeNext]_ivars PROVE [Next]_vars
<1>1. CASE UNCHANGED ivars BY <1>1 DEF ivars
<1>2. CASE \E r \in Requests : Serve(r) \/ ServeFails(r)
  BY <1>2, ServeLedger, ServeFailsLedger
<1>3. CASE \E w \in Workers : Schedule(w) BY <1>3 DEF Schedule, Next
<1>4. CASE Pass BY <1>4 DEF Pass, Next
<1>5. CASE CrashAll BY <1>5 DEF CrashAll, Next
<1> QED BY <1>1, <1>2, <1>3, <1>4, <1>5 DEF IntakeNext

\* The composition implements the ledger: a request inserts whole events, and
\* otherwise only finds, claims, sends and marks as every worker does.
THEOREM Ledger == IntakeSpec => DeliveryLedger
<1>1. IntakeInit => Init BY DEF IntakeInit
<1>2. [IntakeNext]_ivars => [Next]_vars BY LedgerStep
<1> QED BY <1>1, <1>2, PTL DEF IntakeSpec, DeliveryLedger

\* So requests and the scheduler never have the same row in hand,
\* nobody gets more messages than attempts and reclaims account for, and what
\* is settled stays settled.
THEOREM IntakeSafe ==
  MaxStalls = 0 /\ IntakeSpec =>
    []OneHolder /\ []SendsBounded /\ []DeliveredMeansSent /\ NeverReopened
<1>1. DeliveryLedger => Spec BY DEF DeliveryLedger, Spec
<1> QED BY <1>1, Ledger, ExclusiveHolder, SendsSafe, DeliveredSafe, Finality

------------------------------------------------------------------------------
(* What requests are answered: IntakeIndInv is inductive. *)

\* Failures are only counted up, and what reached a recipient of the ledger
\* stays so.
LEMMA History ==
  ASSUME IndInv, [Next]_vars
  PROVE  /\ faults \in Nat /\ faults' \in Nat /\ faults' >= faults
         /\ \A d \in Deliveries : sends[d] > 0 => sends'[d] > 0
<1> USE DEF IndInv, TypeOK, WorkersTypeOK, HistoryTypeOK, HolderOwnsRow, Holding, history
<1>0. faults \in Nat BY DeliveryAssumption
<1>1. CASE UNCHANGED vars BY <1>0, <1>1 DEF vars
<1>2. CASE \E new \in SUBSET Deliveries : Insert(new) BY <1>0, <1>2 DEF Insert
<1>3. CASE Tick BY <1>0, <1>3 DEF Tick
<1>4. ASSUME NEW w \in Workers, FindDue(w)
      PROVE  faults' = faults /\ sends' = sends
  BY <1>4 DEF FindDue
<1>5. ASSUME NEW w \in Workers, Proceed(w)
      PROVE  /\ faults' = faults
             /\ \A d \in Deliveries : sends[d] > 0 => sends'[d] > 0
  <2>1. CASE \E d \in Deliveries : Claim(w, d) \/ ClaimLost(w, d)
    BY <2>1 DEF Claim, ClaimLost
  <2>2. CASE SendAccepted(w) \/ SendUncertain(w)
    BY <1>5, <2>2 DEF SendAccepted, SendUncertain
  <2>3. CASE SendRejected(w) \/ MarkDelivered(w) \/ MarkFailed(w)
    BY <2>3 DEF SendRejected, MarkDelivered, MarkFailed
  <2> QED BY <1>5, <2>1, <2>2, <2>3 DEF Proceed
<1>6. ASSUME NEW w \in Workers, Fault(w)
      PROVE  faults' = faults + 1 /\ sends' = sends
  BY <1>6 DEF Fault, ClaimFails, MarkDeliveredFails, MarkFailedFails, Drop
<1>7. CASE Crash BY <1>0, <1>7 DEF Crash
<1> QED BY <1>0, <1>1, <1>2, <1>3, <1>4, <1>5, <1>6, <1>7 DEF Next

\* Nobody loses a message they got.
LEMMA ReceivedStays ==
  ASSUME IndInv, [Next]_vars,
         mails \in [Unrouted -> Nat], mails' \in [Unrouted -> Nat],
         \A u \in Unrouted : mails[u] <= mails'[u]
  PROVE  \A c \in Recipients : Received(c) => Received(c)'
<1>1. \A d \in Deliveries : sends[d] > 0 => sends'[d] > 0 BY History
<1> QED BY <1>1 DEF Received, Unrouted

\* A step after which nobody is told more, and which accounts for a broadcast
\* it ends by a failure, leaves what is told true and repeats explained.
LEMMA Aside ==
  ASSUME IntakeIndInv, [Next]_vars,
         UNCHANGED <<stored, counts, mails>>,
         lapses' \in Nat, lapses <= lapses',
         \A r \in Requests :
           /\ stage'[r] = "broadcast" => stage[r] = "broadcast" /\ direct'[r] = direct[r]
           /\ stage'[r] = "answered" => stage[r] = "answered",
         \/ faults + lapses < faults' + lapses'
         \/ \A r \in Requests : stage[r] = "broadcast" => stage'[r] = "broadcast"
  PROVE  CountsTrue' /\ MailsBalanced'
<1> USE DEF IntakeIndInv
<1>1. faults \in Nat /\ faults' \in Nat /\ faults' >= faults BY History
<1>2. mails \in [Unrouted -> Nat] /\ lapses \in Nat
  BY IntakeAssumption DEF IntakeTypeOK
<1>3. \A c \in Recipients : Received(c) => Received(c)'
  BY <1>2, ReceivedStays
<1>4. expansion \subseteq Recipients BY DEF IntakeTypeOK
<1>5. CountsTrue'
  BY <1>3, <1>4 DEF CountsTrue, Told, Answered, stored
<1>6. MailsBalanced'
  BY <1>1, <1>2 DEF MailsBalanced, stored
<1> QED BY <1>5, <1>6

\* The operation of a request that is running may only be its own, so no other
\* request is running.
LEMMA OneRuns ==
  ASSUME IntakeOrder, NEW r \in Requests, stage[r] \in Running
  PROVE  owner = r /\ \A q \in Requests : q # r => stage[q] \notin Running
BY DEF IntakeOrder

LEMMA BeginStep ==
  ASSUME IntakeIndInv, IndInv', [Next]_vars, NEW r \in Requests, Begin(r)
  PROVE  IntakeIndInv'
<1> USE IntakeAssumption DEF IntakeIndInv, Begin
<1>1. IntakeTypeOK' BY DEF IntakeTypeOK, IndInv, stored, Running
<1>2. IntakeOrder' BY DEF IntakeOrder, IntakeTypeOK, Free, Running, Answered, stored
<1>3. CountsTrue' /\ MailsBalanced'
  <2>1. \A q \in Requests :
          /\ stage'[q] = "broadcast" => stage[q] = "broadcast" /\ direct'[q] = direct[q]
          /\ stage'[q] = "answered" => stage[q] = "answered"
          /\ stage[q] = "broadcast" => stage'[q] = "broadcast"
    BY DEF IntakeTypeOK
  <2>2. lapses \in Nat BY DEF IntakeTypeOK
  <2> QED BY <2>1, <2>2, Aside
<1> QED BY <1>1, <1>2, <1>3

\* The event is recorded for the first time: nobody has been told anything.
LEMMA CreateStep ==
  ASSUME IntakeIndInv, [Next]_vars, NEW r \in Requests, CreateEvent(r),
         UNCHANGED <<counts, mails>>,
         lapses' \in Nat, lapses <= lapses',
         \A q \in Requests : stage'[q] # "broadcast" /\ (stage'[q] = "answered" => stage[q] = "answered")
  PROVE  CountsTrue' /\ MailsBalanced'
<1> USE DEF IntakeIndInv
<1>1. faults \in Nat /\ faults' \in Nat /\ faults' >= faults BY History
<1>2. mails \in [Unrouted -> Nat] /\ lapses \in Nat
  BY IntakeAssumption DEF IntakeTypeOK
<1>3. \A q \in Requests : stage[q] # "broadcast" /\ stage[q] # "answered"
  BY DEF CreateEvent, IntakeOrder, Answered
<1>4. CountsTrue'
  BY <1>3 DEF CountsTrue, CreateEvent, Answered
<1>5. MailsBalanced'
  BY <1>1, <1>2, <1>3 DEF MailsBalanced, CreateEvent
<1> QED BY <1>4, <1>5

LEMMA AcceptStep ==
  ASSUME IntakeIndInv, IndInv', [Next]_vars, NEW r \in Requests, Accept(r)
  PROVE  IntakeIndInv'
<1> USE IntakeAssumption DEF IntakeIndInv
<1>1. IntakeTypeOK'
  BY DEF IntakeTypeOK, IndInv, Accept, CreateEvent, Advance, Running
<1>2. IntakeOrder'
  BY DEF IntakeOrder, IntakeTypeOK, Accept, CreateEvent, Advance, Running, Answered
<1>3. \A q \in Requests : stage'[q] # "broadcast" /\ (stage'[q] = "answered" => stage[q] = "answered")
  BY DEF IntakeOrder, IntakeTypeOK, Accept, CreateEvent, Advance
<1>4. CountsTrue' /\ MailsBalanced'
  <2>1. lapses \in Nat BY DEF IntakeTypeOK
  <2> QED BY <1>3, <2>1, CreateStep DEF Accept
<1> QED BY <1>1, <1>2, <1>4

\* A step of the ledger that no request is moved by.
LEMMA QuietStep ==
  ASSUME IntakeIndInv, IndInv', [Next]_vars,
         UNCHANGED <<stored, owner, stage, direct, counts, mails, lapses>>,
         rounds' \in [Requests -> 0 .. MaxRounds],
         attempted' \in [Requests -> SUBSET Deliveries]
  PROVE  IntakeIndInv'
<1> USE IntakeAssumption DEF IntakeIndInv
<1>1. IntakeTypeOK' BY DEF IntakeTypeOK, IndInv, stored
<1>2. IntakeOrder' BY DEF IntakeOrder, Answered, stored
<1>3. lapses \in Nat BY DEF IntakeTypeOK
<1>4. CountsTrue' /\ MailsBalanced' BY <1>3, Aside
<1> QED BY <1>1, <1>2, <1>4

LEMMA RoundStep ==
  ASSUME IntakeIndInv, IndInv', [Next]_vars, NEW r \in Requests, Round(r)
  PROVE  IntakeIndInv'
<1> USE IntakeAssumption
<1>1. rounds' \in [Requests -> 0 .. MaxRounds] /\ attempted' \in [Requests -> SUBSET Deliveries]
  BY DEF Round, IntakeIndInv, IntakeTypeOK
<1>2. UNCHANGED <<stored, owner, stage, direct, counts, mails, lapses>>
  BY DEF Round
<1> QED BY <1>1, <1>2, QuietStep

LEMMA DeliverStep ==
  ASSUME IntakeIndInv, IndInv', [Next]_vars, NEW r \in Requests, Deliver(r)
  PROVE  IntakeIndInv'
<1>1. hand'[r] \in Deliveries \union {None}
  BY IntakeAssumption DEF IndInv, TypeOK, WorkersTypeOK
<1>2. rounds' \in [Requests -> 0 .. MaxRounds] /\ attempted' \in [Requests -> SUBSET Deliveries]
  BY <1>1 DEF Deliver, IntakeIndInv, IntakeTypeOK
<1>3. UNCHANGED <<stored, owner, stage, direct, counts, mails, lapses>>
  BY DEF Deliver
<1> QED BY <1>2, <1>3, QuietStep

LEMMA DegradesStep ==
  ASSUME IntakeIndInv, IndInv', [Next]_vars, NEW r \in Requests, DeliverDegrades(r)
  PROVE  IntakeIndInv'
<1>1. UNCHANGED <<stored, request, mails, lapses>> BY DEF DeliverDegrades
<1>2. UNCHANGED <<stored, owner, stage, rounds, attempted, direct, counts, mails, lapses>>
  BY <1>1 DEF request
<1> QED BY <1>2, QuietStep DEF IntakeIndInv, IntakeTypeOK

LEMMA ElsewhereStep ==
  ASSUME IntakeIndInv, IndInv', [Next]_vars,
         (\E w \in Workers : Schedule(w)) \/ Pass \/ UNCHANGED ivars
  PROVE  IntakeIndInv'
<1>1. UNCHANGED <<stored, request, mails, lapses>> BY DEF Schedule, Pass, ivars
<1>2. UNCHANGED <<stored, owner, stage, rounds, attempted, direct, counts, mails, lapses>>
  BY <1>1 DEF request
<1> QED BY <1>2, QuietStep DEF IntakeIndInv, IntakeTypeOK

\* A request that runs settles without an answer of its own to give.
LEMMA SettledOrder ==
  ASSUME IntakeTypeOK, IntakeOrder, NEW r \in Requests, stage[r] \in Running,
         NEW outcome \in {"conflict", "error"}, Settle(r, outcome),
         \/ UNCHANGED stored
         \/ CreateEvent(r)
         \/ RecordSummary(r)
  PROVE  IntakeOrder'
<1>1. \A q \in Requests : q # r => stage[q] \notin Running BY OneRuns
<1>2. \A q \in Requests : stage'[q] = IF q = r THEN outcome ELSE stage[q]
  BY DEF IntakeTypeOK, Settle
<1>3. \A q \in Requests : stage'[q] \notin Running
  BY <1>1, <1>2 DEF Running
<1>4. \A q \in Requests : stage'[q] = "answered" => stage[q] = "answered"
  BY <1>2
<1>5. \A q \in Requests : stage'[q] = "answered" => event' = "dispatched" /\ payload' = Payload[q]
  BY <1>4 DEF IntakeOrder, Answered, stored, CreateEvent, RecordSummary, Unrecorded
<1>6. owner' = None BY DEF Settle
<1> QED BY <1>3, <1>5, <1>6, IntakeAssumption DEF IntakeOrder, Answered, Running

\* The same for its place in the types.
LEMMA SettledType ==
  ASSUME IntakeTypeOK, TypeOK', NEW r \in Requests,
         NEW outcome \in {"answered", "conflict", "error"}, Settle(r, outcome),
         event' \in {"none", "accepted", "dispatched"},
         payload' \in {Payload[q] : q \in Requests} \union {None},
         expansion' \in SUBSET Recipients,
         summary' \in [sent : Nat, failed : Nat],
         counts' \in [Requests -> [sent : Nat, failed : Nat]],
         UNCHANGED mails, lapses' \in 0 .. MaxLapses
  PROVE  IntakeTypeOK'
<1>1. owner' \in Requests \union {None} BY DEF Settle
<1>2. stage' \in [Requests -> {"new", "answered", "conflict", "error"} \union Running]
  BY DEF IntakeTypeOK, Settle
<1>3. rounds' \in [Requests -> 0 .. MaxRounds]
  BY IntakeAssumption DEF IntakeTypeOK, Settle
<1>4. attempted' \in [Requests -> SUBSET Deliveries] /\ direct' \in [Requests -> SUBSET Unrouted]
  BY DEF IntakeTypeOK, Settle
<1>5. mails' \in [Unrouted -> Nat] BY DEF IntakeTypeOK
<1> QED BY <1>1, <1>2, <1>3, <1>4, <1>5 DEF IntakeTypeOK

\* A request fails, and the failure is counted.
LEMMA AbortStep ==
  ASSUME IntakeIndInv, IndInv', [Next]_vars, NEW r \in Requests, stage[r] \in Running,
         Settle(r, "error"), UNCHANGED <<stored, counts, mails>>,
         lapses' \in 0 .. MaxLapses, lapses <= lapses',
         faults + lapses < faults' + lapses'
  PROVE  IntakeIndInv'
<1> USE IntakeAssumption DEF IntakeIndInv
<1>1. IntakeTypeOK'
  <2>1. UNCHANGED <<event, payload, expansion, summary, counts, mails>> BY DEF stored
  <2> QED BY <2>1, SettledType DEF IntakeTypeOK, IndInv
<1>2. IntakeOrder' BY SettledOrder
<1>3. \A q \in Requests : stage'[q] = IF q = r THEN "error" ELSE stage[q]
  BY DEF IntakeTypeOK, Settle
<1>4. \A q \in Requests : q # r => stage[q] \notin Running BY OneRuns
<1>5. \A q \in Requests : stage'[q] # "broadcast" /\ (stage'[q] = "answered" => stage[q] = "answered")
  BY <1>3, <1>4 DEF Running
<1>6. CountsTrue' /\ MailsBalanced'
  <2>1. lapses' \in Nat BY DEF IntakeTypeOK
  <2> QED BY <1>5, <2>1, Aside
<1> QED BY <1>1, <1>2, <1>6

LEMMA DeliverFailsStep ==
  ASSUME IntakeIndInv, IndInv', [Next]_vars, NEW r \in Requests, DeliverFails(r)
  PROVE  IntakeIndInv'
<1> USE IntakeAssumption DEF IntakeIndInv
<1>1. faults' = faults + 1
  BY DEF DeliverFails, MarkFailedFails, ClaimFails, Drop
<1>2. faults \in Nat /\ faults' \in Nat BY History
<1>3. lapses \in 0 .. MaxLapses /\ lapses' = lapses BY DEF DeliverFails, InBounds, IntakeTypeOK
<1> QED BY <1>1, <1>2, <1>3, AbortStep DEF DeliverFails, Running

LEMMA SummariseFailsStep ==
  ASSUME IntakeIndInv, IndInv', [Next]_vars, NEW r \in Requests, SummariseFails(r)
  PROVE  IntakeIndInv'
<1> USE IntakeAssumption DEF IntakeIndInv
<1>1. lapses \in 0 .. MaxLapses BY DEF IntakeTypeOK
<1>2. faults \in Nat /\ faults' \in Nat /\ faults' >= faults BY History
<1>3. lapses' = lapses + 1 /\ faults + lapses < MaxLapses BY DEF SummariseFails, Fail
<1>4. lapses' \in 0 .. MaxLapses /\ faults + lapses < faults' + lapses'
  BY <1>1, <1>2, <1>3
<1> QED BY <1>1, <1>3, <1>4, AbortStep DEF SummariseFails, Fail, Drained, Running

LEMMA IntakeFailsStep ==
  ASSUME IntakeIndInv, IndInv', [Next]_vars, NEW r \in Requests, IntakeFails(r)
  PROVE  IntakeIndInv'
<1> USE IntakeAssumption DEF IntakeIndInv
<1>1. lapses \in 0 .. MaxLapses BY DEF IntakeTypeOK
<1>2. faults \in Nat /\ faults' \in Nat /\ faults' >= faults BY History
<1>3. lapses' = lapses + 1 /\ faults + lapses < MaxLapses BY DEF IntakeFails, Fail
<1>4. lapses' \in 0 .. MaxLapses /\ faults + lapses < faults' + lapses'
  BY <1>1, <1>2, <1>3
<1>5. stage[r] \in Running /\ Settle(r, "error") BY DEF IntakeFails, Fail, Running
<1>6. CASE UNCHANGED stored
  BY <1>1, <1>3, <1>4, <1>5, <1>6, AbortStep DEF IntakeFails
<1>7. CASE CreateEvent(r)
  <2>1. IntakeTypeOK'
    <3>1. /\ event' = "accepted" /\ payload' = Payload[r] /\ expansion' = Eligible[r]
          /\ UNCHANGED <<summary, counts, mails>>
      BY <1>7 DEF CreateEvent, IntakeFails
    <3> QED BY <1>4, <1>5, <3>1, SettledType DEF IntakeTypeOK, IndInv
  <2>2. IntakeOrder' BY <1>5, <1>7, SettledOrder
  <2>3. \A q \in Requests : stage'[q] = IF q = r THEN "error" ELSE stage[q]
    BY <1>5 DEF IntakeTypeOK, Settle
  <2>4. \A q \in Requests : q # r => stage[q] \notin Running BY <1>5, OneRuns
  <2>5. \A q \in Requests : stage'[q] # "broadcast" /\ (stage'[q] = "answered" => stage[q] = "answered")
    BY <2>3, <2>4 DEF Running
  <2>6. lapses' \in Nat /\ lapses <= lapses' BY <1>1, <1>3, <1>4
  <2>7. CountsTrue' /\ MailsBalanced'
    BY <1>7, <2>5, <2>6, CreateStep DEF IntakeFails
  <2> QED BY <2>1, <2>2, <2>7
<1> QED BY <1>6, <1>7 DEF IntakeFails

LEMMA RejectStep ==
  ASSUME IntakeIndInv, IndInv', [Next]_vars, NEW r \in Requests, Reject(r)
  PROVE  IntakeIndInv'
<1> USE IntakeAssumption DEF IntakeIndInv
<1>1. stage[r] = "intake" /\ Settle(r, "conflict") BY DEF Reject
<1>2. UNCHANGED <<event, payload, expansion, summary, counts, mails, lapses>>
  BY DEF Reject, stored
<1>3. IntakeTypeOK' BY <1>1, <1>2, SettledType DEF IntakeTypeOK, IndInv
<1>4. IntakeOrder' BY <1>1, SettledOrder DEF Reject, Running
<1>5. \A q \in Requests : stage'[q] = IF q = r THEN "conflict" ELSE stage[q]
  BY <1>1 DEF IntakeTypeOK, Settle
<1>6. \A q \in Requests : q # r => stage[q] \notin Running BY <1>1, OneRuns DEF Running
<1>7. \A q \in Requests :
        /\ stage'[q] = "broadcast" => stage[q] = "broadcast" /\ direct'[q] = direct[q]
        /\ stage'[q] = "answered" => stage[q] = "answered"
        /\ stage[q] = "broadcast" => stage'[q] = "broadcast"
  BY <1>1, <1>5, <1>6 DEF Running
<1>8. CountsTrue' /\ MailsBalanced'
  <2>1. lapses \in Nat BY DEF IntakeTypeOK
  <2> QED BY <1>2, <1>7, <2>1, Aside DEF stored
<1> QED BY <1>3, <1>4, <1>8

LEMMA ResumeStep ==
  ASSUME IntakeIndInv, IndInv', [Next]_vars, NEW r \in Requests, Resume(r)
  PROVE  IntakeIndInv'
<1> USE IntakeAssumption DEF IntakeIndInv
<1>1. IntakeTypeOK'
  BY DEF IntakeTypeOK, IndInv, Resume, Advance, stored, Running
<1>2. \A q \in Requests : stage'[q] = IF q = r THEN "dispatch" ELSE stage[q]
  BY DEF IntakeTypeOK, Resume, Advance
<1>3. stage[r] = "intake" /\ event = "accepted" /\ payload = Payload[r]
  BY DEF Resume, Unrecorded, Conflicts
<1>4. UNCHANGED <<event, payload, owner, direct, counts, mails, lapses>>
  BY DEF Resume, Advance, stored
<1>5. IntakeOrder'
  BY <1>2, <1>3, <1>4 DEF IntakeOrder, Running, Answered
<1>6. CountsTrue' /\ MailsBalanced'
  <2>1. \A q \in Requests :
          /\ stage'[q] = "broadcast" => stage[q] = "broadcast" /\ direct'[q] = direct[q]
          /\ stage'[q] = "answered" => stage[q] = "answered"
          /\ stage[q] = "broadcast" => stage'[q] = "broadcast"
    BY <1>2, <1>3, <1>4
  <2>2. lapses \in Nat BY DEF IntakeTypeOK
  <2> QED BY <2>1, <2>2, Aside DEF Resume
<1> QED BY <1>1, <1>5, <1>6

LEMMA ReplayStep ==
  ASSUME IntakeIndInv, IndInv', [Next]_vars, NEW r \in Requests, Replay(r)
  PROVE  IntakeIndInv'
<1> USE IntakeAssumption DEF IntakeIndInv
<1>1. stage[r] = "intake" /\ Settle(r, "answered") BY DEF Replay
<1>2. UNCHANGED <<event, payload, expansion, summary, mails, lapses>>
  BY DEF Replay, stored
<1>3. event = "dispatched" /\ payload = Payload[r]
  BY DEF Replay, Unrecorded, Conflicts, IntakeTypeOK
<1>4. counts' \in [Requests -> [sent : Nat, failed : Nat]]
  BY DEF Replay, IntakeTypeOK
<1>5. IntakeTypeOK' BY <1>1, <1>2, <1>4, SettledType DEF IntakeTypeOK, IndInv
<1>6. \A q \in Requests : stage'[q] = IF q = r THEN "answered" ELSE stage[q]
  BY <1>1 DEF IntakeTypeOK, Settle
<1>7. \A q \in Requests : q # r => stage[q] \notin Running BY <1>1, OneRuns DEF Running
<1>8. IntakeOrder'
  BY <1>1, <1>2, <1>3, <1>6, <1>7 DEF IntakeOrder, Running, Answered, Settle
<1>9. \A q \in Requests : counts'[q] = IF q = r THEN summary ELSE counts[q]
  BY DEF Replay, IntakeTypeOK
<1>10. CountsTrue'
  <2>1. mails \in [Unrouted -> Nat] BY DEF IntakeTypeOK
  <2>2. \A x \in Recipients : Received(x) => Received(x)'
    BY <1>2, <2>1, ReceivedStays
  <2>3. expansion \subseteq Recipients BY DEF IntakeTypeOK
  <2>4. Told(summary, {}) BY <1>3 DEF CountsTrue
  <2>5. \A q \in Requests : stage'[q] # "broadcast"
    BY <1>6, <1>7 DEF Running
  <2>6. ASSUME NEW q \in Requests, stage'[q] = "answered"
        PROVE  Told(counts[q], {})'
    <3>1. CASE q = r
      BY <1>2, <1>9, <2>2, <2>3, <2>4, <3>1 DEF Told
    <3>2. CASE q # r
      <4>1. Told(counts[q], {}) BY <1>6, <2>6, <3>2 DEF CountsTrue, Answered
      <4> QED BY <1>2, <1>9, <2>2, <2>3, <3>2, <4>1 DEF Told
    <3> QED BY <3>1, <3>2
  <2>7. Told(summary, {})'
    BY <1>2, <2>2, <2>3, <2>4 DEF Told
  <2> QED BY <2>5, <2>6, <2>7 DEF CountsTrue, Answered
<1>11. MailsBalanced'
  <2>1. faults \in Nat /\ faults' \in Nat /\ faults' >= faults BY History
  <2>2. mails \in [Unrouted -> Nat] /\ lapses \in Nat BY DEF IntakeTypeOK
  <2> QED BY <1>2, <1>3, <2>1, <2>2 DEF MailsBalanced
<1> QED BY <1>5, <1>8, <1>10, <1>11

\* A part of a finite set and the rest of it.
LEMMA Split ==
  ASSUME NEW S, IsFiniteSet(S), NEW T \in SUBSET S
  PROVE  /\ IsFiniteSet(T) /\ IsFiniteSet(S \ T)
         /\ Cardinality(T) \in Nat /\ Cardinality(S \ T) \in Nat
         /\ Cardinality(S) = Cardinality(T) + Cardinality(S \ T)
<1>1. IsFiniteSet(T) BY FS_Subset
<1>2. S \intersect T = T OBVIOUS
<1>3. IsFiniteSet(S \ T) /\ Cardinality(S \ T) = Cardinality(S) - Cardinality(T)
  BY <1>2, FS_Difference
<1>4. Cardinality(S) \in Nat /\ Cardinality(T) \in Nat /\ Cardinality(S \ T) \in Nat
  BY <1>1, <1>3, FS_CardinalityType
<1> QED BY <1>1, <1>3, <1>4

\* What is on record is finite.
LEMMA FiniteRecord == ASSUME IntakeTypeOK PROVE IsFiniteSet(expansion)
BY IntakeAssumption, FS_Subset DEF IntakeTypeOK

LEMMA SummariseStep ==
  ASSUME IntakeIndInv, IndInv', [Next]_vars, NEW r \in Requests, Summarise(r)
  PROVE  IntakeIndInv'
<1> USE IntakeAssumption DEF IntakeIndInv
<1> DEFINE routed == expansion \intersect Deliveries
           delivered == {d \in routed : state[d] = "DELIVERED"}
           failed == Cardinality(routed \ delivered) + Cardinality(Missing(r))
           left == expansion \intersect Unrouted \intersect Eligible[r]
<1>1. /\ counts' = [counts EXCEPT ![r] = [sent |-> Cardinality(delivered), failed |-> failed]]
      /\ direct' = [direct EXCEPT ![r] = left]
  BY DEF Summarise
<1>2. stage[r] = "dispatch" /\ UNCHANGED <<event, payload, expansion, summary, owner, mails, lapses>>
  BY DEF Summarise, Drained, Advance, stored
<1>3. \A q \in Requests : stage'[q] = IF q = r THEN "broadcast" ELSE stage[q]
  BY DEF Summarise, Advance, IntakeTypeOK
<1>4. \A q \in Requests : q # r => stage[q] \notin Running BY <1>2, OneRuns DEF Running
<1>5. expansion \subseteq Recipients BY DEF IntakeTypeOK
<1>6. /\ Cardinality(delivered) \in Nat /\ failed \in Nat /\ Cardinality(left) \in Nat
      /\ Cardinality(delivered) + failed + Cardinality(left) = Cardinality(expansion)
      /\ failed = 0 => delivered = routed /\ expansion \ Deliveries \subseteq Eligible[r]
  <2> DEFINE rest == expansion \ routed
  <2>1. Missing(r) = rest \ left /\ left \in SUBSET rest
    BY <1>5 DEF Missing, Unrouted
  <2>2. IsFiniteSet(expansion) /\ routed \in SUBSET expansion /\ delivered \in SUBSET routed
    BY FiniteRecord
  <2>3. rest = expansion \ Deliveries /\ left \subseteq Eligible[r] OBVIOUS
  <2> HIDE DEF routed, delivered, left
  <2>4. /\ IsFiniteSet(routed) /\ IsFiniteSet(rest)
        /\ Cardinality(expansion) = Cardinality(routed) + Cardinality(rest)
    BY <2>2, Split
  <2> HIDE DEF rest
  <2>5. /\ IsFiniteSet(routed \ delivered)
        /\ Cardinality(delivered) \in Nat /\ Cardinality(routed \ delivered) \in Nat
        /\ Cardinality(routed) = Cardinality(delivered) + Cardinality(routed \ delivered)
    BY <2>2, <2>4, Split
  <2>6. /\ IsFiniteSet(Missing(r))
        /\ Cardinality(left) \in Nat /\ Cardinality(Missing(r)) \in Nat
        /\ Cardinality(rest) = Cardinality(left) + Cardinality(Missing(r))
    BY <2>1, <2>4, Split
  <2>7. Cardinality(routed \ delivered) = 0 => delivered = routed
    <3>1. Cardinality(routed \ delivered) = 0 => routed \ delivered = {} BY <2>5, FS_EmptySet
    <3> QED BY <2>2, <3>1
  <2>8. Cardinality(Missing(r)) = 0 => expansion \ Deliveries \subseteq Eligible[r]
    <3>1. Cardinality(Missing(r)) = 0 => Missing(r) = {} BY <2>6, FS_EmptySet
    <3> QED BY <2>1, <2>3, <3>1
  <2> QED BY <2>4, <2>5, <2>6, <2>7, <2>8
<1>7. failed = 0 => \A x \in expansion \ left : Received(x)
  <2>1. \A d \in delivered : sends[d] > 0 BY DEF IndInv, DeliveredMeansSent
  <2>2. SUFFICES ASSUME failed = 0, NEW x \in expansion \ left PROVE Received(x)
    OBVIOUS
  <2>3. delivered = routed /\ expansion \ Deliveries \subseteq Eligible[r] BY <1>6, <2>2
  <2>4. x \in Deliveries BY <1>5, <2>2, <2>3 DEF Unrouted
  <2> QED BY <2>1, <2>2, <2>3, <2>4 DEF Received
<1>8. left \subseteq expansion /\ left \subseteq Unrouted OBVIOUS
<1> HIDE DEF routed, delivered, failed, left
<1>9. IntakeTypeOK'
  <2>1. [sent |-> Cardinality(delivered), failed |-> failed] \in [sent : Nat, failed : Nat]
    BY <1>6
  <2>2. counts' \in [Requests -> [sent : Nat, failed : Nat]]
    BY <1>1, <2>1 DEF IntakeTypeOK
  <2>3. direct' \in [Requests -> SUBSET Unrouted]
    BY <1>1, <1>8 DEF IntakeTypeOK
  <2>4. stage' \in [Requests -> {"new", "answered", "conflict", "error"} \union Running]
    BY DEF Summarise, Advance, IntakeTypeOK, Running
  <2>5. UNCHANGED <<rounds, attempted>> BY DEF Summarise, Advance
  <2> QED BY <1>2, <2>2, <2>3, <2>4, <2>5 DEF IntakeTypeOK, IndInv
<1>10. IntakeOrder' BY <1>2, <1>3 DEF IntakeOrder, Running, Answered
<1>11. CountsTrue'
  <2>1. mails \in [Unrouted -> Nat] BY DEF IntakeTypeOK
  <2>2. \A x \in Recipients : Received(x) => Received(x)' BY <1>2, <2>1, ReceivedStays
  <2>3. Told(counts[r], direct[r])' /\ direct'[r] \subseteq expansion'
    <3>1. /\ counts'[r].sent = Cardinality(delivered) /\ counts'[r].failed = failed
          /\ direct'[r] = left
      BY <1>1 DEF IntakeTypeOK
    <3> QED BY <1>2, <1>5, <1>6, <1>7, <1>8, <2>2, <3>1 DEF Told
  <2>4. ASSUME NEW q \in Requests, stage'[q] = "answered"
        PROVE  Told(counts[q], {})'
    <3>1. q # r /\ stage[q] = "answered" /\ counts'[q] = counts[q]
      BY <1>1, <1>3, <2>4 DEF IntakeTypeOK
    <3>2. Told(counts[q], {}) BY <3>1 DEF CountsTrue, Answered
    <3> QED BY <1>2, <1>5, <2>2, <3>1, <3>2 DEF Told
  <2>5. ASSUME NEW q \in Requests, stage'[q] = "broadcast" PROVE q = r
    BY <1>3, <1>4, <2>5 DEF Running
  <2>6. event' # "dispatched" BY <1>2 DEF IntakeOrder
  <2> QED BY <2>3, <2>4, <2>5, <2>6 DEF CountsTrue, Answered
<1>12. MailsBalanced'
  <2>1. faults \in Nat /\ faults' \in Nat /\ faults' >= faults BY History
  <2>2. mails \in [Unrouted -> Nat] /\ lapses \in Nat BY DEF IntakeTypeOK
  <2>3. event # "dispatched" /\ \A q \in Requests : stage[q] # "broadcast"
    BY <1>2, <1>4 DEF IntakeOrder, Running
  <2> QED BY <1>2, <2>1, <2>2, <2>3 DEF MailsBalanced
<1> QED BY <1>9, <1>10, <1>11, <1>12

LEMMA BroadcastStep ==
  ASSUME IntakeIndInv, IndInv', [Next]_vars, NEW r \in Requests, NEW u \in Unrouted,
         Broadcast(r, u)
  PROVE  IntakeIndInv'
<1> USE IntakeAssumption DEF IntakeIndInv
<1>c. PICK c : c = counts[r] OBVIOUS
<1>l. PICK left : left = direct[r] OBVIOUS
<1>1. /\ stage[r] = "broadcast" /\ u \in left
      /\ UNCHANGED <<event, payload, expansion, summary, owner, stage, rounds, attempted, lapses>>
  BY <1>l DEF Broadcast, stored
<1>2. PICK new \in [sent : Nat, failed : Nat] :
        /\ counts' = [counts EXCEPT ![r] = new]
        /\ new.sent + new.failed = c.sent + c.failed + 1
        /\ new.failed = 0 => c.failed = 0 /\ Got(u)
  <2>1. c \in [sent : Nat, failed : Nat] BY <1>c DEF IntakeTypeOK
  <2>2. c.sent + 1 \in Nat /\ c.failed + 1 \in Nat BY <2>1
  <2>3. CASE Got(u) /\ counts' = [counts EXCEPT ![r].sent = @ + 1]
    <3> DEFINE d == [c EXCEPT !.sent = c.sent + 1]
    <3>1. counts' = [counts EXCEPT ![r] = d] BY <1>c, <2>3 DEF IntakeTypeOK
    <3>2. /\ d \in [sent : Nat, failed : Nat]
          /\ d.sent = c.sent + 1 /\ d.failed = c.failed
      BY <2>1, <2>2
    <3>3. d.sent + d.failed = c.sent + c.failed + 1 BY <2>1, <3>2
    <3> HIDE DEF d
    <3> QED BY <2>3, <3>1, <3>2, <3>3
  <2>4. CASE counts' = [counts EXCEPT ![r].failed = @ + 1]
    <3> DEFINE d == [c EXCEPT !.failed = c.failed + 1]
    <3>1. counts' = [counts EXCEPT ![r] = d] BY <1>c, <2>4 DEF IntakeTypeOK
    <3>2. /\ d \in [sent : Nat, failed : Nat]
          /\ d.sent = c.sent /\ d.failed = c.failed + 1
      BY <2>1, <2>2
    <3>3. d.sent + d.failed = c.sent + c.failed + 1 /\ d.failed # 0 BY <2>1, <3>2
    <3> HIDE DEF d
    <3> QED BY <3>1, <3>2, <3>3
  <2> QED BY <2>3, <2>4 DEF Broadcast
<1>3. direct' = [direct EXCEPT ![r] = left \ {u}] BY <1>l DEF Broadcast
<1>4. mails \in [Unrouted -> Nat] BY DEF IntakeTypeOK
<1>5. /\ mails' \in [Unrouted -> Nat]
      /\ \A v \in Unrouted : mails[v] <= mails'[v]
      /\ \A v \in Unrouted : v # u => mails'[v] = mails[v]
      /\ mails'[u] <= mails[u] + 1
      /\ Got(u) => mails'[u] > 0
  BY <1>4 DEF Broadcast, Got
<1>6. \A x \in Recipients : Received(x) => Received(x)'
  BY <1>4, <1>5, ReceivedStays
<1>7. expansion \subseteq Recipients /\ left \subseteq Unrouted BY <1>l DEF IntakeTypeOK
<1>8. left \subseteq expansion /\ Told(c, left) BY <1>1, <1>c, <1>l DEF CountsTrue
<1>9. \A q \in Requests : q # r => stage[q] \notin Running BY <1>1, OneRuns DEF Running
<1>10. IntakeTypeOK'
  <2>1. counts' \in [Requests -> [sent : Nat, failed : Nat]] BY <1>2 DEF IntakeTypeOK
  <2>2. direct' \in [Requests -> SUBSET Unrouted] BY <1>3, <1>7 DEF IntakeTypeOK
  <2> QED BY <1>1, <1>5, <2>1, <2>2 DEF IntakeTypeOK, IndInv
<1>11. IntakeOrder' BY <1>1 DEF IntakeOrder, Answered
<1>12. Told(new, left \ {u})'
  <2>1. Cardinality(left) \in Nat /\ Cardinality(left \ {u}) = Cardinality(left) - 1
    <3>1. IsFiniteSet(expansion) BY FiniteRecord
    <3>2. IsFiniteSet(left) BY <1>8, <3>1, FS_Subset
    <3> QED BY <1>1, <3>2, FS_RemoveElement, FS_CardinalityType
  <2>2. c \in [sent : Nat, failed : Nat] BY <1>c DEF IntakeTypeOK
  <2>3. c.sent + c.failed + Cardinality(left) = Cardinality(expansion) BY <1>8 DEF Told
  <2>4. new.sent + new.failed + Cardinality(left \ {u}) = Cardinality(expansion')
    <3>1. c.sent \in Nat /\ c.failed \in Nat /\ new.sent \in Nat /\ new.failed \in Nat
      BY <2>2
    <3> QED BY <1>1, <1>2, <2>1, <2>3, <3>1
  <2>5. ASSUME new.failed = 0, NEW x \in expansion \ (left \ {u})
        PROVE  Received(x)'
    <3>1. CASE x = u
      BY <1>2, <1>5, <2>5, <3>1 DEF Received, Unrouted
    <3>2. CASE x # u
      BY <1>2, <1>6, <1>7, <1>8, <2>5, <3>2 DEF Told
    <3> QED BY <3>1, <3>2
  <2> QED BY <1>1, <2>4, <2>5 DEF Told
<1>13. CountsTrue'
  <2>1. stage'[r] = "broadcast" /\ \A q \in Requests : stage'[q] = "broadcast" => q = r
    BY <1>1, <1>9 DEF Running
  <2>2. Told(counts[r], direct[r])' /\ direct'[r] \subseteq expansion'
    <3>1. counts'[r] = new /\ direct'[r] = left \ {u} BY <1>2, <1>3 DEF IntakeTypeOK
    <3> QED BY <1>1, <1>8, <1>12, <3>1 DEF Told
  <2>3. ASSUME NEW q \in Requests, stage'[q] = "answered"
        PROVE  Told(counts[q], {})'
    <3>1. q # r /\ stage[q] = "answered" /\ counts'[q] = counts[q]
      BY <1>1, <1>2, <2>3 DEF IntakeTypeOK
    <3>2. Told(counts[q], {}) BY <3>1 DEF CountsTrue, Answered
    <3> QED BY <1>1, <1>6, <1>7, <3>1, <3>2 DEF Told
  <2>4. event' # "dispatched" BY <1>1 DEF IntakeOrder
  <2> QED BY <2>1, <2>2, <2>3, <2>4 DEF CountsTrue, Answered
<1>14. MailsBalanced'
  <2>1. faults \in Nat /\ faults' \in Nat /\ faults' >= faults BY History
  <2>2. lapses \in Nat BY DEF IntakeTypeOK
  <2>3. event # "dispatched" BY <1>1 DEF IntakeOrder
  <2>4. mails[u] <= faults + lapses
    BY <1>1, <1>9, <1>l, <2>3 DEF MailsBalanced, Running
  <2>5. stage'[r] = "broadcast" /\ u \notin direct'[r]
    BY <1>1, <1>3 DEF IntakeTypeOK
  <2>6. ASSUME NEW v \in Unrouted, v # u
        PROVE  /\ mails'[v] <= 1 + faults' + lapses'
               /\ \/ \E q \in Requests : stage'[q] = "broadcast" /\ v \notin direct'[q]
                  \/ mails'[v] <= faults' + lapses'
    <3>1. mails[v] <= 1 + faults + lapses /\ mails[v] \in Nat /\ mails'[v] = mails[v]
      BY <1>4, <1>5, <2>6 DEF MailsBalanced
    <3>2. (\E q \in Requests : stage[q] = "broadcast" /\ v \notin direct[q])
            \/ mails[v] <= faults + lapses
      BY <2>3 DEF MailsBalanced
    <3>3. (\E q \in Requests : stage[q] = "broadcast" /\ v \notin direct[q]) =>
            stage'[r] = "broadcast" /\ v \notin direct'[r]
      BY <1>1, <1>3, <1>9, <1>l DEF IntakeTypeOK, Running
    <3> QED BY <1>1, <2>1, <2>2, <3>1, <3>2, <3>3
  <2>7. mails'[u] <= 1 + faults' + lapses'
    BY <1>1, <1>4, <1>5, <2>1, <2>2, <2>4
  <2> QED BY <2>5, <2>6, <2>7 DEF MailsBalanced
<1> QED BY <1>10, <1>11, <1>13, <1>14

\* The dispatch is recorded: the counts of the request become the summary, and
\* are those of an answer if the request is told so.
LEMMA RecordedStep ==
  ASSUME IntakeIndInv, [Next]_vars, NEW r \in Requests,
         stage[r] = "broadcast", direct[r] = {}, RecordSummary(r),
         UNCHANGED <<counts, mails>>, lapses' \in Nat, lapses <= lapses',
         NEW outcome \in {"answered", "error"}, Settle(r, outcome)
  PROVE  /\ event' = "dispatched" /\ UNCHANGED <<payload, expansion>> /\ summary' = counts[r]
         /\ CountsTrue' /\ MailsBalanced'
<1> USE IntakeAssumption DEF IntakeIndInv
<1>1. /\ event' = "dispatched" /\ UNCHANGED <<payload, expansion>> /\ summary' = counts[r]
  BY DEF RecordSummary, Unrecorded, IntakeOrder
<1>2. \A q \in Requests : stage'[q] = IF q = r THEN outcome ELSE stage[q]
  BY DEF IntakeTypeOK, Settle
<1>3. \A q \in Requests : q # r => stage[q] \notin Running BY OneRuns DEF Running
<1>4. mails \in [Unrouted -> Nat] /\ lapses \in Nat /\ expansion \subseteq Recipients
  BY DEF IntakeTypeOK
<1>5. CountsTrue'
  <2>1. \A x \in Recipients : Received(x) => Received(x)' BY <1>4, ReceivedStays
  <2>2. Told(counts[r], {}) BY DEF CountsTrue
  <2>3. ASSUME NEW q \in Requests, stage'[q] = "answered"
        PROVE  Told(counts[q], {})'
    <3>1. Told(counts[q], {}) BY <1>2, <2>2, <2>3 DEF CountsTrue, Answered
    <3> QED BY <1>1, <1>4, <2>1, <3>1 DEF Told
  <2>4. Told(summary, {})' BY <1>1, <1>4, <2>1, <2>2 DEF Told
  <2>5. \A q \in Requests : stage'[q] # "broadcast" BY <1>2, <1>3 DEF Running
  <2> QED BY <2>3, <2>4, <2>5 DEF CountsTrue, Answered
<1>6. MailsBalanced'
  <2>1. faults \in Nat /\ faults' \in Nat /\ faults' >= faults BY History
  <2> QED BY <1>1, <1>4, <2>1 DEF MailsBalanced
<1> QED BY <1>1, <1>5, <1>6

LEMMA RecordStep ==
  ASSUME IntakeIndInv, IndInv', [Next]_vars, NEW r \in Requests, Record(r)
  PROVE  IntakeIndInv'
<1> USE IntakeAssumption DEF IntakeIndInv
<1>1. /\ stage[r] = "broadcast" /\ direct[r] = {} /\ RecordSummary(r) /\ Settle(r, "answered")
      /\ UNCHANGED <<counts, mails, lapses>>
  BY DEF Record
<1>2. lapses \in Nat /\ lapses \in 0 .. MaxLapses BY DEF IntakeTypeOK
<1>3. /\ event' = "dispatched" /\ UNCHANGED <<payload, expansion>> /\ summary' = counts[r]
      /\ CountsTrue' /\ MailsBalanced'
  BY <1>1, <1>2, RecordedStep
<1>4. IntakeTypeOK' BY <1>1, <1>2, <1>3, SettledType DEF IntakeTypeOK, IndInv
<1>5. IntakeOrder'
  <2>1. \A q \in Requests : stage'[q] = IF q = r THEN "answered" ELSE stage[q]
    BY <1>1 DEF IntakeTypeOK, Settle
  <2>2. \A q \in Requests : q # r => stage[q] \notin Running BY <1>1, OneRuns DEF Running
  <2>3. payload = Payload[r] BY <1>1 DEF IntakeOrder
  <2> QED BY <1>1, <1>3, <2>1, <2>2, <2>3 DEF IntakeOrder, Running, Answered, Settle
<1> QED BY <1>3, <1>4, <1>5

\* A failure counted is a failure more, and what is counted is within bounds.
LEMMA Counted ==
  ASSUME NEW f \in Nat, NEW g \in Nat, NEW k \in Nat, NEW m \in Nat
  PROVE  /\ g >= f /\ m = k + 1 => f + k < g + m
         /\ \A top \in Nat : g + m <= top => m <= top
OBVIOUS

LEMMA RecordFailsStep ==
  ASSUME IntakeIndInv, IndInv', [Next]_vars, NEW r \in Requests, RecordFails(r)
  PROVE  IntakeIndInv'
<1> USE DEF IntakeIndInv
<1>0. MaxLapses \in Nat BY IntakeAssumption
<1>1. lapses \in 0 .. MaxLapses /\ lapses \in Nat BY <1>0 DEF IntakeTypeOK
<1>2. faults \in Nat /\ faults' \in Nat /\ faults' >= faults BY History
<1>3. lapses' = lapses + 1 /\ faults + lapses < MaxLapses BY DEF RecordFails, Fail
<1>4. /\ lapses' \in 0 .. MaxLapses /\ lapses' \in Nat /\ lapses <= lapses'
      /\ faults + lapses < faults' + lapses'
  <2>1. lapses' \in Nat BY <1>1, <1>3
  <2>2. lapses <= lapses' BY <1>1, <1>3
  <2>3. faults + lapses < faults' + lapses' BY <1>1, <1>2, <1>3, <2>1, Counted
  <2>4. lapses' \in 0 .. MaxLapses BY <1>0, <1>1, <1>2, <1>3
  <2> QED BY <2>1, <2>2, <2>3, <2>4
<1>5. /\ stage[r] = "broadcast" /\ direct[r] = {} /\ Settle(r, "error")
      /\ UNCHANGED <<counts, mails>>
  BY DEF RecordFails, Fail
<1>6. CASE UNCHANGED stored
  BY <1>4, <1>5, <1>6, AbortStep DEF Running
<1>7. CASE RecordSummary(r)
  <2>1. /\ event' = "dispatched" /\ UNCHANGED <<payload, expansion>> /\ summary' = counts[r]
        /\ CountsTrue' /\ MailsBalanced'
    BY <1>4, <1>5, <1>7, RecordedStep
  <2>2. IntakeTypeOK' BY <1>4, <1>5, <2>1, SettledType DEF IntakeTypeOK, IndInv
  <2>3. IntakeOrder' BY <1>5, <1>7, SettledOrder DEF Running
  <2> QED BY <2>1, <2>2, <2>3
<1> QED BY <1>6, <1>7 DEF RecordFails

LEMMA CrashAllStep ==
  ASSUME IntakeIndInv, IndInv', [Next]_vars, CrashAll
  PROVE  IntakeIndInv'
<1> USE DEF IntakeIndInv
<1>0. MaxLapses \in Nat BY IntakeAssumption
<1>1. faults \in Nat /\ faults' \in Nat /\ faults' >= faults BY History
<1>2. lapses \in 0 .. MaxLapses /\ lapses \in Nat BY <1>0 DEF IntakeTypeOK
<1>3. lapses' \in Nat /\ lapses <= lapses' /\ faults + lapses < faults' + lapses'
  <2>1. CASE Crash /\ UNCHANGED lapses BY <1>1, <1>2, <2>1 DEF Crash
  <2>2. CASE lapses' = lapses + 1
    <3>1. lapses' \in Nat BY <1>2, <2>2
    <3>2. lapses <= lapses' BY <1>2, <2>2
    <3>3. faults + lapses < faults' + lapses' BY <1>1, <1>2, <2>2, <3>1, Counted
    <3> QED BY <3>1, <3>2, <3>3
  <2> QED BY <2>1, <2>2 DEF CrashAll
<1>4. lapses' \in 0 .. MaxLapses
  <2>1. faults' + lapses' <= MaxLapses BY DEF CrashAll, InBounds
  <2>2. lapses' <= MaxLapses BY <1>0, <1>1, <1>3, <2>1, Counted
  <2> QED BY <1>0, <1>3, <2>2
<1>5. \A q \in Requests :
        stage'[q] = IF stage[q] \in Running THEN "error" ELSE stage[q]
  BY DEF CrashAll
<1>6. \A q \in Requests :
        stage'[q] \notin Running /\ (stage'[q] = "answered" => stage[q] = "answered")
  BY <1>5 DEF Running
<1>7. IntakeTypeOK'
  <2>1. stage' \in [Requests -> {"new", "answered", "conflict", "error"} \union Running]
    BY DEF CrashAll, IntakeTypeOK
  <2>2. /\ owner' \in Requests \union {None}
        /\ rounds' \in [Requests -> 0 .. MaxRounds]
        /\ attempted' \in [Requests -> SUBSET Deliveries]
        /\ direct' \in [Requests -> SUBSET Unrouted]
    BY IntakeAssumption DEF CrashAll
  <2>3. UNCHANGED <<event, payload, expansion, summary, counts, mails>> BY DEF CrashAll, stored
  <2> QED BY <1>4, <2>1, <2>2, <2>3 DEF IntakeTypeOK, IndInv
<1>8. IntakeOrder'
  BY <1>6, IntakeAssumption DEF IntakeOrder, CrashAll, stored, Answered, Running
<1>9. CountsTrue' /\ MailsBalanced' BY <1>3, <1>6, Aside DEF CrashAll, Running
<1> QED BY <1>7, <1>8, <1>9

LEMMA IntakeInitInv == IntakeInit => IntakeIndInv
<1> SUFFICES ASSUME IntakeInit PROVE IntakeIndInv OBVIOUS
<1> USE IntakeAssumption DEF IntakeInit
<1>1. IndInv BY InitInv
<1>2. IntakeTypeOK BY <1>1 DEF IntakeTypeOK, IndInv, NoCounts
<1>3. IntakeOrder BY DEF IntakeOrder, Running, Answered
<1>4. CountsTrue BY DEF CountsTrue, Answered
<1>5. MailsBalanced
  <2>1. faults = 0 /\ lapses = 0 BY DEF Init
  <2> QED BY <2>1 DEF MailsBalanced
<1> QED BY <1>1, <1>2, <1>3, <1>4, <1>5 DEF IntakeIndInv

LEMMA IntakeStep ==
  ASSUME IntakeIndInv, MaxStalls = 0, [IntakeNext]_ivars PROVE IntakeIndInv'
<1>1. [Next]_vars BY LedgerStep
<1>2. IndInv' BY <1>1, NextStep DEF IntakeIndInv
<1>3. ASSUME NEW r \in Requests, Serve(r) PROVE IntakeIndInv'
  BY <1>1, <1>2, <1>3, BeginStep, AcceptStep, RejectStep, ReplayStep, ResumeStep, RoundStep,
     DeliverStep, SummariseStep, BroadcastStep, RecordStep DEF Serve
<1>4. ASSUME NEW r \in Requests, ServeFails(r) PROVE IntakeIndInv'
  BY <1>1, <1>2, <1>4, IntakeFailsStep, DegradesStep, DeliverFailsStep, SummariseFailsStep,
     RecordFailsStep DEF ServeFails
<1>5. CASE (\E w \in Workers : Schedule(w)) \/ Pass \/ UNCHANGED ivars
  BY <1>1, <1>2, <1>5, ElsewhereStep
<1>6. CASE CrashAll BY <1>1, <1>2, <1>6, CrashAllStep
<1> QED BY <1>3, <1>4, <1>5, <1>6 DEF IntakeNext

THEOREM IntakeInvariance == MaxStalls = 0 /\ IntakeSpec => []IntakeIndInv
<1>1. IntakeInit => IntakeIndInv BY IntakeInitInv
<1> SUFFICES ASSUME MaxStalls = 0 PROVE IntakeSpec => []IntakeIndInv OBVIOUS
<1>2. IntakeIndInv /\ [IntakeNext]_ivars => IntakeIndInv' BY IntakeStep
<1> QED BY <1>1, <1>2, PTL DEF IntakeSpec

\* Whatever the number of requests and recipients, failures, crashes and lost
\* answers: a success answered to a caller means that everyone on record has
\* the message, everyone on record is counted once, and nobody without
\* a row is written to again unless a failure is to blame.
THEOREM AnswersTrue == MaxStalls = 0 /\ IntakeSpec => []IntakeInv
<1>1. IntakeIndInv => IntakeInv
  <2> SUFFICES ASSUME IntakeIndInv PROVE IntakeInv OBVIOUS
  <2> USE DEF IntakeIndInv
  <2>1. SuccessMeansReceived
    BY DEF SuccessMeansReceived, IntakeOrder, CountsTrue, Told
  <2>2. CountsComplete
    <3>1. Cardinality({}) = 0 BY FS_EmptySet
    <3>2. \A r \in Requests : counts[r].sent \in Nat /\ counts[r].failed \in Nat
      BY DEF IntakeTypeOK
    <3>3. summary.sent \in Nat /\ summary.failed \in Nat BY DEF IntakeTypeOK
    <3> QED BY <3>1, <3>2, <3>3 DEF CountsComplete, CountsTrue, Told
  <2>3. RepeatsNeedFailures BY DEF RepeatsNeedFailures, MailsBalanced
  <2> QED BY <2>1, <2>2, <2>3 DEF IntakeInv
<1> QED BY <1>1, IntakeInvariance, PTL

\* The recorded dispatch is final, with any number of stalls: a replay answers
\* what the first dispatch did.
THEOREM SummaryKept == IntakeSpec => SummaryIsFinal
<1>1. ASSUME [IntakeNext]_ivars, event = "dispatched" PROVE UNCHANGED stored
  <2> USE <1>1
  <2>1. ASSUME NEW r \in Requests, Serve(r) PROVE UNCHANGED stored
    BY <2>1 DEF Serve, Begin, Accept, CreateEvent, Reject, Replay, Resume, Round, Deliver,
       Summarise, Broadcast, Record, RecordSummary, Unrecorded
  <2>2. ASSUME NEW r \in Requests, ServeFails(r) PROVE UNCHANGED stored
    BY <2>2 DEF ServeFails, IntakeFails, CreateEvent, DeliverDegrades, DeliverFails,
       SummariseFails, RecordFails, RecordSummary, Unrecorded
  <2>3. CASE (\E w \in Workers : Schedule(w)) \/ Pass \/ CrashAll \/ UNCHANGED ivars
    BY <2>3 DEF Schedule, Pass, CrashAll, ivars
  <2> QED BY <2>1, <2>2, <2>3 DEF IntakeNext
<1>2. [IntakeNext]_ivars => [event = "dispatched" => UNCHANGED stored]_ivars BY <1>1
<1> QED BY <1>2, PTL DEF IntakeSpec, SummaryIsFinal


-----------------------------------------------------------------------------
(* The gate before the handlers *)

\* What a map of buckets is, whatever step it is in the middle of.
BucketMap(bs) ==
    /\ bs \in [AllKeys -> {NoBucket} \cup [tokens: Nat, at: 0..MaxWall]]
    /\ \A k \in AllKeys: bs[k] # NoBucket => bs[k].tokens <= CapacityOf(k)

ShareOf(bs) == IsFiniteSet(Mapped(bs)) /\ Cardinality(Mapped(bs)) <= MaxKeys

Behind(bs) == \A k \in AllKeys: bs[k] # NoBucket => bs[k].at <= wall

\* The map agrees with the ideal buckets f.
Books(bs, f) ==
    /\ wall \in 0..MaxWall
    /\ BucketMap(bs) /\ ShareOf(bs)
    /\ f \in [AllKeys -> Nat] /\ \A k \in AllKeys: f[k] <= CapacityOf(k)
    /\ \A k \in AllKeys: Level(bs, k) <= f[k]
    /\ setBacks = 0 => Behind(bs) /\ \A k \in AllKeys: Level(bs, k) = f[k]

LEMMA CapacityFits == \A k \in AllKeys: CapacityOf(k) \in Nat \ {0}
<1> SUFFICES ASSUME NEW k \in AllKeys PROVE CapacityOf(k) \in Nat \ {0} OBVIOUS
<1>1. k[1] \in RoutePolicies \cup {"admin", "auth-failure", "login-global"} BY DEF AllKeys, BucketKeys, LoginGlobal
<1> QED BY <1>1, GateAssumption DEF CapacityOf

LEMMA GlobalApart == LoginGlobal \notin BucketKeys
<1>1. LoginGlobal[1] = "login-global" BY DEF LoginGlobal
<1>2. ASSUME NEW k \in BucketKeys PROVE k[1] # "login-global" BY GateAssumption DEF BucketKeys
<1> QED BY <1>1, <1>2

\* A bucket holds between nothing and its capacity.
LEMMA LevelsFit ==
  ASSUME NEW bs, BucketMap(bs), wall \in Nat, NEW k \in AllKeys
  PROVE  Level(bs, k) \in 0..CapacityOf(k)
<1>1. CapacityOf(k) \in Nat BY CapacityFits
<1>2. CASE bs[k] = NoBucket BY <1>1, <1>2 DEF Level
<1>3. CASE bs[k] # NoBucket
  <2>1. bs[k].tokens \in Nat /\ bs[k].at \in Nat BY <1>3, GateAssumption DEF BucketMap
  <2>2. Elapsed(bs[k]) \in Nat BY <2>1 DEF Elapsed
  <2> HIDE DEF CapacityOf
  <2> QED BY <1>1, <1>3, <2>1, <2>2 DEF Level, Lesser
<1> QED BY <1>2, <1>3

\* What a bucket holds depends on nothing but itself.
LEMMA LevelLocal ==
  ASSUME NEW bs, NEW cs, NEW k, bs[k] = cs[k] PROVE Level(bs, k) = Level(cs, k)
BY DEF Level

\* A bucket that was touched holds what it was left with, and no other one changes.
LEMMA TouchedFits ==
  ASSUME NEW bs, BucketMap(bs), wall \in 0..MaxWall, NEW k \in AllKeys, NEW n \in 0..CapacityOf(k)
  PROVE  /\ BucketMap(Touched(bs, k, n))
         /\ Touched(bs, k, n)[k] # NoBucket /\ Level(Touched(bs, k, n), k) = n
         /\ \A j \in AllKeys \ {k}: Touched(bs, k, n)[j] = bs[j]
         /\ Behind(bs) => Behind(Touched(bs, k, n))
<1> DEFINE at == IF bs[k] = NoBucket THEN wall ELSE Greater(bs[k].at, wall)
           b == [tokens |-> n, at |-> at]
<1>1. CapacityOf(k) \in Nat /\ n \in Nat /\ n <= CapacityOf(k) BY CapacityFits
<1>2. wall \in Nat /\ MaxWall \in Nat /\ wall <= MaxWall BY GateAssumption
<1>3. at \in 0..MaxWall /\ wall <= at
  <2>1. CASE bs[k] = NoBucket BY <1>2, <2>1
  <2>2. CASE bs[k] # NoBucket
    <3>1. bs[k].at \in 0..MaxWall BY <2>2 DEF BucketMap
    <3> QED BY <1>2, <2>2, <3>1 DEF Greater
  <2> QED BY <2>1, <2>2
<1>4. Behind(bs) => at = wall
  <2>1. CASE bs[k] = NoBucket BY <2>1
  <2>2. CASE bs[k] # NoBucket
    <3>1. bs[k].at \in 0..MaxWall BY <2>2 DEF BucketMap
    <3> QED BY <1>2, <2>2, <3>1 DEF Greater, Behind
  <2> QED BY <2>1, <2>2
<1>5. Touched(bs, k, n) = [bs EXCEPT ![k] = b] BY DEF Touched
<1>6. b.tokens = n /\ b.at = at /\ b \in [tokens: Nat, at: 0..MaxWall] BY <1>1, <1>3
<1>7. b # NoBucket
  <2>1. b \in [tokens: Nat, at: Nat] BY <1>1, <1>2, <1>3
  <2> QED BY <2>1, GateAssumption
<1> HIDE DEF b
<1>8. /\ Touched(bs, k, n)[k] = b /\ \A j \in AllKeys \ {k}: Touched(bs, k, n)[j] = bs[j]
      /\ Touched(bs, k, n) \in [AllKeys -> {NoBucket} \cup [tokens: Nat, at: 0..MaxWall]]
  BY <1>5, <1>6 DEF BucketMap
<1>9. BucketMap(Touched(bs, k, n)) BY <1>1, <1>6, <1>8 DEF BucketMap
<1>10. Level(Touched(bs, k, n), k) = n
  <2>1. Elapsed(b) = 0 BY <1>2, <1>3, <1>6 DEF Elapsed
  <2> HIDE DEF CapacityOf, at
  <2>2. Level(Touched(bs, k, n), k) = Lesser(CapacityOf(k), n + 0) BY <1>6, <1>7, <1>8, <2>1 DEF Level
  <2> QED BY <1>1, <2>2 DEF Lesser
<1>11. Behind(bs) => Behind(Touched(bs, k, n)) BY <1>2, <1>4, <1>6, <1>8 DEF Behind
<1> QED BY <1>7, <1>8, <1>9, <1>10, <1>11

\* Touching a bucket of the map needs no room; touching a new one needs room for one.
LEMMA TouchedShare ==
  ASSUME NEW bs, BucketMap(bs), wall \in 0..MaxWall, NEW k \in AllKeys, NEW n \in 0..CapacityOf(k),
         ShareOf(bs), k \in BucketKeys /\ bs[k] = NoBucket => Cardinality(Mapped(bs)) < MaxKeys
  PROVE  ShareOf(Touched(bs, k, n))
<1> DEFINE new == Touched(bs, k, n)
<1>1. new[k] # NoBucket /\ \A j \in AllKeys \ {k}: new[j] = bs[j] BY TouchedFits
<1>2. BucketKeys \subseteq AllKeys BY DEF AllKeys
<1> HIDE DEF new
<1>3. MaxKeys \in Nat /\ IsFiniteSet(Mapped(bs)) /\ Cardinality(Mapped(bs)) \in Nat
  BY GateAssumption, FS_CardinalityType DEF ShareOf
<1>4. CASE k \notin BucketKeys \/ bs[k] # NoBucket
  <2>1. Mapped(new) = Mapped(bs) BY <1>1, <1>2, <1>4 DEF Mapped
  <2> QED BY <2>1 DEF ShareOf, new
<1>5. CASE k \in BucketKeys /\ bs[k] = NoBucket
  <2>1. Mapped(new) = Mapped(bs) \cup {k} BY <1>1, <1>2, <1>5 DEF Mapped
  <2>2. k \notin Mapped(bs) BY <1>5 DEF Mapped
  <2>3. IsFiniteSet(Mapped(new)) /\ Cardinality(Mapped(new)) = Cardinality(Mapped(bs)) + 1
    BY <1>3, <2>1, <2>2, FS_AddElement
  <2> QED BY <1>3, <1>5, <2>3 DEF ShareOf, new
<1> QED BY <1>4, <1>5

\* A sweep forgets only what a new bucket would hold as well.
LEMMA SweptFits ==
  ASSUME NEW bs, BucketMap(bs), wall \in Nat
  PROVE  /\ BucketMap(sweep(bs)) /\ \A k \in AllKeys: sweep(bs)[k] \in {NoBucket, bs[k]}
         /\ \A k \in AllKeys: Level(sweep(bs), k) = Level(bs, k)
<1>1. DOMAIN bs = AllKeys BY DEF BucketMap
<1>2. \A k \in AllKeys: sweep(bs)[k] = IF bs[k] # NoBucket /\ Sweepable(bs, k) THEN NoBucket ELSE bs[k]
  BY <1>1 DEF sweep
<1>3. BucketMap(sweep(bs))
  <2>1. sweep(bs) = [k \in AllKeys |-> IF bs[k] # NoBucket /\ Sweepable(bs, k) THEN NoBucket ELSE bs[k]]
    BY <1>1 DEF sweep
  <2>2. \A k \in AllKeys: bs[k] \in {NoBucket} \cup [tokens: Nat, at: 0..MaxWall] BY DEF BucketMap
  <2> HIDE DEF Sweepable
  <2>3. sweep(bs) \in [AllKeys -> {NoBucket} \cup [tokens: Nat, at: 0..MaxWall]] BY <2>1, <2>2
  <2> QED BY <1>2, <2>3 DEF BucketMap
<1>4. ASSUME NEW k \in AllKeys PROVE Level(sweep(bs), k) = Level(bs, k)
  <2>1. CASE bs[k] # NoBucket /\ Sweepable(bs, k)
    <3>1. Level(sweep(bs), k) = CapacityOf(k) BY <1>2, <2>1 DEF Level
    <3>2. Level(bs, k) \in 0..CapacityOf(k) /\ Level(bs, k) >= CapacityOf(k) BY <2>1, LevelsFit DEF Sweepable
    <3>3. CapacityOf(k) \in Nat BY CapacityFits
    <3> HIDE DEF CapacityOf
    <3> QED BY <3>1, <3>2, <3>3
  <2>2. CASE ~(bs[k] # NoBucket /\ Sweepable(bs, k))
    <3>1. sweep(bs)[k] = bs[k] BY <1>2, <2>2
    <3> QED BY <3>1, LevelLocal
  <2> QED BY <2>1, <2>2
<1> QED BY <1>2, <1>3, <1>4

LEMMA SmallerShare ==
  ASSUME NEW bs, NEW cs, ShareOf(bs), Mapped(cs) \subseteq Mapped(bs)
  PROVE  /\ ShareOf(cs) /\ Cardinality(Mapped(cs)) \in Nat
         /\ Cardinality(Mapped(cs)) <= Cardinality(Mapped(bs))
<1>1. IsFiniteSet(Mapped(cs)) /\ Cardinality(Mapped(cs)) <= Cardinality(Mapped(bs))
  BY FS_Subset DEF ShareOf
<1>2. Cardinality(Mapped(cs)) \in Nat /\ Cardinality(Mapped(bs)) \in Nat BY <1>1, FS_CardinalityType DEF ShareOf
<1> QED BY <1>1, <1>2, GateAssumption DEF ShareOf

\* What a bucket of the map becomes, when it is given up or swept.
Forgets(bs, cs, lost) ==
    /\ BucketMap(cs) /\ cs[LoginGlobal] = bs[LoginGlobal] /\ lost \subseteq Mapped(bs)
    /\ \A k \in AllKeys: cs[k] \in {NoBucket, bs[k]}
    /\ \A k \in AllKeys: Level(cs, k) = IF k \in lost THEN CapacityOf(k) ELSE Level(bs, k)

\* makeRoom leaves room for one more, and gives up nothing but what it says.
LEMMA RoomsFit ==
  ASSUME NEW bs, BucketMap(bs), wall \in Nat, ShareOf(bs), NEW room \in Rooms(bs)
  PROVE  /\ Forgets(bs, room.buckets, room.lost)
         /\ ShareOf(room.buckets) /\ Cardinality(Mapped(room.buckets)) < MaxKeys
<1> DEFINE swept == sweep(bs)
           kept == [swept EXCEPT ![LoginGlobal] = bs[LoginGlobal]]
<1>1. BucketKeys \subseteq AllKeys /\ LoginGlobal \in AllKeys /\ LoginGlobal \notin BucketKeys
  BY GlobalApart DEF AllKeys
<1>2. /\ BucketMap(swept) /\ \A k \in AllKeys: swept[k] \in {NoBucket, bs[k]}
      /\ \A k \in AllKeys: Level(swept, k) = Level(bs, k)
  BY SweptFits
<1> HIDE DEF swept
<1>3. kept[LoginGlobal] = bs[LoginGlobal] /\ \A k \in AllKeys \ {LoginGlobal}: kept[k] = swept[k]
  BY <1>1, <1>2 DEF BucketMap
<1>4. BucketMap(kept)
  <2>1. bs[LoginGlobal] \in {NoBucket} \cup [tokens: Nat, at: 0..MaxWall] BY <1>1 DEF BucketMap
  <2>2. kept \in [AllKeys -> {NoBucket} \cup [tokens: Nat, at: 0..MaxWall]] BY <1>2, <2>1 DEF BucketMap
  <2> QED BY <1>1, <1>2, <1>3, <2>2 DEF BucketMap
<1> HIDE DEF kept
<1>5. \A k \in AllKeys: Level(kept, k) = Level(bs, k) BY <1>1, <1>2, <1>3, LevelLocal
<1>6. Mapped(kept) = Mapped(swept) /\ Mapped(kept) \subseteq Mapped(bs) BY <1>1, <1>2, <1>3 DEF Mapped
<1>7. Forgets(bs, kept, {}) BY <1>1, <1>2, <1>3, <1>4, <1>5 DEF Forgets
<1>8. ShareOf(kept) /\ Cardinality(Mapped(kept)) \in Nat BY <1>6, SmallerShare
<1>9. ASSUME room = [buckets |-> bs, lost |-> {}], Cardinality(Mapped(bs)) < MaxKeys
      PROVE  /\ Forgets(bs, room.buckets, room.lost)
             /\ ShareOf(room.buckets) /\ Cardinality(Mapped(room.buckets)) < MaxKeys
  BY <1>9 DEF Forgets
<1>10. ASSUME room = [buckets |-> kept, lost |-> {}], Cardinality(Mapped(swept)) < MaxKeys
       PROVE  /\ Forgets(bs, room.buckets, room.lost)
              /\ ShareOf(room.buckets) /\ Cardinality(Mapped(room.buckets)) < MaxKeys
  BY <1>6, <1>7, <1>8, <1>10
<1>11. ASSUME NEW k \in Mapped(swept),
              room = [buckets |-> [swept EXCEPT ![LoginGlobal] = bs[LoginGlobal], ![k] = NoBucket], lost |-> {k}]
       PROVE  /\ Forgets(bs, room.buckets, room.lost)
              /\ ShareOf(room.buckets) /\ Cardinality(Mapped(room.buckets)) < MaxKeys
  <2> DEFINE cs == [kept EXCEPT ![k] = NoBucket]
  <2>1. k \in BucketKeys /\ k \in AllKeys /\ k # LoginGlobal /\ k \in Mapped(bs) BY <1>1, <1>6 DEF Mapped
  <2>2. room.buckets = cs /\ room.lost = {k} BY <1>11 DEF kept
  <2>3. cs[k] = NoBucket /\ \A j \in AllKeys \ {k}: cs[j] = kept[j] BY <1>4, <2>1 DEF BucketMap
  <2>4. BucketMap(cs)
    <3>1. cs \in [AllKeys -> {NoBucket} \cup [tokens: Nat, at: 0..MaxWall]] BY <1>4 DEF BucketMap
    <3> QED BY <1>4, <2>3, <3>1 DEF BucketMap
  <2> HIDE DEF cs
  <2>5. Level(cs, k) = CapacityOf(k) BY <2>3 DEF Level
  <2>6. \A j \in AllKeys \ {k}: Level(cs, j) = Level(bs, j) BY <1>5, <2>3, LevelLocal
  <2>7. Forgets(bs, cs, {k}) BY <1>1, <1>2, <1>3, <2>1, <2>3, <2>4, <2>5, <2>6 DEF Forgets
  <2>8. Mapped(cs) = Mapped(kept) \ {k} BY <1>1, <2>3 DEF Mapped
  <2>9. ShareOf(cs) BY <1>8, <2>8, SmallerShare
  <2>10. Cardinality(Mapped(cs)) < MaxKeys
    <3>1. IsFiniteSet(Mapped(kept)) /\ k \in Mapped(kept) BY <1>6, <1>8 DEF ShareOf
    <3>2. Cardinality(Mapped(cs)) = Cardinality(Mapped(kept)) - 1 BY <2>8, <3>1, FS_RemoveElement
    <3> QED BY <1>8, <3>2, GateAssumption DEF ShareOf
  <2> QED BY <2>2, <2>7, <2>9, <2>10
<1>12. \/ room = [buckets |-> bs, lost |-> {}] /\ Cardinality(Mapped(bs)) < MaxKeys
       \/ room = [buckets |-> kept, lost |-> {}] /\ Cardinality(Mapped(swept)) < MaxKeys
       \/ \E k \in Mapped(swept):
             room = [buckets |-> [swept EXCEPT ![LoginGlobal] = bs[LoginGlobal], ![k] = NoBucket], lost |-> {k}]
  BY DEF Rooms, swept, kept
<1> QED BY <1>9, <1>10, <1>11, <1>12

\* Once k was asked for a token and `lost` were given up, the map agrees with the ideal
\* buckets to which the same happened.
LEMMA ConsumeKeeps ==
  ASSUME NEW bs, NEW f, Books(bs, f), NEW k \in AllKeys, NEW own \in Consumptions(bs, k)
  PROVE  Books(own.buckets, Charged(f, own.lost, k))
<1> DEFINE level == Level(bs, k)
           after == IF level >= 1 THEN level - 1 ELSE level
           Taken(room) == [buckets |-> Touched(room.buckets, k, after), lost |-> room.lost, allowed |-> level >= 1]
           g == Charged(f, own.lost, k)
<1>1. wall \in 0..MaxWall /\ wall \in Nat /\ MaxWall \in Nat BY GateAssumption DEF Books
<1>2. BucketMap(bs) /\ ShareOf(bs) BY DEF Books
<1>3. \A j \in AllKeys: Level(bs, j) \in 0..CapacityOf(j) /\ CapacityOf(j) \in Nat BY <1>1, <1>2, LevelsFit, CapacityFits
<1>4. after \in 0..CapacityOf(k)
  <2>1. level \in 0..CapacityOf(k) /\ CapacityOf(k) \in Nat BY <1>3
  <2> HIDE DEF level, CapacityOf
  <2> QED BY <2>1
<1>5. PICK cs, lost: /\ own.buckets = Touched(cs, k, after) /\ own.lost = lost
                     /\ Forgets(bs, cs, lost) /\ ShareOf(cs)
                     /\ k \in BucketKeys /\ bs[k] = NoBucket => Cardinality(Mapped(cs)) < MaxKeys
  <2>1. CASE bs[k] # NoBucket \/ k = LoginGlobal
    <3>1. own = Taken([buckets |-> bs, lost |-> {}]) BY <2>1 DEF Consumptions
    <3>2. Forgets(bs, bs, {}) BY <1>2 DEF Forgets
    <3>3. own.buckets = Touched(bs, k, after) /\ own.lost = {} BY <3>1
    <3> HIDE DEF after
    <3> QED BY <1>2, <2>1, <3>2, <3>3, GlobalApart
  <2>2. CASE ~(bs[k] # NoBucket \/ k = LoginGlobal)
    <3>1. PICK room \in Rooms(bs): own = Taken(room) BY <2>2 DEF Consumptions
    <3>2. Forgets(bs, room.buckets, room.lost) /\ ShareOf(room.buckets) /\ Cardinality(Mapped(room.buckets)) < MaxKeys
      BY <1>1, <1>2, RoomsFit
    <3>3. own.buckets = Touched(room.buckets, k, after) /\ own.lost = room.lost BY <3>1
    <3> HIDE DEF after
    <3> QED BY <3>2, <3>3
  <2> QED BY <2>1, <2>2
<1> DEFINE new == own.buckets
<1>6. BucketMap(cs) /\ \A j \in AllKeys: cs[j] \in {NoBucket, bs[j]} BY <1>5 DEF Forgets
<1>7. k \notin lost
  <2>1. CASE bs[k] # NoBucket \/ k = LoginGlobal
    <3>1. own.lost = {} BY <2>1 DEF Consumptions
    <3> QED BY <1>5, <3>1
  <2>2. CASE bs[k] = NoBucket BY <1>5, <2>2 DEF Forgets, Mapped
  <2> QED BY <2>1, <2>2
<1>8. /\ BucketMap(new) /\ Level(new, k) = after
      /\ \A j \in AllKeys \ {k}: new[j] = cs[j]
      /\ Behind(cs) => Behind(new)
  <2> HIDE DEF after
  <2> QED BY <1>1, <1>4, <1>5, <1>6, TouchedFits
<1>9. ShareOf(new)
  <2>1. k \in BucketKeys /\ cs[k] = NoBucket => Cardinality(Mapped(cs)) < MaxKeys
    <3>1. CASE bs[k] = NoBucket BY <1>5, <3>1
    <3>2. CASE bs[k] # NoBucket /\ cs[k] = NoBucket /\ k \in BucketKeys
      <4>1. k \in Mapped(bs) /\ Mapped(cs) \subseteq Mapped(bs) \ {k} BY <1>6, <3>2 DEF Mapped, AllKeys
      <4>2. IsFiniteSet(Mapped(bs)) /\ Cardinality(Mapped(bs)) <= MaxKeys BY <1>2 DEF ShareOf
      <4>3. Cardinality(Mapped(bs) \ {k}) = Cardinality(Mapped(bs)) - 1 /\ IsFiniteSet(Mapped(bs) \ {k})
        BY <4>1, <4>2, FS_RemoveElement
      <4>4. Cardinality(Mapped(cs)) <= Cardinality(Mapped(bs) \ {k}) /\ IsFiniteSet(Mapped(cs)) BY <4>1, <4>3, FS_Subset
      <4>5. Cardinality(Mapped(cs)) \in Nat /\ Cardinality(Mapped(bs)) \in Nat BY <4>2, <4>4, FS_CardinalityType
      <4> QED BY <4>2, <4>3, <4>4, <4>5, GateAssumption
    <3> QED BY <3>1, <3>2
  <2> HIDE DEF after
  <2> QED BY <1>1, <1>4, <1>5, <1>6, <2>1, TouchedShare
<1>10. \A j \in AllKeys \ {k}: Level(new, j) = IF j \in lost THEN CapacityOf(j) ELSE Level(bs, j)
  BY <1>5, <1>8, LevelLocal DEF Forgets
<1> HIDE DEF new
<1>11. \A j \in AllKeys: g[j] = LET held == IF j \in lost THEN CapacityOf(j) ELSE f[j]
                               IN IF j = k /\ held > 0 THEN held - 1 ELSE held
  BY <1>5 DEF Charged
<1>12. g = [j \in AllKeys |-> g[j]] BY DEF Charged
<1>13. \A j \in AllKeys: f[j] \in Nat /\ f[j] <= CapacityOf(j) /\ Level(bs, j) <= f[j] BY DEF Books
<1> HIDE DEF g
<1>14. ASSUME NEW j \in AllKeys
       PROVE  /\ g[j] \in Nat /\ g[j] <= CapacityOf(j) /\ Level(new, j) <= g[j]
              /\ Level(bs, j) = f[j] => Level(new, j) = g[j]
  <2>1. Level(bs, j) \in Nat /\ CapacityOf(j) \in Nat /\ f[j] \in Nat /\ f[j] <= CapacityOf(j) /\ Level(bs, j) <= f[j]
    BY <1>3, <1>13
  <2>2. CASE j # k
    <3>1. g[j] = IF j \in lost THEN CapacityOf(j) ELSE f[j] BY <1>11, <2>2
    <3>2. Level(new, j) = IF j \in lost THEN CapacityOf(j) ELSE Level(bs, j) BY <1>10, <2>2
    <3> HIDE DEF CapacityOf
    <3> QED BY <2>1, <3>1, <3>2
  <2>3. CASE j = k
    <3>1. g[j] = IF f[j] > 0 THEN f[j] - 1 ELSE f[j] BY <1>7, <1>11, <2>3
    <3>2. Level(new, j) = IF Level(bs, j) >= 1 THEN Level(bs, j) - 1 ELSE Level(bs, j) BY <1>8, <2>3
    <3> HIDE DEF CapacityOf
    <3> QED BY <2>1, <3>1, <3>2
  <2> QED BY <2>2, <2>3
<1>15. g \in [AllKeys -> Nat] BY <1>12, <1>14
<1>16. setBacks = 0 => Behind(new)
  <2> HAVE setBacks = 0
  <2>1. Behind(cs) BY <1>6 DEF Books, Behind
  <2> QED BY <1>8, <2>1 DEF new
<1>17. setBacks = 0 => \A j \in AllKeys: Level(new, j) = g[j] BY <1>14 DEF Books
<1>18. Books(new, g) BY <1>1, <1>8, <1>9, <1>14, <1>15, <1>16, <1>17 DEF Books, new
<1> QED BY <1>18 DEF new, g

\* Looking at a bucket and sweeping the map change no level.
LEMMA SameLevels ==
  ASSUME NEW bs, NEW f, Books(bs, f), NEW cs, BucketMap(cs), ShareOf(cs), Behind(bs) => Behind(cs),
         \A k \in AllKeys: Level(cs, k) = Level(bs, k)
  PROVE  Books(cs, f)
BY DEF Books

LEMMA InspectKeeps ==
  ASSUME NEW bs, NEW f, Books(bs, f), NEW k \in BucketKeys
  PROVE  Books(inspect(bs, k), f)
<1>1. wall \in 0..MaxWall /\ wall \in Nat BY GateAssumption DEF Books
<1>2. BucketMap(bs) /\ ShareOf(bs) /\ k \in AllKeys BY DEF Books, AllKeys
<1>3. CASE bs[k] = NoBucket BY <1>3 DEF inspect
<1>4. CASE bs[k] # NoBucket
  <2>1. Level(bs, k) \in 0..CapacityOf(k) BY <1>1, <1>2, LevelsFit
  <2>2. inspect(bs, k) = Touched(bs, k, Level(bs, k)) BY <1>4 DEF inspect
  <2> DEFINE cs == Touched(bs, k, Level(bs, k))
  <2>3. /\ BucketMap(cs) /\ Level(cs, k) = Level(bs, k) /\ (Behind(bs) => Behind(cs))
        /\ \A j \in AllKeys \ {k}: cs[j] = bs[j]
    BY <1>1, <1>2, <2>1, TouchedFits
  <2>4. ShareOf(cs) BY <1>1, <1>2, <1>4, <2>1, TouchedShare
  <2> HIDE DEF cs
  <2>5. \A j \in AllKeys: Level(cs, j) = Level(bs, j) BY <2>3, LevelLocal
  <2>6. Books(cs, f) BY <2>3, <2>4, <2>5, SameLevels
  <2> QED BY <2>2, <2>6 DEF cs
<1> QED BY <1>3, <1>4

LEMMA SweepKeeps ==
  ASSUME NEW bs, NEW f, Books(bs, f) PROVE Books(sweep(bs), f)
<1>1. wall \in Nat BY GateAssumption DEF Books
<1>2. BucketMap(bs) /\ ShareOf(bs) BY DEF Books
<1>3. /\ BucketMap(sweep(bs)) /\ \A k \in AllKeys: sweep(bs)[k] \in {NoBucket, bs[k]}
      /\ \A k \in AllKeys: Level(sweep(bs), k) = Level(bs, k)
  BY <1>1, <1>2, SweptFits
<1>4. Mapped(sweep(bs)) \subseteq Mapped(bs) BY <1>3 DEF Mapped, AllKeys
<1>5. ShareOf(sweep(bs)) BY <1>2, <1>4, SmallerShare
<1>6. Behind(bs) => Behind(sweep(bs)) BY <1>3 DEF Behind
<1> QED BY <1>3, <1>5, <1>6, SameLevels

Observations == {"none", "pending", "stored"}

\* What the requests know, beside the buckets.
RequestsHeld ==
    /\ inGate \in [Calls -> {NoBucket} \cup GateRequests]
    /\ observation \in Observations /\ onRecord \in BOOLEAN /\ Remembered
    /\ \A r \in Calls: InStep(r, "identity") /\ inGate[r].credential = "key" => onRecord
    /\ setBacks \in 0..MaxGateFaults /\ gateFaults \in 0..MaxGateFaults

LEMMA GateParts == GateIndInv <=> Books(buckets, ideal) /\ RequestsHeld
<1>1. ASSUME GateIndInv PROVE Books(buckets, ideal) /\ RequestsHeld
  <2>1. BucketMap(buckets) BY <1>1 DEF GateIndInv, GateInv, GateTyped, GateTypeOK, BucketMap
  <2>2. ShareOf(buckets) BY <1>1 DEF GateIndInv, KeepsItsShare, ShareOf
  <2>3. wall \in 0..MaxWall /\ ideal \in [AllKeys -> Nat] BY <1>1 DEF GateIndInv, GateInv, GateTyped, GateTypeOK
  <2>4. \A k \in AllKeys: ideal[k] <= CapacityOf(k)
    <3>1. \A k \in AllKeys: ideal[k] \in 0..CapacityOf(k) BY <1>1 DEF GateIndInv, GateInv, GateTypeOK
    <3> HIDE DEF CapacityOf
    <3> QED BY <3>1, CapacityFits
  <2>5. setBacks = 0 => Behind(buckets) BY <1>1 DEF GateIndInv, NoneAhead, Behind
  <2>6. /\ \A k \in AllKeys: Level(buckets, k) <= ideal[k]
        /\ setBacks = 0 => \A k \in AllKeys: Level(buckets, k) = ideal[k]
    BY <1>1 DEF GateIndInv, GateInv
  <2>7. RequestsHeld BY <1>1 DEF GateIndInv, GateInv, GateTyped, GateTypeOK, RequestsHeld, Observations
  <2> QED BY <2>1, <2>2, <2>3, <2>4, <2>5, <2>6, <2>7 DEF Books
<1>2. ASSUME Books(buckets, ideal), RequestsHeld PROVE GateIndInv
  <2>1. GateTypeOK
    <3>1. ASSUME NEW k \in AllKeys
          PROVE  buckets[k] = NoBucket \/ buckets[k] \in [tokens: 0..CapacityOf(k), at: 0..MaxWall]
      <4>1. CapacityOf(k) \in Nat BY CapacityFits
      <4>2. CASE buckets[k] # NoBucket
        <5>1. buckets[k] \in [tokens: Nat, at: 0..MaxWall] /\ buckets[k].tokens <= CapacityOf(k)
          BY <1>2, <4>2 DEF Books, BucketMap
        <5> HIDE DEF CapacityOf
        <5>2. buckets[k].tokens \in 0..CapacityOf(k) BY <4>1, <5>1
        <5> QED BY <5>1, <5>2
      <4> QED BY <4>2
    <3>2. ASSUME NEW k \in AllKeys PROVE ideal[k] \in 0..CapacityOf(k)
      <4>1. ideal[k] \in Nat /\ ideal[k] <= CapacityOf(k) /\ CapacityOf(k) \in Nat BY <1>2, CapacityFits DEF Books
      <4> HIDE DEF CapacityOf
      <4> QED BY <4>1
    <3> QED BY <1>2, <3>1, <3>2 DEF GateTypeOK, Books, RequestsHeld, Observations
  <2>2. GateTyped BY <1>2 DEF GateTyped, Books, BucketMap, RequestsHeld
  <2>3. NoneAhead BY <1>2 DEF NoneAhead, Books, Behind
  <2>4. KeepsItsShare BY <1>2 DEF KeepsItsShare, Books, ShareOf
  <2>5. GateInv BY <1>2, <2>1, <2>4 DEF GateInv, Books, RequestsHeld, KeepsItsShare
  <2> QED BY <1>2, <2>2, <2>3, <2>4, <2>5 DEF GateIndInv, RequestsHeld
<1> QED BY <1>1, <1>2

LEMMA GatePartsNext == GateIndInv' <=> Books(buckets, ideal)' /\ RequestsHeld'
BY GateParts, PTL

\* While the clock stands still the books after a step are those of the step before.
LEMMA BooksCarry ==
  ASSUME UNCHANGED <<wall, setBacks>>, Books(buckets', ideal')
  PROVE  Books(buckets, ideal)'
<1>1. wall' = wall /\ setBacks' = setBacks OBVIOUS
<1>2. \A k: Level(buckets, k)' = Level(buckets', k) BY <1>1 DEF Level, Elapsed
<1>3. Behind(buckets)' <=> Behind(buckets') BY <1>1 DEF Behind
<1>4. BucketMap(buckets)' <=> BucketMap(buckets') BY DEF BucketMap
<1>5. ShareOf(buckets)' <=> ShareOf(buckets') BY DEF ShareOf, Mapped
<1> QED BY <1>1, <1>2, <1>3, <1>4, <1>5 DEF Books

LEMMA PolicyKeys ==
  ASSUME NEW r \in Calls, inGate[r] \in GateRequests
  PROVE  /\ <<"auth-failure", inGate[r].peer>> \in BucketKeys
         /\ <<inGate[r].policy, inGate[r].peer>> \in BucketKeys
BY DEF GateRequests, BucketKeys

LEMMA InStepTyped ==
  ASSUME RequestsHeld, NEW r \in Calls, NEW step, InStep(r, step) PROVE inGate[r] \in GateRequests
BY DEF RequestsHeld, InStep

LEMMA KeysListed ==
  /\ BucketKeys \subseteq AllKeys /\ LoginGlobal \in AllKeys /\ <<"admin", NoBucket>> \in BucketKeys
BY DEF AllKeys, BucketKeys

\* A request that goes on, with the record of the shared key as it was or as it may be now.
LEMMA RequestMoves ==
  ASSUME RequestsHeld, NEW r \in Calls, NEW q \in GateRequests \cup {NoBucket},
         inGate' = [inGate EXCEPT ![r] = q], UNCHANGED <<onRecord, setBacks, gateFaults>>,
         observation' \in Observations, observation' = "stored" => onRecord,
         q # NoBucket /\ q.step = "identity" /\ q.credential = "key" => onRecord
  PROVE  RequestsHeld'
<1>1. inGate' \in [Calls -> {NoBucket} \cup GateRequests] BY DEF RequestsHeld
<1>2. inGate'[r] = q /\ \A s \in Calls \ {r}: inGate'[s] = inGate[s] BY DEF RequestsHeld
<1>3. ASSUME NEW s \in Calls, InStep(s, "identity")', inGate'[s].credential = "key" PROVE onRecord
  <2>1. CASE s = r BY <1>2, <1>3, <2>1 DEF InStep
  <2>2. CASE s # r BY <1>2, <1>3, <2>2 DEF InStep, RequestsHeld
  <2> QED BY <2>1, <2>2
<1> QED BY <1>1, <1>3 DEF RequestsHeld, Remembered

\* A request that takes a step, and one that is answered.
Stepped(q, step) == [q EXCEPT !.step = step]
Replied(q, status) == [q EXCEPT !.step = "answer", !.status = status]

LEMMA StepOf ==
  ASSUME NEW q \in GateRequests, NEW step \in Steps
  PROVE  /\ Stepped(q, step) \in GateRequests
         /\ Stepped(q, step).step = step
         /\ Stepped(q, step).credential = q.credential
BY DEF GateRequests, Stepped

LEMMA AnswerOf ==
  ASSUME NEW q \in GateRequests, NEW status \in Statuses
  PROVE  /\ Replied(q, status) \in GateRequests
         /\ Replied(q, status).step = "answer"
<1>1. "answer" \in Steps BY DEF Steps
<1> QED BY <1>1 DEF GateRequests, Replied

LEMMA ListedSets ==
  /\ {"request", "handle", "observe", "identity", "answer"} \subseteq Steps
  /\ {200, 401, 429, 500} \subseteq Statuses
  /\ {"none", "pending", "stored"} \subseteq Observations
BY DEF Steps, Statuses, Observations

LEMMA TwoFields ==
  ASSUME NEW r \in Calls, NEW status, inGate \in [Calls -> {NoBucket} \cup GateRequests]
  PROVE  [inGate EXCEPT ![r].step = "answer", ![r].status = status]
           = [inGate EXCEPT ![r] = Replied(inGate[r], status)]
BY DEF Replied

\* A step other than the identity's asks nothing of the record.
LEMMA MoveKeeps ==
  ASSUME RequestsHeld, NEW r \in Calls, NEW step \in {"handle", "observe", "answer"},
         inGate[r] \in GateRequests, Move(r, step), UNCHANGED <<onRecord, setBacks, gateFaults>>,
         observation' \in Observations, observation' = "stored" => onRecord
  PROVE  RequestsHeld'
<1>1. inGate' = [inGate EXCEPT ![r] = Stepped(inGate[r], step)] BY DEF Move, RequestsHeld, Stepped
<1>2. step \in Steps BY DEF Steps
<1>3. Stepped(inGate[r], step) \in GateRequests /\ Stepped(inGate[r], step).step = step BY <1>2, StepOf
<1> QED BY <1>1, <1>3, RequestMoves

LEMMA AnswerKeeps ==
  ASSUME RequestsHeld, NEW r \in Calls, NEW status \in Statuses, inGate[r] \in GateRequests,
         inGate' = [inGate EXCEPT ![r] = Replied(inGate[r], status)],
         UNCHANGED <<observation, onRecord, setBacks, gateFaults>>
  PROVE  RequestsHeld'
<1>1. /\ Replied(inGate[r], status) \in GateRequests
      /\ Replied(inGate[r], status).step = "answer"
  BY AnswerOf
<1>2. observation' \in Observations /\ (observation' = "stored" => onRecord)
  BY DEF RequestsHeld, Remembered
<1> QED BY <1>1, <1>2, RequestMoves

LEMMA RejectedKeeps ==
  ASSUME RequestsHeld, NEW r \in Calls, inGate[r] \in GateRequests, Rejected(r),
         UNCHANGED <<observation, onRecord, setBacks, gateFaults>>
  PROVE  RequestsHeld'
<1>1. inGate' = [inGate EXCEPT ![r] = Replied(inGate[r], 429)]
  BY DEF Rejected, RequestsHeld, Replied
<1>2. 429 \in Statuses BY DEF Statuses
<1> QED BY <1>1, <1>2, AnswerKeeps

LEMMA HandledKeeps ==
  ASSUME Books(buckets, ideal), RequestsHeld, NEW r \in Calls, NEW status \in Statuses, Handled(r, status)
  PROVE  Books(buckets, ideal)' /\ RequestsHeld'
<1>1. UNCHANGED <<buckets, observation, onRecord, wall, setBacks, gateFaults, ideal>> BY DEF Handled
<1>2. inGate[r] \in GateRequests BY InStepTyped DEF Handled
<1>3. inGate' = [inGate EXCEPT ![r].step = "answer", ![r].status = status] BY DEF Handled
<1>4. [inGate EXCEPT ![r].step = "answer", ![r].status = status] = [inGate EXCEPT ![r] = Replied(inGate[r], status)]
  BY TwoFields DEF RequestsHeld
<1>5. RequestsHeld' BY <1>1, <1>2, <1>3, <1>4, AnswerKeeps
<1> QED BY <1>1, <1>5, BooksCarry

LEMMA OnRequestKeeps ==
  ASSUME Books(buckets, ideal), RequestsHeld, NEW r \in Calls, onRequest(r)
  PROVE  Books(buckets, ideal)' /\ RequestsHeld'
<1> DEFINE policy == inGate[r].policy
           peer == inGate[r].peer
           penalty == <<"auth-failure", peer>>
           seen == IF policy \in CredentialPolicies THEN inspect(buckets, penalty) ELSE buckets
           address == <<policy, peer>>
<1>1. inGate[r] \in GateRequests BY InStepTyped DEF onRequest
<1>2. penalty \in BucketKeys /\ address \in BucketKeys BY <1>1, PolicyKeys
<1>3. Books(seen, ideal) BY <1>2, InspectKeeps
<1>4. /\ Books(buckets', ideal')
      /\ Move(r, "handle") \/ Rejected(r)
  <2> HIDE DEF seen, address, penalty
  <2>1. CASE Move(r, "handle") /\ UNCHANGED <<buckets, ideal>> BY <2>1
  <2>2. CASE buckets' = seen /\ Rejected(r) /\ UNCHANGED ideal BY <1>3, <2>2
  <2>3. ASSUME NEW own \in Consumptions(seen, address),
               \/ /\ buckets' = own.buckets /\ ideal' = Charged(ideal, own.lost, address)
                  /\ Rejected(r) \/ Move(r, "handle")
               \/ \E all \in Consumptions(own.buckets, LoginGlobal):
                     /\ buckets' = all.buckets
                     /\ ideal' = Charged(Charged(ideal, own.lost, address), {}, LoginGlobal)
                     /\ Rejected(r) \/ Move(r, "handle")
        PROVE  Books(buckets', ideal') /\ (Move(r, "handle") \/ Rejected(r))
    <3>1. Books(own.buckets, Charged(ideal, own.lost, address)) BY <1>2, <1>3, KeysListed, ConsumeKeeps
    <3>2. CASE /\ buckets' = own.buckets /\ ideal' = Charged(ideal, own.lost, address)
               /\ Rejected(r) \/ Move(r, "handle")
      BY <3>1, <3>2
    <3>3. ASSUME NEW all \in Consumptions(own.buckets, LoginGlobal), buckets' = all.buckets,
                 ideal' = Charged(Charged(ideal, own.lost, address), {}, LoginGlobal),
                 Rejected(r) \/ Move(r, "handle")
          PROVE  Books(buckets', ideal') /\ (Move(r, "handle") \/ Rejected(r))
      <4>1. all.lost = {} BY DEF Consumptions
      <4>2. Books(all.buckets, Charged(Charged(ideal, own.lost, address), all.lost, LoginGlobal))
        BY <3>1, KeysListed, ConsumeKeeps
      <4> QED BY <3>3, <4>1, <4>2
    <3> QED BY <2>3, <3>2, <3>3
  <2>4. \/ Move(r, "handle") /\ UNCHANGED <<buckets, ideal>>
        \/ buckets' = seen /\ Rejected(r) /\ UNCHANGED ideal
        \/ \E own \in Consumptions(seen, address):
             \/ /\ buckets' = own.buckets /\ ideal' = Charged(ideal, own.lost, address)
                /\ Rejected(r) \/ Move(r, "handle")
             \/ \E all \in Consumptions(own.buckets, LoginGlobal):
                   /\ buckets' = all.buckets
                   /\ ideal' = Charged(Charged(ideal, own.lost, address), {}, LoginGlobal)
                   /\ Rejected(r) \/ Move(r, "handle")
    BY DEF onRequest, seen, address, penalty
  <2> QED BY <2>1, <2>2, <2>3, <2>4
<1>5. UNCHANGED <<observation, onRecord, wall, setBacks, gateFaults>> BY DEF onRequest
<1>6. observation' \in Observations /\ (observation' = "stored" => onRecord)
  BY <1>5 DEF RequestsHeld, Remembered
<1>7. RequestsHeld' BY <1>1, <1>4, <1>5, <1>6, MoveKeeps, RejectedKeeps
<1> QED BY <1>4, <1>5, <1>7, BooksCarry

LEMMA ResolveKeeps ==
  ASSUME Books(buckets, ideal), RequestsHeld, NEW r \in Calls, resolveAdminPrincipal(r)
  PROVE  Books(buckets, ideal)' /\ RequestsHeld'
<1>1. inGate[r] \in GateRequests BY InStepTyped DEF resolveAdminPrincipal
<1>2. UNCHANGED <<buckets, onRecord, wall, setBacks, gateFaults, ideal>> BY DEF resolveAdminPrincipal
<1>3. Books(buckets, ideal)' BY <1>2, BooksCarry
<1>4. observation \in Observations /\ (observation = "stored" => onRecord)
  BY DEF RequestsHeld, Remembered
<1>5. inGate[r].credential \in {"none", "session", "key"} BY <1>1 DEF GateRequests
<1>6. CASE inGate[r].credential \in {"none", "session"} /\ UNCHANGED observation
           /\ inGate' = [inGate EXCEPT ![r].step = "answer", ![r].status = 401]
  <2>1. PICK status \in Statuses: status = 401 BY DEF Statuses
  <2>2. inGate' = [inGate EXCEPT ![r].step = "answer", ![r].status = status] BY <1>6, <2>1
  <2>3. [inGate EXCEPT ![r].step = "answer", ![r].status = status] = [inGate EXCEPT ![r] = Replied(inGate[r], status)]
    BY TwoFields DEF RequestsHeld
  <2>4. UNCHANGED <<observation, onRecord, setBacks, gateFaults>> BY <1>2, <1>6
  <2> QED BY <1>1, <1>3, <2>2, <2>3, <2>4, AnswerKeeps
<1>7. CASE inGate[r].credential = "session" /\ Move(r, "identity") /\ UNCHANGED observation
  <2>1. inGate' = [inGate EXCEPT ![r] = Stepped(inGate[r], "identity")] BY <1>7 DEF Move, RequestsHeld, Stepped
  <2>2. /\ Stepped(inGate[r], "identity") \in GateRequests
        /\ Stepped(inGate[r], "identity").credential = inGate[r].credential
    <3>1. "identity" \in Steps BY DEF Steps
    <3> QED BY <1>1, <3>1, StepOf
  <2>3. UNCHANGED <<onRecord, setBacks, gateFaults>> BY <1>2
  <2>4. observation' \in Observations /\ (observation' = "stored" => onRecord) BY <1>4, <1>7
  <2>5. Stepped(inGate[r], "identity").credential # "key" BY <1>7, <2>2
  <2> QED BY <1>3, <2>1, <2>2, <2>3, <2>4, <2>5, RequestMoves
<1>8. CASE /\ inGate[r].credential = "key"
           /\ Move(r, IF observation = "stored" THEN "identity" ELSE "observe")
           /\ observation' = IF observation = "none" THEN "pending" ELSE observation
  <2>1. observation' \in Observations /\ (observation' = "stored" => onRecord) BY <1>4, <1>8, ListedSets
  <2>2. CASE observation # "stored"
    <3>1. Move(r, "observe") BY <1>8, <2>2
    <3>2. UNCHANGED <<onRecord, setBacks, gateFaults>> BY <1>2
    <3> QED BY <1>1, <1>3, <2>1, <3>1, <3>2, MoveKeeps
  <2>3. CASE observation = "stored"
    <3>1. inGate' = [inGate EXCEPT ![r] = Stepped(inGate[r], "identity")]
      BY <1>8, <2>3 DEF Move, RequestsHeld, Stepped
    <3>2. Stepped(inGate[r], "identity") \in GateRequests
      <4>1. "identity" \in Steps BY DEF Steps
      <4> QED BY <1>1, <4>1, StepOf
    <3>3. UNCHANGED <<onRecord, setBacks, gateFaults>> BY <1>2
    <3>4. onRecord BY <1>4, <2>3
    <3> QED BY <1>3, <2>1, <3>1, <3>2, <3>3, <3>4, RequestMoves
  <2> QED BY <2>2, <2>3
<1>9. \/ inGate[r].credential \in {"none", "session"} /\ UNCHANGED observation
         /\ inGate' = [inGate EXCEPT ![r].step = "answer", ![r].status = 401]
      \/ inGate[r].credential = "session" /\ Move(r, "identity") /\ UNCHANGED observation
      \/ /\ inGate[r].credential = "key"
         /\ Move(r, IF observation = "stored" THEN "identity" ELSE "observe")
         /\ observation' = IF observation = "none" THEN "pending" ELSE observation
  <2>1. CASE inGate[r].credential = "none" BY <2>1 DEF resolveAdminPrincipal
  <2>2. CASE inGate[r].credential = "session" BY <2>2 DEF resolveAdminPrincipal
  <2>3. CASE inGate[r].credential = "key" BY <2>3 DEF resolveAdminPrincipal
  <2> QED BY <1>5, <2>1, <2>2, <2>3
<1> QED BY <1>3, <1>6, <1>7, <1>8, <1>9

LEMMA AuditKeeps ==
  ASSUME Books(buckets, ideal), RequestsHeld, AuditStored \/ AuditFails
  PROVE  Books(buckets, ideal)' /\ RequestsHeld'
<1>1. UNCHANGED <<buckets, wall, setBacks, ideal>> BY DEF AuditStored, AuditFails
<1>2. Books(buckets, ideal)' BY <1>1, BooksCarry
<1>3. ASSUME NEW s \in Calls, InStep(s, "observe")
      PROVE  /\ Stepped(inGate[s], "identity") \in GateRequests
             /\ Unobserved(s) \in GateRequests /\ Unobserved(s).step = "answer"
  <2>1. inGate[s] \in GateRequests BY <1>3, InStepTyped
  <2>2. Unobserved(s) = Replied(inGate[s], 500) BY DEF Unobserved, Replied
  <2>3. "identity" \in Steps /\ 500 \in Statuses BY DEF Steps, Statuses
  <2>4. Stepped(inGate[s], "identity") \in GateRequests BY <2>1, <2>3, StepOf
  <2>5. Replied(inGate[s], 500) \in GateRequests /\ Replied(inGate[s], 500).step = "answer"
    BY <2>1, <2>3, AnswerOf
  <2> QED BY <2>2, <2>4, <2>5
<1>4. gateFaults' \in 0..MaxGateFaults /\ setBacks' \in 0..MaxGateFaults
  <2>1. setBacks \in Nat /\ gateFaults \in Nat /\ gateFaults <= MaxGateFaults /\ MaxGateFaults \in Nat
    BY GateAssumption DEF RequestsHeld
  <2>2. setBacks' \in 0..MaxGateFaults BY <1>1 DEF RequestsHeld
  <2>3. CASE AuditStored BY <2>2, <2>3 DEF AuditStored, RequestsHeld
  <2>4. CASE AuditFails BY <2>1, <2>2, <2>4 DEF AuditFails
  <2> QED BY <2>3, <2>4
<1>5. CASE AuditStored
  <2>1. inGate' \in [Calls -> {NoBucket} \cup GateRequests] BY <1>3, <1>5 DEF AuditStored, RequestsHeld, Stepped
  <2>2. observation' = "stored" /\ observation' \in Observations /\ onRecord' = TRUE
    BY <1>5, ListedSets DEF AuditStored
  <2> QED BY <1>2, <1>4, <2>1, <2>2 DEF RequestsHeld, Remembered
<1>6. CASE AuditFails
  <2>1. inGate' = [s \in Calls |-> IF InStep(s, "observe") THEN Unobserved(s) ELSE inGate[s]] BY <1>6 DEF AuditFails
  <2>2. inGate' \in [Calls -> {NoBucket} \cup GateRequests] BY <1>3, <2>1 DEF RequestsHeld
  <2>3. /\ observation' \in Observations /\ observation' # "stored"
        /\ onRecord' \in BOOLEAN /\ (onRecord => onRecord')
    <3>1. onRecord \in BOOLEAN BY DEF RequestsHeld
    <3>2. onRecord' \in {onRecord, TRUE} /\ observation' = "none" BY <1>6 DEF AuditFails
    <3>3. CASE onRecord' = onRecord BY <3>1, <3>2, <3>3, ListedSets
    <3>4. CASE onRecord' = TRUE BY <3>2, <3>4, ListedSets
    <3> QED BY <3>2, <3>3, <3>4, ListedSets
  <2>4. ASSUME NEW s \in Calls, InStep(s, "identity")', inGate'[s].credential = "key" PROVE onRecord'
    <3>1. CASE InStep(s, "observe") BY <1>3, <2>1, <2>4, <3>1 DEF InStep
    <3>2. CASE ~InStep(s, "observe")
      <4>1. inGate'[s] = inGate[s] BY <2>1, <3>2
      <4> QED BY <2>3, <2>4, <4>1 DEF InStep, RequestsHeld
    <3> QED BY <3>1, <3>2
  <2> QED BY <1>2, <1>4, <2>2, <2>3, <2>4 DEF RequestsHeld, Remembered
<1> QED BY <1>5, <1>6

LEMMA IdentityStepKeeps ==
  ASSUME Books(buckets, ideal), RequestsHeld, NEW r \in Calls, rateLimitAdminIdentity(r)
  PROVE  Books(buckets, ideal)' /\ RequestsHeld'
<1>1. inGate[r] \in GateRequests BY InStepTyped DEF rateLimitAdminIdentity
<1>2. UNCHANGED <<observation, onRecord, wall, setBacks, gateFaults>> BY DEF rateLimitAdminIdentity
<1>3. PICK own \in Consumptions(buckets, <<"admin", NoBucket>>):
         /\ buckets' = own.buckets /\ ideal' = Charged(ideal, own.lost, <<"admin", NoBucket>>)
         /\ Move(r, "answer") \/ Rejected(r)
  BY DEF rateLimitAdminIdentity
<1>4. Books(own.buckets, Charged(ideal, own.lost, <<"admin", NoBucket>>)) BY KeysListed, ConsumeKeeps
<1>5. observation' \in Observations /\ (observation' = "stored" => onRecord)
  BY <1>2 DEF RequestsHeld, Remembered
<1>6. RequestsHeld' BY <1>1, <1>2, <1>3, <1>5, MoveKeeps, RejectedKeeps
<1> QED BY <1>2, <1>3, <1>4, <1>6, BooksCarry

LEMMA ResponseKeeps ==
  ASSUME Books(buckets, ideal), RequestsHeld, NEW r \in Calls, onResponse(r)
  PROVE  Books(buckets, ideal)' /\ RequestsHeld'
<1> DEFINE penalty == <<"auth-failure", inGate[r].peer>>
<1>1. inGate[r] \in GateRequests BY InStepTyped DEF onResponse
<1>2. penalty \in AllKeys BY <1>1, PolicyKeys, KeysListed
<1>3. UNCHANGED <<observation, onRecord, wall, setBacks, gateFaults>> BY DEF onResponse
<1>4. Books(buckets', ideal')
  <2> HIDE DEF penalty
  <2>1. CASE UNCHANGED <<buckets, ideal>> BY <2>1
  <2>2. ASSUME NEW own \in Consumptions(buckets, penalty), buckets' = own.buckets,
               ideal' = Charged(ideal, own.lost, penalty)
        PROVE  Books(buckets', ideal')
    BY <1>2, <2>2, ConsumeKeeps
  <2>3. \/ UNCHANGED <<buckets, ideal>>
        \/ \E own \in Consumptions(buckets, penalty): buckets' = own.buckets /\ ideal' = Charged(ideal, own.lost, penalty)
    BY DEF onResponse, Punished, penalty
  <2> QED BY <2>1, <2>2, <2>3
<1>5. observation' \in Observations /\ (observation' = "stored" => onRecord)
  BY <1>3 DEF RequestsHeld, Remembered
<1>6. inGate' = [inGate EXCEPT ![r] = NoBucket] BY DEF onResponse
<1>7. RequestsHeld' BY <1>3, <1>5, <1>6, RequestMoves
<1> QED BY <1>3, <1>4, <1>7, BooksCarry

\* The clock goes forward: a bucket gains no more than the ideal one, and as much if no
\* bucket is ahead of the clock.
LEMMA ForwardKeeps ==
  ASSUME Books(buckets, ideal), RequestsHeld, ClockForward
  PROVE  Books(buckets, ideal)' /\ RequestsHeld'
<1>1. UNCHANGED <<buckets, inGate, observation, onRecord, setBacks, gateFaults>> BY DEF ClockForward
<1>2. wall \in Nat /\ MaxWall \in Nat /\ wall < MaxWall /\ wall' = wall + 1
  BY GateAssumption DEF ClockForward, Books
<1>3. ideal' = [k \in AllKeys |-> Lesser(CapacityOf(k), ideal[k] + 1)] BY DEF ClockForward
<1>4. ASSUME NEW k \in AllKeys
      PROVE  /\ ideal'[k] \in Nat /\ ideal'[k] <= CapacityOf(k) /\ Level(buckets, k)' <= ideal'[k]
             /\ Level(buckets, k) = ideal[k] /\ (buckets[k] # NoBucket => buckets[k].at <= wall)
                  => Level(buckets, k)' = ideal'[k]
  <2>1. /\ CapacityOf(k) \in Nat /\ ideal[k] \in Nat /\ ideal[k] <= CapacityOf(k) /\ Level(buckets, k) <= ideal[k]
    BY CapacityFits DEF Books
  <2>2. ideal'[k] = IF CapacityOf(k) < ideal[k] + 1 THEN CapacityOf(k) ELSE ideal[k] + 1 BY <1>3 DEF Lesser
  <2>3. CASE buckets[k] = NoBucket
    <3>1. Level(buckets, k)' = CapacityOf(k) /\ Level(buckets, k) = CapacityOf(k) BY <1>1, <2>3 DEF Level, CapacityOf
    <3> HIDE DEF CapacityOf
    <3> QED BY <2>1, <2>2, <3>1
  <2>4. CASE buckets[k] # NoBucket
    <3> DEFINE tokens == buckets[k].tokens
               at == buckets[k].at
    <3>1. tokens \in Nat /\ at \in Nat BY <2>4, GateAssumption DEF Books, BucketMap
    <3>2. Level(buckets, k) = Lesser(CapacityOf(k), tokens + (IF wall > at THEN wall - at ELSE 0))
      BY <2>4 DEF Level, Elapsed
    <3> DEFINE By(w) == Lesser(CapacityOf(k), tokens + (IF w > at THEN w - at ELSE 0))
    <3>3. Level(buckets, k)' = By(wall') BY <1>1, <2>4 DEF Level, Elapsed, CapacityOf
    <3> HIDE DEF By
    <3>4. Level(buckets, k)' = By(wall + 1) BY <1>2, <3>3
    <3> HIDE DEF CapacityOf, tokens, at
    <3>5. /\ Level(buckets, k)' <= ideal'[k]
          /\ Level(buckets, k) = ideal[k] /\ at <= wall => Level(buckets, k)' = ideal'[k]
      BY <1>2, <2>1, <2>2, <3>1, <3>2, <3>4 DEF Lesser, By
    <3> QED BY <2>1, <2>2, <2>4, <3>5 DEF at
  <2> QED BY <2>3, <2>4
<1>5. ideal' \in [AllKeys -> Nat] BY <1>3, <1>4
<1>6. BucketMap(buckets)' /\ ShareOf(buckets)' BY <1>1 DEF Books, BucketMap, ShareOf, Mapped, CapacityOf
<1>7. setBacks' = 0 => Behind(buckets)'
  <2>1. ASSUME Behind(buckets) PROVE Behind(buckets)'
    <3>1. ASSUME NEW k \in AllKeys, buckets[k] # NoBucket PROVE buckets[k].at <= wall + 1
      <4>1. buckets[k].at \in Nat /\ buckets[k].at <= wall
        BY <2>1, <3>1, GateAssumption DEF Books, BucketMap, Behind
      <4> QED BY <1>2, <4>1
    <3> QED BY <1>1, <1>2, <3>1 DEF Behind
  <2> QED BY <1>1, <2>1 DEF Books
<1>8. setBacks' = 0 => \A k \in AllKeys: Level(buckets, k)' = ideal'[k] BY <1>1, <1>4 DEF Books, Behind
<1>9. wall' \in 0..MaxWall BY <1>2
<1>10. \A k \in AllKeys: CapacityOf(k)' = CapacityOf(k) BY DEF CapacityOf
<1>11. Books(buckets, ideal)' BY <1>4, <1>5, <1>6, <1>7, <1>8, <1>9, <1>10 DEF Books
<1>12. RequestsHeld' BY <1>1 DEF RequestsHeld, Remembered, InStep
<1> QED BY <1>11, <1>12

\* Set back, it takes from every bucket what it had gained since, and nothing from the ideal.
LEMMA SetBackKeeps ==
  ASSUME Books(buckets, ideal), RequestsHeld, ClockSetBack
  PROVE  Books(buckets, ideal)' /\ RequestsHeld'
<1>1. UNCHANGED <<buckets, inGate, observation, onRecord, gateFaults, ideal>> BY DEF ClockSetBack
<1>2. wall \in Nat /\ wall > 0 /\ MaxWall \in Nat /\ wall <= MaxWall /\ wall' = wall - 1
  BY GateAssumption DEF ClockSetBack, Books
<1>3. setBacks' \in 0..MaxGateFaults /\ setBacks' # 0
  <2>1. setBacks \in Nat /\ gateFaults \in Nat /\ MaxGateFaults \in Nat BY GateAssumption DEF RequestsHeld
  <2> QED BY <2>1 DEF ClockSetBack
<1>4. ASSUME NEW k \in AllKeys PROVE Level(buckets, k)' <= ideal'[k]
  <2>1. /\ CapacityOf(k) \in Nat /\ ideal[k] \in Nat /\ Level(buckets, k) <= ideal[k] /\ ideal'[k] = ideal[k]
    BY <1>1, CapacityFits DEF Books
  <2>2. CASE buckets[k] = NoBucket
    <3>1. Level(buckets, k)' = Level(buckets, k) BY <1>1, <2>2 DEF Level, CapacityOf
    <3> QED BY <2>1, <3>1
  <2>3. CASE buckets[k] # NoBucket
    <3> DEFINE tokens == buckets[k].tokens
               at == buckets[k].at
    <3>1. tokens \in Nat /\ at \in Nat BY <2>3, GateAssumption DEF Books, BucketMap
    <3>2. Level(buckets, k) = Lesser(CapacityOf(k), tokens + (IF wall > at THEN wall - at ELSE 0))
      BY <2>3 DEF Level, Elapsed
    <3> DEFINE By(w) == Lesser(CapacityOf(k), tokens + (IF w > at THEN w - at ELSE 0))
    <3>3. Level(buckets, k)' = By(wall') BY <1>1, <2>3 DEF Level, Elapsed, CapacityOf
    <3> HIDE DEF By
    <3>4. Level(buckets, k)' = By(wall - 1) BY <1>2, <3>3
    <3> HIDE DEF CapacityOf, tokens, at
    <3>5. Level(buckets, k)' <= Level(buckets, k) /\ Level(buckets, k)' \in Int /\ Level(buckets, k) \in Int
      BY <1>2, <2>1, <3>1, <3>2, <3>4 DEF Lesser, By
    <3> QED BY <2>1, <3>5
  <2> QED BY <2>2, <2>3
<1>5. BucketMap(buckets)' /\ ShareOf(buckets)' BY <1>1 DEF Books, BucketMap, ShareOf, Mapped, CapacityOf
<1>6. ideal' \in [AllKeys -> Nat] /\ \A k \in AllKeys: ideal'[k] <= CapacityOf(k)' BY <1>1 DEF Books, CapacityOf
<1>7. wall' \in 0..MaxWall BY <1>2
<1>8. Books(buckets, ideal)' BY <1>3, <1>4, <1>5, <1>6, <1>7 DEF Books
<1>9. RequestsHeld' BY <1>1, <1>3 DEF RequestsHeld, Remembered, InStep
<1> QED BY <1>8, <1>9

LEMMA GateBegins == GateInit => GateIndInv
<1> SUFFICES ASSUME GateInit PROVE Books(buckets, ideal) /\ RequestsHeld BY GateParts
<1>1. buckets = [k \in AllKeys |-> NoBucket] /\ ideal = [k \in AllKeys |-> CapacityOf(k)] BY DEF GateInit
<1>2. \A k \in AllKeys: buckets[k] = NoBucket /\ ideal[k] = CapacityOf(k) BY <1>1
<1>3. \A k \in AllKeys: CapacityOf(k) \in Nat BY CapacityFits
<1>4. \A k \in AllKeys: Level(buckets, k) = CapacityOf(k) BY <1>2 DEF Level
<1>5. Mapped(buckets) = {} BY <1>2, KeysListed DEF Mapped
<1>6. ShareOf(buckets) BY <1>5, FS_EmptySet, GateAssumption DEF ShareOf
<1>7. BucketMap(buckets) BY <1>1, <1>2 DEF BucketMap
<1>8. Behind(buckets) BY <1>2 DEF Behind
<1>9. ideal \in [AllKeys -> Nat]
  <2> HIDE DEF CapacityOf
  <2> QED BY <1>1, <1>3
<1>10. wall \in 0..MaxWall BY GateAssumption DEF GateInit
<1>11. \A k \in AllKeys: Level(buckets, k) <= ideal[k] /\ ideal[k] <= CapacityOf(k) /\ Level(buckets, k) = ideal[k]
  <2> HIDE DEF CapacityOf
  <2> QED BY <1>2, <1>3, <1>4
<1>12. Books(buckets, ideal) BY <1>6, <1>7, <1>8, <1>9, <1>10, <1>11 DEF Books
<1>13. RequestsHeld
  <2>1. inGate = [r \in Calls |-> NoBucket] BY DEF GateInit
  <2>2. \A r \in Calls: ~InStep(r, "identity") BY <2>1 DEF InStep
  <2>3. inGate \in [Calls -> {NoBucket} \cup GateRequests] BY <2>1
  <2>4. setBacks = 0 /\ gateFaults = 0 /\ MaxGateFaults \in Nat BY GateAssumption DEF GateInit
  <2>5. observation = "none" /\ onRecord = FALSE BY DEF GateInit
  <2>6. observation \in Observations /\ onRecord \in BOOLEAN /\ Remembered BY <2>5, ListedSets DEF Remembered
  <2>7. setBacks \in 0..MaxGateFaults /\ gateFaults \in 0..MaxGateFaults BY <2>4
  <2> QED BY <2>2, <2>3, <2>6, <2>7 DEF RequestsHeld
<1> QED BY <1>12, <1>13

LEMMA GateStep == GateIndInv /\ [GateNext]_gateVars => GateIndInv'
<1> SUFFICES ASSUME Books(buckets, ideal), RequestsHeld, [GateNext]_gateVars
             PROVE  Books(buckets, ideal)' /\ RequestsHeld'
  BY GateParts, GatePartsNext
<1>1. ASSUME NEW r \in Calls, NEW peer \in Peers, NEW policy \in RoutePolicies,
             NEW credential \in {"none", "session", "key"}, Receives(r, peer, policy, credential)
      PROVE  Books(buckets, ideal)' /\ RequestsHeld'
  <2>1. UNCHANGED <<buckets, observation, onRecord, wall, setBacks, gateFaults, ideal>> BY <1>1 DEF Receives
  <2> DEFINE q == [peer |-> peer, policy |-> policy, credential |-> credential,
                   trusted |-> Trusts(peer, credential), step |-> "request", status |-> 200]
  <2>2. q \in GateRequests /\ q.step = "request" BY ListedSets DEF GateRequests, Trusts
  <2>3. inGate' = [inGate EXCEPT ![r] = q] BY <1>1 DEF Receives
  <2> HIDE DEF q
  <2>4. observation' \in Observations /\ (observation' = "stored" => onRecord)
    BY <2>1 DEF RequestsHeld, Remembered
  <2>5. RequestsHeld' BY <2>1, <2>2, <2>3, <2>4, RequestMoves
  <2> QED BY <2>1, <2>5, BooksCarry
<1>2. ASSUME NEW r \in Calls, NEW status \in {200, 401}, Handled(r, status)
      PROVE  Books(buckets, ideal)' /\ RequestsHeld'
  <2>1. status \in Statuses BY DEF Statuses
  <2> QED BY <1>2, <2>1, HandledKeeps
<1>3. CASE SweepTimer
  <2>1. Books(buckets', ideal') BY <1>3, SweepKeeps DEF SweepTimer
  <2>2. UNCHANGED <<inGate, observation, onRecord, wall, setBacks, gateFaults>> BY <1>3 DEF SweepTimer
  <2>3. RequestsHeld' BY <2>2 DEF RequestsHeld, Remembered, InStep
  <2> QED BY <2>1, <2>2, <2>3, BooksCarry
<1>4. CASE UNCHANGED gateVars
  <2>1. RequestsHeld' BY <1>4 DEF gateVars, RequestsHeld, Remembered, InStep
  <2> QED BY <1>4, <2>1, BooksCarry DEF gateVars
<1> QED
  BY <1>1, <1>2, <1>3, <1>4, OnRequestKeeps, ResolveKeeps, AuditKeeps, IdentityStepKeeps, ResponseKeeps,
     ForwardKeeps, SetBackKeeps DEF GateNext

\* The inductive invariant of the gate, however many requests overlap.
THEOREM GateInvariance == GateSpec => []GateIndInv
BY GateBegins, GateStep, PTL DEF GateSpec

\* No bucket gains or loses a token by being forgotten (rate-limit.ts), and nobody is let
\* in by the shared key before its use is on record.
THEOREM GateSafe == GateSpec => []GateInv
<1>1. GateIndInv => GateInv BY DEF GateIndInv
<1> QED BY <1>1, GateInvariance, PTL
==============================================================================
