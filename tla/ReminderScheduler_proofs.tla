----------------------- MODULE ReminderScheduler_proofs -----------------------
(***************************************************************************)
(* For any number of processes, tasks and failures: while no run outlives  *)
(* its lease only the owner evaluates, notifications of a task keep their  *)
(* distance, and the counters of a task agree with what was created.       *)
(***************************************************************************)
EXTENDS ReminderScheduler, FiniteSetTheorems, TLAPS

------------------------------------------------------------------------------
(* Groups of variables that most steps treat alike. *)

LeaseType == owner \in Workers \union {None, Stale} /\ until \in Nat
             /\ status \in {"IDLE", "RUNNING", "COMPLETED", "FAILED"}
RunType ==
  /\ pc \in [Workers -> {"idle", "list", "evaluate", "intents", "complete", "fail"}]
  /\ listed \in [Workers -> SUBSET Tasks]
  /\ todo \in [Workers -> SUBSET Candidates]
  /\ at \in [Workers -> Nat]
LedgerType ==
  /\ keys \in SUBSET (Candidates \X Recipients \X Nat)
  /\ count \in [Tasks -> Nat]
  /\ next \in [Candidates -> Nat]
LedgerInv == LedgerType /\ CountExact
LeaseInv == LeaseType /\ StatusHonest /\ OneRun /\ LeaseLive
ClockType ==
  clock \in 0 .. MaxTime /\ overran \in BOOLEAN /\ interval \in [Workers -> Intervals]

LEMMA Parts ==
  IndInv <=> /\ LedgerInv /\ LeaseInv /\ RunType /\ ClockType
             /\ order \in Seq(Tasks) /\ faults \in 0 .. MaxFaults
  BY DEF IndInv, LedgerInv, LeaseInv, RunType, ClockType, LedgerType, LeaseType, TypeOK

LEMMA Assembled ==
  ASSUME LedgerInv', LeaseInv', RunType', ClockType', order' \in Seq(Tasks),
         faults' \in 0 .. MaxFaults
  PROVE  IndInv'
  BY DEF IndInv, LedgerInv, LeaseInv, RunType, ClockType, LedgerType, LeaseType, TypeOK

LEMMA LedgerKept == ASSUME LedgerInv, UNCHANGED ledger PROVE LedgerInv'
  BY DEF ledger, LedgerInv, LedgerType, CountExact, Reminders

LEMMA RunKept == ASSUME RunType, UNCHANGED run PROVE RunType'
  BY DEF run, RunType

\* No run gets in, and a failing one goes on failing.
Calm(w) == pc'[w] # "idle" => pc[w] # "idle" /\ (pc[w] = "fail" => pc'[w] = "fail")

\* A step that leaves the lease alone and lets no run in keeps the lease right.
LEMMA LeaseKept ==
  ASSUME LeaseInv, UNCHANGED <<lease, clock, overran>>, \A w \in Workers : Calm(w)
  PROVE  LeaseInv'
<1>1. LeaseType' /\ StatusHonest' /\ LeaseLive'
  BY DEF lease, LeaseInv, LeaseType, StatusHonest, LeaseLive
<1>2. OneRun'
  BY DEF OneRun, Busy, LeaseInv, lease, Calm
<1> QED
  BY <1>1, <1>2 DEF LeaseInv

\* Taking a free lease keeps it right, for a run of w or for nobody alive.
LEMMA LeaseTaken ==
  ASSUME LeaseInv, ClockType, NEW w \in Workers, NEW o \in Workers \union {Stale},
         Take(w, o), UNCHANGED <<clock, overran>>,
         \A v \in Workers \ {o} : Calm(v)
  PROVE  LeaseInv'
<1> USE OwnersApart
<1>1. owner' = o /\ until' = clock + LeaseAsked(w) /\ status' = "RUNNING" /\ until <= clock
  BY DEF Take, LeaseFree
<1>5. LeaseAsked(w) \in Nat \ {0} /\ clock \in Nat
  <2>1. interval[w] \in Nat \ {0}
    BY TimesAreNatural DEF ClockType
  <2> QED
    BY <2>1 DEF LeaseAsked, ClockType
<1>2. LeaseType' /\ StatusHonest'
  BY <1>1, <1>5 DEF LeaseInv, LeaseType, StatusHonest
<1>3. LeaseLive'
  BY <1>1, <1>5 DEF LeaseLive
<1>4. OneRun'
  <2> SUFFICES ASSUME ~overran, NEW v \in Workers, pc'[v] # "idle", v # o
               PROVE  pc'[v] = "fail"
    BY <1>1 DEF OneRun, Busy
  <2>1. Calm(v)
    OBVIOUS
  <2>2. owner = v \/ pc[v] = "fail"
    BY <2>1 DEF Calm, OneRun, Busy, LeaseInv
  <2>3. owner # v
    BY <1>1, <1>5 DEF LeaseInv, LeaseLive, LeaseType
  <2> QED
    BY <2>1, <2>2, <2>3 DEF Calm
<1> QED
  BY <1>2, <1>3, <1>4 DEF LeaseInv

\* A completion keeps the lease right, whether or not the run still owns it.
LEMMA LeaseCompleted ==
  ASSUME LeaseInv, NEW w \in Workers, NEW outcome \in {"COMPLETED", "FAILED"},
         Complete(w, outcome), UNCHANGED <<clock, overran>>,
         pc'[w] \in {"idle", "fail"}, \A v \in Workers \ {w} : Calm(v)
  PROVE  LeaseInv'
<1> USE OwnersApart
<1>1. CASE owner = w
  <2>1. owner' = None /\ until' = 0 /\ status' = outcome
    BY <1>1 DEF Complete, Owns
  <2>2. LeaseType' /\ StatusHonest' /\ LeaseLive'
    BY <2>1 DEF LeaseInv, LeaseType, StatusHonest, LeaseLive
  <2>3. OneRun'
    BY <1>1 DEF OneRun, Busy, LeaseInv, Calm
  <2> QED
    BY <2>2, <2>3 DEF LeaseInv
<1>2. CASE owner # w
  <2>1. UNCHANGED lease
    BY <1>2 DEF Complete, Owns
  <2>2. LeaseType' /\ StatusHonest' /\ LeaseLive'
    BY <2>1 DEF lease, LeaseInv, LeaseType, StatusHonest, LeaseLive
  <2>3. OneRun'
    BY <2>1 DEF OneRun, Busy, LeaseInv, Calm, lease
  <2> QED
    BY <2>2, <2>3 DEF LeaseInv
<1> QED
  BY <1>1, <1>2

\* So does a run that ends without clearing it.
LEMMA LeaseAbandoned ==
  ASSUME LeaseInv, NEW w \in Workers, Abandon(w), UNCHANGED <<clock, overran>>,
         pc'[w] = "idle", \A v \in Workers \ {w} : Calm(v)
  PROVE  LeaseInv'
<1> USE OwnersApart
<1>1. /\ owner' = IF owner = w THEN Stale ELSE owner
      /\ until' = until /\ status' = status
  BY DEF Abandon
<1>2. LeaseType' /\ StatusHonest' /\ LeaseLive'
  BY <1>1 DEF LeaseInv, LeaseType, StatusHonest, LeaseLive
<1>3. OneRun'
  <2> SUFFICES ASSUME ~overran, NEW v \in Workers, pc'[v] # "idle", v # w
               PROVE  owner' = v \/ pc'[v] = "fail"
    BY DEF OneRun, Busy
  <2> QED
    BY <1>1 DEF OneRun, Busy, LeaseInv, Calm
<1> QED
  BY <1>2, <1>3 DEF LeaseInv

\* The end of a run in the run's own variables.
LEMMA RunEnded ==
  ASSUME RunType, NEW w \in Workers, End(w)
  PROVE  RunType' /\ pc'[w] = "idle" /\ \A v \in Workers \ {w} : Calm(v)
  BY DEF RunType, End, Calm

------------------------------------------------------------------------------
(* Creation of a notification. *)

\* create_task_notification keeps counts and keys in agreement.
LEMMA LedgerCreated ==
  ASSUME LedgerInv, RunType, NEW w \in Workers, NEW c \in Candidates, Create(w, c)
  PROVE  LedgerInv'
<1>1. PICK r \in Recipients :
        LET k == <<c, r, at[w] \div Every[c[2]]>>
        IN  IF k \notin keys
              THEN /\ keys' = keys \union {k}
                   /\ count' = IF c[2] = "reminder" THEN [count EXCEPT ![c[1]] = @ + 1] ELSE count
                   /\ next' = [next EXCEPT ![c] = at[w] + Every[c[2]]]
              ELSE UNCHANGED ledger
  BY DEF Create
<1> DEFINE k == <<c, r, at[w] \div Every[c[2]]>>
<1>2. CASE k \in keys
  BY <1>1, <1>2, LedgerKept
<1>3. CASE k \notin keys
  <2>1. /\ keys' = keys \union {k}
        /\ count' = IF c[2] = "reminder" THEN [count EXCEPT ![c[1]] = @ + 1] ELSE count
        /\ next' = [next EXCEPT ![c] = at[w] + Every[c[2]]]
    BY <1>1, <1>3
  <2>2. /\ c[1] \in Tasks /\ c[2] \in Events /\ c = <<c[1], c[2]>>
        /\ at[w] \in Nat /\ Every[c[2]] \in Nat \ {0}
    BY TimesAreNatural DEF Candidates, Events, Every, RunType
  <2>3. at[w] \div Every[c[2]] \in Nat
    <3> DEFINE n == Every[c[2]]
    <3>1. at[w] \in Nat /\ n \in Nat \ {0}
      BY <2>2
    <3> HIDE DEF n
    <3>2. at[w] \div n \in Nat
      BY <3>1
    <3> QED
      BY <3>2 DEF n
  <2>4. k \in Candidates \X Recipients \X Nat /\ k[1] = c
    BY <2>3
  <2> HIDE DEF k
  <2>5. LedgerType'
    <3>1. keys' \in SUBSET (Candidates \X Recipients \X Nat)
      BY <2>1, <2>4 DEF LedgerInv, LedgerType
    <3>2. count' \in [Tasks -> Nat]
      BY <2>1, <2>2 DEF LedgerInv, LedgerType
    <3>3. next' \in [Candidates -> Nat]
      <4>1. at[w] + Every[c[2]] \in Nat
        BY <2>2
      <4> QED
        BY <2>1, <4>1 DEF LedgerInv, LedgerType
    <3> QED
      BY <3>1, <3>2, <3>3 DEF LedgerType
  <2>6. CountExact'
    <3>1. IsFiniteSet(keys')
      BY <2>1, FS_AddElement DEF LedgerInv, CountExact
    <3>2. ASSUME NEW t \in Tasks PROVE count'[t] = Cardinality(Reminders(t)')
      <4>1. IsFiniteSet(Reminders(t)) /\ count[t] = Cardinality(Reminders(t))
        BY FS_Subset DEF LedgerInv, CountExact, Reminders
      <4>2. CASE c = <<t, "reminder">>
        <5>1. Reminders(t)' = Reminders(t) \union {k} /\ k \notin Reminders(t)
          BY <1>3, <2>1, <2>4, <4>2 DEF Reminders
        <5>2. count'[t] = count[t] + 1
          BY <2>1, <2>2, <4>2 DEF LedgerInv, LedgerType
        <5> QED
          BY <4>1, <5>1, <5>2, FS_AddElement
      <4>3. CASE c # <<t, "reminder">>
        <5>1. Reminders(t)' = Reminders(t)
          BY <2>1, <2>4, <4>3 DEF Reminders
        <5>2. count'[t] = count[t]
          BY <2>1, <2>2, <4>3 DEF LedgerInv, LedgerType
        <5> QED
          BY <4>1, <5>1, <5>2
      <4> QED
        BY <4>2, <4>3
    <3> QED
      BY <3>1, <3>2 DEF CountExact
  <2> QED
    BY <2>5, <2>6 DEF LedgerInv
<1> QED
  BY <1>2, <1>3

------------------------------------------------------------------------------
(* One lemma per action. *)

LEMMA InitInv == Init => IndInv
<1> SUFFICES ASSUME Init, IsFiniteSet(Tasks) PROVE IndInv
  BY TasksAreFinite
<1> USE OwnersApart DEF Init
<1>1. LedgerInv
  <2>1. \A t \in Tasks : Reminders(t) = {}
    BY DEF Reminders
  <2> QED
    BY <2>1, FS_EmptySet DEF LedgerInv, LedgerType, CountExact
<1>2. LeaseInv
  BY DEF LeaseInv, LeaseType, StatusHonest, OneRun, LeaseLive, Busy
<1>3. RunType
  BY DEF RunType
<1>4. ClockType /\ faults \in 0 .. MaxFaults
  <2>1. clock = 0 /\ faults = 0 /\ overran = FALSE
    OBVIOUS
  <2>2. 0 \in 0 .. MaxTime /\ 0 \in 0 .. MaxFaults
    BY TimesAreNatural
  <2> QED
    BY <2>1, <2>2 DEF ClockType
<1>5. order \in Seq(Tasks)
  <2>1. Cardinality(Tasks) \in Nat
    BY FS_CardinalityType
  <2>2. order \in [1 .. Cardinality(Tasks) -> Tasks]
    OBVIOUS
  <2> QED
    BY <2>1, <2>2
<1> QED
  BY <1>1, <1>2, <1>3, <1>4, <1>5, Parts

LEMMA AcquireStep == ASSUME IndInv, NEW w \in Workers, Acquire(w) PROVE IndInv'
<1> USE Parts
<1>1. LedgerInv'
  BY LedgerKept DEF Acquire
<1>2. LeaseInv'
  <2>1. \A v \in Workers \ {w} : Calm(v)
    BY DEF Acquire, Calm, RunType
  <2> QED
    BY <2>1, LeaseTaken DEF Acquire, ClockType
<1>3. RunType' /\ ClockType' /\ order' \in Seq(Tasks) /\ faults' \in 0 .. MaxFaults
  BY DEF Acquire, RunType, ClockType
<1> QED
  BY <1>1, <1>2, <1>3, Assembled

LEMMA ListStep == ASSUME IndInv, NEW w \in Workers, List(w) PROVE IndInv'
<1> USE Parts
<1>1. LedgerInv'
  BY LedgerKept DEF List
<1>2. LeaseInv'
  <2>1. \A v \in Workers : Calm(v)
    BY DEF List, Calm, RunType
  <2> QED
    BY <2>1, LeaseKept DEF List
<1>3. Front \subseteq Tasks
  BY DEF Front
<1>4. RunType' /\ ClockType' /\ order' \in Seq(Tasks) /\ faults' \in 0 .. MaxFaults
  BY <1>3 DEF List, RunType, ClockType
<1> QED
  BY <1>1, <1>2, <1>4, Assembled

LEMMA EvaluateStep == ASSUME IndInv, NEW w \in Workers, Evaluate(w) PROVE IndInv'
<1> USE Parts
<1>1. LedgerInv'
  BY LedgerKept DEF Evaluate
<1>2. LeaseInv'
  <2>1. \A v \in Workers : Calm(v)
    BY DEF Evaluate, Calm, RunType
  <2> QED
    BY <2>1, LeaseKept DEF Evaluate
<1>3. todo'[w] \in SUBSET Candidates /\ todo' = [todo EXCEPT ![w] = todo'[w]]
  BY DEF Evaluate, RunType, Candidates, Events
<1>4. RunType' /\ ClockType' /\ order' \in Seq(Tasks) /\ faults' \in 0 .. MaxFaults
  BY <1>3 DEF Evaluate, RunType, ClockType
<1> QED
  BY <1>1, <1>2, <1>4, Assembled

LEMMA IntentStep ==
  ASSUME IndInv, NEW w \in Workers, NEW c \in Candidates, Intent(w, c) PROVE IndInv'
<1> USE Parts
<1>1. LedgerInv'
  BY LedgerCreated DEF Intent
<1>2. LeaseInv'
  BY LeaseKept DEF Intent, Calm
<1>3. RunType' /\ ClockType' /\ order' \in Seq(Tasks) /\ faults' \in 0 .. MaxFaults
  BY DEF Intent, RunType, ClockType
<1> QED
  BY <1>1, <1>2, <1>3, Assembled

LEMMA DeliverStep == ASSUME IndInv, NEW w \in Workers, Deliver(w) PROVE IndInv'
<1> USE Parts
<1>1. LedgerInv'
  BY LedgerKept DEF Deliver
<1>2. LeaseInv'
  <2>1. \A v \in Workers : Calm(v)
    BY DEF Deliver, Calm, RunType
  <2> QED
    BY <2>1, LeaseKept DEF Deliver
<1>3. RunType' /\ ClockType' /\ order' \in Seq(Tasks) /\ faults' \in 0 .. MaxFaults
  BY DEF Deliver, RunType, ClockType
<1> QED
  BY <1>1, <1>2, <1>3, Assembled

LEMMA FinishStep == ASSUME IndInv, NEW w \in Workers, Finish(w) PROVE IndInv'
<1> USE Parts
<1>1. LedgerInv'
  BY LedgerKept DEF Finish
<1>2. RunType' /\ pc'[w] = "idle" /\ \A v \in Workers \ {w} : Calm(v)
  BY RunEnded DEF Finish
<1>3. LeaseInv'
  BY <1>2, LeaseCompleted DEF Finish
<1>4. ClockType' /\ order' \in Seq(Tasks) /\ faults' \in 0 .. MaxFaults
  BY DEF Finish, ClockType
<1> QED
  BY <1>1, <1>2, <1>3, <1>4, Assembled

LEMMA FaultCounted == ASSUME faults \in 0 .. MaxFaults, Fault PROVE faults' \in 0 .. MaxFaults
  BY TimesAreNatural DEF Fault

LEMMA AcquireFailsStep == ASSUME IndInv, NEW w \in Workers, AcquireFails(w) PROVE IndInv'
<1> USE Parts
<1>1. LedgerInv' /\ RunType'
  BY LedgerKept, RunKept DEF AcquireFails
<1>2. LeaseInv'
  <2>1. \A v \in Workers : Calm(v)
    BY DEF AcquireFails, Calm, run
  <2> QED
    BY <2>1, LeaseTaken DEF AcquireFails, ClockType
<1>3. ClockType' /\ order' \in Seq(Tasks) /\ faults' \in 0 .. MaxFaults
  BY FaultCounted DEF AcquireFails, ClockType
<1> QED
  BY <1>1, <1>2, <1>3, Assembled

LEMMA StepFailsStep == ASSUME IndInv, NEW w \in Workers, StepFails(w) PROVE IndInv'
<1> USE Parts
<1>1. LedgerInv'
  <2>1. CASE UNCHANGED ledger
    BY <2>1, LedgerKept
  <2>2. CASE \E c \in todo[w] : Create(w, c)
    <3>1. PICK c \in todo[w] : Create(w, c)
      BY <2>2
    <3>2. c \in Candidates
      BY DEF RunType
    <3> QED
      BY <3>1, <3>2, LedgerCreated
  <2> QED
    BY <2>1, <2>2 DEF StepFails
<1>2. LeaseInv'
  <2>1. \A v \in Workers : Calm(v)
    BY DEF StepFails, Calm, RunType
  <2> QED
    BY <2>1, LeaseKept DEF StepFails
<1>3. RunType' /\ ClockType' /\ order' \in Seq(Tasks) /\ faults' \in 0 .. MaxFaults
  BY FaultCounted DEF StepFails, RunType, ClockType
<1> QED
  BY <1>1, <1>2, <1>3, Assembled

LEMMA FinishFailsStep == ASSUME IndInv, NEW w \in Workers, FinishFails(w) PROVE IndInv'
<1> USE Parts
<1>1. LedgerInv'
  BY LedgerKept DEF FinishFails
<1>2. ASSUME pc[w] = "complete", pc' = [pc EXCEPT ![w] = "fail"], UNCHANGED <<listed, todo, at>>,
             Complete(w, "COMPLETED") \/ UNCHANGED lease
      PROVE  RunType' /\ LeaseInv'
  <2>1. RunType' /\ pc'[w] = "fail" /\ \A v \in Workers : Calm(v)
    BY <1>2 DEF RunType, Calm
  <2>2. CASE Complete(w, "COMPLETED")
    BY <2>1, <2>2, LeaseCompleted DEF FinishFails
  <2>3. CASE UNCHANGED lease
    BY <2>1, <2>3, LeaseKept DEF FinishFails
  <2> QED
    BY <1>2, <2>1, <2>2, <2>3
<1>3. ASSUME Abandon(w), End(w) PROVE RunType' /\ LeaseInv'
  <2>1. RunType' /\ pc'[w] = "idle" /\ \A v \in Workers \ {w} : Calm(v)
    BY <1>3, RunEnded
  <2>2. LeaseInv'
    BY <1>3, <2>1, LeaseAbandoned DEF FinishFails
  <2> QED
    BY <2>1, <2>2
<1>4. RunType' /\ LeaseInv'
  BY <1>2, <1>3 DEF FinishFails
<1>5. ClockType' /\ order' \in Seq(Tasks) /\ faults' \in 0 .. MaxFaults
  BY FaultCounted DEF FinishFails, ClockType
<1> QED
  BY <1>1, <1>4, <1>5, Assembled

LEMMA CrashStep == ASSUME IndInv, NEW w \in Workers, Crash(w) PROVE IndInv'
<1> USE Parts
<1>1. LedgerInv'
  BY LedgerKept DEF Crash
<1>2. RunType' /\ pc'[w] = "idle" /\ \A v \in Workers \ {w} : Calm(v)
  BY RunEnded DEF Crash
<1>3. LeaseInv'
  BY <1>2, LeaseAbandoned DEF Crash
<1>4. ClockType' /\ order' \in Seq(Tasks) /\ faults' \in 0 .. MaxFaults
  BY FaultCounted DEF Crash, ClockType
<1> QED
  BY <1>1, <1>2, <1>3, <1>4, Assembled

LEMMA ChangeIntervalStep ==
  ASSUME IndInv, NEW w \in Workers, NEW i \in Intervals, ChangeInterval(w, i) PROVE IndInv'
<1> USE Parts
<1>1. LedgerInv' /\ RunType'
  BY LedgerKept, RunKept DEF ChangeInterval
<1>2. LeaseInv'
  BY LeaseKept DEF ChangeInterval, Calm, run
<1>3. ClockType' /\ order' \in Seq(Tasks) /\ faults' \in 0 .. MaxFaults
  BY FaultCounted DEF ChangeInterval, ClockType
<1> QED
  BY <1>1, <1>2, <1>3, Assembled

LEMMA WithoutTyped ==
  ASSUME order \in Seq(Tasks), NEW i \in 1 .. Len(order)
  PROVE  Without(i) \in Seq(Tasks)
<1>1. Len(order) - 1 \in Nat
  OBVIOUS
<1>2. Without(i) \in [1 .. Len(order) - 1 -> Tasks]
  <2> SUFFICES ASSUME NEW j \in 1 .. Len(order) - 1
               PROVE  order[IF j < i THEN j ELSE j + 1] \in Tasks
    BY DEF Without
  <2> QED
    OBVIOUS
<1> QED
  BY <1>1, <1>2

LEMMA EditStep ==
  ASSUME IndInv, NEW i \in 1 .. Len(order), Touch(i) \/ Close(i)
  PROVE  IndInv'
<1> USE Parts
<1>1. UNCHANGED <<clock, lease, interval, run, ledger, overran, faults>>
  BY DEF Touch, Close
<1>2. LedgerInv' /\ RunType'
  BY <1>1, LedgerKept, RunKept
<1>3. LeaseInv'
  BY <1>1, LeaseKept DEF Calm, run
<1>4. order' \in Seq(Tasks)
  <2>1. Without(i) \in Seq(Tasks) /\ order[i] \in Tasks
    BY WithoutTyped
  <2> QED
    BY <2>1 DEF Touch, Close
<1>5. ClockType' /\ faults' \in 0 .. MaxFaults
  BY <1>1 DEF ClockType
<1> QED
  BY <1>2, <1>3, <1>4, <1>5, Assembled

LEMMA TickStep == ASSUME IndInv, Tick PROVE IndInv'
<1> USE Parts
<1>1. LedgerInv' /\ RunType'
  BY LedgerKept, RunKept DEF Tick
<1>2. clock' = clock + 1 /\ UNCHANGED <<lease, run>>
      /\ overran' = (overran \/ \E w \in Workers : owner = w /\ until <= clock')
  BY DEF Tick
<1>3. LeaseType' /\ StatusHonest'
  BY <1>2 DEF lease, LeaseInv, LeaseType, StatusHonest
<1>4. overran => overran'
  BY <1>2
<1>5. OneRun'
  BY <1>2, <1>4 DEF OneRun, LeaseInv, Busy, lease, run
<1>6. LeaseLive'
  <2>1. CASE overran'
    BY <2>1 DEF LeaseLive
  <2>2. CASE ~overran'
    <3>1. \A w \in Workers : owner = w => ~(until <= clock')
      BY <1>2, <2>2
    <3>2. until' = until /\ owner' = owner /\ until \in Nat /\ clock' \in Nat
      BY <1>2 DEF LeaseInv, LeaseType, ClockType, lease
    <3> QED
      BY <3>1, <3>2 DEF LeaseLive
  <2> QED
    BY <2>1, <2>2
<1>7. ClockType' /\ order' \in Seq(Tasks) /\ faults' \in 0 .. MaxFaults
  BY TimesAreNatural DEF Tick, ClockType
<1> QED
  BY <1>1, <1>3, <1>5, <1>6, <1>7, Assembled DEF LeaseInv

LEMMA StutterStep == ASSUME IndInv, UNCHANGED vars PROVE IndInv'
<1> USE Parts
<1>1. LedgerInv' /\ RunType'
  BY LedgerKept, RunKept DEF vars
<1>2. LeaseInv'
  BY LeaseKept DEF vars, Calm, run
<1> QED
  BY <1>1, <1>2, Assembled DEF vars, ClockType

LEMMA NextStep == ASSUME IndInv, [Next]_vars PROVE IndInv'
<1>1. ASSUME NEW w \in Workers,
             \/ Acquire(w) \/ List(w) \/ Evaluate(w) \/ Deliver(w) \/ Finish(w)
             \/ \E c \in Candidates : Intent(w, c)
             \/ AcquireFails(w) \/ StepFails(w) \/ FinishFails(w) \/ Crash(w)
             \/ \E i \in Intervals : ChangeInterval(w, i)
      PROVE  IndInv'
  BY <1>1, ChangeIntervalStep, AcquireStep, ListStep, EvaluateStep, DeliverStep, FinishStep, IntentStep,
     AcquireFailsStep, StepFailsStep, FinishFailsStep, CrashStep
<1> QED
  BY <1>1, EditStep, TickStep, StutterStep DEF Next

------------------------------------------------------------------------------
(* What a run has still to create. *)

\* A creation by the one run that evaluates touches no other run's candidates,
\* and sets the next time an interval after the evaluation.
LEMMA CreateFresh ==
  ASSUME RunsInv, ~overran, NEW w \in Workers, NEW c \in todo[w], Create(w, c)
  PROVE  /\ \A v \in Workers \ {w} : todo[v] = {}
         /\ \A d \in Candidates \ {c} : next'[d] = next[d]
         /\ next'[c] # next[c] => next'[c] - Every[c[2]] >= next[c]
<1> USE DEF RunsInv
<1>1. /\ RunType /\ LedgerInv /\ OneRun /\ pc[w] = "intents" /\ next[c] <= at[w]
      /\ c \in Candidates
  BY Parts DEF CandidatesFresh, LeaseInv, RunType
<1>2. \A v \in Workers \ {w} : todo[v] = {}
  <2> SUFFICES ASSUME NEW v \in Workers \ {w}, todo[v] # {} PROVE FALSE
    OBVIOUS
  <2>1. pc[v] = "intents"
    BY DEF CandidatesFresh
  <2>2. owner = v /\ owner = w
    BY <1>1, <2>1 DEF OneRun, Busy
  <2> QED
    BY <2>2
<1>3. \/ next' = [next EXCEPT ![c] = at[w] + Every[c[2]]]
      \/ next' = next
  BY DEF Create, ledger
<1>4. at[w] \in Nat /\ next[c] \in Nat /\ Every[c[2]] \in Nat \ {0}
  BY <1>1, TimesAreNatural DEF RunType, LedgerInv, LedgerType, Candidates, Every
<1>5. \A d \in Candidates \ {c} : next'[d] = next[d]
  BY <1>1, <1>3 DEF LedgerInv, LedgerType
<1>6. next'[c] # next[c] => next'[c] - Every[c[2]] >= next[c]
  <2> SUFFICES ASSUME next'[c] # next[c] PROVE next'[c] - Every[c[2]] >= next[c]
    OBVIOUS
  <2>1. next'[c] = at[w] + Every[c[2]]
    BY <1>1, <1>3 DEF LedgerInv, LedgerType
  <2> HIDE DEF RunsInv
  <2> QED
    BY <1>1, <1>4, <2>1
<1> QED
  BY <1>2, <1>5, <1>6

\* Candidates only leave a run, and only a creation changes their times.
LEMMA FreshKept ==
  ASSUME CandidatesFresh, UNCHANGED next, overran => overran',
         \A w \in Workers : \A c \in todo'[w] :
            c \in todo[w] /\ pc'[w] = pc[w] /\ at'[w] = at[w]
  PROVE  CandidatesFresh'
  BY DEF CandidatesFresh

\* A step that creates: the creator's candidate goes.
LEMMA FreshCreated ==
  ASSUME RunsInv, NEW w \in Workers, NEW c \in todo[w], Create(w, c), UNCHANGED <<overran, at>>,
         todo'[w] \subseteq todo[w] \ {c}, todo'[w] # {} => pc'[w] = pc[w],
         \A v \in Workers \ {w} : todo'[v] = todo[v] /\ pc'[v] = pc[v]
  PROVE  CandidatesFresh'
<1> SUFFICES ASSUME NEW v \in Workers, NEW d \in todo'[v]
             PROVE  pc'[v] = "intents" /\ (overran \/ next'[d] <= at[v])
  BY DEF CandidatesFresh
<1>1. d \in todo[v] /\ pc'[v] = "intents"
  BY DEF RunsInv, CandidatesFresh
<1>2. ASSUME ~overran PROVE next'[d] <= at[v]
  <2>1. v = w /\ d # c
    BY <1>1, <1>2, CreateFresh
  <2>2. d \in Candidates
    BY <1>1, Parts DEF RunsInv, RunType
  <2>3. next'[d] = next[d]
    BY <1>2, <2>1, <2>2, CreateFresh
  <2> QED
    BY <1>1, <1>2, <2>3 DEF RunsInv, CandidatesFresh
<1> QED
  BY <1>1, <1>2

\* Only a creation changes the notifications or a task's times.
LEMMA LedgerChanged ==
  ASSUME [Next]_vars, ledger' # ledger
  PROVE  \E w \in Workers : \E d \in todo[w] : Create(w, d) /\ UNCHANGED overran
<1>1. \A w \in Workers, d \in Candidates :
        Intent(w, d) => d \in todo[w] /\ Create(w, d) /\ UNCHANGED overran
  BY DEF Intent
<1>2. \A w \in Workers : StepFails(w) => \E d \in todo[w] : Create(w, d) /\ UNCHANGED overran
  BY DEF StepFails
<1>3. \A w \in Workers : ~(\/ Acquire(w) \/ List(w) \/ Evaluate(w) \/ Deliver(w) \/ Finish(w)
                           \/ AcquireFails(w) \/ FinishFails(w) \/ Crash(w)
                           \/ \E i \in Intervals : ChangeInterval(w, i))
  BY DEF Acquire, List, Evaluate, Deliver, Finish, AcquireFails, FinishFails, Crash, ChangeInterval
<1>4. ~(\E i \in 1 .. Len(order) : Touch(i) \/ Close(i)) /\ ~Tick /\ ~UNCHANGED vars
  BY DEF Touch, Close, Tick, vars
<1> QED
  BY <1>1, <1>2, <1>3, <1>4 DEF Next

\* The occurrence a time falls into has begun by then.
LEMMA OccurrenceBegun ==
  ASSUME NEW a \in Nat, NEW n \in Nat \ {0}
  PROVE  (a \div n) * n <= a
  OBVIOUS

\* A creation in time leaves every occurrence over by the time that follows it.
LEMMA KeysCreated ==
  ASSUME RunsInv, ~overran, NEW w \in Workers, NEW c \in todo[w], Create(w, c)
  PROVE  \A k \in keys' : (k[3] + 1) * Every[k[1][2]] <= next'[k[1]]
<1>1. /\ RunType /\ LedgerInv /\ c \in Candidates /\ next[c] <= at[w]
      /\ \A k \in keys : (k[3] + 1) * Every[k[1][2]] <= next[k[1]]
  BY Parts DEF RunsInv, CandidatesFresh, KeysPast, RunType
<1>2. PICK r \in Recipients :
        LET k == <<c, r, at[w] \div Every[c[2]]>>
        IN  IF k \notin keys
              THEN /\ keys' = keys \union {k}
                   /\ next' = [next EXCEPT ![c] = at[w] + Every[c[2]]]
              ELSE UNCHANGED ledger
  BY DEF Create
<1> DEFINE n == Every[c[2]]
           o == at[w] \div n
           k0 == <<c, r, o>>
<1>3. CASE k0 \in keys
  BY <1>1, <1>2, <1>3 DEF ledger
<1>4. CASE k0 \notin keys
  <2>1. keys' = keys \union {k0} /\ next' = [next EXCEPT ![c] = at[w] + n]
    BY <1>2, <1>4
  <2>2. at[w] \in Nat /\ next[c] \in Nat /\ n \in Nat \ {0} /\ c[2] \in Events
    BY <1>1, TimesAreNatural DEF RunType, LedgerInv, LedgerType, Candidates, Every
  <2>3. k0[1] = c /\ k0[3] = o /\ Every[k0[1][2]] = n
    OBVIOUS
  <2> HIDE DEF n, k0
  <2>4. o * n <= at[w] /\ o \in Nat
    <3> DEFINE a == at[w]
    <3>1. a \in Nat /\ n \in Nat \ {0}
      BY <2>2
    <3> HIDE DEF a
    <3>2. (a \div n) * n <= a
      BY <3>1, OccurrenceBegun
    <3>3. a \div n \in Nat
      BY <3>1
    <3> QED
      BY <3>2, <3>3 DEF a
  <2> HIDE DEF o
  <2>5. (o + 1) * n <= at[w] + n
    <3>1. (o + 1) * n = o * n + n /\ o * n \in Nat
      BY <2>2, <2>4
    <3> QED
      BY <2>2, <2>4, <3>1
  <2>6. next'[c] = at[w] + n /\ \A d \in Candidates \ {c} : next'[d] = next[d]
    BY <1>1, <2>1 DEF LedgerInv, LedgerType
  <2>7. (k0[3] + 1) * Every[k0[1][2]] <= next'[k0[1]]
    BY <2>3, <2>5, <2>6
  <2>8. ASSUME NEW k \in keys PROVE (k[3] + 1) * Every[k[1][2]] <= next'[k[1]]
    <3>1. k[1] \in Candidates /\ k[3] \in Nat /\ next[k[1]] \in Nat
      BY <1>1 DEF LedgerInv, LedgerType
    <3>2. Every[k[1][2]] \in Nat
      BY <3>1, TimesAreNatural DEF Candidates, Every
    <3> DEFINE x == (k[3] + 1) * Every[k[1][2]]
    <3>3. x \in Nat /\ x <= next[k[1]]
      BY <1>1, <3>1, <3>2
    <3> HIDE DEF x
    <3>4. next[k[1]] <= next'[k[1]]
      BY <1>1, <2>2, <2>6, <3>1
    <3>5. next'[k[1]] \in Nat
      BY <2>2, <2>6, <3>1
    <3>6. x <= next'[k[1]]
      BY <3>1, <3>3, <3>4, <3>5
    <3> QED
      BY <3>6 DEF x
  <2> QED
    BY <2>1, <2>7, <2>8
<1> QED
  BY <1>3, <1>4

LEMMA KeysStep == ASSUME RunsInv, [Next]_vars PROVE KeysPast'
<1> USE DEF RunsInv
<1>1. overran => overran'
  BY DEF Next, Acquire, List, Evaluate, Intent, Deliver, Finish, AcquireFails, StepFails,
         FinishFails, Crash, ChangeInterval, Touch, Close, Tick, vars
<1>2. CASE UNCHANGED ledger
  BY <1>1, <1>2 DEF KeysPast, ledger
<1>3. CASE ledger' # ledger
  <2>1. PICK w \in Workers : \E d \in todo[w] : Create(w, d) /\ UNCHANGED overran
    BY <1>3, LedgerChanged
  <2>2. PICK d \in todo[w] : Create(w, d) /\ UNCHANGED overran
    BY <2>1
  <2> QED
    BY <2>2, KeysCreated DEF KeysPast
<1> QED
  BY <1>2, <1>3

LEMMA RunsStep == ASSUME RunsInv, [Next]_vars PROVE RunsInv'
<1>1. IndInv /\ CandidatesFresh /\ RunType /\ LedgerInv /\ LeaseInv /\ ClockType
  BY Parts DEF RunsInv
<1>2. ASSUME NEW w \in Workers, Acquire(w) \/ List(w) \/ Finish(w) \/ FinishFails(w) \/ Crash(w) \/ AcquireFails(w)
      PROVE  CandidatesFresh'
  <2>1. UNCHANGED next /\ UNCHANGED overran
    BY <1>2 DEF Acquire, List, Finish, FinishFails, Crash, AcquireFails, ledger
  <2>2. todo'[w] \subseteq todo[w] /\ (todo'[w] # {} => pc[w] = pc'[w] /\ at[w] = at'[w])
    <3>1. CASE Acquire(w) \/ List(w) \/ AcquireFails(w)
      <4>1. todo[w] = {} \/ pc'[w] = pc[w]
        BY <1>1, <3>1 DEF Acquire, List, AcquireFails, CandidatesFresh, Busy, run
      <4> QED
        BY <3>1, <4>1 DEF Acquire, List, AcquireFails, run
    <3>2. CASE Finish(w) \/ Crash(w)
      BY <1>1, <3>2 DEF Finish, Crash, End, RunType
    <3>3. CASE FinishFails(w)
      <4>1. todo[w] = {}
        BY <1>1, <3>3 DEF FinishFails, CandidatesFresh
      <4> QED
        BY <1>1, <3>3, <4>1 DEF FinishFails, End, RunType
    <3> QED
      BY <1>2, <3>1, <3>2, <3>3
  <2>3. \A v \in Workers \ {w} : todo'[v] = todo[v] /\ pc'[v] = pc[v] /\ at'[v] = at[v]
    BY <1>1, <1>2 DEF Acquire, List, Finish, FinishFails, Crash, AcquireFails, End, run, RunType
  <2> QED
    BY <1>1, <2>1, <2>2, <2>3, FreshKept
<1>3. ASSUME NEW w \in Workers, Evaluate(w) PROVE CandidatesFresh'
  <2>1. /\ pc'[w] = "intents" /\ at'[w] = clock
        /\ UNCHANGED <<ledger, overran>>
        /\ \A v \in Workers \ {w} : todo'[v] = todo[v] /\ pc'[v] = pc[v] /\ at'[v] = at[v]
    BY <1>1, <1>3 DEF Evaluate, RunType
  <2>2. \A c \in todo'[w] : next[c] <= clock
    BY <1>1, <1>3 DEF Evaluate, RunType, Remind, Escalate, Ready
  <2> QED
    BY <1>1, <2>1, <2>2 DEF CandidatesFresh, ledger
<1>4. ASSUME NEW w \in Workers, NEW c \in Candidates, Intent(w, c) PROVE CandidatesFresh'
  <2>1. /\ c \in todo[w] /\ Create(w, c) /\ UNCHANGED <<overran, at, pc>>
        /\ todo' = [todo EXCEPT ![w] = @ \ {c}]
    BY <1>4 DEF Intent
  <2>2. todo'[w] = todo[w] \ {c} /\ \A v \in Workers \ {w} : todo'[v] = todo[v]
    BY <1>1, <2>1 DEF RunType
  <2> QED
    BY <2>1, <2>2, FreshCreated
<1>5. ASSUME NEW w \in Workers, Deliver(w) PROVE CandidatesFresh'
  BY <1>1, <1>5 DEF Deliver, CandidatesFresh, ledger, RunType
<1>6. ASSUME NEW w \in Workers, StepFails(w) PROVE CandidatesFresh'
  <2>1. /\ todo' = [todo EXCEPT ![w] = {}] /\ pc' = [pc EXCEPT ![w] = "fail"]
        /\ UNCHANGED <<overran, at>>
    BY <1>6 DEF StepFails
  <2>2. /\ todo'[w] = {}
        /\ \A v \in Workers \ {w} : todo'[v] = todo[v] /\ pc'[v] = pc[v]
    BY <1>1, <2>1 DEF RunType
  <2>3. CASE UNCHANGED ledger
    BY <1>1, <2>1, <2>2, <2>3, FreshKept DEF ledger
  <2>4. CASE \E c \in todo[w] : Create(w, c)
    <3>1. PICK c \in todo[w] : Create(w, c)
      BY <2>4
    <3> QED
      BY <2>1, <2>2, <3>1, FreshCreated
  <2> QED
    BY <1>6, <2>3, <2>4 DEF StepFails
<1>7. ASSUME UNCHANGED <<run, ledger>>, overran => overran' PROVE CandidatesFresh'
  BY <1>1, <1>7 DEF CandidatesFresh, run, ledger
<1>8. ASSUME \/ \E i \in 1 .. Len(order) : Touch(i) \/ Close(i)
             \/ \E w \in Workers, i \in Intervals : ChangeInterval(w, i)
      PROVE  CandidatesFresh'
  BY <1>7, <1>8 DEF Touch, Close, ChangeInterval
<1>9. ASSUME Tick PROVE CandidatesFresh'
  <2>1. UNCHANGED <<run, ledger>>
    BY <1>9 DEF Tick
  <2>2. overran => overran'
    BY <1>9 DEF Tick
  <2> QED
    BY <1>7, <2>1, <2>2
<1>10. ASSUME UNCHANGED vars PROVE CandidatesFresh'
  <2>1. UNCHANGED <<run, ledger>> /\ UNCHANGED overran
    BY <1>10 DEF vars
  <2> QED
    BY <1>7, <2>1
<1>11. IndInv'
  BY <1>1, NextStep
<1>12. KeysPast'
  BY KeysStep
<1> QED
  BY <1>2, <1>3, <1>4, <1>5, <1>6, <1>8, <1>9, <1>10, <1>11, <1>12 DEF Next, RunsInv

\* Only the creation of a notification changes a task's times.
LEMMA SpacedStep ==
  ASSUME RunsInv, [Next]_vars, ~overran, NEW c \in Candidates, next'[c] # next[c]
  PROVE  next'[c] - Every[c[2]] >= next[c]
<1>1. ledger' # ledger
  BY DEF ledger
<1>2. PICK w \in Workers : \E d \in todo[w] : Create(w, d)
  BY <1>1, LedgerChanged
<1>3. PICK d \in todo[w] : Create(w, d)
  BY <1>2
<1>4. c = d
  BY <1>3, CreateFresh
<1> QED
  BY <1>3, <1>4, CreateFresh

------------------------------------------------------------------------------
(* The theorems. *)

\* The reported status agrees with the lease, counts agree with the
\* notifications, and only the lease's owner evaluates until a run overruns.
THEOREM Invariance == Spec => []IndInv
  BY InitInv, NextStep, PTL DEF Spec

\* While no run outlives its lease, no second run evaluates.
THEOREM Exclusion == Spec => []OneRun
<1>1. IndInv => OneRun
  BY DEF IndInv
<1> QED
  BY <1>1, Invariance, PTL

\* The reminder count of a task is the number of its reminders, whatever
\* overlaps, fails or is repeated.
THEOREM Counting == Spec => []CountExact
<1>1. IndInv => CountExact
  BY DEF IndInv
<1> QED
  BY <1>1, Invariance, PTL

\* What a run has still to create is still due, unless some run overran.
THEOREM Freshness == Spec => []RunsInv
<1>1. Init => RunsInv
  BY InitInv DEF Init, RunsInv, CandidatesFresh, KeysPast
<1> QED
  BY <1>1, RunsStep, PTL DEF Spec

\* While no run outlives its lease, two notifications of one kind for a task
\* come from evaluations at least the interval apart.
THEOREM Spacing == Spec => NotificationsSpaced
<1> DEFINE A == overran \/ \A c \in Candidates :
                  next'[c] # next[c] => next'[c] - Every[c[2]] >= next[c]
<1>1. RunsInv /\ [Next]_vars => [A]_vars
  BY SpacedStep
<1> QED
  BY <1>1, Freshness, PTL DEF Spec, NotificationsSpaced

==============================================================================
