--------------------------- MODULE ReminderScheduler ---------------------------
(***************************************************************************)
(* ReminderSchedulerService and ReminderEvaluatorService: processes whose  *)
(* timers start runs, a lease in the database that is meant to let one run *)
(* at a time evaluate the tasks, and the notifications a run creates for   *)
(* the tasks it found due when it looked.                                  *)
(*                                                                         *)
(* What TaskReminderPolicy knows of a task (deadline, priority, blocked    *)
(* since) is reduced to two times: from when on it asks for reminders, and *)
(* from when on for escalations.  The deliveries a run makes at its end    *)
(* are the subject of module NotificationDelivery.                         *)
(***************************************************************************)
EXTENDS Integers, Sequences, FiniteSets

CONSTANTS
  Workers,       \* processes with a scheduler
  Tasks,
  Recipients,    \* what routing may answer: a user, or nobody
  None,          \* no owner
  Stale,         \* owner: a run that is no longer alive
  RemindFrom,    \* when the policy first finds a reminder due
  EscalateFrom,  \* when it finds an escalation due, whatever the reminders
  Threshold,     \* escalationReminderCount
  Repeat,        \* repeatHours of the tasks' priority
  EscalateEvery, \* 24 hours
  Intervals,     \* intervals the settings allow
  MaxLease,      \* the longest lease the database grants, 3600 seconds
  CandidateLimit,\* findCandidates
  MaxTime, MaxFaults \* bounds

Events == {"reminder", "escalation"}
Every == [e \in Events |-> IF e = "reminder" THEN Repeat ELSE EscalateEvery]

ASSUME OwnersApart == None \notin Workers /\ Stale \notin Workers /\ None # Stale
ASSUME TasksAreFinite == IsFiniteSet(Tasks)
ASSUME TimesAreNatural ==
  /\ RemindFrom \in [Tasks -> Nat]
  /\ EscalateFrom \in [Tasks -> Nat]
  /\ Repeat \in Nat \ {0} /\ EscalateEvery \in Nat \ {0}
  /\ Intervals \subseteq Nat \ {0} /\ MaxLease \in Nat
  /\ MaxTime \in Nat /\ MaxFaults \in Nat

VARIABLES
  clock,
  order,    \* the active tasks, least recently updated first
  owner,    \* lease_owner
  until,    \* lease_until
  status,   \* last_status
  interval, \* of each process' timer
  pc,       \* where each process' run stands
  listed,   \* the tasks it read
  todo,     \* the candidates it has still to handle
  at,       \* when it evaluated them
  keys,     \* notifications, by what their dedupe key is made of
  count,    \* reminder_count
  next,     \* next_reminder_at and next_escalation_at
  overran,  \* history: some run outlived its lease
  faults

lease == <<owner, until, status>>
run == <<pc, listed, todo, at>>
ledger == <<keys, count, next>>
vars == <<clock, order, lease, interval, run, ledger, overran, faults>>

Candidates == Tasks \X Events

TypeOK ==
  /\ clock \in 0 .. MaxTime
  /\ order \in Seq(Tasks)
  /\ owner \in Workers \union {None, Stale}
  /\ until \in Nat
  /\ status \in {"IDLE", "RUNNING", "COMPLETED", "FAILED"}
  /\ interval \in [Workers -> Intervals]
  /\ pc \in [Workers -> {"idle", "list", "evaluate", "intents", "complete", "fail"}]
  /\ listed \in [Workers -> SUBSET Tasks]
  /\ todo \in [Workers -> SUBSET Candidates]
  /\ at \in [Workers -> Nat]
  /\ keys \in SUBSET (Candidates \X Recipients \X Nat)
  /\ count \in [Tasks -> Nat]
  /\ next \in [Candidates -> Nat]
  /\ overran \in BOOLEAN
  /\ faults \in 0 .. MaxFaults

Init ==
  /\ clock = 0
  /\ order \in {s \in [1 .. Cardinality(Tasks) -> Tasks] :
                  \A i, j \in DOMAIN s : s[i] = s[j] => i = j}
  /\ owner = None /\ until = 0 /\ status = "IDLE"
  /\ interval \in [Workers -> Intervals]
  /\ pc = [w \in Workers |-> "idle"]
  /\ listed = [w \in Workers |-> {}]
  /\ todo = [w \in Workers |-> {}]
  /\ at = [w \in Workers |-> 0]
  /\ keys = {}
  /\ count = [t \in Tasks |-> 0]
  /\ next = [c \in Candidates |-> 0]
  /\ overran = FALSE
  /\ faults = 0

Active == {order[i] : i \in 1 .. Len(order)}
Busy(w) == pc[w] # "idle"

------------------------------------------------------------------------------
(* The lease. *)

\* Mutants: whoever asks gets it; and a lease is only ever given back.
LeaseFreeAlways == TRUE
LeaseFreeReturned == until = 0

LeaseFree == until <= clock

\* trigger asks for two intervals; as none is shorter than a minute, the
\* sixty seconds it asks for at least never decide.
LeaseAsked(w) == 2 * interval[w]
Granted(w) == LeaseAsked(w) <= MaxLease

\* try_acquire_reminder_scheduler_lease: every run asks under a new name.  A
\* longer lease than the longest is refused with an error that ends the run.
Take(w, o) ==
  /\ Granted(w)
  /\ LeaseFree
  /\ owner' = o
  /\ until' = clock + LeaseAsked(w)
  /\ status' = "RUNNING"

\* Mutant: whoever completes clears it.
OwnsAlways(w) == TRUE

Owns(w) == owner = w

\* complete_reminder_scheduler_run.
Complete(w, outcome) ==
  IF Owns(w)
    THEN owner' = None /\ until' = 0 /\ status' = outcome
    ELSE UNCHANGED lease

\* A run ends without clearing the lease: what it owned stays owned.
Abandon(w) ==
  /\ owner' = IF owner = w THEN Stale ELSE owner
  /\ UNCHANGED <<until, status>>

End(w) ==
  /\ pc' = [pc EXCEPT ![w] = "idle"]
  /\ listed' = [listed EXCEPT ![w] = {}]
  /\ todo' = [todo EXCEPT ![w] = {}]
  /\ at' = [at EXCEPT ![w] = 0]

------------------------------------------------------------------------------
(* A run. *)

\* A trigger finds no run of the process under way, and gets the lease.
Acquire(w) ==
  /\ ~Busy(w)
  /\ Take(w, w)
  /\ pc' = [pc EXCEPT ![w] = "list"]
  /\ UNCHANGED <<clock, order, interval, listed, todo, at, ledger, overran, faults>>

\* findCandidates: the active tasks updated longest ago, up to the limit.
Front == {order[i] : i \in {j \in 1 .. Len(order) : j <= CandidateLimit}}

List(w) ==
  /\ pc[w] = "list"
  /\ listed' = [listed EXCEPT ![w] = Front]
  /\ pc' = [pc EXCEPT ![w] = "evaluate"]
  /\ UNCHANGED <<clock, order, lease, interval, todo, at, ledger, overran, faults>>

Ready(t, e) == next[<<t, e>>] <= clock

\* TaskReminderPolicy.evaluate, for the reminder and for the escalation.
Remind(t) == Ready(t, "reminder") /\ RemindFrom[t] <= clock
Escalate(t) ==
  Ready(t, "escalation") /\ (count[t] >= Threshold \/ EscalateFrom[t] <= clock)

\* findForTasks, and the policy applied to every task listed.
Evaluate(w) ==
  /\ pc[w] = "evaluate"
  /\ todo' = [todo EXCEPT ![w] =
                {<<t, "reminder">> : t \in {u \in listed[w] : Remind(u)}}
                \union {<<t, "escalation">> : t \in {u \in listed[w] : Escalate(u)}}]
  /\ at' = [at EXCEPT ![w] = clock]
  /\ listed' = [listed EXCEPT ![w] = {}]
  /\ pc' = [pc EXCEPT ![w] = "intents"]
  /\ UNCHANGED <<clock, order, lease, interval, ledger, overran, faults>>

\* create_task_notification: occurrence and next eligibility follow from the
\* time of evaluation, and only a new notification moves the task's state.
Create(w, c) ==
  \E r \in Recipients :
    LET k == <<c, r, at[w] \div Every[c[2]]>>
    IN  IF k \notin keys
          THEN /\ keys' = keys \union {k}
               /\ count' = IF c[2] = "reminder" THEN [count EXCEPT ![c[1]] = @ + 1] ELSE count
               /\ next' = [next EXCEPT ![c] = at[w] + Every[c[2]]]
          ELSE UNCHANGED ledger

Intent(w, c) ==
  /\ pc[w] = "intents"
  /\ c \in todo[w]
  /\ Create(w, c)
  /\ todo' = [todo EXCEPT ![w] = @ \ {c}]
  /\ UNCHANGED <<clock, order, lease, interval, pc, listed, at, overran, faults>>

\* All candidates are handled and due deliveries processed.
Deliver(w) ==
  /\ pc[w] = "intents"
  /\ todo[w] = {}
  /\ pc' = [pc EXCEPT ![w] = "complete"]
  /\ UNCHANGED <<clock, order, lease, interval, listed, todo, at, ledger, overran, faults>>

Finish(w) ==
  /\ \/ pc[w] = "complete" /\ Complete(w, "COMPLETED")
     \/ pc[w] = "fail" /\ Complete(w, "FAILED")
  /\ End(w)
  /\ UNCHANGED <<clock, order, interval, ledger, overran, faults>>

------------------------------------------------------------------------------
(* Failures.  None comes so late that its lease could outlive the bound on  *)
(* the clock.                                                               *)

Fault ==
  /\ faults < MaxFaults
  /\ clock + MaxLease <= MaxTime
  /\ faults' = faults + 1

\* The lease is taken but the answer lost: no run follows.
AcquireFails(w) ==
  /\ ~Busy(w)
  /\ Take(w, Stale)
  /\ Fault
  /\ UNCHANGED <<clock, order, interval, run, ledger, overran>>

\* A call fails, a createIntent perhaps after its commit: the run is over.
StepFails(w) ==
  /\ pc[w] \in {"list", "evaluate", "intents"}
  /\ \/ UNCHANGED ledger
     \/ pc[w] = "intents" /\ \E c \in todo[w] : Create(w, c)
  /\ pc' = [pc EXCEPT ![w] = "fail"]
  /\ todo' = [todo EXCEPT ![w] = {}]
  /\ Fault
  /\ UNCHANGED <<clock, order, lease, interval, listed, at, overran>>

\* The completion fails (after "complete" the run is then reported as failed),
\* or commits and its answer is lost.
FinishFails(w) ==
  /\ \/ /\ pc[w] = "complete"
        /\ Complete(w, "COMPLETED") \/ UNCHANGED lease
        /\ pc' = [pc EXCEPT ![w] = "fail"]
        /\ UNCHANGED <<listed, todo, at>>
     \/ pc[w] = "fail" /\ Abandon(w) /\ End(w)
  /\ Fault
  /\ UNCHANGED <<clock, order, interval, ledger, overran>>

Crash(w) ==
  /\ Busy(w)
  /\ Abandon(w)
  /\ End(w)
  /\ Fault
  /\ UNCHANGED <<clock, order, interval, ledger, overran>>

------------------------------------------------------------------------------
(* The rest of the system. *)

\* updateIntervalMs starts the timer anew.  A run under way does not look at
\* the interval again, so that a change during it is one after it.  Changes
\* are bounded with the faults.
ChangeInterval(w, i) ==
  /\ ~Busy(w)
  /\ i # interval[w]
  /\ interval' = [interval EXCEPT ![w] = i]
  /\ Fault
  /\ UNCHANGED <<clock, order, lease, run, ledger, overran>>

\* The order without its i-th task.
Without(i) == [j \in 1 .. Len(order) - 1 |-> order[IF j < i THEN j ELSE j + 1]]

\* Somebody edits a task: it goes to the end of the order.
Touch(i) ==
  /\ order' = Append(Without(i), order[i])
  /\ UNCHANGED <<clock, lease, interval, run, ledger, overran, faults>>

\* A task is completed or cancelled.
Close(i) ==
  /\ order' = Without(i)
  /\ UNCHANGED <<clock, lease, interval, run, ledger, overran, faults>>

Tick ==
  /\ clock < MaxTime
  /\ clock' = clock + 1
  /\ overran' = (overran \/ \E w \in Workers : owner = w /\ until <= clock')
  /\ UNCHANGED <<order, lease, interval, run, ledger, faults>>

Next ==
  \/ \E w \in Workers :
       \/ Acquire(w) \/ List(w) \/ Evaluate(w) \/ Deliver(w) \/ Finish(w)
       \/ \E c \in Candidates : Intent(w, c)
       \/ AcquireFails(w) \/ StepFails(w) \/ FinishFails(w) \/ Crash(w)
       \/ \E i \in Intervals : ChangeInterval(w, i)
  \/ \E i \in 1 .. Len(order) : Touch(i) \/ Close(i)
  \/ Tick

Spec == Init /\ [][Next]_vars

\* Timers keep firing and calls return; time passes.
FairSpec ==
  /\ Spec
  /\ WF_vars(Tick)
  /\ \A w \in Workers :
       WF_vars(List(w) \/ Evaluate(w) \/ Deliver(w) \/ Finish(w)
               \/ \E c \in Candidates : Intent(w, c))
  /\ WF_vars(\E w \in Workers : Acquire(w))

------------------------------------------------------------------------------
(* What must hold. *)

\* The scheduler is reported as running exactly while some run, alive or not,
\* owns the lease.
StatusHonest == status = "RUNNING" <=> owner # None

\* While no run outlives its lease, only its owner evaluates: lost answers,
\* crashes and late completions never let two runs in.
OneRun == overran \/ \A w \in Workers : Busy(w) => owner = w \/ pc[w] = "fail"

\* An owner that lives past its lease counts as having overrun it.
LeaseLive == overran \/ (owner \in Workers => until > clock)

\* A task's reminder count is the number of reminders created for it, also
\* when runs overlap and a creation is repeated.
Reminders(t) == {k \in keys : k[1] = <<t, "reminder">>}
CountExact == IsFiniteSet(keys) /\ \A t \in Tasks : count[t] = Cardinality(Reminders(t))

\* Nothing a run has still to create was created since it evaluated.
CandidatesFresh ==
  \A w \in Workers : \A c \in todo[w] :
    pc[w] = "intents" /\ (overran \/ next[c] <= at[w])

IndInv == TypeOK /\ StatusHonest /\ OneRun /\ LeaseLive /\ CountExact

\* The occurrence of a notification is over when the next becomes due, so that
\* its dedupe key swallows no reminder that has become due.
KeysPast ==
  overran \/ \A k \in keys :
    (k[3] + 1) * Every[k[1][2]] <= next[k[1]]

RunsInv == IndInv /\ CandidatesFresh /\ KeysPast

\* While no run outlives its lease, a task is notified again only after the
\* interval of the notification before.
NotificationsSpaced ==
  [][overran \/ \A c \in Candidates :
       next'[c] # next[c] => next'[c] - Every[c[2]] >= next[c]]_vars

\* A reminder is due for a task within the candidate limit, and some process
\* asks for a lease the database grants.  After an overrun only if the present
\* occurrence has no reminder: the older run, ending last, may have set the
\* next time back.
Overdue(t) ==
  /\ t \in Front
  /\ Remind(t)
  /\ \E w \in Workers : Granted(w)
  /\ overran => \A r \in Recipients :
       <<<<t, "reminder">>, r, clock \div Repeat>> \notin keys

\* Such a reminder is created, whatever failed or overlapped before, unless
\* the task closes or falls behind the limit, or the intervals are changed so
\* that every process' lease is refused.
DueReminded == \A t \in Tasks : Overdue(t) ~> ~Overdue(t)

\* docs/architecture/task-reminder-notification-foundation.md: terminal tasks
\* never produce reminders.
TerminalSilent ==
  [][\A k \in keys' \ keys : k[1][1] \in Active]_vars

==============================================================================
