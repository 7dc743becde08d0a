--------------------------- MODULE Overlaps_proofs ---------------------------
(***************************************************************************)
(* Proofs about what overlaps without holding a lock for long: evaluations *)
(* of critical alerts (CriticalAlerts), calls of TaskService on one task   *)
(* (TaskLifecycle), conversations of the bot about tasks                   *)
(* (TelegramConsoles), attempts to set an installation up (Bootstrap), and *)
(* calls that issue, end and use the keys of an integration                *)
(* (IntegrationCredentials), for any number of each.                       *)
(***************************************************************************)
EXTENDS CriticalAlerts, TelegramConsoles, Bootstrap, IntegrationCredentials, TLAPS,
    FiniteSetTheorems

-----------------------------------------------------------------------------
(* Critical alerts *)

\* Whoever is named in the lease began last: a newer run replaces the name.
HolderIsNewest == alertLease.holder \in {Nobody, newest}

AlertsInductive == AlertsTypeOK /\ HolderIsNewest

\* One evaluation changes at a time.
LEMMA OneEvaluation ==
    ASSUME AlertsTypeOK, NEW e \in Evaluators,
           NEW run \in [step: Sources \cup {"rest", "raise", "complete"},
                        seen: [Conditions -> Levels], refreshed: SUBSET Conditions],
           evaluation' = [evaluation EXCEPT ![e] = run]
    PROVE  evaluation' \in [Evaluators -> [step: Sources \cup {"rest", "raise", "complete"},
                                    seen: [Conditions -> Levels], refreshed: SUBSET Conditions]]
BY DEF AlertsTypeOK

LEMMA RestingTyped ==
    Resting \in [step: Sources \cup {"rest", "raise", "complete"},
                 seen: [Conditions -> Levels], refreshed: SUBSET Conditions]
<1>1. [c \in Conditions |-> "NORMAL"] \in [Conditions -> Levels]
    BY DEF Levels
<1> QED BY <1>1 DEF Resting

\* Going on to another step leaves the rest of a run as it is.
LEMMA ProceedsTyped ==
    ASSUME AlertsTypeOK, NEW e \in Evaluators,
           NEW step \in Sources \cup {"rest", "raise", "complete"}, Proceeds(e, step)
    PROVE  evaluation' \in [Evaluators -> [step: Sources \cup {"rest", "raise", "complete"},
                                    seen: [Conditions -> Levels], refreshed: SUBSET Conditions]]
<1> DEFINE run == [evaluation[e] EXCEPT !.step = step]
<1>1. evaluation \in [Evaluators -> [step: Sources \cup {"rest", "raise", "complete"},
                                    seen: [Conditions -> Levels], refreshed: SUBSET Conditions]]
    BY DEF AlertsTypeOK
<1>2. run \in [step: Sources \cup {"rest", "raise", "complete"},
              seen: [Conditions -> Levels], refreshed: SUBSET Conditions]
    BY <1>1
<1>3. evaluation' = [evaluation EXCEPT ![e] = run]
    BY <1>1 DEF Proceeds
<1> HIDE DEF run
<1> QED BY <1>1, <1>2, <1>3

LEMMA SeesTyped ==
    ASSUME AlertsTypeOK, NEW e \in Evaluators, NEW source \in Sources,
           NEW step \in Sources \cup {"raise"}, Sees(e, source, step)
    PROVE  evaluation' \in [Evaluators -> [step: Sources \cup {"rest", "raise", "complete"},
                                    seen: [Conditions -> Levels], refreshed: SUBSET Conditions]]
<1> DEFINE seen == [c \in Conditions |-> IF SourceOf[c] = source THEN level[c]
                                         ELSE evaluation[e].seen[c]]
           run == [evaluation[e] EXCEPT !.seen = seen, !.step = step]
<1>1. seen \in [Conditions -> Levels]
    BY DEF AlertsTypeOK
<1>2. evaluation' = [evaluation EXCEPT ![e] = run]
    BY DEF Sees
<1>3. run \in [step: Sources \cup {"rest", "raise", "complete"},
               seen: [Conditions -> Levels], refreshed: SUBSET Conditions]
    <2>1. evaluation[e] \in [step: Sources \cup {"rest", "raise", "complete"},
                            seen: [Conditions -> Levels], refreshed: SUBSET Conditions]
        BY DEF AlertsTypeOK
    <2> HIDE DEF seen
    <2> QED BY <1>1, <2>1
<1> HIDE DEF run
<1> QED BY <1>2, <1>3, OneEvaluation

LEMMA AlertsStart == AlertsInit => AlertsInductive
BY RestingTyped DEF AlertsInit, AlertsInductive, AlertsTypeOK, HolderIsNewest, Levels

LEMMA AlertsKept == AlertsInductive /\ [AlertsNext]_alertsVars => AlertsInductive'
<1> SUFFICES ASSUME AlertsInductive, [AlertsNext]_alertsVars PROVE AlertsInductive'
    OBVIOUS
<1> USE DEF AlertsInductive, HolderIsNewest
<1>1. ASSUME NEW e \in Evaluators, BeginEvaluation(e) PROVE AlertsInductive'
    BY <1>1, ProceedsTyped DEF BeginEvaluation, AlertsTypeOK, Sources
<1>2. ASSUME NEW e \in Evaluators, TaskSignals(e) \/ DeliverySignals(e) \/ SchedulerSignals(e)
      PROVE  AlertsInductive'
    <2>1. PICK source \in Sources, step \in Sources \cup {"raise"}: Sees(e, source, step)
        BY <1>2 DEF TaskSignals, DeliverySignals, SchedulerSignals, Sources
    <2>2. evaluation' \in [Evaluators -> [step: Sources \cup {"rest", "raise", "complete"},
                                    seen: [Conditions -> Levels], refreshed: SUBSET Conditions]]
        BY <2>1, SeesTyped
    <2> QED BY <2>1, <2>2 DEF Sees, AlertsTypeOK
<1>3. ASSUME NEW e \in Evaluators, RaiseAlert(e) PROVE AlertsInductive'
    <2>1. PICK c \in Observed(e):
              /\ alert' = Refreshed(c, e)
              /\ evaluation' = [evaluation EXCEPT ![e].refreshed = @ \cup {c}]
        BY <1>3 DEF RaiseAlert
    <2>2. c \in Conditions
        BY DEF Observed
    <2>3. evaluation' \in [Evaluators -> [step: Sources \cup {"rest", "raise", "complete"},
                                    seen: [Conditions -> Levels], refreshed: SUBSET Conditions]]
        <3>1. evaluation[e] \in [step: Sources \cup {"rest", "raise", "complete"},
                                seen: [Conditions -> Levels], refreshed: SUBSET Conditions]
            BY DEF AlertsTypeOK
        <3>2. [evaluation[e] EXCEPT !.refreshed = @ \cup {c}] \in
                  [step: Sources \cup {"rest", "raise", "complete"},
                   seen: [Conditions -> Levels], refreshed: SUBSET Conditions]
            BY <2>2, <3>1
        <3> QED BY <2>1, <3>2, OneEvaluation
    <2>4. alert' \in [Conditions -> [status: {"NONE", "OPEN", "ACKNOWLEDGED", "RESOLVED"},
                                     severity: Levels]]
        BY <2>1, <2>2 DEF AlertsTypeOK, Refreshed
    <2> QED BY <1>3, <2>3, <2>4 DEF RaiseAlert, AlertsTypeOK
<1>4. ASSUME NEW e \in Evaluators, ResolveMissing(e) PROVE AlertsInductive'
    <2>1. alert' \in [Conditions -> [status: {"NONE", "OPEN", "ACKNOWLEDGED", "RESOLVED"},
                                     severity: Levels]]
        <3> DEFINE Rows == [status: {"NONE", "OPEN", "ACKNOWLEDGED", "RESOLVED"}, severity: Levels]
                   next(c) == IF Standing(c) /\ c \notin Observed(e)
                              THEN [alert[c] EXCEPT !.status = "RESOLVED"] ELSE alert[c]
        <3>1. alert' = [c \in Conditions |-> next(c)]
            BY <1>4 DEF ResolveMissing
        <3>2. \A c \in Conditions: next(c) \in Rows
            BY DEF AlertsTypeOK
        <3> HIDE DEF next, Rows
        <3> QED BY <3>1, <3>2 DEF Rows
    <2> QED BY <1>4, <2>1, ProceedsTyped DEF ResolveMissing, AlertsTypeOK
<1>5. ASSUME NEW e \in Evaluators, AlertLeaseLost(e) \/ EvaluationFails(e) PROVE AlertsInductive'
    BY <1>5, ProceedsTyped DEF AlertLeaseLost, EvaluationFails, AlertsTypeOK
<1>6. ASSUME NEW e \in Evaluators, CompleteEvaluation(e) \/ EvaluatorDies(e) PROVE AlertsInductive'
    <2>1. evaluation' \in [Evaluators -> [step: Sources \cup {"rest", "raise", "complete"},
                                    seen: [Conditions -> Levels], refreshed: SUBSET Conditions]]
        BY <1>6, RestingTyped, OneEvaluation DEF CompleteEvaluation, EvaluatorDies
    <2>2. /\ alertLease' \in [holder: Evaluators \cup {Nobody}, valid: BOOLEAN]
          /\ alertLease'.holder \in {Nobody, alertLease.holder}
        <3>1. CASE CompleteEvaluation(e)
            BY <3>1 DEF CompleteEvaluation, AlertsTypeOK
        <3>2. CASE EvaluatorDies(e)
            BY <3>2 DEF EvaluatorDies, AlertsTypeOK
        <3> QED BY <1>6, <3>1, <3>2
    <2>3. UNCHANGED <<level, alert, newest, spacing>>
        BY <1>6 DEF CompleteEvaluation, EvaluatorDies
    <2> QED BY <2>1, <2>2, <2>3 DEF AlertsTypeOK
<1>7. CASE EvaluationOverruns \/ AlertLeaseExpires
    BY <1>7 DEF EvaluationOverruns, AlertLeaseExpires, AlertLeaseEnds, AlertsTypeOK
<1>8. ASSUME NEW c \in Conditions, AcknowledgeAlert(c) PROVE AlertsInductive'
    BY <1>8 DEF AcknowledgeAlert, evaluationVars, AlertsTypeOK
<1>9. ASSUME NEW c \in Conditions, NEW l \in Levels, ConditionChanges(c, l) PROVE AlertsInductive'
    BY <1>9 DEF ConditionChanges, evaluationVars, AlertsTypeOK
<1>10. ASSUME NEW e \in Evaluators, NEW seconds \in ReminderIntervals, IntervalChanges(e, seconds)
       PROVE  AlertsInductive'
    BY <1>10 DEF IntervalChanges, evaluationVars, AlertsTypeOK
<1>11. CASE UNCHANGED alertsVars
    BY <1>11 DEF alertsVars, evaluationVars, AlertsTypeOK
<1> QED
    BY <1>1, <1>2, <1>3, <1>4, <1>5, <1>6, <1>7, <1>8, <1>9, <1>10, <1>11 DEF AlertsNext, EvaluationStep

\* Whoever is named in the lease of the alerts began last (critical-alerts.repository.ts and
\* the functions it calls).
THEOREM AlertsInvariance == AlertsSpec => []AlertsInductive
BY AlertsStart, AlertsKept, PTL DEF AlertsSpec

\* An alert is only resolved on the newest evidence (critical-alert-evaluator.service.ts).
THEOREM NewestResolves == AlertsSpec => ResolvedByNewest
<1> DEFINE Excused(c) == newest # Nobody /\ Evaluating(newest, "raise") /\ c \notin Observed(newest)
<1>1. ASSUME AlertsInductive, [AlertsNext]_alertsVars, NEW c \in Conditions,
             Standing(c), ~Standing(c)'
      PROVE  Excused(c)
    <2>1. CASE \E e \in Evaluators: ResolveMissing(e)
        BY <1>1, <2>1, AlertsAssumption
        DEF AlertsInductive, HolderIsNewest, ResolveMissing, HoldsAlertLease, Standing, Evaluating
    <2>2. CASE \E e \in Evaluators: RaiseAlert(e)
        BY <1>1, <2>2 DEF AlertsInductive, AlertsTypeOK, RaiseAlert, Refreshed, Standing
    <2>3. CASE \E d \in Conditions: AcknowledgeAlert(d)
        BY <1>1, <2>3 DEF AlertsInductive, AlertsTypeOK, AcknowledgeAlert, Standing
    <2>4. CASE alert' = alert
        BY <1>1, <2>4 DEF Standing
    <2> QED
        BY <1>1, <2>1, <2>2, <2>3, <2>4
        DEF AlertsNext, EvaluationStep, BeginEvaluation, TaskSignals, DeliverySignals,
            SchedulerSignals, Sees, AlertLeaseLost, CompleteEvaluation, EvaluationFails,
            EvaluatorDies, EvaluationOverruns, AlertLeaseExpires, AlertLeaseEnds,
            ConditionChanges, IntervalChanges, alertsVars
<1>2. AlertsInductive /\ [AlertsNext]_alertsVars =>
          [\A c \in Conditions: Standing(c) /\ ~Standing(c)' => Excused(c)]_alertsVars
    BY <1>1
<1> QED BY <1>2, AlertsInvariance, PTL DEF AlertsSpec, ResolvedByNewest

-----------------------------------------------------------------------------
(* Tasks *)

\* What a call is about to write fits the columns it writes.
WorkFits ==
    \A c \in Callers: work[c] # Null =>
        /\ work[c].kind # "create" => work[c].on \in Tasks /\ task[work[c].on] # Null
        /\ work[c].kind = "create" =>
               /\ work[c].seen.completed <=> work[c].seen.status = "COMPLETED"
               /\ work[c].seen.cancelled <=> work[c].seen.status = "CANCELLED"
        /\ work[c].kind = "update" => work[c].to \in People \cup {Null}
        /\ work[c].kind = "transition" => work[c].to \in Statuses
        /\ work[c].kind = "relate" => work[c].to \in Tasks

TasksInductive == TasksTypeOK /\ RowsConsistent /\ WorkFits

\* No step changes both the status and the assignee of a task.
Apart(t) ==
    task[t] # Null => task'[t].status = task[t].status \/ task'[t].assignee = task[t].assignee

LEMMA NewRowTyped ==
    ASSUME NEW p \in People, NEW d \in Units, NEW o \in Units, NEW a \in People \cup {Null}
    PROVE  /\ NewRow(p, d, o, a) \in TaskRows
           /\ NewRow(p, d, o, a).completed = FALSE /\ NewRow(p, d, o, a).cancelled = FALSE
           /\ NewRow(p, d, o, a).status = "OPEN"
BY DEF NewRow, TaskRows, Statuses

\* Every call that begins is about to write what fits.
LEMMA BeginsKept ==
    ASSUME TasksInductive, NEW c \in Callers, NEW record \in WorkRecords, Begins(c, record),
           record.kind # "create" => record.on \in Tasks /\ task[record.on] # Null,
           record.kind = "create" => /\ record.seen.completed <=> record.seen.status = "COMPLETED"
                                     /\ record.seen.cancelled <=> record.seen.status = "CANCELLED",
           record.kind = "update" => record.to \in People \cup {Null},
           record.kind = "transition" => record.to \in Statuses,
           record.kind = "relate" => record.to \in Tasks
    PROVE  TasksInductive' /\ \A t \in Tasks: Apart(t)
<1>1. UNCHANGED <<task, links, home, admins, open, moves, requestFaults>>
    BY DEF Begins, taskData, organisation
<1>2. work' = [work EXCEPT ![c] = record]
    BY DEF Begins
<1>3. TasksTypeOK' /\ RowsConsistent'
    BY <1>1, <1>2 DEF TasksInductive, TasksTypeOK, RowsConsistent
<1>4. WorkFits'
    <2> SUFFICES ASSUME NEW d \in Callers, work'[d] # Null
                 PROVE  /\ work'[d].kind # "create" => work'[d].on \in Tasks /\ task'[work'[d].on] # Null
                        /\ work'[d].kind = "create" =>
                               /\ work'[d].seen.completed <=> work'[d].seen.status = "COMPLETED"
                               /\ work'[d].seen.cancelled <=> work'[d].seen.status = "CANCELLED"
                        /\ work'[d].kind = "update" => work'[d].to \in People \cup {Null}
                        /\ work'[d].kind = "transition" => work'[d].to \in Statuses
                        /\ work'[d].kind = "relate" => work'[d].to \in Tasks
        BY DEF WorkFits
    <2>1. CASE d = c
        BY <1>1, <1>2, <2>1 DEF TasksInductive, TasksTypeOK
    <2>2. CASE d # c
        BY <1>1, <1>2, <2>2 DEF TasksInductive, TasksTypeOK, WorkFits
    <2> QED BY <2>1, <2>2
<1> QED BY <1>1, <1>3, <1>4 DEF TasksInductive, Apart

\* Whoever begins a call, the web console or the bot, it is about to write what fits.
LEMMA BeginningsKept ==
    ASSUME TasksInductive, NEW c \in Callers, NEW p \in People, home[p] \in Units
    PROVE  /\ \A owner \in Units: \A a \in People \cup {Null}:
                  BeginCreate(c, p, owner, a) => TasksInductive' /\ \A u \in Tasks: Apart(u)
           /\ \A t \in Tasks: \A a \in People \cup {Null}:
                  BeginUpdate(c, p, t, a) => TasksInductive' /\ \A u \in Tasks: Apart(u)
           /\ \A t \in Tasks: \A to \in Statuses:
                  BeginTransition(c, p, t, to) => TasksInductive' /\ \A u \in Tasks: Apart(u)
           /\ \A t \in Tasks:
                  BeginComment(c, p, t) => TasksInductive' /\ \A u \in Tasks: Apart(u)
           /\ \A t \in Tasks: \A other \in Tasks:
                  BeginRelate(c, p, t, other) => TasksInductive' /\ \A u \in Tasks: Apart(u)
<1>1. p \in People /\ home[p] \in Units
    OBVIOUS
<1>2. ASSUME NEW t \in Tasks, task[t] # Null PROVE task[t] \in TaskRows
    BY <1>2 DEF TasksInductive, TasksTypeOK
<1>3. ASSUME NEW owner \in Units, NEW a \in People \cup {Null}, BeginCreate(c, p, owner, a)
      PROVE  TasksInductive' /\ \A u \in Tasks: Apart(u)
    <2> DEFINE record == Record("create", p, Null, a, NewRow(p, home[p], owner, a))
    <2>1. record \in WorkRecords /\ record.kind = "create" /\ record.seen = NewRow(p, home[p], owner, a)
        BY <1>1, NewRowTyped DEF Record, WorkRecords
    <2>2. Begins(c, record)
        BY <1>3 DEF BeginCreate
    <2> HIDE DEF record
    <2> QED BY <1>1, <2>1, <2>2, NewRowTyped, BeginsKept
<1>4. ASSUME NEW t \in Tasks, NEW a \in People \cup {Null}, BeginUpdate(c, p, t, a)
      PROVE  TasksInductive' /\ \A u \in Tasks: Apart(u)
    <2> DEFINE record == Record("update", p, t, a, task[t])
    <2>1. /\ record \in WorkRecords /\ record.kind = "update" /\ record.on = t /\ record.to = a
          /\ task[t] # Null /\ Begins(c, record)
        BY <1>1, <1>2, <1>4 DEF Record, WorkRecords, BeginUpdate
    <2> HIDE DEF record
    <2> QED BY <2>1, BeginsKept
<1>5. ASSUME NEW t \in Tasks, NEW to \in Statuses, BeginTransition(c, p, t, to)
      PROVE  TasksInductive' /\ \A u \in Tasks: Apart(u)
    <2> DEFINE record == Record("transition", p, t, to, task[t])
    <2>1. /\ record \in WorkRecords /\ record.kind = "transition" /\ record.on = t /\ record.to = to
          /\ task[t] # Null /\ Begins(c, record)
        BY <1>1, <1>2, <1>5 DEF Record, WorkRecords, BeginTransition
    <2> HIDE DEF record
    <2> QED BY <2>1, BeginsKept
<1>6. ASSUME NEW t \in Tasks, BeginComment(c, p, t) PROVE TasksInductive' /\ \A u \in Tasks: Apart(u)
    <2> DEFINE record == Record("comment", p, t, Null, task[t])
    <2>1. /\ record \in WorkRecords /\ record.kind = "comment" /\ record.on = t /\ task[t] # Null
          /\ Begins(c, record)
        BY <1>1, <1>2, <1>6 DEF Record, WorkRecords, BeginComment
    <2> HIDE DEF record
    <2> QED BY <2>1, BeginsKept
<1>7. ASSUME NEW t \in Tasks, NEW other \in Tasks, BeginRelate(c, p, t, other)
      PROVE  TasksInductive' /\ \A u \in Tasks: Apart(u)
    <2> DEFINE record == Record("relate", p, t, other, task[t])
    <2>1. /\ record \in WorkRecords /\ record.kind = "relate" /\ record.on = t /\ record.to = other
          /\ task[t] # Null /\ Begins(c, record)
        BY <1>1, <1>2, <1>7 DEF Record, WorkRecords, BeginRelate
    <2> HIDE DEF record
    <2> QED BY <2>1, BeginsKept
<1> QED BY <1>3, <1>4, <1>5, <1>6, <1>7

LEMMA RequestKept ==
    ASSUME TasksInductive, NEW c \in Callers, Request(c)
    PROVE  TasksInductive' /\ \A t \in Tasks: Apart(t)
<1>1. PICK p \in RequestActors:
          \/ \E input \in CreateInputs: BeginCreate(c, p, input.owner, input.assignee)
          \/ \E t \in Tasks: \E assignee \in UpdateInputs: BeginUpdate(c, p, t, assignee)
          \/ \E t \in Tasks: \E to \in TransitionInputs: BeginTransition(c, p, t, to)
          \/ \E t \in Tasks: BeginComment(c, p, t)
          \/ \E t \in Tasks: \E other \in RelationshipInputs: BeginRelate(c, p, t, other)
    BY DEF Request
<1>2. p \in People /\ home[p] \in Units
    BY DEF RequestActors, Resolved, TasksInductive, TasksTypeOK
<1> QED
    BY <1>1, <1>2, BeginningsKept
    DEF CreateInputs, UpdateInputs, TransitionInputs, RelationshipInputs

\* What a call writes keeps every row whole, and the fields of others apart.
LEMMA EffectKept ==
    ASSUME TasksInductive, NEW c \in Callers, work[c] # Null, work[c].stage = "write", Effect(c)
    PROVE  /\ task' \in [Tasks -> TaskRows \cup {Null}] /\ links' \subseteq Tasks \X Tasks
           /\ RowsConsistent' /\ \A t \in Tasks: Apart(t)
           /\ \A t \in Tasks: task[t] # Null => task'[t] # Null
<1>1. work[c] \in WorkRecords
    BY DEF TasksInductive, TasksTypeOK
<1>2. CASE UNCHANGED taskData
    BY <1>2 DEF taskData, TasksInductive, TasksTypeOK, RowsConsistent, Apart
<1>3. CASE work[c].kind = "create" /\ Inserted(c)
    <2>1. PICK t \in Tasks: task[t] = Null /\ task' = [task EXCEPT ![t] = work[c].seen]
        BY <1>3 DEF Inserted
    <2>2. /\ work[c].seen \in TaskRows
          /\ work[c].seen.completed <=> work[c].seen.status = "COMPLETED"
          /\ work[c].seen.cancelled <=> work[c].seen.status = "CANCELLED"
        BY <1>1, <1>3 DEF WorkRecords, TasksInductive, WorkFits
    <2>3. task' \in [Tasks -> TaskRows \cup {Null}] /\ RowsConsistent'
        BY <2>1, <2>2 DEF TasksInductive, TasksTypeOK, RowsConsistent
    <2>4. \A u \in Tasks: Apart(u) /\ (task[u] # Null => task'[u] # Null)
        BY <2>1 DEF TasksInductive, TasksTypeOK, Apart
    <2>5. links' = links
        BY <1>3 DEF Inserted
    <2> QED BY <2>3, <2>4, <2>5 DEF TasksInductive, TasksTypeOK
<1>4. CASE work[c].kind = "relate" /\ Linked(c)
    <2>1. task' = task /\ links' = links \cup {<<work[c].on, work[c].to>>}
        BY <1>4 DEF Linked
    <2>2. work[c].on \in Tasks /\ work[c].to \in Tasks
        BY <1>4 DEF TasksInductive, WorkFits
    <2> QED BY <2>1, <2>2 DEF TasksInductive, TasksTypeOK, RowsConsistent, Apart
<1>5. CASE work[c].kind \in {"update", "transition"} /\ Saved(c)
    <2> DEFINE t == work[c].on
               saved == SavedRow(c, task[t])
    <2>1. t \in Tasks /\ task[t] # Null /\ task' = [task EXCEPT ![t] = saved] /\ links' = links
        BY <1>5 DEF Saved, TasksInductive, WorkFits
    <2>2. task[t] \in TaskRows
        BY <2>1 DEF TasksInductive, TasksTypeOK
    <2>3. CASE work[c].kind = "update"
        <3>1. work[c].to \in People \cup {Null} /\ saved = [task[t] EXCEPT !.assignee = work[c].to]
            BY <1>5, <2>3 DEF TasksInductive, WorkFits, SavedRow
        <3>2. /\ saved \in TaskRows /\ saved.status = task[t].status
              /\ saved.completed = task[t].completed /\ saved.cancelled = task[t].cancelled
            BY <2>2, <3>1 DEF TaskRows
        <3> HIDE DEF t, saved
        <3> QED BY <2>1, <3>2, NullApart DEF TasksInductive, TasksTypeOK, RowsConsistent, Apart
    <2>4. CASE work[c].kind = "transition"
        <3>1. /\ work[c].to \in Statuses
              /\ saved = [task[t] EXCEPT !.status = work[c].to,
                              !.completed = work[c].to = "COMPLETED",
                              !.cancelled = work[c].to = "CANCELLED"]
            BY <1>5, <2>4 DEF TasksInductive, WorkFits, SavedRow, lifecycleTimestamps
        <3>2. /\ saved \in TaskRows /\ saved.assignee = task[t].assignee
              /\ saved.completed <=> saved.status = "COMPLETED"
              /\ saved.cancelled <=> saved.status = "CANCELLED"
            BY <2>2, <3>1 DEF TaskRows
        <3> HIDE DEF t, saved
        <3> QED BY <2>1, <3>2, NullApart DEF TasksInductive, TasksTypeOK, RowsConsistent, Apart
    <2> QED BY <1>5, <2>3, <2>4
<1> QED
    BY <1>1, <1>2, <1>3, <1>4, <1>5 DEF Effect, WorkRecords

\* A call goes on, whatever its request comes to.
LEMMA CallKept ==
    ASSUME TasksInductive, NEW c \in Callers, CallStep(c)
    PROVE  TasksInductive' /\ \A t \in Tasks: Apart(t)
<1>1. work[c] # Null /\ work[c] \in WorkRecords
    BY DEF CallStep, Write, Log, Decline, Fail, LoseAnswer, RequestFails, TasksInductive, TasksTypeOK
<1>2. UNCHANGED organisation /\ requestFaults' \in 0..MaxRequestFaults
    BY TasksAssumption
    DEF CallStep, Write, Log, Decline, Fail, LoseAnswer, RequestFails, TasksInductive, TasksTypeOK
<1>3. (work[c].stage = "write" /\ Effect(c)) \/ UNCHANGED taskData
    BY DEF CallStep, Write, Log, Decline, Fail, LoseAnswer, taskData
<1>4. /\ task' \in [Tasks -> TaskRows \cup {Null}] /\ links' \subseteq Tasks \X Tasks
      /\ RowsConsistent' /\ \A t \in Tasks: Apart(t)
      /\ \A t \in Tasks: task[t] # Null => task'[t] # Null
    BY <1>1, <1>3, EffectKept
    DEF taskData, TasksInductive, TasksTypeOK, RowsConsistent, Apart
<1>5. \E record \in WorkRecords \cup {Null}:
          /\ work' = [work EXCEPT ![c] = record]
          /\ record # Null => record = [work[c] EXCEPT !.stage = "log"]
    <2>1. CASE Write(c)
        BY <1>1, <2>1 DEF Write, WorkRecords
    <2>2. CASE ~Write(c)
        BY <2>2 DEF CallStep, Log, Decline, Fail, LoseAnswer, RequestFails, Ends
    <2> QED BY <2>1, <2>2
<1>6. work' \in [Callers -> WorkRecords \cup {Null}] /\ WorkFits'
    <2>1. PICK record \in WorkRecords \cup {Null}:
              /\ work' = [work EXCEPT ![c] = record]
              /\ record # Null => record = [work[c] EXCEPT !.stage = "log"]
        BY <1>5
    <2>2. record # Null => /\ record.kind = work[c].kind /\ record.on = work[c].on
                           /\ record.to = work[c].to /\ record.seen = work[c].seen
        BY <1>1, <2>1 DEF WorkRecords
    <2> QED BY <1>1, <1>4, <2>1, <2>2 DEF TasksInductive, TasksTypeOK, WorkFits
<1> QED BY <1>2, <1>4, <1>6 DEF TasksInductive, TasksTypeOK, organisation

LEMMA TasksStart == TasksInit => TasksInductive
<1> SUFFICES ASSUME TasksInit PROVE TasksInductive
    OBVIOUS
<1>1. ASSUME NEW t \in Tasks, task[t] # Null
      PROVE  /\ task[t] \in TaskRows /\ task[t].status = "OPEN"
             /\ task[t].completed = FALSE /\ task[t].cancelled = FALSE
    <2>1. PICK p \in People: task[t] = NewRow(p, home[p], home[p], p)
        BY <1>1 DEF TasksInit
    <2>2. home[p] \in Units
        BY <2>1 DEF TasksInit
    <2> DEFINE row == NewRow(p, home[p], home[p], p)
    <2>3. /\ task[t] = row /\ row \in TaskRows /\ row.status = "OPEN"
          /\ row.completed = FALSE /\ row.cancelled = FALSE
        BY <2>1, <2>2, NewRowTyped
    <2> HIDE DEF row
    <2> QED BY <2>3
<1>2. task \in [Tasks -> TaskRows \cup {Null}] /\ RowsConsistent
    BY <1>1 DEF TasksInit, RowsConsistent
<1> QED
    BY <1>2, TasksAssumption DEF TasksInit, TasksInductive, TasksTypeOK, WorkFits

LEMMA TasksStep ==
    ASSUME TasksInductive, [TasksNext]_taskVars
    PROVE  TasksInductive' /\ \A t \in Tasks: Apart(t)
<1>1. CASE Reorganise
    <2>1. UNCHANGED <<task, links, work, requestFaults>>
        BY <1>1 DEF Reorganise, taskData
    <2>2. /\ home' \in [People -> Units \cup {Null}] /\ admins' \subseteq People
          /\ open' \subseteq Units \X Units /\ moves' \in 0..MaxMoves
        <3>1. moves' \in 0..MaxMoves
            BY <1>1, TasksAssumption DEF Reorganise, TasksInductive, TasksTypeOK
        <3>2. /\ home' = home \/ \E q \in People, d \in Units \cup {Null}: home' = [home EXCEPT ![q] = d]
              /\ admins' = admins \/ \E q \in People: admins' \in {admins \ {q}, admins \cup {q}}
              /\ open' = open \/ \E d, e \in Units: open' \in {open \ {<<d, e>>}, open \cup {<<d, e>>}}
            BY <1>1 DEF Reorganise
        <3>3. home' \in [People -> Units \cup {Null}]
            BY <3>2 DEF TasksInductive, TasksTypeOK
        <3>4. admins' \subseteq People
            BY <3>2 DEF TasksInductive, TasksTypeOK
        <3>5. open' \subseteq Units \X Units
            BY <3>2 DEF TasksInductive, TasksTypeOK
        <3> QED BY <3>1, <3>3, <3>4, <3>5
    <2> QED BY <2>1, <2>2 DEF TasksInductive, TasksTypeOK, RowsConsistent, WorkFits, Apart
<1>2. CASE \E c \in Callers: CallStep(c)
    BY <1>2, CallKept
<1>3. CASE \E c \in Callers \ {Bot}: Request(c)
    BY <1>3, RequestKept
<1>4. CASE UNCHANGED taskVars
    BY <1>4 DEF taskVars, taskData, organisation, TasksInductive, TasksTypeOK, RowsConsistent,
        WorkFits, Apart
<1> QED BY <1>1, <1>2, <1>3, <1>4 DEF TasksNext

\* Rows and calls keep their types and every row is whole (TaskService, task.service.ts).
THEOREM TasksInvariance == TaskSpec => []TasksInductive
BY TasksStart, TasksStep, PTL DEF TaskSpec

\* An update and a transition that overlap do not undo one another (task.service.ts).
THEOREM OverlapsApart == TaskSpec => FieldsApart
<1>1. TasksInductive /\ [TasksNext]_taskVars =>
          [\A t \in Tasks: task[t] # Null =>
              task'[t].status = task[t].status \/ task'[t].assignee = task[t].assignee]_taskVars
    BY TasksStep DEF Apart
<1> QED BY <1>1, TasksInvariance, PTL DEF TaskSpec, FieldsApart

-----------------------------------------------------------------------------
(* The task console of the bot *)

\* What the call in hand has written already.
Written == IF Submitting /\ work[Bot].stage = "log" THEN 1 ELSE 0

\* An open conversation has written nothing but what its call in hand has, and
\* what a failure excuses.
Tally == chat # Null => made <= excuses + Written

ConsolesInductive ==
    /\ TasksInductive /\ SubmissionsMatch /\ WritesExcused /\ Tally
    /\ speaker \in People /\ chat \in Inputs \cup Drafts \cup {Null}
    /\ made \in Nat /\ excuses \in Nat

Open(next) == next \in Inputs \cup Drafts /\ next.step # "submitting"

\* A conversation that is not waiting for a call goes on, or ends.
LEMMA TurnsKept ==
    ASSUME ConsolesInductive, NEW next, Turns(next), next = Null \/ (chat # Null /\ Open(next))
    PROVE  ConsolesInductive'
<1>1. TasksInductive'
    BY TasksStep DEF ConsolesInductive, Turns
<1>2. ~Submitting /\ ~Submitting'
    BY DEF ConsolesInductive, SubmissionsMatch, Turns, Idle, Submitting, Open
<1>3. chat' = next /\ speaker' = speaker /\ made' = made /\ excuses' = excuses
    BY DEF Turns
<1>4. Tally'
    BY <1>2, <1>3 DEF ConsolesInductive, Tally, Written
<1>5. SubmissionsMatch'
    BY <1>2 DEF SubmissionsMatch
<1> QED BY <1>1, <1>3, <1>4, <1>5 DEF ConsolesInductive, WritesExcused, Open

LEMMA StartedKept ==
    ASSUME ConsolesInductive, NEW next, Started(next), Open(next)
    PROVE  ConsolesInductive'
<1>1. TasksInductive'
    BY TasksStep DEF ConsolesInductive, Started
<1>2. ~Submitting'
    BY DEF Started, Submitting, Open
<1>3. chat' = next /\ speaker' = speaker /\ made' = 0 /\ excuses' = 0
    BY DEF Started
<1>4. Tally'
    BY <1>2, <1>3 DEF Tally, Written
<1>5. SubmissionsMatch'
    BY <1>2 DEF SubmissionsMatch
<1> QED BY <1>1, <1>3, <1>4, <1>5 DEF ConsolesInductive, WritesExcused, Open

\* What the steps of a new task answer.
LEMMA AnswerKept ==
    ASSUME ConsolesInductive, NEW step \in Steps \ {"review"}, answerStep(step)
    PROVE  ConsolesInductive'
<1>1. chat # Null /\ chat \in Drafts /\ Turns([chat EXCEPT !.step = Follows(step)])
    BY DEF answerStep, Creating, ConsolesInductive, Inputs
<1>2. Follows(step) \in Steps
    BY DEF Follows, Steps
<1>3. Open([chat EXCEPT !.step = Follows(step)])
    BY <1>1, <1>2 DEF Open, Drafts, Steps
<1> QED BY <1>1, <1>3, TurnsKept

LEMMA PressKept ==
    ASSUME ConsolesInductive, Press, ~confirmCreate,
           ~\E t \in Tasks: \E to \in {"IN_PROGRESS", "COMPLETED"}: transition(t, to)
    PROVE  ConsolesInductive'
<1>1. CASE openMenu \/ cancelInput
    BY <1>1, TurnsKept DEF openMenu, cancelInput
<1>2. CASE beginCreate
    <2>1. Open(NewDraft)
        BY DEF Open, NewDraft, Drafts, Steps
    <2> QED BY <1>2, <2>1, StartedKept DEF beginCreate
<1>3. CASE skipDescription \/ choosePriority \/ skipDeadline
    BY <1>3, AnswerKept DEF skipDescription, choosePriority, skipDeadline, Steps
<1>4. ASSUME NEW t \in Tasks, NEW kind \in {"comment", "block"}, beginTaskInput(kind, t)
      PROVE  ConsolesInductive'
    <2>1. Open([kind |-> kind, on |-> t, step |-> "input"])
        BY DEF Open, Inputs
    <2> QED BY <1>4, <2>1, StartedKept DEF beginTaskInput
<1>5. ASSUME NEW d \in Units, chooseOwner(d)
      PROVE  ConsolesInductive'
    <2>1. /\ chat # Null /\ chat \in Drafts
          /\ Turns([chat EXCEPT !.owner = d, !.step = Follows("owner")])
        BY <1>5 DEF chooseOwner, Creating, ConsolesInductive, Inputs
    <2>2. Open([chat EXCEPT !.owner = d, !.step = Follows("owner")])
        BY <2>1 DEF Open, Drafts, Steps, Follows
    <2> QED BY <2>1, <2>2, TurnsKept
<1>6. ASSUME NEW a \in People \cup {Null}, chooseAssignee(a)
      PROVE  ConsolesInductive'
    <2>1. /\ chat # Null /\ chat \in Drafts
          /\ Turns([chat EXCEPT !.assignee = a, !.step = Follows("assignee")])
        BY <1>6 DEF chooseAssignee, Creating, ConsolesInductive, Inputs
    <2>2. Open([chat EXCEPT !.assignee = a, !.step = Follows("assignee")])
        BY <2>1 DEF Open, Drafts, Steps, Follows
    <2> QED BY <2>1, <2>2, TurnsKept
<1> QED BY <1>1, <1>2, <1>3, <1>4, <1>5, <1>6 DEF Press

\* A new task is submitted: the call is to write what the draft says.
LEMMA ConfirmKept == ASSUME ConsolesInductive, confirmCreate PROVE ConsolesInductive'
<1>1. chat # Null /\ chat \in Drafts /\ chat.kind = "create"
    BY DEF confirmCreate, Creating, ConsolesInductive, Inputs
<1>2. /\ BeginCreate(Bot, speaker, chat.owner, chat.assignee)
      /\ chat' = [chat EXCEPT !.step = "submitting"] /\ UNCHANGED <<speaker, made, excuses>>
    BY DEF confirmCreate, Submits
<1>3. speaker \in People /\ home[speaker] \in Units
    BY <1>2 DEF BeginCreate, Holds, Resolved, ConsolesInductive, TasksInductive, TasksTypeOK
<1>4. chat.owner \in Units
    <2>1. MayOwn(speaker, chat.owner) /\ open \subseteq Units \X Units
        BY <1>2 DEF BeginCreate, ConsolesInductive, TasksInductive, TasksTypeOK
    <2> QED BY <1>3, <2>1 DEF MayOwn
<1>5. chat.assignee \in People \cup {Null}
    BY <1>1 DEF Drafts
<1>6. TasksInductive'
    BY <1>2, <1>3, <1>4, <1>5, BeginningsKept, TasksAssumption DEF ConsolesInductive
<1> DEFINE record == Record("create", speaker, Null, chat.assignee,
                            NewRow(speaker, home[speaker], chat.owner, chat.assignee))
<1>7. /\ record.stage = "write" /\ record.by = speaker /\ record.kind = "create"
      /\ record.seen.owner = chat.owner /\ record.seen.assignee = chat.assignee
    BY DEF Record, NewRow
<1>8. record # Null
    <2>1. record \in WorkRecords
        BY <1>3, <1>4, <1>5, NewRowTyped DEF Record, WorkRecords
    <2> QED BY <2>1, NullApart
<1>9. work[Bot] = Null /\ work' = [work EXCEPT ![Bot] = record]
    BY <1>2 DEF BeginCreate, Begins
<1> HIDE DEF record
<1>10. work'[Bot] = record
    BY <1>9, TasksAssumption DEF ConsolesInductive, TasksInductive, TasksTypeOK
<1>11. /\ chat' \in Drafts /\ chat'.kind = "create" /\ chat'.owner = chat.owner
       /\ chat'.assignee = chat.assignee
    BY <1>1, <1>2 DEF Drafts
<1>12. SubmissionsMatch'
    BY <1>2, <1>7, <1>8, <1>10, <1>11 DEF SubmissionsMatch
<1>13. Tally' /\ WritesExcused'
    <2>1. ~Submitting
        BY <1>9 DEF ConsolesInductive, SubmissionsMatch
    <2>2. Written = 0 /\ Written' = 0
        BY <1>7, <1>10, <2>1 DEF Written
    <2> QED BY <1>1, <1>2, <2>2 DEF ConsolesInductive, Tally, WritesExcused
<1> QED BY <1>2, <1>6, <1>11, <1>12, <1>13 DEF ConsolesInductive

\* What a call of the bot that begins leaves in its caller's hands.
LEMMA BotBegins ==
    ASSUME ConsolesInductive, NEW record \in WorkRecords, Begins(Bot, record)
    PROVE  work[Bot] = Null /\ work'[Bot] = record /\ record # Null /\ ~Submitting
<1>1. work[Bot] = Null /\ work' = [work EXCEPT ![Bot] = record]
    BY DEF Begins
<1>2. work'[Bot] = record
    BY <1>1, TasksAssumption DEF ConsolesInductive, TasksInductive, TasksTypeOK
<1>3. ~Submitting
    BY <1>1 DEF ConsolesInductive, SubmissionsMatch
<1> QED BY <1>1, <1>2, <1>3, NullApart

LEMMA SubmitKept == ASSUME ConsolesInductive, submitInput PROVE ConsolesInductive'
<1>1. chat # Null /\ chat \in Inputs
    BY DEF submitInput, ConsolesInductive, Drafts
<1>2. chat.on \in Tasks
    BY <1>1 DEF Inputs
<1>3. /\ BeginComment(Bot, speaker, chat.on) \/ BeginTransition(Bot, speaker, chat.on, "BLOCKED")
      /\ chat' = [chat EXCEPT !.step = "submitting"] /\ UNCHANGED <<speaker, made, excuses>>
    BY DEF submitInput, Submits
<1>4. /\ speaker \in People /\ home[speaker] \in Units /\ task[chat.on] # Null
      /\ task[chat.on] \in TaskRows /\ "BLOCKED" \in Statuses
    BY <1>2, <1>3
    DEF submitInput, Authorized, BeginComment, BeginTransition, Resolved, ConsolesInductive,
        TasksInductive, TasksTypeOK, Statuses
<1>5. TasksInductive'
    <2>1. CASE BeginComment(Bot, speaker, chat.on)
        BY <1>2, <1>4, <2>1, BeginningsKept, TasksAssumption DEF ConsolesInductive
    <2>2. CASE BeginTransition(Bot, speaker, chat.on, "BLOCKED")
        BY <1>2, <1>4, <2>2, BeginningsKept, TasksAssumption DEF ConsolesInductive
    <2> QED BY <1>3, <2>1, <2>2
<1>6. PICK record \in WorkRecords:
          Begins(Bot, record) /\ record.stage = "write" /\ record.by = speaker /\ record.on = chat.on
    <2>1. CASE BeginComment(Bot, speaker, chat.on)
        <3> DEFINE comment == Record("comment", speaker, chat.on, Null, task[chat.on])
        <3>1. /\ comment \in WorkRecords /\ comment.stage = "write" /\ comment.by = speaker
              /\ comment.on = chat.on
            BY <1>2, <1>4 DEF Record, WorkRecords
        <3> QED BY <2>1, <3>1 DEF BeginComment
    <2>2. CASE BeginTransition(Bot, speaker, chat.on, "BLOCKED")
        <3> DEFINE blocked == Record("transition", speaker, chat.on, "BLOCKED", task[chat.on])
        <3>1. /\ blocked \in WorkRecords /\ blocked.stage = "write" /\ blocked.by = speaker
              /\ blocked.on = chat.on
            BY <1>2, <1>4 DEF Record, WorkRecords
        <3> QED BY <2>2, <3>1 DEF BeginTransition
    <2> QED BY <1>3, <2>1, <2>2
<1>7. work'[Bot] = record /\ record # Null /\ ~Submitting
    BY <1>6, BotBegins
<1>8. chat' \in Inputs /\ chat'.kind # "create" /\ chat'.on = chat.on
    BY <1>1, <1>3 DEF Inputs
<1>9. SubmissionsMatch'
    BY <1>3, <1>6, <1>7, <1>8 DEF SubmissionsMatch
<1>10. Tally' /\ WritesExcused'
    <2>1. Written = 0 /\ Written' = 0
        BY <1>6, <1>7 DEF Written
    <2> QED BY <1>1, <1>3, <2>1 DEF ConsolesInductive, Tally, WritesExcused
<1> QED BY <1>3, <1>5, <1>8, <1>9, <1>10 DEF ConsolesInductive

\* The buttons that change a task's status leave the conversation alone.
LEMMA ButtonsKept ==
    ASSUME ConsolesInductive, NEW t \in Tasks, NEW to \in {"IN_PROGRESS", "COMPLETED"}, transition(t, to)
    PROVE  ConsolesInductive'
<1>1. /\ speaker \in People /\ home[speaker] \in Units /\ to \in Statuses /\ task[t] # Null
      /\ task[t] \in TaskRows
    BY DEF transition, Authorized, Resolved, BeginTransition, ConsolesInductive, TasksInductive,
        TasksTypeOK, Statuses
<1>2. TasksInductive'
    BY <1>1, BeginningsKept, TasksAssumption DEF transition, ConsolesInductive
<1>3. ~Submitting
    BY DEF transition, BeginTransition, Begins, ConsolesInductive, SubmissionsMatch
<1>4. UNCHANGED <<speaker, chat, made, excuses>>
    BY DEF transition, consoleVars
<1>5. ~Submitting'
    BY <1>3, <1>4 DEF Submitting
<1>6. Tally' /\ SubmissionsMatch'
    BY <1>3, <1>4, <1>5 DEF ConsolesInductive, Tally, Written, SubmissionsMatch
<1> QED BY <1>2, <1>4, <1>6 DEF ConsolesInductive, WritesExcused

\* The call writes: once, and before it is known.
LEMMA BotWrites == ASSUME ConsolesInductive, CallWrites PROVE ConsolesInductive'
<1>1. TasksInductive'
    BY CallKept, TasksAssumption DEF CallWrites, CallStep, ConsolesInductive
<1>2. /\ work[Bot] # Null /\ work[Bot] \in WorkRecords /\ work[Bot].stage = "write"
      /\ work' = [work EXCEPT ![Bot].stage = "log"]
      /\ made' = made + Counts /\ UNCHANGED <<speaker, chat, excuses>>
    BY TasksAssumption DEF CallWrites, Write, ConsolesInductive, TasksInductive, TasksTypeOK
<1>3. work'[Bot] = [work[Bot] EXCEPT !.stage = "log"]
    BY <1>2, TasksAssumption DEF ConsolesInductive, TasksInductive, TasksTypeOK
<1>4. /\ work'[Bot] \in WorkRecords /\ work'[Bot].stage = "log" /\ work'[Bot].by = work[Bot].by
      /\ work'[Bot].kind = work[Bot].kind /\ work'[Bot].seen = work[Bot].seen
      /\ work'[Bot].on = work[Bot].on
    BY <1>2, <1>3 DEF WorkRecords
<1>5. Submitting' = Submitting
    BY <1>2 DEF Submitting
<1>6. SubmissionsMatch'
    BY <1>2, <1>4, <1>5, NullApart DEF ConsolesInductive, SubmissionsMatch
<1>7. Written = 0 /\ Written' = Counts /\ Counts \in {0, 1}
    BY <1>2, <1>4, <1>5 DEF Written, Counts
<1>8. Tally' /\ WritesExcused'
    <2>1. CASE Submitting
        <3>1. chat # Null
            BY <2>1 DEF Submitting
        <3> QED BY <1>2, <1>7, <3>1 DEF ConsolesInductive, Tally, WritesExcused
    <2>2. CASE ~Submitting
        BY <1>2, <1>7, <2>2 DEF ConsolesInductive, Tally, WritesExcused, Counts
    <2> QED BY <2>1, <2>2
<1> QED BY <1>1, <1>2, <1>6, <1>7, <1>8 DEF ConsolesInductive

\* The call ends, in success or failure: nothing is in hand any more.
LEMMA BotEnds ==
    ASSUME ConsolesInductive, work' = [work EXCEPT ![Bot] = Null], TasksInductive', CallFails \/ CallSucceeds
    PROVE  ConsolesInductive'
<1>1. work[Bot] # Null
    BY DEF CallFails, CallSucceeds, Decline, Fail, LoseAnswer, RequestFails, Log
<1>2. CASE CallSucceeds
    <2>1. /\ chat' = (IF Submitting THEN Null ELSE chat) /\ UNCHANGED <<speaker, made, excuses>>
        BY <1>2 DEF CallSucceeds, Concluded
    <2>2. ~Submitting'
        BY <2>1 DEF Submitting
    <2>3. SubmissionsMatch' /\ Tally' /\ WritesExcused'
        BY <2>1, <2>2 DEF ConsolesInductive, SubmissionsMatch, Tally, Written, WritesExcused
    <2> QED BY <2>1, <2>3 DEF ConsolesInductive
<1>3. CASE CallFails /\ Submitting
    <2>1. chat # Null /\ chat.step = "submitting" /\ chat \in Inputs \cup Drafts
        BY <1>3 DEF Submitting, ConsolesInductive
    <2>2. chat' = [chat EXCEPT !.step = IF chat.kind = "create" THEN "review" ELSE "input"]
        BY <1>3 DEF CallFails, Reopened
    <2>3. Open(chat')
        <3>1. CASE chat \in Inputs
            BY <2>2, <3>1 DEF Open, Inputs
        <3>2. CASE chat \in Drafts
            BY <2>2, <3>2 DEF Open, Drafts, Steps
        <3> QED BY <2>1, <3>1, <3>2
    <2>4. ~Submitting'
        BY <2>3 DEF Submitting, Open
    <2>5. excuses' = excuses + 1 /\ speaker' = speaker
        BY <1>3 DEF CallFails, Counts
    <2>6. PICK n \in Nat: made' = n /\ n <= excuses + 1
        <3>1. CASE made' = made
            <4>1. Written \in {0, 1}
                BY DEF Written
            <4> QED BY <2>1, <3>1, <4>1 DEF ConsolesInductive, Tally
        <3>2. CASE work[Bot].stage = "write" /\ made' = made + 1
            <4>1. Written = 0
                BY <3>2 DEF Written
            <4> QED BY <2>1, <3>2, <4>1 DEF ConsolesInductive, Tally
        <3> QED BY <1>3, <3>1, <3>2 DEF CallFails, LoseAnswer, Counts
    <2>7. SubmissionsMatch' /\ Tally' /\ WritesExcused'
        BY <2>4, <2>5, <2>6 DEF ConsolesInductive, SubmissionsMatch, Tally, Written, WritesExcused
    <2> QED BY <2>3, <2>5, <2>6, <2>7 DEF ConsolesInductive, Open
<1>4. CASE CallFails /\ ~Submitting
    <2>1. UNCHANGED <<speaker, chat, made, excuses>>
        BY <1>4 DEF CallFails, Reopened, Counts, ConsolesInductive
    <2>2. ~Submitting'
        BY <1>4, <2>1 DEF Submitting
    <2>3. SubmissionsMatch' /\ Tally' /\ WritesExcused'
        BY <1>4, <2>1, <2>2 DEF ConsolesInductive, SubmissionsMatch, Tally, Written, WritesExcused
    <2> QED BY <2>1, <2>3 DEF ConsolesInductive
<1> QED BY <1>2, <1>3, <1>4

\* What a caller other than the bot does leaves the bot's call alone.
LEMMA OthersApart ==
    ASSUME TasksInductive, NEW c \in Callers \ {Bot}, CallStep(c) \/ Request(c)
    PROVE  work'[Bot] = work[Bot]
<1>1. work \in [Callers -> WorkRecords \cup {Null}]
    BY DEF TasksInductive, TasksTypeOK
<1>2. \/ \E record: work' = [work EXCEPT ![c] = record]
      \/ work' = [work EXCEPT ![c].stage = "log"]
    <2>1. CASE CallStep(c)
        BY <2>1 DEF CallStep, Write, Log, Decline, Fail, LoseAnswer, RequestFails, Ends
    <2>2. CASE Request(c)
        BY <2>2 DEF Request, BeginCreate, BeginUpdate, BeginTransition, BeginComment, BeginRelate, Begins
    <2> QED BY <2>1, <2>2
<1> QED BY <1>1, <1>2, TasksAssumption

LEMMA ElsewhereKept == ASSUME ConsolesInductive, Elsewhere PROVE ConsolesInductive'
<1>1. TasksInductive'
    BY TasksStep DEF Elsewhere, TasksNext, ConsolesInductive
<1>2. work'[Bot] = work[Bot]
    BY OthersApart DEF Elsewhere, Reorganise, ConsolesInductive
<1>3. UNCHANGED <<speaker, chat, made, excuses>>
    BY DEF Elsewhere, consoleVars
<1>4. Submitting' = Submitting
    BY <1>3 DEF Submitting
<1>5. SubmissionsMatch' /\ Tally' /\ WritesExcused'
    BY <1>2, <1>3, <1>4 DEF ConsolesInductive, SubmissionsMatch, Tally, Written, WritesExcused
<1> QED BY <1>1, <1>3, <1>5 DEF ConsolesInductive

LEMMA DeathKept == ASSUME ConsolesInductive, Dies PROVE ConsolesInductive'
<1>1. /\ work' = [c \in Callers |-> Null] /\ chat' = Null
      /\ UNCHANGED <<task, links, home, admins, open, moves, speaker, made, excuses>>
      /\ requestFaults < MaxRequestFaults /\ requestFaults' = requestFaults + 1
    BY DEF Dies, taskData, organisation
<1>2. TasksInductive'
    <2>1. \A c \in Callers: work'[c] = Null
        BY <1>1
    <2>2. requestFaults' \in 0..MaxRequestFaults
        BY <1>1, TasksAssumption DEF ConsolesInductive, TasksInductive, TasksTypeOK
    <2> QED BY <1>1, <2>1, <2>2
        DEF ConsolesInductive, TasksInductive, TasksTypeOK, RowsConsistent, WorkFits
<1>3. ~Submitting'
    BY <1>1 DEF Submitting
<1>4. SubmissionsMatch' /\ Tally' /\ WritesExcused'
    BY <1>1, <1>3 DEF ConsolesInductive, SubmissionsMatch, Tally, WritesExcused
<1> QED BY <1>1, <1>2, <1>4 DEF ConsolesInductive

LEMMA ConsolesStep ==
    ASSUME ConsolesInductive, [ConsolesNext]_<<taskVars, consoleVars>>
    PROVE  ConsolesInductive'
<1>1. CASE Press
    BY <1>1, PressKept, ConfirmKept, ButtonsKept
<1>2. CASE Say \/ Expire
    BY <1>2, SubmitKept, TurnsKept, AnswerKept DEF Say, Expire, cancelInput, handleCreateText, Steps
<1>3. CASE CallWrites
    BY <1>3, BotWrites
<1>4. CASE CallSucceeds \/ CallFails
    <2>1. work' = [work EXCEPT ![Bot] = Null] /\ CallStep(Bot)
        BY <1>4 DEF CallSucceeds, CallFails, CallStep, Log, Decline, Fail, LoseAnswer, RequestFails, Ends
    <2>2. TasksInductive'
        BY <2>1, CallKept, TasksAssumption DEF ConsolesInductive
    <2> QED BY <1>4, <2>1, <2>2, BotEnds
<1>5. CASE Dies
    BY <1>5, DeathKept
<1>6. CASE Elsewhere
    BY <1>6, ElsewhereKept
<1>7. CASE UNCHANGED <<taskVars, consoleVars>>
    <2>1. TasksInductive'
        BY <1>7, TasksStep DEF ConsolesInductive
    <2>2. UNCHANGED <<work, speaker, chat, made, excuses>>
        BY <1>7 DEF taskVars, consoleVars
    <2>3. Submitting' = Submitting
        BY <2>2 DEF Submitting
    <2>4. SubmissionsMatch' /\ Tally' /\ WritesExcused'
        BY <2>2, <2>3 DEF ConsolesInductive, SubmissionsMatch, Tally, Written, WritesExcused
    <2> QED BY <2>1, <2>2, <2>4 DEF ConsolesInductive
<1> QED BY <1>1, <1>2, <1>3, <1>4, <1>5, <1>6, <1>7 DEF ConsolesNext, Talk

\* Conversations keep their form, and what each has written is accounted for
\* (telegram-task-console.service.ts).
THEOREM ConsolesInvariance == ConsolesSpec => []ConsolesInductive
<1>1. ConsolesInit => ConsolesInductive
    BY TasksStart
    DEF ConsolesInit, ConsolesInductive, SubmissionsMatch, WritesExcused, Tally, Submitting
<1>2. ConsolesInductive /\ [ConsolesNext]_<<taskVars, consoleVars>> => ConsolesInductive'
    BY ConsolesStep
<1> QED BY <1>1, <1>2, PTL DEF ConsolesSpec

\* A call the console waits for is its person's own and does what the conversation says; one
\* conversation writes once, and once more at most for every failure it was told of.
THEOREM ConversationsSafe == ConsolesSpec => []ConsolesInv
<1>1. ConsolesInductive => ConsolesInv
    BY DEF ConsolesInductive, ConsolesInv, ConsolesTypeOK, TasksInductive
<1> QED BY <1>1, ConsolesInvariance, PTL

-----------------------------------------------------------------------------
(* First installation *)

Lineages == {"FRESH", "LEGACY"}
SetupStages == {"new", "counting", "form", "posted", "locked", "auditing", "creating", "committed", "ended"}
SetupAnswers == {"", "installed", "vetoed", "failed", "forbidden", "created", "unknown"}

BootTypeOK ==
    /\ db \in [marker: Installers \cup {NoInstaller}, lineage: Lineages \cup {Nowhere},
               credentials: SUBSET Installers, authority: SUBSET Installers, settings: BOOLEAN,
               seeds: {"origin", "changed", "retired"}, registered: SUBSET Strangers]
    /\ lock \in Installers \cup {NoInstaller}
    /\ installer \in [Installers -> [stage: SetupStages, lineage: Lineages, answer: SetupAnswers, tries: Nat]]
    /\ unseen \subseteq Strangers
    /\ jar \in BOOLEAN

\* Marker, credentials, authority and lineage come together, and a fresh installation
\* missed nobody whom it could see.
InstalledWhole ==
    /\ db.marker = NoInstaller => db.credentials = {} /\ db.authority = {} /\ db.lineage = Nowhere
    /\ db.lineage = "FRESH" => db.seeds = "retired" /\ db.registered \subseteq unseen

\* What an installer may rely on where it is.
PlaceFits(c) ==
    /\ installer[c].stage \in {"locked", "auditing", "creating"} => lock = c
    /\ installer[c].stage \in {"auditing", "creating"} => db.marker = NoInstaller
    /\ installer[c].stage = "creating" /\ installer[c].lineage = "FRESH" => db.registered \subseteq unseen
    /\ installer[c].stage = "committed" => db.marker = c
    /\ installer[c].stage \in {"posted", "locked", "auditing", "creating", "committed"} => installer[c].answer = ""
    /\ c \in Tabs /\ ~jar /\ installer[c].stage \notin {"new", "counting", "ended"} => db.marker \in Tabs

BootInductive ==
    /\ BootTypeOK /\ InstalledWhole
    /\ \A c \in Installers: PlaceFits(c)
    /\ ToldTheTruth /\ RetriesFindIt

Places == [stage: SetupStages, lineage: Lineages, answer: SetupAnswers, tries: Nat]

\* Where one installer may go while nothing else changes but the lock it takes or gives
\* back and the token.
MayGo(c, place) ==
    /\ place \in Places
    /\ \/ lock' = lock
       \/ lock = NoInstaller /\ lock' = c
       \/ lock = c /\ lock' = NoInstaller
    /\ jar' \in BOOLEAN /\ (jar /\ ~jar' => db.marker \in Tabs)
    /\ place.stage \in {"locked", "auditing", "creating"} => lock' = c
    /\ place.stage \in {"auditing", "creating"} => db.marker = NoInstaller
    /\ unseen' \subseteq Strangers /\ (unseen' = unseen \/ db.registered = {})
    /\ place.stage = "creating" /\ place.lineage = "FRESH" => db.registered \subseteq unseen'
    /\ place.stage = "committed" => db.marker = c
    /\ place.stage \in {"posted", "locked", "auditing", "creating", "committed"} => place.answer = ""
    /\ c \in Tabs /\ ~jar' /\ place.stage \notin {"new", "counting", "ended"} => db.marker \in Tabs
    /\ place.answer = "created" => db.marker = c
    /\ place.answer = "installed" => db.marker # NoInstaller
    /\ place.answer = "forbidden" => db.marker \in Tabs
    /\ db.marker = c => place.answer \notin {"vetoed", "failed"}

LEMMA InstallerMoves ==
    ASSUME BootInductive, NEW c \in Installers, NEW place, MayGo(c, place),
           installer' = [installer EXCEPT ![c] = place], UNCHANGED db
    PROVE  BootInductive'
<1>1. BootTypeOK'
    BY BootstrapAssumption DEF BootInductive, BootTypeOK, MayGo, Places
<1>2. InstalledWhole'
    BY DEF BootInductive, InstalledWhole, MayGo
<1>3. ASSUME NEW d \in Installers
      PROVE  /\ PlaceFits(d)'
             /\ installer'[d].answer = "created" => db'.marker = d
             /\ installer'[d].answer = "installed" => db'.marker # NoInstaller
             /\ installer'[d].answer = "forbidden" => db'.marker \in Tabs
             /\ db'.marker = d => installer'[d].answer \notin {"vetoed", "failed"}
    <2>1. CASE d = c
        <3>1. installer'[d] = place
            BY <2>1 DEF BootInductive, BootTypeOK
        <3> QED BY <2>1, <3>1 DEF MayGo, PlaceFits
    <2>2. CASE d # c
        <3>1. installer'[d] = installer[d]
            BY <2>2 DEF BootInductive, BootTypeOK
        <3>2. PlaceFits(d)
            BY DEF BootInductive
        <3>3. PlaceFits(d)'
            BY <2>2, <3>1, <3>2, BootstrapAssumption DEF MayGo, PlaceFits, BootInductive, BootTypeOK
        <3> QED BY <3>1, <3>3 DEF BootInductive, ToldTheTruth, RetriesFindIt
    <2> QED BY <2>1, <2>2
<1> QED BY <1>1, <1>2, <1>3 DEF BootInductive, ToldTheTruth, RetriesFindIt

LEMMA LookingKept ==
    ASSUME BootInductive, NEW c \in Installers,
           \/ ReadMarker(c) \/ ReadCounts(c) \/ Reload(c) \/ Preview(c) \/ Rerun(c) \/ SubmitSetup(c)
    PROVE  BootInductive'
<1> USE BootstrapAssumption
<1> DEFINE at == installer[c]
<1>1. at \in Places /\ PlaceFits(c) /\ InstalledWhole
    BY DEF BootInductive, BootTypeOK, Places
<1>2. /\ at.answer = "created" => db.marker = c
      /\ at.answer = "installed" => db.marker # NoInstaller
      /\ at.answer = "forbidden" => db.marker \in Tabs
      /\ db.marker = c => at.answer \notin {"vetoed", "failed"}
    BY DEF BootInductive, ToldTheTruth, RetriesFindIt
<1>3. /\ jar \in BOOLEAN /\ c # NoInstaller /\ (c \in Tabs \/ c \in Operators)
      /\ at.tries + 1 \in Nat /\ unseen \subseteq Strangers
    BY <1>1 DEF BootInductive, BootTypeOK, Installers, Places
<1>4. CASE ReadMarker(c)
    <2> DEFINE place == IF db.marker = NoInstaller THEN [at EXCEPT !.stage = "counting"]
                        ELSE [at EXCEPT !.stage = "ended", !.answer = "installed"]
    <2>1. installer' = [installer EXCEPT ![c] = place] /\ UNCHANGED <<db, unseen>>
        BY <1>4 DEF ReadMarker, SetupGoes, SetupEnds
    <2>2. MayGo(c, place)
        BY <1>1, <1>2, <1>3, <1>4, <2>1
        DEF ReadMarker, MayGo, Places, PlaceFits, SetupStages, SetupAnswers, AtSetup
    <2> QED BY <2>1, <2>2, InstallerMoves
<1>5. CASE ReadCounts(c)
    <2> DEFINE place == IF db.credentials = {} /\ db.authority = {} THEN [at EXCEPT !.stage = "form"]
                        ELSE [at EXCEPT !.stage = "ended", !.answer = "installed"]
    <2>1. installer' = [installer EXCEPT ![c] = place] /\ UNCHANGED <<db, unseen>>
        BY <1>5 DEF ReadCounts, SetupGoes, SetupEnds
    <2>2. MayGo(c, place)
        BY <1>1, <1>2, <1>3, <1>5, <2>1
        DEF ReadCounts, MayGo, Places, PlaceFits, SetupStages, SetupAnswers, AtSetup, InstalledWhole
    <2> QED BY <2>1, <2>2, InstallerMoves
<1>6. CASE Reload(c)
    <2> DEFINE place == [at EXCEPT !.stage = "new", !.tries = @ + 1]
    <2>1. installer' = [installer EXCEPT ![c] = place] /\ UNCHANGED <<db, unseen>>
        BY <1>6 DEF Reload
    <2>2. MayGo(c, place)
        BY <1>1, <1>2, <1>3, <1>6, <2>1
        DEF Reload, MayGo, Places, PlaceFits, SetupStages, SetupAnswers, AtSetup
    <2> QED BY <2>1, <2>2, InstallerMoves
<1>7. CASE Preview(c)
    <2>1. CASE Installed
        <3> DEFINE place == [at EXCEPT !.stage = "ended", !.answer = "installed"]
        <3>1. installer' = [installer EXCEPT ![c] = place] /\ UNCHANGED <<db, unseen>>
            BY <1>7, <2>1 DEF Preview, SetupEnds
        <3>2. MayGo(c, place)
            BY <1>1, <1>3, <1>7, <2>1, <3>1
            DEF Preview, MayGo, Places, SetupStages, SetupAnswers, Installed, InstalledWhole
        <3> QED BY <3>1, <3>2, InstallerMoves
    <2>2. CASE ~Installed /\ at.lineage = "FRESH" /\ FreshRefused
        <3> DEFINE place == [at EXCEPT !.stage = "ended", !.answer = "vetoed"]
        <3>1. installer' = [installer EXCEPT ![c] = place] /\ UNCHANGED <<db, unseen>>
            BY <1>7, <2>2 DEF Preview, SetupEnds
        <3>2. MayGo(c, place)
            BY <1>1, <1>3, <1>7, <2>2, <3>1
            DEF Preview, MayGo, Places, SetupStages, SetupAnswers, Installed
        <3> QED BY <3>1, <3>2, InstallerMoves
    <2>3. CASE ~Installed /\ ~(at.lineage = "FRESH" /\ FreshRefused)
        <3> DEFINE place == [at EXCEPT !.stage = "form"]
        <3>1. /\ installer' = [installer EXCEPT ![c] = place] /\ UNCHANGED <<db, unseen>>
              /\ c \notin Tabs
            BY <1>7, <2>3 DEF Preview, SetupGoes, SetupEnds
        <3>2. MayGo(c, place)
            BY <1>1, <1>2, <1>3, <1>7, <3>1 DEF Preview, MayGo, Places, SetupStages
        <3> QED BY <3>1, <3>2, InstallerMoves
    <2> QED BY <2>1, <2>2, <2>3
<1>8. CASE Rerun(c)
    <2>1. PICK lineage \in Lineages:
              installer' = [installer EXCEPT ![c] =
                  [stage |-> "new", lineage |-> lineage, answer |-> "", tries |-> at.tries + 1]]
        BY <1>1, <1>8 DEF Rerun, Lineages
    <2> DEFINE place == [stage |-> "new", lineage |-> lineage, answer |-> "", tries |-> at.tries + 1]
    <2>2. MayGo(c, place)
        BY <1>1, <1>3, <1>8, <2>1 DEF Rerun, MayGo, Places, SetupStages, SetupAnswers
    <2> QED BY <1>8, <2>1, <2>2, InstallerMoves DEF Rerun
<1>9. CASE SubmitSetup(c)
    <2> DEFINE place == [at EXCEPT !.tries = @ + 1,
                             !.stage = IF c \in Tabs /\ ~jar THEN "form" ELSE "posted",
                             !.answer = IF c \in Tabs /\ ~jar THEN "forbidden" ELSE ""]
    <2>1. installer' = [installer EXCEPT ![c] = place] /\ UNCHANGED <<db, unseen>>
        BY <1>9 DEF SubmitSetup
    <2>2. MayGo(c, place)
        BY <1>1, <1>3, <1>9, <2>1
        DEF SubmitSetup, MayGo, Places, PlaceFits, SetupStages, SetupAnswers, AtSetup
    <2> QED BY <2>1, <2>2, InstallerMoves
<1> QED BY <1>4, <1>5, <1>6, <1>7, <1>8, <1>9

\* The steps of a provisioning that leave the rows alone, with the lock or about to take it.
LEMMA ProvisioningKept ==
    ASSUME BootInductive, NEW c \in Installers,
           \/ TakeLock(c) \/ CheckInstallation(c) \/ AuditAgain(c) \/ ProvisioningRefused(c)
           \/ AnswerInstalled(c) \/ SetupBreaks(c)
    PROVE  BootInductive'
<1> USE BootstrapAssumption
<1> DEFINE at == installer[c]
           To(stage) == [at EXCEPT !.stage = stage]
           Ended(stage, answer) == [at EXCEPT !.stage = stage, !.answer = answer]
<1>1. at \in Places /\ PlaceFits(c) /\ InstalledWhole
    BY DEF BootInductive, BootTypeOK, Places
<1>2. /\ at.answer = "created" => db.marker = c
      /\ at.answer = "installed" => db.marker # NoInstaller
      /\ at.answer = "forbidden" => db.marker \in Tabs
      /\ db.marker = c => at.answer \notin {"vetoed", "failed"}
    BY DEF BootInductive, ToldTheTruth, RetriesFindIt
<1>3. /\ jar \in BOOLEAN /\ c # NoInstaller /\ (c \in Tabs \/ c \in Operators)
      /\ unseen \subseteq Strangers
    BY DEF BootInductive, BootTypeOK, Installers
<1>4. Back(c) \in {"form", "ended"} /\ (Back(c) = "form" => c \in Tabs)
    BY DEF Back
<1>5. CASE TakeLock(c)
    <2>1. installer' = [installer EXCEPT ![c] = To("locked")] /\ UNCHANGED <<db, unseen>>
        BY <1>5 DEF TakeLock, SetupGoes
    <2>2. MayGo(c, To("locked"))
        BY <1>1, <1>2, <1>3, <1>5, <2>1 DEF TakeLock, MayGo, Places, PlaceFits, SetupStages, AtSetup
    <2> QED BY <2>1, <2>2, InstallerMoves
<1>6. CASE CheckInstallation(c)
    <2>1. CASE SetupVerdict(c) = "eligible"
        <3> DEFINE next == IF at.lineage = "FRESH" THEN "auditing" ELSE "creating"
        <3>1. installer' = [installer EXCEPT ![c] = To(next)] /\ UNCHANGED <<db, unseen>>
            BY <1>6, <2>1 DEF CheckInstallation, SetupGoes
        <3>2. db.marker = NoInstaller
            BY <2>1 DEF SetupVerdict, Installed
        <3>3. MayGo(c, To(next))
            BY <1>1, <1>2, <1>3, <1>6, <2>1, <3>1, <3>2
            DEF CheckInstallation, MayGo, Places, PlaceFits, SetupStages, AtSetup
        <3> QED BY <3>1, <3>3, InstallerMoves
    <2>2. CASE SetupVerdict(c) # "eligible"
        <3> DEFINE place == Ended(Back(c), SetupVerdict(c))
        <3>1. installer' = [installer EXCEPT ![c] = place] /\ UNCHANGED <<db, unseen>>
            BY <1>6, <2>2 DEF CheckInstallation, SetupEnds
        <3>2. \/ SetupVerdict(c) = "installed" /\ db.marker # NoInstaller
              \/ SetupVerdict(c) = "vetoed" /\ db.marker = NoInstaller
            BY <1>1, <2>2 DEF SetupVerdict, Installed, InstalledWhole
        <3>3. MayGo(c, place)
            BY <1>1, <1>3, <1>4, <1>6, <2>2, <3>1, <3>2
            DEF CheckInstallation, MayGo, Places, PlaceFits, SetupStages, SetupAnswers, AtSetup
        <3> QED BY <3>1, <3>3, InstallerMoves
    <2> QED BY <2>1, <2>2
<1>7. CASE AuditAgain(c)
    <2>1. CASE db.registered # {}
        <3>1. /\ installer' = [installer EXCEPT ![c] = Ended(Back(c), "vetoed")]
              /\ UNCHANGED <<db, unseen>>
            BY <1>7, <2>1 DEF AuditAgain, SetupEnds
        <3>2. MayGo(c, Ended(Back(c), "vetoed"))
            BY <1>1, <1>3, <1>4, <1>7, <2>1, <3>1
            DEF AuditAgain, MayGo, Places, PlaceFits, SetupStages, SetupAnswers, AtSetup
        <3> QED BY <3>1, <3>2, InstallerMoves
    <2>2. CASE db.registered = {}
        <3>1. /\ installer' = [installer EXCEPT ![c] = To("creating")]
              /\ db' = db /\ unseen' = {}
            BY <1>7, <2>2 DEF AuditAgain, SetupGoes
        <3>2. MayGo(c, To("creating"))
            BY <1>1, <1>2, <1>3, <1>7, <2>2, <3>1
            DEF AuditAgain, MayGo, Places, PlaceFits, SetupStages, AtSetup
        <3> QED BY <3>1, <3>2, InstallerMoves
    <2> QED BY <2>1, <2>2
<1>8. CASE ProvisioningRefused(c)
    <2>1. /\ installer' = [installer EXCEPT ![c] = Ended(Back(c), "failed")]
          /\ UNCHANGED <<db, unseen>>
        BY <1>8 DEF ProvisioningRefused, SetupEnds
    <2>2. MayGo(c, Ended(Back(c), "failed"))
        BY <1>1, <1>3, <1>4, <1>8, <2>1
        DEF ProvisioningRefused, MayGo, Places, PlaceFits, SetupStages, SetupAnswers, AtSetup
    <2> QED BY <2>1, <2>2, InstallerMoves
<1>9. CASE AnswerInstalled(c)
    <2>1. installer' = [installer EXCEPT ![c] = Ended("ended", "created")] /\ UNCHANGED <<db, unseen>>
        BY <1>9 DEF AnswerInstalled, SetupEnds
    <2>2. MayGo(c, Ended("ended", "created"))
        BY <1>1, <1>3, <1>9, <2>1
        DEF AnswerInstalled, MayGo, Places, PlaceFits, SetupStages, SetupAnswers, AtSetup
    <2> QED BY <2>1, <2>2, InstallerMoves
<1>10. CASE SetupBreaks(c)
    <2> DEFINE place == Ended(IF AtSetup(c, "counting") THEN "ended" ELSE Back(c), "unknown")
    <2>1. installer' = [installer EXCEPT ![c] = place] /\ UNCHANGED <<db, unseen>>
        BY <1>10 DEF SetupBreaks, SetupEnds
    <2>2. MayGo(c, place)
        BY <1>1, <1>3, <1>4, <1>10, <2>1
        DEF SetupBreaks, MayGo, Places, PlaceFits, SetupStages, SetupAnswers, AtSetup
    <2> QED BY <2>1, <2>2, InstallerMoves
<1> QED BY <1>5, <1>6, <1>7, <1>8, <1>9, <1>10

LEMMA CommitKept ==
    ASSUME BootInductive, NEW c \in Installers, CommitInstallation(c)
    PROVE  BootInductive'
<1> USE BootstrapAssumption
<1>1. /\ installer[c] \in Places /\ PlaceFits(c) /\ InstalledWhole
      /\ db.marker = NoInstaller /\ c # NoInstaller /\ lock = c
    BY DEF BootInductive, BootTypeOK, Places, PlaceFits, CommitInstallation, AtSetup
<1>2. installer' = [installer EXCEPT ![c].stage = "committed"]
    BY DEF CommitInstallation, SetupGoes
<1>3. /\ db'.marker = c /\ db'.lineage = installer[c].lineage
      /\ db'.credentials = {c} /\ db'.authority = {c} /\ db'.registered = db.registered
      /\ installer[c].lineage = "FRESH" => db'.seeds = "retired"
    BY DEF CommitInstallation
<1>4. BootTypeOK'
    BY <1>1, <1>2
    DEF BootInductive, BootTypeOK, CommitInstallation, Places, SetupStages, BringsSettings
<1>5. InstalledWhole'
    BY <1>1, <1>3 DEF CommitInstallation, InstalledWhole, PlaceFits, AtSetup
<1>6. \A d \in Installers: installer[d].answer \notin {"created", "installed", "forbidden"}
    BY <1>1 DEF BootInductive, ToldTheTruth, Installers
<1>7. ASSUME NEW d \in Installers
      PROVE  PlaceFits(d)' /\ installer'[d].answer = installer[d].answer
    <2>1. CASE d = c
        <3>1. /\ installer'[d].stage = "committed" /\ installer'[d].answer = installer[c].answer
            BY <1>1, <1>2, <2>1 DEF BootInductive, BootTypeOK, Places
        <3> QED BY <1>1, <1>3, <2>1, <3>1 DEF CommitInstallation, AtSetup, PlaceFits
    <2>2. CASE d # c
        <3>1. installer'[d] = installer[d] /\ PlaceFits(d)
            BY <1>2, <2>2 DEF BootInductive, BootTypeOK
        <3>2. NoInstaller \notin Tabs /\ d # NoInstaller
            BY DEF Installers
        <3> QED BY <1>1, <1>3, <2>2, <3>1, <3>2 DEF CommitInstallation, PlaceFits
    <2> QED BY <2>1, <2>2
<1>8. installer[c].answer = ""
    BY <1>1 DEF CommitInstallation, AtSetup, PlaceFits
<1> QED BY <1>3, <1>4, <1>5, <1>6, <1>7, <1>8 DEF BootInductive, ToldTheTruth, RetriesFindIt

LEMMA RegistrationKept ==
    ASSUME BootInductive, NEW s \in Strangers, RegisterStranger(s)
    PROVE  BootInductive'
<1>1. /\ UNCHANGED <<lock, installer, jar>>
      /\ db'.marker = db.marker /\ db'.lineage = db.lineage /\ db'.seeds = db.seeds
      /\ db'.credentials = db.credentials /\ db'.authority = db.authority
      /\ db'.registered = db.registered \cup {s} /\ unseen' = unseen \cup {s}
    BY DEF RegisterStranger, BootInductive, BootTypeOK
<1>2. BootTypeOK'
    BY DEF RegisterStranger, BootInductive, BootTypeOK
<1>3. db.registered \subseteq unseen => db'.registered \subseteq unseen'
    BY <1>1
<1>4. InstalledWhole' /\ \A c \in Installers: PlaceFits(c)'
    BY <1>1, <1>3 DEF BootInductive, InstalledWhole, PlaceFits
<1> QED BY <1>1, <1>2, <1>4 DEF BootInductive, ToldTheTruth, RetriesFindIt

LEMMA BootStart == BootstrapInit => BootInductive
<1> SUFFICES ASSUME BootstrapInit PROVE BootInductive
    OBVIOUS
<1> USE BootstrapAssumption
<1>1. PICK seeds \in {"origin", "changed"}:
          db = [marker |-> NoInstaller, lineage |-> Nowhere, credentials |-> {}, authority |-> {},
                settings |-> FALSE, seeds |-> seeds, registered |-> {}]
    BY DEF BootstrapInit
<1>2. \A c \in Installers: /\ installer[c].stage = "new" /\ installer[c].answer = ""
                           /\ installer[c].lineage \in Lineages /\ installer[c].tries = 0
    BY DEF BootstrapInit, Lineages
<1>3. BootTypeOK
    <2>1. installer \in [Installers -> [stage: SetupStages, lineage: Lineages, answer: SetupAnswers, tries: Nat]]
        <3> DEFINE first == [stage: {"new"}, lineage: Lineages, answer: {""}, tries: {0}]
        <3>1. installer \in [Installers -> first]
            BY DEF BootstrapInit, Lineages
        <3>2. ASSUME NEW place \in first
              PROVE  place \in [stage: SetupStages, lineage: Lineages, answer: SetupAnswers, tries: Nat]
            <4>1. PICK lineage \in Lineages:
                      place = [stage |-> "new", lineage |-> lineage, answer |-> "", tries |-> 0]
                OBVIOUS
            <4>2. "new" \in SetupStages /\ "" \in SetupAnswers /\ 0 \in Nat
                BY DEF SetupStages, SetupAnswers
            <4> HIDE DEF first
            <4> QED BY <4>1, <4>2
        <3> HIDE DEF first
        <3> QED BY <3>1, <3>2
    <2>2. db \in [marker: Installers \cup {NoInstaller}, lineage: Lineages \cup {Nowhere},
                 credentials: SUBSET Installers, authority: SUBSET Installers, settings: BOOLEAN,
                 seeds: {"origin", "changed", "retired"}, registered: SUBSET Strangers]
        BY <1>1
    <2> QED BY <2>1, <2>2 DEF BootstrapInit, BootTypeOK
<1>4. \A c \in Installers: PlaceFits(c)
    BY <1>2 DEF PlaceFits
<1> QED
    BY <1>1, <1>2, <1>3, <1>4
    DEF BootstrapInit, BootInductive, InstalledWhole, ToldTheTruth, RetriesFindIt, Nowhere

LEMMA BootKept == BootInductive /\ [BootstrapNext]_bootVars => BootInductive'
<1> SUFFICES ASSUME BootInductive, [BootstrapNext]_bootVars PROVE BootInductive'
    OBVIOUS
<1>1. CASE UNCHANGED bootVars
    BY <1>1 DEF bootVars, BootInductive, BootTypeOK, InstalledWhole, PlaceFits, ToldTheTruth, RetriesFindIt
<1>2. CASE BootstrapNext
    BY <1>2, LookingKept, ProvisioningKept, CommitKept, RegistrationKept DEF BootstrapNext
<1> QED BY <1>1, <1>2

\* The installation is whole, and every installer is where it may be (setup.routes.ts,
\* setup.ts, provision_first_installation).
THEOREM BootInvariance == BootstrapSpec => []BootInductive
BY BootStart, BootKept, PTL DEF BootstrapSpec

\* A fresh installation saw nobody when it last looked, whoever is told of an installation is
\* told the truth, and a retry finds what the first try did.
THEOREM InstalledTruthfully == BootstrapSpec => []BootstrapInv
<1>1. BootInductive => BootstrapInv
    BY DEF BootInductive, InstalledWhole, BootstrapInv, FreshMeansEmpty
<1> QED BY <1>1, BootInvariance, PTL

-----------------------------------------------------------------------------
(* The keys of an integration.                                             *)

\* Keys that live are among those issued.
LEMMA LiveCount ==
    ASSUME NEW f, NEW t, IsFiniteSet({k \in Keys: f[k] # NoKey})
    PROVE  IsFiniteSet(LiveKeys(f, t)) /\ Cardinality(LiveKeys(f, t)) \in Nat
<1>1. LiveKeys(f, t) \subseteq {k \in Keys: f[k] # NoKey}
    BY DEF LiveKeys, Lives
<1> QED
    BY <1>1, FS_Subset, FS_CardinalityType

\* What lives no longer is not counted.
LEMMA FewerLive ==
    ASSUME NEW f, NEW s, NEW g, NEW t, IsFiniteSet({k \in Keys: f[k] # NoKey}),
           \A k \in Keys: Lives(k, g, t) => Lives(k, f, s)
    PROVE  /\ Cardinality(LiveKeys(g, t)) \in Nat
           /\ Cardinality(LiveKeys(g, t)) <= Cardinality(LiveKeys(f, s))
<1>1. LiveKeys(g, t) \subseteq LiveKeys(f, s)
    BY DEF LiveKeys
<1> QED
    BY <1>1, LiveCount, FS_Subset, FS_CardinalityType

\* A step that moves the call of one administrator and writes nothing.
LEMMA IssuerMoves ==
    ASSUME CredentialsIndInv, NEW a \in Issuers, NEW e \in Creations \cup Revocations \cup {NoKey},
           issuing' = [issuing EXCEPT ![a] = e],
           e # NoKey => e.now <= clock,
           e # NoKey /\ e.kind = "revoke" => Issued(e.key),
           e # NoKey /\ e.kind = "create" /\ e.step = "insert" =>
               AdvisoryFree /\ Cardinality(LiveKeys(key, clock)) <= 1,
           UNCHANGED <<key, lastUsed, usable, presenting, clock, promised, until>>,
           calls' \in 0..MaxIssuing, breaks' \in 0..MaxBreaks
    PROVE  CredentialsIndInv'
<1>1. /\ issuing' \in [Issuers -> Creations \cup Revocations \cup {NoKey}]
      /\ issuing'[a] = e /\ \A b \in Issuers \ {a}: issuing'[b] = issuing[b]
    BY DEF CredentialsIndInv, CredentialsTypeOK
<1>2. CredentialsTypeOK'
    BY <1>1 DEF CredentialsIndInv, CredentialsTypeOK
<1>3. Cardinality(LiveKeys(key, clock))' = Cardinality(LiveKeys(key, clock))
    BY DEF LiveKeys, Lives
<1>4. KeysKept'
    BY <1>3 DEF CredentialsIndInv, KeysKept, Issued
<1>5. RoomForKey'
    <2>1. IsFiniteSet({k \in Keys: Issued(k)})'
        BY DEF CredentialsIndInv, RoomForKey, Issued
    <2>2. ASSUME NEW b \in Issuers, InCall(b, "create", "insert")', NEW c \in Issuers,
                 InCall(c, "create", "insert")'
          PROVE  c = b
        BY <1>1, <2>2 DEF CredentialsIndInv, RoomForKey, InCall, AdvisoryFree
    <2>3. ASSUME NEW b \in Issuers, InCall(b, "create", "insert")'
          PROVE  Cardinality(LiveKeys(key, clock))' <= 1
        BY <1>1, <1>3, <2>3 DEF CredentialsIndInv, RoomForKey, InCall
    <2> QED
        BY <2>1, <2>2, <2>3 DEF RoomForKey
<1>6. CallsBegan'
    BY <1>1 DEF CredentialsIndInv, CallsBegan, Issued
<1>7. UsesInTime'
    BY DEF CredentialsIndInv, UsesInTime, Issued
<1> QED
    BY <1>2, <1>4, <1>5, <1>6, <1>7 DEF CredentialsIndInv

\* Counting is done with the lock free, for the time the call began: what lives now
\* lived then.
LEMMA CountKept == ASSUME CredentialsIndInv, NEW a \in Issuers, CountKeys(a) PROVE CredentialsIndInv'
<1>1. /\ issuing[a] \in Creations /\ AdvisoryFree /\ issuing[a].now <= clock
      /\ UNCHANGED <<key, lastUsed, usable, presenting, clock, calls, breaks, promised, until>>
    BY DEF CountKeys, InCall, Revocations, CredentialsIndInv, CredentialsTypeOK, CallsBegan
<1>2. CASE Finish(a)
    BY <1>1, <1>2, IssuerMoves DEF Finish, CredentialsIndInv, CredentialsTypeOK
<1>3. CASE /\ ~(Cardinality(LiveKeys(key, issuing[a].now)) >= 2)
           /\ issuing' = [issuing EXCEPT ![a].step = "insert"]
    <2>1. PICK now \in Times: now = issuing[a].now
        BY <1>1 DEF Creations
    <2>2. \A k \in Keys: Lives(k, key, clock) => Lives(k, key, now)
        BY <1>1, <2>1, CredentialsAssumption
        DEF Lives, CredentialsIndInv, CredentialsTypeOK, KeyRows, Times
    <2>3. IsFiniteSet({k \in Keys: key[k] # NoKey})
        BY DEF CredentialsIndInv, RoomForKey, Issued
    <2>4. /\ Cardinality(LiveKeys(key, clock)) \in Nat
          /\ Cardinality(LiveKeys(key, clock)) <= Cardinality(LiveKeys(key, now))
        BY <2>2, <2>3, FewerLive
    <2>5. Cardinality(LiveKeys(key, now)) \in Nat
        BY <2>3, LiveCount
    <2>6. Cardinality(LiveKeys(key, clock)) <= 1
        BY <1>3, <2>1, <2>4, <2>5
    <2>7. PICK e \in Creations:
              /\ issuing' = [issuing EXCEPT ![a] = e]
              /\ e.now = issuing[a].now /\ e.kind = "create"
        <3>1. [issuing[a] EXCEPT !.step = "insert"] \in Creations
            BY <1>1 DEF Creations
        <3> QED
            BY <1>1, <1>3, <3>1 DEF Creations
    <2> QED
        BY <1>1, <2>6, <2>7, IssuerMoves DEF CredentialsIndInv, CredentialsTypeOK
<1> QED
    BY <1>2, <1>3 DEF CountKeys

\* The other steps of administrators that write nothing.
LEMMA IssuersKeep ==
    ASSUME CredentialsIndInv, NEW a \in Issuers,
           \/ \E ends \in Expiries, k \in Keys \cup {NoKey}: AskCreate(a, ends, k)
           \/ \E k \in Keys, grace \in Graces: AskRevokeKey(a, k, grace)
           \/ LockRow(a) \/ IssuerFails(a)
           \/ \E b \in Issuers: DeadlockBroken(a, b)
    PROVE  CredentialsIndInv'
<1>1. clock \in Times /\ clock \in Nat /\ calls \in 0..MaxIssuing /\ breaks \in 0..MaxBreaks
    BY CredentialsAssumption DEF CredentialsIndInv, CredentialsTypeOK, Times
<1>2. ASSUME NEW ends \in Expiries, NEW k \in Keys \cup {NoKey}, AskCreate(a, ends, k)
      PROVE  CredentialsIndInv'
    <2> DEFINE e == [kind |-> "create", now |-> clock, ends |-> ends, key |-> k, step |-> "lock"]
    <2>1. e \in Creations /\ e.kind = "create" /\ e.step = "lock" /\ e.now = clock
        BY <1>1, CredentialsAssumption DEF Creations, Times
    <2>2. issuing' = [issuing EXCEPT ![a] = e]
        BY <1>2 DEF AskCreate
    <2>3. /\ UNCHANGED <<key, lastUsed, usable, presenting, clock, promised, until>>
          /\ calls' \in 0..MaxIssuing /\ breaks' \in 0..MaxBreaks
        BY <1>1, <1>2, CredentialsAssumption DEF AskCreate
    <2> HIDE DEF e
    <2>4. ~(e.kind = "revoke") /\ ~(e.step = "insert") /\ e.now <= clock
        BY <1>1, <2>1
    <2> QED
        BY <2>1, <2>2, <2>3, <2>4, IssuerMoves
<1>3. ASSUME NEW k \in Keys, NEW grace \in Graces, AskRevokeKey(a, k, grace)
      PROVE  CredentialsIndInv'
    <2> DEFINE e == [kind |-> "revoke", now |-> clock, grace |-> grace, key |-> k, step |-> "row"]
    <2>1. e \in Revocations /\ e.kind = "revoke" /\ e.key = k /\ e.now = clock
        BY <1>1 DEF Revocations
    <2>2. issuing' = [issuing EXCEPT ![a] = e] /\ Issued(k)
        BY <1>3 DEF AskRevokeKey
    <2>3. /\ UNCHANGED <<key, lastUsed, usable, presenting, clock, promised, until>>
          /\ calls' \in 0..MaxIssuing /\ breaks' \in 0..MaxBreaks
        BY <1>1, <1>3, CredentialsAssumption DEF AskRevokeKey
    <2> HIDE DEF e
    <2>4. ~(e.kind = "create") /\ Issued(e.key) /\ e.now <= clock
        BY <1>1, <2>1, <2>2
    <2> QED
        BY <2>1, <2>2, <2>3, <2>4, IssuerMoves
<1>4. CASE LockRow(a)
    <2>1. issuing[a] \in Revocations /\ issuing[a] # NoKey
        BY <1>4 DEF LockRow, InCall, Creations, CredentialsIndInv, CredentialsTypeOK
    <2>2. issuing[a].now <= clock /\ Issued(issuing[a].key)
        BY <2>1 DEF CredentialsIndInv, CallsBegan, Revocations
    <2>3. PICK e \in Revocations:
              /\ issuing' = [issuing EXCEPT ![a] = e]
              /\ e.now = issuing[a].now /\ e.kind = "revoke" /\ e.key = issuing[a].key
        <3>1. [issuing[a] EXCEPT !.step = "lock"] \in Revocations
            BY <2>1 DEF Revocations
        <3> QED
            BY <1>4, <2>1, <3>1 DEF Revocations, LockRow
    <2> QED
        BY <1>1, <1>4, <2>2, <2>3, IssuerMoves DEF LockRow
<1>5. CASE IssuerFails(a)
    <2>1. breaks' \in 0..MaxBreaks
        BY <1>1, <1>5, CredentialsAssumption DEF IssuerFails, Breaks
    <2> QED
        BY <1>1, <1>5, <2>1, IssuerMoves DEF IssuerFails, Finish
<1>6. ASSUME NEW b \in Issuers, DeadlockBroken(a, b) PROVE CredentialsIndInv'
    BY <1>1, <1>6, IssuerMoves DEF DeadlockBroken, Finish
<1> QED
    BY <1>2, <1>3, <1>4, <1>5, <1>6

\* The key inserted is at most the second that lives.
LEMMA InsertKept ==
    ASSUME CredentialsIndInv, NEW a \in Issuers, NEW k \in Keys, InsertKey(a, k)
    PROVE  CredentialsIndInv'
<1>1. /\ issuing[a] \in Creations /\ InCall(a, "create", "insert") /\ ~Issued(k)
      /\ UNCHANGED <<lastUsed, usable, presenting, clock, calls, breaks>>
    BY DEF InsertKey, InCall, Revocations, CredentialsIndInv, CredentialsTypeOK
<1>2. PICK end \in Times: end = issuing[a].ends
    BY <1>1 DEF Creations
<1>3. PICK row \in KeyRows: row = [ends |-> end, revoked |-> FALSE]
    BY DEF KeyRows
<1>4. row # NoKey
    BY CredentialsAssumption DEF KeyRows, Times
<1>5. /\ key' = [key EXCEPT ![k] = row]
      /\ promised' = [promised EXCEPT ![k] = end] /\ until' = [until EXCEPT ![k] = end]
      /\ issuing' = [issuing EXCEPT ![a] = NoKey]
    BY <1>2, <1>3 DEF InsertKey, Finish
<1>6. /\ key' \in [Keys -> KeyRows \cup {NoKey}] /\ key'[k] = row
      /\ \A j \in Keys \ {k}: key'[j] = key[j]
    BY <1>5 DEF CredentialsIndInv, CredentialsTypeOK
<1>7. /\ promised' \in [Keys -> Times] /\ promised'[k] = end
      /\ \A j \in Keys \ {k}: promised'[j] = promised[j]
    BY <1>5 DEF CredentialsIndInv, CredentialsTypeOK
<1>8. /\ until' \in [Keys -> Times] /\ until'[k] = end
      /\ \A j \in Keys \ {k}: until'[j] = until[j]
    BY <1>5 DEF CredentialsIndInv, CredentialsTypeOK
<1>9. /\ issuing' \in [Issuers -> Creations \cup Revocations \cup {NoKey}]
      /\ issuing'[a] = NoKey /\ \A b \in Issuers \ {a}: issuing'[b] = issuing[b]
    BY <1>5 DEF CredentialsIndInv, CredentialsTypeOK
<1>10. CredentialsTypeOK'
    BY <1>1, <1>6, <1>7, <1>8, <1>9 DEF CredentialsIndInv, CredentialsTypeOK
<1>11. IsFiniteSet({j \in Keys: key'[j] # NoKey})
    <2>1. {j \in Keys: key'[j] # NoKey} = {j \in Keys: key[j] # NoKey} \cup {k}
        BY <1>4, <1>6
    <2>2. IsFiniteSet({j \in Keys: key[j] # NoKey})
        BY DEF CredentialsIndInv, RoomForKey, Issued
    <2> QED
        BY <2>1, <2>2, FS_AddElement
<1>12. Cardinality(LiveKeys(key', clock)) <= 2
    <2>1. LiveKeys(key', clock) \subseteq LiveKeys(key, clock) \cup {k}
        BY <1>6 DEF LiveKeys, Lives
    <2>2. IsFiniteSet(LiveKeys(key, clock)) /\ Cardinality(LiveKeys(key, clock)) \in Nat
        BY LiveCount DEF CredentialsIndInv, RoomForKey, Issued
    <2>3. Cardinality(LiveKeys(key, clock)) <= 1
        BY <1>1 DEF CredentialsIndInv, RoomForKey
    <2>4. /\ IsFiniteSet(LiveKeys(key, clock) \cup {k})
          /\ Cardinality(LiveKeys(key, clock) \cup {k}) \in Nat
          /\ Cardinality(LiveKeys(key, clock) \cup {k}) <= 2
        <3> DEFINE live == LiveKeys(key, clock)
        <3>1. IsFiniteSet(live) /\ Cardinality(live) \in Nat /\ Cardinality(live) <= 1
            BY <2>2, <2>3
        <3> HIDE DEF live
        <3>2. /\ IsFiniteSet(live \cup {k})
              /\ Cardinality(live \cup {k}) = IF k \in live THEN Cardinality(live) ELSE Cardinality(live) + 1
            BY <3>1, FS_AddElement
        <3>3. IsFiniteSet(live \cup {k}) /\ Cardinality(live \cup {k}) \in Nat /\ Cardinality(live \cup {k}) <= 2
            BY <3>1, <3>2
        <3> QED
            BY <3>3 DEF live
    <2>5. /\ Cardinality(LiveKeys(key', clock)) \in Nat
          /\ Cardinality(LiveKeys(key', clock)) <= Cardinality(LiveKeys(key, clock) \cup {k})
        BY <2>1, <2>4, FS_Subset, FS_CardinalityType
    <2> QED
        BY <2>4, <2>5
<1>13. Cardinality(LiveKeys(key, clock))' <= 2
    BY <1>1, <1>12 DEF LiveKeys, Lives
<1>14. \A j \in Keys: Issued(j) => Issued(j)' /\ j # k
    BY <1>1, <1>6 DEF Issued
<1>15. KeysKept'
    <2>1. \A j \in Keys: Issued(j)' => key'[j].revoked \/ key'[j].ends <= promised'[j]
        BY <1>3, <1>6, <1>7, CredentialsAssumption
        DEF CredentialsIndInv, KeysKept, Issued, KeyRows, Times
    <2>2. \A j \in Keys: lastUsed[j] # NoKey => lastUsed[j] <= until'[j]
        BY <1>8, <1>14 DEF CredentialsIndInv, KeysKept, UsesInTime
    <2> QED
        BY <1>1, <1>13, <2>1, <2>2 DEF KeysKept
<1>16. RoomForKey'
    <2>1. \A b \in Issuers: ~InCall(b, "create", "insert")'
        BY <1>1, <1>9 DEF CredentialsIndInv, RoomForKey, InCall
    <2> QED
        BY <1>11, <2>1 DEF RoomForKey, Issued
<1>17. CallsBegan'
    BY <1>1, <1>9, <1>14 DEF CredentialsIndInv, CallsBegan, CredentialsTypeOK, Revocations, Creations, Presentations
<1>18. UsesInTime'
    <2>1. \A j \in Keys: promised'[j] <= until'[j]
        BY <1>7, <1>8, CredentialsAssumption DEF CredentialsIndInv, UsesInTime, Times
    <2>2. \A m \in Clients: presenting[m] # NoKey /\ presenting[m].passed =>
              presenting[m].now <= until'[presenting[m].key]
        BY <1>8, <1>14 DEF CredentialsIndInv, UsesInTime, CallsBegan, CredentialsTypeOK, Presentations
    <2>3. \A j \in Keys: lastUsed[j] # NoKey => Issued(j)' /\ lastUsed[j] <= clock
        BY <1>14 DEF CredentialsIndInv, UsesInTime
    <2> QED
        BY <1>1, <2>1, <2>2, <2>3 DEF UsesInTime
<1> QED
    BY <1>10, <1>15, <1>16, <1>17, <1>18 DEF CredentialsIndInv

\* A revocation only takes life away, and announces no end later than the one it sets.
LEMMA RevokeKept == ASSUME CredentialsIndInv, NEW a \in Issuers, RevokeKey(a) PROVE CredentialsIndInv'
<1>1. /\ issuing[a] \in Revocations /\ issuing[a] # NoKey /\ AdvisoryFree
      /\ issuing' = [issuing EXCEPT ![a] = NoKey]
      /\ UNCHANGED <<lastUsed, usable, presenting, clock, calls, breaks>>
    BY DEF RevokeKey, InCall, Creations, Finish, CredentialsIndInv, CredentialsTypeOK
<1>2. CASE UNCHANGED <<key, promised, until>>
    BY <1>1, <1>2, IssuerMoves DEF CredentialsIndInv, CredentialsTypeOK
<1>3. CASE ~UNCHANGED <<key, promised, until>>
    <2>1. PICK k \in Keys, now \in Times, grace \in Graces:
              k = issuing[a].key /\ now = issuing[a].now /\ grace = issuing[a].grace
        BY <1>1 DEF Revocations
    <2>2. Issued(k) /\ key[k] \in KeyRows /\ key \in [Keys -> KeyRows \cup {NoKey}]
        BY <1>1, <2>1 DEF CredentialsIndInv, CredentialsTypeOK, CallsBegan, Revocations, Issued
    <2>3. PICK row \in KeyRows:
              /\ key' = [key EXCEPT ![k] = row]
              /\ key[k].revoked => row.revoked
              /\ row.ends <= key[k].ends
              /\ promised' = [promised EXCEPT ![k] =
                     Least(promised[k], IF row.revoked THEN clock ELSE row.ends)]
              /\ until' = [until EXCEPT ![k] =
                     Least(until[k], Latest(IF row.revoked THEN clock ELSE row.ends, clock))]
        <3>1. Replaced(a) \in KeyRows /\ (key[k].revoked => Replaced(a).revoked)
              /\ Replaced(a).ends <= key[k].ends
            <4>1. CASE key[k].revoked
                BY <2>1, <2>2, <4>1, CredentialsAssumption DEF Replaced, KeyRows, Times
            <4>2. CASE ~key[k].revoked /\ grace > 0
                <5>1. Least(key[k].ends, now + grace) \in Times /\ Least(key[k].ends, now + grace) <= key[k].ends
                    BY <2>1, <2>2, CredentialsAssumption DEF Least, KeyRows, Times
                <5>2. Replaced(a) = [key[k] EXCEPT !.ends = Least(key[k].ends, now + grace)]
                    BY <2>1, <4>2 DEF Replaced, Shortened
                <5> QED
                    BY <2>2, <4>2, <5>1, <5>2 DEF KeyRows
            <4>3. CASE ~key[k].revoked /\ ~(grace > 0)
                <5>1. Replaced(a) = [key[k] EXCEPT !.revoked = TRUE]
                    BY <2>1, <4>3 DEF Replaced
                <5>2. key[k].ends <= key[k].ends
                    BY <2>2, CredentialsAssumption DEF KeyRows, Times
                <5> QED
                    BY <2>2, <4>3, <5>1, <5>2 DEF KeyRows
            <4> QED
                BY <4>1, <4>2, <4>3
        <3>2. PICK row: row = Replaced(a)
            OBVIOUS
        <3>3. [key EXCEPT ![k] = row][k] = row
            BY <2>2
        <3>4. /\ key' = [key EXCEPT ![k] = row]
              /\ promised' = [promised EXCEPT ![k] =
                     Least(promised[k], IF row.revoked THEN clock ELSE row.ends)]
              /\ until' = [until EXCEPT ![k] =
                     Least(until[k], Latest(IF row.revoked THEN clock ELSE row.ends, clock))]
            BY <1>3, <2>1, <3>2, <3>3 DEF RevokeKey, CredentialsIndInv, CredentialsTypeOK
        <3> QED
            BY <3>1, <3>2, <3>4
    <2>4. PICK end \in Times: end = IF row.revoked THEN clock ELSE row.ends
        BY DEF KeyRows, CredentialsIndInv, CredentialsTypeOK
    <2>5. PICK p \in Times: p = Least(promised[k], end)
        BY DEF Least, CredentialsIndInv, CredentialsTypeOK
    <2>6. PICK u \in Times: u = Least(until[k], Latest(end, clock))
        BY DEF Least, Latest, CredentialsIndInv, CredentialsTypeOK
    <2>7. /\ key' \in [Keys -> KeyRows \cup {NoKey}] /\ key'[k] = row
          /\ \A j \in Keys \ {k}: key'[j] = key[j]
        BY <2>2, <2>3
    <2>8. /\ promised' \in [Keys -> Times] /\ promised'[k] = p
          /\ \A j \in Keys \ {k}: promised'[j] = promised[j]
        BY <2>3, <2>4, <2>5 DEF CredentialsIndInv, CredentialsTypeOK
    <2>9. /\ until' \in [Keys -> Times] /\ until'[k] = u
          /\ \A j \in Keys \ {k}: until'[j] = until[j]
        BY <2>3, <2>4, <2>6 DEF CredentialsIndInv, CredentialsTypeOK
    <2>10. /\ issuing' \in [Issuers -> Creations \cup Revocations \cup {NoKey}]
           /\ issuing'[a] = NoKey /\ \A b \in Issuers \ {a}: issuing'[b] = issuing[b]
        BY <1>1 DEF CredentialsIndInv, CredentialsTypeOK
    <2>11. CredentialsTypeOK'
        BY <1>1, <2>7, <2>8, <2>9, <2>10 DEF CredentialsIndInv, CredentialsTypeOK
    <2>12. row # NoKey
        BY CredentialsAssumption DEF KeyRows, Times
    <2>13. \A j \in Keys: Issued(j)' <=> Issued(j)
        BY <2>2, <2>7, <2>12 DEF Issued
    <2>14. \A j \in Keys: Lives(j, key', clock) => Lives(j, key, clock)
        BY <2>2, <2>3, <2>7, CredentialsAssumption
        DEF Lives, Never, Issued, KeyRows, Times, CredentialsIndInv, CredentialsTypeOK
    <2>15. /\ Cardinality(LiveKeys(key', clock)) \in Nat
           /\ Cardinality(LiveKeys(key', clock)) <= Cardinality(LiveKeys(key, clock))
        BY <2>14, FewerLive DEF CredentialsIndInv, RoomForKey, Issued
    <2>16. Cardinality(LiveKeys(key, clock)) \in Nat
        BY LiveCount DEF CredentialsIndInv, RoomForKey, Issued
    <2>17. Cardinality(LiveKeys(key, clock))' = Cardinality(LiveKeys(key', clock))
        BY <1>1 DEF LiveKeys, Lives
    <2>18. KeysKept'
        <3>1. Cardinality(LiveKeys(key, clock))' <= 2
            BY <2>15, <2>16, <2>17 DEF CredentialsIndInv, KeysKept
        <3>2. Issued(k)' => row.revoked \/ row.ends <= p
            <4>1. key[k].revoked \/ key[k].ends <= promised[k]
                BY <2>2 DEF CredentialsIndInv, KeysKept
            <4> QED
                BY <2>2, <2>3, <2>4, <2>5, <4>1, CredentialsAssumption
                DEF Least, KeyRows, Times, CredentialsIndInv, CredentialsTypeOK
        <3>3. \A j \in Keys: Issued(j)' => key'[j].revoked \/ key'[j].ends <= promised'[j]
            BY <2>7, <2>8, <2>13, <3>2 DEF CredentialsIndInv, KeysKept
        <3>4. lastUsed[k] # NoKey => lastUsed[k] <= u
            <4>1. lastUsed[k] # NoKey => lastUsed[k] <= until[k] /\ lastUsed[k] <= clock /\ lastUsed[k] \in Times
                BY DEF CredentialsIndInv, KeysKept, UsesInTime, CredentialsTypeOK
            <4> QED
                BY <2>4, <2>6, <4>1, CredentialsAssumption
                DEF Least, Latest, Times, CredentialsIndInv, CredentialsTypeOK
        <3>5. \A j \in Keys: lastUsed[j] # NoKey => lastUsed[j] <= until'[j]
            BY <2>9, <3>4 DEF CredentialsIndInv, KeysKept
        <3> QED
            BY <1>1, <3>1, <3>3, <3>5 DEF KeysKept
    <2>19. RoomForKey'
        <3>1. {j \in Keys: Issued(j)'} = {j \in Keys: Issued(j)}
            BY <2>13
        <3>2. \A b \in Issuers: ~InCall(b, "create", "insert")'
            BY <1>1, <2>10 DEF InCall, AdvisoryFree
        <3> QED
            BY <3>1, <3>2 DEF CredentialsIndInv, RoomForKey
    <2>20. CallsBegan'
        BY <1>1, <2>10, <2>13 DEF CredentialsIndInv, CallsBegan, CredentialsTypeOK, Revocations, Creations, Presentations
    <2>21. UsesInTime'
        <3>1. p <= u
            BY <2>4, <2>5, <2>6, CredentialsAssumption
            DEF Least, Latest, Times, CredentialsIndInv, CredentialsTypeOK, UsesInTime
        <3>2. \A j \in Keys: promised'[j] <= until'[j]
            BY <2>8, <2>9, <3>1 DEF CredentialsIndInv, UsesInTime
        <3>3. ASSUME NEW m \in Clients, presenting[m] # NoKey, presenting[m].passed
              PROVE  presenting[m].now <= until'[presenting[m].key]
            <4>1. /\ presenting[m].now <= until[presenting[m].key] /\ presenting[m].now <= clock
                  /\ presenting[m].now \in Times /\ presenting[m].key \in Keys
                BY <3>3 DEF CredentialsIndInv, UsesInTime, CallsBegan, CredentialsTypeOK, Presentations
            <4>2. CASE presenting[m].key = k
                BY <2>4, <2>6, <2>9, <4>1, <4>2, CredentialsAssumption
                DEF Least, Latest, Times, CredentialsIndInv, CredentialsTypeOK
            <4>3. CASE presenting[m].key # k
                BY <2>9, <4>1, <4>3
            <4> QED
                BY <4>2, <4>3
        <3>4. \A j \in Keys: lastUsed[j] # NoKey => Issued(j)' /\ lastUsed[j] <= clock
            BY <2>13 DEF CredentialsIndInv, UsesInTime
        <3> QED
            BY <1>1, <3>2, <3>3, <3>4 DEF UsesInTime
    <2> QED
        BY <2>11, <2>18, <2>19, <2>20, <2>21 DEF CredentialsIndInv
<1> QED
    BY <1>2, <1>3

\* A step that moves the call of one machine and writes nothing.
LEMMA ClientMoves ==
    ASSUME CredentialsIndInv, NEW m \in Clients, NEW e \in Presentations \cup {NoKey},
           presenting' = [presenting EXCEPT ![m] = e],
           e # NoKey => e.now <= clock /\ Issued(e.key),
           e # NoKey /\ e.passed => e.now <= until[e.key],
           UNCHANGED <<key, lastUsed, usable, issuing, clock, calls, breaks, promised, until>>
    PROVE  CredentialsIndInv'
<1>1. /\ presenting' \in [Clients -> Presentations \cup {NoKey}]
      /\ presenting'[m] = e /\ \A n \in Clients \ {m}: presenting'[n] = presenting[n]
    BY DEF CredentialsIndInv, CredentialsTypeOK
<1>2. CredentialsTypeOK'
    BY <1>1 DEF CredentialsIndInv, CredentialsTypeOK
<1>3. KeysKept' /\ RoomForKey'
    BY DEF CredentialsIndInv, KeysKept, RoomForKey, Issued, InCall, LiveKeys, Lives
<1>4. CallsBegan'
    BY <1>1 DEF CredentialsIndInv, CallsBegan, Issued
<1>5. UsesInTime'
    BY <1>1 DEF CredentialsIndInv, UsesInTime, Issued
<1> QED
    BY <1>2, <1>3, <1>4, <1>5 DEF CredentialsIndInv

\* A machine's call looks at the key as of its beginning, and is accepted after the row
\* may have been waited for.
LEMMA ClientsKeep ==
    ASSUME CredentialsIndInv, NEW m \in Clients,
           LookAtKey(m) \/ AcceptKey(m) \/ \E k \in Keys: Present(m, k)
    PROVE  CredentialsIndInv'
<1>1. clock \in Times /\ clock \in Nat
    BY CredentialsAssumption DEF CredentialsIndInv, CredentialsTypeOK, Times
<1>2. ASSUME NEW k \in Keys, Present(m, k) PROVE CredentialsIndInv'
    <2> DEFINE e == [key |-> k, now |-> clock, passed |-> FALSE]
    <2>1. e \in Presentations /\ e.now <= clock /\ e.key = k /\ ~e.passed
        BY <1>1 DEF Presentations
    <2>2. presenting' = [presenting EXCEPT ![m] = e] /\ Issued(k)
        BY <1>2 DEF Present
    <2> HIDE DEF e
    <2> QED
        BY <1>2, <2>1, <2>2, ClientMoves DEF Present
<1>3. CASE LookAtKey(m)
    <2>1. presenting[m] \in Presentations /\ presenting[m].now <= clock /\ Issued(presenting[m].key)
        BY <1>3 DEF LookAtKey, CredentialsIndInv, CredentialsTypeOK, CallsBegan
    <2>2. CASE presenting' = [presenting EXCEPT ![m] = NoKey]
        BY <1>3, <2>2, ClientMoves DEF LookAtKey
    <2>3. CASE ~(presenting' = [presenting EXCEPT ![m] = NoKey])
        <3>1. PICK k \in Keys, now \in Times: k = presenting[m].key /\ now = presenting[m].now
            BY <2>1 DEF Presentations
        <3>2. /\ Lives(k, key, now)
              /\ presenting' = [presenting EXCEPT ![m] = [presenting[m] EXCEPT !.passed = TRUE]]
            BY <1>3, <2>3, <3>1 DEF LookAtKey, CredentialsIndInv, CredentialsTypeOK
        <3>3. /\ [presenting[m] EXCEPT !.passed = TRUE] \in Presentations
              /\ [presenting[m] EXCEPT !.passed = TRUE].key = k
              /\ [presenting[m] EXCEPT !.passed = TRUE].now = now
            BY <2>1, <3>1 DEF Presentations
        <3>4. key[k].ends <= promised[k] /\ promised[k] <= until[k]
            BY <3>2 DEF Lives, CredentialsIndInv, KeysKept, UsesInTime, Issued
        <3>5. now <= key[k].ends
            BY <3>2, CredentialsAssumption DEF Lives, Never, Times, KeyRows, CredentialsIndInv, CredentialsTypeOK
        <3>6. now <= until[k]
            BY <3>2, <3>4, <3>5, CredentialsAssumption
            DEF Times, KeyRows, CredentialsIndInv, CredentialsTypeOK, Lives
        <3> QED
            BY <1>3, <2>1, <3>1, <3>2, <3>3, <3>6, ClientMoves DEF LookAtKey
    <2> QED
        BY <2>2, <2>3
<1>4. CASE AcceptKey(m)
    <2>1. PICK k \in Keys, now \in Times: k = presenting[m].key /\ now = presenting[m].now
        BY <1>4 DEF AcceptKey, Presentations, CredentialsIndInv, CredentialsTypeOK
    <2>2. now <= clock /\ now <= until[k] /\ Issued(k)
        BY <1>4, <2>1 DEF AcceptKey, CredentialsIndInv, CallsBegan, UsesInTime
    <2>3. presenting' = [presenting EXCEPT ![m] = NoKey]
        BY <1>4 DEF AcceptKey
    <2>4. CASE lastUsed' = lastUsed
        BY <1>4, <2>3, <2>4, ClientMoves DEF AcceptKey
    <2>5. CASE lastUsed' = [lastUsed EXCEPT ![k] = now]
        <3>1. /\ lastUsed' \in [Keys -> Times \cup {NoKey}] /\ lastUsed'[k] = now
              /\ \A j \in Keys \ {k}: lastUsed'[j] = lastUsed[j]
            BY <2>5 DEF CredentialsIndInv, CredentialsTypeOK
        <3>2. /\ presenting' \in [Clients -> Presentations \cup {NoKey}]
              /\ presenting'[m] = NoKey /\ \A n \in Clients \ {m}: presenting'[n] = presenting[n]
            BY <2>3 DEF CredentialsIndInv, CredentialsTypeOK
        <3>3. UNCHANGED <<key, usable, issuing, clock, calls, breaks, promised, until>>
            BY <1>4 DEF AcceptKey
        <3>4. CredentialsTypeOK'
            BY <3>1, <3>2, <3>3 DEF CredentialsIndInv, CredentialsTypeOK
        <3>5. KeysKept'
            <4>1. \A j \in Keys: lastUsed'[j] # NoKey => lastUsed'[j] <= until[j]
                BY <2>2, <3>1 DEF CredentialsIndInv, KeysKept
            <4>2. /\ Cardinality(LiveKeys(key, clock))' <= 2
                  /\ \A j \in Keys: Issued(j)' => key'[j].revoked \/ key'[j].ends <= promised'[j]
                BY <3>3 DEF CredentialsIndInv, KeysKept, LiveKeys, Lives, Issued
            <4> QED
                BY <3>3, <4>1, <4>2 DEF KeysKept
        <3>6. RoomForKey'
            BY <3>3 DEF CredentialsIndInv, RoomForKey, Issued, InCall, LiveKeys, Lives
        <3>7. CallsBegan'
            BY <3>2, <3>3 DEF CredentialsIndInv, CallsBegan, Issued
        <3>8. UsesInTime'
            BY <2>2, <3>1, <3>2, <3>3 DEF CredentialsIndInv, UsesInTime, Issued
        <3> QED
            BY <3>4, <3>5, <3>6, <3>7, <3>8 DEF CredentialsIndInv
    <2> QED
        BY <1>4, <2>1, <2>4, <2>5 DEF AcceptKey
<1> QED
    BY <1>2, <1>3, <1>4

\* Time only takes life away.
LEMMA TimeKeeps == ASSUME CredentialsIndInv, Passes PROVE CredentialsIndInv'
<1>1. /\ clock \in Nat /\ clock \in Times /\ clock' = clock + 1 /\ clock' \in Times /\ Horizon \in Nat
      /\ UNCHANGED <<key, lastUsed, usable, issuing, presenting, calls, breaks, promised, until>>
    BY CredentialsAssumption DEF Passes, CredentialsIndInv, CredentialsTypeOK, Times
<1>2. CredentialsTypeOK'
    BY <1>1 DEF CredentialsIndInv, CredentialsTypeOK
<1>3. PICK t \in Times: t = clock'
    BY <1>1
<1>4. \A k \in Keys: Lives(k, key, t) => Lives(k, key, clock)
    BY <1>1, <1>3 DEF Lives, CredentialsIndInv, CredentialsTypeOK, KeyRows, Times
<1>5. /\ Cardinality(LiveKeys(key, t)) \in Nat
      /\ Cardinality(LiveKeys(key, t)) <= Cardinality(LiveKeys(key, clock))
      /\ Cardinality(LiveKeys(key, clock)) \in Nat
    BY <1>4, FewerLive, LiveCount DEF CredentialsIndInv, RoomForKey, Issued
<1>6. Cardinality(LiveKeys(key, clock))' = Cardinality(LiveKeys(key, t))
    BY <1>1, <1>3 DEF LiveKeys, Lives
<1>7. KeysKept'
    BY <1>1, <1>5, <1>6 DEF CredentialsIndInv, KeysKept, Issued
<1>8. RoomForKey'
    BY <1>1, <1>5, <1>6 DEF CredentialsIndInv, RoomForKey, Issued, InCall
<1>9. CallsBegan'
    <2>1. \A a \in Issuers: issuing[a] # NoKey => issuing[a].now \in Times
        BY DEF CredentialsIndInv, CredentialsTypeOK, Creations, Revocations
    <2>2. \A m \in Clients: presenting[m] # NoKey => presenting[m].now \in Times
        BY DEF CredentialsIndInv, CredentialsTypeOK, Presentations
    <2> QED
        BY <1>1, <2>1, <2>2 DEF CredentialsIndInv, CallsBegan, Issued, Times
<1>10. UsesInTime'
    <2>1. \A k \in Keys: lastUsed[k] # NoKey => lastUsed[k] \in Times
        BY DEF CredentialsIndInv, CredentialsTypeOK
    <2> QED
        BY <1>1, <2>1 DEF CredentialsIndInv, UsesInTime, Issued, Times
<1> QED
    BY <1>2, <1>7, <1>8, <1>9, <1>10 DEF CredentialsIndInv

LEMMA CredentialsKeep == ASSUME CredentialsIndInv, [CredentialsNext]_credentialVars PROVE CredentialsIndInv'
<1>1. CASE UNCHANGED credentialVars
    BY <1>1 DEF credentialVars, CredentialsIndInv, CredentialsTypeOK, KeysKept, RoomForKey,
       CallsBegan, UsesInTime, Issued, InCall, LiveKeys, Lives
<1>2. CASE UsabilityChanges
    <2>1. usable' \in BOOLEAN /\ breaks' \in 0..MaxBreaks
        BY <1>2, CredentialsAssumption DEF UsabilityChanges, Breaks, CredentialsIndInv, CredentialsTypeOK
    <2> QED
        BY <1>2, <2>1 DEF UsabilityChanges, CredentialsIndInv, CredentialsTypeOK, KeysKept, RoomForKey,
           CallsBegan, UsesInTime, Issued, InCall, LiveKeys, Lives
<1> QED
    BY <1>1, <1>2, CountKept, IssuersKeep, InsertKept, RevokeKept, ClientsKeep, TimeKeeps
    DEF CredentialsNext

\* The inductive invariant of the keys: whoever inserts holds the lock and has room, and
\* whoever passed began in time.
THEOREM CredentialsInvariance == CredentialsSpec => []CredentialsIndInv
<1>1. CredentialsInit => CredentialsIndInv
    <2> SUFFICES ASSUME CredentialsInit PROVE CredentialsIndInv
        OBVIOUS
    <2>1. CredentialsTypeOK
        BY CredentialsAssumption DEF CredentialsInit, CredentialsTypeOK, Times, Never
    <2>2. {k \in Keys: Issued(k)} = {} /\ LiveKeys(key, clock) = {}
        BY DEF CredentialsInit, Issued, LiveKeys, Lives
    <2>3. KeysKept /\ RoomForKey
        BY <2>2, FS_EmptySet DEF CredentialsInit, KeysKept, RoomForKey, Issued, InCall
    <2>4. CallsBegan /\ UsesInTime
        BY CredentialsAssumption DEF CredentialsInit, CallsBegan, UsesInTime, Never
    <2> QED
        BY <2>1, <2>3, <2>4 DEF CredentialsIndInv
<1> QED
    BY <1>1, CredentialsKeep, PTL DEF CredentialsSpec

\* Calls wait for a lock or a row that somebody holds who goes on, or for each other
\* around a rotation.
LEMMA WaitsEnd == CredentialsTypeOK => WaitsKnown
<1> SUFFICES ASSUME CredentialsTypeOK, NEW a \in Issuers, issuing[a] # NoKey,
                    \A b \in Issuers: ~GoesOn(b)
             PROVE  \E b, c \in Issuers: Caught(b, c)
    BY DEF WaitsKnown
<1>1. ASSUME NEW b \in Issuers, InCall(b, "create", "insert") PROVE \E c \in Issuers: Caught(b, c)
    BY <1>1 DEF GoesOn, RowFree, Caught
<1>2. AdvisoryFree \/ \E b, c \in Issuers: Caught(b, c)
    BY <1>1 DEF AdvisoryFree
<1>3. \/ InCall(a, "create", "lock") \/ InCall(a, "create", "insert")
      \/ InCall(a, "revoke", "row") \/ InCall(a, "revoke", "lock")
    BY DEF CredentialsTypeOK, Creations, Revocations, InCall
<1> QED
    BY <1>1, <1>2, <1>3 DEF GoesOn, RowFree

\* However issuing, rotating, revoking and using keys overlap: two live at most, ends are
\* kept, and the only endless wait is the one the database breaks.
THEOREM KeysSafe == CredentialsSpec => []CredentialsInv
<1>1. CredentialsIndInv => CredentialsInv
    BY WaitsEnd DEF CredentialsIndInv, CredentialsInv
<1> QED
    BY <1>1, CredentialsInvariance, PTL
=============================================================================
