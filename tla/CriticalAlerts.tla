--------------------------- MODULE CriticalAlerts ---------------------------
(***************************************************************************)
(* CriticalAlertEvaluatorService and the table critical_alerts.  A process *)
(* evaluates after each run of its reminder scheduler: under a lease it    *)
(* reads three kinds of signals one after the other, raises or refreshes   *)
(* an alert for each condition it has seen, resolves the alerts of those   *)
(* it has not seen, and gives the lease back.  Only resolving looks at the *)
(* lease, which a slow run may outlive.  Dry runs change nothing.          *)
(***************************************************************************)
EXTENDS Naturals

CONSTANTS
    Evaluators,     \* processes
    Conditions,     \* what can be wrong, by dedupe key
    SourceOf,       \* where each of them shows
    Severities,     \* how bad a condition may be
    Nobody,
    ReminderIntervals, \* reminder_scheduler_interval_seconds, as the settings allow it
    MaxChanges,     \* bound: changes of a condition's severity, or of an interval
    MaxAlertFaults  \* bound: requests that fail, crashes, and runs that outlive their lease

Sources == {"tasks", "deliveries", "scheduler"}

ASSUME AlertsAssumption ==
    /\ SourceOf \in [Conditions -> Sources]
    /\ Severities \subseteq {"WARNING", "HIGH", "CRITICAL"}
    /\ Nobody \notin Evaluators
    /\ ReminderIntervals \subseteq 60 .. 3600
    /\ MaxChanges \in Nat /\ MaxAlertFaults \in Nat

VARIABLES
    level,      \* how bad each condition is: NORMAL if it does not hold
    alert,      \* the latest row of each dedupe key
    alertLease, \* who holds critical_alert_evaluator_state, and whether still
    evaluation, \* the run of each process
    spacing,    \* the interval of each process, in seconds
    newest,     \* history: whose run began last
    changes, alertFaults

evaluationVars == <<alertLease, evaluation, newest>>
alertsVars == <<level, alert, evaluationVars, spacing, changes, alertFaults>>

Levels == {"NORMAL"} \cup Severities

Standing(c) == alert[c].status \in {"OPEN", "ACKNOWLEDGED"}

Resting == [step |-> "rest", seen |-> [c \in Conditions |-> "NORMAL"], refreshed |-> {}]

\* The conditions a run has seen to hold.
Observed(e) == {c \in Conditions: evaluation[e].seen[c] # "NORMAL"}

Evaluating(e, step) == evaluation[e].step = step
Proceeds(e, step) == evaluation' = [evaluation EXCEPT ![e].step = step]

-----------------------------------------------------------------------------
(* A run *)

\* trigger asks for two intervals, and for a minute at least.
SecondsAsked(e) == LET twice == spacing[e] + spacing[e] IN IF twice < 60 THEN 60 ELSE twice
LeaseGranted(e) == SecondsAsked(e) \in 30 .. 3600

\* try_acquire_critical_alert_lease: every run asks under a new name.  Another
\* length is refused with an error, and there is no run.
BeginEvaluation(e) ==
    /\ Evaluating(e, "rest") /\ ~alertLease.valid /\ LeaseGranted(e)
    /\ alertLease' = [holder |-> e, valid |-> TRUE]
    /\ Proceeds(e, "tasks")
    /\ newest' = e
    /\ UNCHANGED <<level, alert, spacing, changes, alertFaults>>

Sees(e, source, step) ==
    /\ Evaluating(e, source)
    /\ evaluation' = [evaluation EXCEPT
            ![e].seen = [c \in Conditions |-> IF SourceOf[c] = source THEN level[c] ELSE @[c]],
            ![e].step = step]
    /\ UNCHANGED <<level, alert, alertLease, newest, spacing, changes, alertFaults>>

\* Tasks overdue, or blocked too long.
TaskSignals(e) == Sees(e, "tasks", "deliveries")

\* Deliveries that have failed for good.
DeliverySignals(e) == Sees(e, "deliveries", "scheduler")

\* A reminder scheduler that fails or has fallen silent.
SchedulerSignals(e) == Sees(e, "scheduler", "raise")

\* A slip: an alert somebody has acknowledged is left alone.
RefreshedIfOpen(c, e) ==
    [alert EXCEPT ![c] = IF Standing(c) THEN @ ELSE [status |-> "OPEN", severity |-> evaluation[e].seen[c]]]

\* upsert_critical_alert: an active row keeps its status.
Refreshed(c, e) ==
    [alert EXCEPT ![c] = [status |-> IF Standing(c) THEN @.status ELSE "OPEN",
                          severity |-> evaluation[e].seen[c]]]

RaiseAlert(e) ==
    /\ Evaluating(e, "raise")
    /\ \E c \in Observed(e) \ evaluation[e].refreshed:
        /\ alert' = Refreshed(c, e)
        /\ evaluation' = [evaluation EXCEPT ![e].refreshed = @ \cup {c}]
    /\ UNCHANGED <<level, alertLease, newest, spacing, changes, alertFaults>>

\* A slip: whoever asks may resolve.
HoldsAlways(e) == TRUE

HoldsAlertLease(e) == alertLease.holder = e /\ alertLease.valid

\* resolve_stale_critical_alerts, once everything seen has been raised.
ResolveMissing(e) ==
    /\ Evaluating(e, "raise") /\ Observed(e) \subseteq evaluation[e].refreshed
    /\ HoldsAlertLease(e)
    /\ alert' = [c \in Conditions |->
            IF Standing(c) /\ c \notin Observed(e) THEN [alert[c] EXCEPT !.status = "RESOLVED"] ELSE alert[c]]
    /\ Proceeds(e, "complete")
    /\ UNCHANGED <<level, alertLease, newest, spacing, changes, alertFaults>>

\* The lease is not held any more: the run fails.
AlertLeaseLost(e) ==
    /\ Evaluating(e, "raise") /\ Observed(e) \subseteq evaluation[e].refreshed
    /\ ~HoldsAlertLease(e)
    /\ Proceeds(e, "complete")
    /\ UNCHANGED <<level, alert, alertLease, newest, spacing, changes, alertFaults>>

\* complete_critical_alert_run, with either outcome: the lease is cleared if
\* it is still the run's, expired or not.
CompleteEvaluation(e) ==
    /\ Evaluating(e, "complete")
    /\ alertLease' = IF alertLease.holder = e THEN [holder |-> Nobody, valid |-> FALSE] ELSE alertLease
    /\ evaluation' = [evaluation EXCEPT ![e] = Resting]
    /\ UNCHANGED <<level, alert, newest, spacing, changes, alertFaults>>

-----------------------------------------------------------------------------
(* What goes wrong *)

AlertFault == alertFaults < MaxAlertFaults /\ alertFaults' = alertFaults + 1

\* A request fails, in the end or at once: the run is completed as failed.
EvaluationFails(e) ==
    /\ AlertFault
    /\ evaluation[e].step \in Sources \cup {"raise"}
    /\ Proceeds(e, "complete")
    /\ UNCHANGED <<level, alert, alertLease, newest, spacing, changes>>

\* The process dies or cannot complete: the lease stays until it expires,
\* in the name of a run that is no more.
EvaluatorDies(e) ==
    /\ AlertFault /\ ~Evaluating(e, "rest")
    /\ evaluation' = [evaluation EXCEPT ![e] = Resting]
    /\ alertLease' = IF alertLease.holder = e THEN [alertLease EXCEPT !.holder = Nobody] ELSE alertLease
    /\ UNCHANGED <<level, alert, newest, spacing, changes>>

AlertLeaseEnds ==
    /\ alertLease.valid
    /\ alertLease' = [alertLease EXCEPT !.valid = FALSE]
    /\ UNCHANGED <<level, alert, evaluation, newest, spacing, changes>>

\* lease_until passes: while the run goes on ...
EvaluationOverruns ==
    /\ AlertFault
    /\ alertLease.holder # Nobody
    /\ AlertLeaseEnds

\* ... or after it is gone.
AlertLeaseExpires == alertLease.holder = Nobody /\ AlertLeaseEnds /\ UNCHANGED alertFaults

-----------------------------------------------------------------------------
\* Work goes on: a condition appears, worsens or goes away.
ConditionChanges(c, l) ==
    /\ changes < MaxChanges /\ changes' = changes + 1
    /\ l # level[c] /\ level' = [level EXCEPT ![c] = l]
    /\ UNCHANGED <<alert, evaluationVars, spacing, alertFaults>>

\* updateIntervalMs.  A run under way does not look at the interval again, so
\* that a change during it is one after it.
IntervalChanges(e, seconds) ==
    /\ Evaluating(e, "rest")
    /\ changes < MaxChanges /\ changes' = changes + 1
    /\ seconds # spacing[e] /\ spacing' = [spacing EXCEPT ![e] = seconds]
    /\ UNCHANGED <<level, alert, evaluationVars, alertFaults>>

\* acknowledge_critical_alert
AcknowledgeAlert(c) ==
    /\ alert[c].status = "OPEN"
    /\ alert' = [alert EXCEPT ![c].status = "ACKNOWLEDGED"]
    /\ UNCHANGED <<level, evaluationVars, spacing, changes, alertFaults>>

AlertsInit ==
    /\ level = [c \in Conditions |-> "NORMAL"]
    /\ alert = [c \in Conditions |-> [status |-> "NONE", severity |-> "NORMAL"]]
    /\ alertLease = [holder |-> Nobody, valid |-> FALSE]
    /\ evaluation = [e \in Evaluators |-> Resting]
    /\ newest = Nobody
    /\ spacing \in [Evaluators -> ReminderIntervals]
    /\ changes = 0 /\ alertFaults = 0

EvaluationStep(e) ==
    \/ TaskSignals(e) \/ DeliverySignals(e) \/ SchedulerSignals(e)
    \/ RaiseAlert(e) \/ ResolveMissing(e) \/ AlertLeaseLost(e) \/ CompleteEvaluation(e)

AlertsNext ==
    \/ \E e \in Evaluators:
        \/ BeginEvaluation(e) \/ EvaluationStep(e) \/ EvaluationFails(e) \/ EvaluatorDies(e)
        \/ \E seconds \in ReminderIntervals: IntervalChanges(e, seconds)
    \/ \E c \in Conditions: AcknowledgeAlert(c) \/ \E l \in Levels: ConditionChanges(c, l)
    \/ EvaluationOverruns \/ AlertLeaseExpires

\* Timers keep firing, requests end, and leases expire.
AlertsFairness ==
    /\ \A e \in Evaluators: WF_alertsVars(EvaluationStep(e))
    /\ WF_alertsVars(\E e \in Evaluators: BeginEvaluation(e))
    /\ WF_alertsVars(AlertLeaseExpires)

AlertsSpec == AlertsInit /\ [][AlertsNext]_alertsVars /\ AlertsFairness

-----------------------------------------------------------------------------
AlertsTypeOK ==
    /\ level \in [Conditions -> Levels]
    /\ alert \in [Conditions -> [status: {"NONE", "OPEN", "ACKNOWLEDGED", "RESOLVED"}, severity: Levels]]
    /\ alertLease \in [holder: Evaluators \cup {Nobody}, valid: BOOLEAN]
    /\ evaluation \in [Evaluators -> [step: Sources \cup {"rest", "raise", "complete"},
                                      seen: [Conditions -> Levels], refreshed: SUBSET Conditions]]
    /\ newest \in Evaluators \cup {Nobody}
    /\ spacing \in [Evaluators -> ReminderIntervals]

\* Only the run that began last resolves, and only what it has not seen: a slow
\* run whose lease has gone to another never resolves what that one has raised.
ResolvedByNewest ==
    [][\A c \in Conditions: Standing(c) /\ ~Standing(c)' =>
        newest # Nobody /\ Evaluating(newest, "raise") /\ c \notin Observed(newest)]_alertsVars

\* Whatever overruns, fails or dies on the way, once conditions stay as they are
\* the active alerts come to be those of what is wrong, as bad as it is, unless
\* every process has an interval for which the database refuses the lease.
AlertsFollow ==
    <>[](\E e \in Evaluators: LeaseGranted(e)) =>
    <>[](\A c \in Conditions:
            IF level[c] = "NORMAL" THEN ~Standing(c) ELSE Standing(c) /\ alert[c].severity = level[c])
=============================================================================
