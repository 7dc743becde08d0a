----------------------------- MODULE MCProcesses -----------------------------
(***************************************************************************)
(* A small instance of the processes of an installation and of what is     *)
(* done around them: the fan-out gate with two batches and a single        *)
(* message (TelegramFanout), the evaluator of critical alerts              *)
(* (CriticalAlerts), one call to Telegram (OutboundCalls), and what        *)
(* operators do and ask (Operations).                                      *)
(*                                                                         *)
(* They share no variable, so interleaving them shows nothing: a behaviour *)
(* exercises one of them, its focus, while the others rest.                *)
(***************************************************************************)
EXTENDS TelegramFanout, CriticalAlerts, OutboundCalls, Operations

CONSTANTS long, short, overdueTask, failedDelivery, earlier, later

TwoBatches == {long, short}
Sizes == [b \in TwoBatches |-> IF b = long THEN 3 ELSE 1]

TwoConditions == {overdueTask, failedDelivery}
TwoSources == [c \in TwoConditions |-> IF c = overdueTask THEN "tasks" ELSE "deliveries"]

TwoLevels == [r \in Packages |-> IF r = earlier THEN 1 ELSE 2]

VARIABLE focus

Foci == {"fanout", "alerts", "calls", "releases", "environment", "backups", "readiness"}

\* Where nothing is decided by it, one of the environments stands for all.
Prepared ==
  [complete |-> TRUE, malformed |-> FALSE, fallback |-> "false", adminKey |-> "none", host |-> "127.0.0.1",
   secure |-> "true", proxy |-> "true", scheduler |-> "true", evaluator |-> "true"]

ProcessInit ==
  /\ focus \in Foci
  /\ Init /\ AlertsInit /\ OutboundInit /\ ReleasesInit /\ BackupsInit
  /\ ReadinessInit /\ (focus # "readiness" => health = "good")
  /\ (focus # "alerts" => spacing = [e \in Evaluators |-> 1800])
  /\ EnvironmentInit /\ (focus # "environment" => written = Prepared)

processVars == <<vars, alertsVars>>
operationVars == <<outboundVars, operationsVars>>

ProcessNext ==
  /\ UNCHANGED focus
  /\ \/ /\ UNCHANGED operationVars
        /\ \/ focus = "fanout" /\ Next /\ UNCHANGED alertsVars
           \/ focus = "alerts" /\ AlertsNext /\ UNCHANGED vars
     \/ /\ UNCHANGED processVars
        /\ \/ focus = "calls" /\ OutboundNext /\ UNCHANGED operationsVars
           \/ focus = "releases" /\ ReleasesNext /\ UNCHANGED <<outboundVars, environmentVars, backupVars, readinessVars>>
           \/ focus = "environment" /\ EnvironmentNext /\ UNCHANGED <<outboundVars, releaseVars, backupVars, readinessVars>>
           \/ focus = "backups" /\ BackupsNext /\ UNCHANGED <<outboundVars, releaseVars, environmentVars, readinessVars>>
           \/ focus = "readiness" /\ ReadinessNext /\ UNCHANGED <<outboundVars, releaseVars, environmentVars, backupVars>>

\* The fairness of FairSpec and of AlertsSpec, each while it is the focus.
ProcessFairness ==
  /\ WF_vars(focus = "fanout" /\ Start)
  /\ WF_vars(focus = "fanout" /\ TurnRefused)
  /\ WF_vars(focus = "fanout" /\ Tick)
  /\ \A c \in Calls :
       WF_vars(focus = "fanout" /\ \E outcome \in {"sent", "failed"} : Answer(c, outcome))
  /\ \A b \in Batches : WF_vars(focus = "fanout" /\ Take(b)) /\ WF_vars(focus = "fanout" /\ Return(b))
  /\ \A e \in Evaluators : WF_alertsVars(focus = "alerts" /\ EvaluationStep(e))
  /\ WF_alertsVars(focus = "alerts" /\ \E e \in Evaluators : BeginEvaluation(e))
  /\ WF_alertsVars(focus = "alerts" /\ AlertLeaseExpires)

ProcessSpec ==
  ProcessInit /\ [][ProcessNext]_<<processVars, operationVars, focus>> /\ ProcessFairness

==============================================================================
