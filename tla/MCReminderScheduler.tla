-------------------------- MODULE MCReminderScheduler --------------------------
(***************************************************************************)
(* Small instances of ReminderScheduler.                                   *)
(***************************************************************************)
EXTENDS ReminderScheduler

CONSTANTS early, late

TwoTasks == {early, late}
RemindTimes == [t \in TwoTasks |-> IF t = early THEN 0 ELSE 1]
EscalateTimes == [t \in TwoTasks |-> IF t = early THEN 9 ELSE 2]

==============================================================================
