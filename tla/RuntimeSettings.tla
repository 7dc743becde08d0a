-------------------------- MODULE RuntimeSettings ---------------------------
(***************************************************************************)
(* The business settings of an installation: one row of instance_settings, *)
(* changed by compare-and-set on its version, the record                   *)
(* RuntimeSettingsService keeps of it, the snapshot it applies to          *)
(* reporting, alerts and the scheduler, and the pages administrators edit. *)
(*                                                                         *)
(* The service reads the row once, in load.  From then on it learns of a   *)
(* change only from the answer to it, and serves its record to every page; *)
(* an answer that is lost, or the setup of the first owner, leaves it      *)
(* behind.                                                                 *)
(***************************************************************************)
EXTENDS AdminConstants, Naturals

CONSTANTS
    Editors,            \* pages in which settings are edited
    Values,             \* complete runtime snapshots
    Baseline,           \* the one of the deployment's environment
    MaxVersion,         \* bound: changes of the row
    MaxLosses           \* bound: lost calls or answers, and crashes

ASSUME SettingsAssumption ==
    /\ None \notin Values
    /\ Baseline \in Values
    /\ MaxVersion \in Nat
    /\ MaxLosses \in Nat

VARIABLES
    saved,      \* the row of instance_settings
    record,     \* RuntimeSettingsService.record, None while the process is down
    applied,    \* RuntimeSettingsProvider.snapshot, with the scheduler's cadence
    shown,      \* the row each page shows, None before it loaded one
    call,       \* the edit each page waits for, None if there is none
    stray,      \* calls nobody waits for any more but the database may yet run
    losses

settingsVars == <<saved, record, applied, shown, call, stray, losses>>

Rows == [value: Values \cup {None}, actor: Users \cup {None}, version: 0..MaxVersion]

\* What an edit changes: all runtime settings, or the business actor.
Changes == [column: {"value"}, to: Values] \cup [column: {"actor"}, to: Users]

\* An edit of a page that showed `seen`, whose version is the expected one.
\* `answer` is the row the database returned, None until then.
Calls == [change: Changes, seen: Rows, answer: Rows \cup {None}]

\* The calls some page waits for.
Waiting == {call[e]: e \in {e \in Editors: call[e] # None}}

SettingsTypeOK ==
    /\ saved \in Rows
    /\ record \in Rows \cup {None}
    /\ applied \in Values
    /\ shown \in [Editors -> Rows \cup {None}]
    /\ call \in [Editors -> Calls \cup {None}]
    /\ stray \subseteq Calls
    /\ losses \in 0..MaxLosses

\* The rows pages and calls in flight were made from.
KnownRows ==
    {shown[e]: e \in {e \in Editors: shown[e] # None}}
        \cup {call[e].seen: e \in {e \in Editors: call[e] # None}}
        \cup {c.seen: c \in stray}

\* RuntimeSettingsService.snapshot: the persisted values, or the baseline.
Snapshot(row) == IF row.value # None THEN row.value ELSE Baseline

\* The first start on a row that provisioning may have written already;
\* versions are counted from there.
SettingsInit ==
    /\ saved \in [value: Values \cup {None}, actor: Users \cup {None}, version: {0}]
    /\ record = saved
    /\ applied = Snapshot(saved)
    /\ shown = [e \in Editors |-> None]
    /\ call = [e \in Editors |-> None]
    /\ stray = {}
    /\ losses = 0

-----------------------------------------------------------------------------
(* The database: update_instance_runtime_settings and                      *)
(* set_instance_business_actor, each under the row's lock.                 *)

ExpectedAlways(c) == TRUE    \* the compare-and-set forgotten

Expected(c) == c.seen.version = saved.version

Accepted(c) ==
    /\ Expected(c)
    /\ saved[c.change.column] # c.change.to

WrittenUncounted(c) == [saved EXCEPT ![c.change.column] = c.change.to]

Written(c) == [saved EXCEPT ![c.change.column] = c.change.to, !.version = @ + 1]

\* The database accepts the edit a page waits for; the answer is on its way.
Commit(e) ==
    /\ call[e] # None /\ call[e].answer = None
    /\ Accepted(call[e])
    /\ saved.version < MaxVersion
    /\ saved' = Written(call[e])
    /\ call' = [call EXCEPT ![e].answer = saved']
    /\ UNCHANGED <<record, applied, shown, stray, losses>>

\* SETTINGS_VERSION_CONFLICT, SETTINGS_UNCHANGED, or an actor the functions do
\* not let: the page shows the message and stays as it is.
Refuse(e) ==
    /\ call[e] # None /\ call[e].answer = None
    /\ call' = [call EXCEPT ![e] = None]
    /\ UNCHANGED <<saved, record, applied, shown, stray, losses>>

\* A call whose connection broke runs after all, or never.
StrayRuns(c) ==
    /\ c \in stray
    /\ stray' = stray \ {c}
    /\ saved' = IF Accepted(c) /\ saved.version < MaxVersion THEN Written(c) ELSE saved
    /\ UNCHANGED <<record, applied, shown, call, losses>>

\* provision_first_owner saves all settings and designates the owner, two
\* changes in one transaction, before anybody can have opened a page.  The
\* running process is not told of it.
Provision(value, actor) ==
    /\ KnownRows = {}
    /\ saved = [value |-> None, actor |-> None, version |-> 0]
    /\ MaxVersion >= 2
    /\ saved' = [value |-> value, actor |-> actor, version |-> 2]
    /\ UNCHANGED <<record, applied, shown, call, stray, losses>>

-----------------------------------------------------------------------------
(* The process and its pages.                                              *)

\* GET /api/admin/settings answers from the record; the page keeps it.
Load(e) ==
    /\ record # None
    /\ call[e] = None
    /\ shown' = [shown EXCEPT ![e] = record]
    /\ UNCHANGED <<saved, record, applied, call, stray, losses>>

\* PATCH /runtime or /business-actor with the version the page shows.
Submit(e, change) ==
    /\ record # None
    /\ call[e] = None /\ shown[e] # None
    /\ call' = [call EXCEPT ![e] =
           [change |-> change, seen |-> shown[e], answer |-> None]]
    /\ UNCHANGED <<saved, record, applied, shown, stray, losses>>

\* updateRuntime and setBusinessActor after their await: both take over the
\* row, only the former applies it.
Answer(e) ==
    /\ call[e] # None /\ call[e].answer # None
    /\ record' = call[e].answer
    /\ applied' = IF call[e].change.column = "value"
                  THEN Snapshot(call[e].answer) ELSE applied
    /\ shown' = [shown EXCEPT ![e] = call[e].answer]
    /\ call' = [call EXCEPT ![e] = None]
    /\ UNCHANGED <<saved, stray, losses>>

\* The connection to the database breaks: mapSettingsError, and the record
\* stays as it was.  The call may still be on its way.
Lose(e) ==
    /\ losses < MaxLosses
    /\ call[e] # None
    /\ losses' = losses + 1
    /\ call' = [call EXCEPT ![e] = None]
    /\ stray' = IF call[e].answer = None THEN stray \cup {call[e]} ELSE stray
    /\ UNCHANGED <<saved, record, applied, shown>>

Crash ==
    /\ losses < MaxLosses
    /\ record # None
    /\ losses' = losses + 1
    /\ record' = None
    /\ stray' = stray \cup {c \in Waiting: c.answer = None}
    /\ call' = [e \in Editors |-> None]
    /\ UNCHANGED <<saved, applied, shown>>

\* load, at the start of the process.
Restart ==
    /\ record = None
    /\ record' = saved
    /\ applied' = Snapshot(saved)
    /\ UNCHANGED <<saved, shown, call, stray, losses>>

-----------------------------------------------------------------------------
SettingsNext ==
    \/ \E e \in Editors: Commit(e) \/ Refuse(e) \/ Load(e) \/ Answer(e) \/ Lose(e)
    \/ \E e \in Editors, change \in Changes: Submit(e, change)
    \/ \E c \in stray: StrayRuns(c)
    \/ \E value \in Values, actor \in Users: Provision(value, actor)
    \/ Crash
    \/ Restart

SettingsSpec == SettingsInit /\ [][SettingsNext]_settingsVars

\* Answers are taken over when they come, the process is started again, and
\* pages are reloaded.
SettingsFairSpec ==
    /\ SettingsSpec
    /\ WF_settingsVars(Restart)
    /\ \A e \in Editors:
           /\ WF_settingsVars(Commit(e) \/ Refuse(e))
           /\ WF_settingsVars(Answer(e))
           /\ WF_settingsVars(Load(e))

-----------------------------------------------------------------------------
(* The strengthening: a version names one row, pages know no row the       *)
(* service did not know, and at most one answer is ever under way.         *)

NotAhead(row) ==
    /\ row.version <= saved.version
    /\ row.version = saved.version => row = saved

Behind(row) ==
    /\ NotAhead(row)
    /\ record # None => row.version <= record.version

PagesBehind == \A row \in KnownRows: Behind(row)

RecordBehind == record # None => NotAhead(record)

\* Pages wait only while the process runs.
ServingPages == record = None => \A e \in Editors: call[e] = None

\* What is answered is the current row, one change after the record.
AnswersCurrent ==
    \A e \in Editors: (call[e] # None /\ call[e].answer # None) =>
        /\ record # None
        /\ call[e].answer = saved
        /\ saved.version = record.version + 1
        /\ call[e].change.column = "actor" => saved.value = record.value
        /\ \A f \in Editors \ {e}: call[f] # None => call[f].answer = None

-----------------------------------------------------------------------------
(* What must hold.                                                         *)

\* What reporting, alerts and the scheduler run on is what the pages show,
\* also after a change of the business actor, which takes over the row
\* without applying it.
AppliedIsShown == record # None => applied = Snapshot(record)

\* Once a page was opened, every change of the row replaces exactly the row its
\* page showed: concurrent edits never overwrite one another, late strays
\* included.
EditsBuildOnSeen ==
    [][saved' # saved /\ KnownRows # {} =>
          \E c \in Waiting \cup stray:
              c.seen = saved /\ saved' = Written(c)]_settingsVars

\* The service never goes back to an older row while it runs, whatever the
\* order in which answers arrive.
NeverRegresses ==
    [][(record # None /\ record' # None) => record'.version >= record.version]_settingsVars

\* Pages that are reloaded come to show the row the next edit is checked
\* against: after a conflict "reload and try again" has to work.
ReloadCatchesUp ==
    (record # None /\ record.version # saved.version)
        ~> (record = None \/ record = saved)

SettingsIndInv ==
    /\ SettingsTypeOK
    /\ ServingPages
    /\ PagesBehind
    /\ RecordBehind
    /\ AnswersCurrent
    /\ AppliedIsShown
=============================================================================
