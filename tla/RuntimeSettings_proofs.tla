----------------------- MODULE RuntimeSettings_proofs -----------------------
(***************************************************************************)
(* Proofs about RuntimeSettings, for any number of pages, edits, lost      *)
(* calls and crashes; and about the imports of TaskIngestion, for any      *)
(* number of batches, origins, rows, references and faults.                *)
(***************************************************************************)
EXTENDS RuntimeSettings, TaskIngestion, TLAPS, FiniteSetTheorems

USE SettingsAssumption

-----------------------------------------------------------------------------
(* PagesBehind, one page, call or stray at a time.                         *)

LEMMA Unfold ==
    PagesBehind <=> /\ \A e \in Editors: shown[e] # None => Behind(shown[e])
                    /\ \A e \in Editors: call[e] # None => Behind(call[e].seen)
                    /\ \A c \in stray: Behind(c.seen)
BY DEF PagesBehind, KnownRows

LEMMA UnfoldNext ==
    PagesBehind' <=> /\ \A e \in Editors: shown'[e] # None => Behind(shown[e])'
                     /\ \A e \in Editors: call'[e] # None => Behind(call[e].seen)'
                     /\ \A c \in stray': Behind(c.seen)'
BY DEF PagesBehind, KnownRows

\* The rows of the initial state are all the same.
LEMMA InitEstablishes == SettingsInit => SettingsIndInv
<1> SUFFICES ASSUME SettingsInit PROVE SettingsIndInv
    OBVIOUS
<1>1. SettingsTypeOK
    <2>1. applied \in Values
      BY SettingsAssumption DEF SettingsInit, Rows, Snapshot
    <2> QED BY <2>1, SettingsAssumption DEF SettingsInit, SettingsTypeOK, Rows
<1>2. PagesBehind
    BY Unfold DEF SettingsInit
<1>3. RecordBehind
    BY DEF SettingsInit, RecordBehind, NotAhead
<1>4. AnswersCurrent
    BY DEF SettingsInit, AnswersCurrent
<1>5. AppliedIsShown
    BY DEF SettingsInit, AppliedIsShown, Snapshot
<1>6. ServingPages
    BY DEF SettingsInit, ServingPages
<1> QED
    BY <1>1, <1>2, <1>3, <1>4, <1>5, <1>6 DEF SettingsIndInv

-----------------------------------------------------------------------------
(* An accepted change.                                                     *)

\* The row after an accepted change has the next version, and only a change of
\* the runtime column changes the value.
LEMMA WrittenRow ==
    ASSUME SettingsTypeOK, NEW c \in Calls, saved.version < MaxVersion
    PROVE  /\ Written(c) \in Rows
           /\ Written(c).version = saved.version + 1
           /\ c.change.column = "actor" => Written(c).value = saved.value
<1>1. saved.version \in 0..MaxVersion /\ saved.version + 1 \in 0..MaxVersion
    BY DEF SettingsTypeOK, Rows
<1>2. CASE c.change.column = "value" /\ c.change.to \in Values
    BY <1>1, <1>2 DEF Written, SettingsTypeOK, Rows
<1>3. CASE c.change.column = "actor" /\ c.change.to \in Users
    BY <1>1, <1>3 DEF Written, SettingsTypeOK, Rows
<1> QED
    BY <1>2, <1>3 DEF Calls, Changes

\* A row that was not ahead is not ahead of the next version either.
LEMMA StillBehind ==
    ASSUME SettingsTypeOK, NEW row \in Rows, Behind(row),
           saved' \in Rows, saved'.version = saved.version + 1, UNCHANGED record
    PROVE  Behind(row)' /\ row.version < saved'.version
BY DEF SettingsTypeOK, Rows, Behind, NotAhead

\* When an edit is accepted it replaces the row it was made from, the service
\* still holds that row, and no answer is under way: a version names one row.
LEMMA AcceptedFirst ==
    ASSUME SettingsIndInv, NEW c \in Calls, Behind(c.seen), Accepted(c)
    PROVE  /\ c.seen = saved
           /\ record # None => record = saved
           /\ \A e \in Editors: call[e] # None => call[e].answer = None
<1>1. saved \in Rows /\ c.seen \in Rows /\ record \in Rows \cup {None}
    BY DEF SettingsIndInv, SettingsTypeOK, Calls
<1>2. c.seen.version = saved.version
    BY DEF Accepted, Expected
<1>3. c.seen = saved
    BY <1>2 DEF Behind, NotAhead
<1>4. ASSUME record # None
      PROVE  record = saved /\ record.version = saved.version
  <2>1. record.version = saved.version
      BY <1>1, <1>2, <1>4 DEF Behind, SettingsIndInv, RecordBehind, NotAhead, Rows
  <2> QED
      BY <2>1, <1>4 DEF SettingsIndInv, RecordBehind, NotAhead
<1>5. ASSUME NEW e \in Editors, call[e] # None, call[e].answer # None
      PROVE  FALSE
  <2>1. record # None /\ saved.version = record.version + 1
      BY <1>5 DEF SettingsIndInv, AnswersCurrent
  <2> QED
      BY <1>1, <1>4, <2>1 DEF Rows
<1> QED
    BY <1>3, <1>4, <1>5

\* What an accepted change does to everything that knows an older row.
LEMMA AcceptedKeeps ==
    ASSUME SettingsIndInv, NEW c \in Calls, Behind(c.seen), Accepted(c),
           saved.version < MaxVersion, saved' = Written(c), UNCHANGED record
    PROVE  /\ saved' \in Rows
           /\ RecordBehind'
           /\ \A row \in Rows: Behind(row) => Behind(row)'
           /\ record # None => /\ saved'.version = record.version + 1
                               /\ c.change.column = "actor" => saved'.value = record.value
<1>1. /\ saved' \in Rows
      /\ saved'.version = saved.version + 1
      /\ c.change.column = "actor" => saved'.value = saved.value
    BY WrittenRow DEF SettingsIndInv
<1>2. \A row \in Rows: Behind(row) => Behind(row)'
    BY <1>1, StillBehind DEF SettingsIndInv
<1>3. record # None => record = saved
    BY AcceptedFirst
<1>4. RecordBehind'
    BY <1>1, <1>3 DEF RecordBehind, NotAhead, SettingsIndInv, SettingsTypeOK, Rows
<1> QED
    BY <1>1, <1>2, <1>3, <1>4

-----------------------------------------------------------------------------
(* The actions.                                                            *)

LEMMA CommitKeeps ==
    ASSUME SettingsIndInv, NEW e \in Editors, Commit(e)
    PROVE  SettingsIndInv'
<1> DEFINE c == call[e]
<1>1. c \in Calls /\ c.answer = None
    BY DEF Commit, SettingsIndInv, SettingsTypeOK
<1>2. Behind(c.seen) /\ Accepted(c)
    BY Unfold DEF Commit, SettingsIndInv
<1>3. /\ saved.version < MaxVersion
      /\ saved' = Written(c)
      /\ call' = [call EXCEPT ![e].answer = saved']
      /\ UNCHANGED <<record, applied, shown, stray, losses>>
    BY DEF Commit
<1>4. /\ saved' \in Rows
      /\ RecordBehind'
      /\ \A row \in Rows: Behind(row) => Behind(row)'
      /\ record # None => /\ saved'.version = record.version + 1
                          /\ c.change.column = "actor" => saved'.value = record.value
    BY <1>1, <1>2, <1>3, AcceptedKeeps
<1>5. \A f \in Editors: call[f] # None => call[f].answer = None
    BY <1>1, <1>2, AcceptedFirst
<1>6. /\ call'[e] = [c EXCEPT !.answer = saved']
      /\ call'[e] \in Calls
      /\ call'[e].seen = c.seen /\ call'[e].change = c.change
      /\ call'[e].answer = saved'
      /\ \A f \in Editors \ {e}: call'[f] = call[f]
    BY <1>1, <1>3, <1>4 DEF SettingsIndInv, SettingsTypeOK, Calls
<1>7. SettingsTypeOK'
    BY <1>3, <1>4, <1>6 DEF SettingsIndInv, SettingsTypeOK
<1>8. PagesBehind'
  <2>1. \A f \in Editors: shown'[f] # None => Behind(shown[f])'
      BY <1>3, <1>4, Unfold DEF SettingsIndInv, SettingsTypeOK
  <2>2. \A f \in Editors: call'[f] # None => Behind(call[f].seen)'
      BY <1>1, <1>2, <1>4, <1>6, Unfold DEF SettingsIndInv, SettingsTypeOK, Calls
  <2>3. \A s \in stray': Behind(s.seen)'
      BY <1>3, <1>4, Unfold DEF SettingsIndInv, SettingsTypeOK, Calls
  <2> QED
      BY <2>1, <2>2, <2>3, UnfoldNext
<1>9. record # None
    BY DEF Commit, SettingsIndInv, ServingPages
<1>11. AnswersCurrent'
    BY <1>9, <1>3, <1>4, <1>5, <1>6 DEF AnswersCurrent
<1>10. AppliedIsShown'
    BY <1>3 DEF SettingsIndInv, AppliedIsShown, Snapshot
<1> QED
    BY <1>3, <1>4, <1>7, <1>8, <1>9, <1>10, <1>11 DEF SettingsIndInv, ServingPages

LEMMA StrayRunsKeeps ==
    ASSUME SettingsIndInv, NEW c \in stray, StrayRuns(c)
    PROVE  SettingsIndInv'
<1>1. c \in Calls /\ Behind(c.seen)
    BY Unfold DEF SettingsIndInv, SettingsTypeOK
<1>2. UNCHANGED <<record, applied, shown, call, losses>> /\ stray' \subseteq stray
    BY DEF StrayRuns
<1>3. CASE Accepted(c) /\ saved.version < MaxVersion
  <2>1. saved' = Written(c)
      BY <1>3 DEF StrayRuns
  <2>2. /\ saved' \in Rows
        /\ RecordBehind'
        /\ \A row \in Rows: Behind(row) => Behind(row)'
      BY <1>1, <1>2, <1>3, <2>1, AcceptedKeeps
  <2>3. \A e \in Editors: call[e] # None => call[e].answer = None
      BY <1>1, <1>3, AcceptedFirst
  <2>4. SettingsTypeOK'
      BY <1>2, <2>2 DEF SettingsIndInv, SettingsTypeOK
  <2>5. PagesBehind'
    <3>1. \A e \in Editors: shown'[e] # None => Behind(shown[e])'
        BY <1>2, <2>2, Unfold DEF SettingsIndInv, SettingsTypeOK
    <3>2. \A e \in Editors: call'[e] # None => Behind(call[e].seen)'
        BY <1>2, <2>2, Unfold DEF SettingsIndInv, SettingsTypeOK, Calls
    <3>3. \A d \in stray': Behind(d.seen)'
        BY <1>2, <2>2, Unfold DEF SettingsIndInv, SettingsTypeOK, Calls
    <3> QED
        BY <3>1, <3>2, <3>3, UnfoldNext
  <2>6. AnswersCurrent'
      BY <1>2, <2>3 DEF AnswersCurrent
  <2>7. ServingPages' /\ AppliedIsShown'
      BY <1>2 DEF SettingsIndInv, ServingPages, AppliedIsShown, Snapshot
  <2> QED
      BY <2>2, <2>4, <2>5, <2>6, <2>7 DEF SettingsIndInv
<1>4. CASE ~(Accepted(c) /\ saved.version < MaxVersion)
  <2>1. UNCHANGED saved
      BY <1>4 DEF StrayRuns
  <2>2. SettingsTypeOK'
      BY <1>2, <2>1 DEF SettingsIndInv, SettingsTypeOK
  <2>3. PagesBehind'
      BY <1>2, <2>1, Unfold, UnfoldNext DEF SettingsIndInv, Behind, NotAhead
  <2>4. RecordBehind' /\ AnswersCurrent' /\ ServingPages' /\ AppliedIsShown'
      BY <1>2, <2>1 DEF SettingsIndInv, RecordBehind, NotAhead, AnswersCurrent,
         ServingPages, AppliedIsShown, Snapshot
  <2> QED
      BY <2>2, <2>3, <2>4 DEF SettingsIndInv
<1> QED
    BY <1>3, <1>4

\* Steps in which one page ends or begins a call, loads the row, or does
\* nothing, while row and record stay.
LEMMA PageStepKeeps ==
    ASSUME SettingsIndInv, NEW e \in Editors,
           UNCHANGED <<saved, record, applied>>, losses' \in 0..MaxLosses,
           \/ UNCHANGED shown
           \/ record # None /\ shown' = [shown EXCEPT ![e] = record],
           \/ UNCHANGED call
           \/ call' = [call EXCEPT ![e] = None]
           \/ \E change \in Changes:
                  /\ record # None /\ shown[e] # None
                  /\ call' = [call EXCEPT ![e] =
                         [change |-> change, seen |-> shown[e], answer |-> None]],
           stray' \subseteq stray \cup {call[f]: f \in {f \in Editors: call[f] # None}}
    PROVE  SettingsIndInv'
<1>1. \A row: Behind(row)' <=> Behind(row)
    BY DEF Behind, NotAhead
<1>2. record # None => record \in Rows /\ Behind(record)
    BY DEF SettingsIndInv, SettingsTypeOK, RecordBehind, Behind, Rows
<1>3. \A f \in Editors: shown'[f] # None => shown'[f] \in Rows /\ Behind(shown'[f])
    BY <1>2, Unfold DEF SettingsIndInv, SettingsTypeOK
<1>4. shown' \in [Editors -> Rows \cup {None}]
    BY <1>2 DEF SettingsIndInv, SettingsTypeOK
<1>5. /\ call' \in [Editors -> Calls \cup {None}]
      /\ \A f \in Editors: call'[f] # None =>
             \/ call[f] # None /\ call'[f] = call[f]
             \/ /\ record # None
                /\ call'[f].seen = shown[f] /\ shown[f] # None
                /\ call'[f].answer = None
  <2>1. CASE UNCHANGED call
      BY <2>1 DEF SettingsIndInv, SettingsTypeOK
  <2>2. CASE call' = [call EXCEPT ![e] = None]
      BY <2>2 DEF SettingsIndInv, SettingsTypeOK
  <2>3. CASE \E change \in Changes:
                  /\ record # None /\ shown[e] # None
                  /\ call' = [call EXCEPT ![e] =
                         [change |-> change, seen |-> shown[e], answer |-> None]]
    <3>1. PICK change \in Changes:
                  /\ record # None /\ shown[e] # None
                  /\ call' = [call EXCEPT ![e] =
                         [change |-> change, seen |-> shown[e], answer |-> None]]
        BY <2>3
    <3>2. [change |-> change, seen |-> shown[e], answer |-> None] \in Calls
        BY <3>1 DEF SettingsIndInv, SettingsTypeOK, Calls
    <3> QED
        BY <3>1, <3>2 DEF SettingsIndInv, SettingsTypeOK
  <2> QED
      BY <2>1, <2>2, <2>3
<1>6. stray' \subseteq Calls /\ \A c \in stray': Behind(c.seen)
    BY Unfold DEF SettingsIndInv, SettingsTypeOK
<1>7. SettingsTypeOK'
    BY <1>4, <1>5, <1>6 DEF SettingsIndInv, SettingsTypeOK
<1>8. PagesBehind'
  <2>1. \A f \in Editors: call'[f] # None => Behind(call'[f].seen)
      BY <1>5, Unfold DEF SettingsIndInv
  <2> QED
      BY <1>1, <1>3, <1>6, <2>1, UnfoldNext
<1>9. RecordBehind' /\ AppliedIsShown'
    BY DEF SettingsIndInv, RecordBehind, NotAhead, AppliedIsShown, Snapshot
<1>10. AnswersCurrent'
    BY <1>5 DEF SettingsIndInv, AnswersCurrent
<1>11. ServingPages'
  <2> SUFFICES ASSUME record = None PROVE \A f \in Editors: call'[f] = None
      BY DEF ServingPages
  <2> QED
      BY <1>5 DEF SettingsIndInv, ServingPages
<1> QED
    BY <1>7, <1>8, <1>9, <1>10, <1>11 DEF SettingsIndInv

\* The answer carries the row as it is, one change after the record.
LEMMA AnswerKeeps ==
    ASSUME SettingsIndInv, NEW e \in Editors, Answer(e)
    PROVE  SettingsIndInv'
<1>1. /\ call[e] \in Calls /\ record # None /\ call[e].answer = saved
      /\ saved \in Rows /\ record \in Rows
      /\ saved.version = record.version + 1
      /\ call[e].change.column = "actor" => saved.value = record.value
    BY DEF Answer, SettingsIndInv, SettingsTypeOK, AnswersCurrent
<1>2. /\ record' = saved /\ saved' = saved /\ stray' = stray /\ losses' = losses
      /\ applied' = IF call[e].change.column = "value" THEN Snapshot(saved) ELSE applied
      /\ shown' = [shown EXCEPT ![e] = saved]
      /\ call' = [call EXCEPT ![e] = None]
    BY <1>1 DEF Answer
<1>3. record' # None
    BY <1>1, <1>2 DEF Answer
<1>4. call[e].change.column \in {"value", "actor"}
    BY <1>1 DEF Calls, Changes
<1>5. applied' = Snapshot(saved)
    BY <1>1, <1>2, <1>4 DEF SettingsIndInv, AppliedIsShown, Snapshot
<1>6. Snapshot(saved) \in Values
    BY <1>1 DEF Snapshot, Rows
<1>7. SettingsTypeOK'
    BY <1>1, <1>2, <1>5, <1>6 DEF SettingsIndInv, SettingsTypeOK
<1>8. \A row \in Rows: Behind(row) => Behind(row)'
    BY <1>1, <1>2 DEF Behind, NotAhead, Rows
<1>9. Behind(saved)'
    BY <1>1, <1>2 DEF Behind, NotAhead, Rows
<1>10. PagesBehind'
  <2>1. \A f \in Editors: shown'[f] # None => Behind(shown[f])'
      BY <1>2, <1>8, <1>9, Unfold DEF SettingsIndInv, SettingsTypeOK
  <2>2. \A f \in Editors: call'[f] # None => Behind(call[f].seen)'
      BY <1>2, <1>8, Unfold DEF SettingsIndInv, SettingsTypeOK, Calls
  <2>3. \A c \in stray': Behind(c.seen)'
      BY <1>2, <1>8, Unfold DEF SettingsIndInv, SettingsTypeOK, Calls
  <2> QED
      BY <2>1, <2>2, <2>3, UnfoldNext
<1>11. RecordBehind' /\ AppliedIsShown'
    BY <1>1, <1>2, <1>5 DEF RecordBehind, NotAhead, AppliedIsShown, Snapshot, Rows
<1>12. \A f \in Editors: (call[f] # None /\ call[f].answer # None) => f = e
  <2> SUFFICES ASSUME NEW f \in Editors, call[f] # None, call[f].answer # None, f # e
               PROVE  FALSE
      OBVIOUS
  <2> QED
      BY DEF SettingsIndInv, AnswersCurrent, Answer
<1>13. AnswersCurrent'
    BY <1>2, <1>12 DEF SettingsIndInv, SettingsTypeOK, AnswersCurrent
<1>14. ServingPages'
    BY <1>2, <1>3 DEF ServingPages
<1> QED
    BY <1>7, <1>10, <1>11, <1>13, <1>14 DEF SettingsIndInv

LEMMA PageKeeps ==
    ASSUME SettingsIndInv, NEW e \in Editors,
           \/ Refuse(e) \/ Load(e) \/ Lose(e)
           \/ \E change \in Changes: Submit(e, change)
    PROVE  SettingsIndInv'
<1>1. losses \in 0..MaxLosses
    BY DEF SettingsIndInv, SettingsTypeOK
<1>2. CASE Refuse(e)
    BY <1>1, <1>2, PageStepKeeps DEF Refuse
<1>3. CASE Load(e)
    BY <1>1, <1>3, PageStepKeeps DEF Load
<1>4. CASE Lose(e)
  <2>1. losses' \in 0..MaxLosses
      BY <1>1, <1>4 DEF Lose
  <2>2. stray' \subseteq stray \cup {call[f]: f \in {f \in Editors: call[f] # None}}
      BY <1>4 DEF Lose
  <2> QED
      BY <1>4, <2>1, <2>2, PageStepKeeps DEF Lose
<1>5. CASE \E change \in Changes: Submit(e, change)
    BY <1>1, <1>5, PageStepKeeps DEF Submit
<1> QED
    BY <1>2, <1>3, <1>4, <1>5

\* A crash turns the calls under way into strays and forgets the answers.
LEMMA CrashKeeps ==
    ASSUME SettingsIndInv, Crash
    PROVE  SettingsIndInv'
<1>1. /\ record' = None /\ UNCHANGED <<saved, applied, shown>>
      /\ call' = [e \in Editors |-> None]
      /\ losses' \in 0..MaxLosses
    BY DEF Crash, SettingsIndInv, SettingsTypeOK
<1>2. \A row: Behind(row) => Behind(row)'
    BY <1>1 DEF Behind, NotAhead
<1>3. stray' \subseteq Calls /\ \A c \in stray': Behind(c.seen)
    BY Unfold DEF Crash, Waiting, SettingsIndInv, SettingsTypeOK
<1>4. SettingsTypeOK'
    BY <1>1, <1>3 DEF SettingsIndInv, SettingsTypeOK
<1>5. PagesBehind'
    BY <1>1, <1>2, <1>3, Unfold, UnfoldNext DEF SettingsIndInv
<1>6. RecordBehind' /\ AnswersCurrent' /\ ServingPages' /\ AppliedIsShown'
    BY <1>1 DEF RecordBehind, AnswersCurrent, ServingPages, AppliedIsShown
<1> QED
    BY <1>4, <1>5, <1>6 DEF SettingsIndInv

\* A restart takes over the row, which is ahead of everything known.
LEMMA RestartKeeps ==
    ASSUME SettingsIndInv, Restart
    PROVE  SettingsIndInv'
<1>1. /\ record = None /\ record' = saved /\ applied' = Snapshot(saved)
      /\ UNCHANGED <<saved, shown, call, stray, losses>>
    BY DEF Restart
<1>2. saved \in Rows /\ Snapshot(saved) \in Values
    BY DEF SettingsIndInv, SettingsTypeOK, Snapshot, Rows
<1>3. \A row: Behind(row) => Behind(row)'
    BY <1>1 DEF Behind, NotAhead
<1>4. SettingsTypeOK'
    BY <1>1, <1>2 DEF SettingsIndInv, SettingsTypeOK
<1>5. PagesBehind'
    BY <1>1, <1>3, Unfold, UnfoldNext DEF SettingsIndInv
<1>6. \A e \in Editors: call[e] = None
    BY <1>1 DEF SettingsIndInv, ServingPages
<1>7. RecordBehind' /\ AppliedIsShown'
    BY <1>1, <1>2 DEF RecordBehind, NotAhead, AppliedIsShown, Snapshot, Rows
<1>8. AnswersCurrent' /\ ServingPages'
    BY <1>1, <1>6 DEF AnswersCurrent, ServingPages
<1> QED
    BY <1>4, <1>5, <1>7, <1>8 DEF SettingsIndInv

\* Provisioning outruns the record by two versions, when no call knows a row.
LEMMA ProvisionKeeps ==
    ASSUME SettingsIndInv, NEW value \in Values, NEW actor \in Users,
           Provision(value, actor)
    PROVE  SettingsIndInv'
<1>1. /\ saved.version = 0 /\ saved'.version = 2 /\ saved' \in Rows
      /\ UNCHANGED <<record, applied, shown, call, stray, losses>>
    BY DEF Provision, Rows
<1>2. /\ \A e \in Editors: shown[e] = None /\ call[e] = None
      /\ stray = {}
    BY DEF Provision, KnownRows
<1>3. SettingsTypeOK'
    BY <1>1 DEF SettingsIndInv, SettingsTypeOK
<1>4. PagesBehind'
    BY <1>1, <1>2, UnfoldNext
<1>5. RecordBehind'
    BY <1>1 DEF SettingsIndInv, SettingsTypeOK, RecordBehind, NotAhead, Rows
<1>6. AnswersCurrent' /\ ServingPages'
    BY <1>1, <1>2 DEF AnswersCurrent, ServingPages
<1>7. AppliedIsShown'
    BY <1>1 DEF SettingsIndInv, AppliedIsShown, Snapshot
<1> QED
    BY <1>3, <1>4, <1>5, <1>6, <1>7 DEF SettingsIndInv

LEMMA StepKeeps == SettingsIndInv /\ [SettingsNext]_settingsVars => SettingsIndInv'
<1> SUFFICES ASSUME SettingsIndInv, [SettingsNext]_settingsVars PROVE SettingsIndInv'
    OBVIOUS
<1>1. CASE \E e \in Editors: Commit(e)
    BY <1>1, CommitKeeps
<1>2. CASE \E e \in Editors: Answer(e)
    BY <1>2, AnswerKeeps
<1>3. CASE \E e \in Editors: \/ Refuse(e) \/ Load(e) \/ Lose(e)
                             \/ \E change \in Changes: Submit(e, change)
    BY <1>3, PageKeeps
<1>4. CASE \E c \in stray: StrayRuns(c)
    BY <1>4, StrayRunsKeeps
<1>5. CASE Crash
    BY <1>5, CrashKeeps
<1>6. CASE Restart
    BY <1>6, RestartKeeps
<1>7. CASE \E value \in Values, actor \in Users: Provision(value, actor)
    BY <1>7, ProvisionKeeps
<1>8. CASE UNCHANGED settingsVars
  <2>1. UNCHANGED <<saved, record, applied, shown, call, stray, losses>>
      BY <1>8 DEF settingsVars
  <2>2. SettingsTypeOK'
      BY <2>1 DEF SettingsIndInv, SettingsTypeOK
  <2>3. PagesBehind'
      BY <2>1, Unfold, UnfoldNext DEF SettingsIndInv, Behind, NotAhead
  <2>4. RecordBehind' /\ AnswersCurrent' /\ ServingPages' /\ AppliedIsShown'
      BY <2>1 DEF SettingsIndInv, RecordBehind, NotAhead, AnswersCurrent,
         ServingPages, AppliedIsShown, Snapshot
  <2> QED
      BY <2>2, <2>3, <2>4 DEF SettingsIndInv
<1> QED
    BY <1>1, <1>2, <1>3, <1>4, <1>5, <1>6, <1>7, <1>8 DEF SettingsNext

-----------------------------------------------------------------------------
(* The theorems.                                                           *)

\* The inductive invariant of the settings row, the service's record, the
\* applied snapshot and everything pages and calls know.
THEOREM Invariance == SettingsSpec => []SettingsIndInv
<1>1. SettingsInit => SettingsIndInv
    BY InitEstablishes
<1>2. SettingsIndInv /\ [SettingsNext]_settingsVars => SettingsIndInv'
    BY StepKeeps
<1> QED
    BY <1>1, <1>2, PTL DEF SettingsSpec

\* Row, record, pages and calls only ever hold values of their types.
THEOREM TypeCorrect == SettingsSpec => []SettingsTypeOK
<1>1. SettingsIndInv => SettingsTypeOK
    BY DEF SettingsIndInv
<1> QED
    BY <1>1, Invariance, PTL

\* The process runs on the settings its pages show.
THEOREM Applied == SettingsSpec => []AppliedIsShown
<1>1. SettingsIndInv => AppliedIsShown
    BY DEF SettingsIndInv
<1> QED
    BY <1>1, Invariance, PTL

\* Once a page was opened an edit never overwrites a row its page did not show,
\* however pages, lost
\* calls and restarts interleave.
THEOREM NoLostUpdate == SettingsSpec => EditsBuildOnSeen
<1> DEFINE BuildsOnSeen ==
        saved' # saved /\ KnownRows # {} =>
                          \E c \in Waiting \cup stray:
                              c.seen = saved /\ saved' = Written(c)
<1>1. SettingsIndInv /\ [SettingsNext]_settingsVars => [BuildsOnSeen]_settingsVars
  <2> SUFFICES ASSUME SettingsIndInv, SettingsNext, saved' # saved, KnownRows # {}
               PROVE  \E c \in Waiting \cup stray:
                          c.seen = saved /\ saved' = Written(c)
      OBVIOUS
  <2>1. CASE \E e \in Editors: Commit(e)
    <3>1. PICK e \in Editors: Commit(e)
        BY <2>1
    <3>2. call[e] \in Calls /\ Behind(call[e].seen) /\ Accepted(call[e])
        BY <3>1, Unfold DEF Commit, SettingsIndInv, SettingsTypeOK
    <3>3. call[e].seen = saved
        BY <3>2, AcceptedFirst
    <3> QED
        BY <3>1, <3>3 DEF Commit, Waiting
  <2>2. CASE \E c \in stray: StrayRuns(c)
    <3>1. PICK c \in stray: StrayRuns(c)
        BY <2>2
    <3>2. c \in Calls /\ Behind(c.seen)
        BY Unfold DEF SettingsIndInv, SettingsTypeOK
    <3>3. Accepted(c) /\ saved' = Written(c)
        BY <3>1 DEF StrayRuns
    <3>4. c.seen = saved
        BY <3>2, <3>3, AcceptedFirst
    <3> QED
        BY <3>3, <3>4
  <2> QED
      BY <2>1, <2>2 DEF SettingsNext, Provision, Refuse, Load, Answer, Lose, Submit,
         Crash, Restart
<1> QED
    BY <1>1, Invariance, PTL DEF SettingsSpec, EditsBuildOnSeen

\* A running service never goes back to an older row.
THEOREM NeverBack == SettingsSpec => NeverRegresses
<1> DEFINE Onward ==
        (record # None /\ record' # None) => record'.version >= record.version
<1>1. SettingsIndInv /\ [SettingsNext]_settingsVars => [Onward]_settingsVars
  <2> SUFFICES ASSUME SettingsIndInv, SettingsNext, record # None, record' # None
               PROVE  record'.version >= record.version
      OBVIOUS
  <2>1. record \in Rows /\ record.version \in Nat
      BY DEF SettingsIndInv, SettingsTypeOK, Rows
  <2>2. CASE \E e \in Editors: Answer(e)
    <3>1. PICK e \in Editors: Answer(e)
        BY <2>2
    <3>2. record' = saved /\ saved.version = record.version + 1
        BY <3>1 DEF Answer, SettingsIndInv, AnswersCurrent
    <3> QED
        BY <2>1, <3>2
  <2>3. CASE UNCHANGED record
      BY <2>1, <2>3
  <2> QED
      BY <2>2, <2>3 DEF SettingsNext, Commit, Refuse, Load, Lose, Submit, StrayRuns,
         Provision, Crash, Restart
<1> QED
    BY <1>1, Invariance, PTL DEF SettingsSpec, NeverRegresses

HIDE SettingsAssumption

-----------------------------------------------------------------------------
(* The imports that create tasks *)

\* The parts of a request and of its batch.
LEMMA ImportParts ==
    ASSUME IngestionTyped, NEW b \in Batches, import[b] # Unknown
    PROVE  /\ import[b] \in ImportRecords /\ import[b].rows \in Seq(RowInputs)
           /\ import[b].results \in Seq(ResultRecords)
           /\ import[b].row \in Nat /\ import[b].step \in Working \cup {"complete", "answer"}
           /\ Len(import[b].rows) \in Nat /\ Len(import[b].results) \in Nat
<1>1. import[b] \in ImportRecords
    BY DEF IngestionTyped, Unknown
<1>2. import[b].rows \in Seq(RowInputs) /\ import[b].results \in Seq(ResultRecords)
      /\ import[b].row \in Nat /\ import[b].step \in Working \cup {"complete", "answer"}
    BY <1>1 DEF ImportRecords
<1> QED BY <1>1, <1>2

\* The request moves on within its row: nothing else of it changes.
LEMMA GoesParts ==
    ASSUME IngestionTyped, NEW b \in Batches, import[b] # Unknown,
           NEW step \in Working \cup {"complete", "answer"}, Goes(b, step)
    PROVE  /\ import' \in [Batches -> ImportRecords \cup {Unknown}]
           /\ import'[b].step = step /\ import'[b].rows = import[b].rows
           /\ import'[b].row = import[b].row /\ import'[b].results = import[b].results
           /\ \A c \in Batches: c # b => import'[c] = import[c]
<1> DEFINE m == [import[b] EXCEPT !.step = step]
<1>1. import \in [Batches -> ImportRecords \cup {Unknown}] /\ import' = [import EXCEPT ![b] = m]
    BY DEF IngestionTyped, Goes
<1>2. /\ m \in ImportRecords /\ m.step = step /\ m.rows = import[b].rows /\ m.row = import[b].row
      /\ m.results = import[b].results
    BY ImportParts DEF ImportRecords
<1> HIDE DEF m
<1> QED BY <1>1, <1>2

\* A row gets its result, and those of the rows before it stay.
LEMMA ConcludesParts ==
    ASSUME IngestionTyped, InOrder, NEW b \in Batches, import[b] # Unknown, import[b].step \in Working,
           NEW status \in {"CREATED", "VALID", "DUPLICATE", "FAILED"},
           NEW task \in TaskRecords \cup {Unknown}, Concludes(b, status, task)
    PROVE  /\ import' \in [Batches -> ImportRecords \cup {Unknown}]
           /\ \A c \in Batches: c # b => import'[c] = import[c]
           /\ import'[b].rows = import[b].rows
           /\ Len(import'[b].results) = import[b].row
           /\ \A i \in 1..Len(import[b].results): import'[b].results[i] = import[b].results[i]
           /\ import'[b].results[import[b].row] = [status |-> status, task |-> task]
           /\ import'[b].step \in {"look up", "complete"}
           /\ IF import'[b].step = "look up"
                THEN import'[b].row = import[b].row + 1 /\ import[b].row < Len(import[b].rows)
                ELSE import[b].row = Len(import[b].rows)
<1> DEFINE last == import[b].row = Len(import[b].rows)
           result == [status |-> status, task |-> task]
           results == Append(import[b].results, result)
           row == IF last THEN import[b].row ELSE import[b].row + 1
           step == IF last THEN "complete" ELSE "look up"
           m == [import[b] EXCEPT !.results = results, !.row = row, !.step = step]
<1>1. import \in [Batches -> ImportRecords \cup {Unknown}] /\ import' = [import EXCEPT ![b] = m]
    BY DEF IngestionTyped, Concludes
<1>2. /\ import[b].row \in 1..Len(import[b].rows) /\ Len(import[b].results) = import[b].row - 1
      /\ import[b] \in ImportRecords /\ import[b].results \in Seq(ResultRecords)
      /\ import[b].row \in Nat /\ Len(import[b].rows) \in Nat
    BY ImportParts DEF InOrder, OrderOf
<1>3. result \in ResultRecords
    BY DEF ResultRecords
<1>4. /\ results \in Seq(ResultRecords) /\ Len(results) = Len(import[b].results) + 1
      /\ \A i \in 1..Len(import[b].results): results[i] = import[b].results[i]
      /\ results[Len(import[b].results) + 1] = result
    BY <1>2, <1>3
<1>5. /\ row \in Nat /\ step \in Working \cup {"complete", "answer"} /\ step \in {"look up", "complete"}
      /\ IF step = "look up" THEN row = import[b].row + 1 /\ import[b].row < Len(import[b].rows)
         ELSE import[b].row = Len(import[b].rows)
    <2>1. CASE import[b].row = Len(import[b].rows)
        <3>1. row = import[b].row /\ step = "complete"
            BY <2>1
        <3> QED BY <1>2, <2>1, <3>1
    <2>2. CASE import[b].row # Len(import[b].rows)
        <3>1. row = import[b].row + 1 /\ step = "look up"
            BY <2>2
        <3> HIDE DEF row, step
        <3>2. import[b].row < Len(import[b].rows)
            <4> DEFINE n == Len(import[b].rows)
                       r == import[b].row
            <4>1. r \in 1..n /\ n \in Nat /\ r # n
                BY <1>2, <2>2
            <4> HIDE DEF n, r
            <4>2. r < n
                BY <4>1
            <4> QED BY <4>2 DEF n, r
        <3>3. row \in Nat
            <4>1. import[b].row + 1 \in Nat
                BY <1>2
            <4> QED BY <3>1, <4>1
        <3>4. step \in Working \cup {"complete", "answer"} /\ step \in {"look up", "complete"}
            BY <3>1 DEF Working
        <3> QED BY <3>1, <3>2, <3>3, <3>4
    <2> QED BY <2>1, <2>2
<1> HIDE DEF result, results, row, step
<1>6. m \in ImportRecords /\ m.rows = import[b].rows /\ m.results = results /\ m.row = row /\ m.step = step
    BY <1>2, <1>4, <1>5 DEF ImportRecords
<1> HIDE DEF m
<1>7. import'[b] = m /\ import' \in [Batches -> ImportRecords \cup {Unknown}]
      /\ \A c \in Batches: c # b => import'[c] = import[c]
    BY <1>1, <1>6
<1>8. Len(results) = import[b].row /\ results[import[b].row] = result
    BY <1>2, <1>4
<1> QED BY <1>4, <1>5, <1>6, <1>7, <1>8 DEF result

\* A task that is taken into the table is the first of its reference, and of its row.
LEMMA InsertedFits ==
    ASSUME IngestionIndInv, NEW b \in Batches, At(b, "insert"), TaskInserted(b)
    PROVE  /\ imported' = imported \cup {TaskOf(b)} /\ TaskOf(b) \in TaskRecords
           /\ TaskOf(b).batch = b /\ TaskOf(b).row = import[b].row
           /\ \A t, u \in imported': t.batch = u.batch /\ t.row = u.row => t = u
           /\ \A t, u \in imported':
                  t.reference # NoReference /\ t.origin = u.origin /\ t.reference = u.reference => t = u
<1>1. /\ import[b] # Unknown /\ import[b].step = "insert" /\ batch[b] # Unknown
      /\ import[b].row \in 1..Len(import[b].rows) /\ Len(import[b].results) = import[b].row - 1
    BY DEF At, IngestionIndInv, InOrder, OrderOf, Working
<1>2. import[b].rows \in Seq(RowInputs) /\ import[b].row \in Nat /\ batch[b] \in BatchRecords
    BY <1>1, ImportParts DEF IngestionIndInv, IngestionTyped, Unknown
<1>3. import[b].rows[import[b].row] \in RowInputs /\ batch[b].origin \in Origins
    BY <1>1, <1>2 DEF BatchRecords
<1> DEFINE new == TaskOf(b)
<1>4. /\ new \in TaskRecords /\ new.batch = b /\ new.row = import[b].row
    BY <1>2, <1>3 DEF TaskOf, TaskRecords
<1> HIDE DEF new
<1>5. imported' = imported \cup {new}
    BY DEF TaskInserted, new
<1>6. \A t \in imported: t.reference # NoReference /\ t.origin = new.origin => t.reference # new.reference
    BY DEF TaskInserted, Taken, Known, new
<1>7. \A t \in imported: t.batch = b => t.row # import[b].row
    <2> SUFFICES ASSUME NEW t \in imported, t.batch = b PROVE t.row # import[b].row
      OBVIOUS
    <2>1. t.row \in 1..Len(import[b].results)
      BY <1>1 DEF IngestionIndInv, TasksPlaced, Placed
    <2> QED BY <1>1, <1>2, <2>1
<1>8. \A t, u \in imported': t.batch = u.batch /\ t.row = u.row => t = u
    BY <1>4, <1>5, <1>7 DEF IngestionIndInv, TasksPlaced, OncePerRow
<1>9. \A t, u \in imported':
          t.reference # NoReference /\ t.origin = u.origin /\ t.reference = u.reference => t = u
    BY <1>4, <1>5, <1>6 DEF IngestionIndInv, OncePerReference
<1> QED BY <1>4, <1>5, <1>8, <1>9 DEF new

\* A step of one request leaves the others, their batches and their tasks as they are.
LEMMA StepKept ==
    ASSUME IngestionIndInv, NEW b \in Batches, IngestionTyped',
           \A c \in Batches: c # b => import'[c] = import[c] /\ batch'[c] = batch[c] /\ answer'[c] = answer[c],
           imported \subseteq imported', \A t \in imported': t \in imported \/ t.batch = b,
           OrderOf(b)', ResultsOf(b)', CountsOf(b)', OncePerRow', OncePerReference',
           \A t \in imported': t.batch = b => Placed(t)'
    PROVE  IngestionIndInv'
<1>1. ASSUME NEW c \in Batches, c # b
      PROVE  OrderOf(c)' /\ ResultsOf(c)' /\ CountsOf(c)'
    <2>1. import'[c] = import[c] /\ batch'[c] = batch[c] /\ answer'[c] = answer[c]
        BY <1>1
    <2>2. OrderOf(c)'
        BY <2>1 DEF OrderOf, TaskOf, IngestionIndInv, InOrder
    <2>3. ResultsOf(c)'
        <3>1. ResultsOf(c)
            BY DEF IngestionIndInv, ResultsTrue
        <3>2. ASSUME import[c] # Unknown, NEW i \in 1..Len(import[c].results)
              PROVE  /\ ResultTrue(c, import[c].rows, import[c].results, i)'
                     /\ import[c].results[i].task \in imported' \cup {Unknown}
            BY <2>1, <3>1, <3>2 DEF ResultsOf, ResultTrue
        <3>3. ASSUME answer[c] # Unknown, NEW i \in 1..Len(answer[c].results)
              PROVE  ResultTrue(c, answer[c].rows, answer[c].results, i)'
            <4>1. ResultTrue(c, answer[c].rows, answer[c].results, i)
                BY <3>1, <3>3 DEF ResultsOf
            <4> QED BY <2>1, <4>1 DEF ResultTrue
        <3>4. answer[c] # Unknown => batch[c] # Unknown
            BY <3>1 DEF ResultsOf
        <3> QED BY <2>1, <3>2, <3>3, <3>4 DEF ResultsOf
    <2>4. {t \in imported': t.batch = c} = {t \in imported: t.batch = c}
        BY <1>1
    <2>5. CountsOf(c)'
        BY <2>1, <2>4 DEF CountsOf, IngestionIndInv, CountsHold
    <2> QED BY <2>2, <2>3, <2>5
<1>2. ASSUME NEW t \in imported', t.batch # b
      PROVE  Placed(t)'
    <2>1. t \in imported /\ t.batch \in Batches
        BY <1>2 DEF IngestionIndInv, IngestionTyped, TaskRecords
    <2>2. Placed(t)
        BY <2>1 DEF IngestionIndInv, TasksPlaced
    <2> QED BY <1>2, <2>1, <2>2 DEF Placed
<1>3. InOrder' /\ ResultsTrue' /\ CountsHold'
    BY <1>1 DEF InOrder, ResultsTrue, CountsHold
<1>4. TasksPlaced'
    BY <1>2 DEF TasksPlaced
<1> QED BY <1>3, <1>4 DEF IngestionIndInv

\* A row that ends, with a result that is true, keeps what holds of its batch.
LEMMA ConcludesKept ==
    ASSUME IngestionIndInv, NEW b \in Batches, import[b] # Unknown, import[b].step \in Working,
           NEW status \in {"CREATED", "VALID", "DUPLICATE", "FAILED"},
           NEW task \in imported \cup {Unknown}, Concludes(b, status, task),
           UNCHANGED <<batch, answer>>, ingestFaults' \in 0..MaxIngestFaults,
           imported \subseteq imported', imported' \subseteq TaskRecords,
           OncePerRow', OncePerReference', ~batch[b].dry \/ imported' = imported,
           \A t \in imported': t \in imported \/ (t.batch = b /\ t.row = import[b].row),
           \A t \in imported': t.batch = b /\ t.row = import[b].row => status \in {"CREATED", "FAILED"},
           status \in {"CREATED", "DUPLICATE"} =>
               /\ task \in imported /\ task.origin = batch[b].origin
               /\ task.reference = import[b].rows[import[b].row],
           status = "CREATED" => task.batch = b /\ task.row = import[b].row
    PROVE  IngestionIndInv'
<1>1. IngestionTyped /\ InOrder /\ OrderOf(b) /\ ResultsOf(b) /\ CountsOf(b)
    BY DEF IngestionIndInv, InOrder, ResultsTrue, CountsHold
<1>2. task \in TaskRecords \cup {Unknown}
    BY <1>1 DEF IngestionTyped
<1>parts. /\ import' \in [Batches -> ImportRecords \cup {Unknown}]
          /\ \A c \in Batches: c # b => import'[c] = import[c]
          /\ import'[b].rows = import[b].rows
          /\ Len(import'[b].results) = import[b].row
          /\ \A i \in 1..Len(import[b].results): import'[b].results[i] = import[b].results[i]
          /\ import'[b].results[import[b].row] = [status |-> status, task |-> task]
          /\ import'[b].step \in {"look up", "complete"}
          /\ IF import'[b].step = "look up"
               THEN import'[b].row = import[b].row + 1 /\ import[b].row < Len(import[b].rows)
               ELSE import[b].row = Len(import[b].rows)
    BY <1>1, <1>2, ConcludesParts
<1> DEFINE row == import[b].row
           rows == import[b].rows
           before == import[b].results
           m == import'[b]
<1>3. /\ import' \in [Batches -> ImportRecords \cup {Unknown}]
      /\ \A c \in Batches: c # b => import'[c] = import[c]
      /\ m.rows = rows /\ Len(m.results) = row
      /\ \A i \in 1..Len(before): m.results[i] = before[i]
      /\ m.results[row] = [status |-> status, task |-> task]
      /\ m.step \in {"look up", "complete"}
      /\ IF m.step = "look up" THEN m.row = row + 1 /\ row < Len(rows) ELSE row = Len(rows)
    BY <1>parts
<1>4. /\ batch[b] # Unknown /\ answer[b] = Unknown /\ batch[b].status = "PROCESSING"
      /\ row \in 1..Len(rows) /\ Len(before) = row - 1
      /\ row \in Nat /\ Len(rows) \in Nat
    BY <1>1, ImportParts DEF OrderOf, Working
<1> DEFINE told == [status |-> status, task |-> task]
<1>told. told.status = status /\ told.task = task
    OBVIOUS
<1>last. m.results[row] = told
    BY <1>3
<1> HIDE DEF told
<1>5. \A i \in 1..row: i \in 1..Len(before) \/ i = row
    BY <1>4
<1> HIDE DEF row, rows, before, m
<1>6. IngestionTyped'
    BY <1>1, <1>3 DEF IngestionTyped
<1>7. OrderOf(b)'
    <2>1. IF m.step \in Working THEN m.row \in 1..Len(m.rows) /\ Len(m.results) = m.row - 1
          ELSE Len(m.results) = Len(m.rows)
        <3>1. CASE m.step = "look up"
            <4>1. m.row = row + 1 /\ row < Len(rows) /\ m.rows = rows /\ Len(m.results) = row
                BY <1>3, <3>1
            <4>2. m.row \in 1..Len(m.rows) /\ Len(m.results) = m.row - 1
                BY <1>4, <4>1
            <4> QED BY <3>1, <4>2 DEF Working
        <3>2. CASE m.step = "complete"
            BY <1>3, <3>2 DEF Working
        <3> QED BY <1>3, <3>1, <3>2
    <2> QED BY <1>3, <1>4, <2>1 DEF OrderOf, m
<1>8. ASSUME NEW t \in imported', t.batch = b
      PROVE  Placed(t)'
    <2>1. batch[b] # Unknown /\ ~batch[b].dry
        <3>1. CASE t \in imported
            BY <1>8, <3>1 DEF IngestionIndInv, TasksPlaced, Placed
        <3>2. CASE t \notin imported
            BY <1>4, <3>2
        <3> QED BY <3>1, <3>2
    <2>2. t.row \in 1..row /\ m.results[t.row].status \in {"CREATED", "FAILED"}
        <3>1. CASE t.row = row
            <4>1. status \in {"CREATED", "FAILED"}
                BY <1>8, <3>1 DEF row
            <4>2. row \in 1..row
                BY <1>4
            <4> QED BY <1>told, <1>last, <3>1, <4>1, <4>2
        <3>2. CASE t.row # row
            <4>1. t \in imported
                BY <1>8, <3>2 DEF row
            <4>2. t.row \in 1..Len(before) /\ before[t.row].status \in {"CREATED", "FAILED"}
                BY <1>8, <3>2, <4>1 DEF IngestionIndInv, TasksPlaced, Placed, row, before
            <4>3. t.row \in 1..row
                BY <1>4, <4>2
            <4> QED BY <1>3, <4>2, <4>3
        <3> QED BY <3>1, <3>2
    <2> QED BY <1>3, <1>8, <2>1, <2>2 DEF Placed, m
<1>9. ResultsOf(b)'
    <2>1. ASSUME NEW i \in 1..row
          PROVE  /\ ResultTrue(b, import[b].rows, import[b].results, i)'
                 /\ import'[b].results[i].task \in imported' \cup {Unknown}
        <3>1. CASE i \in 1..Len(before)
            <4>1. ResultTrue(b, rows, before, i) /\ before[i].task \in imported \cup {Unknown}
                BY <1>1, <3>1 DEF ResultsOf, rows, before
            <4>2. m.results[i] = before[i]
                BY <1>3, <3>1
            <4>3. before[i].task \in imported' \cup {Unknown} /\ m.rows = rows
                BY <1>3, <4>1
            <4> QED BY <4>1, <4>2, <4>3 DEF ResultTrue, m
        <3>2. CASE i = row
            <4>1. m.results[i].status = status /\ m.results[i].task = task /\ m.rows = rows
                BY <1>3, <1>told, <1>last, <3>2
            <4>2. /\ status \in {"CREATED", "DUPLICATE"} =>
                      /\ task \in imported' /\ task.origin = batch'[b].origin
                      /\ task.reference = rows[i]
                  /\ status = "CREATED" => task.batch = b /\ task.row = i
                BY <3>2 DEF row, rows
            <4>3. task \in imported' \cup {Unknown}
                OBVIOUS
            <4> HIDE DEF m
            <4>4. ResultTrue(b, import[b].rows, import[b].results, i)'
                BY <4>1, <4>2 DEF ResultTrue, m
            <4>5. m.results[i].task \in imported' \cup {Unknown}
                BY <4>1, <4>3
            <4> QED BY <4>4, <4>5 DEF m
        <3> QED BY <1>5, <3>1, <3>2
    <2>2. Len(import'[b].results) = row /\ answer'[b] = Unknown
        BY <1>3, <1>4 DEF m
    <2> QED BY <2>1, <2>2 DEF ResultsOf
<1>10. CountsOf(b)'
    BY <1>4 DEF CountsOf
<1> QED BY <1>3, <1>6, <1>7, <1>8, <1>9, <1>10, StepKept DEF m, row

\* Until it has been inserted, the row under way has no task.
LEMMA NoTaskYet ==
    ASSUME IngestionIndInv, NEW b \in Batches, NEW t \in imported, t.batch = b,
           import[b] # Unknown, import[b].step \in Working, import[b].step # "audit"
    PROVE  t.row # import[b].row
<1> DEFINE row == import[b].row
<1>1. OrderOf(b) /\ Placed(t) /\ row \in Nat
    BY ImportParts DEF IngestionIndInv, InOrder, TasksPlaced
<1>2. t.row \in 1..Len(import[b].results)
    BY <1>1 DEF Placed
<1>3. t.row \in 1..(row - 1) /\ row \in Nat
    BY <1>1, <1>2 DEF OrderOf
<1> HIDE DEF row
<1>4. t.row # row
    BY <1>3
<1> QED BY <1>4 DEF row

\* What a row has found is the record of a task, and a row under way has its batch.
LEMMA RowParts ==
    ASSUME IngestionIndInv, NEW b \in Batches, NEW step \in Working, At(b, step)
    PROVE  /\ import[b] # Unknown /\ import[b].step = step /\ import[b].step \in Working
           /\ batch[b] # Unknown /\ batch[b].status = "PROCESSING" /\ answer[b] = Unknown
           /\ step \in {"insert", "look again", "audit"} => ~batch[b].dry
           /\ step = "audit" => TaskOf(b) \in imported
           /\ TaskOf(b).batch = b /\ TaskOf(b).row = import[b].row
           /\ TaskOf(b).origin = batch[b].origin /\ TaskOf(b).reference = import[b].rows[import[b].row]
           /\ step # "audit" => \A t \in imported: t.batch = b => t.row # import[b].row
           /\ ingestFaults \in 0..MaxIngestFaults /\ imported \subseteq TaskRecords
           /\ OncePerRow /\ OncePerReference
<1>1. import[b] # Unknown /\ import[b].step = step /\ OrderOf(b) /\ IngestionTyped
    BY DEF At, IngestionIndInv, InOrder
<1>2. /\ batch[b] # Unknown /\ batch[b].status = "PROCESSING" /\ answer[b] = Unknown
      /\ import[b].row \in 1..Len(import[b].rows) /\ Len(import[b].results) = import[b].row - 1
      /\ step \in {"insert", "look again", "audit"} => ~batch[b].dry
      /\ step = "audit" => TaskOf(b) \in imported
    BY <1>1 DEF OrderOf, Working
<1>3. import[b].row \in Nat
    BY <1>1, ImportParts
<1>4. ASSUME step # "audit", NEW t \in imported, t.batch = b
      PROVE  t.row # import[b].row
    BY <1>1, <1>4, NoTaskYet
<1>5. /\ TaskOf(b).batch = b /\ TaskOf(b).row = import[b].row
      /\ TaskOf(b).origin = batch[b].origin /\ TaskOf(b).reference = import[b].rows[import[b].row]
    BY DEF TaskOf
<1> QED BY <1>1, <1>2, <1>4, <1>5 DEF IngestionIndInv, IngestionTyped, TasksPlaced

\* A row that ends and makes no task of its own.
LEMMA EndsKept ==
    ASSUME IngestionIndInv, NEW b \in Batches, NEW step \in Working, At(b, step),
           NEW status \in {"CREATED", "VALID", "DUPLICATE", "FAILED"},
           NEW task \in imported \cup {Unknown}, Concludes(b, status, task),
           UNCHANGED <<imported, batch, answer>>, ingestFaults' \in 0..MaxIngestFaults,
           step # "audit" \/ status \in {"CREATED", "FAILED"},
           status \in {"CREATED", "DUPLICATE"} =>
               /\ task \in imported /\ task.origin = batch[b].origin
               /\ task.reference = import[b].rows[import[b].row],
           status = "CREATED" => task.batch = b /\ task.row = import[b].row
    PROVE  IngestionIndInv'
<1>0. /\ import[b] # Unknown /\ import[b].step \in Working
      /\ imported \subseteq TaskRecords /\ OncePerRow /\ OncePerReference
    BY DEF At, IngestionIndInv, IngestionTyped, TasksPlaced
<1>1. ASSUME step # "audit", NEW t \in imported, t.batch = b
      PROVE  t.row # import[b].row
    BY <1>0, <1>1, NoTaskYet DEF At
<1>2. imported' = imported /\ OncePerRow' /\ OncePerReference'
    BY <1>0 DEF OncePerRow, OncePerReference
<1>3. \A t \in imported': t.batch = b /\ t.row = import[b].row => status \in {"CREATED", "FAILED"}
    BY <1>1, <1>2
<1>4. /\ imported \subseteq imported' /\ imported' \subseteq TaskRecords
      /\ ~batch[b].dry \/ imported' = imported
      /\ \A t \in imported': t \in imported \/ (t.batch = b /\ t.row = import[b].row)
    BY <1>0, <1>2
<1> QED BY <1>0, <1>1, <1>2, <1>3, <1>4, ConcludesKept

\* A row that is looked at, and what is known of it, end it rightly.
LEMMA RowSteps ==
    ASSUME IngestionIndInv, NEW b \in Batches, Reject(b) \/ Duplicate(b) \/ Audit(b)
    PROVE  IngestionIndInv'
<1>0. ingestFaults \in 0..MaxIngestFaults
    BY DEF IngestionIndInv, IngestionTyped
<1>1. CASE Reject(b)
    <2>1. At(b, "look up") /\ Concludes(b, "FAILED", Unknown)
          /\ UNCHANGED <<imported, batch, answer, ingestFaults>>
        BY <1>1 DEF Reject
    <2> QED BY <1>0, <2>1, EndsKept DEF Working
<1>2. CASE Duplicate(b)
    <2>1. PICK t \in Known(TaskOf(b).origin, TaskOf(b).reference): Concludes(b, "DUPLICATE", t)
        BY <1>2 DEF Duplicate
    <2>2. PICK step \in Working: At(b, step) /\ step # "audit"
        BY <1>2 DEF Duplicate, Working
    <2>3. /\ t \in imported /\ t.origin = batch[b].origin
          /\ t.reference = import[b].rows[import[b].row]
        BY <2>1 DEF Known, TaskOf
    <2>4. UNCHANGED <<imported, batch, answer, ingestFaults>>
        BY <1>2 DEF Duplicate
    <2> QED BY <1>0, <2>1, <2>2, <2>3, <2>4, EndsKept
<1>3. CASE Audit(b)
    <2>1. At(b, "audit") /\ Concludes(b, "CREATED", TaskOf(b))
          /\ UNCHANGED <<imported, batch, answer, ingestFaults>>
        BY <1>3 DEF Audit
    <2> DEFINE new == TaskOf(b)
    <2>2. /\ new \in imported /\ new.batch = b /\ new.row = import[b].row
          /\ new.origin = batch[b].origin /\ new.reference = import[b].rows[import[b].row]
        BY <2>1, RowParts DEF Working
    <2> HIDE DEF new
    <2>3. Concludes(b, "CREATED", new)
        BY <2>1 DEF new
    <2> QED BY <1>0, <2>1, <2>2, <2>3, EndsKept DEF Working
<1> QED BY <1>1, <1>2, <1>3

\* A row whose request fails has failed, with the task it may have made.
LEMMA FailedRowKept ==
    ASSUME IngestionIndInv, NEW b \in Batches, RowFails(b)
    PROVE  IngestionIndInv'
<1>1. Concludes(b, "FAILED", Unknown) /\ UNCHANGED <<batch, answer>> /\ Faulty
    BY DEF RowFails
<1>2. ingestFaults' \in 0..MaxIngestFaults
    BY <1>1, IngestionAssumption DEF Faulty, IngestionIndInv, IngestionTyped
<1>3. ASSUME NEW step \in Working, At(b, step), UNCHANGED imported
      PROVE  IngestionIndInv'
    BY <1>1, <1>2, <1>3, EndsKept
<1>4. CASE At(b, "insert") /\ TaskInserted(b)
    <2> DEFINE new == TaskOf(b)
    <2>1. /\ imported' = imported \cup {new} /\ new \in TaskRecords
          /\ new.batch = b /\ new.row = import[b].row
          /\ OncePerRow' /\ OncePerReference'
        BY <1>4, InsertedFits DEF OncePerRow, OncePerReference
    <2> HIDE DEF new
    <2>2. ~batch[b].dry /\ import[b] # Unknown /\ import[b].step \in Working
          /\ imported \subseteq TaskRecords
        BY <1>4, RowParts DEF Working
    <2>3. /\ imported \subseteq imported' /\ imported' \subseteq TaskRecords
          /\ \A t \in imported': t \in imported \/ (t.batch = b /\ t.row = import[b].row)
        BY <2>1, <2>2
    <2> QED BY <1>1, <1>2, <2>1, <2>2, <2>3, ConcludesKept
<1>5. \/ \E step \in Working: At(b, step) /\ UNCHANGED imported
      \/ At(b, "insert") /\ TaskInserted(b)
    BY DEF RowFails, Working
<1> QED BY <1>3, <1>4, <1>5

\* A row goes from one of its requests to the next.
LEMMA GoesKept ==
    ASSUME IngestionIndInv, NEW b \in Batches, NEW from \in Working, NEW to \in {"insert", "look again", "audit"},
           At(b, from), from # "audit", Goes(b, to), UNCHANGED <<batch, answer, ingestFaults>>,
           ~batch[b].dry,
           \/ to # "audit" /\ imported' = imported
           \/ to = "audit" /\ from = "insert" /\ TaskInserted(b)
    PROVE  IngestionIndInv'
<1> DEFINE m == import'[b]
           row == import[b].row
<1>1. /\ import' \in [Batches -> ImportRecords \cup {Unknown}]
      /\ m.step = to /\ m.rows = import[b].rows
      /\ m.row = row /\ m.results = import[b].results
      /\ \A c \in Batches: c # b => import'[c] = import[c]
    <2>1. IngestionTyped /\ import[b] # Unknown /\ to \in Working \cup {"complete", "answer"}
        BY DEF IngestionIndInv, At, Working
    <2> QED BY <2>1, GoesParts
<1>2. /\ import[b] # Unknown /\ import[b].step \in Working
      /\ OrderOf(b) /\ ResultsOf(b) /\ IngestionTyped
    BY RowParts DEF IngestionIndInv, InOrder, ResultsTrue
<1>3. /\ row \in 1..Len(import[b].rows) /\ Len(import[b].results) = row - 1
      /\ batch[b] # Unknown /\ batch[b].status = "PROCESSING" /\ answer[b] = Unknown
    BY <1>2, RowParts DEF OrderOf
<1>4. /\ imported \subseteq imported' /\ imported' \subseteq TaskRecords
      /\ \A t \in imported': t \in imported \/ (t.batch = b /\ t.row = row /\ to = "audit")
      /\ OncePerRow' /\ OncePerReference'
      /\ to = "audit" => TaskOf(b) \in imported'
    <2>0. imported \subseteq TaskRecords /\ OncePerRow /\ OncePerReference
        BY RowParts
    <2>1. CASE to # "audit" /\ imported' = imported
        <3>1. OncePerRow' /\ OncePerReference'
            BY <2>0, <2>1 DEF OncePerRow, OncePerReference
        <3> QED BY <2>0, <2>1, <3>1
    <2>2. CASE to = "audit" /\ from = "insert" /\ TaskInserted(b)
        <3> DEFINE new == TaskOf(b)
        <3>1. /\ imported' = imported \cup {new} /\ new \in TaskRecords
              /\ new.batch = b /\ new.row = row
              /\ OncePerRow' /\ OncePerReference'
            BY <2>2, InsertedFits DEF OncePerRow, OncePerReference
        <3> HIDE DEF new
        <3>2. /\ \A t \in imported': t \in imported \/ (t.batch = b /\ t.row = row /\ to = "audit")
              /\ imported \subseteq imported' /\ imported' \subseteq TaskRecords /\ new \in imported'
            BY <2>0, <2>2, <3>1
        <3> QED BY <3>1, <3>2 DEF new
    <2> QED BY <2>1, <2>2
<1> HIDE DEF m, row
<1>5. IngestionTyped'
    BY <1>1, <1>2, <1>4 DEF IngestionTyped
<1>6. OrderOf(b)'
    <2>1. TaskOf(b)' = TaskOf(b)
        BY <1>1 DEF TaskOf, m, row
    <2>2. IF m.step \in Working THEN m.row \in 1..Len(m.rows) /\ Len(m.results) = m.row - 1
          ELSE Len(m.results) = Len(m.rows)
        BY <1>1, <1>3 DEF Working
    <2> QED BY <1>1, <1>3, <1>4, <2>1, <2>2 DEF OrderOf, m
<1>7. ResultsOf(b)'
    <2>1. answer'[b] = Unknown /\ import'[b].results = import[b].results /\ import'[b].rows = import[b].rows
        BY <1>1, <1>3 DEF m
    <2>2. ASSUME NEW i \in 1..Len(import[b].results)
          PROVE  /\ ResultTrue(b, import[b].rows, import[b].results, i)'
                 /\ import'[b].results[i].task \in imported' \cup {Unknown}
        <3>1. /\ ResultTrue(b, import[b].rows, import[b].results, i)
              /\ import[b].results[i].task \in imported \cup {Unknown}
            BY <1>2 DEF ResultsOf
        <3> QED BY <1>4, <2>1, <3>1 DEF ResultTrue
    <2> QED BY <2>1, <2>2 DEF ResultsOf
<1>8. CountsOf(b)'
    BY <1>3 DEF CountsOf
<1>9. ASSUME NEW t \in imported', t.batch = b
      PROVE  Placed(t)'
    <2>1. CASE t \in imported
        <3>1. t.row \in 1..Len(import[b].results) /\ import[b].results[t.row].status \in {"CREATED", "FAILED"}
            <4>1. import[b].step # "audit"
                BY DEF At
            <4>2. Placed(t)
                BY <2>1 DEF IngestionIndInv, TasksPlaced
            <4> QED BY <1>2, <1>9, <4>1, <4>2 DEF Placed
        <3> QED BY <1>1, <1>3, <1>9, <3>1 DEF Placed, m
    <2>2. CASE t.row = row /\ to = "audit"
        BY <1>1, <1>3, <1>9, <2>2 DEF Placed, m
    <2> QED BY <1>4, <1>9, <2>1, <2>2
<1> QED BY <1>1, <1>4, <1>5, <1>6, <1>7, <1>8, <1>9, StepKept

LEMMA RequestSteps ==
    ASSUME IngestionIndInv, NEW b \in Batches, LookUp(b) \/ Insert(b) \/ Conflict(b)
    PROVE  IngestionIndInv'
<1>1. CASE LookUp(b)
    <2>1. At(b, "look up") /\ UNCHANGED <<imported, batch, answer, ingestFaults>>
        BY <1>1 DEF LookUp
    <2>2. ingestFaults \in 0..MaxIngestFaults
        BY DEF IngestionIndInv, IngestionTyped
    <2>3. CASE batch[b].dry /\ Concludes(b, "VALID", Unknown)
        BY <2>1, <2>2, <2>3, EndsKept DEF Working
    <2>4. CASE ~batch[b].dry /\ Goes(b, "insert")
        BY <2>1, <2>4, GoesKept DEF Working
    <2> QED BY <1>1, <2>3, <2>4 DEF LookUp
<1>2. CASE Insert(b)
    BY <1>2, RowParts, GoesKept DEF Insert, Working
<1>3. CASE Conflict(b)
    BY <1>3, RowParts, GoesKept DEF Conflict, Working
<1> QED BY <1>1, <1>2, <1>3

\* How often a result was given is a number, no larger than there are results.
LEMMA CountIsNumber ==
    ASSUME IngestionTyped, NEW b \in Batches, import[b] # Unknown, NEW status
    PROVE  /\ Count(b, status) \in Nat
           /\ IsFiniteSet({i \in DOMAIN import[b].results: import[b].results[i].status = status})
<1> DEFINE given == {i \in DOMAIN import[b].results: import[b].results[i].status = status}
<1>1. DOMAIN import[b].results = 1..Len(import[b].results) /\ Len(import[b].results) \in Nat
    BY ImportParts
<1>2. IsFiniteSet(1..Len(import[b].results))
    BY <1>1, FS_Interval
<1>3. given \in SUBSET (1..Len(import[b].results))
    BY <1>1
<1> HIDE DEF given
<1>4. IsFiniteSet(given) /\ Cardinality(given) \in Nat
    BY <1>2, <1>3, FS_Subset, FS_CardinalityType
<1> QED BY <1>4 DEF given, Count

\* Once every row has its result, the created rows have tasks of their own, and every
\* task of the batch is of a row that was created or has failed.
LEMMA TasksCounted ==
    ASSUME IngestionIndInv, NEW b \in Batches, At(b, "complete")
    PROVE  LET made == Cardinality({t \in imported: t.batch = b})
           IN  Count(b, "CREATED") <= made /\ made <= Count(b, "CREATED") + Count(b, "FAILED")
<1> DEFINE results == import[b].results
           tasks == {t \in imported: t.batch = b}
           created == {i \in DOMAIN results: results[i].status = "CREATED"}
           failed == {i \in DOMAIN results: results[i].status = "FAILED"}
<1>1. /\ import[b] # Unknown /\ import[b].step = "complete" /\ IngestionTyped
      /\ OncePerRow /\ ResultsOf(b)
    BY DEF At, IngestionIndInv, TasksPlaced, ResultsTrue
<1>2. DOMAIN results = 1..Len(results)
    BY <1>1, ImportParts
<1>3. IsFiniteSet(created) /\ IsFiniteSet(failed)
      /\ Cardinality(created) \in Nat /\ Cardinality(failed) \in Nat
    BY <1>1, CountIsNumber DEF Count
<1>4. \A t \in tasks: t.row \in created \cup failed
    <2> SUFFICES ASSUME NEW t \in tasks PROVE t.row \in created \cup failed
        OBVIOUS
    <2>1. t \in imported /\ t.batch = b /\ Placed(t)
        BY DEF IngestionIndInv, TasksPlaced
    <2>2. t.row \in 1..Len(results) /\ results[t.row].status \in {"CREATED", "FAILED"}
        BY <1>1, <2>1 DEF Placed
    <2> QED BY <1>2, <2>2
<1>5. \A i \in created: results[i].task \in tasks /\ results[i].task.row = i
    BY <1>1, <1>2 DEF ResultsOf, ResultTrue
<1>6. \A t, u \in tasks: t.row = u.row => t = u
    BY <1>1 DEF OncePerRow
<1> HIDE DEF results, tasks, created, failed
<1>7. IsFiniteSet(created \cup failed) /\ Cardinality(created \cup failed) <= Cardinality(created) + Cardinality(failed)
    <2>1. /\ IsFiniteSet(created \cup failed)
          /\ Cardinality(created \cup failed)
              = Cardinality(created) + Cardinality(failed) - Cardinality(created \cap failed)
        BY <1>3, FS_Union
    <2>2. (created \cap failed) \in SUBSET created
        OBVIOUS
    <2>3. Cardinality(created \cap failed) \in Nat
        BY <1>3, <2>2, FS_Subset, FS_CardinalityType
    <2> QED BY <1>3, <2>1, <2>3
<1>8. IsFiniteSet(tasks) /\ Cardinality(tasks) <= Cardinality(created \cup failed)
    <2> DEFINE f == [t \in tasks |-> t.row]
    <2>1. f \in Injection(tasks, created \cup failed)
        BY <1>4, <1>6 DEF Injection, IsInjective
    <2> HIDE DEF f
    <2> QED BY <1>7, <2>1, FS_Injection
<1>9. Cardinality(created) <= Cardinality(tasks)
    <2> DEFINE f == [i \in created |-> results[i].task]
    <2>1. f \in Injection(created, tasks)
        BY <1>5 DEF Injection, IsInjective
    <2> HIDE DEF f
    <2> QED BY <1>8, <2>1, FS_Injection
<1>10. Cardinality(tasks) \in Nat /\ Cardinality(created \cup failed) \in Nat
    BY <1>7, <1>8, FS_CardinalityType
<1>11. Cardinality(created) <= Cardinality(tasks)
       /\ Cardinality(tasks) <= Cardinality(created) + Cardinality(failed)
    BY <1>3, <1>7, <1>8, <1>9, <1>10
<1> QED BY <1>11 DEF Count, results, tasks, created, failed

\* The batch is completed with counts that hold.
LEMMA CompletedParts ==
    ASSUME IngestionIndInv, NEW b \in Batches, At(b, "complete"), Completed(b)
    PROVE  /\ batch' \in [Batches -> BatchRecords \cup {Unknown}]
           /\ \A c \in Batches: c # b => batch'[c] = batch[c]
           /\ batch[b] # Unknown /\ batch'[b] # Unknown /\ answer[b] = Unknown
           /\ batch'[b].origin = batch[b].origin /\ batch'[b].dry = batch[b].dry
           /\ batch'[b].total = Len(import[b].results) /\ Len(import[b].results) = Len(import[b].rows)
           /\ UNCHANGED <<imported, answer>> => CountsOf(b)'
<1> DEFINE n == Len(import[b].results)
           c == Count(b, "CREATED")
           f == Count(b, "FAILED")
           v == Verdict(b)
           m == [batch[b] EXCEPT !.status = v, !.total = n, !.created = c, !.failed = f]
<1>1. /\ import[b] # Unknown /\ import[b].step = "complete" /\ IngestionTyped
      /\ OrderOf(b)
    BY DEF At, IngestionIndInv, InOrder
<1>2. batch[b] # Unknown /\ answer[b] = Unknown /\ n = Len(import[b].rows)
    BY <1>1 DEF OrderOf, Working
<1>3. batch[b] \in BatchRecords /\ n \in Nat /\ c \in Nat /\ f \in Nat
    BY <1>1, <1>2, ImportParts, CountIsNumber DEF IngestionTyped
<1>4. v \in {"COMPLETED", "FAILED", "PARTIAL"} /\ (v = "COMPLETED" => f = 0)
    <2>1. v = CASE f = 0 -> "COMPLETED" [] f = n -> "FAILED" [] OTHER -> "PARTIAL"
        BY DEF Verdict
    <2> HIDE DEF v, f, n
    <2>2. CASE f = 0
        BY <1>3, <2>1, <2>2
    <2>3. CASE f # 0 /\ f = n
        BY <1>3, <2>1, <2>3
    <2>4. CASE f # 0 /\ f # n
        BY <1>3, <2>1, <2>4
    <2> QED BY <2>2, <2>3, <2>4
<1>5. batch' = [batch EXCEPT ![b] = m]
    BY DEF Completed
<1> HIDE DEF n, c, f, v
<1>6. /\ m \in BatchRecords /\ m.origin = batch[b].origin /\ m.dry = batch[b].dry
      /\ m.total = n /\ m.created = c /\ m.failed = f /\ m.status = v
    BY <1>3, <1>4 DEF BatchRecords
<1> HIDE DEF m
<1>7. /\ batch' \in [Batches -> BatchRecords \cup {Unknown}] /\ batch'[b] = m
      /\ \A d \in Batches: d # b => batch'[d] = batch[d]
    BY <1>1, <1>5, <1>6 DEF IngestionTyped
<1>8. m # Unknown
    BY <1>6, UnknownApart DEF Unknown
<1>9. ASSUME UNCHANGED <<imported, answer>>
      PROVE  CountsOf(b)'
    <2> DEFINE made == Cardinality({t \in imported: t.batch = b})
    <2>1. c <= made /\ made <= c + f
        BY TasksCounted DEF c, f
    <2>2. Cardinality({t \in imported': t.batch = b}) = made
        BY <1>9
    <2> HIDE DEF made
    <2>3. answer'[b] = Unknown
        BY <1>2, <1>9
    <2> QED BY <1>4, <1>6, <1>7, <2>1, <2>2, <2>3 DEF CountsOf
<1> QED BY <1>2, <1>6, <1>7, <1>8, <1>9 DEF n

\* A batch that begins has no task and no answer yet.
LEMMA BeginKept ==
    ASSUME IngestionIndInv, NEW b \in Batches, NEW origin \in Origins, NEW rows \in Files(origin),
           NEW dry \in BOOLEAN, Begin(b, origin, rows, dry)
    PROVE  IngestionIndInv'
<1> DEFINE s == IF rows = <<>> THEN "complete" ELSE "look up"
           m == [rows |-> rows, row |-> 1, results |-> <<>>, step |-> s]
           new == [origin |-> origin, dry |-> dry, status |-> "PROCESSING",
                   total |-> 0, created |-> 0, failed |-> 0]
<1>1. /\ IngestionTyped /\ OrderOf(b) /\ ResultsOf(b) /\ OncePerRow /\ OncePerReference
      /\ \A t \in imported: Placed(t)
    BY DEF IngestionIndInv, InOrder, TasksPlaced, ResultsTrue
<1>2. batch[b] = Unknown /\ import[b] = Unknown /\ answer[b] = Unknown
    BY <1>1 DEF Begin, OrderOf, ResultsOf
<1>3. \A t \in imported: t.batch # b
    BY <1>1, <1>2 DEF Placed
<1>4. rows \in Seq(RowInputs)
    <2>1. PICK n \in Nat: rows \in [1..n -> RowInputs]
        <3>1. CASE origin \in Machines
            <4>1. rows \in [1..1 -> RowInputs]
                BY <3>1 DEF Files
            <4> QED BY <4>1
        <3>2. CASE origin \notin Machines
            <4>1. PICK n \in 0..MaxRows: rows \in [1..n -> RowInputs]
                BY <3>2 DEF Files
            <4>2. n \in Nat
                BY IngestionAssumption
            <4> QED BY <4>1, <4>2
        <3> QED BY <3>1, <3>2
    <2> QED BY <2>1
<1>5. Len(rows) \in Nat /\ (rows = <<>> <=> Len(rows) = 0)
    BY <1>4
<1>empty. Len(<<>>) = 0 /\ 1..0 = {}
    OBVIOUS
<1>first. rows # <<>> => 1 \in 1..Len(rows)
    BY <1>5
<1>6. /\ import' = [import EXCEPT ![b] = m] /\ batch' = [batch EXCEPT ![b] = new]
      /\ UNCHANGED <<imported, answer, ingestFaults>>
    BY DEF Begin
<1>7. /\ m.rows = rows /\ m.row = 1 /\ m.results = <<>> /\ m.step = s
      /\ new.dry = dry /\ new.status = "PROCESSING"
    OBVIOUS
<1>8. new \in BatchRecords /\ new # Unknown
    <2>1. new \in BatchRecords
        BY DEF BatchRecords
    <2> HIDE DEF new
    <2> QED BY <2>1, UnknownApart DEF Unknown
<1>9. m \in ImportRecords
    <2>1. s \in Working \cup {"complete", "answer"} /\ <<>> \in Seq(ResultRecords)
        BY DEF Working
    <2> HIDE DEF s
    <2> QED BY <1>4, <2>1 DEF ImportRecords
<1> HIDE DEF m, new
<1>10. import'[b] = m /\ batch'[b] = new /\ answer'[b] = Unknown /\ imported' = imported
      /\ \A c \in Batches: c # b => import'[c] = import[c] /\ batch'[c] = batch[c] /\ answer'[c] = answer[c]
    BY <1>1, <1>2, <1>6 DEF IngestionTyped
<1>11. IngestionTyped'
    BY <1>1, <1>6, <1>8, <1>9 DEF IngestionTyped
<1>12. OrderOf(b)'
    <2>1. CASE rows = <<>>
        <3>1. m.step = "complete" /\ Len(m.results) = 0 /\ Len(m.rows) = 0
            BY <1>5, <1>7, <2>1
        <3> QED BY <1>7, <1>8, <1>10, <3>1 DEF OrderOf, Working
    <2>2. CASE rows # <<>>
        <3>1. m.step = "look up" /\ Len(m.results) = m.row - 1 /\ m.row \in 1..Len(m.rows)
            <4>1. m.step = "look up"
                BY <1>7, <2>2
            <4>2. Len(m.results) = 0
                BY <1>7, <1>empty
            <4>3. m.row - 1 = 0
                <5>1. m.row = 1
                    BY <1>7
                <5> QED BY <5>1
            <4>4. m.row \in 1..Len(m.rows)
                BY <1>7, <1>first, <2>2
            <4> QED BY <4>1, <4>2, <4>3, <4>4
        <3> QED BY <1>7, <1>8, <1>10, <3>1 DEF OrderOf, Working
    <2> QED BY <2>1, <2>2
<1>13. ResultsOf(b)'
    <2>1. Len(import'[b].results) = 0
        <3>1. import'[b].results = <<>>
            BY <1>7, <1>10
        <3> QED BY <1>empty, <3>1
    <2> QED BY <1>10, <1>empty, <2>1 DEF ResultsOf
<1>14. CountsOf(b)'
    BY <1>7, <1>10 DEF CountsOf
<1>15. OncePerRow' /\ OncePerReference'
    BY <1>1, <1>10 DEF OncePerRow, OncePerReference
<1>16. \A t \in imported': t.batch # b
    BY <1>3, <1>10
<1> QED BY <1>10, <1>11, <1>12, <1>13, <1>14, <1>15, <1>16, StepKept

\* A request that is over leaves its batch and its tasks, and perhaps its answer.
LEMMA OverKept ==
    ASSUME IngestionIndInv, NEW b \in Batches, import[b] # Unknown,
           import' = [import EXCEPT ![b] = Unknown], imported' = imported,
           batch' \in [Batches -> BatchRecords \cup {Unknown}],
           answer' \in [Batches -> AnswerRecords \cup {Unknown}],
           ingestFaults' \in 0..MaxIngestFaults,
           \A c \in Batches: c # b => batch'[c] = batch[c] /\ answer'[c] = answer[c],
           batch'[b] # Unknown, batch'[b].dry = batch[b].dry, CountsOf(b)',
           answer'[b] # Unknown => \A i \in 1..Len(answer'[b].results):
               ResultTrue(b, answer[b].rows, answer[b].results, i)'
    PROVE  IngestionIndInv'
<1>1. /\ IngestionTyped /\ OncePerRow /\ OncePerReference /\ \A t \in imported: Placed(t)
    BY DEF IngestionIndInv, TasksPlaced
<1>2. /\ import' \in [Batches -> ImportRecords \cup {Unknown}] /\ import'[b] = Unknown
      /\ \A c \in Batches: c # b => import'[c] = import[c]
    BY <1>1 DEF IngestionTyped
<1>3. IngestionTyped'
    BY <1>1, <1>2 DEF IngestionTyped
<1>4. OrderOf(b)' /\ ResultsOf(b)'
    BY <1>2 DEF OrderOf, ResultsOf
<1>5. OncePerRow' /\ OncePerReference'
    BY <1>1 DEF OncePerRow, OncePerReference
<1>6. \A t \in imported': t.batch = b => Placed(t)'
    BY <1>1, <1>2 DEF Placed
<1> QED BY <1>2, <1>3, <1>4, <1>5, <1>6, StepKept

LEMMA BatchSteps ==
    ASSUME IngestionIndInv, NEW b \in Batches, Complete(b) \/ Respond(b) \/ BatchFails(b)
    PROVE  IngestionIndInv'
<1>1. IngestionTyped /\ OrderOf(b) /\ ResultsOf(b) /\ CountsOf(b)
      /\ OncePerRow /\ OncePerReference /\ \A t \in imported: Placed(t)
    BY DEF IngestionIndInv, InOrder, ResultsTrue, CountsHold, TasksPlaced
<1>2. CASE Complete(b)
    <2>1. At(b, "complete") /\ Completed(b) /\ Goes(b, "answer") /\ UNCHANGED <<imported, answer, ingestFaults>>
        BY <1>2 DEF Complete
    <2>2. import[b] # Unknown /\ import[b].step = "complete"
        BY <2>1 DEF At
    <2>3. /\ import' \in [Batches -> ImportRecords \cup {Unknown}]
          /\ import'[b].step = "answer" /\ import'[b].rows = import[b].rows
          /\ import'[b].row = import[b].row /\ import'[b].results = import[b].results
          /\ \A c \in Batches: c # b => import'[c] = import[c]
        BY <1>1, <2>1, <2>2, GoesParts
    <2>4. /\ batch' \in [Batches -> BatchRecords \cup {Unknown}]
          /\ \A c \in Batches: c # b => batch'[c] = batch[c]
          /\ batch[b] # Unknown /\ batch'[b] # Unknown /\ answer[b] = Unknown
          /\ batch'[b].origin = batch[b].origin /\ batch'[b].dry = batch[b].dry
          /\ batch'[b].total = Len(import[b].results) /\ Len(import[b].results) = Len(import[b].rows)
          /\ CountsOf(b)'
        BY <2>1, CompletedParts
    <2>5. imported' = imported /\ answer' = answer /\ ingestFaults' = ingestFaults
        BY <2>1
    <2>6. IngestionTyped'
        BY <1>1, <2>3, <2>4, <2>5 DEF IngestionTyped
    <2>7. OrderOf(b)'
        BY <2>3, <2>4, <2>5 DEF OrderOf, Working
    <2>8. ResultsOf(b)'
        <3>1. ASSUME NEW i \in 1..Len(import[b].results)
              PROVE  /\ ResultTrue(b, import[b].rows, import[b].results, i)'
                     /\ import'[b].results[i].task \in imported' \cup {Unknown}
            <4>1. /\ ResultTrue(b, import[b].rows, import[b].results, i)
                  /\ import[b].results[i].task \in imported \cup {Unknown}
                BY <1>1, <2>2 DEF ResultsOf
            <4> QED BY <2>3, <2>4, <2>5, <4>1 DEF ResultTrue
        <3> QED BY <2>3, <2>4, <2>5, <3>1 DEF ResultsOf
    <2>9. OncePerRow' /\ OncePerReference'
        BY <1>1, <2>5 DEF OncePerRow, OncePerReference
    <2>10. ASSUME NEW t \in imported', t.batch = b
           PROVE  Placed(t)'
        <3>1. Placed(t)
            BY <1>1, <2>5
        <3> QED BY <2>2, <2>3, <2>4, <2>10, <3>1 DEF Placed
    <2> QED BY <2>3, <2>4, <2>5, <2>6, <2>7, <2>8, <2>9, <2>10, StepKept
<1>3. CASE Respond(b)
    <2> DEFINE told == [rows |-> import[b].rows, results |-> import[b].results]
    <2>1. /\ import[b] # Unknown /\ import[b].step = "answer"
          /\ answer' = [answer EXCEPT ![b] = told] /\ import' = [import EXCEPT ![b] = Unknown]
          /\ UNCHANGED <<imported, batch, ingestFaults>>
        BY <1>3 DEF Respond, At
    <2>2. told \in AnswerRecords /\ told.rows = import[b].rows /\ told.results = import[b].results
        BY <1>1, <2>1, ImportParts DEF AnswerRecords
    <2> HIDE DEF told
    <2>3. /\ answer' \in [Batches -> AnswerRecords \cup {Unknown}] /\ answer'[b] = told
          /\ \A c \in Batches: c # b => answer'[c] = answer[c]
        BY <1>1, <2>1, <2>2 DEF IngestionTyped
    <2>4. batch[b] # Unknown /\ batch[b].total = Len(import[b].rows) /\ answer[b] = Unknown
        BY <1>1, <2>1 DEF OrderOf, Working
    <2>5. CountsOf(b)'
        BY <1>1, <2>1, <2>2, <2>3, <2>4 DEF CountsOf
    <2>6. ASSUME NEW i \in 1..Len(answer'[b].results)
          PROVE  ResultTrue(b, answer[b].rows, answer[b].results, i)'
        <3>1. ResultTrue(b, import[b].rows, import[b].results, i)
            BY <1>1, <2>1, <2>2, <2>3 DEF ResultsOf
        <3> QED BY <2>1, <2>2, <2>3, <3>1 DEF ResultTrue
    <2>7. batch' \in [Batches -> BatchRecords \cup {Unknown}] /\ ingestFaults' \in 0..MaxIngestFaults
        BY <1>1, <2>1 DEF IngestionTyped
    <2> QED BY <2>1, <2>3, <2>4, <2>5, <2>6, <2>7, OverKept
<1>4. CASE BatchFails(b)
    <2>1. Faulty /\ import' = [import EXCEPT ![b] = Unknown] /\ UNCHANGED <<imported, answer>>
        BY <1>4 DEF BatchFails
    <2>2. ingestFaults' \in 0..MaxIngestFaults
        BY <1>1, <2>1, IngestionAssumption DEF Faulty, IngestionTyped
    <2>3. import[b] # Unknown
        BY <1>4 DEF BatchFails, At
    <2>4. batch[b] # Unknown /\ answer[b] = Unknown
        BY <1>1, <2>3 DEF OrderOf
    <2>5. CASE UNCHANGED batch
        <3>1. CountsOf(b)'
            BY <1>1, <2>1, <2>5 DEF CountsOf
        <3>2. /\ batch' \in [Batches -> BatchRecords \cup {Unknown}]
              /\ answer' \in [Batches -> AnswerRecords \cup {Unknown}] /\ answer'[b] = Unknown
            BY <1>1, <2>1, <2>4, <2>5 DEF IngestionTyped
        <3> QED BY <2>1, <2>2, <2>3, <2>4, <2>5, <3>1, <3>2, OverKept
    <2>6. CASE At(b, "complete") /\ Completed(b)
        <3>1. /\ batch' \in [Batches -> BatchRecords \cup {Unknown}]
              /\ \A c \in Batches: c # b => batch'[c] = batch[c]
              /\ batch'[b] # Unknown /\ batch'[b].dry = batch[b].dry /\ CountsOf(b)'
            BY <2>1, <2>6, CompletedParts
        <3>2. answer' \in [Batches -> AnswerRecords \cup {Unknown}] /\ answer'[b] = Unknown
            BY <1>1, <2>1, <2>4 DEF IngestionTyped
        <3> QED BY <2>1, <2>2, <2>3, <3>1, <3>2, OverKept
    <2> QED BY <1>4, <2>5, <2>6 DEF BatchFails
<1> QED BY <1>2, <1>3, <1>4

\* A process that dies takes the requests with it, and nothing else.
LEMMA DeathKept ==
    ASSUME IngestionIndInv, IngestionDies
    PROVE  IngestionIndInv'
<1>1. /\ import' = [b \in Batches |-> Unknown] /\ UNCHANGED <<imported, batch, answer>>
      /\ ingestFaults' \in 0..MaxIngestFaults
    BY IngestionAssumption DEF IngestionDies, Faulty, IngestionIndInv, IngestionTyped
<1>2. \A b \in Batches: import'[b] = Unknown
    BY <1>1
<1>3. IngestionTyped'
    BY <1>1 DEF IngestionIndInv, IngestionTyped
<1>4. InOrder'
    BY <1>2 DEF InOrder, OrderOf
<1>5. ResultsTrue'
    BY <1>1, <1>2 DEF ResultsTrue, ResultsOf, ResultTrue, IngestionIndInv
<1>6. TasksPlaced'
    <2>1. OncePerRow'
        BY <1>1 DEF IngestionIndInv, TasksPlaced, OncePerRow
    <2>2. ASSUME NEW t \in imported' PROVE Placed(t)'
        <3>1. Placed(t) /\ t.batch \in Batches
            BY <1>1 DEF IngestionIndInv, TasksPlaced, IngestionTyped, TaskRecords
        <3> QED BY <1>1, <1>2, <3>1 DEF Placed
    <2> QED BY <2>1, <2>2 DEF TasksPlaced
<1>7. OncePerReference' /\ CountsHold'
    BY <1>1 DEF IngestionIndInv, OncePerReference, CountsHold, CountsOf
<1> QED BY <1>3, <1>4, <1>5, <1>6, <1>7 DEF IngestionIndInv

\* The invariant of the imports is inductive: it holds of every state that overlapping
\* and repeated requests, failures and crashes can reach.
THEOREM IngestionInvariance == IngestionSpec => []IngestionIndInv
<1>1. IngestionInit => IngestionIndInv
    <2> SUFFICES ASSUME IngestionInit PROVE IngestionIndInv
        OBVIOUS
    <2>1. IngestionTyped
        BY IngestionAssumption DEF IngestionInit, IngestionTyped
    <2>2. \A b \in Batches: import[b] = Unknown /\ batch[b] = Unknown /\ answer[b] = Unknown
        BY DEF IngestionInit
    <2>3. imported = {}
        BY DEF IngestionInit
    <2>4. InOrder /\ ResultsTrue /\ CountsHold
        BY <2>2 DEF InOrder, OrderOf, ResultsTrue, ResultsOf, CountsHold, CountsOf
    <2>5. TasksPlaced /\ OncePerReference
        BY <2>3 DEF TasksPlaced, OncePerRow, OncePerReference
    <2> QED BY <2>1, <2>4, <2>5 DEF IngestionIndInv
<1>2. IngestionIndInv /\ [IngestionNext]_ingestionVars => IngestionIndInv'
    <2> SUFFICES ASSUME IngestionIndInv, [IngestionNext]_ingestionVars PROVE IngestionIndInv'
        OBVIOUS
    <2>1. ASSUME NEW b \in Batches, NEW origin \in Origins, NEW rows \in Files(origin), NEW dry \in BOOLEAN,
                 Begin(b, origin, rows, dry)
          PROVE  IngestionIndInv'
        BY <2>1, BeginKept
    <2>2. ASSUME NEW b \in Batches,
                 \/ Reject(b) \/ Duplicate(b) \/ LookUp(b) \/ Insert(b) \/ Conflict(b) \/ Audit(b)
                 \/ Complete(b) \/ Respond(b) \/ RowFails(b) \/ BatchFails(b)
          PROVE  IngestionIndInv'
        BY <2>2, RowSteps, RequestSteps, BatchSteps, FailedRowKept
    <2>3. CASE IngestionDies
        BY <2>3, DeathKept
    <2>4. CASE UNCHANGED ingestionVars
        <3>1. UNCHANGED <<imported, batch, import, answer, ingestFaults>>
            BY <2>4 DEF ingestionVars
        <3>2. IngestionTyped' /\ OncePerRow' /\ OncePerReference'
            BY <3>1 DEF IngestionIndInv, IngestionTyped, TasksPlaced, OncePerRow, OncePerReference
        <3>3. InOrder'
            BY <3>1 DEF IngestionIndInv, InOrder, OrderOf, TaskOf
        <3>4. ResultsTrue'
            BY <3>1 DEF IngestionIndInv, ResultsTrue, ResultsOf, ResultTrue
        <3>5. TasksPlaced' /\ CountsHold'
            BY <3>1, <3>2 DEF IngestionIndInv, TasksPlaced, Placed, CountsHold, CountsOf
        <3> QED BY <3>2, <3>3, <3>4, <3>5 DEF IngestionIndInv
    <2> QED BY <2>1, <2>2, <2>3, <2>4 DEF IngestionNext
<1> QED BY <1>1, <1>2, PTL DEF IngestionSpec

\* Whoever repeats a file or a request, at the same time or after a failure, one origin
\* gets one task for a reference; what it is told of a row is true of its tasks, and the
\* counts of a finished batch cover every task it made.
THEOREM ImportsTruthful == IngestionSpec => []IngestionInv
<1>1. IngestionIndInv => IngestionInv
    <2> SUFFICES ASSUME IngestionIndInv PROVE IngestionInv
        OBVIOUS
    <2>1. ASSUME NEW b \in Batches, import[b] # Unknown
          PROVE  batch[b] # Unknown /\ \A i \in DOMAIN import[b].results: import[b].results[i] \in Results
        <3>1. batch[b] # Unknown
            BY <2>1 DEF IngestionIndInv, InOrder, OrderOf
        <3>2. ASSUME NEW i \in DOMAIN import[b].results
              PROVE  import[b].results[i] \in Results
            <4>1. i \in 1..Len(import[b].results) /\ import[b].results[i] \in ResultRecords
                BY <2>1, <3>2, ImportParts DEF IngestionIndInv
            <4>2. import[b].results[i].task \in imported \cup {Unknown}
                BY <2>1, <4>1 DEF IngestionIndInv, ResultsTrue, ResultsOf
            <4> QED BY <4>1, <4>2 DEF ResultRecords, Results
        <3> QED BY <3>1, <3>2
    <2>2. IngestionTypeOK
        BY <2>1 DEF IngestionTypeOK, IngestionIndInv, IngestionTyped
    <2>3. ASSUME NEW b \in Batches, answer[b] # Unknown, NEW i \in DOMAIN answer[b].results
          PROVE  /\ ResultTrue(b, answer[b].rows, answer[b].results, i)
                 /\ batch[b].dry => \A t \in imported: t.batch # b
        <3>1. answer[b] \in AnswerRecords
            BY <2>3 DEF IngestionIndInv, IngestionTyped
        <3>2. i \in 1..Len(answer[b].results)
            BY <2>3, <3>1 DEF AnswerRecords
        <3>3. ResultTrue(b, answer[b].rows, answer[b].results, i)
            BY <2>3, <3>2 DEF IngestionIndInv, ResultsTrue, ResultsOf
        <3>4. batch[b].dry => \A t \in imported: t.batch # b
            BY DEF IngestionIndInv, TasksPlaced, Placed
        <3> QED BY <3>3, <3>4
    <2>4. AnswersTrue
        BY <2>3 DEF AnswersTrue, ResultTrue
    <2> QED BY <2>2, <2>4 DEF IngestionInv, IngestionIndInv
<1> QED BY <1>1, IngestionInvariance, PTL
=============================================================================
