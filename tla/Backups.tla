------------------------------- MODULE Backups -------------------------------
(***************************************************************************)
(* Backups of the data (backup-recovery.ts): taking one while the system   *)
(* is used, and restoring one into a database that should be empty.  Both  *)
(* may stop at any step; files may be damaged, a connection may end, and   *)
(* an application may already be writing to the database that is restored. *)
(*                                                                         *)
(* What the rows say is opaque: the source is in one of its successive     *)
(* contents, and those from Usable on satisfy what a restored database is  *)
(* checked for (an owner, an administrator, settings and so on).           *)
(***************************************************************************)
EXTENDS Naturals

CONSTANTS
    Archives,    \* by the time in their names
    Usable, MaxContents,
    MaxDamages, MaxForeignWrites,   \* bounds
    Nil

ASSUME BackupsAssumption ==
    /\ MaxContents \in Nat /\ Usable \in 0..MaxContents /\ MaxDamages \in Nat /\ MaxForeignWrites \in Nat
    /\ Nil \notin 0..MaxContents

VARIABLES
    source,     \* its contents now
    file,       \* per archive [dump, manifest: "none", "partial" or "final",
                \*  data: the contents in it, or Damaged, sum: those of the checksum]
    taking,     \* [stage, of: an archive]
    target,     \* [rows: contents restored, or Nil, strange: rows of others, written
                \*  "before" or "after" the restore looked, lost: such rows, overwritten]
    restoring,  \* [stage, of, data: what was converted, told]
    mishaps     \* [damages, writes]

backupVars == <<source, file, taking, target, restoring, mishaps>>

Damaged == MaxContents + 1
NoFile == [dump |-> "none", manifest |-> "none", data |-> Nil, sum |-> Nil]
Taking(stage) == taking.stage = stage
Takes(stage) == taking' = [taking EXCEPT !.stage = stage]
Restoring(stage) == restoring.stage = stage
Restores(stage) == restoring' = [restoring EXCEPT !.stage = stage]
Tells(told) == restoring' = [restoring EXCEPT !.stage = "idle", !.told = told]

-----------------------------------------------------------------------------
(* createBackup *)

SourceChanges ==
    /\ source < MaxContents
    /\ source' = source + 1
    /\ UNCHANGED <<file, taking, target, restoring, mishaps>>

\* A name that is taken is refused; what a stopped attempt left half-done is removed.
StartBackup(b) ==
    /\ Taking("idle") /\ file[b].dump # "final" /\ file[b].manifest # "final"
    /\ file' = [file EXCEPT ![b] = NoFile]
    /\ taking' = [stage |-> "dumping", of |-> b]
    /\ UNCHANGED <<source, target, restoring, mishaps>>

\* pg_dump reads one snapshot, whatever is written meanwhile.
OpenDump ==
    /\ Taking("dumping")
    /\ file' = [file EXCEPT ![taking.of].dump = "partial", ![taking.of].data = source]
    /\ Takes("describing")
    /\ UNCHANGED <<source, target, restoring, mishaps>>

WriteManifest ==
    /\ Taking("describing")
    /\ file' = [file EXCEPT ![taking.of].manifest = "partial", ![taking.of].sum = file[taking.of].data]
    /\ Takes("naming")
    /\ UNCHANGED <<source, target, restoring, mishaps>>

NameDump ==
    /\ Taking("naming")
    /\ file' = [file EXCEPT ![taking.of].dump = "final"]
    /\ Takes("finishing")
    /\ UNCHANGED <<source, target, restoring, mishaps>>

NameManifest ==
    /\ Taking("finishing")
    /\ file' = [file EXCEPT ![taking.of].manifest = "final"]
    /\ Takes("idle")
    /\ UNCHANGED <<source, target, restoring, mishaps>>

\* A step fails, and all four files are removed.
BackupFails ==
    /\ ~Taking("idle")
    /\ file' = [file EXCEPT ![taking.of] = NoFile]
    /\ Takes("idle")
    /\ UNCHANGED <<source, target, restoring, mishaps>>

\* The command is killed, in the middle of the dump too.
BackupKilled ==
    /\ ~Taking("idle")
    /\ file' \in {file} \cup {[file EXCEPT ![taking.of].dump = "partial", ![taking.of].data = Damaged]:
                                 stage \in {"dumping"} \cap {taking.stage}}
    /\ Takes("idle")
    /\ UNCHANGED <<source, target, restoring, mishaps>>

\* A file is damaged, or copied in part.
Damage(b) ==
    /\ file[b].dump = "final" /\ mishaps.damages < MaxDamages
    /\ file' = [file EXCEPT ![b].data = Damaged]
    /\ mishaps' = [mishaps EXCEPT !.damages = @ + 1]
    /\ UNCHANGED <<source, taking, target, restoring>>

-----------------------------------------------------------------------------
(* restoreBackup *)

\* verifyBackup, with parseManifest: both files, and the checksum of what is there.
Verified(b) == file[b].dump = "final" /\ file[b].manifest = "final" /\ file[b].data = file[b].sum

StartRestore(b) ==
    /\ Restoring("idle") /\ Verified(b)
    /\ restoring' = [stage |-> "looking", of |-> b, data |-> Nil, told |-> "nothing"]
    /\ UNCHANGED <<source, file, taking, target, mishaps>>

\* A slip: the target is not looked at.
EmptyAnyway == TRUE

\* No table that a restore fills has a row.
Empty == target.rows = Nil /\ target.strange = "none"

Look ==
    /\ Restoring("looking")
    /\ IF Empty THEN Restores("converting") ELSE Tells("refused")
    /\ UNCHANGED <<source, file, taking, target, mishaps>>

\* pg_restore reads the archive again.
Convert ==
    /\ Restoring("converting")
    /\ IF file[restoring.of].data \in {Damaged, Nil} THEN Tells("failed")
       ELSE restoring' = [restoring EXCEPT !.stage = "loading", !.data = file[restoring.of].data]
    /\ UNCHANGED <<source, file, taking, target, mishaps>>

\* One transaction: all tables are emptied, filled and checked.
Load ==
    /\ Restoring("loading")
    /\ IF restoring.data >= Usable
       THEN /\ target' = [rows |-> restoring.data, strange |-> "none",
                          lost |-> IF target.strange = "none" THEN target.lost ELSE target.strange]
            /\ Restores("checking")
       ELSE UNCHANGED target /\ Tells("failed")
    /\ UNCHANGED <<source, file, taking, mishaps>>

\* What was checked is checked again outside the transaction, when others may have written.
CheckAgain ==
    /\ Restoring("checking")
    /\ \/ Tells("restored")
       \/ target.strange # "none" /\ Tells("failed")
    /\ UNCHANGED <<source, file, taking, target, mishaps>>

\* The connection ends: before the transaction commits, or before it is known that it did.
RestoreBreaks ==
    /\ ~Restoring("idle")
    /\ Tells("failed")
    /\ UNCHANGED <<source, file, taking, target, mishaps>>

\* An application uses the target.
StrangeWrite ==
    /\ mishaps.writes < MaxForeignWrites
    /\ target' = [target EXCEPT !.strange =
           IF @ = "before" \/ restoring.stage \in {"idle", "looking"} THEN "before" ELSE "after"]
    /\ mishaps' = [mishaps EXCEPT !.writes = @ + 1]
    /\ UNCHANGED <<source, file, taking, restoring>>

-----------------------------------------------------------------------------
BackupsInit ==
    /\ source = 0
    /\ file = [b \in Archives |-> NoFile]
    /\ taking = [stage |-> "idle", of |-> Nil]
    /\ target = [rows |-> Nil, strange |-> "none", lost |-> "none"]
    /\ restoring = [stage |-> "idle", of |-> Nil, data |-> Nil, told |-> "nothing"]
    /\ mishaps = [damages |-> 0, writes |-> 0]

BackupsNext ==
    \/ SourceChanges \/ OpenDump \/ WriteManifest \/ NameDump \/ NameManifest \/ BackupFails \/ BackupKilled
    \/ \E b \in Archives: StartBackup(b) \/ Damage(b) \/ StartRestore(b)
    \/ Look \/ Convert \/ Load \/ CheckAgain \/ RestoreBreaks \/ StrangeWrite

BackupsSpec == BackupsInit /\ [][BackupsNext]_backupVars

-----------------------------------------------------------------------------
\* However a backup was stopped, one that passes its verification is all of one of the
\* contents that the source had.
VerifiedWhole == \A b \in Archives: Verified(b) => file[b].data \in 0..source

\* A restore never leaves a part: the target has what it had, or all of a usable backup.
TargetWhole == target.rows = Nil \/ target.rows \in Usable..source

\* Rows of others are overwritten only if they came after the restore had looked.
LossIsLate == target.lost # "before"

\* A restore that says so did restore, and one that was refused changed nothing.
RestoresHold ==
    /\ restoring.told = "restored" => target.rows = restoring.data
    /\ restoring.told = "refused" => restoring.data = Nil

\* backup-recovery.ts.
BackupsInv == VerifiedWhole /\ TargetWhole /\ LossIsLate /\ RestoresHold

-----------------------------------------------------------------------------
(* The inductive invariant behind it *)

Names == {"none", "partial", "final"}
Files == [dump: Names, manifest: Names, data: 0..Damaged \cup {Nil}, sum: 0..Damaged \cup {Nil}]

BackupsTyped ==
    /\ source \in 0..MaxContents
    /\ file \in [Archives -> Files]
    /\ taking \in [stage: {"idle", "dumping", "describing", "naming", "finishing"}, of: Archives \cup {Nil}]
    /\ ~Taking("idle") => taking.of \in Archives
    /\ restoring \in [stage: {"idle", "looking", "converting", "loading", "checking"},
                      of: Archives \cup {Nil}, data: 0..MaxContents \cup {Nil},
                      told: {"nothing", "refused", "failed", "restored"}]
    /\ ~Restoring("idle") => restoring.of \in Archives
    /\ target \in [rows: 0..MaxContents \cup {Nil}, strange: {"none", "before", "after"},
                   lost: {"none", "before", "after"}]

\* An archive holds one of the contents there were, unless it was damaged, and so does its
\* checksum, which is taken of an undamaged dump.
FilesWhole ==
    /\ \A b \in Archives: file[b].data \in 0..source \cup {Nil, Damaged}
    /\ \A b \in Archives: file[b].manifest # "none" => file[b].sum \in 0..source
    /\ Taking("describing") => file[taking.of].dump = "partial" /\ file[taking.of].data \in 0..source
    /\ Taking("naming") \/ Taking("finishing") => file[taking.of].manifest # "none"

\* A restore that has looked found nothing of others; what it loads was backed up.
RestoreInHand ==
    /\ ~Restoring("idle") => restoring.told = "nothing"
    /\ Restoring("looking") \/ Restoring("converting") => restoring.data = Nil
    /\ Restoring("converting") \/ Restoring("loading") => target.strange # "before"
    /\ Restoring("loading") \/ Restoring("checking") => restoring.data \in 0..source
    /\ Restoring("checking") => target.rows = restoring.data

BackupsIndInv ==
    BackupsTyped /\ FilesWhole /\ RestoreInHand /\ TargetWhole /\ LossIsLate /\ RestoresHold
=============================================================================
