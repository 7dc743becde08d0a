------------------------------ MODULE Releases ------------------------------
(***************************************************************************)
(* The releases on the server: deploy-release.sh and rollback.sh move the  *)
(* link `current` from one to another, by way of `current.next`, and the   *)
(* service starts in whatever `current` is when it starts.  Operators may  *)
(* run the scripts side by side, and any of them may stop at any step, for *)
(* a command that fails or for a connection that ends.                     *)
(*                                                                         *)
(* A release brings all migrations up to its level.  Migrations are        *)
(* applied one by one and never taken back; the Supabase tool refuses a    *)
(* database with migrations that the release does not know.                *)
(***************************************************************************)
EXTENDS Naturals, FiniteSets

CONSTANTS
    Shells,     \* in which the scripts run
    Packages,   \* the releases there are to deploy
    LevelOf,    \* the last migration of each
    NoRelease,
    MaxScripts  \* a bound

ASSUME ReleasesAssumption == LevelOf \in [Packages -> Nat] /\ NoRelease \notin Packages

VARIABLES
    shell,     \* [script, stage, release, from: what a rollback found as current]
    disk,      \* [dirs: of releases, current, next, previous: what the links and the file
               \*  name, inside: the links that were made inside a release]
    schema,    \* migrations in the database
    scripts,   \* that were started
    service,   \* the release it runs
    seen       \* [passed: through the gate, current: been so, told: reported as deployed,
               \*  tangled: whether a link went inside a release]

releaseVars == <<shell, disk, schema, scripts, service, seen>>

Begun(script, stage, r) == [script |-> script, stage |-> stage, release |-> r, from |-> NoRelease]
NoScript == Begun("none", "idle", NoRelease)

Runs(s, script, stage) == shell[s].script = script /\ shell[s].stage = stage
Moves(s, stage) == shell' = [shell EXCEPT ![s].stage = stage]
MovesOr(s, ok, stage) == shell' = [shell EXCEPT ![s] = IF ok THEN [@ EXCEPT !.stage = stage] ELSE NoScript]

-----------------------------------------------------------------------------
(* deploy-release.sh *)

\* The release is not there yet; the directory is made after that was seen.
CheckRelease(s, r) ==
    /\ shell[s] = NoScript /\ scripts < MaxScripts /\ scripts' = scripts + 1 /\ r \notin disk.dirs
    /\ shell' = [shell EXCEPT ![s] = Begun("deploy", "unpacking", r)]
    /\ UNCHANGED <<disk, schema, service, seen>>

Unpack(s) ==
    /\ Runs(s, "deploy", "unpacking")
    /\ disk' = [disk EXCEPT !.dirs = @ \cup {shell[s].release}]
    /\ Moves(s, "migrating")
    /\ UNCHANGED <<scripts, schema, service, seen>>

ApplyMigration(s) ==
    /\ Runs(s, "deploy", "migrating") /\ schema < LevelOf[shell[s].release]
    /\ schema' = schema + 1
    /\ UNCHANGED <<scripts, shell, disk, service, seen>>

\* A slip: a deployment goes on although a migration failed.
MigratedAnyway(r) == TRUE

\* npm run migrate succeeds: nothing is pending, and nothing is unknown.
Migrated(r) == schema = LevelOf[r]

PassGate(s) ==
    /\ Runs(s, "deploy", "migrating") /\ Migrated(shell[s].release)
    /\ seen' = [seen EXCEPT !.passed = @ \cup {shell[s].release}]
    /\ Moves(s, "recording")
    /\ UNCHANGED <<scripts, disk, schema, service>>

RecordPrevious(s) ==
    /\ Runs(s, "deploy", "recording")
    /\ disk' = IF disk.current = NoRelease THEN disk ELSE [disk EXCEPT !.previous = disk.current]
    /\ Moves(s, "linking")
    /\ UNCHANGED <<scripts, schema, service, seen>>

-----------------------------------------------------------------------------
(* rollback.sh *)

ReadPrevious(s) ==
    /\ shell[s] = NoScript /\ scripts < MaxScripts /\ scripts' = scripts + 1 /\ disk.previous # NoRelease /\ disk.previous \in disk.dirs
    /\ shell' = [shell EXCEPT ![s] = Begun("rollback", "reading", disk.previous)]
    /\ UNCHANGED <<disk, schema, service, seen>>

ReadCurrent(s) ==
    /\ Runs(s, "rollback", "reading")
    /\ shell' = [shell EXCEPT ![s].from = disk.current, ![s].stage = "linking"]
    /\ UNCHANGED <<scripts, disk, schema, service, seen>>

WritePrevious(s) ==
    /\ Runs(s, "rollback", "writing")
    /\ disk' = [disk EXCEPT !.previous = shell[s].from]
    /\ Moves(s, "restarting")
    /\ UNCHANGED <<scripts, schema, service, seen>>

-----------------------------------------------------------------------------
(* Both *)

\* ln -s: through a link that is there already, the new one goes inside the directory that
\* it names, and fails if there is one of that name.
LinkNext(s) ==
    /\ shell[s].stage = "linking"
    /\ LET stray == <<disk.next, shell[s].release>>
       IN IF disk.next = NoRelease
          THEN /\ disk' = [disk EXCEPT !.next = shell[s].release]
               /\ Moves(s, "switching") /\ UNCHANGED seen
          ELSE /\ disk' = [disk EXCEPT !.inside = @ \cup {stray}]
               /\ seen' = [seen EXCEPT !.tangled = TRUE]
               /\ MovesOr(s, stray \notin disk.inside, "switching")
    /\ UNCHANGED <<scripts, schema, service>>

\* mv -Tf: in one step, whatever the link names.
Switch(s) ==
    /\ shell[s].stage = "switching"
    /\ IF disk.next = NoRelease
       THEN UNCHANGED <<disk, seen>>
       ELSE /\ disk' = [disk EXCEPT !.current = disk.next, !.next = NoRelease]
            /\ seen' = [seen EXCEPT !.current = @ \cup {disk.next}]
    /\ MovesOr(s, disk.next # NoRelease, IF shell[s].script = "deploy" THEN "restarting" ELSE "writing")
    /\ UNCHANGED <<scripts, schema, service>>

Restart(s) ==
    /\ shell[s].stage = "restarting"
    /\ service' = disk.current
    /\ Moves(s, "awaiting")
    /\ UNCHANGED <<scripts, disk, schema, seen>>

\* The service answers on /ready.
ReportDeployed(s) ==
    /\ shell[s].stage = "awaiting"
    /\ seen' = IF shell[s].script = "deploy" THEN [seen EXCEPT !.told = @ \cup {shell[s].release}] ELSE seen
    /\ shell' = [shell EXCEPT ![s] = NoScript]
    /\ UNCHANGED <<scripts, disk, schema, service>>

\* set -e, or the end of the connection.
StopScript(s) ==
    /\ shell[s] # NoScript
    /\ shell' = [shell EXCEPT ![s] = NoScript]
    /\ UNCHANGED <<scripts, disk, schema, service, seen>>

\* Restart=on-failure, and a boot.
ServiceStarts ==
    /\ disk.current # NoRelease /\ service # disk.current
    /\ service' = disk.current
    /\ UNCHANGED <<scripts, shell, disk, schema, seen>>

-----------------------------------------------------------------------------
ReleasesInit ==
    /\ shell = [s \in Shells |-> NoScript]
    /\ disk = [dirs |-> {}, current |-> NoRelease, next |-> NoRelease, previous |-> NoRelease, inside |-> {}]
    /\ schema = 0 /\ scripts = 0 /\ service = NoRelease
    /\ seen = [passed |-> {}, current |-> {}, told |-> {}, tangled |-> FALSE]

ReleasesNext ==
    \/ \E s \in Shells:
          \/ \E r \in Packages: CheckRelease(s, r)
          \/ Unpack(s) \/ ApplyMigration(s) \/ PassGate(s) \/ RecordPrevious(s)
          \/ ReadPrevious(s) \/ ReadCurrent(s) \/ WritePrevious(s)
          \/ LinkNext(s) \/ Switch(s) \/ Restart(s) \/ ReportDeployed(s) \/ StopScript(s)
    \/ ServiceStarts

ReleasesSpec == ReleasesInit /\ [][ReleasesNext]_releaseVars

-----------------------------------------------------------------------------
\* Whatever may come to run, by a deployment, a rollback or a leftover link, has all its
\* migrations in the database.
NeverAhead ==
    \A r \in {disk.current, disk.next, disk.previous, service} \ {NoRelease}:
        r \in seen.passed /\ LevelOf[r] <= schema

\* What a rollback would go back to has been current.
RollbackKnown == disk.previous \in seen.current \cup {NoRelease}

\* A deployment that is reported has made its release current, unless a link of another
\* that stopped half-way was in its way.
ReportsHold == ~seen.tangled => seen.told \subseteq seen.current

\* deploy-release.sh, rollback.sh, migrate.ts.
ReleasesInv == NeverAhead /\ RollbackKnown /\ ReportsHold

-----------------------------------------------------------------------------
(* The inductive invariant behind it *)

Links == Packages \cup {NoRelease}
Stages == {"idle", "unpacking", "migrating", "recording", "reading", "linking", "switching",
           "writing", "restarting", "awaiting"}

ReleasesTyped ==
    /\ shell \in [Shells -> [script: {"none", "deploy", "rollback"}, stage: Stages,
                             release: Links, from: Links]]
    /\ disk \in [dirs: SUBSET Packages, current: Links, next: Links, previous: Links,
                 inside: SUBSET (Links \X Links)]
    /\ seen \in [passed: SUBSET Packages, current: SUBSET Packages, told: SUBSET Packages,
                 tangled: BOOLEAN]
    /\ schema \in Nat /\ service \in Links

\* What went through the gate stays within the database.
GateHeld == \A r \in seen.passed: LevelOf[r] <= schema

\* What a script is about to link, or to write down, went through the gate, and was
\* current if a rollback is to go back to it.
ScriptsPassed ==
    \A s \in Shells:
        /\ shell[s].script = "deploy" => shell[s].release # NoRelease
        /\ shell[s].stage \notin {"idle", "unpacking", "migrating"} =>
              shell[s].release \in seen.passed
        /\ shell[s].from \in (seen.passed \cap seen.current) \cup {NoRelease}
        /\ shell[s].stage \in {"unpacking", "migrating", "recording"} =>
              shell[s].script = "deploy"

LinksPassed ==
    /\ {disk.current, disk.next, disk.previous, service} \subseteq seen.passed \cup {NoRelease}
    /\ {disk.current, disk.previous} \subseteq seen.current \cup {NoRelease}

\* As long as no link went inside a release, `current.next` is that of the one script
\* about to switch, and a deployment past the switch has made its release current.
Untangled ==
    ~seen.tangled =>
        /\ seen.told \subseteq seen.current
        /\ \A s \in Shells: shell[s].stage = "switching" => disk.next = shell[s].release
        /\ \A s, t \in Shells:
              shell[s].stage = "switching" /\ shell[t].stage = "switching" => s = t
        /\ \A s \in Shells:
              shell[s].script = "deploy" /\ shell[s].stage \in {"restarting", "awaiting"} =>
                  shell[s].release \in seen.current

ReleasesIndInv == ReleasesTyped /\ GateHeld /\ ScriptsPassed /\ LinksPassed /\ Untangled
=============================================================================
