-------------------------- MODULE MCAdministration --------------------------
(***************************************************************************)
(* A small installation: two people, two divisions.  Who administers it    *)
(* (SystemAuthority), how its settings are edited (RuntimeSettings), the   *)
(* tasks with the consoles they are worked on in (TelegramConsoles), the   *)
(* imports that create tasks (TaskIngestion), the sessions of one          *)
(* administrator (AdminSessions), the console that edits people            *)
(* (UserAccess), the chats that become people (TelegramIdentity) and the   *)
(* installation itself (Bootstrap) share no variable, so interleaving them *)
(* shows nothing: a behaviour exercises one of them, its focus, while the  *)
(* others rest.                                                            *)
(*                                                                         *)
(* Tasks have two foci: "conversations" lets the bot's conversations run,  *)
(* with faults and changes of the organisation; "tasks" lets the calls of  *)
(* the bot's buttons and of the web console overlap on one task.           *)
(***************************************************************************)
EXTENDS SystemAuthority, RuntimeSettings, TelegramConsoles, TaskIngestion,
    AdminSessions, UserAccess, TelegramIdentity, Bootstrap, TLC

CONSTANTS u1, u2, d1, d2, owner, staff, standard, custom,
    p1, p2, north, south, one, two, number, clerk, robot

VARIABLE focus

\* Tasks, batches, requests and editing pages are numbered alike.  While its module rests
\* none of them is told from another, so the numbers stay interchangeable.  People and
\* units are told apart by where they begin: p1 in the unit north.
Symmetry == Permutations({one, two})

Everything == [p \in People |-> Permissions]

authorityVars == vars
allTaskVars == <<taskVars, consoleVars>>

AuthorityRests == Init /\ designated = u1 /\ account[u1].division = d1
SettingsRest == SettingsInit /\ saved.value = None /\ saved.actor = None
TasksRest ==
    /\ ConsolesInit
    /\ admins = {} /\ task = [t \in Tasks |-> Null] /\ speaker = p1 /\ home[p2] = north
SessionsRest == SessionsInit /\ credential = [password |-> standard, mustChange |-> FALSE]

BootstrapRests ==
    BootstrapInit /\ db.seeds = "origin" /\ \A c \in Installers: installer[c].lineage = "FRESH"

AdministrationInit ==
    /\ focus \in {"authority", "settings", "conversations", "tasks", "imports", "sessions",
                 "access", "identity", "bootstrap"}
    /\ IF focus = "authority" THEN Init ELSE AuthorityRests
    /\ IF focus = "settings" THEN SettingsInit /\ saved.value = None ELSE SettingsRest
    /\ CASE focus = "conversations" -> ConsolesInit /\ admins = {} /\ speaker = p1
         [] focus = "tasks" -> ConsolesInit /\ admins = {p1}
         [] OTHER -> TasksRest
    /\ home[p1] = north
    /\ IngestionInit
    /\ AccessInit /\ IdentityInit
    /\ IF focus = "bootstrap" THEN BootstrapInit ELSE BootstrapRests
    /\ IF focus = "sessions" THEN SessionsInit /\ credential.password = standard ELSE SessionsRest

Converse ==
    /\ admins' = {}
    /\ ConsolesNext
    /\ \A c \in Callers \ {Bot}: work'[c] = Null

Overlap ==
    /\ chat' = Null
    /\ UNCHANGED <<organisation, requestFaults>>
    /\ ConsolesNext
    /\ Cardinality({t \in Tasks: task'[t] # Null}) <= 1

peopleVars == <<accessVars, identityVars, bootVars>>
coreVars == <<authorityVars, settingsVars, allTaskVars, ingestionVars, sessionVars>>

AdministrationNext ==
    /\ UNCHANGED focus
    /\ \/ /\ UNCHANGED peopleVars
          /\ \/ focus = "authority" /\ Next
                  /\ UNCHANGED <<settingsVars, allTaskVars, ingestionVars, sessionVars>>
             \/ focus = "settings" /\ SettingsNext
                  /\ UNCHANGED <<authorityVars, allTaskVars, ingestionVars, sessionVars>>
             \/ focus = "conversations" /\ Converse
                  /\ UNCHANGED <<authorityVars, settingsVars, ingestionVars, sessionVars>>
             \/ focus = "tasks" /\ Overlap
                  /\ UNCHANGED <<authorityVars, settingsVars, ingestionVars, sessionVars>>
             \/ focus = "imports" /\ IngestionNext
                  /\ UNCHANGED <<authorityVars, settingsVars, allTaskVars, sessionVars>>
             \/ focus = "sessions" /\ SessionsNext
                  /\ UNCHANGED <<authorityVars, settingsVars, allTaskVars, ingestionVars>>
       \/ /\ UNCHANGED coreVars
          /\ \/ focus = "access" /\ AccessNext /\ UNCHANGED <<identityVars, bootVars>>
             \/ focus = "identity" /\ IdentityNext /\ UNCHANGED <<accessVars, bootVars>>
             \/ focus = "bootstrap" /\ BootstrapNext /\ UNCHANGED <<accessVars, identityVars>>

Administration ==
    AdministrationInit /\ [][AdministrationNext]_<<coreVars, peopleVars, focus>>
=============================================================================
