----------------------------- MODULE Bootstrap -----------------------------
(***************************************************************************)
(* How an installation gets its first administrator: from the setup page   *)
(* in a browser, which creates an OWNER with the settings, or from the     *)
(* command line, for a fresh installation or one that keeps the divisions  *)
(* it has.  Several may try at once, an answer may be lost, and the bot    *)
(* registers people meanwhile: a newcomer has no division, so registering  *)
(* neither waits for a setup nor stops one.                                *)
(*                                                                         *)
(* The function that provisions is one transaction under an advisory lock; *)
(* its steps are apart where another transaction can come in between.      *)
(***************************************************************************)
EXTENDS Naturals, FiniteSets

CONSTANTS
    Tabs,           \* of one browser, on the setup page
    Operators,      \* at the command line
    Strangers,      \* who register with the bot
    MaxTries, MaxSetupFaults,   \* bounds
    NoInstaller

Installers == Tabs \cup Operators

ASSUME BootstrapAssumption ==
    /\ NoInstaller \notin Installers /\ Tabs \cap Operators = {}
    /\ MaxTries \in Nat /\ MaxSetupFaults \in Nat

VARIABLES
    db,          \* [marker: who installed, lineage, credentials: whose, authority: whose,
                 \*  settings: whether there are any, seeds: "origin" divisions of the
                 \*  migrations, "changed" or "retired" ones, registered: strangers]
    lock,        \* who holds the advisory lock
    installer,   \* per installer [stage, lineage, answer, tries]
    unseen,      \* history: strangers registered since a setup last looked for evidence
    jar,         \* whether the browser has a setup token
    setupFaults

bootVars == <<db, lock, installer, unseen, jar, setupFaults>>

Nowhere == "none"

\* What every check asks first.
Installed == db.marker # NoInstaller \/ db.credentials # {} \/ db.authority # {} \/ db.lineage # Nowhere

\* Rows that show that an installation is in use: people count, whoever created them.
Evidence == db.registered \cup db.credentials

\* Why a fresh installation is refused: somebody was here, or the divisions are not those
\* of the migrations.
FreshRefused == Evidence # {} \/ db.seeds # "origin"

AtSetup(c, stage) == installer[c].stage = stage
SetupGoes(c, stage) == installer' = [installer EXCEPT ![c].stage = stage]
SetupEnds(c, stage, answer) == installer' = [installer EXCEPT ![c].stage = stage, ![c].answer = answer]

\* A person on the page may try again; a command has ended.
Back(c) == IF c \in Tabs THEN "form" ELSE "ended"

-----------------------------------------------------------------------------
(* Looking before *)

\* getStatus: the marker, and if there is none the two counts.
ReadMarker(c) ==
    /\ c \in Tabs /\ AtSetup(c, "new")
    /\ IF db.marker = NoInstaller THEN SetupGoes(c, "counting") ELSE SetupEnds(c, "ended", "installed")
    /\ UNCHANGED <<db, lock, unseen, jar, setupFaults>>

ReadCounts(c) ==
    /\ AtSetup(c, "counting")
    /\ IF db.credentials = {} /\ db.authority = {}
       THEN SetupGoes(c, "form") /\ jar' = TRUE
       ELSE SetupEnds(c, "ended", "installed") /\ UNCHANGED jar
    /\ UNCHANGED <<db, lock, unseen, setupFaults>>

Reload(c) ==
    /\ c \in Tabs
    /\ AtSetup(c, "form") \/ (AtSetup(c, "ended") /\ installer[c].answer = "unknown")
    /\ installer[c].tries < MaxTries
    /\ installer' = [installer EXCEPT ![c].stage = "new", ![c].tries = @ + 1]
    /\ UNCHANGED <<db, lock, unseen, jar, setupFaults>>

\* runSetup: the preview is refused for the reasons for which the function would refuse.
Preview(c) ==
    /\ c \in Operators /\ AtSetup(c, "new")
    /\ \/ Installed /\ SetupEnds(c, "ended", "installed")
       \/ /\ ~Installed /\ installer[c].lineage = "FRESH"
          /\ IF FreshRefused THEN SetupEnds(c, "ended", "vetoed") ELSE SetupGoes(c, "form")
       \/ ~Installed /\ installer[c].lineage = "LEGACY" /\ SetupGoes(c, "form")
    /\ UNCHANGED <<db, lock, unseen, jar, setupFaults>>

Rerun(c) ==
    /\ c \in Operators /\ AtSetup(c, "ended") /\ installer[c].tries < MaxTries
    /\ \E lineage \in {"FRESH", "LEGACY"}:
          installer' = [installer EXCEPT ![c] = [stage |-> "new", lineage |-> lineage, answer |-> "", tries |-> @.tries + 1]]
    /\ UNCHANGED <<db, lock, unseen, jar, setupFaults>>

-----------------------------------------------------------------------------
(* The provisioning *)

\* The page sends the token it finds in the browser now; the password is hashed meanwhile.
SubmitSetup(c) ==
    /\ AtSetup(c, "form") /\ installer[c].tries < MaxTries
    /\ installer' = [installer EXCEPT ![c].tries = @ + 1,
           ![c].stage = IF c \in Tabs /\ ~jar THEN "form" ELSE "posted",
           ![c].answer = IF c \in Tabs /\ ~jar THEN "forbidden" ELSE ""]
    /\ UNCHANGED <<db, lock, unseen, jar, setupFaults>>

TakeLock(c) ==
    /\ AtSetup(c, "posted") /\ lock = NoInstaller
    /\ lock' = c
    /\ SetupGoes(c, "locked")
    /\ UNCHANGED <<db, unseen, jar, setupFaults>>

\* A slip: the evidence is looked at before anything else.
SetupVerdictEvidence(c) ==
    IF installer[c].lineage = "FRESH" /\ FreshRefused THEN "vetoed"
    ELSE IF Installed THEN "installed" ELSE "eligible"

\* What provision_first_installation finds before it changes anything.
SetupVerdict(c) ==
    IF Installed THEN "installed"
    ELSE IF installer[c].lineage = "FRESH" /\ FreshRefused THEN "vetoed" ELSE "eligible"

CheckInstallation(c) ==
    /\ AtSetup(c, "locked")
    /\ IF SetupVerdict(c) = "eligible"
       THEN /\ SetupGoes(c, IF installer[c].lineage = "FRESH" THEN "auditing" ELSE "creating")
            /\ UNCHANGED lock
       ELSE SetupEnds(c, Back(c), SetupVerdict(c)) /\ lock' = NoInstaller
    /\ UNCHANGED <<db, unseen, jar, setupFaults>>

\* A fresh installation counts the audit rows before it deletes the divisions of the
\* migrations, and so finds who registered since its first look.
AuditAgain(c) ==
    /\ AtSetup(c, "auditing")
    /\ IF db.registered # {}
       THEN SetupEnds(c, Back(c), "vetoed") /\ lock' = NoInstaller /\ UNCHANGED unseen
       ELSE SetupGoes(c, "creating") /\ unseen' = {} /\ UNCHANGED lock
    /\ UNCHANGED <<db, jar, setupFaults>>

\* provision_first_owner goes on with role, settings and business actor.
BringsSettings(c) == c \in Tabs

CommitInstallation(c) ==
    /\ AtSetup(c, "creating")
    /\ db' = [marker |-> c, lineage |-> installer[c].lineage, credentials |-> {c}, authority |-> {c},
              settings |-> BringsSettings(c), registered |-> db.registered,
              seeds |-> IF installer[c].lineage = "FRESH" THEN "retired" ELSE db.seeds]
    /\ lock' = NoInstaller
    /\ SetupGoes(c, "committed")
    /\ UNCHANGED <<unseen, jar, setupFaults>>

\* A step after the checks is refused, such as settings that are not valid: nothing remains.
ProvisioningRefused(c) ==
    /\ AtSetup(c, "creating")
    /\ SetupEnds(c, Back(c), "failed")
    /\ lock' = NoInstaller
    /\ UNCHANGED <<db, unseen, jar, setupFaults>>

\* The answer takes the token away from every tab of the browser.
AnswerInstalled(c) ==
    /\ AtSetup(c, "committed")
    /\ SetupEnds(c, "ended", "created")
    /\ jar' = IF c \in Tabs THEN FALSE ELSE jar
    /\ UNCHANGED <<db, lock, unseen, setupFaults>>

-----------------------------------------------------------------------------
(* Around it *)

\* register_telegram_identity: a newcomer without a division, whatever a setup is doing.
RegisterStranger(s) ==
    /\ s \notin db.registered
    /\ db' = [db EXCEPT !.registered = @ \cup {s}]
    /\ unseen' = unseen \cup {s}
    /\ UNCHANGED <<lock, installer, jar, setupFaults>>

SetupFault ==
    /\ setupFaults < MaxSetupFaults
    /\ setupFaults' = setupFaults + 1

\* The connection breaks: the transaction is rolled back, or only its answer is lost.
SetupBreaks(c) ==
    /\ SetupFault
    /\ installer[c].stage \in {"counting", "posted", "locked", "auditing", "creating", "committed"}
    /\ SetupEnds(c, IF AtSetup(c, "counting") THEN "ended" ELSE Back(c), "unknown")
    /\ lock' = IF lock = c THEN NoInstaller ELSE lock
    /\ UNCHANGED <<db, unseen, jar>>

-----------------------------------------------------------------------------
BootstrapInit ==
    /\ \E seeds \in {"origin", "changed"}:
          db = [marker |-> NoInstaller, lineage |-> Nowhere, credentials |-> {}, authority |-> {},
                settings |-> FALSE, seeds |-> seeds, registered |-> {}]
    /\ lock = NoInstaller
    /\ installer \in [Installers -> [stage: {"new"}, lineage: {"FRESH", "LEGACY"}, answer: {""}, tries: {0}]]
    /\ \A c \in Tabs: installer[c].lineage = "FRESH"
    /\ unseen = {} /\ jar = FALSE /\ setupFaults = 0

BootstrapNext ==
    \/ \E c \in Installers:
          \/ ReadMarker(c) \/ ReadCounts(c) \/ Reload(c) \/ Preview(c) \/ Rerun(c)
          \/ SubmitSetup(c) \/ TakeLock(c) \/ CheckInstallation(c) \/ AuditAgain(c)
          \/ CommitInstallation(c) \/ ProvisioningRefused(c) \/ AnswerInstalled(c) \/ SetupBreaks(c)
    \/ \E s \in Strangers: RegisterStranger(s)

BootstrapSpec == BootstrapInit /\ [][BootstrapNext]_bootVars

-----------------------------------------------------------------------------
\* A fresh installation declares that nobody was there: whoever is registered came after it
\* last looked.
FreshMeansEmpty == db.lineage = "FRESH" => db.registered \subseteq unseen

\* Whoever is told of an installation is told the truth about whose it is.
ToldTheTruth ==
    \A c \in Installers:
        /\ installer[c].answer = "created" => db.marker = c
        /\ installer[c].answer = "installed" => db.marker # NoInstaller
        /\ installer[c].answer = "forbidden" => db.marker \in Tabs

\* Who installed, and lost the answer, is never told on a retry that it cannot be done.
RetriesFindIt ==
    \A c \in Installers: db.marker = c => installer[c].answer \notin {"vetoed", "failed"}

\* provision_first_installation, provision_first_owner, setup.routes.ts, setup.ts.
BootstrapInv == FreshMeansEmpty /\ ToldTheTruth /\ RetriesFindIt
=============================================================================
