----------------------------- MODULE Environment -----------------------------
(***************************************************************************)
(* The environment a process is configured by.  On the server it is a file *)
(* that install-env.sh puts in place after checks of its own, written in   *)
(* another language than those of loadConfig, which the process makes when *)
(* it starts; on a developer's machine only the latter are made.           *)
(***************************************************************************)
EXTENDS Naturals

CONSTANT NoFileYet

VARIABLES
    written,     \* what somebody has prepared
    installed,   \* the file on the server, or NoFileYet
    serving      \* what a process runs with, or NoFileYet

environmentVars == <<written, installed, serving>>

\* "other" is any other word, such as yes.
Words == {"true", "false", "other"}

\* Of the variables, what is decided by: whether every required one is there once and not
\* empty, and whether a number, a zone or the like is malformed.  That install-env.sh also
\* refuses the secrets of a deployment changes nothing for the process.
Contents == [complete: BOOLEAN, malformed: BOOLEAN,
             fallback: Words, adminKey: {"none", "short", "long"},
             host: {"127.0.0.1", "localhost", "public"}, secure: Words, proxy: Words,
             scheduler: Words, evaluator: Words]

\* A slip: the administrator's key is not looked at.
AcceptsAnyKey(e) ==
    /\ e.complete
    /\ {e.fallback, e.secure, e.proxy, e.scheduler, e.evaluator} \subseteq {"true", "false"}
    /\ e.host = "127.0.0.1" /\ e.secure = "true" /\ e.proxy = "true"
    /\ e.evaluator = "true" => e.scheduler = "true"

\* install-env.sh.
Accepts(e) ==
    /\ e.complete
    /\ {e.fallback, e.secure, e.proxy, e.scheduler, e.evaluator} \subseteq {"true", "false"}
    /\ e.adminKey # "short" /\ (e.fallback = "true" => e.adminKey = "long")
    /\ e.host = "127.0.0.1" /\ e.secure = "true" /\ e.proxy = "true"
    /\ e.evaluator = "true" => e.scheduler = "true"

\* parsePort, parseSchedulerInterval, parseBusinessTimeZone and the like.
ValuesParse(e) == ~e.malformed

\* optionalMinimumLengthEnv: a key that is there is long enough.
KeyParses(e) == e.adminKey # "short"

\* parseBoolean takes two words; === "true" takes any other for false.
FlagsParse(e) == "other" \notin {e.fallback, e.secure, e.proxy}
On(word) == word = "true"

IsLoopbackHost(host) == host \in {"127.0.0.1", "localhost"}

\* loadConfig does not throw.
Loads(e, production) ==
    /\ e.complete /\ ValuesParse(e) /\ KeyParses(e) /\ FlagsParse(e)
    /\ On(e.fallback) => e.adminKey # "none"
    /\ ~On(e.secure) => IsLoopbackHost(e.host) /\ ~On(e.proxy)
    /\ production => IsLoopbackHost(e.host) /\ On(e.secure) /\ On(e.proxy)
    /\ On(e.evaluator) => On(e.scheduler)

-----------------------------------------------------------------------------
\* With --replace, over one that is there.
InstallEnvironment ==
    /\ Accepts(written)
    /\ installed' = written
    /\ UNCHANGED <<written, serving>>

\* configure-local-bind.sh rewrites the file in place.
ConfigureLocalBind ==
    /\ installed # NoFileYet
    /\ installed' = [installed EXCEPT !.host = "127.0.0.1"]
    /\ UNCHANGED <<written, serving>>

StartService ==
    /\ installed # NoFileYet
    /\ serving' = IF Loads(installed, TRUE) THEN installed ELSE NoFileYet
    /\ UNCHANGED <<written, installed>>

\* On a machine without the file.
StartDevelopment ==
    /\ installed = NoFileYet
    /\ serving' = IF Loads(written, FALSE) THEN written ELSE NoFileYet
    /\ UNCHANGED <<written, installed>>

EnvironmentInit == written \in Contents /\ installed = NoFileYet /\ serving = NoFileYet

EnvironmentNext == InstallEnvironment \/ ConfigureLocalBind \/ StartService \/ StartDevelopment

EnvironmentSpec == EnvironmentInit /\ [][EnvironmentNext]_environmentVars

-----------------------------------------------------------------------------
\* The service starts with whatever install-env.sh let through, unless a value is malformed
\* that the script does not look at.
InstalledStarts == installed # NoFileYet /\ ValuesParse(installed) => Loads(installed, TRUE)

\* Cookies that travel in the clear stay on the machine, and alerts are not evaluated without
\* the reminders they are about.
ServesSafely ==
    serving # NoFileYet =>
        /\ ~On(serving.secure) => IsLoopbackHost(serving.host) /\ ~On(serving.proxy)
        /\ On(serving.evaluator) => On(serving.scheduler)

\* install-env.sh, configure-local-bind.sh, config/env.ts.
EnvironmentInv == InstalledStarts /\ ServesSafely

\* The inductive invariant behind it: what the file says is what the variables can say.
EnvironmentIndInv ==
    EnvironmentInv /\ written \in Contents /\ installed \in Contents \cup {NoFileYet}
=============================================================================
