----------------------------- MODULE MCInternalApi -----------------------------
(***************************************************************************)
(* A small instance of the HTTP API from both of its ends: events arrive   *)
(* (NotificationIntake with the ledger it writes), requests pass the gate  *)
(* before their handler (HttpGate), the keys they present are issued and   *)
(* revoked (IntegrationCredentials), and a page of the console makes calls *)
(* whose answers come in any order (BrowserConsole).                       *)
(*                                                                         *)
(* The four share no variable, so interleaving them shows nothing: a       *)
(* behaviour exercises one of them, its focus, while the others rest, and  *)
(* of the page it exercises one part beside what every part needs.         *)
(***************************************************************************)
EXTENDS MCNotificationIntake, HttpGate, IntegrationCredentials, BrowserConsole

CONSTANTS client, one, two, robot

FewTokens == [k \in RoutePolicies \union {"admin", "auth-failure", "login-global"} |-> IF k = "login" THEN 2 ELSE 1]

VARIABLE focus

\* A page is opened with the first of two choices, and with a session unless logins are
\* what it is about.
PanelsOf(part) ==
  CASE part = "logins" -> {"notifications"}
    [] part = "lists" -> {"dashboard", "tasks", "integrations"}
    [] part = "tasks" -> {"tasks"}
    [] part = "people" -> {"users"}
    [] OTHER -> {"system"}

Opened ==
  /\ lists.filter = one /\ lists.search = one /\ trial.type = one
  /\ page.panel \in PanelsOf(focus)
  /\ focus # "logins" => server.session = 1 /\ server.restricted = {}

ApiInit ==
  /\ focus \in {"intake", "gate", "credentials", "logins", "lists", "tasks", "people", "tests"}
  /\ IntakeInit /\ GateInit /\ CredentialsInit /\ BrowserInit /\ Opened

BrowserStep ==
  /\ \/ focus = "logins" /\ (SessionNext \/ PanelsNext)
     \/ focus = "lists" /\ (PanelsNext \/ CreationNext)
     \/ focus = "tasks" /\ (PanelsNext \/ TasksNext \/ SessionEnds) /\ lists'.filter = one
     \/ focus = "people" /\ (PanelsNext \/ PeopleNext \/ CloseDialog)
     \/ focus = "tests" /\ (PanelsNext \/ TestNext)
  /\ page'.panel \in PanelsOf(focus)

ApiNext ==
  /\ UNCHANGED focus
  /\ \/ focus = "intake" /\ IntakeNext /\ UNCHANGED <<gateVars, credentialVars, browserVars>>
     \/ focus = "gate" /\ GateNext /\ UNCHANGED <<ivars, credentialVars, browserVars>>
     \/ focus = "credentials" /\ CredentialsNext /\ UNCHANGED <<ivars, gateVars, browserVars>>
     \/ BrowserStep /\ UNCHANGED <<ivars, gateVars, credentialVars>>

\* The fairness of IntakeFairSpec, while intake is the focus.
ApiSpec ==
  /\ ApiInit /\ [][ApiNext]_<<ivars, gateVars, credentialVars, browserVars, focus>>
  /\ WF_ivars(focus = "intake" /\ \E r \in Requests : Serve(r))

\* A request for an event gets an answer or an error, never neither: waiting for
\* the request before it does not last for ever.
EveryRequestSettles == []<>(focus = "intake" => AllSettled)

==============================================================================
