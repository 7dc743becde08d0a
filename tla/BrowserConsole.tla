--------------------------- MODULE BrowserConsole ---------------------------
(***************************************************************************)
(* One page of the administration console, in one browser.  It holds no    *)
(* authority; what is hard about it is that every call is a promise: while *)
(* one is under way the person clicks on, the session ends, and the        *)
(* answers come back in any order.                                         *)
(*                                                                         *)
(* Calls are slots of `net`.  An answer says what the server made of the   *)
(* call: "ok", "refused" (4xx), "unauthorized" (401) or "unknown" (5xx, or *)
(* no answer at all).  The actions below are the functions that go on when *)
(* a promise settles, and the things a person may do meanwhile; what a     *)
(* modal dialog covers cannot be clicked.                                  *)
(***************************************************************************)
EXTENDS Naturals, FiniteSets

CONSTANTS
    Tasks,
    Filters,    \* of the task list
    Searches,   \* of the list of people
    Integrations,
    Types, Addressees,  \* of test notifications
    Slots,      \* calls that may be under way at once
    MaxLogins, MaxRequests, MaxIssued,  \* bounds
    NoOne       \* no task, no filter, no request

Panels == {"dashboard", "tasks", "integrations", "notifications", "users", "system"}

ASSUME BrowserAssumption ==
    /\ NoOne \notin Tasks \cup Filters \cup Searches \cup Integrations \cup Types \cup Addressees
    /\ NoOne \notin Nat /\ NoOne \notin {"create", "edit", "status", "cancel", "administrator"}
    /\ MaxLogins \in Nat /\ MaxRequests \in Nat /\ MaxIssued \in Nat

VARIABLES
    server,   \* [session: the login its cookie stands for or 0, logins: how many there were,
              \*  restricted: those that must change their password first]
    page,     \* [view, login, panel]: login 0 for a principal without a name, NoOne for none
    lists,    \* [filter, rows: the filter whose tasks are listed, search, catalogs: whether
              \*  they are loaded, people: the searches whose people are listed,
              \*  keys: the integration its title names or none, the one whose keys are listed,
              \*  shown: the login for which a panel's lists were loaded, or 0]
    work,     \* [task: selectedTask, open: its panel, dialog, form: the task the dialog shows,
              \*  busy: dialogs that are held and cannot be submitted]
    trial,    \* [ready: its card, type, recipient, request: pendingTestRequestId, disabled]
    secret,   \* the temporary password on show, or 0, and whether "saved" is ticked
    net,
    past      \* history: [strays: an answer for an earlier login was shown, crossed: list answers
              \*  overlapped, swapped: the task changed under the open dialog, requests: test
              \*  notifications sent, unknown: the last of them if its outcome is open,
              \*  issued, kept: temporary passwords, doubled: two were asked for at once]

browserVars == <<server, page, lists, work, trial, secret, net, past>>

Idle == [kind |-> "idle"]

Calling(kind) == \E s \in Slots: net[s].kind = kind

\* createApiClient sends what the cookie says now.
Call(kind, about) == [kind |-> kind, about |-> about, as |-> server.session]

Sends(kind, about) == \E s \in Slots: net[s] = Idle /\ net' = [net EXCEPT ![s] = Call(kind, about)]

\* A promise that settled, and its slot used again for the call that follows.
Settles(s) == net' = [net EXCEPT ![s] = Idle]
Follows(s, kind, about) == net' = [net EXCEPT ![s] = Call(kind, about)]

\* What the server may answer: 401 once the session a call was sent with is over.
Answers(s) ==
    {"unknown"} \cup (IF net[s].as = 0 THEN {} ELSE {"ok", "refused"})
                \cup (IF net[s].as = 0 \/ net[s].as # server.session THEN {"unauthorized"} ELSE {})

-----------------------------------------------------------------------------
(* Sessions *)

showLogin == [page EXCEPT !.view = "login", !.login = NoOne]

\* onUnauthorized of the client.
Unauthorized == IF page.login = NoOne THEN page ELSE showLogin

\* What a call that went out with handleUnauthorized does to the page.
PageAfter(answer) == IF answer = "unauthorized" THEN Unauthorized ELSE page

\* enterApplication, without the navigation it ends in.
Entered(login, restricted) ==
    [page EXCEPT !.view = IF restricted THEN "password" ELSE "shell", !.login = login]

\* What navigate and the loaders empty before they ask for its contents.
Emptied(panel) ==
    CASE panel = "tasks" -> [lists EXCEPT !.rows = NoOne, !.shown[panel] = 0]
      [] panel = "users" -> [lists EXCEPT !.people = {}, !.shown[panel] = 0]
      [] panel = "integrations" -> [lists EXCEPT !.keys.title = NoOne, !.shown[panel] = 0]
      [] OTHER -> [lists EXCEPT !.shown[panel] = 0]

\* The call navigate makes for a panel; `for` is a dialog that waits for it, if any.
LoadOf(panel, for) ==
    CASE panel = "tasks" -> Call("list", [filter |-> lists.filter, for |-> for])
      [] panel = "users" -> Call(IF lists.catalogs THEN "people" ELSE "context",
                                 [search |-> lists.search, for |-> for])
      [] OTHER -> Call("load", [panel |-> panel, for |-> for])

\* An answer that is shown although the page has another principal by now.
Stray(s) == page.login # NoOne /\ net[s].as # page.login
TakenUp(s) == past' = [past EXCEPT !.strays = @ \/ Stray(s)]

Enters(s, login, restricted) ==
    /\ page' = Entered(login, restricted)
    /\ IF restricted
       THEN Settles(s) /\ UNCHANGED lists
       ELSE /\ net' = [net EXCEPT ![s] = [LoadOf(page.panel, NoOne) EXCEPT !.as = server'.session]]
            /\ lists' = Emptied(page.panel)

\* initializeApplication, once setup is known to be complete.
initializeApplication(s) ==
    /\ page.view = "blank" /\ net[s] = Idle
    /\ server' = server
    /\ \/ /\ server.session # 0
          /\ Enters(s, server.session, server.session \in server.restricted)
       \/ page' = showLogin /\ UNCHANGED <<lists, net>>
    /\ UNCHANGED <<work, trial, secret, past>>

\* A dialog that was open when the session ended still covers the login form.
SubmitLogin ==
    /\ page.view = "login" /\ work.dialog = NoOne /\ secret.value = 0 /\ ~Calling("login")
    /\ Sends("login", NoOne)
    /\ UNCHANGED <<server, page, lists, work, trial, secret, past>>

\* The server may open a session whose answer is lost.
LoginAnswered(s) ==
    /\ net[s].kind = "login"
    /\ \/ UNCHANGED <<server, page, lists>> /\ Settles(s)
       \/ /\ server.logins < MaxLogins
          /\ \E restricted \in BOOLEAN:
                LET login == server.logins + 1
                IN /\ server' = [server EXCEPT !.session = login, !.logins = login,
                        !.restricted = IF restricted THEN @ \cup {login} ELSE @]
                   /\ \/ Settles(s) /\ UNCHANGED <<page, lists>>
                      \/ Enters(s, login, restricted)
    /\ UNCHANGED <<work, trial, secret, past>>

SubmitLogout ==
    /\ page.view \in {"shell", "password"} /\ work.dialog = NoOne /\ secret.value = 0
    /\ Sends("logout", NoOne)
    /\ UNCHANGED <<server, page, lists, work, trial, secret, past>>

LogoutAnswered(s) ==
    /\ net[s].kind = "logout"
    /\ Settles(s)
    /\ \E answer \in Answers(s):
          /\ page' = IF answer \in {"ok", "unauthorized"} THEN showLogin ELSE page
          /\ server' \in IF net[s].as # server.session \/ answer \in {"unauthorized", "refused"} THEN {server}
                         ELSE {[server EXCEPT !.session = 0]} \cup (IF answer = "unknown" THEN {server} ELSE {})
    /\ UNCHANGED <<lists, work, trial, secret, past>>

SessionEnds ==
    /\ server.session # 0
    /\ server' = [server EXCEPT !.session = 0]
    /\ UNCHANGED <<page, lists, work, trial, secret, net, past>>

SubmitPassword ==
    /\ page.view = "password"
    /\ Sends("password", NoOne)
    /\ UNCHANGED <<server, page, lists, work, trial, secret, past>>

\* The principal that is entered is the page's at this moment, who may be somebody else by
\* now, or nobody.
PasswordAnswered(s) ==
    /\ net[s].kind = "password"
    /\ \E answer \in Answers(s):
          \/ /\ answer = "ok"
             /\ server' = [server EXCEPT !.restricted = @ \ {net[s].as}]
             /\ Enters(s, IF page.login = NoOne THEN 0 ELSE page.login, FALSE)
             /\ TakenUp(s)
          \/ /\ answer # "ok"
             /\ page' = PageAfter(answer) /\ Settles(s)
             /\ UNCHANGED <<server, lists, past>>
    /\ UNCHANGED <<work, trial, secret>>

-----------------------------------------------------------------------------
(* Panels and their lists *)

\* What a person can reach: nothing under a dialog, nor in a view that is hidden.
Reaches(panel) ==
    /\ page.view = "shell" /\ page.panel = panel
    /\ work.dialog = NoOne /\ secret.value = 0

\* Also from the address bar, which no dialog covers, with whatever view is shown.
navigate(panel) ==
    /\ page.login # NoOne
    /\ page' = [page EXCEPT !.panel = panel]
    /\ lists' = Emptied(panel)
    /\ \E s \in Slots: net[s] = Idle /\ net' = [net EXCEPT ![s] = LoadOf(panel, NoOne)]
    /\ UNCHANGED <<server, work, trial, secret, past>>

\* A dialog is let go once the last call it waits for has settled.
LetGo(s) ==
    LET d == net[s].about.for
    IN IF d # NoOne /\ \A t \in Slots \ {s}: net[t] # Idle /\ net[t].kind \in {"list", "detail"} => net[t].about.for # d
       THEN [work EXCEPT !.busy = @ \ {d}] ELSE work

Loading(s, panel) == net[s].kind = "load" /\ net[s].about.panel = panel

\* What a load brought is shown; the calls of one load are answered together.
LoadSettles(s, panel, answer, isShown) ==
    /\ page' = PageAfter(answer)
    /\ IF answer = "ok" /\ isShown
       THEN lists' = [lists EXCEPT !.shown[panel] = net[s].as] /\ TakenUp(s)
       ELSE UNCHANGED <<lists, past>>
    /\ work' = LetGo(s)
    /\ UNCHANGED <<server, secret>>

\* These give up when nobody is logged in any more.
StaysIn(answer) == PageAfter(answer).login # NoOne

DashboardAnswered(s) ==
    /\ Loading(s, "dashboard")
    /\ \E answer \in Answers(s): LoadSettles(s, "dashboard", answer, StaysIn(answer)) /\ Settles(s) /\ UNCHANGED trial

NotificationsAnswered(s) ==
    /\ Loading(s, "notifications")
    /\ \E answer \in Answers(s): LoadSettles(s, "notifications", answer, StaysIn(answer)) /\ Settles(s) /\ UNCHANGED trial

\* This one does not look.
IntegrationsAnswered(s) ==
    /\ Loading(s, "integrations")
    /\ \E answer \in Answers(s): LoadSettles(s, "integrations", answer, TRUE) /\ Settles(s) /\ UNCHANGED trial

\* And this one goes on to the recipients of a test, whose card it hides.
SystemAnswered(s) ==
    /\ Loading(s, "system")
    /\ \E answer \in Answers(s):
        /\ LoadSettles(s, "system", answer, StaysIn(answer))
        /\ IF StaysIn(answer) THEN Follows(s, "recipients", NoOne) /\ trial' = [trial EXCEPT !.ready = FALSE]
           ELSE Settles(s) /\ UNCHANGED trial

\* loadCredentials: the title at once, the keys when they come.
OpenKeys(i) ==
    /\ Reaches("integrations") /\ lists.shown["integrations"] # 0
    /\ lists' = [lists EXCEPT !.keys = [title |-> i, rows |-> NoOne]]
    /\ Sends("keys", i)
    /\ UNCHANGED <<server, page, work, trial, secret, past>>

ChangeFilter(f) ==
    /\ Reaches("tasks") /\ f # lists.filter
    /\ lists' = [Emptied("tasks") EXCEPT !.filter = f]
    /\ Sends("list", [filter |-> f, for |-> NoOne])
    /\ UNCHANGED <<server, page, work, trial, secret, past>>

Crossing(s) == \E t \in Slots \ {s}: net[t].kind = net[s].kind

Listed(s, answer) ==
    past' = [past EXCEPT !.crossed = @ \/ Crossing(s), !.strays = @ \/ (answer = "ok" /\ Stray(s))]

KeysAnswered(s) ==
    /\ net[s].kind = "keys"
    /\ \E answer \in Answers(s):
          /\ page' = PageAfter(answer)
          /\ lists' = IF answer # "ok" THEN lists ELSE [lists EXCEPT !.keys.rows = net[s].about]
          /\ Listed(s, answer)
    /\ Settles(s)
    /\ UNCHANGED <<server, work, trial, secret>>

\* The second half of loadTasks: it renders what comes back, whatever is chosen by then.
ListAnswered(s) ==
    /\ net[s].kind = "list"
    /\ \E answer \in Answers(s):
          /\ page' = PageAfter(answer)
          /\ lists' = IF answer # "ok" THEN lists
                      ELSE [lists EXCEPT !.rows = net[s].about.filter, !.shown["tasks"] = net[s].as]
          /\ Listed(s, answer)
    /\ Settles(s)
    /\ work' = LetGo(s)
    /\ UNCHANGED <<server, trial, secret>>

\* The fields may say something else than what was last searched for.
TypeSearch(q) ==
    /\ Reaches("users") /\ q # lists.search
    /\ lists' = [lists EXCEPT !.search = q]
    /\ UNCHANGED <<server, page, work, trial, secret, net, past>>

\* loadUsers, for the search or for more of it.
loadUsers(append) ==
    /\ Reaches("users")
    /\ append => lists.people # {}
    /\ lists' = IF append THEN lists ELSE Emptied("users")
    /\ Sends("people", [search |-> lists.search, for |-> NoOne])
    /\ past' = [past EXCEPT !.crossed = @ \/ (append /\ lists.people # {lists.search})]
    /\ UNCHANGED <<server, page, work, trial, secret>>

\* loadContext, after which the people are asked for; it is tried again next time if it failed.
ContextAnswered(s) ==
    /\ net[s].kind = "context"
    /\ \E answer \in Answers(s):
          /\ page' = PageAfter(answer)
          /\ lists' = [Emptied("users") EXCEPT !.catalogs = @ \/ answer = "ok"]
    /\ Follows(s, "people", [search |-> lists.search, for |-> NoOne])
    /\ UNCHANGED <<server, work, trial, secret, past>>

\* What came back joins the people who are listed by then.
PeopleAnswered(s) ==
    /\ net[s].kind = "people"
    /\ \E answer \in Answers(s):
          /\ page' = PageAfter(answer)
          /\ lists' = IF answer # "ok" THEN lists
                      ELSE [lists EXCEPT !.people = @ \cup {net[s].about.search}, !.shown["users"] = net[s].as]
          /\ Listed(s, answer)
    /\ Settles(s)
    /\ work' = LetGo(s)
    /\ UNCHANGED <<server, trial, secret>>

-----------------------------------------------------------------------------
(* A task and the dialogs over it *)

AskDetail(t, for) == Call("detail", [task |-> t, for |-> for])

openTaskDetail(t) ==
    /\ Reaches("tasks") /\ lists.rows # NoOne
    /\ work' = [work EXCEPT !.open = TRUE]
    /\ \E s \in Slots: net[s] = Idle /\ net' = [net EXCEPT ![s] = AskDetail(t, NoOne)]
    /\ UNCHANGED <<server, page, lists, trial, secret, past>>

\* Its second half; until it runs the buttons go on working on the task before.
DetailAnswered(s) ==
    /\ net[s].kind = "detail"
    /\ \E answer \in Answers(s):
          LET task == IF answer = "ok" THEN net[s].about.task ELSE NoOne
          IN /\ page' = PageAfter(answer)
             /\ work' = [LetGo(s) EXCEPT !.task = task]
             /\ past' = [past EXCEPT !.swapped = @ \/ (work.dialog # NoOne /\ task # work.task)]
    /\ Settles(s)
    /\ UNCHANGED <<server, lists, trial, secret>>

closeTaskDetail ==
    /\ Reaches("tasks") /\ work.open
    /\ work' = [work EXCEPT !.open = FALSE, !.task = NoOne]
    /\ UNCHANGED <<server, page, lists, trial, secret, net, past>>

Opens(d, task) ==
    /\ work' = [work EXCEPT !.dialog = d, !.form = task]
    /\ past' = [past EXCEPT !.swapped = FALSE]
    /\ UNCHANGED <<server, page, lists, trial, secret, net>>

\* The form, the choice of a status and the question all show the task of this moment.
OpenEdit == Reaches("tasks") /\ work.open /\ work.task # NoOne /\ Opens("edit", work.task)
OpenStatus == Reaches("tasks") /\ work.open /\ work.task # NoOne /\ Opens("status", work.task)
OpenCancel == Reaches("tasks") /\ work.open /\ work.task # NoOne /\ Opens("cancel", work.task)
OpenCreate == (Reaches("tasks") \/ Reaches("dashboard")) /\ Opens("create", NoOne)
OpenAdministrator == Reaches("users") /\ Opens("administrator", NoOne)

\* A slip: setDialogBusy forgotten.
HeldNever(d) == FALSE

\* bindResettableDialog and setDialogBusy: neither a button nor Escape closes a held dialog.
Held(d) == d \in work.busy

CloseDialog ==
    /\ work.dialog # NoOne /\ secret.value = 0 /\ ~Held(work.dialog)
    /\ work' = [work EXCEPT !.dialog = NoOne, !.form = NoOne]
    /\ UNCHANGED <<server, page, lists, trial, secret, net, past>>

\* The request names the task selected now; its contents are those of the form.
SubmitDialog ==
    /\ work.dialog \in {"create", "edit", "status", "cancel"}
    /\ secret.value = 0 /\ work.dialog \notin work.busy
    /\ work.dialog # "create" => work.task # NoOne
    /\ work' = [work EXCEPT !.busy = @ \cup {work.dialog}]
    /\ Sends("change", [dialog |-> work.dialog, form |-> work.form,
           task |-> IF work.dialog = "create" THEN NoOne ELSE work.task, swapped |-> past.swapped])
    /\ UNCHANGED <<server, page, lists, trial, secret, past>>

Closed(d) == IF work.dialog = d THEN [work EXCEPT !.dialog = NoOne, !.form = NoOne] ELSE work

ChangeFailed(s) ==
    /\ net[s].kind = "change"
    /\ \E answer \in Answers(s) \ {"ok"}: page' = PageAfter(answer)
    /\ work' = [work EXCEPT !.busy = @ \ {net[s].about.dialog}]
    /\ Settles(s)
    /\ UNCHANGED <<server, lists, trial, secret, past>>

\* The dialog is closed at once and held until list and detail are there again.
ChangeDone(s) ==
    /\ net[s].kind = "change" /\ net[s].about.dialog # "create" /\ "ok" \in Answers(s)
    /\ LET d == net[s].about.dialog
       IN \E t \in Slots:
             /\ net[t] = Idle
             /\ net' = [net EXCEPT ![s] = LoadOf("tasks", d), ![t] = AskDetail(net[s].about.task, d)]
             /\ work' = [Closed(d) EXCEPT !.open = TRUE]
    /\ lists' = Emptied("tasks")
    /\ UNCHANGED <<server, page, trial, secret, past>>

CreateDone(s) ==
    /\ net[s].kind = "change" /\ net[s].about.dialog = "create" /\ "ok" \in Answers(s)
    /\ LET panel == IF page.panel = "dashboard" THEN "dashboard" ELSE "tasks"
       IN lists' = Emptied(panel) /\ net' = [net EXCEPT ![s] = LoadOf(panel, "create")]
    /\ work' = Closed("create")
    /\ UNCHANGED <<server, page, trial, secret, past>>

-----------------------------------------------------------------------------
(* Test notifications *)

\* loadTestRecipients hides the card until the answer; a list that came chooses its first.
RecipientsAnswered(s) ==
    /\ net[s].kind = "recipients"
    /\ \E answer \in Answers(s):
          /\ page' = PageAfter(answer)
          /\ \/ /\ answer = "ok"
                /\ \E first \in Addressees \cup {NoOne}:
                      trial' = [trial EXCEPT !.ready = TRUE, !.recipient = first, !.disabled = (first = NoOne)]
             \/ answer \in {"refused", "unknown"} /\ trial' = [trial EXCEPT !.ready = TRUE, !.disabled = TRUE]
             \/ answer \in {"refused", "unauthorized"} /\ UNCHANGED trial
    /\ Settles(s)
    /\ UNCHANGED <<server, lists, work, secret, past>>

Tries == Reaches("system") /\ trial.ready

Forgotten == [past EXCEPT !.unknown = NoOne]

ChangeType(type) ==
    /\ Tries /\ type # trial.type
    /\ trial' = [trial EXCEPT !.type = type, !.request = 0, !.ready = FALSE]
    /\ Sends("recipients", NoOne)
    /\ past' = Forgotten
    /\ UNCHANGED <<server, page, lists, work, secret>>

ChangeRecipient(r) ==
    /\ Tries /\ r # trial.recipient /\ trial.recipient # NoOne
    /\ trial' = [trial EXCEPT !.recipient = r, !.request = 0]
    /\ past' = Forgotten
    /\ UNCHANGED <<server, page, lists, work, secret, net>>

RequestIds == {r.id: r \in past.requests}

SendTest ==
    /\ Tries /\ ~trial.disabled /\ trial.recipient # NoOne
    /\ \E id \in 1..MaxRequests:
          /\ IF trial.request # 0 THEN id = trial.request
             ELSE id \notin RequestIds /\ 1..(id - 1) \subseteq RequestIds
          /\ LET request == [id |-> id, type |-> trial.type, recipient |-> trial.recipient]
             IN /\ Sends("test", request)
                /\ past' = [Forgotten EXCEPT !.requests = @ \cup {request}]
          /\ trial' = [trial EXCEPT !.request = id, !.disabled = TRUE]
    /\ UNCHANGED <<server, page, lists, work, secret>>

\* A slip: every error concludes it.
ConcludesAlways(answer) == TRUE

\* The answers after which the next click is another request.
Concludes(answer) == answer \in {"ok", "refused", "unauthorized"}

\* Success asks for the recent notifications before the button can be used again.
TestAnswered(s) ==
    /\ net[s].kind = "test"
    /\ \E answer \in Answers(s):
          /\ page' = PageAfter(answer)
          /\ trial' = [trial EXCEPT !.request = IF Concludes(answer) THEN 0 ELSE @,
                                    !.disabled = IF answer = "ok" THEN @ ELSE FALSE]
          /\ past' = [past EXCEPT !.unknown =
                 IF answer = "unknown" /\ ~Crossing(s) /\ trial.request = net[s].about.id THEN net[s].about ELSE NoOne]
          /\ IF answer = "ok" THEN Follows(s, "recent", NoOne) ELSE Settles(s)
    /\ UNCHANGED <<server, lists, work, secret>>

RecentAnswered(s) ==
    /\ net[s].kind = "recent"
    /\ \E answer \in Answers(s): page' = PageAfter(answer)
    /\ trial' = [trial EXCEPT !.disabled = FALSE]
    /\ Settles(s)
    /\ UNCHANGED <<server, lists, work, secret, past>>

-----------------------------------------------------------------------------
(* Temporary passwords *)

Asks(from) ==
    /\ past.issued + Cardinality({s \in Slots: net[s].kind = "secret"}) < MaxIssued
    /\ Sends("secret", from)
    /\ past' = [past EXCEPT !.doubled = @ \/ Calling("secret")]
    /\ UNCHANGED <<server, page, lists, trial, secret>>

\* The form that gives a person a login is not disabled while its call is under way.
GrantLogin == Reaches("users") /\ Asks("login") /\ UNCHANGED work

SubmitAdministrator ==
    /\ work.dialog = "administrator" /\ secret.value = 0 /\ "administrator" \notin work.busy
    /\ work' = [work EXCEPT !.busy = @ \cup {"administrator"}]
    /\ Asks("administrator")

\* showTemporary replaces what the dialog says, and then the list is loaded again.
SecretAnswered(s) ==
    /\ net[s].kind = "secret"
    /\ LET from == net[s].about
           d == IF from = "administrator" THEN from ELSE NoOne
       IN \E answer \in Answers(s):
             /\ page' = PageAfter(answer)
             /\ IF answer = "ok"
                THEN /\ past' = [past EXCEPT !.issued = @ + 1]
                     /\ secret' = [value |-> past.issued + 1, saved |-> FALSE]
                     /\ work' = IF d = NoOne THEN work ELSE Closed(d)
                     /\ lists' = Emptied("users")
                     /\ Follows(s, "people", [search |-> lists.search, for |-> d])
                ELSE /\ work' = [work EXCEPT !.busy = @ \ {from}]
                     /\ Settles(s)
                     /\ UNCHANGED <<past, secret, lists>>
    /\ UNCHANGED <<server, trial>>

TickSaved ==
    /\ secret.value # 0 /\ ~secret.saved
    /\ secret' = [secret EXCEPT !.saved = TRUE]
    /\ UNCHANGED <<server, page, lists, work, trial, net, past>>

\* Its button only works once "saved" is ticked, and Escape never does.
Closable == secret.saved

CloseSecret ==
    /\ secret.value # 0 /\ Closable
    /\ secret' = [value |-> 0, saved |-> FALSE]
    /\ past' = [past EXCEPT !.kept = @ + 1]
    /\ UNCHANGED <<server, page, lists, work, trial, net>>

-----------------------------------------------------------------------------
BrowserInit ==
    /\ server \in [session: {0, 1}, logins: {1}, restricted: SUBSET {1}]
    /\ page \in [view: {"blank"}, login: {NoOne}, panel: Panels]
    /\ \E f \in Filters, q \in Searches:
          lists = [filter |-> f, rows |-> NoOne, search |-> q, catalogs |-> FALSE, people |-> {},
                   keys |-> [title |-> NoOne, rows |-> NoOne], shown |-> [p \in Panels |-> 0]]
    /\ work = [task |-> NoOne, open |-> FALSE, dialog |-> NoOne, form |-> NoOne, busy |-> {}]
    /\ \E t \in Types:
          trial = [ready |-> FALSE, type |-> t, recipient |-> NoOne, request |-> 0, disabled |-> FALSE]
    /\ secret = [value |-> 0, saved |-> FALSE]
    /\ net = [s \in Slots |-> Idle]
    /\ past = [strays |-> FALSE, crossed |-> FALSE, swapped |-> FALSE, requests |-> {},
               unknown |-> NoOne, issued |-> 0, kept |-> 0, doubled |-> FALSE]

SessionNext ==
    \/ SubmitLogin \/ SubmitLogout \/ SubmitPassword \/ SessionEnds
    \/ \E s \in Slots: LoginAnswered(s) \/ LogoutAnswered(s) \/ PasswordAnswered(s)

PanelsNext ==
    \/ \E p \in Panels: navigate(p)
    \/ \E s \in Slots: initializeApplication(s) \/ ListAnswered(s) \/ DashboardAnswered(s) \/ SystemAnswered(s)
    \/ \E s \in Slots: IntegrationsAnswered(s) \/ NotificationsAnswered(s) \/ KeysAnswered(s)
    \/ \E i \in Integrations: OpenKeys(i)

CreationNext ==
    \/ \E f \in Filters: ChangeFilter(f)
    \/ OpenCreate \/ CloseDialog \/ SubmitDialog
    \/ \E s \in Slots: ChangeFailed(s) \/ CreateDone(s)

TasksNext ==
    \/ CreationNext
    \/ \E t \in Tasks: openTaskDetail(t)
    \/ closeTaskDetail \/ OpenEdit \/ OpenStatus \/ OpenCancel
    \/ \E s \in Slots: DetailAnswered(s) \/ ChangeDone(s)

TestNext ==
    \/ \E t \in Types: ChangeType(t)
    \/ \E r \in Addressees: ChangeRecipient(r)
    \/ SendTest
    \/ \E s \in Slots: RecipientsAnswered(s) \/ TestAnswered(s) \/ RecentAnswered(s)

PeopleNext ==
    \/ \E q \in Searches: TypeSearch(q)
    \/ \E append \in BOOLEAN: loadUsers(append)
    \/ GrantLogin \/ OpenAdministrator \/ SubmitAdministrator \/ TickSaved \/ CloseSecret
    \/ \E s \in Slots: ContextAnswered(s) \/ PeopleAnswered(s) \/ SecretAnswered(s)

BrowserNext == SessionNext \/ PanelsNext \/ TasksNext \/ TestNext \/ PeopleNext

BrowserSpec == BrowserInit /\ [][BrowserNext]_browserVars

-----------------------------------------------------------------------------
\* The application is open only to somebody who need not change a password first, and what
\* the panel in view lists was loaded for whoever is logged in, unless an answer for an
\* earlier login came late.
ShowsItsOwn ==
    page.view = "shell" /\ ~past.strays =>
        /\ page.login \notin server.restricted
        /\ page.login # 0 => lists.shown[page.panel] \in {0, page.login}

\* What is listed is what was asked for last, unless two answers overlapped.
ListsAnswerTheQuestion ==
    past.crossed \/ /\ lists.rows \in {NoOne, lists.filter}
                    /\ lists.keys.title # NoOne => lists.keys.rows \in {NoOne, lists.keys.title}
                    /\ Cardinality(lists.people) <= 1

\* A change is sent to the task its dialog shows, unless another task's details came while
\* it was open.
MeantForItsTask ==
    \A s \in Slots: net[s].kind = "change" => net[s].about.swapped \/ net[s].about.task = net[s].about.form

\* While a change is under way its dialog stays, as it was filled in: its answer can neither
\* close another one nor find what it must report an error on gone.
DialogWaits ==
    \A s \in Slots: net[s].kind = "change" =>
        work.dialog = net[s].about.dialog /\ work.form = net[s].about.form

\* A test whose outcome is open is repeated under its identity, and no identity is used for
\* two types: the server can tell a repeat from another request.
RepeatsKeepTheirIdentity ==
    /\ past.unknown # NoOne => trial.request = past.unknown.id
    /\ \A a, b \in past.requests: a.id = b.id => a.type = b.type

\* A temporary password, which is shown once, stays until it was said to be saved, unless
\* two were asked for at once.
PasswordsSeen == past.doubled \/ past.issued = past.kept + (IF secret.value = 0 THEN 0 ELSE 1)

\* app.js, ui-core.js, users.js: one page, while answers come in any order.
ConsoleInv ==
    /\ ShowsItsOwn /\ ListsAnswerTheQuestion /\ MeantForItsTask /\ DialogWaits
    /\ RepeatsKeepTheirIdentity /\ PasswordsSeen

-----------------------------------------------------------------------------
(* Why it is so *)

TaskDialogs == {"edit", "status", "cancel"}

\* What a call of each kind carries; `for` is a dialog that waits for it.
PlainCalls == [kind: {"login", "logout", "password", "recipients", "recent"}, about: {NoOne}, as: Nat]
LoadCalls ==
    [kind: {"load"}, about: [panel: Panels, for: {NoOne, "create"}], as: Nat] \cup
    [kind: {"list"}, about: [filter: Filters, for: {NoOne, "create"} \cup TaskDialogs], as: Nat] \cup
    [kind: {"detail"}, about: [task: Tasks \cup {NoOne}, for: {NoOne} \cup TaskDialogs], as: Nat] \cup
    [kind: {"context"}, about: [search: Searches, for: {NoOne}], as: Nat] \cup
    [kind: {"people"}, about: [search: Searches, for: {NoOne, "administrator"}], as: Nat] \cup
    [kind: {"keys"}, about: Integrations, as: Nat]
Writes == [dialog: {"create"} \cup TaskDialogs, form: Tasks \cup {NoOne}, task: Tasks \cup {NoOne}, swapped: BOOLEAN]
Trials == [id: Nat, type: Types, recipient: Addressees]
ChangeCalls ==
    [kind: {"change"}, about: Writes, as: Nat] \cup
    [kind: {"test"}, about: Trials, as: Nat] \cup
    [kind: {"secret"}, about: {"login", "administrator"}, as: Nat]
PageCalls == {Idle} \cup PlainCalls \cup LoadCalls \cup ChangeCalls

PageStates == [view: {"blank", "login", "password", "shell"}, login: Nat \cup {NoOne}, panel: Panels]
Contents ==
    [filter: Filters, rows: Filters \cup {NoOne}, search: Searches, catalogs: BOOLEAN, people: SUBSET Searches,
     shown: [Panels -> Nat], keys: [title: Integrations \cup {NoOne}, rows: Integrations \cup {NoOne}]]
Dialogs == {"create", "administrator"} \cup TaskDialogs
WorkStates == [task: Tasks \cup {NoOne}, open: BOOLEAN, dialog: {NoOne} \cup Dialogs,
               form: Tasks \cup {NoOne}, busy: SUBSET Dialogs]
TrialStates == [ready: BOOLEAN, type: Types, recipient: Addressees \cup {NoOne}, request: Nat, disabled: BOOLEAN]
Histories == [strays: BOOLEAN, crossed: BOOLEAN, swapped: BOOLEAN, requests: SUBSET Trials,
              unknown: Trials \cup {NoOne}, issued: Nat, kept: Nat, doubled: BOOLEAN]

BrowserTypeOK ==
    /\ server \in [session: Nat, logins: Nat, restricted: SUBSET Nat]
    /\ page \in PageStates /\ lists \in Contents /\ work \in WorkStates
    /\ trial \in TrialStates /\ secret \in [value: Nat, saved: BOOLEAN]
    /\ net \in [Slots -> PageCalls] /\ past \in Histories

\* Logins are numbered, and the page is somebody's as long as it shows the application.
LoginsKnown ==
    /\ server.session <= server.logins
    /\ server.restricted \subseteq 1..server.logins
    /\ page.login # NoOne => page.login <= server.logins
    /\ page.view = "shell" => page.login # NoOne

\* The only call of its kind.
Alone(s, kind) == net[s].kind = kind /\ \A t \in Slots \ {s}: net[t].kind # kind

\* A call that is alone asks for what was chosen last, and what is listed answers the same.
LoneCallsFit ==
    past.crossed \/
        /\ \E q \in Searches: lists.people \subseteq {q}
        /\ \A s \in Slots:
              /\ Alone(s, "list") => net[s].about.filter = lists.filter
              /\ Alone(s, "keys") => lists.keys.title \in {NoOne, net[s].about}
              /\ Alone(s, "people") => lists.people \subseteq {net[s].about.search}

\* The dialog a call reports back to, once it has answered.
Waits(s, d) == net[s].kind \in {"list", "detail", "load", "people"} /\ net[s].about.for = d
Submitted(s, d) ==
    \/ net[s].kind = "change" /\ net[s].about.dialog = d
    \/ net[s].kind = "secret" /\ net[s].about = d

\* A dialog that was submitted is held, at first by that call alone and then by the calls that
\* follow it: two of them only after a change of a task.
DialogsHeld ==
    \A s \in Slots, d \in Dialogs:
        /\ Submitted(s, d) => d \in work.busy /\ \A t \in Slots \ {s}: ~Submitted(t, d) /\ ~Waits(t, d)
        /\ Waits(s, d) => /\ d \in work.busy
                          /\ \A t \in Slots \ {s}: Waits(t, d) => net[s].kind \in {"list", "detail"}

\* The form shows the selected task, or the task was swapped since.
FormsShow ==
    /\ work.dialog \in TaskDialogs => past.swapped \/ work.form = work.task
    /\ work.dialog = "create" => work.form = NoOne

\* The identity in use has one type, the one that is chosen.
IdentityInUse ==
    trial.request # 0 => \A r \in past.requests: r.id = trial.request => r.type = trial.type

\* Whoever waits for a password has none on show.
SecretsInTurn ==
    past.doubled \/ \A s \in Slots: net[s].kind = "secret" =>
        secret.value = 0 /\ \A t \in Slots \ {s}: net[t].kind # "secret"

AccountsHold == LoginsKnown /\ ShowsItsOwn
ListsHold == LoneCallsFit /\ ListsAnswerTheQuestion
DialogsHold == DialogsHeld /\ FormsShow /\ MeantForItsTask /\ DialogWaits
TestsHold == IdentityInUse /\ RepeatsKeepTheirIdentity
SecretsHold == SecretsInTurn /\ PasswordsSeen

ConsoleIndInv == BrowserTypeOK /\ AccountsHold /\ ListsHold /\ DialogsHold /\ TestsHold /\ SecretsHold
=============================================================================
