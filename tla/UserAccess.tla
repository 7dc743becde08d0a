----------------------------- MODULE UserAccess -----------------------------
(***************************************************************************)
(* Administrators edit what people are: their division and role, whether   *)
(* they are active, and the business code tasks address them by.  They do  *)
(* it from the bot's IT console and from pages, all through                *)
(* UserManagementService: a call reads the row, later reads it again to    *)
(* check the edit, and later still asks the database, which checks again.  *)
(* Nothing holds the row in between.                                       *)
(*                                                                         *)
(* A code is changed in a conversation the console keeps in memory: it     *)
(* asks, the administrator types, a button confirms.  Old keyboards stay   *)
(* in the chat, so any button may be pressed at any time.                  *)
(***************************************************************************)
EXTENDS Naturals, FiniteSets

CONSTANTS
    Staff,       \* the people edited, other than the administrators themselves
    Departments, \* divisions
    Codes,       \* business user codes
    Desks,       \* callers of the service, one call at a time each
    Chat,        \* the desk that is the bot, which handles one update at a time
    Nothing,
    MaxEdits,    \* bound on the calls begun
    MaxShifts    \* bound on failures and on changes made by somebody else

ASSUME AccessAssumption == Chat \in Desks /\ MaxEdits \in Nat /\ MaxShifts \in Nat

VARIABLES
    row,        \* public.users: the fields edited here
    offered,    \* active divisions
    entitled,   \* the administrator at the desks has its authority
    dialog,     \* businessCodeStates of the administrator's chat
    edit,       \* what each desk's call is doing
    edits, shifts,
    inOrder,    \* history: people whose division was open when it was given to them
    typed       \* history: the codes typed since the console last asked, and for whom

accessVars == <<row, offered, entitled, dialog, edit, edits, shifts, inOrder, typed>>

Fields == {"division", "role", "active"}

\* A person has a role or none; which one makes no difference here.
UserRows == [division: Departments \cup {Nothing}, role: BOOLEAN, active: BOOLEAN,
         code: Codes \cup {Nothing}]

Newcomer == [division |-> Nothing, role |-> FALSE, active |-> FALSE, code |-> Nothing]

\* The access a call asks for, the fields it was not asked to change included.
Wants == [division: Departments \cup {Nothing}, role: BOOLEAN, active: BOOLEAN]
AccessCalls == [kind: {"access"}, user: Staff, want: Wants, checked: BOOLEAN]
CodeCalls == [kind: {"code"}, user: Staff, code: Codes \cup {Nothing}, confirm: BOOLEAN,
              checked: BOOLEAN]

Dialogs == [user: Staff, code: Codes \cup {Nothing, "unset"}, fresh: BOOLEAN]

AtRest(c) == edit[c] = Nothing

\* authorize, and the actor of the routes.
MayBegin(c) == AtRest(c) /\ entitled /\ edits < MaxEdits

Asks(c, request) ==
    /\ edits' = edits + 1
    /\ edit' = [edit EXCEPT ![c] = request]

-----------------------------------------------------------------------------
(* Access *)

\* Fields a call does not mention keep the value that was read: assign and setActive
\* change one, PATCH any, and users.js sends all.
AskAccess(c, u, want) ==
    /\ MayBegin(c)
    /\ c = Chat => Cardinality({f \in Fields: want[f] # row[u][f]}) <= 1
    /\ Asks(c, [kind |-> "access", user |-> u, checked |-> FALSE, want |-> want])
    /\ UNCHANGED <<row, offered, entitled, dialog, shifts, inOrder, typed>>

\* What the service checks against the row it reads, and the database against
\* the row it locks.
Acceptable(u, want) ==
    /\ want.division \in offered \cup {Nothing, row[u].division}
    /\ want.active => want.division # Nothing /\ want.role

\* updateAccess reads the row and the catalogue.
checkAccess(c) ==
    /\ ~AtRest(c) /\ edit[c].kind = "access" /\ ~edit[c].checked
    /\ edit' = [edit EXCEPT ![c] = IF Acceptable(@.user, @.want)
                                   THEN [@ EXCEPT !.checked = TRUE] ELSE Nothing]
    /\ UNCHANGED <<row, offered, entitled, dialog, edits, shifts, inOrder, typed>>

\* A slip: the check of the service is taken for granted.
GrantedOnce(c) == entitled

Granted(c) == entitled /\ Acceptable(edit[c].user, edit[c].want)

\* update_managed_user_access
updateAccess(c) ==
    /\ ~AtRest(c) /\ edit[c].kind = "access" /\ edit[c].checked
    /\ LET u == edit[c].user  want == edit[c].want
       IN IF Granted(c)
            THEN /\ row' = [row EXCEPT ![u] = [division |-> want.division, role |-> want.role,
                                                active |-> want.active, code |-> @.code]]
                 /\ inOrder' = IF want.division \in offered \cup {Nothing, row[u].division}
                               THEN inOrder ELSE inOrder \ {u}
            ELSE UNCHANGED <<row, inOrder>>
    /\ edit' = [edit EXCEPT ![c] = Nothing]
    /\ UNCHANGED <<offered, entitled, dialog, edits, shifts, typed>>

-----------------------------------------------------------------------------
(* Business codes *)

AskCode(c, u, code, confirm) ==
    /\ MayBegin(c) /\ c # Chat
    /\ Asks(c, [kind |-> "code", user |-> u, code |-> code, confirm |-> confirm, checked |-> FALSE])
    /\ UNCHANGED <<row, offered, entitled, dialog, shifts, inOrder, typed>>

Confirmed(c) ==
    \/ row[edit[c].user].code \in {Nothing, edit[c].code}
    \/ edit[c].confirm

\* updateBusinessUserCode of the service
checkCode(c) ==
    /\ ~AtRest(c) /\ edit[c].kind = "code" /\ ~edit[c].checked
    /\ edit' = [edit EXCEPT ![c] = IF Confirmed(c) THEN [@ EXCEPT !.checked = TRUE] ELSE Nothing]
    /\ UNCHANGED <<row, offered, entitled, dialog, edits, shifts, inOrder, typed>>

CodeTaken(u, code) == code # Nothing /\ \E v \in Staff \ {u}: row[v].code = code

\* update_business_user_code.  The console forgets its conversation when the code
\* was saved, and keeps it when it was not.
updateCode(c) ==
    /\ ~AtRest(c) /\ edit[c].kind = "code" /\ edit[c].checked
    /\ LET u == edit[c].user  code == edit[c].code
       IN IF entitled /\ Confirmed(c) /\ ~CodeTaken(u, code)
            THEN /\ row' = [row EXCEPT ![u].code = code]
                 /\ dialog' = IF c = Chat THEN Nothing ELSE dialog
            ELSE UNCHANGED <<row, dialog>>
    /\ edit' = [edit EXCEPT ![c] = Nothing]
    /\ UNCHANGED <<offered, entitled, edits, shifts, inOrder, typed>>

beginBusinessCode(u) ==
    /\ AtRest(Chat) /\ entitled
    /\ dialog' = [user |-> u, code |-> "unset", fresh |-> TRUE]
    /\ typed' = [user |-> u, codes |-> {}]
    /\ UNCHANGED <<row, offered, entitled, edit, edits, shifts, inOrder>>

\* handleText: any text while a conversation is open, until it expires or is
\* cancelled by its command; the button that says so leaves it open.
handleText(code) ==
    /\ AtRest(Chat) /\ dialog # Nothing
    /\ IF entitled /\ dialog.fresh
         THEN /\ dialog' = [dialog EXCEPT !.code = code]
              /\ typed' = [typed EXCEPT !.codes = @ \cup {code}]
         ELSE dialog' = Nothing /\ UNCHANGED typed
    /\ UNCHANGED <<row, offered, entitled, edit, edits, shifts, inOrder>>

cancelText ==
    /\ AtRest(Chat) /\ dialog # Nothing
    /\ dialog' = Nothing
    /\ UNCHANGED <<row, offered, entitled, edit, edits, shifts, inOrder, typed>>

Confirmable(u) ==
    dialog # Nothing /\ dialog.user = u /\ dialog.code # "unset" /\ dialog.fresh

\* The confirming button of any message for u.
confirmBusinessCode(u) ==
    /\ MayBegin(Chat)
    /\ IF Confirmable(u)
         THEN /\ Asks(Chat, [kind |-> "code", user |-> u, code |-> dialog.code,
                             confirm |-> TRUE, checked |-> FALSE])
              /\ UNCHANGED dialog
         ELSE dialog' = Nothing /\ UNCHANGED <<edit, edits>>
    /\ UNCHANGED <<row, offered, entitled, shifts, inOrder, typed>>

-----------------------------------------------------------------------------
(* Around them *)

Shifts == shifts < MaxShifts /\ shifts' = shifts + 1

\* Five minutes pass.
DialogExpires ==
    /\ dialog # Nothing /\ dialog.fresh
    /\ dialog' = [dialog EXCEPT !.fresh = FALSE]
    /\ UNCHANGED <<row, offered, entitled, edit, edits, shifts, inOrder, typed>>

DivisionToggled(d) ==
    /\ Shifts
    /\ offered' = IF d \in offered THEN offered \ {d} ELSE offered \cup {d}
    /\ UNCHANGED <<row, entitled, dialog, edit, edits, inOrder, typed>>

AuthorityChanges ==
    /\ Shifts
    /\ entitled' = ~entitled
    /\ UNCHANGED <<row, offered, dialog, edit, edits, inOrder, typed>>

\* A request to the database fails.
DeskFails(c) ==
    /\ Shifts /\ ~AtRest(c)
    /\ edit' = [edit EXCEPT ![c] = Nothing]
    /\ UNCHANGED <<row, offered, entitled, dialog, edits, inOrder, typed>>

BotRestarts ==
    /\ Shifts
    /\ dialog' = Nothing
    /\ edit' = [c \in Desks |-> Nothing]
    /\ UNCHANGED <<row, offered, entitled, edits, inOrder, typed>>

\* Newcomers are registered without division, role or code.
AccessInit ==
    /\ row = [u \in Staff |-> Newcomer]
    /\ offered = Departments /\ entitled = TRUE
    /\ dialog = Nothing /\ edit = [c \in Desks |-> Nothing]
    /\ edits = 0 /\ shifts = 0 /\ inOrder = Staff
    /\ typed = [user |-> Nothing, codes |-> {}]

Edit(c) ==
    \/ \E u \in Staff, want \in Wants: AskAccess(c, u, want)
    \/ \E u \in Staff, code \in Codes \cup {Nothing}, confirm \in BOOLEAN: AskCode(c, u, code, confirm)
    \/ checkAccess(c) \/ updateAccess(c) \/ checkCode(c) \/ updateCode(c)

Converses ==
    \/ \E u \in Staff: beginBusinessCode(u) \/ confirmBusinessCode(u)
    \/ \E code \in Codes \cup {Nothing}: handleText(code)
    \/ cancelText

AccessNext ==
    \/ \E c \in Desks: Edit(c) \/ DeskFails(c)
    \/ Converses
    \/ \E d \in Departments: DivisionToggled(d)
    \/ DialogExpires \/ AuthorityChanges \/ BotRestarts

AccessSpec == AccessInit /\ [][AccessNext]_accessVars

-----------------------------------------------------------------------------
AccessTypeOK ==
    /\ row \in [Staff -> UserRows]
    /\ offered \subseteq Departments /\ entitled \in BOOLEAN
    /\ dialog \in Dialogs \cup {Nothing}
    /\ edit \in [Desks -> AccessCalls \cup CodeCalls \cup {Nothing}]
    /\ edits \in 0..MaxEdits /\ shifts \in 0..MaxShifts

\* Whatever changes between reading a row, checking an edit and saving it: whoever
\* is active has a division and a role, nobody was given a division that was
\* closed, a code names one person, and the code the console saves was typed for
\* the person the console last asked about.
AccessInv ==
    /\ AccessTypeOK
    /\ \A u \in Staff: row[u].active => row[u].division # Nothing /\ row[u].role
    /\ inOrder = Staff
    /\ \A u, v \in Staff: row[u].code = row[v].code => u = v \/ row[u].code = Nothing
    /\ (~AtRest(Chat) /\ edit[Chat].kind = "code") =>
          edit[Chat].user = typed.user /\ edit[Chat].code \in typed.codes

\* The conversation is about the person last asked about, and a code in it was typed.
DialogTyped ==
    /\ typed \in [user: Staff \cup {Nothing}, codes: SUBSET (Codes \cup {Nothing})]
    /\ dialog # Nothing => dialog.user = typed.user /\ dialog.code \in typed.codes \cup {"unset"}

AccessIndInv == AccessInv /\ DialogTyped
=============================================================================
