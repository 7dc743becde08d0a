-------------------------- MODULE TelegramConsoles --------------------------
(***************************************************************************)
(* The task console of the Telegram bot: what one account's buttons and    *)
(* texts do.  The console keeps one conversation per account in memory, a  *)
(* comment, a reason to block a task, or the steps of a new task; every    *)
(* button that was ever shown can still be pressed.  The bot handles one   *)
(* update at a time, so nothing of the conversation happens while its call *)
(* of TaskService runs; the calls of the web console do.                   *)
(***************************************************************************)
EXTENDS TaskLifecycle

VARIABLES
    speaker,    \* the person the account is linked to
    chat,       \* the account's conversation, Null if there is none
    made,       \* history: what the conversation's calls have written
    excuses     \* history: failures the conversation was told of

consoleVars == <<speaker, chat, made, excuses>>

Steps == {"title", "description", "priority", "owner", "assignee", "deadline", "review"}

\* An input, of a comment or a reason, has a task; a new task has a draft.
Inputs == [kind: {"comment", "block"}, on: Tasks, step: {"input", "submitting"}]
Drafts == [kind: {"create"}, step: Steps \cup {"submitting"},
           owner: Units \cup {Null}, assignee: People \cup {Null}]

NewDraft == [kind |-> "create", step |-> "title", owner |-> Null, assignee |-> Null]

Idle == work[Bot] = Null
Creating(step) == chat # Null /\ chat.kind = "create" /\ chat.step = step

\* authorize
Authorized == Resolved(speaker)

\* Only the conversation changes.
Turns(next) ==
    /\ Idle
    /\ chat' = next
    /\ UNCHANGED <<taskVars, speaker, made, excuses>>

-----------------------------------------------------------------------------
(* Buttons and commands that begin or end a conversation *)

\* open, for /tasks, and the button of the menu
openMenu == Authorized /\ Turns(Null)

\* The buttons that cancel, and /cancel.
cancelInput == Authorized /\ chat # Null /\ Turns(Null)

Started(next) ==
    /\ Authorized /\ Idle
    /\ chat' = next /\ made' = 0 /\ excuses' = 0
    /\ UNCHANGED <<taskVars, speaker>>

beginTaskInput(kind, t) ==
    /\ task[t] # Null /\ canView(speaker, task[t])
    /\ Started([kind |-> kind, on |-> t, step |-> "input"])

beginCreate == Holds(speaker, "create") /\ Started(NewDraft)

\* currentState: fifteen minutes after its last step a conversation is dead,
\* and a text of an account that is not authorized any more ends it.
Expire == chat # Null /\ Turns(Null)

-----------------------------------------------------------------------------
(* The steps of a new task *)

Follows(step) ==
    CASE step = "title" -> "description" [] step = "description" -> "priority"
      [] step = "priority" -> "owner"    [] step = "owner" -> "assignee"
      [] step = "assignee" -> "deadline" [] step = "deadline" -> "review"

\* What does not fit its step leaves the conversation as it is.
answerStep(step) ==
    /\ Authorized /\ Creating(step)
    /\ Turns([chat EXCEPT !.step = Follows(step)])

handleCreateText == \E step \in {"title", "description", "deadline"}: answerStep(step)
skipDescription == answerStep("description")
choosePriority == answerStep("priority")
skipDeadline == answerStep("deadline")

chooseOwner(d) ==
    /\ Authorized /\ Creating("owner") /\ MayOwn(speaker, d)
    /\ Turns([chat EXCEPT !.owner = d, !.step = Follows("owner")])

chooseAssignee(a) ==
    /\ Authorized /\ Creating("assignee") /\ AssigneeFits(a, chat.owner)
    /\ Turns([chat EXCEPT !.assignee = a, !.step = Follows("assignee")])

-----------------------------------------------------------------------------
(* What calls TaskService *)

Submits == chat' = [chat EXCEPT !.step = "submitting"] /\ UNCHANGED <<speaker, made, excuses>>

confirmCreate ==
    /\ Authorized /\ Creating("review")
    /\ BeginCreate(Bot, speaker, chat.owner, chat.assignee)
    /\ Submits

submitInput ==
    /\ Authorized /\ chat # Null /\ chat.kind # "create" /\ chat.step = "input"
    /\ IF chat.kind = "comment" THEN BeginComment(Bot, speaker, chat.on)
                                ELSE BeginTransition(Bot, speaker, chat.on, "BLOCKED")
    /\ Submits

\* The buttons start, resume and complete, whatever the conversation.
transition(t, to) ==
    /\ Authorized
    /\ BeginTransition(Bot, speaker, t, to)
    /\ UNCHANGED consoleVars

Submitting == chat # Null /\ chat.step = "submitting"

\* A slip: the conversation is left where it was when the call began.
ConcludedOpen ==
    chat' = IF ~Submitting THEN chat
            ELSE IF chat.kind = "create" THEN [chat EXCEPT !.step = "review"]
            ELSE [chat EXCEPT !.step = "input"]

\* After a call that succeeded the conversation is over.
Concluded == chat' = IF Submitting THEN Null ELSE chat

\* After one that failed it can be submitted again.
Reopened ==
    chat' = IF ~Submitting THEN chat
            ELSE [chat EXCEPT !.step = IF chat.kind = "create" THEN "review" ELSE "input"]

Counts == IF Submitting THEN 1 ELSE 0

CallWrites == Write(Bot) /\ made' = made + Counts /\ UNCHANGED <<speaker, chat, excuses>>

CallSucceeds == Log(Bot) /\ Concluded /\ UNCHANGED <<speaker, made, excuses>>

CallFails ==
    /\ \/ (Decline(Bot) \/ Fail(Bot)) /\ UNCHANGED made
       \/ LoseAnswer(Bot) /\ made' = made + Counts
    /\ Reopened
    /\ excuses' = excuses + Counts
    /\ UNCHANGED speaker

\* The process of both consoles dies: the conversation and every call in
\* hand are gone, and what was written stays.
Dies ==
    /\ requestFaults < MaxRequestFaults
    /\ requestFaults' = requestFaults + 1
    /\ work' = [c \in Callers |-> Null]
    /\ chat' = Null
    /\ UNCHANGED <<taskData, organisation, speaker, made, excuses>>

-----------------------------------------------------------------------------
ConsolesInit ==
    /\ TasksInit
    /\ speaker \in People
    /\ chat = Null /\ made = 0 /\ excuses = 0

\* What the buttons do: handleCallback.
Press ==
    \/ openMenu \/ cancelInput \/ beginCreate \/ confirmCreate
    \/ skipDescription \/ choosePriority \/ skipDeadline
    \/ \E t \in Tasks: \E kind \in {"comment", "block"}: beginTaskInput(kind, t)
    \/ \E t \in Tasks: \E to \in {"IN_PROGRESS", "COMPLETED"}: transition(t, to)
    \/ \E d \in Units: chooseOwner(d)
    \/ \E a \in People \cup {Null}: chooseAssignee(a)

\* What a text does: handleText.
Say == submitInput \/ cancelInput \/ handleCreateText

\* The updates of the account, which the bot handles one at a time.
Talk == Press \/ Say \/ Expire

\* What happens besides, in the web console and the administration.
Elsewhere ==
    /\ \/ Reorganise
       \/ \E c \in Callers \ {Bot}: CallStep(c) \/ Request(c)
    /\ UNCHANGED consoleVars

ConsolesNext == Talk \/ CallWrites \/ CallSucceeds \/ CallFails \/ Dies \/ Elsewhere

ConsolesSpec == ConsolesInit /\ [][ConsolesNext]_<<taskVars, consoleVars>>

-----------------------------------------------------------------------------
ConsolesTypeOK ==
    /\ TasksTypeOK
    /\ speaker \in People
    /\ chat \in Inputs \cup Drafts \cup {Null}
    /\ made \in Nat /\ excuses \in Nat

\* While the console waits for a call, the call is the person's own and does
\* what the conversation says.
SubmissionsMatch ==
    Submitting =>
        /\ work[Bot] # Null /\ work[Bot].by = speaker
        /\ IF chat.kind = "create"
             THEN work[Bot].kind = "create" /\ work[Bot].seen.assignee = chat.assignee
                    /\ work[Bot].seen.owner = chat.owner
             ELSE work[Bot].on = chat.on

\* However often a button is pressed, one conversation writes once, and once
\* more at most for every failure the person was told of.
WritesExcused == made <= 1 + excuses

\* The conversations of TelegramTaskConsoleService, with buttons pressed twice,
\* calls that fail after they have written, and restarts.
ConsolesInv == ConsolesTypeOK /\ RowsConsistent /\ SubmissionsMatch /\ WritesExcused
=============================================================================
