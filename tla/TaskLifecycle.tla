--------------------------- MODULE TaskLifecycle ----------------------------
(***************************************************************************)
(* TaskService on the rows of tasks.  A call reads what it needs, decides  *)
(* on it, and writes by the task's id alone in a later request to the      *)
(* database; activities and audit rows follow in requests of their own.    *)
(* Nothing holds the row in between, so other calls, of the web console or *)
(* of the Telegram console, run between any two of these steps.            *)
(***************************************************************************)
EXTENDS Naturals

CONSTANTS
    People,         \* rows of public.users
    Units,          \* rows of public.divisions
    Null,           \* SQL's null, and the absence of a row or a call
    Tasks,          \* rows public.tasks may come to hold
    Grants,         \* what the roles of a person permit
    Callers,        \* calls of TaskService that may run at once
    Bot,            \* the one of them the Telegram console makes
    MaxRequestFaults,   \* bound: requests to the database that fail
    MaxMoves            \* bound: changes of the organisation

Permissions == {"create", "update", "complete", "activity", "view_assigned", "view_division"}

ASSUME TasksAssumption ==
    /\ Grants \in [People -> SUBSET Permissions]
    /\ Bot \in Callers
    /\ Null \notin Tasks \cup People \cup Units
    /\ MaxRequestFaults \in Nat
    /\ MaxMoves \in Nat

VARIABLES
    task,       \* the row of each task, Null before it is created
    links,      \* task_relationships
    home,       \* the division of each person, Null unless active and complete
    admins,     \* people with effective system administrator authority
    open,       \* pairs of divisions whose collaboration is allowed
    work,       \* the call each caller is in the middle of, Null if there is none
    requestFaults, moves

taskData == <<task, links>>
organisation == <<home, admins, open, moves>>
taskVars == <<taskData, organisation, work, requestFaults>>

Statuses == {"DRAFT", "OPEN", "IN_PROGRESS", "BLOCKED", "COMPLETED", "CANCELLED"}

TaskRows == [status: Statuses, creator: People, requesting: Units, owner: Units,
         assignee: People \cup {Null}, completed: BOOLEAN, cancelled: BOOLEAN]

\* A call: `seen` is the row it read, or the one it is about to insert.
WorkRecords ==
    [stage: {"write", "log"},
     kind: {"create", "update", "transition", "comment", "relate"},
     by: People, on: Tasks \cup {Null},
     to: Statuses \cup People \cup Tasks \cup {Null}, seen: TaskRows]

ASSUME NullApart == Null \notin TaskRows /\ Null \notin WorkRecords

\* TRANSITIONS
Transitions ==
    [DRAFT       |-> {"OPEN", "CANCELLED"},
     OPEN        |-> {"IN_PROGRESS", "BLOCKED", "COMPLETED", "CANCELLED"},
     IN_PROGRESS |-> {"BLOCKED", "COMPLETED", "CANCELLED"},
     BLOCKED     |-> {"IN_PROGRESS", "COMPLETED", "CANCELLED"},
     COMPLETED   |-> {},
     CANCELLED   |-> {}]

\* completed_at and cancelled_at, as set or not set (started_at, which no
\* decision depends on, is left out).
lifecycleTimestamps(row, status) ==
    [completed |-> status = "COMPLETED", cancelled |-> status = "CANCELLED"]

NewRow(creator, requesting, owner, assignee) ==
    [status |-> "OPEN", creator |-> creator, requesting |-> requesting, owner |-> owner,
     assignee |-> assignee, completed |-> FALSE, cancelled |-> FALSE]

-----------------------------------------------------------------------------
(* Who may do what *)

\* Every call resolves its person anew, who needs a complete and active account.
Resolved(p) == home[p] # Null

\* Whom the HTTP API may act for: the administrator of the session, or, with
\* the shared key, the only one there is, who may do less.
RequestActors == {p \in admins: Resolved(p)}

Holds(p, permission) == Resolved(p) /\ permission \in Grants[p]

canView(p, row) ==
    /\ Resolved(p)
    /\ \/ row.creator = p
       \/ row.assignee = p /\ Holds(p, "view_assigned")
       \/ home[p] \in {row.owner, row.requesting} /\ Holds(p, "view_division")

Assigned(p, row, permission) == row.assignee = p /\ Holds(p, permission)

canCancel(c, p, row) ==
    \/ c # Bot /\ p \in RequestActors
    \/ Assigned(p, row, "update")

canTransition(c, p, row, to) ==
    CASE to = "COMPLETED" -> Assigned(p, row, "complete")
      [] to = "CANCELLED" -> canCancel(c, p, row)
      [] OTHER            -> Assigned(p, row, "update")

\* validateAssignee
AssigneeFits(assignee, owner) == assignee # Null => home[assignee] = owner

\* assertTaskCollaborationAllowed, for another division than one's own.
MayOwn(p, owner) == owner = home[p] \/ <<home[p], owner>> \in open

-----------------------------------------------------------------------------
(* What a request may ask for; its wording does not matter here *)

CreateInputs == [owner: Units, assignee: People \cup {Null}]
UpdateInputs == People \cup {Null}      \* the assignee, which other fields go with
TransitionInputs == Statuses
RelationshipInputs == Tasks

-----------------------------------------------------------------------------
(* The first half of a call: read and decide *)

Begins(c, record) ==
    /\ work[c] = Null
    /\ work' = [work EXCEPT ![c] = record]
    /\ UNCHANGED <<taskData, organisation, requestFaults>>

Record(kind, p, t, to, seen) ==
    [stage |-> "write", kind |-> kind, by |-> p, on |-> t, to |-> to, seen |-> seen]

BeginCreate(c, p, owner, assignee) ==
    /\ Holds(p, "create") /\ MayOwn(p, owner) /\ AssigneeFits(assignee, owner)
    /\ Begins(c, Record("create", p, Null, assignee, NewRow(p, home[p], owner, assignee)))

BeginUpdate(c, p, t, assignee) ==
    /\ task[t] # Null
    /\ Assigned(p, task[t], "update")
    /\ AssigneeFits(assignee, task[t].owner)
    /\ Begins(c, Record("update", p, t, assignee, task[t]))

BeginTransition(c, p, t, to) ==
    /\ task[t] # Null
    /\ canTransition(c, p, task[t], to)
    /\ to \in Transitions[task[t].status]
    /\ Begins(c, Record("transition", p, t, to, task[t]))

BeginComment(c, p, t) ==
    /\ task[t] # Null
    /\ Assigned(p, task[t], "activity")
    /\ Begins(c, Record("comment", p, t, Null, task[t]))

BeginRelate(c, p, t, other) ==
    /\ t # other /\ task[t] # Null /\ task[other] # Null
    /\ Assigned(p, task[t], "update") /\ canView(p, task[other])
    /\ <<t, other>> \notin links
    /\ Begins(c, Record("relate", p, t, other, task[t]))

-----------------------------------------------------------------------------
(* The second half: write by id, then log *)

Inserted(c) ==
    /\ \E t \in Tasks: task[t] = Null /\ task' = [task EXCEPT ![t] = work[c].seen]
    /\ UNCHANGED links

\* A slip: the whole row is written, as it was read and then changed.
SavedWhole(c, row) ==
    IF work[c].kind = "update" THEN [work[c].seen EXCEPT !.assignee = work[c].to]
    ELSE [work[c].seen EXCEPT !.status = work[c].to,
                              !.completed = work[c].to = "COMPLETED",
                              !.cancelled = work[c].to = "CANCELLED"]

\* An update writes the fields its request names, a transition the status
\* and its timestamps, computed from the row the call has read.
SavedRow(c, row) ==
    LET stamps == lifecycleTimestamps(work[c].seen, work[c].to)
    IN  IF work[c].kind = "update" THEN [row EXCEPT !.assignee = work[c].to]
        ELSE [row EXCEPT !.status = work[c].to,
                         !.completed = stamps.completed, !.cancelled = stamps.cancelled]

Saved(c) ==
    /\ task' = [task EXCEPT ![work[c].on] = SavedRow(c, @)]
    /\ UNCHANGED links

Linked(c) ==
    /\ <<work[c].on, work[c].to>> \notin links
    /\ links' = links \cup {<<work[c].on, work[c].to>>}
    /\ UNCHANGED task

\* What the request a call has come to does to the rows; the activities and
\* audit rows that follow are not modelled.
Effect(c) ==
    CASE work[c].stage = "log" \/ work[c].kind = "comment" -> UNCHANGED taskData
      [] work[c].kind = "create"                           -> Inserted(c)
      [] work[c].kind = "relate"                           -> Linked(c)
      [] OTHER                                             -> Saved(c)

Ends(c) == work' = [work EXCEPT ![c] = Null]

Write(c) ==
    /\ work[c] # Null /\ work[c].stage = "write"
    /\ Effect(c)
    /\ work' = [work EXCEPT ![c].stage = "log"]
    /\ UNCHANGED <<organisation, requestFaults>>

Log(c) ==
    /\ work[c] # Null /\ work[c].stage = "log"
    /\ Ends(c)
    /\ UNCHANGED <<taskData, organisation, requestFaults>>

\* Another call has related the two tasks since this one looked.
Decline(c) ==
    /\ work[c] # Null /\ work[c].stage = "write"
    /\ work[c].kind = "relate" /\ <<work[c].on, work[c].to>> \in links
    /\ Ends(c)
    /\ UNCHANGED <<taskData, organisation, requestFaults>>

\* A request fails: the call ends with an error, and what it has not done
\* yet is left undone.
RequestFails(c) ==
    /\ work[c] # Null /\ requestFaults < MaxRequestFaults
    /\ Ends(c)
    /\ requestFaults' = requestFaults + 1
    /\ UNCHANGED organisation

\* The request that fails did nothing, ...
Fail(c) == RequestFails(c) /\ UNCHANGED taskData

\* ... or only its answer was lost.
LoseAnswer(c) == RequestFails(c) /\ work[c].stage = "write" /\ Effect(c)

\* The steps of a call that has begun.
CallStep(c) == Write(c) \/ Log(c) \/ Decline(c) \/ Fail(c) \/ LoseAnswer(c)

-----------------------------------------------------------------------------
\* A person is moved, deactivated or activated, given or deprived of
\* authority, or a collaboration rule is changed, by the administration.
Reorganise ==
    /\ moves < MaxMoves /\ moves' = moves + 1
    /\ \/ \E p \in People, d \in Units \cup {Null}:
            home' = [home EXCEPT ![p] = d] /\ UNCHANGED <<admins, open>>
       \/ \E p \in People:
            /\ admins' = IF p \in admins THEN admins \ {p} ELSE admins \cup {p}
            /\ UNCHANGED <<home, open>>
       \/ \E d, e \in Units:
            /\ d # e
            /\ open' = IF <<d, e>> \in open THEN open \ {<<d, e>>} ELSE open \cup {<<d, e>>}
            /\ UNCHANGED <<home, admins>>
    /\ UNCHANGED <<taskData, work, requestFaults>>

\* The operations of the HTTP API, for administrators.
Request(c) ==
    \E p \in RequestActors:
        \/ \E input \in CreateInputs: BeginCreate(c, p, input.owner, input.assignee)
        \/ \E t \in Tasks: \E assignee \in UpdateInputs: BeginUpdate(c, p, t, assignee)
        \/ \E t \in Tasks: \E to \in TransitionInputs: BeginTransition(c, p, t, to)
        \/ \E t \in Tasks: BeginComment(c, p, t)
        \/ \E t \in Tasks: \E other \in RelationshipInputs: BeginRelate(c, p, t, other)

TasksInit ==
    /\ home \in [People -> Units]
    /\ admins \in SUBSET People
    /\ open = {}
    /\ task \in [Tasks -> {Null} \cup {NewRow(p, home[p], home[p], p): p \in People}]
    /\ links = {}
    /\ work = [c \in Callers |-> Null]
    /\ requestFaults = 0
    /\ moves = 0

TasksNext ==
    \/ Reorganise
    \/ \E c \in Callers: CallStep(c)
    \/ \E c \in Callers \ {Bot}: Request(c)

TaskSpec == TasksInit /\ [][TasksNext]_taskVars

-----------------------------------------------------------------------------
TasksTypeOK ==
    /\ task \in [Tasks -> TaskRows \cup {Null}]
    /\ links \subseteq Tasks \X Tasks
    /\ home \in [People -> Units \cup {Null}]
    /\ admins \subseteq People
    /\ open \subseteq Units \X Units
    /\ work \in [Callers -> WorkRecords \cup {Null}]
    /\ requestFaults \in 0..MaxRequestFaults
    /\ moves \in 0..MaxMoves

\* The timestamps of a row agree with its status, as the checks on the table
\* demand (202608290004_create_task_core.sql), although the row may have
\* changed since the writer read it.
RowsConsistent ==
    \A t \in Tasks: task[t] # Null =>
        /\ task[t].completed <=> task[t].status = "COMPLETED"
        /\ task[t].cancelled <=> task[t].status = "CANCELLED"

\* Calls that overlap on a task (TaskService.update and transition) do not
\* undo one another's work: no step changes both the status and the assignee
\* of a task, so a new assignment survives a transition decided before it.
FieldsApart ==
    [][\A t \in Tasks: task[t] # Null =>
        task'[t].status = task[t].status \/ task'[t].assignee = task[t].assignee]_taskVars

\* Terminal-state protection, as docs/beta-readiness.md promises it of
\* TaskService: a completed or cancelled task keeps its status.
TerminalKept ==
    [][\A t \in Tasks:
        task[t] # Null /\ Transitions[task[t].status] = {} => task'[t].status = task[t].status]_taskVars
=============================================================================
