--------------------------- MODULE TaskIngestion ---------------------------
(***************************************************************************)
(* TaskIngestionService: the rows of a CSV file, or the one row of an      *)
(* integration's request, become tasks.  A batch goes through its rows one *)
(* after the other; each looks up its external reference, inserts, and     *)
(* appends to the audit log, in requests of their own.  Batches of several *)
(* requests overlap, and a caller that has no answer sends its rows again. *)
(***************************************************************************)
EXTENDS Naturals, Sequences, FiniteSets

CONSTANTS
    Batches,        \* rows task_import_batches may come to hold, each of one request
    Origins,        \* who imports: a person, or an integration
    Machines,       \* the origins that are integrations
    ExternalReferences, \* what callers number their tasks by
    NoReference,    \* no reference, or no row, batch or call
    MaxRows,        \* bound: rows of a file (the code's limit is 500)
    MaxIngestFaults \* bound: requests to the database that fail, and crashes

ASSUME IngestionAssumption ==
    /\ Machines \subseteq Origins
    /\ NoReference \notin ExternalReferences
    /\ MaxRows \in Nat /\ MaxIngestFaults \in Nat

VARIABLES
    imported,   \* the tasks, each known by the batch and the row it came from
    batch,      \* task_import_batches: the row of each batch
    import,     \* the request that works on each batch
    answer,     \* history: what a caller has been told of which rows
    ingestFaults

ingestionVars == <<imported, batch, import, answer, ingestFaults>>

Unknown == NoReference

\* What a row asks for: its reference; the rest of it is right or it is not,
\* which is found out when it is looked at.
RowInputs == ExternalReferences \cup {NoReference}

Files(origin) == IF origin \in Machines THEN [1..1 -> RowInputs]
                 ELSE UNION {[1..n -> RowInputs]: n \in 0..MaxRows}

Results == [status: {"CREATED", "VALID", "DUPLICATE", "FAILED"}, task: imported \cup {Unknown}]

-----------------------------------------------------------------------------
(* The table of tasks *)

\* findByExternalReference
Known(origin, reference) ==
    {t \in imported: reference # NoReference /\ t.origin = origin /\ t.reference = reference}

TaskOf(b) == [batch |-> b, row |-> import[b].row, origin |-> batch[b].origin,
              reference |-> import[b].rows[import[b].row]]

\* The two unique indexes: without a reference nothing is ever a duplicate.
Taken(b) == Known(TaskOf(b).origin, TaskOf(b).reference) # {}

-----------------------------------------------------------------------------
At(b, step) == import[b] # Unknown /\ import[b].step = step

Goes(b, step) == import' = [import EXCEPT ![b].step = step]

\* A row ends with a result, and the next one, if any, begins.
Concludes(b, status, task) ==
    LET last == import[b].row = Len(import[b].rows)
    IN  import' = [import EXCEPT
            ![b].results = Append(@, [status |-> status, task |-> task]),
            ![b].row = IF last THEN @ ELSE @ + 1,
            ![b].step = IF last THEN "complete" ELSE "look up"]

\* importCsv and ingestAutomation: the file is parsed, the batch is created.
Begin(b, origin, rows, dry) ==
    /\ batch[b] = Unknown
    /\ batch' = [batch EXCEPT ![b] = [origin |-> origin, dry |-> dry, status |-> "PROCESSING",
                                      total |-> 0, created |-> 0, failed |-> 0]]
    /\ import' = [import EXCEPT ![b] =
            [rows |-> rows, row |-> 1, results |-> <<>>,
             step |-> IF rows = <<>> THEN "complete" ELSE "look up"]]
    /\ UNCHANGED <<imported, answer, ingestFaults>>

\* The row is not what it has to be: fromCsv, resolve or validateIntake throws.
Reject(b) ==
    /\ At(b, "look up")
    /\ Concludes(b, "FAILED", Unknown)
    /\ UNCHANGED <<imported, batch, answer, ingestFaults>>

\* What has been found makes the row a duplicate.
Duplicate(b) ==
    /\ At(b, "look up") \/ At(b, "look again")
    /\ \E t \in Known(TaskOf(b).origin, TaskOf(b).reference): Concludes(b, "DUPLICATE", t)
    /\ UNCHANGED <<imported, batch, answer, ingestFaults>>

\* Nothing has been found: validateIntake ends there, createFromIntake inserts.
LookUp(b) ==
    /\ At(b, "look up") /\ ~Taken(b)
    /\ IF batch[b].dry THEN Concludes(b, "VALID", Unknown) ELSE Goes(b, "insert")
    /\ UNCHANGED <<imported, batch, answer, ingestFaults>>

\* A slip: the table takes whatever it is given.
TaskTakenTwice(b) == imported' = imported \cup {TaskOf(b)}

TaskInserted(b) == ~Taken(b) /\ imported' = imported \cup {TaskOf(b)}

Insert(b) ==
    /\ At(b, "insert")
    /\ TaskInserted(b)
    /\ Goes(b, "audit")
    /\ UNCHANGED <<batch, answer, ingestFaults>>

\* 23505: another batch has inserted the reference since it was looked up.
Conflict(b) ==
    /\ At(b, "insert") /\ Taken(b)
    /\ Goes(b, "look again")
    /\ UNCHANGED <<imported, batch, answer, ingestFaults>>

Audit(b) ==
    /\ At(b, "audit")
    /\ Concludes(b, "CREATED", TaskOf(b))
    /\ UNCHANGED <<imported, batch, answer, ingestFaults>>

Count(b, status) == Cardinality({i \in DOMAIN import[b].results: import[b].results[i].status = status})

Verdict(b) ==
    CASE Count(b, "FAILED") = 0                       -> "COMPLETED"
      [] Count(b, "FAILED") = Len(import[b].results)  -> "FAILED"
      [] OTHER                                        -> "PARTIAL"

Completed(b) ==
    batch' = [batch EXCEPT ![b].status = Verdict(b), ![b].total = Len(import[b].results),
                           ![b].created = Count(b, "CREATED"), ![b].failed = Count(b, "FAILED")]

Complete(b) ==
    /\ At(b, "complete")
    /\ Completed(b)
    /\ Goes(b, "answer")
    /\ UNCHANGED <<imported, answer, ingestFaults>>

\* The batch is in the audit log and the caller has its answer.
Respond(b) ==
    /\ At(b, "answer")
    /\ answer' = [answer EXCEPT ![b] = [rows |-> import[b].rows, results |-> import[b].results]]
    /\ import' = [import EXCEPT ![b] = Unknown]
    /\ UNCHANGED <<imported, batch, ingestFaults>>

-----------------------------------------------------------------------------
Faulty == ingestFaults < MaxIngestFaults /\ ingestFaults' = ingestFaults + 1

\* A request for a row fails, whether it took effect or not: the row has
\* failed, the task it may have made stays, and the batch goes on.
RowFails(b) ==
    /\ Faulty
    /\ \/ \E step \in {"look up", "insert", "look again", "audit"}: At(b, step) /\ UNCHANGED imported
       \/ At(b, "insert") /\ TaskInserted(b)
    /\ Concludes(b, "FAILED", Unknown)
    /\ UNCHANGED <<batch, answer>>

\* A request for the batch fails: the caller gets an error.
BatchFails(b) ==
    /\ Faulty
    /\ \/ (At(b, "complete") \/ At(b, "answer")) /\ UNCHANGED batch
       \/ At(b, "complete") /\ Completed(b)
    /\ import' = [import EXCEPT ![b] = Unknown]
    /\ UNCHANGED <<imported, answer>>

\* The process dies: batches in hand stay PROCESSING for good.
IngestionDies ==
    /\ Faulty
    /\ import' = [b \in Batches |-> Unknown]
    /\ UNCHANGED <<imported, batch, answer>>

IngestionInit ==
    /\ imported = {}
    /\ batch = [b \in Batches |-> Unknown]
    /\ import = [b \in Batches |-> Unknown]
    /\ answer = [b \in Batches |-> Unknown]
    /\ ingestFaults = 0

IngestionNext ==
    \/ \E b \in Batches:
        \/ \E origin \in Origins: \E rows \in Files(origin): \E dry \in BOOLEAN: Begin(b, origin, rows, dry)
        \/ Reject(b) \/ Duplicate(b) \/ LookUp(b) \/ Insert(b) \/ Conflict(b) \/ Audit(b)
        \/ Complete(b) \/ Respond(b) \/ RowFails(b) \/ BatchFails(b)
    \/ IngestionDies

IngestionSpec == IngestionInit /\ [][IngestionNext]_ingestionVars

-----------------------------------------------------------------------------
\* However its rows are repeated, concurrently or after a failure, one origin
\* gets one task for a reference.
OncePerReference ==
    \A t, u \in imported:
        t.reference # NoReference /\ t.origin = u.origin /\ t.reference = u.reference => t = u

\* A row told to be created or a duplicate has its task, of its own origin and
\* reference, and a dry run has made none.
AnswersTrue ==
    \A b \in Batches: answer[b] # Unknown =>
        \A i \in DOMAIN answer[b].results:
            LET result == answer[b].results[i]
            IN  /\ result.status \in {"CREATED", "DUPLICATE"} =>
                    /\ result.task \in imported /\ result.task.origin = batch[b].origin
                    /\ result.task.reference = answer[b].rows[i]
                /\ result.status = "CREATED" => result.task.batch = b /\ result.task.row = i
                /\ batch[b].dry => \A t \in imported: t.batch # b

\* The counts of a finished batch: every task it made is counted as created, or
\* is one of its failed rows, whose caller was not told of it.
CountsOf(b) ==
    batch[b] # Unknown /\ batch[b].status # "PROCESSING" =>
        LET made == Cardinality({t \in imported: t.batch = b})
        IN  /\ batch[b].created <= made /\ made <= batch[b].created + batch[b].failed
            /\ batch[b].status = "COMPLETED" => batch[b].failed = 0
            /\ answer[b] # Unknown => batch[b].total = Len(answer[b].rows)

CountsHold == \A b \in Batches: CountsOf(b)

IngestionTypeOK ==
    /\ \A b \in Batches: import[b] # Unknown => batch[b] # Unknown
                                /\ \A i \in DOMAIN import[b].results: import[b].results[i] \in Results
    /\ ingestFaults \in 0..MaxIngestFaults

\* What TaskIngestionService.execute and TaskService.createFromIntake promise
\* together, with overlapping and repeated requests and a fault at any point.
IngestionInv == IngestionTypeOK /\ OncePerReference /\ AnswersTrue /\ CountsHold

-----------------------------------------------------------------------------
(* The inductive invariant behind it *)

Working == {"look up", "insert", "look again", "audit"}

BatchRecords == [origin: Origins, dry: BOOLEAN, status: {"PROCESSING", "COMPLETED", "FAILED", "PARTIAL"},
                 total: Nat, created: Nat, failed: Nat]
TaskRecords == [batch: Batches, row: Nat, origin: Origins, reference: RowInputs]
ResultRecords == [status: {"CREATED", "VALID", "DUPLICATE", "FAILED"}, task: TaskRecords \cup {Unknown}]
ImportRecords == [rows: Seq(RowInputs), row: Nat, results: Seq(ResultRecords),
                  step: Working \cup {"complete", "answer"}]
AnswerRecords == [rows: Seq(RowInputs), results: Seq(ResultRecords)]

ASSUME UnknownApart == NoReference \notin BatchRecords

IngestionTyped ==
    /\ imported \subseteq TaskRecords
    /\ batch \in [Batches -> BatchRecords \cup {Unknown}]
    /\ import \in [Batches -> ImportRecords \cup {Unknown}]
    /\ answer \in [Batches -> AnswerRecords \cup {Unknown}]
    /\ ingestFaults \in 0..MaxIngestFaults

\* A request that is at a row has a result for every row before it, and no
\* other; its batch is open until all have theirs.
OrderOf(b) ==
    import[b] # Unknown =>
        /\ batch[b] # Unknown /\ answer[b] = Unknown
        /\ IF import[b].step \in Working
             THEN import[b].row \in 1..Len(import[b].rows) /\ Len(import[b].results) = import[b].row - 1
             ELSE Len(import[b].results) = Len(import[b].rows)
        /\ import[b].step # "answer" => batch[b].status = "PROCESSING"
        /\ import[b].step = "answer" => batch[b].total = Len(import[b].rows)
        /\ import[b].step \in {"insert", "look again", "audit"} => ~batch[b].dry
        /\ import[b].step = "audit" => TaskOf(b) \in imported

InOrder == \A b \in Batches: OrderOf(b)

\* A task comes from a row of its batch that has failed if it was not created; the
\* row under way may have its task already.  No row has made two.
Placed(t) ==
    /\ batch[t.batch] # Unknown /\ ~batch[t.batch].dry
    /\ import[t.batch] # Unknown =>
        \/ /\ t.row \in 1..Len(import[t.batch].results)
           /\ import[t.batch].results[t.row].status \in {"CREATED", "FAILED"}
        \/ import[t.batch].step = "audit" /\ t.row = import[t.batch].row

OncePerRow == \A t, u \in imported: t.batch = u.batch /\ t.row = u.row => t = u

TasksPlaced == OncePerRow /\ \A t \in imported: Placed(t)

\* What is going to be answered is true already, and what was answered still is.
ResultTrue(b, rows, results, i) ==
    /\ results[i].status \in {"CREATED", "DUPLICATE"} =>
        /\ results[i].task \in imported /\ results[i].task.origin = batch[b].origin
        /\ results[i].task.reference = rows[i]
    /\ results[i].status = "CREATED" => results[i].task.batch = b /\ results[i].task.row = i

ResultsOf(b) ==
    /\ import[b] # Unknown => \A i \in 1..Len(import[b].results):
        /\ ResultTrue(b, import[b].rows, import[b].results, i)
        /\ import[b].results[i].task \in imported \cup {Unknown}
    /\ answer[b] # Unknown => batch[b] # Unknown /\
        \A i \in 1..Len(answer[b].results): ResultTrue(b, answer[b].rows, answer[b].results, i)

ResultsTrue == \A b \in Batches: ResultsOf(b)

IngestionIndInv ==
    /\ IngestionTyped /\ InOrder /\ TasksPlaced /\ ResultsTrue
    /\ OncePerReference /\ CountsHold
=============================================================================
