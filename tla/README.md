# Sotoayam in TLA+

Sotoayam is a task and notification service: a Node.js process (Fastify, TypeScript)
with Postgres (Supabase) behind it and Telegram in front of it. This directory holds
TLA+ models of the parts of it where order, failure and concurrency decide whether it
is right, the TLC configurations that check them, and TLAPS proofs about them. Paths
below are relative to the repository.

- [The system](#the-system)
- [The modules](#the-modules)
- [What the runs check](#what-the-runs-check)
- [Bounds and fairness](#bounds-and-fairness)
- [What is proved](#what-is-proved)
- [Where the code and its documents differ](#where-the-code-and-its-documents-differ)
- [What is not modelled](#what-is-not-modelled)
- [Plan](#plan)
- [Running it](#running-it)

## The system

One process serves HTTP, polls Telegram and runs the reminder timers. Everything that
must survive it is in Postgres, reached by single calls: an RPC is a function that runs
in one transaction, any other call is one statement. The process has one thread, so
code between two `await`s is not interrupted; everything else interleaves. A second
process may run beside the first during a deployment, and an operator may run scripts.

| Component | State | Operations | Interacts with |
| --- | --- | --- | --- |
| Telegram polling (`src/telegram/bot.ts`, `telegram-polling.repository.ts`, migration 202609120001) | polling cursor and one ledger row per update in Postgres; offset, batch and counters in memory | load, getUpdates, claim, handle, complete, stop, force-advance | Telegram's queue; the consoles as handlers |
| Delivery ledger (`notification-delivery.service.ts`, `reminders.repository.ts`, migration 202609010002) | `notification_deliveries` | findDue, claim, send, markDelivered, markFailed | filled by intake and reminders, drained by both; Telegram client |
| Event intake (`notification-intake.service.ts`, migration 202609080001) | `notification_events`, `notifications`; map of running operations | intake transaction, dispatch, direct broadcast, summary | delivery ledger, fan-out gate |
| Fan-out gate (`telegram-fanout.service.ts`) | slots, waiters, pacing chain, stop signal | sendMessage, sendAll, stop | every notification sender; Telegram client |
| Reminders (`reminder-scheduler.service.ts`, `reminder-evaluator.service.ts`, `reminder-policy.ts`) | lease row, `task_reminder_states`; current run | timer, acquire, evaluate, create intents, complete | tasks, routing, delivery ledger |
| Telegram and HTTP clients (`telegram.service.ts`, `outbound-http-client.ts`) | attempt, timer, abort signal of a call | send with bounded retries, two Retry-After hints, timeouts, abort | Telegram |
| Critical alerts (`critical-alert*.service.ts`, migration 202609010004) | alert rows, evaluator lease | evaluate, raise, refresh, resolve, acknowledge | timers, tasks |
| Admin sessions (`admin-authentication.service.ts`, migration 202609100001) | credential, sessions, failure counters | login, logout, change and reset passwords, revoke | user management |
| System administrator invariant (migrations 202609130001, 202609140001, 202609090002) | users and their logins, divisions, SYSTEM_ADMIN assignments, business actor | create, activate, move, assign, revoke, grant and take authority, delete divisions | sessions, settings, reporting |
| Admin user management (`user-management.service.ts`, `telegram/it-console.ts`) | users: division, role, active, code; conversations of the IT console | edit access, edit the code | authority, tasks |
| Integration credentials (migration 202609110001) | keys of an integration | issue, rotate, revoke, present | intake routes |
| First owner bootstrap (`setup.routes.ts`, `cli/setup.ts`, migrations 202609090001, 202609250001) | marker, lineage, first login, setup token | status, preview, provision | bot registration, settings |
| Rate limits and authorization (`rate-limit*.ts`, `admin-authorization.ts`) | buckets in memory, first use of the shared key | consume, sweep, penalise, authorize | all routes |
| Tasks (`task.service.ts`, `task-authorization.ts`) | tasks, relationships | create, update, transition, comment, relate | consoles, reminders |
| Ingestion (`task-ingestion.service.ts`) | import batches | begin, insert by external reference, count, respond | tasks |
| Task console (`telegram/task-console.ts`) | one conversation per account, in memory | buttons and texts | tasks |
| Onboarding, pairing, identity (`telegram-onboarding.service.ts`, migrations) | users, legacy rows, channels, pairing tokens | register, pair, review, reconcile | administrators' pages |
| Runtime settings (`runtime-settings.service.ts`, migration 202609150001) | versioned row; record and snapshot in memory | load, edit with the expected version, designate the business actor | reporting, alerts, reminder timers |
| Readiness (`readiness.service.ts`) | probe in flight, cached result | check | monitors |
| Browser console (`public/app.js`, `users.js`, `ui-core.js`) | what a page shows, calls under way | panels, lists, dialogs, test notifications, passwords | all administrative routes |
| Releases, environment, backups (`scripts/`) | links of the server, migrations, environment file, archives | deploy, roll back, migrate, install, back up, verify, restore | operators |
| Taxonomy, governance, reporting, messages, legacy broadcast | tables and static data | queries, migrations, wording | - |

The hard behaviours, component by component, and what makes each right:

- **Polling.** getUpdates acknowledges everything below its offset, so the order of
  claim, handler, completion and offset decides what a crash loses or repeats. Right
  means: nothing is lost, nothing finished runs again, tries are bounded, updates run in
  order, and the cursor neither passes work in progress nor stops for good.
- **Delivery.** Several workers take rows with a compare-and-set and write the outcome
  later by id alone; rows of dead workers are taken back after ten minutes. Right means:
  one holder at a time, sends accounted for, settled rows stay settled, rows settle.
- **Intake.** Callers retry with the same identity, concurrently and after crashes, with
  recipients that may have changed. Right means: a success answer is true, everyone on
  record is counted, and nobody is sent the same again unless something failed.
- **Fan-out.** Slots change hands inside callbacks; timers bunch together; stop comes
  at any point. Right means: exact counting, spacing, order, and an answer for everyone.
- **Reminders.** The lease can expire under a live run; state read early is used late.
  Right means: one run at a time while leases hold, counts that match what was created,
  reminders that keep their interval, and no due task forgotten.
- **Administrators.** Authority hangs on rows of three tables, each changed by people
  who may be losing it. Right means: somebody always administers, and the business
  actor stays fit for what is resolved through it.
- **Runtime settings.** A copy in memory, pages that show it for a while, answers that
  get lost. Right means: no edit overwrites what its page did not show, the service
  applies what it shows and never goes back, and a reload shows the current row.
- **Sessions, keys, people, identity.** Rows are read, compared and hashed for, and used
  requests later. Right means: no session outlives its password's end, no key the end
  that was announced, an edit is saved only over what it was checked against, and the
  three records of a chat agree whatever is pressed twice.
- **Tasks.** Decided on a row read several awaits ago, written by id alone. Right means:
  overlapping calls do not undo each other's fields, a conversation writes once, an
  external reference becomes one task. A terminal status is not protected this way.
- **Alerts.** Three reads, then writes, under a lease only one of the writes looks at.
  Right means: only the newest evidence resolves, and alerts come to what is wrong.
- **First installation.** A page, a command and the bot's registrations meet in one
  transaction. Right means: one winner, nobody overlooked, and a truthful answer.
- **Clients, gates, probes.** Answers that are late or missing, budgets at their limits,
  clocks set back. Right means: no message twice, no token lost or gained by forgetting
  a bucket, no answer older than it may be.
- **The page.** Answers arrive in any order after the person has gone on. Right means:
  it shows what was asked for last and changes what its dialog shows.
- **Scripts.** Stopped between two commands or run beside one another. Right means:
  nothing runs ahead of its migrations, and what is called verified is whole.

`PROJECT.json` lists the components with their files, and every hazard at its line.

## The modules

| Module | Models | Composed with |
| --- | --- | --- |
| `AtLeastOnce` | what the poller promises about each update | refined by `TelegramPolling` |
| `TelegramPolling` | loop, ledger and cursor transactions, Telegram's queue | - |
| `NotificationDelivery` | delivery rows and the workers of `processDue` | - |
| `NotificationIntake` | requests for one event identity | extends `NotificationDelivery` |
| `TelegramFanout` | the send gate | - |
| `ReminderScheduler` | lease, runs, reminder state | its deliveries are `NotificationDelivery`'s rows |
| `CriticalAlerts` | evaluations under their lease, the alert rows | `MCProcesses` |
| `TaskLifecycle` | calls of `TaskService`, in halves | `MCTaskLifecycle` |
| `TelegramConsoles` | conversations of the task console | extends `TaskLifecycle`; `MCAdministration` |
| `TaskIngestion` | import batches and single intakes | `MCAdministration` |
| `AdminSessions` | logins, passwords and sessions of one administrator | `MCAdministration` |
| `UserAccess` | edits of people from pages and the IT console | `MCAdministration` |
| `TelegramIdentity` | registration, pairing, the three records of a chat | `MCAdministration` |
| `Bootstrap` | the first installation | `MCAdministration` |
| `IntegrationCredentials` | the keys of an integration, with their locks | `MCInternalApi` |
| `HttpGate` | rate limits and authorization of a request | `MCInternalApi` |
| `BrowserConsole` | one page of the console | `MCInternalApi` |
| `OutboundCalls` | one call to Telegram | `MCProcesses` |
| `Releases`, `Environment`, `Backups` | what operators' scripts do | `Operations` |
| `Readiness` | the shared probe and its cache | `Operations` |
| `Operations` | the four above, side by side | `MCProcesses` |
| `AdminConstants` | the people, divisions and roles of an installation | - |
| `SystemAuthority` | users, divisions, assignments, business actor | `MCAdministration` |
| `RuntimeSettings` | the settings row, the service's copy, the pages | `MCAdministration` |

`MC*` modules give the constants values; `*_proofs` modules hold the theorems.
`MCAdministration`, `MCInternalApi` and `MCProcesses` host several modules that share no
variable. Their product would only interleave independent steps, so every behaviour has a
`focus`, moves that one module and leaves the others at rest; each host's invariants are
those of all its modules. Composition proper is where state is shared: intake with the
ledger, the task console with the calls of `TaskService`, the poller with what it promises.

**TelegramPolling.** `status`, `attempts` and `nextOffset` are the two tables; `pending`
is Telegram's queue; `pc`, `offset`, `todo` the loop. `ClaimRow` and `CompleteRow` are
the two RPCs with all their branches, and each caller step (`Claim`, `Complete`) has a
variant in which the answer is lost or nothing was committed (`ClaimFails`,
`CompleteFails`). `GetUpdates` removes from the queue what its offset acknowledges.
`Stop` and `Quit` are the shutdown of `server.ts`, `Abandon` the handler it does not wait
for, `ForceAdvance` the operator's RPC, `Age` makes a terminal row old enough for the
pruning at the end of the completion. What a handler does is one step, and whether it
throws does not matter to the ledger beyond the verdict. A getUpdates request aborted by
the shutdown is not distinguished from one that was not sent.

**NotificationDelivery.** Time passes in ticks of five minutes and is kept relative to
each row (`wait`, `age`), so runs need no bound on it. A claim compares the row's
`updated_at` with what was read: `unwritten[w]` is the set of rows not written since
worker `w` read them. The limit of `findDue` is applied before the filters, as in the
code. A send ends accepted, rejected or uncertain; `MarkDeliveredFails` leads into the
failure path as the `catch` does. A worker may outlast the reclaim threshold only where
the bound `MaxStalls` allows it.

**NotificationIntake.** A request is a worker of the ledger, restricted to its
recipients. `Begin` waits on the map of running operations, `Accept`, `Reject`, `Replay`
and `Resume` are the outcomes of the intake transaction, `Round` and `Deliver` the
dispatch, `Broadcast` the direct messages to recipients without a normalized user,
`Record` the completion. The admin test notification takes the same path with one
recipient and is not an instance of its own; a failing recipient query ends a request
before anything happens.

**TelegramFanout.** `active`, `waiters`, `chain` and `due` are the fields; `place` is
where each call's promise stands. Code between two awaits is one step. Time is `due`,
the distance to `nextStartAt`, so the clock only moves forward: `Date.now` set back is
not modelled. `sendAll`'s workers are the requests it has under way (`Busy`).

**ReminderScheduler.** The lease row is `owner`, `until`, `status`. Every run asks under
a fresh name; an owner nobody answers for any more is `Stale`. `listed`, then `todo`
and `at` are what a run carries from one await to the next. The policy is reduced to two
times per task, `RemindFrom` and `EscalateFrom`: deadline, priority and blocked time
decide them, an edit that would change them is not modelled. `next` and `count` are
`task_reminder_states`, `keys` the notifications by dedupe key. Routing answers any of
`Recipients`, also differently each time. A process asks for a lease of twice its
`interval`, which `ChangeInterval` changes between runs; the database refuses a longer
lease than `MaxLease`, so that such a process has no run (`Granted`). The admin route only
evaluates dry and changes nothing. Closing a task is final here; since updates go by id alone, a
stale update could reopen it, which is the business of `TaskLifecycle`.

**SystemAuthority.** `account` joins `users` with `admin_credentials`; `assigned` holds
the unrevoked assignments, `designated` the business actor. Each privileged function is
one action, because it takes the advisory lock before it checks its actor; the triggers
are the operators named after what they protect. `delete_customer_division` checks its
actor before it waits for the lock: `DeleteRequested` and `DeleteDivision` are two
actions, and `deleting` holds the deletions in between. `create_customer_division` takes
no lock, but its row changes the answer of no other function. A call may name any actor:
what the routes checked earlier is not relied on. Refused calls change nothing and are
not steps. Roles are the reserved ones, always active; references to a division from
other tables are the free choice `elsewhere`. Sessions, names, audit rows and the legacy
tables are left out, and no function of the running service deletes users or takes a
login away. Initially the installation is provisioned, by either bootstrap function.

**RuntimeSettings.** `saved` is the row, `record` and `applied` the copies of the service
and its provider, `shown[e]` the row page `e` was last given, `call[e]` the edit it waits
for. `Commit` and `Refuse` are the two functions of the database, `Answer` what the
service does after its await. When a connection breaks (`Lose`) or the process dies
(`Crash`) an edit the database has not run yet becomes `stray` and may run later
(`StrayRuns`). The compare-and-set is the same in both functions; who may call them is
`SystemAuthority`'s question, so `Refuse` is always possible. `Provision` is the setup of the
first owner, which writes the row beside the running process: until the restart that
`docs/deployment/clean-install.md` asks for, the process serves and applies the old row,
and every edit is refused.

**TaskLifecycle.** A call of `TaskService` is two steps or three: `Begin*` reads,
authorizes and decides; `Write` changes the row it named, whatever the row is by then;
`Log` stands for the activities and audit rows that follow. `work[c]` carries the row that
was read, because timestamps are computed from it. `LoseAnswer` is a write that happened
and was reported as a failure. `Reorganise` changes homes, authority and collaboration
rules at any moment, so a call may be decided on what is no longer so.

**TelegramConsoles.** `chat` is the conversation of one account, `Press` a button, which
stays in the chat and may be pressed at any time, `Say` a text. A submitted conversation
waits for its call (`Submitting`), succeeds and is dropped, or fails and is kept for
another try. `made` and `excuses` count what it wrote and what it was told went wrong.

**TaskIngestion.** `Begin` opens a batch of at most `MaxRows` rows; each row is looked up
by origin and external reference, inserted (`Insert`, or `Conflict` when another request
was first), audited and counted; `Respond` tells the caller. `IngestionDies` ends the
process in the middle, and callers send the same rows again.

**AdminSessions.** A visit is one request: gate, comparison, hash, transaction. `live` are
the sessions, known by the order of their issue, `stale` those that expired without being
revoked, which still count for the cap; `under` is the password each was created or kept
under. `create_admin_session` is two steps: it finds the user active (`createSession`) and,
having waited for the lock of the cap, inserts (`insertSession`). It does not lock the
user, so a deactivation comes in between and the session outlives it; `late` remembers
such sessions. The other functions are one step each. Hashes take long, so a change or a
reset comes in between.

**UserAccess.** `edit[c]` is what a desk read and what it is about to save; `checkAccess`
reads again, `updateAccess` asks the database, which checks again. `dialog` is the console's
conversation about a code, `typed` the history of what was typed for whom.

**TelegramIdentity.** `person`, `legacy` and `channel` are the three records. The bot
handles one `/start` at a time and may begin again with one it did not finish
(`HandledAgain`); pages ask for pairings in two statements (`DeleteTickets`,
`InsertTicket`) inside a transaction that others do not see.

**Bootstrap.** `installer[c]` is a tab of the setup page or a command; its stages are the
status query, the form, the wait for the advisory lock and the parts of
`provision_first_installation` between which another transaction can come in.
A newcomer who registers with the bot has no division (`RegisterStranger`): registering
neither waits for a setup nor stops one. A fresh setup looks for people when it begins
(`CheckInstallation`) and, through the audit rows, once more before it deletes the
divisions (`AuditAgain`); who registers after that is there beside it (`unseen`).

**CriticalAlerts.** An evaluation reads three sources one after the other, raises or
refreshes, then resolves in one statement that does look at the lease. `EvaluationOverruns`
lets the lease of a live evaluation expire. `spacing` is the interval of each process:
twice that is asked for, and more than an hour refused (`LeaseGranted`). What makes a condition hold, and how bad it
is, is a free choice (`level`).

**IntegrationCredentials.** Transactions have the time they began (`now`), and wait for
the row of a key or for the integration's advisory lock; issuing and revoking take the
two in opposite orders, and `DeadlockBroken` is the database's way out.

**HttpGate.** `buckets` is the map of the limiter, `ideal` what each bucket would hold
if none were forgotten but for want of room. A request consults several buckets in hooks
that run apart, and may be turned away at each.

**BrowserConsole.** Calls are slots of `net`; an action is the continuation of a promise
or something a person does. `past` records what the properties except: an answer of an
earlier login, two overlapping answers for one list, a task that changed under its dialog.

**OutboundCalls.** `wire` holds requests that Telegram has not dealt with, also after the
client gave up on them; `asked` is how long it still wants to be left alone. The timer
covers an attempt up to the headers, as in the code.

**Releases.** `current`, `current.next` and the file `previous` are `disk`; each command
of the two scripts is a step after which it may stop. `tangled` remembers that `ln -s`
found `current.next` to be a link to a directory and put its own inside.

**Environment.** The checks of `install-env.sh` (`InstallEnvironment`) and those of
`loadConfig` (`Loads`) over the variables that decide anything; a malformed value of one
that the script does not look at is the named exception.

**Backups.** The source moves through successive contents while `createBackup` reads it;
`Verified` is what `verifyBackup` accepts; a restore looks, converts, loads in one
transaction and checks again. `StrangeWrite` is an application that writes meanwhile.

**Readiness.** `probe` is `inFlight`, `cache` the result with the time it has left by the
wall clock, which `ClockSetBack` moves. `ago` is how long ago the database was last in each
condition: an answer is judged by when what it says was so.

## What the runs check

| Run | Shows |
| --- | --- |
| `polling` | With crashes, lost answers, expiry, a forced offset and a malformed entry: no update is lost (`NoLoss`) or overtaken (`InOrder`), the cursor stays behind work in progress and moves on (`CursorNeverPassesProcessing`, `CursorAdvances`), every update ends (`EveryUpdateFinishes`), and the poller implements `AtLeastOnce` (`PromiseKept`). |
| `polling_wedged` | Violation: an update that expires in progress holds the cursor for ever. |
| `delivery` | Two workers, a fault anywhere: `OneHolder`, `SendsBounded`, `DeliveredMeansSent`, `NeverReopened`, `EveryDeliverySettles`. |
| `delivery_attempts` | Violation: a reclaimed row is sent more often than `max_attempts`. |
| `intake` | Three requests for one identity beside the scheduler: `IntakeInv` (truthful success, complete counts, repeats only after failures), `SummaryIsFinal`, `EveryRequestSettles`. Two administrators and a machine: `CredentialsInv` (no key is used by a call begun after its end was announced and had come, waits end or are a known cycle). Two requests at the gate: `GateInv` (no bucket gains or loses tokens by being forgotten). A page with two calls under way: `ConsoleInv`. |
| `intake_unrouted` | Violation: a request resumed after a crash sends to an unrouted recipient again. |
| `fanout` | Two batches and a single message on two slots, stop at any point: `IndInv` (exact slots and queues), `NoOvertaking`, `StartsSpaced`, `EveryCallSettles`. Two evaluators: `ResolvedByNewest`, `AlertsFollow`. A call to Telegram: `OutboundInv` (carried out once, truthful results, patience, aborts heeded). `OperationsInv`: releases never ahead of the database, safe environments, whole backups, recent readiness. |
| `reminder` | Two processes, a lease that can be overrun, tasks edited and closed, an interval too long for a lease: `RunsInv` (honest status, one run, exact counts, fresh candidates, no dedupe key that outlasts its occurrence), `NotificationsSpaced`, `DueReminded`. |
| `reminder_terminal` | Violation: a task closed after it was listed gets its reminder. |
| `administration` | Two people, two divisions: whatever promotions, demotions, moves and divisional changes follow one another, `AdminRemains` and `BusinessActorFit`. Two pages with a lost call or a restart: `EditsBuildOnSeen`, `NeverRegresses`. Calls and conversations on tasks: `ConsolesInv`, `FieldsApart`. Imports: `IngestionInv`. Sessions, people, chats, installation: `SessionsInv`, `AccessInv`, `IdentityInv`, `BootstrapInv`. `IndInv` and `SettingsIndInv` are the inductive invariants. |
| `task_terminal` | Violation: of two overlapping transitions the later replaces a terminal status. |
| `settings_stale` | Violation: after a lost answer, reloading never shows the current row (`ReloadCatchesUp`). |

The exceptions are part of the properties and name what the code does not promise:
`Orphaned` and `halted` in the liveness of the poller; `overran` in the exclusion of
reminder runs, because the lease is not checked when a notification is created and two
overlapping runs can remind twice; `Front` in `DueReminded`, because only the 100 open
tasks updated longest ago are evaluated and a reminder does not touch its task; `Granted`
in `DueReminded` and `LeaseGranted` in `AlertsFollow`, because nothing runs while every
process is refused its lease; `late` in `SessionsInv` and `unseen` in `FreshMeansEmpty`,
for logins beside a deactivation and registrations beside a fresh setup; `Caught` in
`CredentialsInv`, since rotating and revoking one key can wait for each other until the
database fails one; the `past` of a page; `tangled` in `ReportsHold`; the strange rows
that come after a restore has looked, in `LossIsLate`.

Each property has a mutant: a change to one definition of the model, as a slip in the
code would be, that makes TLC report the property violated under the same configuration.

## Bounds and fairness

| Run | Bounds | Why they suffice |
| --- | --- | --- |
| `polling` | 3 updates, 2 attempts, batches of 2, 2 faults, 1 expiry, 1 forced move | a batch with a rest, an update beyond it, a retry and its exhaustion, a fault while recovering from a fault |
| `delivery` | 2 rows, 2 workers, limit 1, 2 attempts, 1 fault, no stall | contention for one row, a full window, a reclaim and a final failure |
| `intake` | 3 requests (one with another payload), a routed and 2 unrouted recipients, 2 rounds, 1 attempt, 1 fault or crash, a lease lost twice | a replay, a resumption and a conflict of each other's event; recipients in one request and not in the other |
| - gate | 2 requests, 1 address, room for 1 bucket, 1 fault or set-back | an eviction and a sweep under a request that holds its bucket |
| - keys | 3 keys, 2 administrators, 1 machine, 3 calls, moments 0 to 3, grace of 0 or 1 | a rotation while its key is revoked, a key that ends while it is presented, a call that waits longer than the grace it set |
| - page | 2 calls at once, 2 logins, 2 of everything listed | an answer for each of two questions in either order, an answer after the login changed |
| `fanout` | 2 slots, batches of 3 and 1, a single message, interval 2, stalls of 2 ticks | a batch larger than the slots, waiters of different origin, a start later than due |
| `reminder` | 2 processes, 2 tasks, limit 1, intervals of 1 and 2 ticks, leases up to 2, time up to 3, 1 fault or change of an interval, threshold 2 | a process that is refused beside one that is not, a run that overruns its lease beside a new one, a task beyond the limit, an escalation by count and by time |
| - alerts | 2 evaluators, 2 conditions in 2 sources, 2 severities, intervals of 1800 and 1801 seconds, 2 changes of a condition or an interval, 1 fault | the longest interval with a lease and the next, an evaluation that outlives its lease beside one that saw a change |
| - calls | 0 or 2 retries, hints of 0, 1 and 3 ticks capped at 2 | an attempt too many, a hint beyond the cap, a late effect of an earlier attempt |
| - releases, backups | 2 releases, 2 shells, 3 scripts; 1 archive, 2 contents, 1 damage, 2 strange writes | a deployment beside a rollback and after one that stopped; a restore that meets rows at each step |
| - readiness | 2 monitors, timeout and cache of 2 ticks, 2 changes of the database, 1 set-back | a probe shared by two, an answer at the last moment, an entry that comes back to life |
| `administration` | 2 users, 2 divisions, 2 roles, one of them fit; 2 pages, 2 values, 2 changes, 1 lost call or crash | the last administrator and one other, the last capable division and one other; a stale page, a conflict, an answer overtaken by a crash, a stray |
| - tasks | 2 tasks, the bot and a page, 1 failed request, 1 change of the organisation; overlapping calls on one task at a time | two writes decided on one reading, a write after the authority for it is gone |
| - imports | 2 batches of at most 2 rows, 1 external reference, 1 fault | one reference in two rows, in two batches, and again after a failure |
| - sessions | 2 requests, 2 passwords, 3 sessions, cap of 2, limit of 1 failure | a login across a change, a reset and a deactivation, an eviction by the cap |
| - people, chats | 2 people, 1 code, 2 edits; 2 chats, 1 account, 2 pairings, 2 pages, 1 mishap | one code wanted twice, an edit on a changed row; a chat that is registered and paired, a pairing opened twice |
| - installation | 2 tabs, 1 command, 1 registration, 2 tries each, 1 fault | tab against tab, page against command, a registration before, between and after the two looks of a fresh setup, a lost answer and its retry |
| `task_terminal` | 1 task, 2 callers beside the bot | two transitions decided on one reading |

Tasks, batches, requests, pages and tabs `one` and `two` are interchangeable (symmetry);
no liveness property is checked under it. `settings_stale` needs one page and one change,
and has no symmetry; its bound leaves the setup out.

The constants named `Max...` are bounds of the models, not of the code, except
`MaxAttempts` (`max_attempts`), `MaxKeys` (the limiter's `maxKeys`) and the like, which
their comments say. In `ReminderScheduler` a fault comes early enough for the lease it
leaves behind to end before `MaxTime`.

Fairness, and why the code justifies it:

- *polling*: the loop runs whenever it can, because every await in it is bounded by a
  timeout, and a crashed process is started again by its supervisor. A loop that halted
  is not restarted; arrivals, expiry and operators are never required.
- *delivery*: the timers call `processDue` again and again, its awaits end, time passes.
- *intake*: some request that can go on does; nothing is asked of clock or scheduler.
- *fan-out*: timers fire, the Telegram client answers or times out, continuations run.
  No call, batch or stop has to come.
- *reminders*: a run's calls return, time passes, and some process's timer fires while
  the lease is free. A process that asks for too long a lease gets none, however often its
  timer fires, so nothing is promised while no process is granted one.
- *alerts*: the awaits of an evaluation end, some process's timer starts another, and a
  lease nobody gives back expires. Here too some process must have an interval with a
  lease that is granted. Conditions need not change, nor come to rest: what is
  promised is promised once they do, as their changes are bounded.
- *settings*: the database answers, answers are taken over, a process that died is
  started again, pages are reloaded. Nobody has to edit anything.

## What is proved

For every value of the constants that satisfies the modules' assumptions:

| Theorem | Statement |
| --- | --- |
| `TelegramPolling_proofs!Invariance`, `TypeCorrect` | the inductive invariant; types |
| `NothingLost`, `CursorSafe`, `OffsetSafe`, `RunsSafe` | no update lost; cursor behind work in progress; offset never ahead of the cursor; bounded runs |
| `NeverRerun`, `Ordered`, `Refinement` | finished updates never run again; order; implements `AtLeastOnce` |
| `NotificationDelivery_proofs!Invariance`, `TypeCorrect` | the inductive invariant; types |
| `ExclusiveHolder`, `SendsSafe`, `DeliveredSafe`, `Finality` | one holder; bounded sends; delivered means sent; settled stays settled |
| `NotificationIntake_proofs!Ledger`, `IntakeSafe` | intake composed with the ledger implements the ledger, so the four facts hold for it |
| `IntakeInvariance`, `AnswersTrue`, `SummaryKept` | the inductive invariant of intake; truthful success, complete counts, repeats only after failures; an answered event keeps its summary |
| `GateInvariance`, `GateSafe` | the inductive invariant of the gate; no bucket gains tokens by being forgotten, nor loses any while the clock is not set back; the map keeps its share |
| `TelegramFanout_proofs!Invariance`, `Bounded`, `Handovers`, `Spacing`, `Order` | the invariant; exact, bounded slots; no idle slot beside a waiter; spaced starts; no overtaking |
| `OutboundInvariance`, `OutboundSafe` | the inductive invariant of one call; carried out once, truthful results, patience, aborts heeded |
| `ReleasesSafe`, `EnvironmentSafe`, `BackupsSafe`, `ReadinessSafe`, `OperationsSafe` | releases never ahead of the database; what is installed is accepted and safe; what is called verified is whole; what monitors are told was so a bounded while ago; the four together |
| `ReminderScheduler_proofs!Invariance`, `Exclusion`, `Counting`, `Freshness`, `Spacing` | the invariant; one run until an overrun; exact counts; fresh candidates and keys that are over when the next reminder is due; spaced notifications |
| `SystemAuthority_proofs!Invariance`, `TypeCorrect`, `AlwaysAnAdmin`, `AlwaysFit` | the inductive invariant; types; somebody administers; the business actor is fit |
| `AccessInvariance`, `EditsSafe` | the same for edits of people; who is active has a division and a role, divisions are open when they are given, codes stay unique and go to whom they were typed for |
| `IdentityInvariance`, `IdentitySafe` | the same for chats; the three records of a chat agree, an account has one chat, a pairing connects one chat to its own account |
| `SessionsInvariance`, `SessionsSafe` | the same for one administrator; no session outlives its password, the cap and the lockout hold, what a deactivation leaves was inserted after it |
| `RuntimeSettings_proofs!Invariance`, `TypeCorrect`, `Applied`, `NoLostUpdate`, `NeverBack` | the inductive invariant; types; what is applied is what is shown; edits replace the row their page showed; the record never goes back |
| `IngestionInvariance`, `ImportsTruthful` | the inductive invariant of imports; one task per reference, counts and answers that say what was written |
| `Overlaps_proofs!AlertsInvariance`, `NewestResolves` | types and the lease; only the newest evidence resolves an alert |
| `Overlaps_proofs!TasksInvariance`, `OverlapsApart` | types, timestamps that agree with the status; overlapping calls keep off each other's fields |
| `ConsolesInvariance`, `ConversationsSafe` | the inductive invariant of the task console; a conversation writes once, unless it was told it failed |
| `Overlaps_proofs!BootInvariance`, `InstalledTruthfully` | the inductive invariant of the installation; nobody overlooked if fresh, truthful answers, retries |
| `CredentialsInvariance`, `KeysSafe` | the inductive invariant of integration keys; none is used past the end that was announced, waits end or are the known cycle |
| `TelegramPolling_proofs!ConsoleInvariance`, `ConsoleSafe` | the inductive invariant of the console's page; what it shows is its principal's and was asked for last, changes and tests reach what they name, dialogs wait, passwords are seen |

The arguments, in short:

- **Polling.** `NoLoss` is not inductive: acknowledging an offset is safe only because
  everything deliverable below the cursor is terminal (`BelowCursorTerminal`), and
  skipping ahead in a batch only because what Telegram holds below the batch's next
  update is in the batch (`BatchIsPrefix`). `CursorBacked` keeps later arrivals above the
  cursor; `RowHistory` ties the counters of an update to its row, which gives bounded
  runs and the refinement. Every action is shown to keep each part.
- **Delivery.** A claim must find its row unwritten since it was read, so a row some
  worker may still claim is PENDING or PROCESSING for the whole threshold
  (`UnwrittenTakeable`), while a row in hand is younger (`HolderOwnsRow`); hence one
  holder. These theorems assume `MaxStalls = 0`: a live worker is done with a row within
  ten minutes. Without it the code does let two workers send one row.
- **Intake.** Every step of the composition is shown to be a step of
  `NotificationDelivery` or to leave the ledger alone. Its own answers rest on the map of
  running operations: at most one request is past it (`IntakeOrder`). So the counts on
  record cover everyone in the event but those the request at work has yet to send to
  (`CountsTrue`), and a message that no failure accounts for belongs to the recorded
  dispatch or to the broadcast under way (`MailsBalanced`).
- **Gate.** The map of buckets agrees with `ideal`, where none is forgotten but for want of
  room, through every consumption, inspection and sweep; what makes that inductive is that no
  bucket is ahead of a clock that was never set back (`NoneAhead`) and that what the
  service remembers of the shared key was written earlier (`Remembered`). Requests overlap
  freely: each step is what happens between two awaits.
- **One call to Telegram.** The message is on its way, or was dealt with, or waits to be
  tried again because it was turned away, and never two of these (`OneOfAMessage`).
  Hence no attempt can be carried out beside another, and a wait is as long as the hint.
- **Operations.** Releases: what a script carries past the gate passed it
  (`ScriptsPassed`), and so did every link (`LinksPassed`); as long as no link was created
  inside a release, `current.next` is that of the one script about to switch
  (`Untangled`). Backups: a checksum is taken of an undamaged dump (`FilesWhole`), and a
  restore past its look found nothing of others (`RestoreInHand`). Readiness: a result's
  age and the time it has left add up to the timeout, the cache's time and what the clock
  was set back (`CacheRecent`). The four share no variable, so each step of one leaves the
  others' invariants alone.
- **Fan-out.** `QueuesExact` makes both queues duplicate-free lists of exactly the calls
  in them; with it the slot count is a cardinality that each step changes by what it
  moves. `DueCounted` relates the pacing deadline to the time since the last start.
- **Reminders.** `OneRun` needs `LeaseLive`: an owner in the row still has time, or the
  overrun is on record. `CountExact` holds even then, as the dedupe key and the counter
  change in one transaction. `CandidatesFresh` is what makes spacing inductive. A key is made
  for the occurrence the run looked at, which is over an interval later: hence `KeysPast`.
- **Administrators.** Beside the two properties the invariant needs the foreign keys
  (`References`): the triggers count users through divisions, and a deletion or a
  division that does not exist yet must not matter to the count. One lemma covers all
  rewrites of a user's row, one all rewrites of a division's row.
- **People, chats, logins.** A console's conversation is about the person last asked about,
  and its code was typed (`DialogTyped`); what a page has checked the database checks
  again. A channel and the person it belongs to name each other (`Agrees`), chat users
  have a chat of their own, and a `/start` in hand is about a pairing that exists. The
  gate of a login counts the failures there are, and every login past it can add one
  (`LockoutHolds`); every unrevoked session is under the password in force, and the rank
  of a session among the newer ones gives the cap.
- **Settings.** A version names one row (`NotAhead`): so equal versions are equal rows,
  which gives `EditsBuildOnSeen`. Pages never know a row the service did not know
  (`PagesBehind`), and setup comes before the first page. So while one change is
  unanswered every other edit expects an older version, and at most one answer is ever
  under way (`AnswersCurrent`). That is why answers cannot be taken over in the wrong
  order, and why `setBusinessActor` may skip the provider.
- **Imports.** A request at a row has one result for each row before it; a task of a batch
  comes from a row that was created, or failed after it was inserted, or is under way; and
  no two tasks come from one row or one reference. The counts follow by injections.
- **Overlaps.** Alerts: a valid lease is held by the evaluation that began last
  (`HolderIsNewest`), and only a step that checks the lease takes an alert out of the
  active ones. Tasks: a call in hand names a task that exists and a value that fits
  (`WorkFits`), so its write is a change of the row as it is now. Conversations: one that is
  open has written what its call in hand has and what failures excuse (`Tally`); only
  its own steps end the bot's call. Installation:
  whoever is past the lock holds it and found no marker (`PlaceFits`), and past the second
  look everybody registered has come since. One lemma (`InstallerMoves`)
  covers every step that moves one installer and leaves the rows alone. Keys: inserts happen
  under the advisory lock, so there is room for the one that holds it (`RoomForKey`);
  calls began in the past, those that were let through began before the key's end, and
  calls can only wait for one another in a circle around a rotation.
- **The page.** Answers come back in any order, so the invariant says of each call under
  way what nothing done meanwhile may take from it. A dialog that was submitted is held by
  that one call and then by those that follow it, two of them only after a change of a task
  (`DialogsHeld`); the other dialogs' calls cannot let it go. The only call of its kind asks
  for what was chosen last (`LoneCallsFit`), so what it brings answers the question unless
  two crossed. The identity in use has one type, the chosen one (`IdentityInUse`), and
  whoever waits for a password has none on show (`SecretsInTurn`). Most steps are shown to
  leave these alone by what their call is about, whatever it brings.

Only model-checked: every liveness property, since fairness is out of the prover's reach.
No module declares a recursive operator. The theorems are spread over eight modules; one
such module holds several components, whose names are kept apart.

## Where the code and its documents differ

Each is a run that TLC finds violated, and a finding in `PROJECT.json`.

1. `docs/adr/P1-05-telegram-offset-dedupe.md` says a stuck update delays the cursor for
   a bounded number of polls. The cursor is clamped to the lowest PROCESSING row, and
   only a redelivery takes a row out of that state; an update that expires at Telegram
   meanwhile, or that an operator skipped, pins it for good.
2. `docs/architecture/task-reminder-notification-foundation.md` promises three bounded
   attempts. An attempt is counted with its outcome only, so a row taken back after a
   crash has been sent once without being counted.
3. `docs/adr/P0-05-persisted-notification-intent.md` says unrouted recipients are never
   sent to again. A request that resumes an undispatched event broadcasts to them anew.
4. The reminder document says terminal tasks never produce reminders. Their status is
   read once, at the beginning of a run.
5. A settings conflict is answered with "Runtime settings changed; reload and try again"
   (`runtime-settings.service.ts`, line 87). The service reads the row only when it
   starts; after a change whose answer was lost a reload shows the old version again, and
   every edit is refused until the process restarts.
6. `docs/beta-readiness.md`, line 44, says that terminal-state protection passes through
   `TaskService`. `transition` checks the status it read and then updates by id alone: of
   two that overlap both are accepted, and the later one replaces a terminal status.

Two other sentences are only nearly right and have no run. P1-05, line 424, has the
poller always ask with the persisted offset: after a completion whose answer was lost the
process asks with an older one until it restarts or completes another update, which is
safe (`OffsetSafe`). P0-05, line 551, calls a FAILED delivery final: it is, unless a live
worker outlasts the reclaim threshold, because the outcome is written by id alone.

Modelling also met behaviour that contradicts no sentence of the repository but that a
maintainer should know:

- `openTaskDetail` answers while a dialog is open, and `submit` sends the edit to the task
  shown last (`app.js`, lines 228 and 526): the exception `swapped` of `MeantForItsTask`.
- A `current.next` left by a deployment that stopped makes the next one put its link inside
  the older release and activate that, while it reports its own (`deploy-release.sh`, line
  83): the exception `tangled`.
- A rollback that stops between `mv` and `printf` leaves `previous` equal to `current`;
  `previous-release` may name a release that never became ready.
- Whoever registers with the bot first blocks a fresh setup from the page; whoever registers
  while the setup's transaction is past its second look is there when it declares the
  installation empty (migration 202609090002, lines 748 to 808).
- Intervals of 1801 to 3600 seconds are legal (`env.ts`, line 105; `runtime-settings.service.ts`,
  line 73; migration 202609150001, line 20), but twice that is more than the hour either lease
  function grants (202609010002, line 112; 202609010004, line 76). Every run then ends with an
  error in the log: no reminder is created, and as alerts are refused as well nothing reports
  a silent scheduler. The exceptions `Granted` and `LeaseGranted`.
- A login that found its user active inserts its session after a deactivation has revoked the
  others (202609100001, lines 136 to 149). The session is of no use while the user is inactive,
  and works again, unless it expired, once the user is activated: the exception `late`.
- A transition also writes `started_at` from the row it read (`task-lifecycle.ts`, line 22;
  `task.service.ts`, line 209): one that overlaps the start of the work may take the start time
  away again. `started_at` is not modelled.
- The key of a reminder holds the occurrence, aligned to the repeat interval of the task's
  priority. After a change of priority the key of an earlier reminder may be that of the one
  now due, which is not created until the longer occurrence is over (`reminder-policy.ts`,
  line 45). Changes of priority are not modelled.
- The body of an answer is read without a timeout and without the abort signal
  (`outbound-http-client.ts`, line 110; `telegram.service.ts`, line 86).
- A restore looks for rows in another transaction than the one that truncates: rows that
  come in between are lost. It may be reported as failed although it committed, and
  deliveries that were pending in the backup are sent again.
- Two runs of `install-env.sh` share `.env.next`; it does not look at the port, the
  intervals, the time zone or the form of the service key.
- A login that compared with the old password creates its session after the change.
- A revocation that waited for its lock longer than the grace it grants has ended the key
  before it is answered: `now()` is when the call began (migration 202609110001, line 224).
  A machine that presents the key meanwhile still uses it after that end.
- A penalty for a 401 is charged when the answer has gone out, so requests that overlap
  are not slowed by each other's (`rate-limit-plugin.ts`, line 100).

## What is not modelled

- Taxonomy and governance: a one-time migration and static permission data whose answers
  (`Permissions`, `open`, roles that are fit) are constants or free choices of the modules
  that ask. Reporting, messages and the legacy broadcast: queries and wording.
- Preparing a fresh server, data checks and rehearsals (`scripts/`): run once by an
  operator or in tests.
- Of modelled parts: dry runs and status queries (no state), the deadlines and priorities
  behind a reminder, when work on a task started, texts, names, e-mail
  addresses, audit rows (written separately and after the fact, `task.service.ts`, line
  215), the bucket of an integration's identity, the forms of the page that only carry a
  person's details, `bootstrap_first_admin`, which no page or command calls.

## Plan

1. `TelegramPolling` with `AtLeastOnce` - done, proved.
2. `NotificationDelivery`, `NotificationIntake`, `TelegramFanout`, `ReminderScheduler`,
   `SystemAuthority`, `RuntimeSettings` - done; safety proved.
3. `TaskLifecycle`, `CriticalAlerts`, `Bootstrap` - done, proved.
4. `TelegramConsoles`, `TaskIngestion`, `AdminSessions`, `UserAccess`, `TelegramIdentity`,
   `IntegrationCredentials`, `HttpGate`, `OutboundCalls`, `Releases`, `Environment`,
   `Backups`, `Readiness`, `BrowserConsole` - done, proved.
5. Left to model: the policy of reminders with its deadlines as an operator compared with
   a reference definition; the taxonomy's administration; a second page of the console.

## Running it

```
tlc -workers 2 -config TelegramPolling.cfg MCTelegramPolling.tla
tlc -workers 2 -config Administration.cfg MCAdministration.tla
tlapm TelegramPolling_proofs.tla
```

and likewise for the others: `<Name>.cfg` belongs to `MC<Name>.tla`. A configuration named
`<Module>_<question>.cfg` belongs to a run whose property is expected to be violated, of
`MC<Module>.tla`, but for `RuntimeSettings_stale.cfg`, whose module is `RuntimeSettings`.
Deadlock is not checked where everything may be done, all bounds be used up, or time have
run out: in the three hosts and in `ReminderScheduler`. The longest run takes two minutes.
