# A TLA+ verification project for Letflow

Letflow is a multi-tenant workflow engine in Elixir: process definitions (graphs
of human tasks, timers, service and script tasks, gateways and sub-processes) are
run as *instances* whose history is a log of events in PostgreSQL, one schema per
tenant. The engine has no long-lived process per instance: whoever has something to
do to an instance (a request handler, the scheduler's poller, a dispatcher) opens
a database transaction, locks the rows it needs and commits. What makes it correct
is therefore the order of statements and row locks in those transactions, and a
handful of GenServers that admit, pool and supervise the work around them.

Its users work in a web client (React with a cache of queries, `web/src/`). What makes
*that* correct is another order: requests are answered late, twice or never, other
users change what a page has read, pages are left and entered again with requests
under way, and statuses are shown before the server has confirmed them. This project
models both, each with the part of the server that it works with.

All paths below are relative to the repository (`src/` in `PROJECT.json`).

## 1. Inventory

| Component | State | Operations | Hard behaviour | What makes it correct |
|---|---|---|---|---|
| **Admission** `lib/letflow/admission.ex` | one budget counter; per tracked tenant a counter and a generation; Refs; monitors | `try_acquire/2`, `release/2`, `forget_tenant/2`, `:DOWN` | callers killed before, during and after a grant; double release; a tenant deactivated and active again while its slots are out; restart | counters are the live slots; no slot outlives its holder; every grant is within the share |
| **Pollers breaker** `lib/letflow/supervisor/pollers_breaker.ex` | `closed/open/half_open`, trips, two kinds of timers, one monitor | `:DOWN`, `:half_open_probe`, `:observation_window_elapsed`, `init/1` | stale timers; the `:temporary` child no one else restarts; a start that is refused, and the restart budget above | while the application runs Pollers is watched or due for a probe, and comes back or the application stops; a window that closes the breaker was observed |
| **Transactions on an instance** `lib/letflow/engine.ex`, `scheduler.ex`, `engine/execution_error.ex`, `engine/task_activation.ex` | rows of `instance_projections`, `tokens`, `tasks`, `timers`, `instance_sequences`, `events` | `complete_task/3`, `cancel_instance/3`, `fire_timer/2`, `attempt_fire/2`, `set_instance_error/3` | READ COMMITTED interleavings; checks made before a lock; rows inserted while another transaction waits; lock cycles; killed workers | a token leaves a node once; a live token always has work; a finished instance is final; transactions end |
| **Event store** `lib/letflow/event_store.ex` | `events`, `events_archive`, payload store, idempotency records, sequence rows | `append/2`, `append_multi/3`, `archive/1`, `read/2`, `read_global/1` | racing first appends; idempotency keys across instances; archive in two transactions; reads in several queries | no holes, one event per key, one order, nothing lost, complete reads |
| **Reconstruction** `lib/letflow/engine/reconstruction.ex` | none of its own | `reconstruct_instance/2`, `read_full_log/3` | the log moves between tables under the read | what it replays is the whole history |
| **Effect ordering** `lib/letflow/ordering/` | `pending_completions`, cursor per correlation | `claim/1`, `try_apply/3`, `advance_conditional`, `Sweeper.run/1` | gaps, late predecessors, two consumers, the sweeper in two transactions | applied in order, once; a gap does not stop others for ever |
| **Token machine** `lib/letflow/engine/transition.ex` | tokens, join counters | `transition/3`, the hop chain | joins whose branches arrive again or are cancelled | every transition ends; joins fire once per set of arrivals |
| **Dispatchers** `lib/letflow/engine/service_task_dispatcher.ex`, `script_task_dispatcher.ex` | dispatch rows with status, attempts and lease | claim, call, apply, retry, lease sweep | the outside call is between two transactions; a lease that expires during the call | a result is applied once; a dispatch is never stranded |
| **Sub-processes** `lib/letflow/engine/sub_process.ex` | parent and child instances | start, completion cascade | locks over several instances | a parent continues once per child |
| **Sandbox pool** `lib/letflow/sandbox_pool.ex` | slots, waiters, one worker, owners | checkout, release, timeouts, `:DOWN` | owner dies in every phase; timeout against grant | a slot has one owner; no slot is lost |
| **Snapshots** `lib/letflow/engine/snapshot_writer.ex` | a state per instance and sequence number | write, read | a snapshot beside a log that goes on | snapshot and tail give what the log gives |
| **Promotion** `lib/letflow/definitions/promotion.ex`, `promotion_review_store.ex` | review row, assertion runs, active versions in two tenants | approve, reject, rehearse, apply, supersede | two requests on one review; guards on what was read earlier; a node that stops between the copy and the mark | one decision, not by the requester; applied only with its copy |
| **Migration roll-out** `lib/letflow/platform/migration_rollout.ex` | roll-out, an outcome and a promotion per company | start, resume | overlapping requests on outcomes listed without a lock; a stop between promotion and outcome | an outcome says "succeeded" only where the column is |
| **Exam session** `lib/letflow/modules/exam/session.ex`, `anti_cheat.ex` | session, answers, signals | start, save, signal, submit, sweep | three ways to close it at once | scored once, with what was answered |
| **Client: session** `web/src/auth/`, `pages/LoginPage.tsx`, `OidcCallbackPage.tsx` | token, session, stored tenant, managers of realms, query cache | sign in, callback, renew, switch, sign out | expiry, renewal and a switch at once; rows of the old tenant under way | no row under the key of a tenant left behind; no screen waits for ever |
| **Client: designer** `web/src/pages/definitions/DefinitionEditorPage.tsx`, `components/canvas/`, `stores/` | graph, history of the canvas, draft, loaded version | edit, undo, redo, lay out, save, validate, activate, resolve a conflict | edits during a save; a draft from another page; loads under edits | what is unsaved is marked; history is bounded |
| **Client: exam** `web/src/modules/exam/` | phase, answers, text on the screen, requests | save, report, submit, reload | a forced submission with text not yet saved | the text on the screen is scored |
| **Client: operator pages** `web/src/pages/dlq`, `tasks`, `instances` | queries, statuses shown early, dialogs | retry, discard, complete, claim, start, cancel, page on | polls against optimistic statuses; dialogs reopened | what is shown is real or withdrawn; what is sent was shown |
| **Client: console pages** `web/src/pages/admin`, `entities`, `definitions`, `promotions` | a list, its dialogs, its calls | about fifty operations on twelve lists; two edit forms; cursors; a registration; a roll-out | answers to forms that were closed; refetches under a form; polls of a page that was left | an answer closes its own form; forms send what was typed |
| Webhook delivery, expressions, entities, provisioning, HTTP, mobile client | tables, documents | CRUD, validation, I/O | little that interleaves | outside this project (section 8) |

**How they interact.** The HTTP plug and the poller take a slot of `Admission`
before they work; tenant scripts take one of a second, monitored, instance. The
poller calls `Scheduler.claim_due/2` and then `attempt_fire/2` per timer, in tasks
that are killed at a timeout. Every engine transaction appends to the event store
*inside its own transaction*, so the sequence row of the instance is one of its
locks. `archive/1` moves old events behind the back of reads and replays.
`PollersBreaker` restarts the supervisor of the poller and the dispatchers.

In the client every page reads through one query cache, keyed by tenant, and writes
with mutations that invalidate some of its keys when they are answered; `AuthProvider`
owns the token every request carries and empties the cache at a tenant switch. The
stores of the designer outlive its page. The pages never talk to each other: what one
leaves in the cache, in a store or in the address is all another finds.

## 2. Plan

| # | Module | Composes | Status |
|---|---|---|---|
| 1 | `InstanceTx` | rows, locks and four kinds of transactions | written, checked; every safety property proved |
| 2 | `EventStore` | `append/2` and `archive/1` | written, checked, every safety property proved |
| 3 | `EventReaders` | extends `EventStore` with reads, replays and a cursor | written, checked, complete reads proved |
| 4 | `Admission` | server and callers | written, checked, every safety property proved |
| 5 | `PollersBreaker` | breaker, clock, Pollers | written, checked, its safety proved |
| 6 | `Ordering` | consumers, cursor, sweeper | written, checked, both safety properties proved |
| 7 | `Session` | the tab, its documents, the session, the cache | written, checked, its safety proved |
| 8 | `DefinitionEditor` | page, canvas, two stores, query, server | written, checked, both safety properties proved |
| 9 | `Exam` | page, hook, requests, the server's session | written, checked, both safety properties proved |
| 10 | `Queries`; `DeadLetters`, `TaskInbox`, `InstanceBoard`, `InstancePage`; `Workbench` | one query; four pages over it; their composition | written, checked, both safety properties proved |
| 11 | `ReviewLifecycle`; `Promotion`; `PromotionPage` | what a review promises; requests on it; the page beside them | written, checked; safety and the refinement proved |
| 12 | `PageFacts`, `ListPages`, `DetailForms`, `Paging`, `Onboarding`, `Rollouts`; `Console` | the pages of the console; their composition | written, checked, both safety properties proved |
| 13 | `Dispatch` | service and script task rows, leases, with the transactions of `InstanceTx` they race with | next |
| 14 | `SandboxPool` | server, worker, owners | open |
| 15 | `TokenMachine` | graphs with gateways and joins; the fold that a reconstruction replays, against the state the engine reached | open |
| 16 | `SubProcess` | two levels of instances and their locks | open |

`ReviewLifecycle` is an abstract specification that `Promotion` implements. Others worth
stating: the event store as an append-only log per instance with a set of used keys
(`EventStore` would implement it, and `InstanceTx` would use it); an instance as a state
machine `active -> completed | cancelled | error`, which `InstanceTx` implements; a
dispatch as "called any number of times, applied at most once".

Every safety property of the runs has its theorem (section 6). Theorems planned: those of
the modules above that are still to be written, and the refinements.

## 3. The modules and the code

### InstanceTx

State is the committed database (`status`, `at`, `task`, `timer`, `fireErrors`,
`log`) and, per process, the statement it is about to run. One action is one
statement that can wait for a row lock; consecutive statements that cannot wait
because their rows are already held are one step, and what a transaction writes
appears at its last step, which is its commit. `lock` maps a row to the transaction
that holds it; `todo` is what a multi-row `SELECT ... FOR UPDATE` has found and not
locked yet. A statement that waited looks at the row again when it gets it and drops
it if its status changed (`TakeRow`, then `open`), as READ COMMITTED does; a row
inserted after the statement began is not seen, which is what the `orphan_task` run
is about.

| Code | Actions |
|---|---|
| `complete_task/3` | `BeginComplete`, `CompleteTask` (task row), `CompleteProjection` (projection row, status, guards, merge, transition), `CompleteTimers` (escalation timers), `CompleteEvent` (tail and commit) or `CompleteError` (`ExecutionError.append_multi/3`) |
| `cancel_instance/3` | `BeginCancel`, `CancelTasks`, `CancelTimers`, `CancelProjection`, `CancelEvent` |
| `attempt_fire/2`, `fire_timer/2` | `BeginFire`, `FireTimer` (timer row), `FireGuard` (unlocked status read), `FireSequence`, `FireProjection` (advance or stale), `FireTask`, `FireFailed` (`record_fire_failure/2`, a transaction of its own) |
| `set_instance_error/3` | `BeginError`, `ErrorProjection`, `ErrorEvent` |
| PostgreSQL, the runtime | `DeadlockAbort` (one transaction of a cycle is aborted), `Crash` (the connection goes, at any statement) |

Abstracted: graphs have human nodes and timer nodes with one successor each, and
escalation targets; variables, merges and expressions are the nondeterministic
choice between the ordinary tail and an execution error. The audit chain row and the
entity type rows are not modelled: no property here depends on them, and lock cycles
through them remain for the planned module on sub-processes.

### EventStore and EventReaders

`append/2` is `BeginAppend`, `ActiveInstanceGuard`, `AssignSequence`,
`ClaimIdempotency`, `InsertEvent`, `Commit`, with `Abort` at any point (of the
process, or of the transaction `append_multi/3` was added to). `draft` holds what the
transaction has written so far and `sequenceLock`, `claimLock` what it holds: a row of
`instance_sequences`, and an uncommitted unique key another insert waits for.
`nextGlobal` is the PostgreSQL sequence behind `global_seq`, which is not
transactional. `archive/1` is `BeginArchive` (which events: whatever retention makes
due), `ArchiveFindEvents`, `ArchiveCopy` (first transaction), `ArchiveDelete` (second),
and `ArchiveCrash`. An event is a record of key, instance and the two numbers; its
payload is only whether it is kept beside the event and still there.

`EventReaders` extends it with a reader that takes one query per step, so that appends
and archive runs happen between the queries: `ReadLive`, `ReadArchive`, `ReadPayloads`
for `read/2`; `ReplayArchive`, `ReplayLive`, `ReplayPayloads` for `read_full_log/3`;
`ReadGlobal` for a consumer that pages with `after_global_seq`.

### Admission

The server's maps are variables of their own (`globalInUse`, `tenants`,
`generations`, `refs`, `monitors`), one action per callback. Callers are processes
that call (`Call`), are answered (`TryAcquireGlobal`, `TryAcquireTenant`), release once
or more (`Release` may keep the struct, as the plug's `before_send` clean-up after an
explicit release does), are killed (`Kill`) and replaced (`Spawn`). `downs` are the
`:DOWN` messages in the mailbox. `Restart` empties the server while old Refs live on.

### PollersBreaker

Time is in seconds and every duration is the code's: 2 s window, backoff
1, 5, 30, 120, 300 s. `windows` is the list of observation timers that run, because
the code forgets a reference without cancelling its timer. A start of Pollers succeeds
(`RestartPollers`) or is refused, which `restart_pollers/0` has no clause for: the breaker
exits (`RestartRaises`) and is started again by `Letflow.Supervisor`, at the expense of the
budget that it shares with Infrastructure and Http (`ages`, 5 restarts within 5 s as in
`application.ex`); one restart too many stops the application (`ApplicationStops`), until
somebody starts it again.

### Ordering

A completion is a pair of a correlation and its number. `Claim` and `EndClaim` are the
transaction of `claim/1`; `Relock` (M1), `AdvisoryLock` (M2), `ReadCursor` (M3 to M5),
`AppendEvent` (M6) and `Apply` (M7, M8, commit) are that of `try_apply/2`, with three
kinds of locks: the row (`rowLock`), the correlation's advisory lock (`corrLock`) and the
sequence row of the platform instance, which every `effect_applied` event of a tenant
needs (`platformLock`). A refusal is a `Rollback`. The sweeper queries in `FindEligible`,
and then runs one transaction per correlation: `SweepCorrelation` (the rows that its
UPDATE finds), `SweepRow` (one row, waiting for its lock), `SweepCommit` or `SweepFails`.
Completions arrive in any order or never (`InsertCompletion`), and get `overdue` (`Age`).
Correlations have advisory keys of their own here: the code hashes the id, and two that
collide refuse each other more often, which changes no state. The lag metrics are left out.

### The pages of the client: common ground

A page's local state is one record (`ui`, `page`), the server's another (`srv`), a query of
the cache is a record of `Queries`, and requests under way are a set or function (`calls`, or `requests` in the designer),
each `sent`, then `handled` (the server's step, with its guards), then answered or lost.
Every order of handling and answering, and a failure at any of them, is a behaviour. What a
render derives is an operator (`Shown`, `Renders`, `Enabled`), and a button's action has the
button's `disabled` condition as its guard. React applies the updates of one handler at
once: a handler up to its next `await` is one action.

`Queries` says what TanStack Query does for one key as `main.tsx` configures it (no retry):
a fetch under way is joined or cancelled (`Invalidated`, `Observed`), an error stays beside
the data (`Refused`), and `Renders` is the order in which the boundary component looks.

### Session

One tab. Its names are its own (`SessionSpec`, `requests`, `switcher`), so that its theorems can
stand in one module with those of the console. `tab` is the document (where it is, which
tenant is in the session storage, which realm's manager exists), `auth` the provider's token and session, `cache` the rows with the
key they stand under and the tenant whose token fetched them, `sws` the switches under way
(`SwitchStep`: the membership, the silent sign-in, `cancelQueries`, `removeQueries`, the new
session, in the order of `switchTenant`). `EmailFirst` is the deployment's mode of the
sign-in page. `Renew` is the silent renewal of the first realm's manager, which goes on
whatever tenant is active.

### DefinitionEditor

`PushSnapshot`, `Undo`, `Redo` are the history store; `Edit...` the canvas; `Save`,
`Answered...` the two halves of `handleSave` around its awaits; the conflict dialog with its
merge and its discard; the draft store, which is one slot for all definitions. A graph is
its nodes, edges, conditions and where nodes stand; validation is whether the sub-process
node carries an attribute the validator accepts.

### Exam

`page` is `ExamSessionPage` with the hook's refs, `srv` the session row with its answers and
score, `calls` saves, reports, submissions and starts. The server's autosave is two steps,
since it checks the status without a lock, and so is a signal (`ReportHandled`, and
`ReportSubmits` where the policy is to submit). A forced submission waits for the save of the text
on the screen (`Awaited`), as the hook awaits its flush.

### Workbench

Four pages, one at a time (`on`); none shares state with another but the cache, whose keys
are disjoint, so that their product would only multiply states. `DeadLetters`: statuses
noted before the answer (`transientStatusById`) over a filtered page. `TaskInbox`: list and
panel queries with polling, completions and claims. `InstanceBoard`: the definition filter in
the address and the start dialog whose id and version are derived from two queries at each
render. `InstancePage`: the optimistic cancellation and the timeline collected by cursor.

### Promotion

`Promotion` has the requests of `promotion_review_store.ex` and `promotion.ex` statement by
statement: `ReadReview` with its gates, `Decide` (the update guarded by status and version,
`Unchanged`), and for an application `CheckRehearsal`, `ReadSource`, `CheckConflict`,
`CommitPromotion`, `AppendEvent`, `ReadToMark`, `Mark`; `HandlerDies` between any two.
Beside them: rehearsals, activations in both tenants, a rollback (`SupersedeReview`).
`PromotionPage` adds the gate component of one operator with its own requests;
`ImplementsLifecycle` maps the row to `ReviewLifecycle` (status, `approved_by`).

### Console

`PageFacts` is a table: for each page its operations, each with a button (on which rows, does
it wait), a form (what closes it, which error it keeps) and a call (does its answer
invalidate the list, does it keep a second from being sent). It is data, read off twelve
pages; `ListPages` is the one machine that runs any of them with one row per list: forms are
opened, left and opened again for the row or another while a call is under way, and the page
is left and entered again. `DetailForms` is the two forms filled from a query, field by
field, with the dialog that deactivates a user and another administrator. `Paging` is the cursor stacks of four lists. `Onboarding`
is the registration form, the poll with its `setInterval` and visibility handler, and
the binding of a realm. `Rollouts` is the page of a roll-out, entered without one, by the
address of one in any state or by the menu, and the server's requests: registration and
seeding of the companies that are active just then (other ones at each start),
`ListOutstanding`, `ReadPromotion`, `Promote` (under the advisory lock), `RecordOutcome`,
`CountOutstanding` and, a statement later, `FinishRequest`; `EndRequest` at any point.

Keyboard submission and the deferral of a click by `setTimeout(0)` are left out: the first
takes the button's path, the second lets one render pass.

## 4. The runs

| Run | Bounds | Shows |
|---|---|---|
| `instance_tx` | two processes, two tokens, three nodes, two fire retries | `TokensHaveWork`, `LeavesOnce`, `HistoryMatchesStatus`, `TerminalIsFinal`, `TransactionsEnd` under every interleaving of completion, cancellation, timers, errors, aborts and crashes |
| `event_store` | two appenders, two archivers, two instances, two keys (one oversized), three numbers drawn | `SequenceContiguous`, `OneEventPerKey`, `OrdersAgree`, `NothingIsLost` |
| `event_readers` | two appenders, one archiver, one instance, two keys | `ReadIsComplete` |
| `admission` | two callers, two tenants, budget two, three Refs, one deactivation per tenant | `Accounting`, `NoOrphanSlot`, `FairShareAtGrant`, `SlotReclaimed` |
| `breaker` | durations of the code, at most four timers running | `WatchOrBackoff`, `PollersComeBack` |
| `ordering` | two consumers, one sweeper, two numbers and a second correlation with 0 and 1, one task killed | `AppliedInOrder`, `DeadIsReported`, `PendingResolves` |
| `session` | two tenants, each with an administrator; one load, one fetch of rows and three turns (switches, crashes, renewals) | `KeyedRowsGone`, `ScreensSettle` |
| `exam` | a multiple-choice question and a short text with two options and two texts, three requests, a reload | `ForcedSubmitKeepsDraft`, `ScoredOnce`, `StartSettles` |
| `editor` | one definition, a gateway and a task with an edge, two edits, history of one, one reload, one request | `HistoryBounded`, `UnsavedIsMarked` |
| `workbench` | two dead letters, two tasks, three definitions (two versions of one name), four events in pages of two; two actions each, one start | `ShownIsReal`, `SentIsShown`, `ConfirmedTakesEffect` |
| `promotion` | two users, two requests, two versions | `ReviewIsEarned`, `DecisionIsShown`, and that the row implements `ReviewLifecycle` |
| `console` | every list page with two openings and two calls; two saves and one of another user; three items; two registrations, two polls, three visits; two columns, one of them rolled out before in any state, one company, two requests and one fault | `BelongsTogether`, `AnswersCloseTheirForm`, `ConfirmedIsShown` |

The five modules whose type invariant has no run entry of its own (`PollersBreaker`,
`Session`, `Exam`, `DefinitionEditor`, `Workbench`) and `Console` have it as the first
conjunct of their first safety invariant.

**Why the bounds are enough.** Two processes make every pair of transactions meet,
and every hazard listed is one of pairs; the graph has a human task that escalates to
another human task, beside a timer, so a token can be completed, escalated, found
stale, and the instance can end by completion only when both are done. Two retries
(`MaxFireRetries`; the code reads a configured number) reach the dead letter through one failure that is
retried and one that is not. With two keys and three values of `global_seq` a number
is lost to a rollback and a key is used twice, by two processes and after its event
was archived. In `Admission` one tenant can hold the whole budget of two before the
other halves the share, and a slot can outlive the epoch it was taken in; three Refs
are one more than can be live, and a caller keeps one at a time (`MaxHeld`). `MaxWindows`
caps how often Pollers may exit within one window; `consecutive_trips` is kept within
the schedule, past which no code tells two values apart. In `Ordering` two numbers are
a predecessor and what waits for it, the second correlation is one that is claimed
after a gap of the first; `MaxFailures` counts tasks killed and DLQ entries refused.
The second correlation has a number 0, which the schema accepts (`sequence_no >= 0`).

In the client the hazards are an answer and what happened since its request was sent: one
request that is overtaken needs one other, so two or three requests reach every such pair,
and one reload or second visit a request whose page is gone. A form that is left and opened
again, once for its own row and once for another, is what `MaxOpenings` 2 gives. `Session`
needs two tenants to have a foreign row and three turns for a switch that meets a renewal and
a crash. A history of one (50 in the code) is full after one edit, so that the second is
the one that must push the first out. In `Promotion` two requests are the two decisions or
the two applications that race; a third adds no pair, and the theorems of section 6 hold for
any number. In `Rollouts` two requests are two that overlap; what earlier ones left is in the
initial states, where the roll-out of the page's address (`Begun`) has any outcome and
promotion that a request which ran or stopped leaves. Two columns are needed to show one
roll-out and resume another, and companies are treated one after the other in every request,
so that one shows what two requests do to an outcome, or that it was added to a roll-out
that was complete without it.

**Deadlock** is checked in every run but `ordering` and those of the client and of
promotions: once every completion has arrived and is applied or dead, nothing is left to do
there, and a user whose bounded actions are used up may simply stop. That nothing waits for
ever before is what `PendingResolves`, `ScreensSettle`, `StartSettles`,
`ConfirmedTakesEffect`, `DecisionIsShown` and `ConfirmedIsShown` say.

## 5. Fairness

* `InstanceTx`: a process that can run its next statement does. Fairness is strong
  because PostgreSQL queues the waiters of a row, so a waiter is not passed over for
  ever; an abort of a cycle is weakly fair (`deadlock_timeout`). No transaction is obliged to begin
  and none to crash.
* `Admission`: the server serves its mailbox (weak fairness of its callbacks), and a
  holder that lives gives its slot back (its `after`, or the sweep's own timeout). No
  holder is obliged to die; the server is not obliged to crash.
* `PollersBreaker`: the clock runs and the mailbox is served. Pollers is never obliged
  to fail or to stay up, nor its starts to succeed, and nothing stopped is obliged to be started
  again. So `PollersComeBack` says that Pollers comes back **or the application stops**, as it does when
  starts are refused, or permanent children exit, more often than the supervisor allows.
* `Ordering`: time passes, and the sweep runs (strongly fair: PostgreSQL queues those who wait
  for a row, and an UPDATE waits). Nothing obliges a completion to arrive, and the
  specification obliges no node to consume. `PendingResolves` names the node that does:
  for each consumer it says that if this one ticks for ever (weak fairness, in `LastNode`)
  and from some moment on the others are idle (stopped; what they left behind is arbitrary),
  then in the end nothing is pending but what a number 0 holds up. A completion behind a gap, or behind
  another correlation, would be a counterexample: without the sweep's fairness TLC finds
  one, with the node claiming the same row for ever. Nothing is said of two
  nodes that go on: cycles that overlap in the same way for ever can refuse each other for ever,
  because both `claim/1` and `try_apply/2` skip what is locked and start again. The
  poller's jitter makes that improbable, not impossible.
* `EventStore`, `EventReaders`, `DefinitionEditor`: safety only, no fairness.
* `Session`, `Exam`, `Workbench`, `PromotionPage`, `Console`: a request under way is
  answered, with success or a failure of any kind (the browser ends it, at the latest when
  the connection is lost), a handler goes on after an `await`, and a timer that was set
  fires. Which answer comes is never fair: each liveness property names the failure under
  which it promises nothing, or holds whatever fails. No user is obliged to do anything,
  and a handler at the server may stop at any point.

## 6. The proofs

Each proof module extends the components it is about and proves, for every value of the
constants allowed by the named `ASSUME`, an inductive invariant and then the properties. Parts
that have nothing to do with each other but stand side by side in the system share a module:
`NodeProofs` has the two processes of a node, `ClientProofs` the designer and the operators'
pages, `ConsoleProofs` the console's pages and the session. TLC checked each invariant on the component's run before it was proved.

* `NodeProofs`, admission: `IInv` adds to the type that the server's maps are finite (the
  cardinalities need it), that the generation recorded in a Ref or a tenant is never ahead of
  the tenant's own (`Epochs`; this is why a slot of an earlier epoch cannot match the
  counter of a later one), and `Counted` and `NoOrphanSlot` themselves. From it:
  `TypeCorrect`, `AccountingTheorem`, `NoOrphanTheorem`, `FairShareTheorem`. The share
  of a grant is an action property and needs only the type and `Counted` of the state
  before. Assumed: `ConstantsAssumption`, in particular finitely many tenants.
* `NodeProofs`, breaker: `WatchOrBackoff` is inductive but for one fact that the clock needs:
  an open breaker has tripped at least once, since a count of zero has no backoff (`Tripped`).
  From it `WatchTheorem`, for any window, schedule, restart budget and number of timers, whichever
  starts of Pollers are refused.
* `EventStoreProofs`: `SequenceContiguous` is not inductive alone, since a commit writes
  a number drawn several steps before. `IInv` says of each transaction under way that
  what it has reserved is still its own: past `AssignSequence` it holds the sequence row
  and its number is the row's value plus one; past `ClaimIdempotency` it holds the key
  and the key is not committed; past `InsertEvent` its `global_seq` is drawn, unused and
  greater than that of every committed event of its instance. It also says that a live
  oversized event has its payload and that what an archiver is about to delete is in the
  archive. From it: `SequenceTheorem`, `IdempotencyTheorem`, `OrdersTheorem`,
  `NothingIsLostTheorem`, `TypeCorrect`. The readers change nothing that these speak of
  (`ReadersOnlyRead`: a step of `EventReaders` is one of `EventStore` or a stutter of it), so
  the theorems hold beside any number of them. `Gathered` says what a reader has collected so
  far: between its query of the live table and that of the archive, every event that it did
  not see live is in the archive, because events only move that way. `BeganWhole` says that a
  read begins with all the numbers up to some one, `FromCommitted` that it returns nothing else.
  From them and `IInv`, `ReadTheorem` (`ReadIsComplete`): for one unpaged `read/2`. It does not
  speak of the replay loader, nor of how often an event is returned (section 7).
* `InstanceTxProofs`: `IInv` says that a transaction past its status check holds the
  projection row and that the status is still one that passed the check. Without it a
  commit would write over a status that changed since it was looked at; with it
  `FinalTheorem` (`TerminalIsFinal`) follows, on any graph, with any number of tokens
  and processes. `TypeCorrect` is proved with it.
  What moves a token (`CompleteEvent`, `FireTask`) acts on a
  position that was read statements before: `WInv` says that a transaction past that look
  still finds the token there (`Seen`), because only the holder of the projection row moves
  one. `MoveWorks` is then the one step to prove: the task and the timer of the node that is
  left are no longer pending, those of the next node are. From it: `WorkTheorem`
  (`TokensHaveWork`) on any graph, with cycles too, and, with what the events say of the
  status (`History`), `HistoryTheorem`.
  `OInv` adds what each transaction holds of the rows it acts on (`Owned`), whoever waits for
  them: the task it completes, the timer beside it, the timer it fires. One consequence is
  that `fire_timer/2` never finds its token gone (`NeverStale`): the branch that treats an
  escalation as stale is out of reach while both sides keep their locks. `Ledger` then
  relates the events to the rows, and gives `LeavesOnceTheorem`. Its hypothesis is that the
  nodes can be ranked along the graph (`Ranked`, no path comes back; the graph of the run is
  one: review, approve, pause): in a loop a token does leave a node again, by
  new rows in the code, which here would be the old ones.
* `OrderingProofs`: `IInv` says that a consumer past its re-lock holds the row of its
  completion, that the row is pending, and that the position it read is the number before
  it (`Applying`); that what an UPDATE has reached is locked by it and pending
  (`Reaching`); and restates `AppliedInOrder` row by row (`Ordered`: applied exactly when
  not above the cursor). The step that matters is `Apply`: the cursor has not moved when
  M8 looks at it, so the new event is above every earlier one of its correlation. From it:
  `InOrderTheorem`, `ReportedTheorem`, `TypeCorrect`, for any number of consumers,
  sweepers and completions, infinitely many included.
* `ExamProofs`: `CallsInv` is about requests: each one is one that was there before, further on
  (`Follows`), or new (`Fresh`), so that one lemma (`CallsStep`) serves every action. `Promised`
  is the strengthening of `ForcedSubmitKeepsDraft`: from the signal on no save with a lower
  number is under way for the question, from the answer to the flush on the server has its
  text or a later one, and from the scoring on that is what was scored. From it:
  `TypeCorrect`, `FlushTheorem`, `ScoredTheorem`, for any questions, policy, number of
  requests and visits.
* `PromotionProofs`: `ReviewIsEarned` is not inductive, since an update relies on a read
  made steps before. `IInv` says what each request has read and done (`Sound`): one that is
  about to decide saw the review pending and, if it approves, is not the requester's; one
  that is about to mark saw it approved; one with a good outcome has its copy in the target.
  The guard of the update (`Unchanged`) turns what was seen into what is, which gives both
  the decision's uniqueness and, for `RefinementTheorem`, the step of `ReviewLifecycle`.
  From it: `TypeCorrect`, `EarnedTheorem`, `RefinementTheorem`, for any number of users,
  requests and versions; `PageIsSafe` carries them to the page (`PageTakesPromotionSteps`).
  Assumed: `PromotionAssumption`, `PageAssumption`.
* `ConsoleProofs`, pages: neither property of `Console` is inductive, since both speak of an
  answer and what was on the screen when its request was sent. `ConsoleInv` has an
  invariant for each kind of page, and a step of one page touches no other.
  *Lists* (`ListInv`): each form has the number of its opening, the opening its error belongs
  to and the last call made from it (`FormFits`); each call of the page as it is mounted is the
  last of its opening if that form waits, and closes the form it was made in if that is
  held or nothing was hurried (`CallFits`); calls are numbered in the order in which they were
  sent. What it needs of the table of twelve pages is one lemma, `OpFacts`: the few facts
  about buttons, forms and calls (`OpSound`) on which the code's care rests, read off every
  operation of every page. A change of the table that breaks them breaks that lemma.
  *Forms of one record* (`DetailInv`): what nobody typed into is what was read (`UserForm`,
  `TenantForm`), a save of each kind is under way once, and the values go one way, from the
  first to those of the other administrator (`Older`).
  *Cursors* (`PagerInv`): the cursors kept are strictly increasing and of the filter chosen
  (`Trails`), and what is cached or has been read lies behind the last of them (`Behind`).
  *Registration* (`RegInv`): what the page shows and what an answer brings is so at the server
  (`So`), a request of this visit was sent from the page on the screen, and never more than
  `MaxPolls` polls are under way.
  *Roll-out* (`RollInv`): at each statement of a request what it read and did before still
  holds (`RollCall`), one request works on a column at a time unless two overlapped
  (`OneWorks`), what is outstanding or worked on in a roll-out that was counted or completed
  was added since (`DoneStays`), and a result that is shown says of no company that it has the
  column unless it has (`Real`). No statement takes back a column that is there (`Later`),
  which is why a result that is cached stays true.
  From it: `BelongsTogetherTheorem`, `AnswersCloseTheorem`, for any items, columns, companies,
  openings, calls and polls. Assumed: `ConsoleAssumption` (the bounds are numbers, the items a
  list of names, the roll-outs that began before are of columns, and no column is called
  "none", which the page of a roll-out has in place of one).
* `ConsoleProofs`, session: `SInv` ties the rows of the cache to the session. While no two switches
  overlap, at most one is under way, it leaves the tenant of the session, and every row cached
  or asked for is of that tenant or unresolved (`OneTenant`); the callback page starts with
  nothing (`CallbackIsFresh`). From it `KeyedRowsTheorem` (`KeyedRowsGone`), for any
  memberships and any number of turns. Once two switches have overlapped, the property
  promises nothing about keyed rows, and neither does the invariant.
* `ClientProofs`, designer: `EInv` says that every graph that is drawn, kept, sent or stored is
  whole (its conditions are on its edges), that past and future of the history hold no more
  than `MaxDepth` together, and that a canvas that differs from its base is marked or was
  declared saved by an answer that came late (`Marks`). From it: `HistoryTheorem`, `MarkTheorem`.
* `ClientProofs`, operator pages: `WorkbenchInv` is one invariant for each page. Letters: a
  letter that is shown discarded before its answer has its request under way or is
  discarded at the server (`DiscardsSettle`). Tasks: the form of the panel is that of its task
  (`PanelForm`). Board: what the dialog derives from two queries is of the filter they were
  asked with (`FilterFits`, `Asked`, `DetailQuery`). Instance: the timeline's pages are a prefix
  and the next begins where they end (`Collected`, `NextFits`). From it: `ShownTheorem`,
  `SentTheorem`. Assumed: `WorkbenchAssumption` (letters are stored with one of the four
  statuses; every name that may be typed is a pattern that matches something or nothing) and
  `MaxMounts \in Nat`.

**Only model-checked**: liveness (`SlotReclaimed`, `PollersComeBack`, `TransactionsEnd`,
`PendingResolves`, `ScreensSettle`, `StartSettles`, `ConfirmedTakesEffect`, `DecisionIsShown`,
`ConfirmedIsShown`), which like `ENABLED` is out of TLAPS's reach. Induction over
data is not available to the installed provers either, so no recursive function is
proved about; the modules with theorems use none over data.

## 7. Where the code and its documents disagree

`PROJECT.json` has the quotes. Where a formula is named, it is in the module with a comment
that the code does not keep it, and no run checks it: add it to the run's configuration and
TLC shows how it is broken. (`Session!NoForeignRows` needs `EmailFirst = FALSE`; those of
`DetailForms` and `Rollouts` are for `Console` with `on = "detail"` and `on = "rollout"`.)

Server:

* **A stale observation timer closes the breaker early** (`PollersBreaker!WindowObservedInFull`).
  `trip_to_open/1` drops `observation_timer_ref` without cancelling the timer; with
  1 s of backoff and a 2 s window the old timer ends the window of the probe half-way.
* **A refused start of Pollers ends the breaker** (`PollersBreaker!PollersSpendNothing`).
  `restart_pollers/0` matches no `{:error, reason}`: the breaker exits, its supervisor restarts
  it, and it tries again at once, without its backoff. Six times within five seconds stop the
  whole application, which is what the moduledoc says no fault of Pollers can do.
* **A task can stay pending in a cancelled instance** (`InstanceTx!NoOrphanTask`). The rows
  that `fetch_and_lock_open_tasks/3` locks are those its query found; a completion that
  holds one of them commits another meanwhile, and both transactions commit.
* **Two lock orders** (`InstanceTx!NoDeadlock`). `fire_timer/2` takes the sequence row before
  it locks the projection, completion and cancellation after it. PostgreSQL aborts one of
  the two; the engine recovers (`TransactionsEnd` holds), at the cost of a failed
  request or of one of the timer's retries.
* **An event may appear behind a cursor** (`EventReaders!NothingBehindTheCursor`): `global_seq`
  is drawn at the insert and visible at the commit.
* **A replay may miss an event** (`EventReaders!ReplayIsComplete`). The archive is queried
  first, which is the unsafe order when events move from the live table into the archive;
  `read/2` uses the other order, and its completeness is checked.
* **A read may return an event twice** (`EventReaders!ReadOnce`). `read/2` concatenates what the
  two tables have, and between the two transactions of `archive/1` an event is in both.
* **A completion that is next can be given up** (`Ordering!OnlyGapsAreSwept`). The sweeper
  looks for gaps in one query and marks rows dead in later transactions that look at none.
* **A completion with number 0** (`Ordering!ZeroResolves`) is accepted, is never next and never
  above the next, so it stays pending and is what every claim of the tenant takes first.
* A gap in one correlation holds up
  the later ones until its sweep; a sweep killed at its timeout never gives its `:global` slot
  back; between the two transactions of `archive/1` a replay fails with
  `duplicate_sequence_number`, which is called structurally impossible.
* **A promoted review can be marked failed**: of two applications the loser marks it before
  the winner does. What is copied is the source's active version at that moment, not the one
  the plan was made of. A rehearsal whose node stops blocks the review for ever. Refusals
  are 409 where the client waits for 400, and the picture of the states has an edge that
  cannot be taken and lacks one that can.
* **Outcomes of a roll-out are rewritten** by overlapping requests, a succeeded one to failed
  too, though the moduledoc calls that impossible; `run_column_promotion/1` reads the
  promotion before its lock and writes over a status that is newer.
* **A completed roll-out can have outcomes outstanding** (`Rollouts!CompletedStaysDone`). A
  repeated start adds the companies that became active later, and `completed_at` is never
  taken back; the design of the page calls the two equal.
* **An answer can be saved into a scored exam**: the autosave checks the status without a lock.

Client:

* Two sessions whose tenant could not be resolved share the keys of the cache
  (`Session!NoForeignRows`); a silent renewal of the first realm sets its token after a
  switch to another.
* The text box of an exam question shows a stale text after a return before the save's answer
  (`Exam!TextShownIsSaved`).
* The designer declares edits made during a save saved; its draft store keeps one draft for
  all definitions although it is called per-definition; deleting an edge from its panel
  deletes nothing.
* The inbox claims with a request that the server always refuses; the note "retrying" of a
  dead letter is never taken away after a success; the timeline of an instance skips entries
  that were added to a page already collected; the start dialog is closed by the answer to an
  earlier start.
* A save of a user sends every field as it was last read: it writes over what another
  administrator changed since (`DetailForms!OverwritesNothingUnread`), and makes a user active
  again that the same page has just called deactivated (`DetailForms!DeactivatedStays`).
* Console: the tenant form takes back what another administrator changed; the user form wipes
  what was typed when its query is refreshed; the revocation dialog of a grant is closed by
  the answer for another; two errors of publishing a module are never told apart; a start of
  a roll-out whose answer was lost "made no change"; resuming acts on another roll-out than
  the one that is shown.

The properties that are checked name these as exceptions where they touch them, and hold of
everything else.

## 8. Not modelled

* Open (section 2): token machine, dispatchers, sub-processes, sandbox pool, snapshots and
  the replay's fold.
* Of the modelled parts: reminder and recurring timers, reassignment, signals,
  entity writes and the audit chain in `InstanceTx`; partitions, retention rules,
  filters, limits and paging back in the event store; the lag metrics of effect ordering;
  the polling loop itself; the plan, its digest and permissions in `Promotion`; the DDL of a
  roll-out; the grading of an exam and later attempts.
* Of the client: what only shows what a query returned (dashboards, the token graph, history
  and audit tables, the layout), text, style and translation, the tour and help, attachments,
  branding, keyboard submission. `web/src/types/api.ts` and the API modules enter as the
  fields and calls that the pages use.
* Outside: the delivery of webhooks (outbound HTTP with a record of each attempt), the
  validation of definitions, the expression interpreter (sequential), entities and records,
  tenant provisioning and identity beyond the promotion of a column (migrations, OIDC), the
  HTTP surface, and the mobile client, which shares no code with the web client.

## 9. Running it

`tlc -config MCInstanceTx.cfg MCInstanceTx` checks a run; `tlapm InstanceTxProofs.tla`
checks the proofs of a component. `PROJECT.json` lists runs, the mutation each property
was shown to catch, the lines each definition stands for, findings, hazards and theorems.
