# codexD in TLA+

codexD runs Codex app-servers for Discord threads. A message becomes a *Turn* of a
*Conversation*; a mailbox worker takes the Turns of a Conversation one by one, gets a
*runtime* (an app-server process) for the project, starts the Turn at the provider and
follows its event stream; the result goes back to Discord through an outbox; SQLite is the
durable truth. This directory models how the rows, the files and the processes move, checks
the models with TLC and proves theorems about them with TLAPS. Paths below are relative to
`src/codexd/` of the repository.

    tlc -workers 2 -config TurnFaults.cfg TurnLifecycle.tla
    tlc -workers 2 -config TurnRecovery.cfg TurnLifecycle_proofs.tla
    tlc -workers 2 -config SupervisorSafety.cfg MCRuntimeSupervisor.tla
    tlc -workers 2 -config Outbox.cfg Outbox.tla        # so do the five others
    tlapm TurnLifecycle_proofs.tla      # so are the seven other *_proofs modules

## 1. Inventory

| component | state | operations | interacts with | module |
|---|---|---|---|---|
| Turn execution (`application/turn_coordinator.py`) | `_active`, `_inflight`, `_closing` | enqueue, `_process_turn`, cancel, steer, close, restore | mailbox calls it; it calls repository, supervisor, adapter; starts an EventPump per Turn | TurnLifecycle |
| Tables (`storage/repository.py`) | turns, conversations, thread_revisions, runtime_leases, command_intents, outbox | one transaction per method | every task of the daemon, and the next boot | all |
| Mailbox (`runtime/mailbox.py`) | wake event, one task per Conversation | wake, poll, retry delay, close | polls `next_queued_turn`, calls the coordinator | TurnLifecycle |
| RuntimeSupervisor (`runtime/supervisor.py`) | slots with lock, lease, backoff; capacity semaphore; `_watchdog_task` | ensure, report_failure, retire, watchdog, close | coordinator, lifecycle, side queries, health loop | RuntimeSupervisor |
| EventPump and projectors (`runtime/event_pump.py`, `storage/projectors.py`) | buffered deltas, journal cursor | run, flush, record | reads the provider's stream, writes Turn, progress and outbox rows | TurnLifecycle, Outbox |
| Session lifecycle (`application/session_lifecycle.py`) | command intents, barriers, monitor tasks | clear, compact, new, resume, fork, archive, rename, monitor, restart | excluded by queued or active Turns; shares barriers with the coordinator | Sessions |
| Volatile input (`application/volatile_turns.py`) | prompts and results, at most 1024 | put, input, drop, discard | enqueue, coordinator, pump, outbox | one bit in TurnLifecycle, Outbox, Artifacts |
| Daemon (`application/daemon.py`, `bootstrap.py`) | daemon lease, service tasks | start, recover, shutdown | starts and closes all of these in order | crash and restart in each module |
| Outbox (`transport/discord/outbox.py`, repository) | rows with lease, attempt, message id | claim, renew, complete, retry, unknown | written by pump and commands, delivered to Discord | Outbox |
| Schedules (`application/schedule_coordinator.py`, `schedule_management.py`, `storage/schedules.py`) | schedules, drafts, fires | tick, materialize, misfire, run now, pause, update, delete | creates Turns of source schedule | Schedules |
| Ingress (`transport/discord/bot.py`, `reconciliation.py`, `storage/ingress_reconciliation.py`) | checkpoints, buffered live messages, ingress rows | live message, scan, progress, complete, fail, thread creation, preflight | creates Turns of live and of missed messages | Intake |
| Attachments, outbound images (`application/attachments.py`, `attachment_materialization.py`, `outbound_images.py`) | files, rows | ingest, materialize, verify, publish, remove | Turn input and outbox | Artifacts |
| Retention (`storage/retention.py`) | retention_until, deletions | purge Turns and files, sweep, compact | everything that ends | Artifacts |
| Side queries (`application/side_queries.py`, `storage/side_queries.py`) | side_queries, running tasks | ask, finish, close, restart | uses a runtime beside the Turns, keeps it from eviction | SideQueries |
| Adapter (`runtime/codex_sdk.py`, `app_server.py`) | JSON-RPC client, handles | start, read, resume, interrupt, stream | the app-server process | its answers, where they are used |
| Discord bot's views, rendering, security, service, configuration, CLI | mostly stateless | commands, views, files | outside the protocol | none |

What is hard here: all tasks share one event loop and yield at each `await`, a transaction
runs in a worker thread, so every value read before an await may be stale after it; a
provider call or a Discord request can take effect and fail; a runtime is shared by the
Conversations of a project and can die, be evicted, be retired by another Conversation or be
closed by the shutdown; the daemon may stop between any two transactions. What makes each
component right:

* Turns: started at most once, in order, alone in the Conversation; ended once; nothing
  runs at the provider that no row names; a cancel is not lost; no row stays active or
  queued for ever.
* Supervisor: a bound on processes, one process per project, capacity neither leaked nor
  freed early, live work not evicted, waiting in order, no deadlock, shutdown leaves
  nothing running.
* Commands, barriers and fences: what the provider changed is never out of sight, an answer
  is true and given once, somebody observes every barrier.
* Outbox: results whole and in order, at most one message per part unless the outcome is
  unknown and reported, every row settles.
* Schedules: each occurrence fires at most once and leaves a trace; misfires follow the
  policy; a fired Turn is woken.
* Intake: each message becomes one Turn or a refusal, no checkpoint passes a message that
  did not, live messages do not overtake missed ones.
* Artifacts: a file stays while a row that can still be used names it, and not for ever.
* Side queries: every fork is interrupted and unsubscribed, the runtime under it is not
  evicted, every row settles.

`PROJECT.json` lists the hazards with their lines and the properties that cover them.

## 2. Modules

| module | what it is |
|---|---|
| `TurnOrder` | the abstract promise: state machine of a Turn, FIFO, one active Turn, one end |
| `TurnLifecycle` | the rows and all tasks that write them; implements `TurnOrder` |
| `RuntimeSupervisor` | slots, locks, capacity, eviction, watchdog and close of the supervisor |
| `MCRuntimeSupervisor` | its TLC instances, with the symmetry of users and slots |
| `Outbox` | rows of discord_outbox, the delivery workers, and what is in Discord |
| `Schedules` | schedules, fires and drafts, the owner's commands, and the timer |
| `Sessions` | command intents, barriers, fences, the provider's answers and the monitor |
| `Intake` | gateway, scan, checkpoint, claims, thread creation and preflight of a channel |
| `Artifacts` | the files, the rows that name them, retention and its sweep |
| `SideQueries` | the temporary questions of `/btw`: rows, forks at the provider, cleanup, close |
| `TurnLifecycle_proofs`, `RuntimeSupervisor_proofs`, `Sessions_proofs`, `Intake_proofs`, `Artifacts_proofs`, `SideQueries_proofs`, `Schedules_proofs`, `Outbox_proofs` | the theorems |

Each module holds the other components only as far as its own rows need them: a Turn is
one bit in `Sessions` and a small state machine in `Artifacts`; `Intake` and `Schedules`
stop where the Turn is queued; `Outbox` begins where the projection inserts its rows.
`TurnLifecycle` has one slot, whose lock has an owner and whose boot, report, retire and
close are steps, because the Turns depend on when they happen; `RuntimeSupervisor` has many
slots, the FIFO queues of the locks, the capacity, eviction and all failures of a close,
and knows of a Turn only that its claim needs a ready lease.

In all modules a step is one transaction, one answer of Discord or the provider, or one
operation on a file, with what follows it until the next await. `Env` switches the optional
events of the environment on, and `MaxFaults` (in `Intake` `InThread` and `InParent`) bounds
how many of them happen.

### TurnLifecycle

| variable | code |
|---|---|
| `turn` | table turns, numbered by `enqueue_sequence`; `reason`, `origin` are `interrupt_reason`, `interrupt_origin`; `ident` is `provider_turn_id IS NOT NULL` |
| `conv` | state, active revision and provider barrier of conversations; `made` counts revisions |
| `lease`, `slot`, `alive` | runtime_leases, the RuntimeSlot in memory, the running processes |
| `provider` | what the app-server does with a Turn: external |
| `worker` | the locals of `_process_turn_inner`: where it awaits, its Turn, lease generation, revision, the barrier it read, attempts of a recovery |
| `active`, `pump`, `volatile`, `canceller`, `monitor` | `_active`, the pump tasks and their results (`lost`: an error of the database ended the worker), VolatileTurnStore, `cancel` interactions (`failed`: the user was told of an error), barrier monitors |
| `phase`, `boots`, `critical` | the daemon: up, closing, forced (runtimes closed under a drain that takes too long), stopping, down, restoring |

A step is a transaction or a provider call with what follows it until the next await. The
error exits of the code are actions of their own (`ReadFails`, `StartRefused`,
`RuntimeUnavailable`, `MarkFails`, `AwaitJournal`, ...). So are transactions that fail
(`"dbFault"`): before the claim the Turn stays queued and the mailbox comes back
(`QueuedFails`), after a thread was started the Conversation is fenced (`EffectFails`), and a
user who cancels is told (`CancelFails`). After the claim a `sqlite3.Error` is caught by no
`except` of `_process_turn` but that of `mark_turn_running`; its `finally` takes handle and
pump away, the mailbox notes an incident and goes on with the next Turn, and the row stays
as it is: `InputFails`, `StartedFails`, `WatchFails` and `ReportFails` (section 3,
`LostToDatabase.cfg`). Actions of their own are also the steps of whoever
interferes: `CancelRequest`, `WatchdogReport`, `Clear`, `Compact`, `MonitorIdle`,
`ForceClose`, `CloseTurns`, `Crash`, `Boot`. `Env` switches the optional events of the
environment on, so that an instance can combine the ones whose interplay it is about.

Merged or left out: `Pick` joins `next_queued_turn` with the read of the Conversation; a
fence and the end of its Turn are one step; so are a read of the monitor and its
resolution, and an interrupt at shutdown and its transaction. `CloseTurns` drops the
workers at once. Left out are the failure of the fence that answers another failure, of
`/session clear`, of the second transaction of a load under a shutdown and of the
`request_cancel` of a shutdown; of `next_queued_turn`, which is outside of the mailbox's
`try` and ends its task until the next wake makes a new one; and a second answer NOT_LOADED
after a reload, which only tries again. A transaction of a pump that was cancelled either
lands before or not at all. Closing a process does not fail here, nor does a forced close:
failures are in `RuntimeSupervisor`. Archive behaves like clear for these properties and is
not an action. The last generation of an instance does not exit, keeps its streams and is
not reported by mistake, or the run would only run out of generations.

### RuntimeSupervisor

| variable | code |
|---|---|
| `slot` | RuntimeSlot: generation, `runtime is not None`, `lease.state == "ready"` in memory, `capacity_reserved`, `retry_at` in the future |
| `lease`, `process` | the row, and the processes that really run |
| `lru`, `idle` | order of `last_used_at`, and who is past the idle TTL |
| `lock`, `startLock` | FIFO queues of the slot locks and of `_capacity_start_lock`, owner first |
| `task` | users (ensure, then claim, report or retire), the watchdog's visitors, the closers of a shutdown |
| `live` | users with an active Turn (`runtime_scope_has_live_work`) |
| `sync` | a start that has met only free locks and so has not yielded yet |

Permits of the capacity gate follow from the reserved flags. A task holds a lock over
steps until it leaves; `asyncio.Lock` serves in order and does not yield when it is free.
`TtlPasses` assumes that a user claims or gives up before the TTL of the runtime it just
got (minutes against seconds); `BackoffEnds` that a backoff, one second at least, outlasts
the synchronous part of a call. Slots exist from the start; `Lost` names those whose
runtime failed long ago, which keep their `last_used_at`. Database failures and the
catalog refresh are left out; live work is active Turns only.

### Outbox

| variable | code |
|---|---|
| `rows` | discord_outbox, numbered by `enqueue_sequence`: kind, coalescing key, state, lease owner, progress of the delivery, dependency |
| `turn` | state, progress view and task card of each Turn |
| `worker` | the locals of `OutboxWorker._deliver`: the row, where it stands, the part, the message found |
| `volatile` | whether the result is still in memory (a restart loses it) |
| `copies`, `reaction`, `known`, `buried`, `late` | Discord: messages by delivery marker, reactions, remembered nonces, markers no scan reaches, requests still on their way (external) |
| `reported` | incidents `delivery_duplicate_possible` |

External assumptions: a nonce is remembered for longer than one request takes, and messages
of the history carry their nonce. The cards of schedule drafts and the attachment fallbacks
of a single message are left out. A delivery that stalls until its lease is taken over may
still edit or post afterwards; the properties say where.

### Schedules

| variable | code |
|---|---|
| `clock` | minutes a cron expression matches; at `n` the occurrences `1..n` are due |
| `sched`, `behind` | rows of schedules: state, definition, `next_due_at`; who has a version the timer's snapshot lacks |
| `draft`, `review` | drafts that can be confirmed, delete confirmations for the current `config_revision` |
| `fires`, `since` | schedule_fires of the timer; the first occurrence the owner's last command left to it |
| `timer` | the locals of `_run` and `_process_due`: snapshots, batch, whether a Turn was fired |
| `manual`, `asleep`, `target` | runs by hand whose wake is to come, Conversations not woken for a Turn, who may take Turns |

At start-up the code blocks Schedules whose project is gone, and the next tick those whose
Conversation is closed; the model does both at start-up. Versions only grow, so a command that expects an old one leaves the model when somebody
writes the row. No command falls in the very millisecond of an occurrence. The commands are
those of the Discord views (`schedule_management`); the pause, resume, update and delete of
the coordinator itself have no caller in the program. Names are unique among all rows.

### Sessions

| variable | code |
|---|---|
| `conv`, `rev` | conversations (state, active revision, provider barrier and its intent), thread_revisions |
| `intent` | command_intents |
| `task` | the task that runs an intent: where it awaits, which revision it makes |
| `asked`, `drift`, `thread` | the provider: what it did for an intent, what it changed or still works on that the rows do not account for, the Thread (external) |
| `monitor`, `looked` | `_run_provider_barrier_monitor`; the command whose barrier its snapshot showed to be over |
| `busy`, `stolen` | a Turn is queued or active; a barrier was cleared that the monitor had not found to be over |

Assumptions: an adapter error that is not an unknown outcome means that the provider did
nothing, and an effect whose answer is lost is applied by then or never: the app-server
reads its requests from a pipe in order, and a request that was cut off is not sent again.
A command that finds no runtime or revision, or whose first transactions fail, has changed
nothing and is refused; after the provider's answer every transaction may fail (`"commit"`)
but the one that answers the command last. The fence the monitor writes for a deleted
Conversation raises in the code and ends the monitor; in the model it fences nothing, and
the monitor ends as well.

### Intake

| variable | code |
|---|---|
| `posted`, `world`, `event`, `gateway`, `seen` | Discord: messages, their edits and deletions, where their live event is, the connection, `last_message_id` (external) |
| `row`, `out` | ingress_messages, and the outbox row that makes the thread of a message |
| `ckpt` | discord_ingress_checkpoints: state, `base` of the first scan, what is scanned, the open scan's barrier and cursor |
| `scanning`, `scan` | `_ChannelState.scanning`, the task that scans and its page |
| `task`, `due`, `told` | the handler under `ingest_lock` and the preflight beside it; preflights that wait; refusals without a row |

One channel, a thread or a parent channel; in the code an error met while one thread is
looked up ends the discovery of all, until the next cycle. A notice that is posted after the row exists is
left out, and so is the text of a message: it is blank or not, edited or not.

### Artifacts

| variable | code |
|---|---|
| `turn`, `intake`, `memory` | the Turn's row, the handler that ingests its attachment, the volatile input |
| `files`, `aged` | quarantine, input, tree, staging and image directories; files untouched for 24 hours |
| `attachment`, `tree`, `image` | rows of attachments, materialized_attachments, outbound_image_invocations |
| `work`, `call`, `late`, `torn` | the thread that materializes, the handlers of the tool call, calls cancelled by their timeout while their transaction ran, and rows registered that way |
| `expired`, `old`, `final` | past `retention_until`, before the cutoffs, the outbox row of the final answer |
| `worker` | a run of retention: where it is, what it picked, what it unlinked |

Each check of an archive, image or URL is one failure. Render plans are left out: nothing
writes them any more. The `LIMIT`s of a retention run are left out, so that a run takes all
it may; and nothing is supposed to hold an unnamed file for a day.

### SideQueries

| variable | code |
|---|---|
| `row`, `user` | side_queries |
| `task` | the locals of `ask`: where it awaits, why it gives up (which except clause), the lease generation |
| `opened`, `items`, `todo` | entries of `_active` with a handle; those that `close` found, and has yet to see to |
| `side` | the ephemeral fork and its Turn at the provider (external) |
| `late` | a transaction that a cancelled task left in its thread; it lands after what its clause does |
| `slot`, `phase` | the RuntimeSlot that Turns share; the daemon and `close` |
| `messy`, `stuck` | queries whose cleanup failed or was cut short, or whose last transaction failed |

One Conversation and one slot; other users of the runtime appear as evictions, reports and
deaths at any time. Assumptions: unsubscribing an ephemeral fork ends its Turn, and what the
provider was asked for may take effect though the caller was cancelled. The text of the
answer, the checks of the Conversation (one failure) and the deadline that the daemon puts
on `close` are left out.

## 3. Runs

Bounds are in the `.cfg` files; every counter of the models is bounded by a constant
(`MaxTurn`, `MaxGen`, `MaxRev`, `MaxBoot`, the set `Canceller`; `MaxCalls`; `MaxUpdate`,
`MaxToggle`, `MaxPart`; `Horizon`, `MaxEdit`; `N`; `Query`; `MaxFaults`). Since they are used up in
the end, the systems stop, and deadlock is not checked.

| run | question | bounds and events |
|---|---|---|
| `turn_faults` | no answer and no error of the provider, the input or the identity makes a worker forget a row or a provider turn, and no error at all a cancel or a barrier; a thread runs one turn; the rows refine `TurnOrder` | 1 fresh Conversation, 2 Turns, 2 generations, a canceller, all call failures, transactions that fail, a wrong health report, compaction |
| `turn_restart` | crash or shutdown at every point, then recovery: rows refine `TurnOrder`, completed means completed by the provider | 2 Turns of every source, fresh Conversation, deadline and force close |
| `turn_recovery` | types and the inductive invariant of the proofs, with the recovery of a thread and all its retries | 2 Conversations, 4 generations, enough for every attempt |
| `turn_live` | liveness of queued and active Turns | 2 Conversations with one runtime, one death, lost streams |
| `supervisor_safety` | processes bounded, one process per project, a close leaves nothing | 2 slots, capacity 1, 2 users, 2 faults of any kind |
| `supervisor_live` | ensure answers, lost runtimes are found, close ends, live work is spared | 1 slot, 2 users, 2 faults |
| `outbox` | nothing is posted twice unreported, a sent row is whole, results keep their order, every row settles | 1 Turn with progress, card, reaction and a result in 2 parts and a footer; 2 workers; 1 fault of 6 kinds, forgotten nonces and buried messages |
| `schedules` | no occurrence without a trace, fires move the cursor, what is due settles, fired Turns are woken | 1 Schedule of either kind, 1 draft, 3 minutes, 2 commands, batches of 2, 1 fault of 4 kinds |
| `sessions` | changes of the provider stay behind a barrier or fence, answers are true and final, commands are answered, compaction lets go | 2 interactions with any two of 9 commands, 4 revisions, 2 faults of 8 kinds |
| `intake` | no message is skipped or overtaken, all are answered, the buffer empties | 2 messages in pages of 1, a thread (messages and faults together 4) or a parent channel (3), 9 kinds of faults |
| `artifacts` | files stay while they are needed, and only so long | 1 Turn with an attachment, 2 deliveries of an image call, 2 faults of 8 kinds |
| `side_queries` | every fork is seen to, no runtime is evicted under one, every question ends | 2 questions of one or two users, 2 generations, one fault of 6 kinds at any step, and the time limit |

Why the bounds suffice. The hazards of Turns are about two Turns of one Conversation or of
two that share a runtime, about one cancel, and about one generation replaced by the next;
the refinement theorem says that the rows keep to `TurnOrder` with any number of Turns.
(`TurnOrder.cfg` runs the promise itself with four Turns; the theorems cover it for all
constants, so it is not among the runs.) The supervisor's conflicts need a start, a runtime in
its way and one more task. (`supervisor_safety` with two calls of each user and one fault
has passed too; its seven million states take longer than a run should.) In `outbox` a
delivery, one that takes it over and one row behind it are what order and duplication are
about; a second Turn only repeats the rows. `schedules` has more occurrences than a batch
holds, so that a batch ends in the middle of what is due, and a command can come before,
within and after it. In `sessions` two interactions suffice for every conflict, since the
third waits for the same lock; two faults let an answer be lost and the process die on top.
`intake` has more messages than a page holds, so that a scan resumes between them.
`artifacts` needs one file of each kind and one rival for the image. In `side_queries` a
question has one rival for the user's row, the capacity and the runtime; two faults instead
of one have passed too, in more time than a run should take.

These hold in the same instances and are defined in the modules, but stand outside the runs:
the `TypeOK` of each module (but for `IInv`, which contains that of `TurnLifecycle`),
`OneActive`, `EndsOnce`, `CapacityFits`, `StreamEndEndsTurn` (with the bounds of `turn_live`),
`ProgressRemoved`, `ReactionConverges`, `CursorAhead`, `DeletedIsFinal`, `OneRevision`,
`VerdictStands`, `RowsOutliveFiles`. All but `ProgressRemoved` and `ReactionConverges` are
theorems (section 4).

Fairness (`FairSpec`). The event loop runs every task that can go on (`WF` for each
worker, pump, cancel and monitor; the worker as a whole, since a poll may fail and come
again); SQLite answers; a provider turn ends if left alone or told to; the health loop
calls the watchdog again and again. Nothing makes a message arrive, a user cancel, a
runtime die or a runtime live. For the supervisor, a Turn ends, the TTL and a backoff
pass, and a visit to a loaded slot is a probe again and again (`SF` on the probe: the probe
interval passes, though one visit may come too early). `Outbox`: the loops of the workers
run, one polls every row that may be due, and a lease ends. `Schedules`: the coordinator's
task runs and a run by hand that has started ends; the owner does nothing unless he likes
to. `Sessions`: tasks, monitor and the provider's compaction go on; no command is repeated.
`Intake`: tasks run and the gateway connects again (discord.py reconnects for ever).
`Artifacts`: handlers and Turns go on, the retention loop runs every minute, and time passes
for whatever waits for it again and again (`SF`, since a file may be touched in between).
`SideQueries`: tasks and threads go on (the stream of an answer breaks, ends or meets the
time limit), and an eviction lets go of its slot; nobody need ask, and nobody need close.

### Where the code differs from its documents

Met while modelling; the first six have a configuration of their own, and TLC answers
`tlc -workers 2 -config <cfg> <module>` with a trace that explains them. They are not
among the runs above, whose bounds leave out what leads there or whose properties say what
holds beside it: `turn_live` has no fresh Conversation and no recovery, `turn_faults` and
`turn_restart` no reload, `turn_recovery` checks no barrier, `ActiveTurnIsDriven` and
`NoOrphanProviderTurn` except Turns `lost` to the database, `supervisor_live` has one slot,
so that only the watchdog evicts and no start waits for the capacity of another project.

| configuration, module | what happens |
|---|---|
| `FirstTurnStrandsSecond.cfg`, TurnLifecycle | a second Turn queued before the first has made the thread has no revision and is never claimed; everything behind it waits too (`storage/repository.py`:4016, `docs/codexD-detailed-design.md`:839) |
| `RetireStrandsTurn.cfg`, TurnLifecycle | a recovery retires the shared runtime; the running Turn of another Conversation loses its stream, the event is dropped as stale, the row stays running (`turn_coordinator.py`:965, design :1587) |
| `ClearUndone.cfg`, TurnLifecycle | a cancelled Turn whose worker is resuming the thread activates it again after `/session clear` (`repository.py`:2399, design :3416-3417) |
| `LostToDatabase.cfg`, TurnLifecycle | a `sqlite3.Error` of a claimed Turn (when its input is loaded, when a start that failed is recorded, at the recheck or an interrupt) leaves its row active, without worker, pump or request for a shutdown, until its runtime fails or the daemon starts again (`turn_coordinator.py`:599-716, 734-739, 769-778, 799-806, 815-892; design :5227 has "interrupted/critical" and "fail closed" for a DB write); the mailbox records an incident (:1295-1306), and the Conversation claims nothing more |
| `CapacityStarves.cfg`, MCRuntimeSupervisor | a start waiting at the gate keeps the watchdog from evicting the runtime it waits for (`supervisor.py`:975, design :683-684) |
| `EvictionDeadlock.cfg`, MCRuntimeSupervisor | the evicting start waits for a slot that a start behind it has locked (`supervisor.py`:998, design :683) |

Turns and supervisor, further:

* `activate_thread_revision` also overwrites a fence that came during the resume. A barrier
  monitor that blocks the Conversation is then gone while the Conversation is active behind
  its barrier, so `BarrierIsWatched` fails when a cancel, a reload, a compaction and a
  changed identity are combined.
* A queued backfill Turn survives the restart and then fails for want of its input, which
  was in memory only (design :3110-3111 says that it resumes).
* A Turn can be claimed between the live-work query of an eviction and its
  `mark_runtime_stopping` (`supervisor.py`:1004-1018; design :692, :5897).
* A shutdown that cancels a watchdog report after its commit leaves a slot whose close
  raises before it closes anything (`supervisor.py`:485; design :5060).

Outbox:

* After a restart in the middle of a result its text is gone from memory. If part 1 is found
  in the history, only the footer is added, and the row counts as sent. `SentIsWhole` says
  what is left of "whole": whatever part came, the footer came.

Schedules:

* A message of a Schedule that can never be delivered blocks the Schedule even if it is
  completed (`repository.py`:5379-5388).
* A create draft that is confirmed late has its cursor in the past, and the policy treats
  what lies between as missed.

Sessions:

* An IDLE answer of the provider resolves whatever barrier the Conversation has when it is
  written: one of an unknown effect that came meanwhile, or of a later compaction, whose
  work the snapshot knew nothing of (`session_lifecycle.py`:868, `repository.py`:3655;
  design :3405-3406). The second needs three interactions. `DriftIsBarred` exempts both as
  `stolen`.
* The monitor ends at any exception, and its barrier is not watched until the next start.
  Nor does it start if a transaction between the answer of the compaction and its start
  fails (`session_lifecycle.py`:710-718, 726-744, 1425-1437). `CompactionReleases` and
  `CommandsAreAnswered` exempt both (`Unattended`).
* A compaction left `reconciling` on a deleted Conversation is never answered.
* `prepare_explicit_session_recovery` lifts fence and barrier before it is known whether the
  new revision and runtime can be had.

Intake:

* One 403 or 404 blocks a channel's checkpoint for good and fails its buffered messages.
* A message lost live, with a later one taken live before the first checkpoint, is passed by
  the baseline of the first scan. The order is not kept for a scan under way at a disconnect.
* A message claimed and cut off by a crash before its Turn is queued is rejected at the
  restart; if it was live, without a notice.
* Two preflights may run for one message: the second finds the Turn, its files leak until
  the sweep, and if the message was edited meanwhile its author is told of a rejection that
  did not happen.
* A refusal of empty input makes no row, so that the next scan repeats its notice.

Artifacts:

* The time limit of a tool call (`app_server.py`:458-466) cancels the handler while its
  transaction runs in a thread: the row is registered and its file taken back. `ImageKept`
  exempts it as `torn`.
* Files of an ingest or call that a crash cut off have no row; they go with the sweep after
  24 hours.
* An attachment row that retention deletes while its file is materialized makes the insert
  fail with an `IntegrityError` that nothing catches.

Side queries:

* A row whose last transaction fails stays live until the next start: its user is told
  `btw_already_running` until then, and its runtime is not evicted (`stuck`).
* A fork opened after `close` took its snapshot, whose except clause the cancellation cuts
  short, is unsubscribed by nobody (`side_queries.py`:290-295); only the runtime's own close
  ends it (`messy`).
* An answer that was collected is thrown away if its fork cannot be unsubscribed, and a row
  can be completed although the cancelled task gave its user no answer.
* A side query that loses its stream reports the runtime it shares with the Turns, which
  ends them too.

## 4. Proofs

A theorem without a condition holds for every value of the constants that the assumption of
its module admits: any number of rows, workers and failures, and every `Env`.

### Turns

`TurnLifecycle_proofs`, from `ConstantsAssumption`, in four parts.

*Rows.*

* `InductiveInvariant`: `IInv`. `TypeOK` is not inductive and does not carry the
  refinement: that `Claim` starts the *first* queued Turn depends on what the worker
  learnt at `Pick`, many steps before. `IInv` adds: a worker holds a row of its own
  Conversation; rows are inserted in order; until the claim no queued row comes before the
  worker's, after it that row is not queued; a pump or handle belongs to a row that was
  claimed; a row whose interrupt a user asked for is cancelling or has ended (so that
  `Outcome` yields `cancelled` only from `cancelling`).
* `Refinement`: `Spec => ImplementsTurnOrder`, by the same case analysis. All steps but
  `Enqueue` and `Pick` are an *Advance*: the rows move as `TurnOrder` allows, the workers
  keep their Turn or let it go, the rest keeps its type. One lemma shows that an Advance
  keeps `IInv`; then one lemma per action shows that it is one.
* `OneActiveHolds` and `OutcomeIsFinal` prove the promises of `TurnOrder`, for the instance
  `Order`; `OneActiveTurn` and `OutcomeStays` carry them over by the refinement.

*Provider turns.* `Provided`: what the provider runs was claimed once, by the worker that
starts it. `Moves` says how a step changes a row, its provider turn and its pump together,
and this alone keeps the invariant. `CompletedIsReal` (`CompletedByProvider`) follows.

*After the claim.* `Safe`: `SafeInv`. Four tasks act on a claimed Turn: its worker, its
pump, a canceller and the watchdog; and the phases of the daemon stop them in some order. A
handle stays until the worker takes it away; a pump has a worker that waits for it, and a
pump that is over has ended its row, or the worker is about to, unless an error of the database
took the worker (`LostStep` says what that leaves: the row as it was, no handle, no pump); a generation is loaded once,
and whoever starts or closes it has the lock of the slot; a worker knows the generation on
which it claimed. On these rest `CancelIsNotLost` (`NoLostCancel`) and `NoOrphan`
(`NoOrphanProviderTurn`).

*Before the claim.* `Learns` says what a worker comes to know at each await.
`ThreadRunsOneTurn` (`OneProviderTurn`): a worker that is about to start a Turn has read that
its Thread is idle (read again after a reload), and nobody starts another in between. Three properties have a condition
on `Env`, and fail without it:

* `ActiveHasReadyLease`, `ActiveHasDriver`, `StreamEndIsRecorded` (`ActiveOnReadyLease`,
  `ActiveTurnIsDriven`, `StreamEndEndsTurn`) assume `"systemError" \notin Env`, that no thread
  is recovered: a recovery retires the runtime under the Turns of other Conversations
  (`RetireStrandsTurn.cfg`). `"systemError"` is the answer of the provider that leads there;
  every other event and failure stays. The driver of a Turn whose worker an error of the
  database took is excepted in the property itself: `LostToDatabase.cfg` shows that without
  this exception it is false.
* `BarrierHasOwner` (`BarrierIsWatched`) also assumes that no resume activates a revision
  again, `"reload" \notin Env`; section 3 says how such a resume loses a monitor.

`turn_recovery` checks `IInv` with TLC, `turn_faults` and `turn_restart` the refinement.

### RuntimeSupervisor

`RuntimeSupervisor_proofs`, from the assumption of the module: for any slots, users,
capacity, calls and failures,

* `OneAppServerHolds` (`OneAppServer`), `AppServersAreBounded` (`AppServersBounded`),
  `ShutdownIsClean` (`CleanShutdown`), `CapacityFollows` (`CapacityFits`).
* `InductiveInvariant`. A start, a close and a report hold the lock of their slot over all
  their awaits (`LocksHeld`), whichever of them fails or is cancelled, so that what they know
  of the slot stays true (`TaskFits`). A slot has capacity and processes just as its runtime,
  or the one task that starts one, needs them (`SlotFits`); the capacity in use is bounded
  since only the holder of the start lock adds to it, after it has counted (`InTurn`,
  `InUseBounded`). A step of a task writes only slots whose lock it holds and takes no lock
  from another (`TaskMove`); `MoveFits` concludes that the others lose nothing.
* `LiveWorkIsSpared` (`LiveWorkSpared`), where `MaxActive` covers all slots and no recovery
  retires a runtime. `LiveInv` adds: nobody evicts for another slot; a lease that is ready is
  that of the loaded runtime; who is closing a runtime closes an idle one, which nobody got
  lately, or one that nobody can claim. The conditions are needed, and TLC finds a
  counterexample without either: with two slots and a capacity of one the evicting start
  takes a candidate that was idle before it had to wait for its lock, and a Turn is claimed
  between the query for live work and `mark_runtime_stopping` (`supervisor.py`:1004-1018);
  and a retiring recovery does not ask who else works.

### Commands

`Sessions_proofs`, from `SessionsAssumption`: for any set of interactions, any commands, any
bound of revisions and any `Env` with any number of faults,

* `DriftStaysBarred`: `DriftIsBarred`; `AnswersStayTrue`: `AnswersAreTrue`;
  `AnswersStandForGood`: `AnswersStand`, as a property of each step (`Standing`);
  `OneActiveRevision`.
* `InductiveInvariant`. None of them is inductive, since the provider acts between two
  transactions of the command. Its parts say: at most one task is between its intent and its
  answer (`OneHolder`); that task owns the barrier, unless it was stolen (`Consistent`); a
  task that has not asked left the provider as it was, and a lost answer leaves its intent
  unanswered (`Clean`); if the monitor has found the present barrier to be over, nothing of
  that command is outstanding (`Barred`). The last is what makes its late resolution safe,
  and what fails when the barrier was replaced in between.

### Intake

`Intake_proofs`, from `IntakeAssumption`: for any number of messages, any size of a page and
any faults, `NoneIsSkipped` (`NoneSkipped`), `BufferStaysInOrder` (`BufferedInOrder`) and
`VerdictsStand` (`VerdictStands`). The checkpoint alone is not inductive: it moves to what
the scan has put behind its cursor (`Passed`), and the cursor moves to the next message of a
page. No message lies between them unseen, because a page that leaves one out is full of
earlier ones (`FirstPage`, a lemma about the cardinality of what Discord returns): what is
beyond the cursor is in the page, behind a full page, or deleted (`Left`). Between cursor
and claim a message is in the hands of the handler (`Claimed`), which works for the scan only
while the scan goes over a page, and for the buffer only after that (`OneHandler`).

### Files, questions and schedules

`Artifacts_proofs`, from `ArtifactsAssumption`: for any number of Turns, deliveries of the
call and failures, `InputStays` (`InputKept`) and `ImageStays` (`ImageKept`). Retention works
in passes: it picks rows in one transaction, unlinks files in many steps and deletes rows in
another, while Turns are queued. `Kept` says of each Turn that what a pass picked belongs to
a Turn that is over, which no step undoes, and that a directory which the sweep's list of
references does not name is younger than its cutoff or unused; `Published` says the same of
the files of the call, of which only the registered one counts. `RowsOutlive`
(`RowsOutliveFiles`) needs `Emptied` beside them: an input that a pass has unlinked stays
unlinked until its row is deleted, since only a message without a row writes one.

`SideQueries_proofs`, from `SideQueriesAssumption`: for any number of questions, users and
generations, `ForksTended` (`ForksAreTended`) and `EvictedRuntimeIsIdle` (`EvictedIsIdle`).
`Sound` says where each ask may stand: its row is live until its fork has been seen to; a
transaction left behind in a thread comes only after the cleanup; a clause that `close` has
cut short has left its fork to `close` (`LeftToClose`) unless it is `messy`; nothing uses a
runtime that is being evicted.

`Schedules_proofs`, from `SchedulesAssumption`: for any number of Schedules, drafts, minutes
and commands, any cap of a tick and any misfire policies, `NoneIsMissed` (`NoneMissed`),
`FiresOnlyAtCursor` (`FiresAtCursor`), and two properties that no run checks,
`CursorStaysAhead` and `DeletedStays`. A tick reads rows once and works for a long time on
what it read, so the invariant relates what it holds to the table. `Snapped`: a snapshot is
the row in the table, unless somebody else wrote it, and then its Schedule is in `behind`.
`Chained`: as long as the version is accepted, the batch in work begins at the cursor and
each step leads to the next, so a refused step cannot be followed by an accepted one that
leaves a gap. `Kept`: between the cursor of the last command and that of the timer all
occurrences have a fire, and none has one from the cursor on. `Current`: a draft that can
be confirmed sets the cursor behind every fire.

### Outbox

`Outbox_proofs`, from `OutboxAssumption`: for any number of workers, Turns, parts, updates
and failures, `NoSilentDuplicates` (`NoSilentDuplicate`) and `PostsStayInOrder`
(`PostsInOrder`). Rows only grow in a sense that every transaction keeps (`Grown`): what is
settled stays so, and nothing becomes pending again. From this follows `Begun`, that
only a row that was claimed has messages, requests on their way or a delivery, and that what
comes before it in its destination is settled; it holds from the claim on (`InOrder`; no
earlier row can wait for a later one). `Careful` is why posting is harmless: whoever is about
to post has scanned, or is the first to claim the row and then nothing of it is in Discord
unless Discord still knows the nonce; and Discord forgets a nonce only when no delivery of the
row and no request of it is left. This assumption about the time Discord remembers
(`TimePasses`) is needed: without it a delivery whose lease ran out could post again.

A second invariant, `Complete`, proves `SentStaysWhole` (`SentIsWhole`): a delivery that goes
on to the next part, or to its acknowledgement, has posted or found each part before, and so
has one that takes it over, because it begins with the first part again (`Whole`); nobody
removes a part of a result, because what a view names, and what is removed, was posted for a
row of that view (`Attached`). `Listed` says that no two rows are for the same (their label:
Turn, what it shows, revision) and that which labels exist follows from the tables of the
Turns; the labels fit into `Row` by an injection. So `RowsAreBounded` shows that the bound
`Row` of the model leaves no row out, and `NoSilentDuplicate`, which speaks of `Row`, speaks
of every row that the dedupe keys allow. `TypeCorrect` needs it too: who delivers a row
beyond `Row` would post a marker that is none.

Each of these inductive invariants was checked by TLC in the instance of its run before it
was proved.

Only model-checked: liveness, since the fairness formulas are out of the prover's reach, as
is `ENABLED`: `QueuedTurnLeaves`, `ActiveTurnEnds`, `EnsureAnswers`, `LostRuntimeIsFound`,
`ShutdownEnds`, `RowsSettle`, `DueSettles`, `CommandsAreAnswered`, `CompactionReleases`,
`MessagesAreAnswered`, `NothingStays` and `QueriesEnd`. Every invariant and every action
property of a run is a theorem; the runs that check those with a condition (leases, drivers,
barriers and live work) keep to it.

## 5. Plan

1. Proofs: what the recovery of a thread leaves true of the leases of other Conversations;
   live work under an eviction, for the Turns that were claimed before its query.
2. The cap of the volatile store (its input could be that of a queued Turn), the merge of
   the pump's deltas, and the wake-ups of the mailbox.
3. Abstract specifications for `Outbox` (each row settles once, in order) and `Schedules`
   (each occurrence has one fate), refined by the modules.
4. Compaction of events, outbox and projections, beside `Artifacts`.

## Not modelled

* The cap of the volatile store, the pump's merge, the mailbox wake-ups and
  the compaction of the tables: planned above.
* The catalog and account queries of the supervisor, project bindings, modal intents, usage
  and the daemon lease: they change no state the properties are about.
* The calendar arithmetic of cron expressions (`domain/schedules.py`, a pure function):
  `Schedules` numbers the occurrences it finds.
* Rendering, redaction, security helpers, configuration, CLI, service management and the
  JSON-RPC client: their correctness is about text, files and the operating system and not
  about the order of steps.
