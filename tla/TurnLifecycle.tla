---------------------------- MODULE TurnLifecycle ----------------------------
(***************************************************************************)
(* The life of a Turn: the rows of SQLite a Turn, its Conversation and its *)
(* RuntimeLease are, and the tasks of the daemon that write them.          *)
(*                                                                         *)
(*   worker    one mailbox task per Conversation, inside                   *)
(*             TurnCoordinator._process_turn                               *)
(*   pump      one EventPump task per running Turn                         *)
(*   canceller a Discord interaction inside TurnCoordinator.cancel         *)
(*   monitor   a provider barrier monitor of SessionLifecycle              *)
(*   slot      the RuntimeSlot of the project, with its lock               *)
(*   phase     start-up, shutdown and crash of the daemon                  *)
(*                                                                         *)
(* A step is one SQLite transaction or one provider call; everything       *)
(* between two awaits of a task is one step.                               *)
(***************************************************************************)
EXTENDS Integers

CONSTANTS
    Conv,      \* conversations of one project
    NoConv,    \* conversation of a row not inserted yet
    MaxTurn,   \* turns are numbered in the order of enqueue_sequence
    MaxGen,    \* runtime generations the instance may start
    MaxRev,    \* thread revisions a conversation may activate
    Canceller, \* cancel interactions, each used once
    MaxBoot,   \* starts of the daemon
    Fresh,     \* conversations with no provider thread at the start
    Env        \* the optional events of the environment this instance has

ASSUME ConstantsAssumption ==
    /\ NoConv \notin Conv
    /\ MaxTurn \in Nat /\ MaxGen \in Nat /\ MaxRev \in Nat \ {0}
    /\ MaxBoot \in Nat
    /\ Fresh \subseteq Conv

(***************************************************************************)
(* Members of Env:                                                         *)
(*   "backfill", "schedule"   sources of Turns besides live messages       *)
(*   "clear", "compact"       session commands                             *)
(*   "bootFail", "dies", "unhealthy"  a runtime does not start, exits, or  *)
(*                            is reported by a health check that is wrong  *)
(*   "external", "reload", "systemError", "identity"  what thread/read and *)
(*                            thread/resume may say besides idle           *)
(*   "refuse", "unknownEffect", "unreadable", "stream"  provider calls and *)
(*                            streams fail                                 *)
(*   "dbFault"                a transaction of a worker, of a pump or of a *)
(*                            cancel interaction fails, except the fence   *)
(*                            that answers a failure                       *)
(*   "operator", "timeout", "crash"  shutdown, its deadline, sudden death  *)
(*   "unreplayable"           a queued fire of a Schedule has lost its input *)
(* The last generation an instance has, MaxGen, does not exit, keeps its   *)
(* streams and is not reported by mistake.                                 *)
(***************************************************************************)

Turn == 1..MaxTurn
Gen == 1..MaxGen
NoGen == 0
NoRev == 0

Source == {"discord", "backfill", "schedule"}
ActiveState == {"starting", "running", "cancelling"}
Terminal == {"completed", "failed", "cancelled", "interrupted"}
TurnState == {"absent", "queued"} \cup ActiveState \cup Terminal

VARIABLES
    turn,      \* table turns, by enqueue_sequence
    conv,      \* table conversations
    lease,     \* table runtime_leases, by generation
    slot,      \* RuntimeSlot: the loaded generation, and who holds its lock
    alive,     \* generations whose app-server process runs
    provider,  \* the provider's side of a Turn
    worker,    \* local state of the mailbox task of a conversation
    active,    \* TurnCoordinator._active
    volatile,  \* turns whose input VolatileTurnStore holds
    pump,      \* the EventPump of a Turn, or its result; "lost" if an error
               \* of the database ended its worker, and the pump with it
    canceller, \* local state of a cancel interaction
    monitor,   \* conversations a barrier monitor observes
    phase,     \* of the daemon
    boots,     \* starts so far
    critical   \* critical_failure was called

rows == <<turn, conv, lease>>
runtime == <<slot, alive, provider>>
tasks == <<worker, active, volatile, pump, canceller, monitor>>
daemon == <<phase, boots, critical>>
vars == <<rows, runtime, tasks, daemon>>

Pc == {"idle", "ensure", "boot", "thread", "startThread", "activateNew",
       "attach", "unbarNew", "read", "bar", "activate", "unbar", "recover",
       "retire", "retireClose", "resume", "claim", "load", "start", "started",
       "mark", "abandon", "register", "recheck", "claimInterrupt", "interrupt",
       "await", "report", "abandonReport", "close", "abandonClose"}
Barrier == {"none", "unknown_effect", "external_active", "compact"}
Origin == {"none", "user", "shutdown", "runtime"}
ProviderEnd == {"completed", "failed", "interrupted", "aborted"}

Row == [state : TurnState, conv : Conv \cup {NoConv}, source : Source,
        rev : 0..MaxRev, gen : 0..MaxGen, ident : BOOLEAN,
        reason : {"none", "requested", "sending", "sent", "unsent"},
        origin : Origin]
Absent == [state |-> "absent", conv |-> NoConv, source |-> "discord",
           rev |-> NoRev, gen |-> NoGen, ident |-> FALSE,
           reason |-> "none", origin |-> "none"]
ConvRow == [state : {"uninitialized", "active", "blocked"}, rev : 0..MaxRev,
            made : 0..MaxRev, barrier : Barrier]
LeaseState == {"absent", "starting", "ready", "unhealthy", "stopping", "stopped",
               "failed"}
Slot == [gen : 0..MaxGen, lock : {"free", "worker", "watchdog"}]
Worker == [pc : Pc, turn : 0..MaxTurn, gen : 0..MaxGen, rev : 0..MaxRev,
           barrier : Barrier, tries : 0..2]
Idle == [pc |-> "idle", turn |-> 0, gen |-> NoGen, rev |-> NoRev,
         barrier |-> "none", tries |-> 0]
CancelTask == [pc : {"ready", "lookup", "claimInterrupt", "interrupt", "done",
                     "failed"},
               turn : 0..MaxTurn]

\* Every row, task and process has a value of its type.
TypeOK ==
    /\ turn \in [Turn -> Row]
    /\ conv \in [Conv -> ConvRow]
    /\ lease \in [Gen -> LeaseState]
    /\ slot \in Slot
    /\ alive \subseteq Gen
    /\ provider \in [Turn -> {"none", "live", "stopping"} \cup ProviderEnd]
    /\ worker \in [Conv -> Worker]
    /\ active \subseteq Turn
    /\ volatile \subseteq Turn
    /\ pump \in [Turn -> {"off", "on", "terminal", "failed", "stale", "journal",
                          "lost"}]
    /\ canceller \in [Canceller -> CancelTask]
    /\ monitor \subseteq Conv
    /\ phase \in {"up", "closing", "forced", "stopping", "down", "restoring"}
    /\ boots \in 0..MaxBoot
    /\ critical \in BOOLEAN

Init ==
    /\ turn = [t \in Turn |-> Absent]
    /\ conv = [c \in Conv |->
                 IF c \in Fresh
                 THEN [state |-> "uninitialized", rev |-> NoRev, made |-> 0,
                       barrier |-> "none"]
                 ELSE [state |-> "active", rev |-> 1, made |-> 1,
                       barrier |-> "none"]]
    /\ lease = [g \in Gen |-> "absent"]
    /\ slot = [gen |-> NoGen, lock |-> "free"]
    /\ alive = {}
    /\ provider = [t \in Turn |-> "none"]
    /\ worker = [c \in Conv |-> Idle]
    /\ active = {}
    /\ volatile = {}
    /\ pump = [t \in Turn |-> "off"]
    /\ canceller = [u \in Canceller |-> [pc |-> "ready", turn |-> 0]]
    /\ monitor = {}
    /\ phase = "up"
    /\ boots = 0
    /\ critical = FALSE

-----------------------------------------------------------------------------
(* Transactions on the turns table. *)

Closing == phase # "up"
Active(t) == turn[t].state \in ActiveState
Ended(t) == turn[t].state \in Terminal
QueuedIn(c) == {t \in Turn : turn[t].state = "queued" /\ turn[t].conv = c}
Live(c) == \E t \in Turn : turn[t].conv = c /\ (Active(t) \/ turn[t].state = "queued")

\* Mutant of IsNextQueued: the order is the wrong way round.
IsNextQueuedLast(t, c) == t \in QueuedIn(c) /\ \A u \in QueuedIn(c) : t >= u

\* next_queued_turn: the first queued row of the conversation.
IsNextQueued(t, c) == t \in QueuedIn(c) /\ \A u \in QueuedIn(c) : t <= u

\* terminal_turn: a row that has already ended keeps its state.
TerminalTurn(t, s) ==
    IF Ended(t) THEN turn ELSE [turn EXCEPT ![t].state = s]

\* request_cancel: a queued row is cancelled at once; an active one becomes
\* cancelling, its interrupt is requested unless it was before, and the origin
\* of the last request wins.
RequestCancel(t, origin) ==
    IF Ended(t) THEN turn
    ELSE IF turn[t].state = "queued"
    THEN [turn EXCEPT ![t].state = "cancelled", ![t].origin = origin]
    ELSE [turn EXCEPT ![t].state = "cancelling", ![t].origin = origin,
                      ![t].reason = IF @ = "none" THEN "requested" ELSE @]

\* The bulk updates of mark_runtime_unhealthy, recover_startup,
\* interrupt_for_shutdown and interrupt_unreplayable_schedule_turn.
InterruptAll(T, origin) ==
    [t \in Turn |-> IF t \in T
                    THEN [turn[t] EXCEPT !.state = "interrupted",
                                         !.origin = origin]
                    ELSE turn[t]]

ActiveOn(g) == {t \in Turn : Active(t) /\ turn[t].gen = g}

\* set_provider_barrier keeps a barrier that is there.
SetBarrier(c, kind) ==
    [conv EXCEPT ![c].barrier = IF @ = "none" THEN kind ELSE @]
Fence(c) == [conv EXCEPT ![c].state = "blocked"]


T(c) == worker[c].turn
G(c) == worker[c].gen
At(c, pc) == worker[c].pc = pc
Goto(c, pc) == worker' = [worker EXCEPT ![c].pc = pc]
Release(c) == worker' = [worker EXCEPT ![c] = Idle]

\* The worker is done with the turn.
Finish(c) == Release(c) /\ active' = active \ {T(c)}

\* No except clause of _process_turn catches an error of the database: the
\* finally takes the handle and cancels the pump, and the mailbox only notes an
\* incident and polls again.
Lose(c) == Finish(c) /\ pump' = [pump EXCEPT ![T(c)] = "lost"]

\* The app-server of its generation runs a turn; a thread runs one of its turns.
ProviderRuns(t) == provider[t] \in {"live", "stopping"} /\ turn[t].gen \in alive
ThreadBusy(c, r) ==
    \E t \in Turn : turn[t].conv = c /\ turn[t].rev = r /\ ProviderRuns(t)

\* A provider call of the worker reaches a process that runs.
Reachable(c) == G(c) \in alive

-----------------------------------------------------------------------------
(* Turns arrive; the mailbox hands the first queued one to its worker. *)

Enqueue(c, source) ==
    /\ phase = "up"
    /\ source = "discord" \/ source \in Env
    /\ conv[c].state \in {"uninitialized", "active"}
    /\ source = "schedule" => conv[c].rev # NoRev
    /\ \E t \in Turn :
          /\ turn[t].state = "absent"
          /\ \A u \in Turn : u < t => turn[u].state # "absent"
          /\ turn' = [turn EXCEPT ![t] =
                        [Absent EXCEPT !.state = "queued", !.conv = c,
                                       !.source = source, !.rev = conv[c].rev]]
          /\ volatile' = volatile \cup {t}
    /\ UNCHANGED <<conv, lease, runtime, worker, active, pump, canceller,
                   monitor, daemon>>

\* A conversation behind a provider barrier is left for the next poll.
Pick(c) ==
    /\ phase = "up" /\ At(c, "idle")
    /\ conv[c].state \in {"uninitialized", "active"}
    /\ conv[c].barrier \notin {"compact", "unknown_effect"}
    /\ \E t \in Turn :
          /\ IsNextQueued(t, c)
          /\ worker' = [worker EXCEPT ![c] =
                          [Idle EXCEPT !.pc = "ensure", !.turn = t,
                                       !.barrier = conv[c].barrier]]
    /\ UNCHANGED <<rows, runtime, active, volatile, pump, canceller, monitor,
                   daemon>>

\* A queued turn of a fenced conversation ends before it has a runtime.
RefuseBlocked(c) ==
    /\ phase = "up" /\ At(c, "idle")
    /\ conv[c].state = "blocked"
    /\ \E t \in Turn : IsNextQueued(t, c) /\ turn' = TerminalTurn(t, "interrupted")
    /\ UNCHANGED <<conv, lease, runtime, tasks, daemon>>

-----------------------------------------------------------------------------
(* RuntimeSupervisor.ensure: the loaded generation, or the next one. *)

AfterEnsure(c) == IF worker[c].tries = 0 THEN "thread" ELSE "resume"

EnsureLoaded(c) ==
    /\ At(c, "ensure")
    /\ slot.lock = "free" /\ slot.gen # NoGen
    /\ worker' = [worker EXCEPT ![c].pc = AfterEnsure(c), ![c].gen = slot.gen]
    /\ UNCHANGED <<rows, runtime, active, volatile, pump, canceller, monitor,
                   daemon>>

EnsureStart(c) ==
    /\ At(c, "ensure") /\ phase \in {"up", "closing"}
    /\ slot = [gen |-> NoGen, lock |-> "free"]
    /\ \E g \in Gen :
          /\ lease[g] = "absent"
          /\ \A h \in Gen : h < g => lease[h] # "absent"
          /\ lease' = [lease EXCEPT ![g] = "starting"]
          /\ worker' = [worker EXCEPT ![c].pc = "boot", ![c].gen = g]
    /\ slot' = [slot EXCEPT !.lock = "worker"]
    /\ UNCHANGED <<turn, conv, alive, provider, active, volatile, pump,
                   canceller, monitor, daemon>>

Booted(c) ==
    /\ At(c, "boot")
    /\ lease' = [lease EXCEPT ![G(c)] = "ready"]
    /\ alive' = alive \cup {G(c)}
    /\ slot' = [gen |-> G(c), lock |-> "free"]
    /\ Goto(c, AfterEnsure(c))
    /\ UNCHANGED <<turn, conv, provider, active, volatile, pump, canceller,
                   monitor, daemon>>

\* A retryable failure leaves the turn queued for the next poll; a fatal one,
\* or any during the recovery of a thread, ends it.
GiveUpEnsure(c) ==
    /\ Release(c)
    /\ \/ worker[c].tries = 0 /\ turn' = turn
       \/ turn' = TerminalTurn(T(c), "interrupted")

BootFails(c) ==
    /\ At(c, "boot") /\ "bootFail" \in Env
    /\ lease' = [lease EXCEPT ![G(c)] = "failed"]
    /\ slot' = [slot EXCEPT !.lock = "free"]
    /\ GiveUpEnsure(c)
    /\ UNCHANGED <<conv, alive, provider, active, volatile, pump, canceller,
                   monitor, daemon>>

\* Backoff of an earlier failure, or the supervisor is closing; the coordinator
\* looks for its own closing when it takes the turn, not during a recovery.
EnsureRefused(c) ==
    /\ At(c, "ensure")
    /\ \/ Closing /\ (worker[c].tries = 0 \/ phase # "closing")
       \/ "bootFail" \in Env
    /\ Closing /\ worker[c].tries = 0 => turn' = turn
    /\ GiveUpEnsure(c)
    /\ UNCHANGED <<conv, lease, runtime, active, volatile, pump, canceller,
                   monitor, daemon>>

-----------------------------------------------------------------------------
(* The provider thread: started with the first turn, read before the others. *)

WorkerOnly == <<runtime, active, volatile, pump, canceller, monitor, daemon>>

\* get_active_revision; a conversation without one is fenced off with an
\* unknown_effect barrier before its thread is started.
Thread(c) ==
    /\ At(c, "thread")
    /\ IF conv[c].rev = NoRev
       THEN /\ conv' = SetBarrier(c, "unknown_effect")
            /\ Goto(c, "startThread")
       ELSE /\ conv' = conv
            /\ worker' = [worker EXCEPT ![c].pc = "read", ![c].rev = conv[c].rev]
    /\ UNCHANGED <<turn, lease, WorkerOnly>>

StartThread(c) ==
    /\ At(c, "startThread") /\ Reachable(c)
    /\ Goto(c, "activateNew")
    /\ UNCHANGED <<rows, WorkerOnly>>

\* The provider did nothing: the barrier goes, the turn ends, and what is
\* RuntimeUnavailable is reported.
StartThreadRejected(c) ==
    /\ At(c, "startThread") /\ {"refuse", "unreadable"} \cap Env # {}
    /\ conv' = [conv EXCEPT ![c].barrier = "none"]
    /\ turn' = TerminalTurn(T(c), "interrupted")
    /\ Release(c) \/ Goto(c, "report")
    /\ UNCHANGED <<lease, WorkerOnly>>

\* What the provider did is unknown: the conversation is blocked.
StartThreadUnknown(c) ==
    /\ At(c, "startThread")
    /\ ~Reachable(c) \/ "unknownEffect" \in Env
    /\ conv' = Fence(c)
    /\ turn' = TerminalTurn(T(c), "interrupted")
    /\ Release(c)
    /\ UNCHANGED <<lease, WorkerOnly>>

\* activate_thread_revision looks at neither the conversation's state nor its
\* barrier: the revision becomes the active one of an active conversation.
ActivateRevision(c, r) ==
    conv' = [conv EXCEPT ![c].state = "active", ![c].rev = r,
                         ![c].made = IF r > @ THEN r ELSE @]

ActivateNew(c) ==
    /\ At(c, "activateNew")
    /\ conv[c].made < MaxRev
    /\ ActivateRevision(c, conv[c].made + 1)
    /\ worker' = [worker EXCEPT ![c].pc = "attach", ![c].rev = conv[c].made + 1]
    /\ UNCHANGED <<turn, lease, WorkerOnly>>

Attachable(c) ==
    /\ turn[T(c)].state = "queued" /\ turn[T(c)].rev = NoRev
    /\ conv[c].state = "active" /\ conv[c].rev = worker[c].rev

Attach(c) ==
    /\ At(c, "attach") /\ Attachable(c)
    /\ turn' = [turn EXCEPT ![T(c)].rev = worker[c].rev]
    /\ Goto(c, "unbarNew")
    /\ UNCHANGED <<conv, lease, WorkerOnly>>

\* The turn was cancelled meanwhile, or had a revision: the thread was started
\* and could not be committed, so the conversation is blocked.
AttachFails(c) ==
    /\ At(c, "attach") /\ ~Attachable(c)
    /\ conv' = Fence(c)
    /\ turn' = TerminalTurn(T(c), "interrupted")
    /\ Release(c)
    /\ UNCHANGED <<lease, WorkerOnly>>

\* A transaction after the thread was started fails: the conversation is blocked.
EffectFails(c) ==
    /\ "dbFault" \in Env
    /\ At(c, "activateNew") \/ At(c, "attach") \/ At(c, "unbarNew")
    /\ conv' = Fence(c)
    /\ Release(c)
    /\ UNCHANGED <<turn, lease, WorkerOnly>>

\* A transaction before or of the claim fails: the turn stays queued.
QueuedFails(c) ==
    /\ "dbFault" \in Env
    /\ worker[c].pc \in {"thread", "read", "resume", "bar", "activate", "unbar",
                         "recover", "claim"}
    /\ Release(c)
    /\ UNCHANGED <<rows, WorkerOnly>>

\* clear_provider_barrier clears whatever barrier there is.
Unbar(c) ==
    /\ At(c, "unbar") \/ At(c, "unbarNew")
    /\ conv' = [conv EXCEPT ![c].barrier = "none"]
    /\ Goto(c, "claim")
    /\ UNCHANGED <<turn, lease, WorkerOnly>>

\* The barrier the worker saw when it took the turn decides what it clears.
AfterIdle(c) == IF worker[c].barrier = "external_active" THEN "unbar" ELSE "claim"

ReadIdle(c) ==
    /\ At(c, "read") /\ Reachable(c) /\ ~ThreadBusy(c, worker[c].rev)
    /\ Goto(c, AfterIdle(c))
    /\ UNCHANGED <<rows, WorkerOnly>>

\* The runtime did not know the thread: resumed, activated, and read again.
ReadReloaded(c) ==
    /\ At(c, "read") /\ Reachable(c) /\ "reload" \in Env
    /\ Goto(c, "activate")
    /\ UNCHANGED <<rows, WorkerOnly>>

\* Mutant of ReadActive: an active thread is taken for an idle one.
ReadActiveIgnored(c) ==
    /\ At(c, "read") \/ At(c, "resume")
    /\ Reachable(c)
    /\ ThreadBusy(c, worker[c].rev) \/ "external" \in Env
    /\ Goto(c, "claim")
    /\ UNCHANGED <<rows, WorkerOnly>>

ReadActive(c) ==
    /\ At(c, "read") \/ At(c, "resume")
    /\ Reachable(c)
    /\ ThreadBusy(c, worker[c].rev) \/ "external" \in Env
    /\ Goto(c, "bar")
    /\ UNCHANGED <<rows, WorkerOnly>>

ReadSystemError(c) ==
    /\ At(c, "read") /\ Reachable(c) /\ "systemError" \in Env
    /\ Goto(c, "recover")
    /\ UNCHANGED <<rows, WorkerOnly>>

\* Another thread answered, or in a state codexD does not know.
ReadMismatch(c) ==
    /\ At(c, "read") \/ At(c, "resume")
    /\ Reachable(c) /\ "identity" \in Env
    /\ conv' = Fence(c)
    /\ turn' = TerminalTurn(T(c), "interrupted")
    /\ Release(c)
    /\ UNCHANGED <<lease, WorkerOnly>>

\* RuntimeUnavailable ends the turn and reports the generation; any other
\* adapter error only ends the turn. A recovery reports the generation it had
\* retired, which the supervisor ignores.
ReadFails(c) ==
    /\ At(c, "read") \/ At(c, "resume")
    /\ ~Reachable(c) \/ "refuse" \in Env
    /\ turn' = TerminalTurn(T(c), "interrupted")
    /\ IF Reachable(c) \/ At(c, "resume") THEN Release(c) ELSE Goto(c, "report")
    /\ UNCHANGED <<conv, lease, WorkerOnly>>

\* A recovery that gives up ends the fire of a Schedule and leaves any other
\* turn queued.
GiveUpRecovery(c) ==
    /\ turn' = IF worker[c].tries > 0 /\ turn[T(c)].source = "schedule"
               THEN TerminalTurn(T(c), "interrupted") ELSE turn
    /\ Release(c)

\* Mutant of Bar: nobody observes the thread.
BarUnwatched(c) ==
    /\ At(c, "bar")
    /\ conv' = SetBarrier(c, "external_active")
    /\ GiveUpRecovery(c)
    /\ UNCHANGED <<lease, WorkerOnly>>

\* set_provider_barrier and its observer; the turn stays queued.
Bar(c) ==
    /\ At(c, "bar")
    /\ conv' = SetBarrier(c, "external_active")
    /\ monitor' = monitor \cup {c}
    /\ GiveUpRecovery(c)
    /\ UNCHANGED <<lease, runtime, active, volatile, pump, canceller, daemon>>

Activate(c) ==
    /\ At(c, "activate")
    /\ ActivateRevision(c, worker[c].rev)
    /\ Goto(c, IF worker[c].tries = 0 THEN "read" ELSE AfterIdle(c))
    /\ UNCHANGED <<turn, lease, WorkerOnly>>

-----------------------------------------------------------------------------
(* _recover_system_error_thread: retire the runtime, resume on the next one. *)

Recover(c) ==
    /\ At(c, "recover")
    /\ IF conv[c].state = "blocked"
       THEN turn' = TerminalTurn(T(c), "interrupted") /\ Release(c)
       ELSE turn' = turn /\ Goto(c, "retire")
    /\ UNCHANGED <<conv, lease, WorkerOnly>>

\* mark_runtime_stopping; the turns of the generation keep their rows.
Retire(c) ==
    /\ At(c, "retire") /\ slot.lock = "free" /\ slot.gen = G(c)
    /\ lease' = [lease EXCEPT ![G(c)] = "stopping"]
    /\ slot' = [slot EXCEPT !.lock = "worker"]
    /\ Goto(c, "retireClose")
    /\ UNCHANGED <<turn, conv, alive, provider, active, volatile, pump,
                   canceller, monitor, daemon>>

\* Another generation is loaded: only the first retirement may be skipped.
RetireStale(c) ==
    /\ At(c, "retire") /\ slot.lock = "free" /\ slot.gen # G(c)
    /\ IF worker[c].tries = 0
       THEN /\ worker' = [worker EXCEPT ![c].pc = "ensure", ![c].tries = 1]
            /\ turn' = turn
       ELSE GiveUpRecovery(c)
    /\ UNCHANGED <<conv, lease, WorkerOnly>>

RetireClose(c) ==
    /\ At(c, "retireClose")
    /\ lease' = [lease EXCEPT ![G(c)] = "stopped"]
    /\ alive' = alive \ {G(c)}
    /\ slot' = [gen |-> NoGen, lock |-> "free"]
    /\ IF worker[c].tries < 2
       THEN /\ worker' = [worker EXCEPT ![c].pc = "ensure", ![c].tries = @ + 1]
            /\ turn' = turn
       ELSE GiveUpRecovery(c)
    /\ UNCHANGED <<conv, provider, active, volatile, pump, canceller, monitor,
                   daemon>>

ResumeIdle(c) ==
    /\ At(c, "resume") /\ Reachable(c) /\ ~ThreadBusy(c, worker[c].rev)
    /\ Goto(c, "activate")
    /\ UNCHANGED <<rows, WorkerOnly>>

ResumeSystemError(c) ==
    /\ At(c, "resume") /\ Reachable(c)
    /\ Goto(c, "retire")
    /\ UNCHANGED <<rows, WorkerOnly>>

-----------------------------------------------------------------------------
(* claim_turn, and the provider's turn/start. *)

\* Mutants of CanClaim: a check made before the last await is not repeated.
CanClaimCancelled(c) ==
    /\ turn[T(c)].rev # NoRev
    /\ conv[c].state = "active" /\ conv[c].rev = turn[T(c)].rev
    /\ lease[G(c)] = "ready"
    /\ \A u \in Turn : turn[u].conv = c => ~Active(u)

CanClaimStaleLease(c) ==
    /\ turn[T(c)].state = "queued" /\ turn[T(c)].rev # NoRev
    /\ conv[c].state = "active" /\ conv[c].rev = turn[T(c)].rev
    /\ \A u \in Turn : turn[u].conv = c => ~Active(u)

\* claim_turn, with the index one_active_turn_per_conversation.
CanClaim(c) ==
    /\ turn[T(c)].state = "queued"
    /\ turn[T(c)].rev # NoRev
    /\ conv[c].state = "active" /\ conv[c].rev = turn[T(c)].rev
    /\ lease[G(c)] = "ready"
    /\ \A h \in Gen : h > G(c) => lease[h] \notin {"starting", "ready", "unhealthy"}
    /\ \A u \in Turn : turn[u].conv = c => ~Active(u)

\* The coordinator looks for its closing before it submits the transaction.
Claim(c) ==
    /\ At(c, "claim") /\ CanClaim(c)
    /\ turn' = [turn EXCEPT ![T(c)].state = "starting", ![T(c)].gen = G(c)]
    /\ Goto(c, "load")
    /\ UNCHANGED <<conv, lease, WorkerOnly>>

\* A claim that raises is an incident of the mailbox, which polls again.
ClaimFails(c) ==
    /\ At(c, "claim")
    /\ Closing \/ ~CanClaim(c)
    /\ Release(c)
    /\ UNCHANGED <<rows, WorkerOnly>>

\* The prompt of a Discord turn is in memory only.
HasInput(c) == turn[T(c)].source = "schedule" \/ T(c) \in volatile

Load(c) ==
    /\ At(c, "load") /\ HasInput(c) /\ Reachable(c) /\ ~Closing
    /\ Goto(c, "start")
    /\ UNCHANGED <<rows, WorkerOnly>>

LoadFails(c) ==
    /\ At(c, "load")
    /\ ~HasInput(c) \/ "refuse" \in Env
    /\ turn' = TerminalTurn(T(c), "failed")
    /\ Release(c)
    /\ UNCHANGED <<conv, lease, WorkerOnly>>

LoadForShutdown(c) ==
    /\ At(c, "load") /\ HasInput(c) /\ Closing
    /\ turn' = IF Ended(T(c)) THEN turn ELSE InterruptAll({T(c)}, "shutdown")
    /\ Release(c)
    /\ UNCHANGED <<conv, lease, WorkerOnly>>

\* drop_input: the prompt is the provider's now.
StartAccepted(c, next) ==
    /\ provider' = [provider EXCEPT ![T(c)] = "live"]
    /\ volatile' = volatile \ {T(c)}
    /\ Goto(c, next)
    /\ UNCHANGED <<rows, slot, alive, active, pump, canceller, monitor, daemon>>

Start(c) == At(c, "start") /\ Reachable(c) /\ StartAccepted(c, "started")

\* The provider answers with the identity of another turn or generation.
StartMismatch(c) ==
    At(c, "start") /\ Reachable(c) /\ "identity" \in Env /\ StartAccepted(c, "abandon")

\* The provider was not asked or did not start the turn, or it did and its
\* answer could not be read.
NotStarted(c) ==
    \/ provider' = provider
    \/ /\ "unreadable" \in Env /\ At(c, "start") /\ Reachable(c)
       /\ provider' = [provider EXCEPT ![T(c)] = "live"]

\* Mutant of StartRefused: the row is forgotten.
StartRefusedSilently(c) ==
    /\ At(c, "start") /\ {"refuse", "unreadable"} \cap Env # {}
    /\ NotStarted(c)
    /\ Release(c)
    /\ UNCHANGED <<rows, slot, alive, active, volatile, pump, canceller,
                   monitor, daemon>>

\* An adapter error: taken for a refusal.
StartRefused(c) ==
    /\ At(c, "start") /\ {"refuse", "unreadable"} \cap Env # {}
    /\ NotStarted(c)
    /\ turn' = TerminalTurn(T(c), "failed")
    /\ Release(c)
    /\ UNCHANGED <<conv, lease, slot, alive, active, volatile, pump, canceller,
                   monitor, daemon>>

\* RuntimeUnavailable: the process is gone, or does not speak the protocol.
RuntimeUnavailable(c) ==
    /\ At(c, "load") \/ At(c, "start")
    /\ ~Reachable(c) \/ "unreadable" \in Env
    /\ NotStarted(c)
    /\ turn' = TerminalTurn(T(c), "interrupted")
    /\ Goto(c, "report")
    /\ UNCHANGED <<conv, lease, slot, alive, active, volatile, pump, canceller,
                   monitor, daemon>>

\* load_turn_input, the files, the catalog or the end of a turn that could not be
\* started: the row stays as it is.
InputFails(c) ==
    /\ "dbFault" \in Env
    /\ \/ At(c, "load")
       \/ At(c, "start") /\ (~Reachable(c) \/ {"refuse", "unreadable"} \cap Env # {})
    /\ NotStarted(c)
    /\ Lose(c)
    /\ UNCHANGED <<rows, slot, alive, volatile, canceller, monitor, daemon>>

Started(c) ==
    /\ At(c, "started")
    /\ turn' = IF Closing THEN RequestCancel(T(c), "shutdown") ELSE turn
    /\ Goto(c, "mark")
    /\ UNCHANGED <<conv, lease, WorkerOnly>>

\* request_cancel is outside of every try.
StartedFails(c) ==
    /\ "dbFault" \in Env /\ At(c, "started") /\ Closing
    /\ Lose(c)
    /\ UNCHANGED <<rows, runtime, volatile, canceller, monitor, daemon>>

\* mark_turn_running keeps a cancellation that came first; the EventPump of
\* the turn is a task from here on.
MarkRunning(c) ==
    /\ At(c, "mark") /\ turn[T(c)].state \in {"starting", "cancelling"}
    /\ turn' = [turn EXCEPT ![T(c)].ident = TRUE,
                            ![T(c)].state = IF @ = "starting" THEN "running" ELSE @]
    /\ pump' = [pump EXCEPT ![T(c)] = "on"]
    /\ Goto(c, "register")
    /\ UNCHANGED <<conv, lease, runtime, active, volatile, canceller, monitor,
                   daemon>>

MarkFails(c) ==
    /\ At(c, "mark")
    /\ turn[T(c)].state \notin {"starting", "cancelling"} \/ "dbFault" \in Env
    /\ Goto(c, "abandon")
    /\ UNCHANGED <<rows, WorkerOnly>>

\* An interrupt reaches a turn that still runs, or is lost.
Interrupted(t) ==
    \/ provider' = provider
    \/ /\ ProviderRuns(t)
       /\ provider' = [provider EXCEPT ![t] = "stopping"]

\* Mutant of Abandon: the generation is not reported.
AbandonUnreported(c) ==
    /\ At(c, "abandon")
    /\ Interrupted(T(c))
    /\ turn' = TerminalTurn(T(c), "interrupted")
    /\ Release(c)
    /\ UNCHANGED <<conv, lease, slot, alive, active, volatile, pump, canceller,
                   monitor, daemon>>

\* A provider turn no row can name: interrupted, its row ended (a failure is
\* noted), its generation reported.
Abandon(c) ==
    /\ At(c, "abandon")
    /\ Interrupted(T(c))
    /\ \/ turn' = TerminalTurn(T(c), "interrupted")
       \/ "dbFault" \in Env /\ turn' = turn
    /\ Goto(c, "abandonReport")
    /\ UNCHANGED <<conv, lease, slot, alive, active, volatile, pump, canceller,
                   monitor, daemon>>

Register(c) ==
    /\ At(c, "register")
    /\ active' = active \cup {T(c)}
    /\ Goto(c, "recheck")
    /\ UNCHANGED <<rows, runtime, volatile, pump, canceller, monitor, daemon>>

\* Mutant of Recheck: the row is not read again.
RecheckSkipped(c) ==
    At(c, "recheck") /\ Goto(c, "await") /\ UNCHANGED <<rows, WorkerOnly>>

\* Read again after the registration: a cancellation before it found no handle.
Recheck(c) ==
    /\ At(c, "recheck")
    /\ Goto(c, IF turn[T(c)].state = "cancelling" THEN "claimInterrupt" ELSE "await")
    /\ UNCHANGED <<rows, WorkerOnly>>

-----------------------------------------------------------------------------
(* _interrupt_if_requested, run by the worker and by cancel interactions. *)

ClaimableInterrupt(t) ==
    turn[t].state = "cancelling" /\ turn[t].ident /\ turn[t].reason = "requested"

ClaimInterrupt(t) == turn' = [turn EXCEPT ![t].reason = "sending"]

\* The call, and resolve_turn_interrupt.
SendInterrupt(t) ==
    \/ /\ ProviderRuns(t)
       /\ provider' = [provider EXCEPT ![t] = "stopping"]
       /\ turn' = [turn EXCEPT ![t].reason = "sent"]
    \/ /\ ~ProviderRuns(t) \/ "refuse" \in Env
       /\ provider' = provider
       /\ turn' = [turn EXCEPT ![t].reason = "unsent"]

WorkerClaimInterrupt(c) ==
    /\ At(c, "claimInterrupt")
    /\ IF ClaimableInterrupt(T(c))
       THEN ClaimInterrupt(T(c)) /\ Goto(c, "interrupt")
       ELSE turn' = turn /\ Goto(c, "await")
    /\ UNCHANGED <<conv, lease, WorkerOnly>>

WorkerSendInterrupt(c) ==
    /\ At(c, "interrupt")
    /\ SendInterrupt(T(c))
    /\ Goto(c, "await")
    /\ UNCHANGED <<conv, lease, slot, alive, active, volatile, pump, canceller,
                   monitor, daemon>>

\* get_turn, claim_turn_interrupt, resolve_turn_interrupt or the incident of an
\* interrupt that was not sent fails.
WatchFails(c) ==
    /\ "dbFault" \in Env
    /\ \/ /\ At(c, "recheck") \/ At(c, "claimInterrupt")
          /\ turn' = turn /\ provider' = provider
       \/ /\ At(c, "interrupt")
          /\ SendInterrupt(T(c)) \/ (turn' = turn /\ Interrupted(T(c)))
    /\ Lose(c)
    /\ UNCHANGED <<conv, lease, slot, alive, volatile, canceller, monitor, daemon>>

Step(u, pc) == canceller' = [canceller EXCEPT ![u].pc = pc]

CancelRequest(u) ==
    /\ phase = "up" /\ canceller[u].pc = "ready"
    /\ \E t \in Turn :
          /\ turn[t].state = "queued" \/ Active(t)
          /\ turn' = RequestCancel(t, "user")
          /\ canceller' = [canceller EXCEPT ![u] = [pc |-> "lookup", turn |-> t]]
    /\ UNCHANGED <<conv, lease, runtime, worker, active, volatile, pump,
                   monitor, daemon>>

CancelLookup(u) ==
    /\ canceller[u].pc = "lookup"
    /\ Step(u, IF canceller[u].turn \in active THEN "claimInterrupt" ELSE "done")
    /\ UNCHANGED <<rows, runtime, worker, active, volatile, pump, monitor, daemon>>

CancelClaimInterrupt(u) ==
    /\ canceller[u].pc = "claimInterrupt"
    /\ IF ClaimableInterrupt(canceller[u].turn)
       THEN ClaimInterrupt(canceller[u].turn) /\ Step(u, "interrupt")
       ELSE turn' = turn /\ Step(u, "done")
    /\ UNCHANGED <<conv, lease, runtime, worker, active, volatile, pump,
                   monitor, daemon>>

CancelSendInterrupt(u) ==
    /\ canceller[u].pc = "interrupt"
    /\ SendInterrupt(canceller[u].turn)
    /\ Step(u, "done")
    /\ UNCHANGED <<conv, lease, slot, alive, worker, active, volatile, pump,
                   monitor, daemon>>

\* The user is told of an error, and may ask again.
CancelFails(u) ==
    /\ "dbFault" \in Env
    /\ \/ canceller[u].pc = "claimInterrupt" /\ provider' = provider
       \/ canceller[u].pc = "interrupt" /\ Interrupted(canceller[u].turn)
    /\ Step(u, "failed")
    /\ UNCHANGED <<rows, slot, alive, worker, active, volatile, pump, monitor,
                   daemon>>

-----------------------------------------------------------------------------
(* The EventPump of a turn writes its outcome; the worker waits for it. *)

\* record accepts an event of a turn that has not ended, on a lease that is ready.
Recordable(t) == Active(t) /\ lease[turn[t].gen] = "ready"

\* Mutant of Outcome: a turn that was stopped counts as done.
OutcomeOptimistic(t) ==
    IF provider[t] = "failed" THEN "failed" ELSE "completed"

\* terminal_state_for_event: an interruption is a cancellation if a user asked.
Outcome(t) ==
    CASE provider[t] = "completed" -> "completed"
      [] provider[t] = "failed" -> "failed"
      [] provider[t] = "interrupted" ->
            IF turn[t].origin = "user" THEN "cancelled" ELSE "interrupted"
      [] OTHER -> "interrupted"

PumpStep(t, state, result) ==
    /\ turn' = IF Recordable(t) THEN [turn EXCEPT ![t].state = state] ELSE turn
    /\ pump' = [pump EXCEPT ![t] = IF Recordable(t) THEN result ELSE "stale"]
    /\ UNCHANGED <<conv, lease, runtime, worker, active, volatile, canceller,
                   monitor, daemon>>

PumpTerminal(t) ==
    /\ pump[t] = "on" /\ provider[t] \in ProviderEnd
    /\ PumpStep(t, Outcome(t), "terminal")

\* The stream breaks, or ends without a terminal event.
PumpFailure(t) ==
    /\ pump[t] = "on"
    /\ \/ turn[t].gen \notin alive
       \/ "stream" \in Env /\ turn[t].gen # MaxGen
    /\ PumpStep(t, "interrupted", "failed")

\* EventJournalError: the event could not be stored.
PumpJournal(t) ==
    /\ pump[t] = "on" /\ "dbFault" \in Env
    /\ pump' = [pump EXCEPT ![t] = "journal"]
    /\ UNCHANGED <<rows, runtime, worker, active, volatile, canceller, monitor,
                   daemon>>

ProviderEnds(t, end) ==
    /\ ProviderRuns(t)
    /\ end \in {"interrupted", "aborted"} =>
          provider[t] = "stopping" \/ "stream" \in Env
    /\ provider' = [provider EXCEPT ![t] = end]
    /\ UNCHANGED <<rows, slot, alive, tasks, daemon>>

AwaitDone(c) ==
    /\ At(c, "await") /\ pump[T(c)] \in {"terminal", "stale"}
    /\ Finish(c)
    /\ UNCHANGED <<rows, runtime, volatile, pump, canceller, monitor, daemon>>

AwaitFailed(c) ==
    /\ At(c, "await") /\ pump[T(c)] = "failed"
    /\ Goto(c, "report")
    /\ UNCHANGED <<rows, WorkerOnly>>

\* The provider is told to stop, the row is left to the shutdown this asks for.
AwaitJournal(c) ==
    /\ At(c, "await") /\ pump[T(c)] = "journal"
    /\ Interrupted(T(c))
    /\ critical' = TRUE
    /\ Finish(c)
    /\ UNCHANGED <<rows, slot, alive, volatile, pump, canceller, monitor, phase,
                   boots>>

-----------------------------------------------------------------------------
(* RuntimeSupervisor.report_failure and its watchdog. *)

\* Mutant of MarkUnhealthy: the turns of the generation keep their rows.
MarkUnhealthyOnly(g) ==
    lease' = [lease EXCEPT ![g] = "unhealthy"] /\ turn' = turn

\* mark_runtime_unhealthy: the lease and every active turn of its generation.
MarkUnhealthy(g) ==
    /\ lease' = [lease EXCEPT ![g] = "unhealthy"]
    /\ turn' = InterruptAll(ActiveOn(g), "runtime")

Report(c) ==
    /\ At(c, "report") \/ At(c, "abandonReport")
    /\ slot = [gen |-> G(c), lock |-> "free"]
    /\ MarkUnhealthy(G(c))
    /\ slot' = [slot EXCEPT !.lock = "worker"]
    /\ Goto(c, IF At(c, "report") THEN "close" ELSE "abandonClose")
    /\ UNCHANGED <<conv, alive, provider, active, volatile, pump, canceller,
                   monitor, daemon>>

\* mark_runtime_unhealthy fails: the generation stays loaded and ready.
ReportFails(c) ==
    /\ "dbFault" \in Env
    /\ At(c, "report") \/ At(c, "abandonReport")
    /\ slot = [gen |-> G(c), lock |-> "free"]
    /\ critical' = (critical \/ At(c, "abandonReport"))
    /\ Lose(c)
    /\ UNCHANGED <<rows, runtime, volatile, canceller, monitor, phase, boots>>

\* Another report came first, or the slot holds another generation.
ReportStale(c) ==
    /\ At(c, "report") \/ At(c, "abandonReport")
    /\ slot.lock = "free" /\ slot.gen # G(c)
    /\ critical' = (critical \/ At(c, "abandonReport"))
    /\ Finish(c)
    /\ UNCHANGED <<rows, runtime, volatile, pump, canceller, monitor, phase,
                   boots>>

\* Mutant of CloseProcess: the lock of the slot is not given back.
CloseProcessLocked ==
    /\ alive' = alive \ {slot.gen}
    /\ slot' = [slot EXCEPT !.gen = NoGen]
    /\ provider' = provider

CloseProcess ==
    /\ alive' = alive \ {slot.gen}
    /\ slot' = [gen |-> NoGen, lock |-> "free"]
    /\ provider' = provider

Close(c) ==
    /\ At(c, "close") \/ At(c, "abandonClose")
    /\ CloseProcess
    /\ critical' = (critical \/ At(c, "abandonClose"))
    /\ Finish(c)
    /\ UNCHANGED <<rows, volatile, pump, canceller, monitor, phase, boots>>

RuntimeDies(g) ==
    /\ "dies" \in Env /\ g \in alive /\ g # MaxGen
    /\ alive' = alive \ {g}
    /\ UNCHANGED <<rows, slot, provider, tasks, daemon>>

WatchdogReport ==
    /\ phase \in {"up", "closing"}
    /\ slot.lock = "free" /\ slot.gen # NoGen
    /\ slot.gen \notin alive \/ ("unhealthy" \in Env /\ slot.gen # MaxGen)
    /\ MarkUnhealthy(slot.gen)
    /\ slot' = [slot EXCEPT !.lock = "watchdog"]
    /\ UNCHANGED <<conv, alive, provider, tasks, daemon>>

WatchdogClose ==
    /\ slot.lock = "watchdog"
    /\ CloseProcess
    /\ UNCHANGED <<rows, tasks, daemon>>

-----------------------------------------------------------------------------
(* Session commands, which a queued or active turn excludes, and the monitor. *)

Clear(c) ==
    /\ "clear" \in Env /\ phase = "up"
    /\ ~Live(c) /\ conv[c].state = "active" /\ conv[c].barrier = "none"
    /\ conv' = [conv EXCEPT ![c].state = "uninitialized", ![c].rev = NoRev]
    /\ UNCHANGED <<turn, lease, runtime, tasks, daemon>>

Compact(c) ==
    /\ "compact" \in Env /\ phase = "up"
    /\ ~Live(c) /\ conv[c].state = "active" /\ conv[c].barrier = "none"
    /\ conv' = SetBarrier(c, "compact")
    /\ monitor' = monitor \cup {c}
    /\ UNCHANGED <<turn, lease, runtime, worker, active, volatile, pump,
                   canceller, daemon>>

MonitorStops(c) ==
    /\ monitor' = monitor \ {c}
    /\ UNCHANGED <<turn, lease, runtime, worker, active, volatile, pump,
                   canceller, daemon>>

\* The thread is idle: the barrier goes, and with it a safety fence.
MonitorIdle(c) ==
    /\ c \in monitor
    /\ \/ conv[c].barrier = "none" /\ conv' = conv
       \/ /\ conv[c].barrier \in {"external_active", "compact"}
          /\ conv[c].rev # NoRev /\ ~ThreadBusy(c, conv[c].rev)
          /\ conv' = [conv EXCEPT ![c].barrier = "none",
                        ![c].state = IF @ = "blocked" THEN "active" ELSE @]
    /\ MonitorStops(c)

MonitorBlocks(c) ==
    /\ c \in monitor
    /\ \/ conv[c].barrier = "unknown_effect"
       \/ conv[c].barrier # "none" /\ (conv[c].rev = NoRev \/ "identity" \in Env)
    /\ conv' = Fence(c)
    /\ MonitorStops(c)

-----------------------------------------------------------------------------
(* Shutdown, crash and start of the daemon. *)

CloseBegin ==
    /\ phase = "up" /\ (critical \/ "operator" \in Env)
    /\ phase' = "closing"
    /\ UNCHANGED <<rows, runtime, tasks, boots, critical>>

ShutdownInterrupt(t) ==
    /\ phase \in {"closing", "forced"} /\ t \in active /\ turn[t].origin # "shutdown"
    /\ turn' = RequestCancel(t, "shutdown")
    /\ Interrupted(t)
    /\ UNCHANGED <<conv, lease, slot, alive, tasks, daemon>>

\* RuntimeSupervisor.close: a start is cancelled, and what is loaded is closed.
CloseSlot ==
    /\ lease' = [g \in Gen |-> CASE lease[g] = "starting" -> "failed"
                                [] lease[g] \in {"ready", "stopping"} -> "stopped"
                                [] OTHER -> lease[g]]
    /\ slot' = [gen |-> NoGen, lock |-> "free"]
    /\ alive' = {}

\* Most of the time to drain is over and the turns are not: their runtimes are
\* closed under them.
ForceClose ==
    /\ phase = "closing" /\ "timeout" \in Env
    /\ slot.lock = "free" \/ \E c \in Conv : At(c, "boot")
    /\ CloseSlot
    /\ worker' = [c \in Conv |-> IF At(c, "boot") THEN Idle ELSE worker[c]]
    /\ phase' = "forced"
    /\ UNCHANGED <<turn, conv, provider, active, volatile, pump, canceller,
                   monitor, boots, critical>>

\* Every task is cancelled; a thread that was being started is of unknown
\* outcome, so its conversation is blocked.
StopTasks(fenced) ==
    /\ conv' = [c \in Conv |->
                  IF c \in fenced THEN [conv[c] EXCEPT !.state = "blocked"]
                  ELSE conv[c]]
    /\ worker' = [c \in Conv |-> Idle]
    /\ active' = {}
    /\ pump' = [t \in Turn |-> "off"]
    /\ canceller' = [u \in Canceller |->
                       [canceller[u] EXCEPT !.pc = IF @ = "ready" THEN @ ELSE "done"]]
    /\ monitor' = {}

Starting == {c \in Conv : worker[c].pc \in {"startThread", "activateNew",
                                            "attach", "unbarNew"}}

\* Drained, or out of time; then interrupt_for_shutdown.
CloseTurns ==
    /\ phase \in {"closing", "forced"}
    /\ "timeout" \in Env \/ \A c \in Conv : At(c, "idle")
    /\ turn' = InterruptAll({t \in Turn :
                               \/ Active(t)
                               \/ /\ turn[t].state = "queued"
                                  /\ turn[t].source # "schedule"}, "shutdown")
    /\ StopTasks(Starting)
    /\ phase' = "stopping"
    /\ UNCHANGED <<lease, runtime, volatile, boots, critical>>

CloseRuntimes ==
    /\ phase = "stopping"
    /\ CloseSlot
    /\ phase' = "down"
    /\ UNCHANGED <<turn, conv, provider, tasks, boots, critical>>

\* The app-servers do not outlive the daemon.
Crash ==
    /\ "crash" \in Env /\ phase # "down"
    /\ StopTasks({})
    /\ slot' = [gen |-> NoGen, lock |-> "free"]
    /\ alive' = {}
    /\ phase' = "down"
    /\ UNCHANGED <<turn, lease, provider, volatile, boots, critical>>

\* Mutant of Boot: active turns are queued again.
BootRetries ==
    /\ phase = "down" /\ boots < MaxBoot
    /\ boots' = boots + 1
    /\ lease' = [g \in Gen |-> IF lease[g] \in {"starting", "ready", "stopping"}
                               THEN "failed" ELSE lease[g]]
    /\ turn' = [t \in Turn |-> IF Active(t) THEN [turn[t] EXCEPT !.state = "queued"]
                              ELSE turn[t]]
    /\ volatile' = {}
    /\ critical' = FALSE
    /\ phase' = "restoring"
    /\ UNCHANGED <<conv, runtime, worker, active, pump, canceller, monitor>>

\* recover_startup
Boot ==
    /\ phase = "down" /\ boots < MaxBoot
    /\ boots' = boots + 1
    /\ lease' = [g \in Gen |-> IF lease[g] \in {"starting", "ready", "stopping"}
                               THEN "failed" ELSE lease[g]]
    /\ turn' = InterruptAll({t \in Turn :
                               \/ Active(t)
                               \/ /\ turn[t].state = "queued"
                                  /\ turn[t].source = "discord"}, "runtime")
    /\ volatile' = {}
    /\ critical' = FALSE
    /\ phase' = "restoring"
    /\ UNCHANGED <<conv, runtime, worker, active, pump, canceller, monitor>>

\* restore_provider_barriers, then TurnCoordinator.restore.
Restore ==
    /\ phase = "restoring"
    /\ monitor' = {c \in Conv : conv[c].barrier # "none"}
    /\ \/ turn' = turn
       \/ /\ "unreplayable" \in Env
          /\ \E t \in Turn : /\ turn[t].state = "queued"
                             /\ turn[t].source = "schedule"
                             /\ turn' = InterruptAll({t}, "runtime")
    /\ phase' = "up"
    /\ UNCHANGED <<conv, lease, runtime, worker, active, volatile, pump,
                   canceller, boots, critical>>

-----------------------------------------------------------------------------
WorkerStep(c) ==
    \/ Pick(c) \/ RefuseBlocked(c)
    \/ EnsureLoaded(c) \/ EnsureStart(c) \/ Booted(c) \/ BootFails(c)
    \/ EnsureRefused(c)
    \/ Thread(c) \/ StartThread(c) \/ StartThreadRejected(c)
    \/ StartThreadUnknown(c) \/ ActivateNew(c) \/ Attach(c) \/ AttachFails(c)
    \/ EffectFails(c) \/ QueuedFails(c)
    \/ Unbar(c) \/ ReadIdle(c) \/ ReadReloaded(c) \/ ReadActive(c)
    \/ ReadSystemError(c) \/ ReadMismatch(c) \/ ReadFails(c) \/ Bar(c)
    \/ Activate(c) \/ Recover(c) \/ Retire(c) \/ RetireStale(c)
    \/ RetireClose(c) \/ ResumeIdle(c) \/ ResumeSystemError(c)
    \/ Claim(c) \/ ClaimFails(c) \/ Load(c) \/ LoadFails(c)
    \/ LoadForShutdown(c) \/ Start(c) \/ StartMismatch(c) \/ StartRefused(c)
    \/ RuntimeUnavailable(c) \/ InputFails(c) \/ Started(c) \/ StartedFails(c)
    \/ MarkRunning(c) \/ MarkFails(c)
    \/ Abandon(c) \/ Register(c) \/ Recheck(c) \/ WorkerClaimInterrupt(c)
    \/ WorkerSendInterrupt(c) \/ WatchFails(c) \/ AwaitDone(c) \/ AwaitFailed(c)
    \/ AwaitJournal(c) \/ Report(c) \/ ReportFails(c) \/ ReportStale(c) \/ Close(c)

CancelStep(u) ==
    \/ CancelLookup(u) \/ CancelClaimInterrupt(u) \/ CancelSendInterrupt(u)
    \/ CancelFails(u)

PumpTask(t) == PumpTerminal(t) \/ PumpFailure(t) \/ PumpJournal(t)

MonitorStep(c) == MonitorIdle(c) \/ MonitorBlocks(c)

Next ==
    \/ \E c \in Conv : WorkerStep(c) \/ MonitorStep(c) \/ Clear(c) \/ Compact(c)
    \/ \E c \in Conv, s \in Source : Enqueue(c, s)
    \/ \E u \in Canceller : CancelRequest(u) \/ CancelStep(u)
    \/ \E t \in Turn : PumpTask(t) \/ ShutdownInterrupt(t)
    \/ \E t \in Turn, end \in ProviderEnd : ProviderEnds(t, end)
    \/ \E g \in Gen : RuntimeDies(g)
    \/ WatchdogReport \/ WatchdogClose
    \/ CloseBegin \/ ForceClose \/ CloseTurns \/ CloseRuntimes \/ Crash \/ Boot \/ Restore

Spec == Init /\ [][Next]_vars

-----------------------------------------------------------------------------
(***************************************************************************)
(* Fairness.  The event loop runs every task that can go on, SQLite and the *)
(* app-server answer, and a provider turn that was left alone or told to    *)
(* stop ends; no message has to arrive and nobody has to cancel.            *)
(***************************************************************************)
Fairness ==
    /\ \A c \in Conv : WF_vars(WorkerStep(c)) /\ WF_vars(MonitorStep(c))
    /\ \A u \in Canceller : WF_vars(CancelStep(u))
    /\ \A t \in Turn : /\ WF_vars(PumpTerminal(t) \/ PumpFailure(t))
                       /\ WF_vars(\E end \in ProviderEnd : ProviderEnds(t, end))
    /\ WF_vars(WatchdogReport) /\ WF_vars(WatchdogClose)
    /\ WF_vars(CloseTurns) /\ WF_vars(CloseRuntimes)
    /\ WF_vars(Boot) /\ WF_vars(Restore)

FairSpec == Spec /\ Fairness

-----------------------------------------------------------------------------
(* Correctness. *)

Order == INSTANCE TurnOrder WITH
            state <- [t \in Turn |-> turn[t].state],
            of <- [t \in Turn |-> turn[t].conv]

\* The rows of the turns move as the state machine of the design allows: each
\* is started at most once, in FIFO order and alone in its conversation, and
\* ends once, whichever of the worker, the pump, a cancel interaction, the
\* supervisor, shutdown and restart writes last.
ImplementsTurnOrder == Order!Spec

\* A provider thread never runs two turns, not even when the row of the first
\* has ended already: read-idle, abandon and report_failure see to it.
OneProviderTurn ==
    \A t, u \in Turn :
       /\ ProviderRuns(t) /\ ProviderRuns(u)
       /\ turn[t].conv = turn[u].conv /\ turn[t].rev = turn[u].rev
       => t = u

Driving == {"load", "start", "started", "mark", "abandon", "register", "recheck",
            "claimInterrupt", "interrupt", "await", "abandonReport"}
DrivenBy(c, t) == T(c) = t /\ worker[c].pc \in Driving

\* While the daemon is up an active turn has a worker that will end it or wait
\* for its pump, unless a shutdown was asked for: no answer and no error of the
\* provider, of the input or of the identity makes _process_turn forget a row.
\* Excepted is a turn whose worker an error of the database has ended.
ActiveTurnIsDriven ==
    phase = "up" /\ ~critical =>
       \A t \in Turn :
          Active(t) => pump[t] = "lost" \/ \E c \in Conv : DrivenBy(c, t)

\* An error of the database ends the turn or asks for a shutdown (design 18.5:
\* DB write, interrupted/critical, fail closed).
DatabaseErrorEndsTurn ==
    phase = "up" /\ ~critical => \A t \in Turn : pump[t] = "lost" => Ended(t)

\* An active turn belongs to a generation that can still report its outcome: a
\* claim never lands on a generation that was reported in the meantime, and a
\* report takes every turn of its generation along.
ActiveOnReadyLease ==
    phase = "up" => \A t \in Turn : Active(t) => lease[turn[t].gen] = "ready"

\* A turn that has ended here but runs at the provider is about to be abandoned
\* or its process to be closed: nobody would ever interrupt it otherwise.
\* Excepted are a turn/start whose error the adapter took for a refusal, and a
\* turn whose worker an error of the database has ended.
NoOrphanProviderTurn ==
    phase = "up" =>
       \A t \in Turn :
          ProviderRuns(t) /\ Ended(t) /\ turn[t].state # "failed" /\ pump[t] # "lost" =>
             \/ lease[turn[t].gen] \in {"unhealthy", "stopping"}
             \/ \E c \in Conv :
                   /\ T(c) = t
                   /\ \/ worker[c].pc \in {"started", "mark", "abandon",
                                           "abandonReport", "report"}
                      \/ worker[c].pc = "await" /\ pump[t] = "failed"
                      \/ worker[c].pc # "await" /\ DrivenBy(c, t)

\* A cancellation that came while the turn had no handle is not forgotten: when
\* the worker waits for the pump, the interrupt was sent, somebody is about to
\* send it, or a user was told that it failed.
NoLostCancel ==
    phase = "up" =>
       \A c \in Conv :
          At(c, "await") /\ ClaimableInterrupt(T(c)) =>
             \E u \in Canceller :
                /\ canceller[u].turn = T(c)
                /\ canceller[u].pc \in {"lookup", "claimInterrupt", "failed"}

\* A turn is completed only when the provider said so.
CompletedByProvider ==
    \A t \in Turn : turn[t].state = "completed" => provider[t] = "completed"

\* Once the stream of a turn is over its row has an outcome (design 8.6: a
\* stream or runtime that ends unexpectedly interrupts the turn).
StreamEndEndsTurn ==
    phase = "up" => \A t \in Turn : pump[t] = "stale" => Ended(t)

\* After /session clear the next turn has a new thread (design 12.4): a
\* conversation without a revision never goes back to one it had.
ClearDetaches ==
    [][\A c \in Conv : conv[c].rev = NoRev /\ conv'[c].rev # NoRev
                          => conv'[c].rev > conv[c].made]_vars

\* A provider barrier is somebody's business: of the monitor that observes the
\* thread, of the worker that is starting one, or of the owner, who is told that
\* the conversation is blocked.  Otherwise its turns would wait for ever.
BarrierIsWatched ==
    phase = "up" =>
       \A c \in Conv :
          conv[c].barrier # "none" =>
             c \in monitor \/ conv[c].state = "blocked" \/ c \in Starting

\* Every queued turn leaves the queue.
QueuedTurnLeaves == \A t \in Turn : turn[t].state = "queued" ~> turn[t].state # "queued"

\* Every active turn ends.
ActiveTurnEnds == \A t \in Turn : Active(t) ~> Ended(t)
=============================================================================
