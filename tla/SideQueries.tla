------------------------------ MODULE SideQueries ------------------------------
(***************************************************************************)
(* SideQueries: the temporary questions of /btw and /side. A question is   *)
(* accepted as a row, asked in an ephemeral fork of the Conversation's     *)
(* Thread on the runtime that its Turns use, and answered to one user      *)
(* only. Whatever happens, the fork is interrupted and unsubscribed and    *)
(* the row settled. A live row is also what keeps the supervisor from      *)
(* evicting the runtime.                                                   *)
(*                                                                         *)
(* One Conversation and the slot of its project. A step is one             *)
(* transaction or one answer of the provider. The row, the limits and the  *)
(* cleanup are here; what an answer says is not.                           *)
(***************************************************************************)
EXTENDS Naturals, FiniteSets

CONSTANTS
    Query,           \* ids of interactions; each is one row of side_queries
    User,
    MaxConcurrency,  \* max_concurrency
    MaxGen,          \* generations the runtime may come to have
    MaxFaults,       \* failures of the environment the instance has
    Env              \* the failures it may have

ASSUME SideQueriesAssumption ==
    /\ IsFiniteSet(Query) /\ MaxConcurrency \in Nat \ {0} /\ MaxGen \in Nat \ {0} /\ MaxFaults \in Nat

(***************************************************************************)
(* Members of Env, all but the last counted by MaxFaults:                  *)
(*   "crash"    the process dies between two steps and starts again        *)
(*   "die"      the app-server exits                                       *)
(*   "lost"     the provider does what it is asked and answers an error    *)
(*   "refuse"   a check fails, or the provider refuses or fails            *)
(*   "cleanup"  an interrupt or an unsubscribe fails                       *)
(*   "storage"  a transaction fails                                        *)
(*   "timeout"  the answer takes longer than timeout_seconds               *)
(***************************************************************************)

LiveRow == {"accepted", "running"}
Settled == {"completed", "failed", "interrupted"}
Reasons == {"error", "runtime", "timeout", "cancel"}

VARIABLES
    row,      \* side_queries: the state of each row
    user,     \* whose question it is
    task,     \* local state of ask: where it awaits, why it gives up, on which generation
    opened,   \* queries whose entry in _active has the handle of a side Turn
    side,     \* the fork at the provider: "loaded", "running" a Turn, "cut" (interrupted), "gone"
    late,     \* the transaction a cancelled task left in its thread
    slot,     \* the RuntimeSlot, and whether its process is alive
    phase,    \* of the daemon and of close()
    items,    \* the entries with a handle that close() found
    todo,     \* those of them it has yet to see to
    messy,    \* queries a cleanup of which failed, or was cut short and is none of the items
    stuck,    \* queries whose last transaction failed
    faults

vars == <<row, user, task, opened, side, late, slot, phase, items, todo, messy, stuck, faults>>
memory == <<opened, phase, items, todo>>

NoTask == [pc |-> "none", why |-> "error", gen |-> 0]

Init ==
    /\ row = [q \in Query |-> "none"]
    /\ user \in [Query -> User]
    /\ task = [q \in Query |-> NoTask]
    /\ opened = {} /\ items = {} /\ todo = {} /\ messy = {} /\ stuck = {}
    /\ side = [q \in Query |-> "none"]
    /\ late = [q \in Query |-> "none"]
    /\ slot = [gen |-> 0, ready |-> FALSE, alive |-> FALSE, evicting |-> FALSE]
    /\ phase = "up"
    /\ faults = 0

At(q, pc) == task[q].pc = pc
Goto(q, pc) == task' = [task EXCEPT ![q].pc = pc]
GiveUp(q, pc, why) == task' = [task EXCEPT ![q].pc = pc, ![q].why = why]

Fault(kind) == kind \in Env /\ faults < MaxFaults /\ faults' = faults + 1

Over == {"none", "done"}
Registered(q) == task[q].pc \notin Over \cup {"accepted"}
Serves(q) == slot.alive /\ task[q].gen = slot.gen

\* Processes end, and their forks with them.
SideGone(gen) == side' = [q \in Query |-> IF task[q].gen = gen /\ side[q] # "none" THEN "gone" ELSE side[q]]

(***************************************************************************)
(* SideQueryCoordinator.ask, up to the stream of the answer.               *)
(***************************************************************************)
\* accept: the unique index refuses a second live row of the user.
Accept(q) ==
    /\ row[q] = "none"
    /\ \A p \in Query : user[p] = user[q] => row[p] \notin LiveRow
    /\ row' = [row EXCEPT ![q] = "accepted"]
    /\ Goto(q, "accepted")
    /\ UNCHANGED <<user, side, late, slot, memory, messy, stuck, faults>>

\* Under the lock: no query of a closing daemon, one of a user, and only so many.
Admissible(q) ==
    /\ phase = "up"
    /\ \A p \in Query : Registered(p) => user[p] # user[q]
    /\ Cardinality({p \in Query : Registered(p)}) < MaxConcurrency

Register(q) ==
    /\ At(q, "accepted") /\ Admissible(q)
    /\ Goto(q, "check")
    /\ UNCHANGED <<row, user, side, late, slot, memory, messy, stuck, faults>>

TurnAway(q) ==
    /\ At(q, "accepted") /\ ~Admissible(q)
    /\ Goto(q, "done")
    /\ \/ row' = [row EXCEPT ![q] = "failed"] /\ UNCHANGED <<stuck, faults>>
       \/ Fault("storage") /\ stuck' = stuck \cup {q} /\ UNCHANGED row
    /\ UNCHANGED <<user, side, late, slot, memory, messy>>

\* The Conversation is active, has no barrier and a revision, before the
\* runtime is asked for and, the revision, after.
Check(q) ==
    /\ task[q].pc \in {"check", "recheck"}
    /\ \/ Goto(q, IF At(q, "check") THEN "ensure" ELSE "fork") /\ UNCHANGED faults
       \/ Fault("refuse") /\ GiveUp(q, "settle", "error")
    /\ UNCHANGED <<row, user, side, late, slot, memory, messy, stuck>>

\* ensure waits for the lock of the slot.
Ensure(q) ==
    /\ At(q, "ensure") /\ ~slot.evicting
    /\ \/ /\ slot.ready
          /\ task' = [task EXCEPT ![q].pc = "recheck", ![q].gen = slot.gen]
          /\ UNCHANGED <<slot, faults>>
       \/ /\ ~slot.ready /\ slot.gen < MaxGen
          /\ slot' = [slot EXCEPT !.gen = @ + 1, !.ready = TRUE, !.alive = TRUE]
          /\ task' = [task EXCEPT ![q].pc = "recheck", ![q].gen = slot.gen + 1]
          /\ UNCHANGED faults
       \/ /\ ~slot.ready
          /\ \/ slot.gen = MaxGen /\ UNCHANGED faults
             \/ Fault("refuse")
          /\ GiveUp(q, "settle", "error")
          /\ UNCHANGED slot
    /\ UNCHANGED <<row, user, side, late, memory, messy, stuck>>

\* A call fails with the process or for itself; the adapter blames the runtime
\* for a lost transport, a message it cannot parse and an internal error, not
\* for being closed.
Failure(q) ==
    \/ ~Serves(q) /\ UNCHANGED faults
    \/ Serves(q) /\ Fault("refuse")
Blame(q) ==
    IF Serves(q) THEN {"error", "runtime"}
    ELSE IF slot.ready /\ task[q].gen = slot.gen THEN {"runtime"}
    ELSE {"error"}

\* thread_fork and the check of its identity: a fork whose answer is lost has
\* no handle, one that is not what it should be is unsubscribed.
Fork(q) ==
    /\ At(q, "fork")
    /\ \/ Serves(q) /\ side' = [side EXCEPT ![q] = "loaded"] /\ Goto(q, "turn") /\ UNCHANGED <<messy, faults>>
       \/ /\ Serves(q) /\ Fault("lost")
          /\ side' = [side EXCEPT ![q] = "loaded"] /\ messy' = messy \cup {q}
          /\ GiveUp(q, "settle", "error")
       \/ /\ Failure(q)
          /\ \E why \in Blame(q) : GiveUp(q, IF why = "runtime" THEN "report" ELSE "settle", why)
          /\ UNCHANGED <<side, messy>>
    /\ UNCHANGED <<row, user, late, slot, memory, stuck>>

\* turn: the handle and the entry of _active come with its answer.
StartTurn(q) ==
    /\ At(q, "turn")
    /\ \/ /\ Serves(q)
          /\ side' = [side EXCEPT ![q] = "running"]
          /\ opened' = opened \cup {q}
          /\ Goto(q, "mark") /\ UNCHANGED faults
       \/ /\ Serves(q) /\ Fault("lost")
          /\ side' = [side EXCEPT ![q] = "running"]
          /\ GiveUp(q, "detach", "error") /\ UNCHANGED opened
       \/ Failure(q) /\ (\E why \in Blame(q) : GiveUp(q, "detach", why)) /\ UNCHANGED <<side, opened>>
    /\ UNCHANGED <<row, user, late, slot, phase, items, todo, messy, stuck>>

\* The adapter's own cleanup of a fork that came to nothing.
Detach(q) ==
    /\ At(q, "detach")
    /\ \/ /\ side' = [side EXCEPT ![q] = "gone"] /\ UNCHANGED <<messy, faults>>
       \/ /\ Serves(q) /\ Fault("cleanup") /\ messy' = messy \cup {q} /\ UNCHANGED side
    /\ Goto(q, IF task[q].why = "runtime" THEN "report" ELSE "settle")
    /\ UNCHANGED <<row, user, late, slot, memory, stuck>>

\* mark_running
MarkRunning(q) ==
    /\ At(q, "mark")
    /\ \/ row[q] = "accepted" /\ row' = [row EXCEPT ![q] = "running"] /\ Goto(q, "collect") /\ UNCHANGED faults
       \/ row[q] # "accepted" /\ GiveUp(q, "interrupt", "error") /\ UNCHANGED <<row, faults>>
       \/ Fault("storage") /\ GiveUp(q, "interrupt", "error") /\ UNCHANGED row
    /\ UNCHANGED <<user, side, late, slot, memory, messy, stuck>>

\* The side Turn ends at the provider.
ProviderEnds(q) ==
    /\ side[q] = "running"
    /\ side' = [side EXCEPT ![q] = "loaded"]
    /\ UNCHANGED <<row, user, task, late, slot, memory, messy, stuck, faults>>

\* Mutant of Collect: the time limit settles the row before it cleans up.
CollectHasty(q) ==
    /\ At(q, "collect")
    /\ \/ side[q] = "loaded" /\ Goto(q, "close") /\ UNCHANGED <<row, faults>>
       \/ /\ GiveUp(q, "interrupt", "timeout")
          /\ row' = [row EXCEPT ![q] = "failed"] /\ UNCHANGED faults
    /\ UNCHANGED <<user, side, late, slot, memory, messy, stuck>>

\* _collect_answer: the stream ends with an answer or without one, breaks with
\* its process, or outlasts the time limit.
Collect(q) ==
    /\ At(q, "collect")
    /\ \/ side[q] = "loaded" /\ Goto(q, "close") /\ UNCHANGED faults
       \/ side[q] = "loaded" /\ Fault("refuse") /\ GiveUp(q, "interrupt", "error")
       \/ side[q] # "gone" /\ Fault("refuse") /\ GiveUp(q, "unsubscribe", "runtime")
       \/ side[q] = "cut" /\ GiveUp(q, "interrupt", "error") /\ UNCHANGED faults
       \/ side[q] = "gone" /\ GiveUp(q, "unsubscribe", "runtime") /\ UNCHANGED faults
       \/ "timeout" \in Env /\ GiveUp(q, "interrupt", "timeout") /\ UNCHANGED faults
    /\ UNCHANGED <<row, user, side, late, slot, memory, messy, stuck>>

\* An answer counts when its fork is closed.
CloseAnswered(q) ==
    /\ At(q, "close")
    /\ \/ /\ Serves(q)
          /\ side' = [side EXCEPT ![q] = "gone"] /\ Goto(q, "finish") /\ UNCHANGED <<messy, faults>>
       \/ ~Serves(q) /\ GiveUp(q, "interrupt", "error") /\ UNCHANGED <<side, messy, faults>>
       \/ /\ Serves(q) /\ Fault("cleanup")
          /\ messy' = messy \cup {q}
          /\ GiveUp(q, "interrupt", "error") /\ UNCHANGED side
    /\ UNCHANGED <<row, user, late, slot, memory, stuck>>

\* finish: the row keeps a result it has.
Finish(q) ==
    /\ At(q, "finish")
    /\ \/ row[q] \in LiveRow /\ row' = [row EXCEPT ![q] = "completed"] /\ Goto(q, "final") /\ UNCHANGED faults
       \/ row[q] \notin LiveRow /\ GiveUp(q, "settle", "error") /\ UNCHANGED <<row, faults>>
       \/ Fault("storage") /\ GiveUp(q, "settle", "error") /\ UNCHANGED row
    /\ UNCHANGED <<user, side, late, slot, memory, messy, stuck>>

(***************************************************************************)
(* Its exits: interrupt, unsubscribe, report a lost runtime, settle.       *)
(***************************************************************************)
\* _interrupt_safely
Interrupt(q) ==
    /\ At(q, "interrupt")
    /\ \/ /\ side' = [side EXCEPT ![q] = IF @ = "running" THEN "cut" ELSE @] /\ UNCHANGED faults
       \/ Serves(q) /\ Fault("cleanup") /\ UNCHANGED side
    /\ Goto(q, "unsubscribe")
    /\ UNCHANGED <<row, user, late, slot, memory, messy, stuck>>

\* _close_safely
Unsubscribe(q) ==
    /\ At(q, "unsubscribe")
    /\ \/ side' = [side EXCEPT ![q] = "gone"] /\ UNCHANGED <<messy, faults>>
       \/ Serves(q) /\ Fault("cleanup") /\ messy' = messy \cup {q} /\ UNCHANGED side
    /\ Goto(q, IF task[q].why = "runtime" THEN "report" ELSE "settle")
    /\ UNCHANGED <<row, user, late, slot, memory, stuck>>

\* report_failure ends the generation the query was on, and no later one. If
\* it fails itself, nobody settles the row.
Report(q) ==
    /\ At(q, "report") /\ ~slot.evicting
    /\ IF slot.ready /\ slot.gen = task[q].gen
         THEN \/ /\ slot' = [slot EXCEPT !.ready = FALSE, !.alive = FALSE] /\ SideGone(slot.gen)
                 /\ Goto(q, "settle") /\ UNCHANGED <<stuck, faults>>
              \/ /\ Fault("storage") /\ stuck' = stuck \cup {q}
                 /\ Goto(q, "final") /\ UNCHANGED <<slot, side>>
         ELSE Goto(q, "settle") /\ UNCHANGED <<slot, side, stuck, faults>>
    /\ UNCHANGED <<row, user, late, memory, messy>>

\* _finish_failed and _finish_interrupted. Only that of the time limit has an
\* except clause behind it, which tries once more.
Settle(q) ==
    /\ At(q, "settle")
    /\ \/ /\ row' = [row EXCEPT ![q] = IF @ \notin LiveRow THEN @
                                       ELSE IF task[q].why = "cancel" THEN "interrupted" ELSE "failed"]
          /\ Goto(q, "final")
          /\ UNCHANGED <<stuck, faults>>
       \/ /\ Fault("storage")
          /\ IF task[q].why = "timeout" THEN GiveUp(q, "settle", "error") /\ UNCHANGED stuck
                                        ELSE Goto(q, "final") /\ stuck' = stuck \cup {q}
          /\ UNCHANGED row
    /\ UNCHANGED <<user, side, late, slot, memory, messy>>

\* The finally clause; until then the user has an entry in _active.
Leave(q) ==
    /\ At(q, "final")
    /\ task' = [task EXCEPT ![q] = [NoTask EXCEPT !.pc = "done", !.gen = IF side[q] = "gone" THEN 0 ELSE task[q].gen]]
    /\ opened' = opened \ {q}
    /\ UNCHANGED <<row, user, side, late, slot, phase, items, todo, messy, stuck, faults>>

\* A transaction of a cancelled task commits after all: mark_running only
\* where the row is accepted, finish where it is live.
Land(q) ==
    /\ late[q] # "none"
    /\ late' = [late EXCEPT ![q] = "none"]
    /\ row' = [row EXCEPT ![q] = IF @ = "accepted" \/ (@ = "running" /\ late[q] # "running") THEN late[q] ELSE @]
    /\ UNCHANGED <<user, task, side, slot, memory, messy, stuck, faults>>

(***************************************************************************)
(* SideQueryCoordinator.close                                              *)
(***************************************************************************)
\* The entries with a handle are taken under the lock.
BeginClose ==
    /\ phase = "up"
    /\ phase' = "interrupting"
    /\ items' = {q \in opened : Registered(q)} /\ todo' = items'
    /\ UNCHANGED <<row, user, task, opened, side, late, slot, messy, stuck, faults>>

InterruptItem(q) ==
    /\ phase = "interrupting" /\ q \in todo
    /\ todo' = todo \ {q}
    /\ \/ side' = [side EXCEPT ![q] = IF @ = "running" THEN "cut" ELSE @] /\ UNCHANGED faults
       \/ side[q] = "running" /\ Fault("cleanup") /\ UNCHANGED side
    /\ UNCHANGED <<row, user, task, opened, late, slot, phase, items, messy, stuck>>

InClause(q) == task[q].pc \in {"interrupt", "unsubscribe", "report", "settle"} /\ task[q].why \in {"error", "runtime"}
HasHandle(q) == task[q].pc \in {"mark", "collect", "close", "interrupt", "unsubscribe"}
\* Mutant of Cancelled: the cleanup is left to close().
CancelledBare(q) ==
    IF ~Registered(q) \/ At(q, "final") THEN task[q]
    ELSE [task[q] EXCEPT !.pc = "settle", !.why = "cancel"]

\* Where a cancelled ask goes on. An except clause that is under way is left
\* for good; only that of the time limit lies inside the try block. The
\* adapter's cleanup swallows the cancellation.
Cancelled(q) ==
    CASE ~Registered(q) \/ At(q, "final") -> task[q]
      [] InClause(q) -> [task[q] EXCEPT !.pc = "final"]
      [] At(q, "turn") -> [task[q] EXCEPT !.pc = "detach", !.why = "cancel"]
      [] At(q, "detach") -> [task[q] EXCEPT !.pc = IF task[q].why = "runtime" THEN "report" ELSE "settle"]
      [] HasHandle(q) /\ ~InClause(q) -> [task[q] EXCEPT !.pc = "interrupt", !.why = "cancel"]
      [] OTHER -> [task[q] EXCEPT !.pc = "settle", !.why = "cancel"]

\* What the thread of a cancelled task still commits.
InThread(q) ==
    CASE At(q, "mark") -> "running"
      [] At(q, "finish") -> "completed"
      [] At(q, "settle") -> "failed"
      [] OTHER -> "none"

\* What the provider has been asked for takes effect all the same.
InFlight(q) == task[q].pc \in {"fork", "turn", "detach"} /\ Serves(q)
Effect(q) == CASE At(q, "fork") -> "loaded" [] At(q, "turn") -> "running" [] At(q, "detach") -> "gone"

CancelAll ==
    /\ phase = "interrupting" /\ todo = {}
    /\ phase' = "gathering"
    /\ task' = [q \in Query |-> Cancelled(q)]
    /\ late' = [q \in Query |-> IF late[q] = "none" THEN InThread(q) ELSE late[q]]
    /\ \E S \in SUBSET {q \in Query : InFlight(q)} :
          side' = [q \in Query |-> IF q \in S THEN Effect(q) ELSE side[q]]
    /\ messy' = messy \cup {q \in Query : task[q].pc \in {"fork", "detach"} \/ (InClause(q) /\ q \notin items)}
    /\ UNCHANGED <<row, user, opened, slot, items, todo, stuck, faults>>

Gathered ==
    /\ phase = "gathering" /\ \A q \in Query : ~Registered(q)
    /\ phase' = "sweeping" /\ todo' = items
    /\ UNCHANGED <<row, user, task, opened, side, late, slot, items, messy, stuck, faults>>

\* _close_safely once more, and the row if no exit of ask settled it.
Sweep(q) ==
    /\ phase = "sweeping" /\ q \in todo
    /\ \/ /\ row' = [row EXCEPT ![q] = IF @ \in LiveRow THEN "interrupted" ELSE @]
          /\ todo' = todo \ {q}
          /\ \/ side' = [side EXCEPT ![q] = "gone"] /\ UNCHANGED <<messy, faults>>
             \/ Serves(q) /\ Fault("cleanup") /\ messy' = messy \cup {q} /\ UNCHANGED side
          /\ UNCHANGED stuck
       \/ /\ Fault("storage")
          /\ side' = [side EXCEPT ![q] = "gone"]
          /\ todo' = {} /\ stuck' = stuck \cup todo /\ messy' = messy \cup todo
          /\ UNCHANGED row
    /\ UNCHANGED <<user, task, opened, late, slot, phase, items>>

Closed ==
    /\ phase = "sweeping" /\ todo = {}
    /\ phase' = "closed" /\ items' = {}
    /\ UNCHANGED <<row, user, task, opened, side, late, slot, todo, messy, stuck, faults>>

(***************************************************************************)
(* The supervisor of the runtime, and restarts.                            *)
(***************************************************************************)
\* _evict_lru_idle_slot and the watchdog, with the lock of the slot: live work
\* is read first. Other live work is part of the choice.
EvictLook ==
    /\ slot.ready /\ ~slot.evicting
    /\ \A q \in Query : row[q] \notin LiveRow
    /\ slot' = [slot EXCEPT !.evicting = TRUE]
    /\ UNCHANGED <<row, user, task, side, late, memory, messy, stuck, faults>>

EvictStop ==
    /\ slot.evicting
    /\ slot' = [slot EXCEPT !.evicting = FALSE, !.ready = FALSE, !.alive = FALSE]
    /\ SideGone(slot.gen)
    /\ UNCHANGED <<row, user, task, late, memory, messy, stuck, faults>>

Die ==
    /\ slot.alive /\ Fault("die")
    /\ slot' = [slot EXCEPT !.alive = FALSE]
    /\ SideGone(slot.gen)
    /\ UNCHANGED <<row, user, task, late, memory, messy, stuck>>

\* The watchdog or a Turn finds the runtime dead.
Found ==
    /\ slot.ready /\ ~slot.alive /\ ~slot.evicting
    /\ slot' = [slot EXCEPT !.ready = FALSE]
    /\ UNCHANGED <<row, user, task, side, late, memory, messy, stuck, faults>>

\* Mutant of Restart: the rows of the last boot are left as they are.
RestartForgets ==
    /\ Fault("crash")
    /\ task' = [q \in Query |-> IF row[q] = "none" THEN task[q] ELSE [NoTask EXCEPT !.pc = "done"]]
    /\ side' = [q \in Query |-> IF side[q] = "none" THEN "none" ELSE "gone"]
    /\ late' = [q \in Query |-> "none"]
    /\ slot' = [slot EXCEPT !.ready = FALSE, !.alive = FALSE, !.evicting = FALSE]
    /\ phase' = "up" /\ opened' = {} /\ items' = {} /\ todo' = {} /\ messy' = {} /\ stuck' = {}
    /\ UNCHANGED <<row, user>>

\* The process ends, after close() or at any time; the next one starts with
\* interrupt_for_restart.
Restart ==
    /\ \/ phase = "closed" /\ UNCHANGED faults
       \/ Fault("crash")
    /\ row' = [q \in Query |-> IF row[q] \in LiveRow THEN "interrupted" ELSE row[q]]
    /\ task' = [q \in Query |-> IF row[q] = "none" THEN task[q] ELSE [NoTask EXCEPT !.pc = "done"]]
    /\ side' = [q \in Query |-> IF side[q] = "none" THEN "none" ELSE "gone"]
    /\ late' = [q \in Query |-> "none"]
    /\ slot' = [slot EXCEPT !.ready = FALSE, !.alive = FALSE, !.evicting = FALSE]
    /\ phase' = "up" /\ opened' = {} /\ items' = {} /\ todo' = {} /\ messy' = {} /\ stuck' = {}
    /\ UNCHANGED user

Ask(q) ==
    \/ Register(q) \/ TurnAway(q) \/ Check(q) \/ Ensure(q) \/ Fork(q) \/ StartTurn(q) \/ Detach(q)
    \/ MarkRunning(q) \/ Collect(q) \/ CloseAnswered(q) \/ Finish(q)
    \/ Interrupt(q) \/ Unsubscribe(q) \/ Report(q) \/ Settle(q) \/ Leave(q)

Closing == CancelAll \/ Gathered \/ Closed \/ \E q \in Query : InterruptItem(q) \/ Sweep(q)

Next ==
    \/ \E q \in Query : Accept(q) \/ Ask(q) \/ Land(q) \/ ProviderEnds(q)
    \/ BeginClose \/ Closing
    \/ EvictLook \/ EvictStop \/ Die \/ Found \/ Restart

Spec == Init /\ [][Next]_vars

\* Tasks and threads go on, and who holds the lock of the slot lets it go.
FairSpec ==
    /\ Spec
    /\ \A q \in Query : WF_vars(Ask(q)) /\ WF_vars(Land(q))
    /\ WF_vars(Closing) /\ WF_vars(EvictStop)

--------------------------------------------------------------------------------
Pc ==
    {"none", "accepted", "check", "ensure", "recheck", "fork", "turn", "detach", "mark", "collect", "close", "finish",
     "interrupt", "unsubscribe", "report", "settle", "final", "done"}

TypeOK ==
    /\ row \in [Query -> {"none"} \cup LiveRow \cup Settled]
    /\ user \in [Query -> User]
    /\ task \in [Query -> [pc : Pc, why : Reasons, gen : 0..MaxGen]]
    /\ side \in [Query -> {"none", "loaded", "running", "cut", "gone"}]
    /\ late \in [Query -> {"none", "running", "completed", "failed"}]
    /\ todo \subseteq items /\ items \cup opened \subseteq Query
    /\ messy \cup stuck \subseteq Query
    /\ phase \in {"up", "interrupting", "gathering", "sweeping", "closed"}
    /\ slot \in [gen : 0..MaxGen, ready : BOOLEAN, alive : BOOLEAN, evicting : BOOLEAN]
    /\ faults \in 0..MaxFaults

\* No fork and no side Turn is left at the provider on its own: some clause of
\* ask or close() is still going to unsubscribe it, unless the provider failed
\* to do so or was asked for it by a call whose answer never came.
ForksAreTended ==
    \A q \in Query :
       side[q] \in {"loaded", "running", "cut"} =>
          \/ task[q].pc \in {"turn", "detach", "mark", "collect", "close", "interrupt", "unsubscribe"}
          \/ q \in items /\ phase # "closed" /\ (phase = "sweeping" => q \in todo)
          \/ q \in messy

\* A runtime that is being evicted runs no side Turn, as the row is accepted
\* before the runtime is asked for and settled after the fork is gone.
EvictedIsIdle ==
    slot.evicting => \A q \in Query : side[q] \in {"loaded", "running", "cut"} => q \in messy

\* An accepted question comes to an end, or its user could not ask again and
\* its runtime never be evicted: of its own, by close() or by a restart. What
\* close() leaves is for the next start.
QueriesEnd ==
    \A q \in Query : row[q] \in LiveRow ~> row[q] \in Settled \/ q \in stuck \/ phase = "closed"
================================================================================
