--------------------------- MODULE RuntimeSupervisor ---------------------------
(***************************************************************************)
(* RuntimeSupervisor: one RuntimeSlot per Project, at most MaxActive of     *)
(* them with an app-server, behind asyncio locks that serve in FIFO order.  *)
(*                                                                         *)
(*   user      a mailbox worker, side query or session command: ensure,    *)
(*             then claim, report_failure or retire                        *)
(*   watcher   the child of a watchdog pass that visits one slot           *)
(*   closer    _close_slot_for_shutdown of one slot                        *)
(*                                                                         *)
(* A step is what a task does between two awaits; a task that holds a lock *)
(* keeps it over its steps, and a queue of a lock has its owner in front.  *)
(* A start that meets a free lock goes on without yielding (sync).         *)
(***************************************************************************)
EXTENDS Integers, Sequences, FiniteSets

CONSTANTS
    Slot,      \* the keys of the slots
    User,      \* tasks that use runtimes
    MaxActive, \* runtime.max_active_runtimes
    MaxCalls,  \* uses of a runtime a user task makes
    MaxFaults, \* failures of the environment the instance has
    Lost,      \* slots whose runtime failed long before the start
    Env        \* the optional events the instance has

ASSUME ConstantsAssumption ==
    /\ IsFiniteSet(Slot) /\ IsFiniteSet(User)
    /\ MaxActive \in Nat \ {0} /\ MaxCalls \in Nat /\ MaxFaults \in Nat
    /\ Lost \subseteq Slot
    /\ \A s \in Slot : <<"watcher", s>> \notin User /\ <<"closer", s>> \notin User

(***************************************************************************)
(* Members of Env:                                                         *)
(*   "bootFail"   a runtime does not start                                 *)
(*   "closeFail"  runtime.close fails or a deadline of close passes        *)
(*   "dies"       an app-server exits                                      *)
(*   "probeFail"  a live app-server misses a health probe                  *)
(*   "retire"     a recovery retires the runtime it got                    *)
(*   "shutdown"   RuntimeSupervisor.close                                  *)
(***************************************************************************)

Watcher(s) == <<"watcher", s>>
Closer(s) == <<"closer", s>>
Task == User \cup {Watcher(s) : s \in Slot} \cup {Closer(s) : s \in Slot}
Gen == Nat \ {0}
NoGen == 0
NoSlot == "none"

VARIABLES
    slot,      \* RuntimeSlot in memory
    lease,     \* row of the newest runtime lease of a slot
    process,   \* generations whose app-server runs, by slot
    lru,       \* slots with last_used_at > 0, least recent first
    idle,      \* those of them past the idle TTL
    lock,      \* queue of RuntimeSlot.lock
    startLock, \* queue of _capacity_start_lock
    task,      \* local state of the tasks
    live,      \* users that have an active Turn
    calls,     \* uses a user has made
    pass,      \* _watchdog_task runs
    phase,     \* of the supervisor
    cancelled, \* startup tasks that close() cancelled
    closeError,\* some runtime did not close at shutdown
    faults,    \* failures so far
    sync       \* the start that has not yielded

memory == <<slot, lru, idle>>
outside == <<lease, process, live>>
control == <<calls, pass, phase, cancelled, closeError, faults>>
vars == <<memory, outside, lock, startLock, task, control, sync>>

Loaded == [gen : Gen \cup {NoGen}, loaded : BOOLEAN, ready : BOOLEAN,
           reserved : BOOLEAN, backoff : BOOLEAN]
LeaseState == {"absent", "starting", "ready", "unhealthy", "stopping", "stopped",
               "failed"}
Pc == {"off", "ensure", "reserve", "evict", "gate", "create", "boot", "mark",
       "cleanup", "got", "work", "retire", "report", "reportClose",
       "scheduled", "visit", "probe", "beat", "stop", "close", "done"}
Local == [pc : Pc, home : Slot \cup {NoSlot}, gen : Gen \cup {NoGen}, cands : Seq(Slot)]

\* Every slot, lock and task has a value of its type.
TypeOK ==
    /\ slot \in [Slot -> Loaded]
    /\ lease \in [Slot -> LeaseState]
    /\ process \in [Slot -> SUBSET Gen]
    /\ lru \in Seq(Slot)
    /\ idle \subseteq Slot
    /\ lock \in [Slot -> Seq(Task)]
    /\ startLock \in Seq(User)
    /\ task \in [Task -> Local]
    /\ live \subseteq User
    /\ calls \in [User -> 0..MaxCalls]
    /\ pass \in BOOLEAN
    /\ phase \in {"up", "closing", "draining", "closed"}
    /\ cancelled \subseteq User
    /\ closeError \in BOOLEAN
    /\ faults \in 0..MaxFaults
    /\ sync \subseteq User

InitLru == CHOOSE q \in [1..Cardinality(Lost) -> Lost] :
              \A i, j \in DOMAIN q : q[i] = q[j] => i = j

Init ==
    /\ slot = [s \in Slot |-> [gen |-> NoGen, loaded |-> FALSE, ready |-> FALSE,
                               reserved |-> FALSE, backoff |-> FALSE]]
    /\ lease = [s \in Slot |-> "absent"]
    /\ process = [s \in Slot |-> {}]
    /\ lru = InitLru
    /\ idle = Lost
    /\ lock = [s \in Slot |-> <<>>]
    /\ startLock = <<>>
    /\ task = [t \in Task |->
                 [pc |-> "off", gen |-> NoGen, cands |-> <<>>,
                  home |-> IF t \in User THEN NoSlot ELSE t[2]]]
    /\ live = {}
    /\ calls = [u \in User |-> 0]
    /\ pass = FALSE
    /\ phase = "up"
    /\ cancelled = {}
    /\ closeError = FALSE
    /\ faults = 0
    /\ sync = {}

-----------------------------------------------------------------------------
(* Locks, capacity and the leaves of a task. *)

IsWatcher(t) == \E s \in Slot : t = Watcher(s)
IsCloser(t) == \E s \in Slot : t = Closer(s)
Rest(t) == IF IsCloser(t) THEN "done" ELSE "off"

Closing == phase # "up"
At(t, pc) == task[t].pc = pc
Home(t) == task[t].home

\* The slot a task works on: the candidate it evicts, or its own.
Target(t) == IF task[t].cands = <<>> THEN Home(t) ELSE Head(task[t].cands)

Holds(t, s) == lock[s] # <<>> /\ Head(lock[s]) = t
HoldsTarget(t) == Holds(t, Target(t))

\* A task is in a queue once.
Without(q, t) ==
    IF \E i \in DOMAIN q : q[i] = t
    THEN LET i == CHOOSE i \in DOMAIN q : q[i] = t
         IN [j \in 1..(Len(q) - 1) |-> IF j < i THEN q[j] ELSE q[j + 1]]
    ELSE q

Goto(t, pc) == task' = [task EXCEPT ![t].pc = pc]
WaitFor(t, s, pc) ==
    /\ lock' = [lock EXCEPT ![s] = Append(@, t)]
    /\ Goto(t, pc)

\* A task returns or raises: it gives back what it holds or waits for.
Leave(t) ==
    /\ Goto(t, Rest(t))
    /\ lock' = [s \in Slot |-> Without(lock[s], t)]
    /\ startLock' = Without(startLock, t)

Used == {lru[i] : i \in DOMAIN lru}
Touch(s) ==
    /\ lru' = Append(Without(lru, s), s)
    /\ idle' = idle \ {s}

InUse == Cardinality({s \in Slot : slot[s].reserved})

Fault(kind) ==
    /\ kind \in Env /\ faults < MaxFaults
    /\ faults' = faults + 1

\* The slot is empty again and its capacity is released.
Unload(s, backoff) ==
    slot' = [slot EXCEPT ![s].loaded = FALSE, ![s].ready = FALSE,
                         ![s].reserved = FALSE, ![s].backoff = @ \/ backoff]

\* A runtime that did not close stays in the slot, and keeps its capacity.
Keep(s) ==
    slot' = [slot EXCEPT ![s].loaded = TRUE, ![s].ready = FALSE,
                         ![s].backoff = TRUE]

\* runtime_scope_has_live_work
HasLiveWork(s) ==
    \E u \in live : Home(u) = s /\ task[u].gen = slot[s].gen

-----------------------------------------------------------------------------
(* ensure *)

EnsureCall(u, s) ==
    /\ At(u, "off") /\ ~Closing /\ calls[u] < MaxCalls
    /\ calls' = [calls EXCEPT ![u] = @ + 1]
    /\ lock' = [lock EXCEPT ![s] = Append(@, u)]
    /\ task' = [task EXCEPT ![u] = [@ EXCEPT !.pc = "ensure", !.home = s,
                                            !.gen = NoGen]]
    /\ UNCHANGED <<memory, outside, startLock, pass, phase, cancelled,
                   closeError, faults>>

MayEnsure(u) == At(u, "ensure") /\ HoldsTarget(u) /\ ~Closing

EnsureLoaded(u) ==
    /\ MayEnsure(u)
    /\ slot[Home(u)].loaded /\ slot[Home(u)].ready
    /\ Touch(Home(u))
    /\ task' = [task EXCEPT ![u].pc = "got", ![u].gen = slot[Home(u)].gen]
    /\ lock' = [lock EXCEPT ![Home(u)] = Tail(@)]
    /\ UNCHANGED <<slot, outside, startLock, control>>

\* A runtime that did not close before is closed first.
EnsureLeftover(u) ==
    /\ MayEnsure(u)
    /\ slot[Home(u)].loaded /\ ~slot[Home(u)].ready
    /\ Goto(u, "stop")
    /\ UNCHANGED <<memory, outside, lock, startLock, control>>

\* The capacity is reserved under the start lock, the slot's lock held.
EnsureEmpty(u) ==
    /\ MayEnsure(u)
    /\ ~slot[Home(u)].loaded /\ ~slot[Home(u)].backoff
    /\ startLock' = Append(startLock, u)
    /\ Goto(u, "reserve")
    /\ UNCHANGED <<memory, outside, lock, control>>

EnsureRefused(u) ==
    /\ At(u, "ensure") /\ HoldsTarget(u)
    /\ \/ ~MayEnsure(u)
       \/ ~slot[Home(u)].loaded /\ slot[Home(u)].backoff
    /\ Leave(u)
    /\ UNCHANGED <<memory, outside, control>>

\* The candidates are the slots that were past the TTL, least recent first; one
\* that was used in the meantime is skipped.  Without a candidate the task waits
\* at the gate.
Candidates == SubSeq(lru, 1, Cardinality(idle))
Candidate(u, s) == s # Home(u) /\ (s \in idle \/ s \notin Used)
NextCandidate(u, cands) ==
    LET fit == {i \in DOMAIN cands : Candidate(u, cands[i])}
        first == CHOOSE i \in fit : \A j \in fit : i <= j
        rest == IF fit = {} THEN <<>> ELSE SubSeq(cands, first, Len(cands))
    IN /\ task' = [task EXCEPT ![u].pc = IF rest = <<>> THEN "gate" ELSE "evict",
                               ![u].cands = rest]
       /\ lock' = [s \in Slot |->
                     LET q == IF At(u, "evict") /\ s = Target(u)
                              THEN Tail(lock[s]) ELSE lock[s]
                     IN IF rest # <<>> /\ s = Head(rest) THEN Append(q, u) ELSE q]

Reserve(u) ==
    /\ At(u, "reserve") /\ Head(startLock) = u /\ u \notin cancelled
    /\ NextCandidate(u, IF InUse < MaxActive THEN <<>> ELSE Candidates)
    /\ UNCHANGED <<memory, outside, startLock, control>>

\* Mutant of Evictable: nobody asks for live work.
EvictableAnyhow(s) == slot[s].loaded /\ slot[s].ready

Evictable(s) == slot[s].loaded /\ slot[s].ready /\ ~HasLiveWork(s)

EvictSkips(u) ==
    /\ At(u, "evict") /\ HoldsTarget(u) /\ u \notin cancelled
    /\ ~Evictable(Target(u))
    /\ NextCandidate(u, Tail(task[u].cands))
    /\ UNCHANGED <<memory, outside, startLock, control>>

Evict(u) ==
    /\ At(u, "evict") /\ HoldsTarget(u) /\ u \notin cancelled
    /\ Evictable(Target(u))
    /\ Goto(u, "stop")
    /\ UNCHANGED <<memory, outside, lock, startLock, control>>

PassGate(u) ==
    /\ At(u, "gate") /\ u \notin cancelled /\ ~Closing
    /\ InUse < MaxActive
    /\ slot' = [slot EXCEPT ![Home(u)].reserved = TRUE]
    /\ startLock' = Tail(startLock)
    /\ Goto(u, "create")
    /\ UNCHANGED <<lru, idle, outside, lock, control>>

Abortable(u) ==
    \/ At(u, "gate") /\ Closing /\ InUse < MaxActive
    \/ u \in cancelled /\ task[u].pc \in {"reserve", "evict", "gate", "create"}

\* Mutant of StartAborted: the locks are not given back.
StartAbortedLocked(u) ==
    /\ Abortable(u)
    /\ Unload(Home(u), TRUE)
    /\ task' = [task EXCEPT ![u].pc = "off", ![u].cands = <<>>]
    /\ UNCHANGED <<lru, idle, outside, lock, startLock, control>>

\* The start fails before there is a lease: the failure is registered.
StartAborted(u) ==
    /\ Abortable(u)
    /\ Unload(Home(u), TRUE)
    /\ task' = [task EXCEPT ![u].pc = "off", ![u].cands = <<>>]
    /\ lock' = [s \in Slot |-> Without(lock[s], u)]
    /\ startLock' = Without(startLock, u)
    /\ UNCHANGED <<lru, idle, outside, control>>

Create(u) ==
    /\ At(u, "create") /\ u \notin cancelled
    /\ LET s == Home(u)
           g == slot[s].gen + 1
       IN /\ slot' = [slot EXCEPT ![s].gen = g]
          /\ lease' = [lease EXCEPT ![s] = "starting"]
          /\ process' = [process EXCEPT ![s] = @ \cup {g}]
          /\ task' = [task EXCEPT ![u].pc = "boot", ![u].gen = g]
    /\ UNCHANGED <<lru, idle, live, lock, startLock, control>>

Booted(u) ==
    /\ At(u, "boot") /\ u \notin cancelled /\ ~Closing
    /\ task[u].gen \in process[Home(u)]
    /\ Goto(u, "mark")
    /\ UNCHANGED <<memory, outside, lock, startLock, control>>

BootFails(u) ==
    /\ At(u, "boot")
    /\ \/ Closing \/ task[u].gen \notin process[Home(u)]
       \/ "bootFail" \in Env /\ faults < MaxFaults
    /\ faults' = IF Closing \/ task[u].gen \notin process[Home(u)] THEN faults
                 ELSE faults + 1
    /\ Goto(u, "cleanup")
    /\ UNCHANGED <<memory, outside, lock, startLock, calls, pass, phase,
                   cancelled, closeError>>

\* The runtime is published; a supervisor that began to close meanwhile closes
\* it at once.
MarkReady(u) ==
    /\ At(u, "mark") /\ u \notin cancelled
    /\ lease' = [lease EXCEPT ![Home(u)] = "ready"]
    /\ slot' = [slot EXCEPT ![Home(u)].loaded = TRUE, ![Home(u)].ready = TRUE]
    /\ Touch(Home(u))
    /\ IF Closing
       THEN Goto(u, "stop") /\ lock' = lock
       ELSE Goto(u, "got") /\ lock' = [lock EXCEPT ![Home(u)] = Tail(@)]
    /\ UNCHANGED <<process, live, startLock, control>>

\* The transaction of a cancelled mark may still commit in its thread.
StartCancelled(u) ==
    /\ u \in cancelled /\ task[u].pc \in {"boot", "mark"}
    /\ \/ lease' = lease
       \/ /\ At(u, "mark")
          /\ lease' = [lease EXCEPT ![Home(u)] = "ready"]
    /\ Goto(u, "cleanup")
    /\ UNCHANGED <<memory, process, live, lock, startLock, control>>

\* mark_runtime_failed
FailedStart(s) ==
    lease' = [lease EXCEPT ![s] = IF @ = "starting" THEN "failed" ELSE @]

\* Mutant of Cleanup: the runtime is not closed.
CleanupUnclosed(u) ==
    /\ At(u, "cleanup")
    /\ FailedStart(Home(u))
    /\ Unload(Home(u), TRUE)
    /\ Leave(u)
    /\ UNCHANGED <<lru, idle, process, live, control>>

Cleanup(u) ==
    /\ At(u, "cleanup")
    /\ process' = [process EXCEPT ![Home(u)] = @ \ {task[u].gen}]
    /\ FailedStart(Home(u))
    /\ Unload(Home(u), TRUE)
    /\ Leave(u)
    /\ UNCHANGED <<lru, idle, live, control>>

\* Mutant of CleanupFails: the capacity is released with the process running.
CleanupFailsFree(u) ==
    /\ At(u, "cleanup") /\ Fault("closeFail")
    /\ lease' = [lease EXCEPT ![Home(u)] = "failed"]
    /\ Unload(Home(u), TRUE)
    /\ Leave(u)
    /\ UNCHANGED <<lru, idle, process, live, calls, pass, phase, cancelled,
                   closeError>>

CleanupFails(u) ==
    /\ At(u, "cleanup") /\ Fault("closeFail")
    /\ lease' = [lease EXCEPT ![Home(u)] = "failed"]
    /\ Keep(Home(u))
    /\ Leave(u)
    /\ UNCHANGED <<lru, idle, process, live, calls, pass, phase, cancelled,
                   closeError>>

-----------------------------------------------------------------------------
(* _close_ready_slot, by whoever holds the lock of the slot. *)

IsEvictor(t) == task[t].cands # <<>>
Cancelled(t) == t \in cancelled /\ IsEvictor(t)

MarkStopping(t) ==
    /\ At(t, "stop") /\ ~Cancelled(t)
    /\ lease[Target(t)] # "unhealthy"
    /\ lease' = [lease EXCEPT ![Target(t)] = IF @ = "ready" THEN "stopping" ELSE @]
    /\ Goto(t, "close")
    /\ UNCHANGED <<memory, process, live, lock, startLock, control>>

\* An evictor goes on to the gate, a user that closed a leftover goes on with
\* its start, everybody else has done what it came for.
AfterClose(t) ==
    \/ /\ IsEvictor(t)
       /\ task' = [task EXCEPT ![t].pc = "gate", ![t].cands = <<>>]
       /\ lock' = [lock EXCEPT ![Target(t)] = Tail(@)]
       /\ UNCHANGED startLock
    \/ /\ ~IsEvictor(t) /\ t \in User /\ task[t].gen = NoGen
       /\ ~slot[Home(t)].backoff
       /\ startLock' = Append(startLock, t)
       /\ Goto(t, "reserve")
       /\ UNCHANGED lock
    \/ /\ ~IsEvictor(t)
       /\ t \in User /\ task[t].gen = NoGen => slot[Home(t)].backoff
       /\ Leave(t)

Closed(t) ==
    LET s == Target(t)
    IN /\ At(t, "close") /\ ~Cancelled(t)
       /\ process' = [process EXCEPT ![s] = @ \ {slot[s].gen}]
       /\ lease' = [lease EXCEPT ![s] = "stopped"]
       /\ Unload(s, FALSE)
       /\ lru' = Without(lru, s)
       /\ idle' = idle \ {s}
       /\ AfterClose(t)
    /\ UNCHANGED <<live, control>>

\* What a cancelled close leaves in the row: its transaction may commit.
CutShort(s, pc) ==
    CASE pc \in {"close", "reportClose"} -> {"failed"}
      [] pc = "stop" /\ lease[s] = "ready" -> {"ready", "stopping"}
      [] OTHER -> {lease[s]}

\* The error leaves the slot as it is, "ready" in memory perhaps; an evictor's
\* own start has failed with it.  A row that was reported cannot be stopping.
CloseFails(t) ==
    LET s == Target(t)
    IN /\ \/ /\ Cancelled(t) /\ task[t].pc \in {"stop", "close"}
             /\ \E l \in CutShort(s, task[t].pc) : lease' = [lease EXCEPT ![s] = l]
             /\ faults' = faults
          \/ /\ At(t, "close") /\ ~Cancelled(t) /\ Fault("closeFail")
             /\ lease' = [lease EXCEPT ![s] = "failed"]
          \/ /\ At(t, "stop") /\ lease[s] = "unhealthy"
             /\ UNCHANGED <<lease, faults>>
       /\ slot' = IF IsEvictor(t) THEN [slot EXCEPT ![Home(t)].backoff = TRUE]
                  ELSE slot
       /\ task' = [task EXCEPT ![t].cands = <<>>, ![t].pc = Rest(t)]
       /\ lock' = [r \in Slot |-> Without(lock[r], t)]
       /\ startLock' = Without(startLock, t)
       /\ pass' = (pass /\ ~IsWatcher(t))
       /\ closeError' = (closeError \/ IsCloser(t))
    /\ UNCHANGED <<lru, idle, process, live, calls, phase, cancelled>>

-----------------------------------------------------------------------------
(* What a user does with its runtime. *)

\* claim_turn: the lease is still ready.
Claim(u) ==
    /\ At(u, "got")
    /\ slot[Home(u)].gen = task[u].gen /\ lease[Home(u)] = "ready"
    /\ live' = live \cup {u}
    /\ Goto(u, "work")
    /\ UNCHANGED <<memory, lease, process, lock, startLock, control>>

ClaimFails(u) ==
    /\ At(u, "got")
    /\ slot[Home(u)].gen # task[u].gen \/ lease[Home(u)] # "ready"
    /\ Goto(u, "off")
    /\ UNCHANGED <<memory, outside, lock, startLock, control>>

EndWork(u) ==
    /\ At(u, "work")
    /\ live' = live \ {u}
    /\ Goto(u, "off")
    /\ UNCHANGED <<memory, lease, process, lock, startLock, control>>

UserReports(u) ==
    /\ At(u, "got") \/ At(u, "work")
    /\ task[u].gen \notin process[Home(u)]
    /\ WaitFor(u, Home(u), "report")
    /\ UNCHANGED <<memory, outside, startLock, control>>

UserRetires(u) ==
    /\ At(u, "got") /\ "retire" \in Env
    /\ WaitFor(u, Home(u), "retire")
    /\ UNCHANGED <<memory, outside, startLock, control>>

IsStale(t) == ~slot[Home(t)].loaded \/ slot[Home(t)].gen # task[t].gen

Retire(u) ==
    /\ At(u, "retire") /\ HoldsTarget(u) /\ ~IsStale(u)
    /\ Goto(u, "stop")
    /\ UNCHANGED <<memory, outside, lock, startLock, control>>

\* The slot is empty or holds another generation.
StaleCall(t) ==
    /\ At(t, "retire") \/ At(t, "report")
    /\ HoldsTarget(t) /\ IsStale(t)
    /\ Leave(t)
    /\ UNCHANGED <<memory, outside, control>>

TurnsOf(t) == {u \in live : Home(u) = Home(t) /\ task[u].gen = task[t].gen}

\* mark_runtime_unhealthy interrupts the active turns of the lease.
Report(t) ==
    /\ At(t, "report") /\ HoldsTarget(t) /\ ~IsStale(t)
    /\ lease' = [lease EXCEPT ![Home(t)] = "unhealthy"]
    /\ live' = live \ TurnsOf(t)
    /\ Goto(t, "reportClose")
    /\ UNCHANGED <<memory, process, lock, startLock, control>>

\* Mutant of ReportCloses: the lock is kept.
ReportClosesLocked(t) ==
    /\ At(t, "reportClose")
    /\ process' = [process EXCEPT ![Home(t)] = @ \ {task[t].gen}]
    /\ Unload(Home(t), TRUE)
    /\ Goto(t, "off")
    /\ UNCHANGED <<lru, idle, lease, live, lock, startLock, control>>

ReportCloses(t) ==
    /\ At(t, "reportClose")
    /\ process' = [process EXCEPT ![Home(t)] = @ \ {task[t].gen}]
    /\ Unload(Home(t), TRUE)
    /\ Leave(t)
    /\ UNCHANGED <<lru, idle, lease, live, control>>

\* Mutant of ReportCloseFails: a runtime that did not close is forgotten.
ReportForgets(t) ==
    /\ At(t, "reportClose") /\ Fault("closeFail")
    /\ lease' = [lease EXCEPT ![Home(t)] = "failed"]
    /\ Unload(Home(t), TRUE)
    /\ Leave(t)
    /\ UNCHANGED <<lru, idle, process, live, calls, pass, phase, cancelled,
                   closeError>>

ReportCloseFails(t) ==
    /\ At(t, "reportClose") /\ Fault("closeFail")
    /\ lease' = [lease EXCEPT ![Home(t)] = "failed"]
    /\ Keep(Home(t))
    /\ Leave(t)
    /\ UNCHANGED <<lru, idle, process, live, calls, pass, phase, cancelled,
                   closeError>>

-----------------------------------------------------------------------------
(* The watchdog: one pass at a time, over every slot. *)

StartPass ==
    /\ ~Closing /\ ~pass
    /\ pass' = TRUE
    /\ task' = [t \in Task |-> IF IsWatcher(t) /\ At(t, "off")
                               THEN [task[t] EXCEPT !.pc = "scheduled"] ELSE task[t]]
    /\ UNCHANGED <<memory, outside, lock, startLock, calls, phase, cancelled,
                   closeError, faults>>

\* A visit to an empty slot that nobody holds is over at once.
Arrive(s, w) ==
    /\ At(w, "scheduled")
    /\ IF lock[s] = <<>> /\ ~slot[s].loaded
       THEN Goto(w, "off") /\ lock' = lock
       ELSE WaitFor(w, s, "visit")
    /\ UNCHANGED <<memory, outside, startLock, control>>

\* Mutant of EndPass: the task of the last pass is taken for a running one.
EndPassUnnoticed ==
    /\ pass /\ \A s \in Slot : At(Watcher(s), "off")
    /\ pass' = TRUE
    /\ UNCHANGED <<memory, outside, lock, startLock, task, calls, phase,
                   cancelled, closeError, faults>>

EndPass ==
    /\ pass /\ \A s \in Slot : At(Watcher(s), "off")
    /\ pass' = FALSE
    /\ UNCHANGED <<memory, outside, lock, startLock, task, calls, phase,
                   cancelled, closeError, faults>>

Visits(s, w) == At(w, "visit") /\ Holds(w, s)

VisitEvicts(s, w) ==
    /\ Visits(s, w)
    /\ Evictable(s) /\ s \in idle
    /\ Goto(w, "stop")
    /\ UNCHANGED <<memory, outside, lock, startLock, control>>

\* Nothing to probe, or probed not long ago.
VisitLeaves(s, w) ==
    /\ Visits(s, w)
    /\ ~(Evictable(s) /\ s \in idle)
    /\ Leave(w)
    /\ UNCHANGED <<memory, outside, control>>

VisitProbes(s, w) ==
    /\ Visits(s, w)
    /\ slot[s].loaded /\ ~(Evictable(s) /\ s \in idle)
    /\ task' = [task EXCEPT ![w].pc = "probe", ![w].gen = slot[s].gen]
    /\ lock' = [lock EXCEPT ![s] = Tail(@)]
    /\ UNCHANGED <<memory, outside, startLock, control>>

Probe(s, w) ==
    /\ At(w, "probe")
    /\ \/ task[w].gen \in process[s] /\ WaitFor(w, s, "beat") /\ faults' = faults
       \/ task[w].gen \notin process[s] /\ WaitFor(w, s, "report") /\ faults' = faults
       \/ Fault("probeFail") /\ WaitFor(w, s, "report")
    /\ UNCHANGED <<memory, outside, startLock, calls, pass, phase, cancelled,
                   closeError>>

\* heartbeat_runtime finds the lease ready, or the runtime is reported.
Heartbeat(s, w) ==
    /\ At(w, "beat") /\ Holds(w, s)
    /\ IF IsStale(w) \/ ~slot[s].ready \/ lease[s] = "ready"
       THEN Leave(w)
       ELSE /\ lock' = [lock EXCEPT ![s] = Append(Tail(@), w)]
            /\ Goto(w, "report")
            /\ UNCHANGED startLock
    /\ UNCHANGED <<memory, outside, control>>

WatcherStep(s) ==
    LET w == Watcher(s)
    IN \/ Arrive(s, w) \/ VisitEvicts(s, w) \/ VisitLeaves(s, w) \/ VisitProbes(s, w)
       \/ Probe(s, w) \/ Heartbeat(s, w)

-----------------------------------------------------------------------------
(* RuntimeSupervisor.close: the watchdog, the starts, then every slot. *)

CloseBegin ==
    /\ "shutdown" \in Env /\ phase = "up"
    /\ phase' = "closing"
    /\ UNCHANGED <<memory, outside, lock, startLock, task, calls, pass,
                   cancelled, closeError, faults>>

\* The pass is cancelled: a watcher that was closing a runtime records the
\* failure, and the report of one may commit without its close.
WatcherCancelled(s) ==
    LET w == Watcher(s)
        pc == task[w].pc
    IN /\ Closing /\ pass /\ pc # "off"
       /\ \/ /\ \E l \in CutShort(s, pc) : lease' = [lease EXCEPT ![s] = l]
             /\ live' = live
          \/ /\ pc = "report" /\ Holds(w, s) /\ ~IsStale(w)
             /\ lease' = [lease EXCEPT ![s] = "unhealthy"]
             /\ live' = live \ TurnsOf(w)
       /\ slot' = IF pc = "reportClose"
                  THEN [slot EXCEPT ![s].ready = FALSE, ![s].backoff = TRUE]
                  ELSE slot
       /\ Leave(w)
    /\ UNCHANGED <<lru, idle, process, control>>

StartupPc == {"reserve", "gate", "create", "boot", "mark", "cleanup"}
InStartup(u) == task[u].pc \in StartupPc \/ IsEvictor(u)

CloseSlots ==
    /\ phase = "closing" /\ ~pass
    /\ phase' = "draining"
    /\ cancelled' = {u \in User : InStartup(u)}
    /\ lock' = [s \in Slot |-> Append(lock[s], Closer(s))]
    /\ task' = [t \in Task |-> IF t \in {Closer(s) : s \in Slot}
                               THEN [task[t] EXCEPT !.pc = "visit"] ELSE task[t]]
    /\ UNCHANGED <<memory, outside, startLock, calls, pass, closeError, faults>>

CloserVisits(s) ==
    /\ At(Closer(s), "visit") /\ Holds(Closer(s), s)
    /\ IF slot[s].loaded
       THEN Goto(Closer(s), "stop") /\ UNCHANGED <<slot, lock, startLock>>
       ELSE Unload(s, FALSE) /\ Leave(Closer(s))
    /\ UNCHANGED <<lru, idle, outside, control>>

\* The deadline passes while the slot is locked.
CloserGivesUp(s) ==
    /\ At(Closer(s), "visit") /\ Fault("closeFail")
    /\ lease' = [lease EXCEPT ![s] = IF slot[s].ready THEN "failed" ELSE @]
    /\ Leave(Closer(s))
    /\ closeError' = TRUE
    /\ UNCHANGED <<memory, process, live, calls, pass, phase, cancelled>>

CloseEnd ==
    /\ phase = "draining" /\ \A s \in Slot : At(Closer(s), "done")
    /\ phase' = "closed"
    /\ UNCHANGED <<memory, outside, lock, startLock, task, calls, pass,
                   cancelled, closeError, faults>>

-----------------------------------------------------------------------------
(* The environment. *)

RuntimeDies(s) ==
    /\ process[s] # {} /\ Fault("dies")
    /\ process' = [process EXCEPT ![s] = {}]
    /\ UNCHANGED <<memory, lease, live, lock, startLock, task, calls, pass,
                   phase, cancelled, closeError>>

\* The idle TTL of the least recently used slot passes.  A user claims or gives
\* up before the TTL of its ensure: its calls have shorter deadlines.
TtlPasses(s) ==
    /\ s \in Used \ idle
    /\ \A i, j \in DOMAIN lru : lru[i] = s /\ j < i => lru[j] \in idle
    /\ \A u \in User : ~(At(u, "got") /\ Home(u) = s)
    /\ idle' = idle \cup {s}
    /\ UNCHANGED <<slot, lru, outside, lock, startLock, task, control>>

\* Backoff lasts a second at least: only a task that closes the runtime of the
\* slot holds its lock that long without another failure.
BackoffEnds(s) ==
    /\ slot[s].backoff
    /\ \A t \in Task : Holds(t, s) => task[t].pc \in {"stop", "close"}
    /\ slot' = [slot EXCEPT ![s].backoff = FALSE]
    /\ UNCHANGED <<lru, idle, outside, lock, startLock, task, control>>

-----------------------------------------------------------------------------
CloseStep(t) == MarkStopping(t) \/ Closed(t) \/ CloseFails(t)
ReportStep(t) ==
    StaleCall(t) \/ Report(t) \/ ReportCloses(t) \/ ReportCloseFails(t)
StartStep(u) ==
    \/ EnsureLoaded(u) \/ EnsureLeftover(u) \/ EnsureEmpty(u) \/ EnsureRefused(u)
    \/ Reserve(u) \/ EvictSkips(u) \/ Evict(u) \/ PassGate(u) \/ StartAborted(u)
    \/ Create(u) \/ Booted(u) \/ BootFails(u) \/ MarkReady(u)
    \/ StartCancelled(u) \/ Cleanup(u) \/ CleanupFails(u)
UseStep(u) ==
    Claim(u) \/ ClaimFails(u) \/ EndWork(u) \/ UserReports(u) \/ UserRetires(u)
    \/ Retire(u)
UserStep(u) == StartStep(u) \/ UseStep(u) \/ CloseStep(u) \/ ReportStep(u)

\* The step of a start leads to a lock or gate that is free: no await suspends.
GoesOn(u) ==
    LET pc == task'[u].pc
    IN /\ pc # task[u].pc \/ task'[u].cands # task[u].cands
       /\ \/ pc = "ensure" /\ lock[task'[u].home] = <<>>
          \/ pc = "reserve" /\ startLock = <<>>
          \/ /\ pc = "evict" /\ lock[Head(task'[u].cands)] = <<>>
             /\ ~slot[Head(task'[u].cands)].loaded
          \/ pc = "gate" /\ InUse' < MaxActive
Suspends(u) == sync' = IF GoesOn(u) THEN {u} ELSE {}

UserMoves(u) == sync \in {{}, {u}} /\ UserStep(u) /\ Suspends(u)
UserCalls(u) == sync = {} /\ (\E s \in Slot : EnsureCall(u, s)) /\ Suspends(u)
Yielded == sync = {} /\ UNCHANGED sync

WatchStep(s) ==
    \/ WatcherCancelled(s)
    \/ /\ ~(Closing /\ pass)
       /\ WatcherStep(s) \/ CloseStep(Watcher(s)) \/ ReportStep(Watcher(s))
ShutStep(s) == CloserVisits(s) \/ CloserGivesUp(s) \/ CloseStep(Closer(s))

Next ==
    \/ \E u \in User : UserMoves(u) \/ UserCalls(u)
    \/ /\ Yielded
       /\ \/ \E s \in Slot : \/ WatchStep(s) \/ ShutStep(s) \/ RuntimeDies(s)
                             \/ TtlPasses(s) \/ BackoffEnds(s)
          \/ StartPass \/ EndPass \/ CloseBegin \/ CloseSlots \/ CloseEnd

Spec == Init /\ [][Next]_vars

(***************************************************************************)
(* Fairness.  Tasks go on when they can, a Turn ends, time passes, and the  *)
(* health check that schedules the watchdog comes round again and again, so *)
(* that a slot that stays loaded is probed.                                 *)
(***************************************************************************)
VisitProbe(s) == ~(Closing /\ pass) /\ VisitProbes(s, Watcher(s))

Fairness ==
    /\ \A u \in User : WF_vars(UserMoves(u))
    /\ \A s \in Slot : /\ WF_vars(Yielded /\ WatchStep(s))
                       /\ WF_vars(Yielded /\ ShutStep(s))
                       /\ SF_vars(Yielded /\ VisitProbe(s))
                       /\ WF_vars(Yielded /\ TtlPasses(s))
                       /\ WF_vars(Yielded /\ BackoffEnds(s))
    /\ WF_vars(Yielded /\ StartPass) /\ WF_vars(Yielded /\ EndPass)
    /\ WF_vars(Yielded /\ CloseSlots) /\ WF_vars(Yielded /\ CloseEnd)

FairSpec == Spec /\ Fairness

-----------------------------------------------------------------------------
(* Correctness. *)

AppServers == UNION {{s} \X process[s] : s \in Slot}

\* Never more than MaxActive app-servers run, those that did not close and
\* those that start included.
AppServersBounded == Cardinality(AppServers) <= MaxActive

\* A project has one app-server: a new generation starts only when the last one
\* was closed, however it ended.
OneAppServer == \A s \in Slot : Cardinality(process[s]) <= 1

\* A slot that nobody works on holds capacity just when it has a runtime: no
\* way a start, a close or a report ends leaks capacity or frees it early.
CapacityFits ==
    \A s \in Slot : lock[s] = <<>> => slot[s].reserved = slot[s].loaded

\* An active Turn keeps its runtime until it ends or is reported: neither idle
\* eviction nor capacity pressure closes it.
LiveWorkSpared ==
    ~Closing =>
       \A u \in live : /\ slot[Home(u)].gen = task[u].gen /\ slot[Home(u)].loaded
                       /\ lease[Home(u)] = "ready"

\* A shutdown that reports no error has closed every app-server.
CleanShutdown == phase = "closed" /\ ~closeError => AppServers = {}

\* Starts that need capacity are served in FIFO order (design 6): the first of
\* them never waits for a slot that a later one has locked.
StartsInOrder ==
    ~\E s \in Slot : \E i \in DOMAIN lock[s], j \in DOMAIN startLock :
        /\ i > 1 /\ lock[s][i] = Head(startLock)
        /\ j > 1 /\ Head(lock[s]) = startLock[j]

\* Who waits for capacity is served (design 6: FIFO, and slots past the idle
\* TTL without live work are closed first).
CapacityServed == \A u \in User : At(u, "gate") ~> ~At(u, "gate")

\* ensure answers, when there is capacity for every slot.
EnsureAnswers == \A u \in User : At(u, "ensure") ~> At(u, "got") \/ At(u, "off")

\* A runtime that is lost, or did not close when it was evicted, does not stay
\* in the slot as ready: the watchdog finds it.
LostRuntimeIsFound ==
    \A s \in Slot :
       LET lost == /\ slot[s].ready
                   /\ lease[s] # "ready" \/ slot[s].gen \notin process[s]
       IN lost ~> ~lost \/ Closing

\* close() ends, whatever the tasks it finds are waiting for.
ShutdownEnds == phase = "closing" ~> phase = "closed"
=============================================================================
