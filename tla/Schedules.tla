------------------------------- MODULE Schedules -------------------------------
(***************************************************************************)
(* Schedules: the ScheduleCoordinator's timer, the owner's commands and    *)
(* cards, and the tables schedules, schedule_fires and schedule_drafts.    *)
(*                                                                         *)
(* A step is one transaction. The clock counts the minutes a cron          *)
(* expression matches: at clock = n its occurrences 1..n are due, and      *)
(* every command falls between two of them. Versions only grow, so what    *)
(* expects one that is past can never succeed: it leaves the model as soon *)
(* as somebody writes the row. Each Schedule has a Conversation of its     *)
(* own, and names do not collide.                                          *)
(***************************************************************************)
EXTENDS Integers, Sequences, FiniteSets

CONSTANTS
    Schedule,    \* ids of Schedules
    Draft,       \* drafts that may be open at a time
    CronPolicy,  \* misfire policies that cron definitions use
    OncePolicy,  \* misfire policies that definitions of one occurrence use
    Horizon,     \* minutes the clock runs
    MaxEdit,     \* commands of the owner on a Schedule there is
    MaxDue,      \* _MAX_DUE_OCCURRENCES_PER_TICK
    MaxFaults,   \* failures of the environment the instance has
    Env          \* the failures it may have

ASSUME SchedulesAssumption ==
    /\ {"none", "new"} \cap Schedule = {}
    /\ CronPolicy \cup OncePolicy \subseteq {"skip", "latest", "all"}
    /\ Horizon \in Nat \ {0} /\ MaxDue \in Nat \ {0} /\ MaxEdit \in Nat /\ MaxFaults \in Nat

(***************************************************************************)
(* Members of Env:                                                         *)
(*   "crash"   the process dies between two steps and starts again         *)
(*   "zone"    a time zone is missing from the database                    *)
(*   "dead"    a message of a Schedule's Turn cannot be delivered for good *)
(* and, one of the owner's commands,                                       *)
(*   "target"  the Conversation is no target: closed, or its root is gone  *)
(***************************************************************************)

Minute == 1..Horizon
NoDue == 0                            \* next_due_at IS NULL
Definition ==
    [kind : {"cron"}, policy : CronPolicy, at : {0}] \cup [kind : {"once"}, policy : OncePolicy, at : 1..Horizon + 1]
Fires == {"none", "skipped", "blocked", "materialized"}

VARIABLES
    clock,
    sched,   \* rows of schedules
    behind,  \* Schedules with another version than the timer counts for them
    draft,   \* rows of schedule_drafts that can be confirmed
    review,  \* Schedules with a delete confirmation of their config_revision
    fires,   \* schedule_fires of the timer by Schedule and occurrence
    since,   \* first occurrence the last command that set the cursor left to the timer
    target,  \* Schedules whose Conversation may take a Turn
    manual,  \* Schedules with a manual run whose wake is to come
    timer,   \* local state of the coordinator's task
    asleep,  \* Schedules with a Turn their Conversation was not woken for
    edits,   \* commands so far
    faults

table == <<sched, behind, draft, review>>
vars == <<clock, table, fires, since, target, manual, timer, asleep, edits, faults>>

NoRow == [st |-> "none", def |-> [kind |-> "cron", policy |-> "all", at |-> 0], cur |-> NoDue]
NoDraft == [to |-> "none", def |-> NoRow.def, next |-> NoDue]
Idle == [pc |-> "idle", wake |-> TRUE, now |-> 0, snaps |-> {}, of |-> "none", todo |-> <<>>, fired |-> FALSE]

Init ==
    /\ clock = 0
    /\ sched = [s \in Schedule |-> NoRow]
    /\ behind = {}
    /\ draft = [d \in Draft |-> NoDraft]
    /\ review = {} /\ manual = {}
    /\ fires = [s \in Schedule |-> [o \in Minute |-> "none"]]
    /\ since = [s \in Schedule |-> 0]
    /\ target = Schedule
    /\ timer = Idle
    /\ asleep = {}
    /\ edits = 0 /\ faults = 0

Fault(event) == event \in Env /\ faults < MaxFaults /\ faults' = faults + 1
Up == timer.pc # "down"
Edit == Up /\ edits < MaxEdit /\ edits' = edits + 1

Pass ==
    /\ clock < Horizon /\ clock' = clock + 1
    /\ UNCHANGED <<table, fires, since, target, manual, timer, asleep, edits, faults>>

(***************************************************************************)
(* Rows of schedules.                                                      *)
(***************************************************************************)
NextOccurrence(def, after) ==
    IF def.kind = "cron" THEN after + 1 ELSE IF def.at > after THEN def.at ELSE NoDue

\* the trigger schedules_config_revision
Revised(old, new) == old.st # new.st \/ old.def # new.def

\* Schedules the timer has a version of
Counted(s) == timer.of = s \/ \E snap \in timer.snaps : snap.of = s

\* what an UPDATE of schedules ends: drafts expect the version, deletions the config_revision
Lapse(s, new) ==
    /\ draft' = [d \in Draft |-> IF draft[d].to = s THEN NoDraft ELSE draft[d]]
    /\ review' = IF Revised(sched[s], new) THEN review \ {s} ELSE review

\* an UPDATE by the timer, which counts it
TimerWrite(s, new) ==
    /\ sched' = [sched EXCEPT ![s] = new]
    /\ Lapse(s, new)
    /\ UNCHANGED behind

\* an UPDATE by anybody else
Write(s, new) ==
    /\ sched' = [sched EXCEPT ![s] = new]
    /\ Lapse(s, new)
    /\ behind' = IF Counted(s) THEN behind \cup {s} ELSE behind

\* a command that sets the cursor: what is due before it is nobody's
WriteCursor(s, new) ==
    /\ Write(s, new)
    /\ since' = [since EXCEPT ![s] = new.cur]

Blocked(r) == [r EXCEPT !.st = "blocked", !.cur = NoDue]

Advance(r, next) ==
    [r EXCEPT !.cur = next,
              !.st = IF r.def.kind = "once" /\ next = NoDue THEN "completed" ELSE @]

\* the guard of record_skipped and materialize: active, and of the version the timer counts
AcceptsAnyVersion(s) == sched[s].st = "active"
Accepts(s) == sched[s].st = "active" /\ s \notin behind

\* materialize: a Turn, or a fire that blocks the Schedule
FireState(s) == IF s \in target THEN "materialized" ELSE "blocked"
AfterFire(s, next) == IF s \in target THEN Advance(sched[s], next) ELSE Blocked(sched[s])

(***************************************************************************)
(* The timer. A tick reads the rows that are due, and works them off one   *)
(* transaction at a time, each under the version the tick counted itself.  *)
(***************************************************************************)
Due(now) == {s \in Schedule : sched[s].st = "active" /\ sched[s].cur # NoDue /\ sched[s].cur <= now}

BeginTick ==
    timer' = [timer EXCEPT !.pc = "tick", !.now = clock,
                           !.snaps = {[of |-> s, row |-> sched[s]] : s \in Due(clock)}]

Tick ==
    /\ timer.pc = "idle" /\ Due(clock) # {} /\ BeginTick
    /\ UNCHANGED <<clock, table, fires, since, target, manual, asleep, edits, faults>>

\* the occurrences from the cursor up to now, at most MaxDue
Batch(r, now) ==
    IF r.def.kind = "once" THEN <<r.cur>>
    ELSE LET last == IF now < r.cur + MaxDue THEN now ELSE r.cur + MaxDue - 1
         IN [i \in 1..last - r.cur + 1 |-> r.cur + i - 1]

FollowingStuck(r, batch) == batch[Len(batch)]
FollowingLate(r, batch) == IF r.def.kind = "cron" THEN batch[Len(batch)] + 2 ELSE NoDue
Following(r, batch) == NextOccurrence(r.def, batch[Len(batch)])

\* what the policy does with the i-th of them; onTime: the last one is not older than
\* twice the polling interval
Fate(r, now, batch, onTime, i) ==
    LET after == Following(r, batch)
        present == after = NoDue \/ after > now
    IN CASE r.def.policy = "all" -> "fire"
         [] r.def.policy = "latest" -> IF i = Len(batch) /\ present THEN "fire" ELSE "skip"
         [] r.def.policy = "skip" -> IF i = Len(batch) /\ present /\ onTime THEN "fire" ELSE "skip"

Plan(r, now, onTime) ==
    LET batch == Batch(r, now) IN
    [i \in DOMAIN batch |->
        [at |-> batch[i], do |-> Fate(r, now, batch, onTime, i),
         next |-> IF i < Len(batch) THEN batch[i + 1] ELSE Following(r, batch)]]

\* _process_due up to its first transaction
Process(snap, onTime) ==
    /\ timer.pc = "tick"
    /\ onTime => LET batch == Batch(snap.row, timer.now) IN batch[Len(batch)] = timer.now
    /\ timer' = [timer EXCEPT !.pc = "batch", !.snaps = @ \ {snap}, !.of = snap.of,
                              !.todo = Plan(snap.row, timer.now, onTime)]
    /\ UNCHANGED <<clock, table, fires, since, target, manual, asleep, edits, faults>>

\* ConfigurationError for the definition: block() under the version of the snapshot
BlockInvalid(snap) ==
    /\ timer.pc = "tick" /\ Fault("zone")
    /\ timer' = [timer EXCEPT !.snaps = @ \ {snap}]
    /\ IF sched[snap.of].st # "deleted" /\ snap.of \notin behind
       THEN TimerWrite(snap.of, Blocked(sched[snap.of]))
       ELSE behind' = behind \ {snap.of} /\ UNCHANGED <<sched, draft, review>>
    /\ UNCHANGED <<clock, fires, since, target, manual, asleep, edits>>

Working(do) == timer.pc = "batch" /\ ~timer.fired /\ timer.todo # <<>> /\ Head(timer.todo).do = do

\* what is left when an occurrence could not be skipped: skip goes on to the occurrence that
\* is on time, latest gives up
AfterRefusal(s) ==
    LET last == timer.todo[Len(timer.todo)] IN
    IF last.do = "fire" /\ sched[s].def.policy = "skip" THEN <<last>> ELSE <<>>

\* record_skipped
Skip ==
    /\ Working("skip")
    /\ LET s == timer.of
           step == Head(timer.todo)
       IN IF Accepts(s)
          THEN /\ fires' = IF fires[s][step.at] = "none"
                           THEN [fires EXCEPT ![s][step.at] = "skipped"] ELSE fires
               /\ TimerWrite(s, Advance(sched[s], step.next))
               /\ timer' = [timer EXCEPT !.todo = Tail(@)]
          ELSE /\ timer' = [timer EXCEPT !.todo = AfterRefusal(s)]
               /\ UNCHANGED <<table, fires>>
    /\ UNCHANGED <<clock, since, target, manual, asleep, edits, faults>>

\* materialize: the fire, its Turn and the cursor in one transaction. An occurrence that has a
\* fire would keep it and the cursor; CursorAhead says that the timer meets none
Fire ==
    /\ Working("fire")
    /\ LET s == timer.of
           step == Head(timer.todo)
           made == s \in target
       IN /\ fires[s][step.at] = "none" /\ Accepts(s)
          /\ fires' = [fires EXCEPT ![s][step.at] = FireState(s)]
          /\ TimerWrite(s, AfterFire(s, step.next))
          /\ asleep' = IF made THEN asleep \cup {s} ELSE asleep
          /\ timer' = [timer EXCEPT !.todo = Tail(@), !.fired = made /\ timer.wake]
    /\ UNCHANGED <<clock, since, target, manual, edits, faults>>

\* ConflictError ends the work on this Schedule
FireRefused ==
    /\ Working("fire")
    /\ fires[timer.of][Head(timer.todo).at] = "none" /\ ~Accepts(timer.of)
    /\ timer' = [timer EXCEPT !.todo = <<>>]
    /\ UNCHANGED <<clock, table, fires, since, target, manual, asleep, edits, faults>>

\* TurnCoordinator.wake: the mailbox of the Conversation sees every queued Turn of it
WakeTurn ==
    /\ timer.pc = "batch" /\ timer.fired
    /\ timer' = [timer EXCEPT !.fired = FALSE]
    /\ asleep' = asleep \ {timer.of}
    /\ UNCHANGED <<clock, table, fires, since, target, manual, edits, faults>>

Done ==
    /\ timer.pc = "batch" /\ timer.todo = <<>> /\ ~timer.fired
    /\ timer' = [timer EXCEPT !.pc = "tick", !.of = "none"]
    /\ behind' = behind \ {timer.of}
    /\ UNCHANGED <<clock, sched, draft, review, fires, since, target, manual, asleep, edits, faults>>

\* the tick of restore() wakes nobody: TurnCoordinator.restore comes after it and wakes every
\* Conversation with a queued Turn
StillAsleep == asleep
AsleepAfter == IF timer.wake THEN asleep ELSE {}

EndTick ==
    /\ timer.pc = "tick" /\ timer.snaps = {}
    /\ timer' = Idle
    /\ asleep' = AsleepAfter
    /\ UNCHANGED <<clock, table, fires, since, target, manual, edits, faults>>

(***************************************************************************)
(* Crash, and the start after it.                                          *)
(***************************************************************************)
Crash ==
    /\ Up /\ Fault("crash")
    /\ timer' = [Idle EXCEPT !.pc = "down", !.wake = FALSE]
    /\ manual' = {} /\ behind' = {}
    /\ UNCHANGED <<clock, sched, draft, review, fires, since, target, asleep, edits>>

\* reconcile_startup: an active Schedule that has lost its target is blocked
Reconcile(s) ==
    /\ timer.pc = "down"
    /\ sched[s].st = "active" /\ s \notin target
    /\ TimerWrite(s, Blocked(sched[s]))
    /\ UNCHANGED <<clock, fires, since, target, manual, timer, asleep, edits, faults>>

\* then the tick of restore() begins
Restore ==
    /\ timer.pc = "down" /\ BeginTick
    /\ \A s \in Schedule : sched[s].st = "active" => s \in target
    /\ UNCHANGED <<clock, table, fires, since, target, manual, asleep, edits, faults>>

(***************************************************************************)
(* Drafts: a card previews a definition, the owner confirms or cancels it. *)
(***************************************************************************)
\* parse_schedule_spec and preview_occurrences: a definition with a next occurrence
Previews(def) == def.kind = "cron" \/ def.at = clock + 1
Open(r) == r.st \in {"active", "paused", "blocked"}

NewDraft(to, def) == [to |-> to, def |-> def, next |-> NextOccurrence(def, clock)]

\* the modal of /schedule create
CreateDraft(d, def) ==
    /\ Up /\ draft[d] = NoDraft /\ Previews(def)
    /\ \E s \in target : sched[s].st = "none"
    /\ draft' = [draft EXCEPT ![d] = NewDraft("new", def)]
    /\ UNCHANGED <<clock, sched, behind, review, fires, since, target, manual, timer, asleep, edits, faults>>

\* the tool schedule_create of a Turn: refused, or a draft whose card the outbox posts
ToolDraft(d, def) == CreateDraft(d, def)

\* the modal of /schedule update
UpdateDraft(d, s, def) ==
    /\ Edit /\ draft[d] = NoDraft /\ Previews(def)
    /\ Open(sched[s]) /\ s \in target
    /\ draft' = [draft EXCEPT ![d] = NewDraft(s, def)]
    /\ UNCHANGED <<clock, sched, behind, review, fires, since, target, manual, timer, asleep, faults>>

\* cancelled by the owner, or expired after ten minutes, or with a card that cannot be delivered
CloseDraft(d) ==
    /\ draft[d] # NoDraft
    /\ draft' = [draft EXCEPT ![d] = NoDraft]
    /\ UNCHANGED <<clock, sched, behind, review, fires, since, target, manual, timer, asleep, edits, faults>>

\* confirm_draft. An update changes the version, which ends every draft of the Schedule
ConfirmCreate(d, s) ==
    /\ Up /\ draft[d].to = "new" /\ s \in target /\ sched[s].st = "none"
    /\ sched' = [sched EXCEPT ![s] = [st |-> "active", def |-> draft[d].def, cur |-> draft[d].next]]
    /\ since' = [since EXCEPT ![s] = draft[d].next]
    /\ draft' = [draft EXCEPT ![d] = NoDraft]
    /\ UNCHANGED <<clock, behind, review, fires, target, manual, timer, asleep, edits, faults>>

Updated(r, d) ==
    [r EXCEPT !.def = draft[d].def, !.cur = IF r.st = "active" THEN draft[d].next ELSE NoDue]

ConfirmUpdate(d, s) ==
    /\ Up /\ draft[d].to = s /\ s \in target /\ Open(sched[s])
    /\ WriteCursor(s, Updated(sched[s], d))
    /\ UNCHANGED <<clock, fires, target, manual, timer, asleep, edits, faults>>

(***************************************************************************)
(* The owner's controls: one transaction that reads the row and writes it, *)
(* and a deletion in two, reviewed in between.                             *)
(***************************************************************************)
Pause(s) ==
    /\ Edit /\ sched[s].st = "active"
    /\ Write(s, [sched[s] EXCEPT !.st = "paused", !.cur = NoDue])
    /\ UNCHANGED <<clock, fires, since, target, manual, timer, asleep, faults>>

ResumeAt(r) == NextOccurrence(r.def, clock)

Resume(s) ==
    /\ Edit /\ sched[s].st \in {"paused", "blocked"} /\ s \in target
    /\ ResumeAt(sched[s]) # NoDue
    /\ WriteCursor(s, [sched[s] EXCEPT !.st = "active", !.cur = ResumeAt(sched[s])])
    /\ UNCHANGED <<clock, fires, target, manual, timer, asleep, faults>>

PrepareDelete(s) ==
    /\ Edit /\ sched[s].st \notin {"none", "deleted"}
    /\ review' = review \cup {s}
    /\ UNCHANGED <<clock, sched, behind, draft, fires, since, target, manual, timer, asleep, faults>>

\* after ten minutes
CloseReview(s) ==
    /\ s \in review
    /\ review' = review \ {s}
    /\ UNCHANGED <<clock, sched, behind, draft, fires, since, target, manual, timer, asleep, edits, faults>>

ConfirmDelete(s) ==
    /\ Up /\ s \in review /\ sched[s].st # "deleted"
    /\ Write(s, [sched[s] EXCEPT !.st = "deleted", !.cur = NoDue])
    /\ UNCHANGED <<clock, fires, since, target, manual, timer, asleep, edits, faults>>

\* run_now: a fire with the key of the interaction, then the wake
RunNow(s) ==
    /\ Edit /\ sched[s].st = "active"
    /\ IF s \in target
       THEN asleep' = asleep \cup {s} /\ manual' = manual \cup {s} /\ UNCHANGED table
       ELSE Write(s, Blocked(sched[s])) /\ UNCHANGED <<asleep, manual>>
    /\ UNCHANGED <<clock, fires, since, target, timer, faults>>

WakeRun(s) ==
    /\ Up /\ s \in manual
    /\ manual' = manual \ {s} /\ asleep' = asleep \ {s}
    /\ UNCHANGED <<clock, table, fires, since, target, timer, edits, faults>>

(***************************************************************************)
(* What other components do to a Schedule.                                 *)
(***************************************************************************)
TargetLost(s) ==
    /\ s \in target /\ "target" \in Env /\ Edit
    /\ target' = target \ {s}
    /\ UNCHANGED <<clock, table, fires, since, manual, timer, asleep, faults>>

TargetBack(s) ==
    /\ s \notin target
    /\ target' = target \cup {s}
    /\ UNCHANGED <<clock, table, fires, since, manual, timer, asleep, edits, faults>>

\* fail_outbox_permanently for a row of a Turn the Schedule fired
Blockable(r) == r.st # "deleted"

TurnUndeliverable(s) ==
    /\ Up /\ \E o \in Minute : fires[s][o] = "materialized"
    /\ Blockable(sched[s]) /\ Fault("dead")
    /\ Write(s, Blocked(sched[s]))
    /\ UNCHANGED <<clock, fires, since, target, manual, timer, asleep, edits>>

TimerStep ==
    \/ Tick \/ Skip \/ Fire \/ FireRefused \/ WakeTurn \/ Done \/ EndTick \/ Restore
    \/ \E snap \in timer.snaps, onTime \in BOOLEAN : Process(snap, onTime)
    \/ \E s \in Schedule : Reconcile(s)

OwnerStep ==
    \/ \E d \in Draft, def \in Definition : CreateDraft(d, def) \/ ToolDraft(d, def)
    \/ \E d \in Draft, s \in Schedule, def \in Definition : UpdateDraft(d, s, def)
    \/ \E d \in Draft : CloseDraft(d)
    \/ \E d \in Draft, s \in Schedule : ConfirmCreate(d, s) \/ ConfirmUpdate(d, s)
    \/ \E s \in Schedule :
        Pause(s) \/ Resume(s) \/ PrepareDelete(s) \/ CloseReview(s) \/ ConfirmDelete(s) \/ RunNow(s)

Next ==
    \/ Pass \/ TimerStep \/ OwnerStep \/ Crash
    \/ \E snap \in timer.snaps : BlockInvalid(snap)
    \/ \E s \in Schedule : WakeRun(s) \/ TargetLost(s) \/ TargetBack(s) \/ TurnUndeliverable(s)

Spec == Init /\ [][Next]_vars

\* the task of the coordinator runs, a command that has started ends
FairSpec == Spec /\ WF_vars(TimerStep) /\ \A s \in Schedule : WF_vars(WakeRun(s))

(***************************************************************************)
(* Properties.                                                             *)
(***************************************************************************)
State == {"none", "active", "paused", "blocked", "completed", "deleted"}
Row == [st : State, def : Definition \cup {NoRow.def}, cur : 0..Horizon + 1]
Step == [at : Minute, do : {"fire", "skip"}, next : 0..Horizon + 1]

\* the types of the tables and of the timer's state
TypeOK ==
    /\ clock \in 0..Horizon /\ edits \in 0..MaxEdit /\ faults \in 0..MaxFaults
    /\ sched \in [Schedule -> Row]
    /\ draft \in [Draft -> [to : Schedule \cup {"none", "new"}, def : Definition \cup {NoRow.def},
                            next : 0..Horizon + 1]]
    /\ behind \subseteq Schedule /\ review \subseteq Schedule /\ manual \subseteq Schedule
    /\ fires \in [Schedule -> [Minute -> Fires]]
    /\ since \in [Schedule -> 0..Horizon + 1]
    /\ asleep \subseteq Schedule /\ target \subseteq Schedule
    /\ timer \in [pc : {"idle", "tick", "batch", "down"}, wake : BOOLEAN, now : 0..Horizon,
                  snaps : SUBSET [of : Schedule, row : Row], of : Schedule \cup {"none"},
                  todo : Seq(Step), fired : BOOLEAN]

\* occurrences of a definition
Occurrences(def) == IF def.kind = "cron" THEN Minute ELSE {def.at} \cap Minute

\* No occurrence is lost without a trace: whatever lies between the cursor the owner's last
\* command set and the cursor the timer has reached is recorded as fired, skipped or blocked,
\* whatever the policy, however long the process was down, and whoever wrote the row meanwhile
\* (_process_due, record_skipped, materialize).
NoneMissed ==
    \A s \in Schedule :
        /\ sched[s].st = "active" =>
            \A o \in Occurrences(sched[s].def) :
                since[s] <= o /\ (sched[s].cur = NoDue \/ o < sched[s].cur) => fires[s][o] # "none"
        /\ sched[s].st = "completed" =>
            \A o \in Occurrences(sched[s].def) : since[s] <= o => fires[s][o] # "none"

\* The cursor of an active Schedule lies after every occurrence that has a fire: materialize
\* returns an existing fire without moving the cursor, so an occurrence behind it would be met
\* again by every tick.
CursorAhead ==
    \A s \in Schedule : sched[s].st = "active" =>
        sched[s].cur # NoDue /\ \A o \in Minute : fires[s][o] # "none" => o < sched[s].cur

\* The timer gives an occurrence a Turn only while the row in the table is active and its own
\* cursor stands at that occurrence: a tick that goes on from an old snapshot fires nothing the
\* owner has paused, deleted or moved meanwhile (the version materialize expects).
FiresAtCursor ==
    [][\A s \in Schedule, o \in Minute :
        fires[s][o] = "none" /\ fires'[s][o] # "none" => sched[s].st = "active" /\ sched[s].cur = o]_vars

\* A deleted Schedule stays deleted and fires nothing, neither on the clock nor by hand, nor is
\* it blocked by a message of an earlier Turn that cannot be delivered.
DeletedIsFinal ==
    [][\A s \in Schedule : sched[s].st = "deleted" => sched'[s] = sched[s] /\ fires'[s] = fires[s]]_vars

\* The timer catches up: in the end no active Schedule has an occurrence that is due, and every
\* Turn of a Schedule was woken, those of a crash between materialize and wake included.
DueSettles == []<>(asleep = {} /\ (clock = Horizon => Due(clock) = {}))
================================================================================
