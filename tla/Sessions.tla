------------------------------- MODULE Sessions -------------------------------
(***************************************************************************)
(* Sessions: the owner's commands on one Conversation, from the Discord    *)
(* interaction to its durable answer. A command that changes the provider  *)
(* Thread runs under the Conversation's lock: it records its intent and a  *)
(* barrier, calls the provider, and commits the outcome with the answer.   *)
(* The process may die, and the provider's answer be lost, anywhere        *)
(* between; a monitor watches the barrier of a compaction.                 *)
(*                                                                         *)
(* A step is one transaction or one answer of the provider. The Turns of   *)
(* the Conversation are one bit here (TurnLifecycle has them).             *)
(***************************************************************************)
EXTENDS Naturals, FiniteSets

CONSTANTS
    Intent,     \* ids of interactions; each is one row of command_intents
    Command,    \* commands the owner may give
    MaxRev,     \* revisions the Conversation may come to have
    MaxFaults,  \* failures of the environment the instance has
    Env,        \* the failures it may have
    none        \* no intent

ASSUME SessionsAssumption ==
    /\ none \notin Intent /\ MaxRev \in Nat \ {0} /\ MaxFaults \in Nat
    /\ Command \subseteq {"new", "resume", "fork", "archive", "rename", "compact", "websearch", "clear", "set"}

(***************************************************************************)
(* Members of Env:                                                         *)
(*   "crash"     the process dies between two steps and starts again       *)
(*   "lost"      the answer of the provider does not arrive                *)
(*   "identity"  the provider answers with another Thread                  *)
(*   "commit"    a transaction after the provider's answer fails: of the   *)
(*               outcome, of what undoes or marks it, or of the fence      *)
(*   "unknown"   a snapshot of the Thread cannot be read                   *)
(*   "monitor"   the monitor meets an error that is not the adapter's      *)
(*   "turn"      a Turn is queued                                          *)
(*   "delete"    the Discord thread is deleted                             *)
(***************************************************************************)

Revision == 1..MaxRev
Local == {"clear", "set"}                   \* commands that call no provider
Recovery == {"new", "resume"}               \* commands that lift a safety fence
Final == {"succeeded", "rejected", "failed", "unknown"}
Held == {"prep", "ready", "call", "commit", "undo", "mark", "fence"}

VARIABLES
    conv,     \* row of conversations: state, active revision, barrier and its intent
    rev,      \* thread_revisions: the state of each row
    intent,   \* command_intents: state and command
    task,     \* local state of the task that runs an intent
    asked,    \* what the provider was asked and did for each intent
    drift,    \* what the provider did or does that is not taken account of here
    thread,   \* the provider Thread of the active revision: "idle" or "compacting"
    monitor,  \* the barrier monitor; "dead" also if it should run and was not started
    looked,   \* the command whose barrier it found to be over
    busy,     \* a Turn is queued or active
    stolen,   \* a barrier was cleared that the monitor had not found to be over
    faults

vars == <<conv, rev, intent, task, asked, drift, thread, monitor, looked, busy, stolen, faults>>
world == <<asked, drift, thread>>
watch == <<monitor, looked>>

NoTask == [pc |-> "none", to |-> 0]

Init ==
    /\ conv = [st |-> "active", act |-> 1, bar |-> "none", by |-> none]
    /\ rev = [r \in Revision |-> IF r = 1 THEN "active" ELSE "none"]
    /\ intent = [i \in Intent |-> [st |-> "none", cmd |-> "set"]]
    /\ task = [i \in Intent |-> NoTask]
    /\ asked = [i \in Intent |-> "no"]
    /\ drift = "no" /\ thread = "idle"
    /\ monitor = "off" /\ looked = none
    /\ busy = FALSE /\ stolen = FALSE /\ faults = 0

Fault(event) == event \in Env /\ faults < MaxFaults /\ faults' = faults + 1
Goto(i, pc) == task' = [task EXCEPT ![i].pc = pc]
Free == \A i \in Intent : task[i].pc \notin Held

(***************************************************************************)
(* The rows.                                                               *)
(***************************************************************************)
Cleared(c) == [c EXCEPT !.bar = "none", !.by = none]
Fenced(c) == IF c.st = "deleted" THEN c ELSE [c EXCEPT !.st = "blocked"]

\* an intent gets its answer, unless it has one
Answered(i, st) == IF i = none THEN intent ELSE [intent EXCEPT ![i].st = st]
MayAnswer(i) == i # none => intent[i].st \notin Final

\* activate_thread_revision: r is the active revision, and the only one
Activated(r) == [s \in Revision |-> IF s = r THEN "active" ELSE IF rev[s] = "active" THEN "superseded" ELSE rev[s]]
MayActivateAnyway == TRUE
MayActivate == conv.st # "deleted"
Fresh == {r \in Revision : rev[r] = "none"}
FirstFresh == {r \in Fresh : \A s \in Fresh : r <= s}

(***************************************************************************)
(* The interaction arrives, or arrives again.                              *)
(***************************************************************************)
\* accept_command_intent: a new row, or the row of the same request
Acceptable(i, cmd) == intent[i].st = "none" \/ intent[i] = [st |-> "accepted", cmd |-> cmd]

\* one action runs at a time for an interaction whose intent is still unanswered
Accept(i, cmd) ==
    /\ Acceptable(i, cmd) /\ task[i].pc = "none"
    /\ intent' = [intent EXCEPT ![i] = [st |-> "accepted", cmd |-> cmd]]
    /\ Goto(i, "wait")
    /\ UNCHANGED <<conv, rev, world, watch, busy, stolen, faults>>

\* an error ends the action; the lock is free again
Refuse(i) ==
    /\ Goto(i, "error")
    /\ UNCHANGED <<conv, rev, intent, world, watch, busy, stolen, faults>>

\* _context and assert_conversation_mutable
Admits(cmd) ==
    /\ conv.st # "deleted" /\ ~busy
    /\ cmd \in Recovery \/ (conv.st # "blocked" /\ conv.bar = "none")

Start(i) ==
    /\ task[i].pc = "wait" /\ Free
    /\ \/ /\ Admits(intent[i].cmd)
          /\ Goto(i, IF conv.st = "blocked" THEN "prep" ELSE "ready")
          /\ UNCHANGED <<conv, rev, intent, world, watch, busy, stolen, faults>>
       \/ ~Admits(intent[i].cmd) /\ Refuse(i)

\* prepare_explicit_session_recovery: the fence and the barrier are lifted before anything is tried
Prepare(i) ==
    /\ task[i].pc = "prep"
    /\ Goto(i, "ready")
    /\ IF conv.st # "blocked" THEN UNCHANGED <<conv, intent, drift>>
       ELSE /\ conv' = IF intent[i].cmd = "new"
                       THEN [Cleared(conv) EXCEPT !.st = "uninitialized", !.act = 0]
                       ELSE [Cleared(conv) EXCEPT !.st = "active"]
            /\ intent' = IF conv.by # none /\ intent[conv.by].st \in {"effect_in_flight", "reconciling"}
                         THEN Answered(conv.by, "unknown") ELSE intent
            /\ drift' = "no"
    /\ UNCHANGED <<rev, asked, thread, watch, busy, stolen, faults>>

\* the revision a command is about; a new one gets a row when it is activated
Targets(cmd) ==
    CASE cmd = "new" -> {0}
      [] cmd = "resume" -> {r \in Revision : rev[r] # "none"}
      [] OTHER -> {conv.act} \ {0}

\* the runtime, a capability, the revision or the Thread's identity is missing
NotReady(i) == task[i].pc = "ready" /\ intent[i].cmd \notin Local /\ Refuse(i)

\* the model catalog does not have the choice, or it does not fit the other ones
ChoiceRefused(i) == task[i].pc = "ready" /\ intent[i].cmd = "set" /\ Refuse(i)

\* rename and compact validate the Thread before they begin
Mistaken(i) ==
    /\ task[i].pc = "ready" /\ intent[i].cmd \in {"rename", "compact"} /\ conv.act # 0
    /\ Fault("identity")
    /\ conv' = Fenced(conv)
    /\ Goto(i, "error")
    /\ UNCHANGED <<rev, intent, world, watch, busy, stolen>>

(***************************************************************************)
(* begin_provider_barrier_effect, and the call it announces.               *)
(***************************************************************************)
BarrierOf(cmd) == IF cmd = "compact" THEN "compact" ELSE "unknown_effect"
MayBegin(i) == intent[i].st \in {"accepted", "effect_in_flight"} /\ (conv.bar = "none" \/ conv.by = i)

Begin(i, to) ==
    /\ task[i].pc = "ready"
    /\ intent[i].cmd \notin Local /\ to \in Targets(intent[i].cmd)
    /\ IF ~MayBegin(i) THEN Refuse(i)
       ELSE /\ intent' = [intent EXCEPT ![i].st = "effect_in_flight"]
            /\ conv' = [conv EXCEPT !.bar = BarrierOf(intent[i].cmd), !.by = i]
            /\ task' = [task EXCEPT ![i] = [pc |-> "call", to |-> to]]
            /\ asked' = [asked EXCEPT ![i] = IF @ = "no" THEN "asked" ELSE "again"]
            /\ UNCHANGED <<rev, drift, thread, watch, busy, stolen, faults>>

\* web search without an active revision is a local preference
SetWebSearch(i) ==
    /\ task[i].pc = "ready" /\ intent[i].cmd = "websearch" /\ conv.act = 0
    /\ IF intent[i].st = "accepted"
       THEN intent' = Answered(i, "succeeded") /\ Goto(i, "ok")
            /\ UNCHANGED <<conv, rev, world, watch, busy, stolen, faults>>
       ELSE Refuse(i)

\* the provider does what it is asked
Apply(i) ==
    /\ task[i].pc = "call" /\ asked[i] = "asked"
    /\ asked' = [asked EXCEPT ![i] = "done"]
    /\ IF intent[i].cmd = "compact" THEN thread' = "compacting" /\ drift' = "activity"
       ELSE drift' = "change" /\ UNCHANGED thread
    /\ UNCHANGED <<conv, rev, intent, task, watch, busy, stolen, faults>>

Compacted ==
    /\ thread = "compacting" /\ thread' = "idle"
    /\ drift' = IF drift = "activity" THEN "no" ELSE drift
    /\ UNCHANGED <<conv, rev, intent, task, asked, watch, busy, stolen, faults>>

Succeeds(i) ==
    /\ task[i].pc = "call" /\ asked[i] # "asked"
    /\ Goto(i, "commit")
    /\ UNCHANGED <<conv, rev, intent, world, watch, busy, stolen, faults>>

\* an error the provider gives for certain
Rejects(i) ==
    /\ task[i].pc = "call" /\ asked[i] = "asked"
    /\ Goto(i, "undo")
    /\ UNCHANGED <<conv, rev, intent, world, watch, busy, stolen, faults>>

\* ProviderOutcomeUnknown, or the task is cancelled
AfterLostAsError == "undo"
AfterLost == "mark"
Loses(i) ==
    /\ task[i].pc = "call" /\ Fault("lost")
    /\ Goto(i, AfterLost)
    /\ UNCHANGED <<conv, rev, intent, world, watch, busy, stolen>>

(***************************************************************************)
(* The outcome. One transaction holds the revision, the barrier and the    *)
(* answer of the intent that owns the barrier.                             *)
(***************************************************************************)
CommittedRev(i, r) ==
    CASE intent[i].cmd = "archive" -> [rev EXCEPT ![r] = "archived"]
      [] intent[i].cmd = "rename" -> rev
      [] OTHER -> Activated(r)

CommittedConv(i, r) ==
    CASE intent[i].cmd = "archive" -> [conv EXCEPT !.st = "archived", !.act = 0]
      [] intent[i].cmd = "rename" -> conv
      [] OTHER -> [conv EXCEPT !.st = "active", !.act = r]

\* the guards of archive_active_revision, rename_active_revision and activate_thread_revision
MayCommit(i, r) ==
    /\ MayActivate /\ MayAnswer(conv.by)
    /\ intent[i].cmd = "archive" => ~busy /\ rev[r] = "active"
    /\ intent[i].cmd = "rename" => conv.st = "active" /\ conv.act = r

Row(i) == IF intent[i].cmd \in {"new", "fork"} THEN FirstFresh ELSE {task[i].to}

Commit(i, r) ==
    /\ task[i].pc = "commit" /\ intent[i].cmd # "compact" /\ r \in Row(i)
    /\ MayCommit(i, r)
    /\ rev' = CommittedRev(i, r)
    /\ conv' = Cleared(CommittedConv(i, r))
    /\ intent' = Answered(conv.by, "succeeded")
    /\ drift' = "no"
    /\ Goto(i, "ok")
    /\ UNCHANGED <<asked, thread, watch, busy, stolen, faults>>

\* the transaction fails; all but archive fence at once
CommitFails(i) ==
    /\ task[i].pc = "commit" /\ intent[i].cmd # "compact"
    /\ \/ Fault("commit")
       \/ (\A r \in Row(i) : ~MayCommit(i, r)) /\ UNCHANGED faults
    /\ conv' = IF intent[i].cmd = "archive" THEN conv ELSE Fenced(conv)
    /\ Goto(i, "mark")
    /\ UNCHANGED <<rev, intent, world, watch, busy, stolen>>

\* the identity of the answer is another: resume and websearch fence at once
Mismatch(i) ==
    /\ task[i].pc = "commit" /\ intent[i].cmd \in {"resume", "websearch", "fork"}
    /\ Fault("identity")
    /\ conv' = IF intent[i].cmd = "fork" THEN conv ELSE Fenced(conv)
    /\ Goto(i, "mark")
    /\ UNCHANGED <<rev, intent, world, watch, busy, stolen>>

\* monitor_provider_barrier: the barrier stays until the Thread is idle
Watched == IF monitor \in {"off", "dead"} THEN "look" ELSE monitor

\* an error on the way to monitor_provider_barrier: one that runs goes on
Unwatched(i) == IF intent[i].cmd = "compact" /\ monitor = "off" THEN "dead" ELSE monitor

\* the compaction is accepted
CompactAccepted(i) ==
    /\ task[i].pc = "commit" /\ intent[i].cmd = "compact"
    /\ IF MayAnswer(conv.by) THEN /\ intent' = Answered(conv.by, "succeeded")
                                  /\ monitor' = Watched
                                  /\ Goto(i, "ok")
       ELSE Goto(i, "error") /\ UNCHANGED <<intent, monitor>>
    /\ UNCHANGED <<conv, rev, world, looked, busy, stolen, faults>>

\* the transaction of an accepted compaction fails: nothing is marked
CompactFails(i) ==
    /\ task[i].pc = "commit" /\ intent[i].cmd = "compact" /\ Fault("commit")
    /\ monitor' = Unwatched(i)
    /\ Goto(i, "error")
    /\ UNCHANGED <<conv, rev, intent, world, looked, busy, stolen>>

\* resolve_provider_barrier_effect after an error the provider gave
Undo(i) ==
    /\ task[i].pc = "undo"
    /\ Goto(i, "error")
    /\ IF MayAnswer(conv.by) THEN /\ intent' = Answered(conv.by, "rejected")
                                  /\ conv' = Cleared(conv)
       ELSE UNCHANGED <<intent, conv>>
    /\ UNCHANGED <<rev, world, watch, busy, stolen, faults>>

\* its failure is a note of the error: the barrier stays
UndoFails(i) ==
    /\ task[i].pc = "undo" /\ Fault("commit")
    /\ monitor' = Unwatched(i)
    /\ Goto(i, "error")
    /\ UNCHANGED <<conv, rev, intent, world, looked, busy, stolen>>

\* mark_provider_barrier_outcome_unknown: the barrier stays
MarkedAndCleared(c) == Cleared(c)
Marked(c) == c
MarkedIntent ==
    IF conv.bar # "none" /\ conv.by # none /\ intent[conv.by].st \in {"effect_in_flight", "reconciling"}
    THEN Answered(conv.by, "unknown") ELSE intent

Mark(i) ==
    /\ task[i].pc = "mark"
    /\ intent' = MarkedIntent
    /\ conv' = Marked(conv)
    /\ IF intent[i].cmd = "compact" THEN /\ Goto(i, "error")
                                         /\ monitor' = IF conv.bar = "none" THEN monitor ELSE Watched
       ELSE Goto(i, "fence") /\ UNCHANGED monitor
    /\ UNCHANGED <<rev, world, looked, busy, stolen, faults>>

\* a compaction that cannot be marked, or whose incident cannot be recorded, gets
\* no monitor; any other command goes on to its fence
MarkFails(i) ==
    /\ task[i].pc = "mark" /\ Fault("commit")
    /\ IF intent[i].cmd = "compact" THEN Goto(i, "error") /\ intent' \in {intent, MarkedIntent}
       ELSE Goto(i, "fence") /\ UNCHANGED intent
    /\ monitor' = Unwatched(i)
    /\ UNCHANGED <<conv, rev, world, looked, busy, stolen>>

Fence(i) ==
    /\ task[i].pc = "fence"
    /\ conv' = Fenced(conv)
    /\ Goto(i, "error")
    /\ UNCHANGED <<rev, intent, world, watch, busy, stolen, faults>>

FenceFails(i) ==
    /\ task[i].pc = "fence" /\ Fault("commit")
    /\ Goto(i, "error")
    /\ UNCHANGED <<conv, rev, intent, world, watch, busy, stolen>>

(***************************************************************************)
(* Local commands: one transaction changes the row and answers.            *)
(***************************************************************************)
\* a local command is answered in the transaction that changes the row
LocalAdmits(i) == conv.st # "deleted" /\ intent[i].st = "accepted"
AnswerLocally(i) ==
    /\ intent' = Answered(i, "succeeded") /\ Goto(i, "ok")
    /\ UNCHANGED <<world, watch, busy, stolen, faults>>

\* preferences touch neither the Thread nor the state of the Conversation
SetPreference(i) ==
    /\ task[i].pc = "ready" /\ intent[i].cmd = "set"
    /\ IF LocalAdmits(i) THEN AnswerLocally(i) /\ UNCHANGED <<conv, rev>> ELSE Refuse(i)

\* only clear asks again for Turns and Schedules, and not for the barrier
Clear(i) ==
    /\ task[i].pc = "ready" /\ intent[i].cmd = "clear"
    /\ IF LocalAdmits(i) /\ ~busy
       THEN /\ AnswerLocally(i)
            /\ conv' = [Cleared(conv) EXCEPT !.st = "uninitialized", !.act = 0]
            /\ rev' = [r \in Revision |-> IF rev[r] = "active" THEN "superseded" ELSE rev[r]]
       ELSE Refuse(i)

(***************************************************************************)
(* _run_accepted_intent: the answer of what the action left unanswered.    *)
(***************************************************************************)
AnswerOf(i) ==
    IF task[i].pc = "ok" THEN "succeeded"
    ELSE IF intent[i].st = "effect_in_flight" THEN "unknown" ELSE "rejected"

Answer(i) ==
    /\ task[i].pc \in {"ok", "error"}
    /\ intent' = IF MayAnswer(i) THEN Answered(i, AnswerOf(i)) ELSE intent
    /\ task' = [task EXCEPT ![i] = NoTask]
    /\ UNCHANGED <<conv, rev, world, watch, busy, stolen, faults>>

(***************************************************************************)
(* Turns and the Discord thread.                                           *)
(***************************************************************************)
TurnArrives ==
    /\ ~busy /\ conv.st \in {"active", "uninitialized"} /\ Fault("turn")
    /\ busy' = TRUE
    /\ UNCHANGED <<conv, rev, intent, task, world, watch, stolen>>

\* a Turn runs to its end; the first one of a Conversation activates its Thread
TurnRuns ==
    /\ busy /\ conv.bar = "none" /\ conv.st \in {"active", "uninitialized"}
    /\ busy' = FALSE
    /\ IF conv.act # 0 THEN UNCHANGED <<conv, rev>>
       ELSE \E r \in FirstFresh :
                /\ rev' = Activated(r)
                /\ conv' = [conv EXCEPT !.st = "active", !.act = r]
    /\ UNCHANGED <<intent, task, world, watch, stolen, faults>>

\* mark_conversation_deleted also ends the queued Turns
Deleted ==
    /\ conv.st # "deleted" /\ Fault("delete")
    /\ conv' = [conv EXCEPT !.st = "deleted"]
    /\ busy' = FALSE
    /\ UNCHANGED <<rev, intent, task, world, watch, stolen>>

(***************************************************************************)
(* The monitor of the barrier: reads the row and the Thread, then acts.    *)
(***************************************************************************)
\* the command whose barrier an idle Thread ends: one whose call is over
SettledBy == IF conv.by # none /\ task[conv.by].pc \in Held THEN none ELSE conv.by

MonitorLooks ==
    /\ monitor = "look"
    /\ \/ conv.bar = "none" /\ monitor' = "off" /\ UNCHANGED <<looked, faults>>
       \/ conv.bar # "none" /\ (conv.bar = "unknown_effect" \/ conv.act = 0)
          /\ monitor' = "block" /\ UNCHANGED <<looked, faults>>
       \/ conv.bar = "compact" /\ conv.act # 0
          /\ \/ thread = "idle" /\ monitor' = "idle" /\ looked' = SettledBy /\ UNCHANGED faults
             \/ Fault("unknown") /\ monitor' = "block" /\ UNCHANGED looked
             \/ Fault("monitor") /\ monitor' = "dead" /\ UNCHANGED looked
    /\ UNCHANGED <<conv, rev, intent, task, world, busy, stolen>>

MonitorMismatch ==
    /\ monitor = "look" /\ conv.bar = "compact" /\ conv.act # 0 /\ Fault("identity")
    /\ conv' = Fenced(conv)
    /\ monitor' = "dead"
    /\ UNCHANGED <<rev, intent, task, world, looked, busy, stolen>>

\* resolve_idle_provider_barrier: of whatever barrier there is now
MonitorResolves ==
    /\ monitor = "idle"
    /\ monitor' = "off" /\ looked' = none
    /\ IF conv.bar = "none" THEN UNCHANGED <<conv, intent, stolen>>
       ELSE /\ intent' = IF conv.by # none /\ intent[conv.by].st = "reconciling"
                         THEN Answered(conv.by, "unknown") ELSE intent
            /\ conv' = [Cleared(conv) EXCEPT !.st = IF @ = "blocked" THEN "active" ELSE @]
            /\ stolen' = (stolen \/ conv.by # looked)
    /\ UNCHANGED <<rev, task, world, busy, faults>>

MonitorBlocks ==
    /\ monitor = "block"
    /\ monitor' = "off"
    /\ conv' = Fenced(conv)
    /\ UNCHANGED <<rev, intent, task, world, looked, busy, stolen, faults>>

(***************************************************************************)
(* The process dies and starts again: recover_startup, and the barriers    *)
(* get their monitors.                                                     *)
(***************************************************************************)
RecoveredKeeping(i) ==
    CASE intent[i].st = "accepted" -> "failed"
      [] intent[i].st = "effect_in_flight" -> "reconciling"
      [] OTHER -> intent[i].st
Recovered(i) ==
    CASE intent[i].st = "accepted" -> "failed"
      [] intent[i].st \in {"effect_in_flight", "reconciling"} ->
            IF intent[i].cmd = "compact" /\ conv.bar = "compact" /\ conv.by = i THEN "reconciling" ELSE "unknown"
      [] OTHER -> intent[i].st

RestoredBlocked == IF conv.bar # "none" /\ conv.st = "blocked" THEN "look" ELSE "off"
Restored == IF conv.bar # "none" /\ conv.st # "deleted" THEN "look" ELSE "off"

Crash ==
    /\ Fault("crash")
    /\ intent' = [i \in Intent |-> [intent[i] EXCEPT !.st = Recovered(i)]]
    /\ task' = [i \in Intent |-> NoTask]
    /\ monitor' = Restored /\ looked' = none
    /\ UNCHANGED <<conv, rev, world, busy, stolen>>

(***************************************************************************)
(* The specification. The tasks of the daemon run; the provider's          *)
(* compaction ends.                                                        *)
(***************************************************************************)
Provider(i) == Succeeds(i) \/ Rejects(i) \/ Loses(i)
Step(i) ==
    \/ Start(i) \/ Prepare(i) \/ NotReady(i) \/ ChoiceRefused(i) \/ Mistaken(i) \/ (\E to \in 0..MaxRev : Begin(i, to))
    \/ SetWebSearch(i) \/ Provider(i)
    \/ (\E r \in Revision : Commit(i, r)) \/ CommitFails(i) \/ Mismatch(i) \/ CompactAccepted(i)
    \/ CompactFails(i) \/ Undo(i) \/ UndoFails(i) \/ Mark(i) \/ MarkFails(i) \/ Fence(i) \/ FenceFails(i)
    \/ SetPreference(i) \/ Clear(i) \/ Answer(i)
MonitorStep == MonitorLooks \/ MonitorMismatch \/ MonitorResolves \/ MonitorBlocks

Next ==
    \/ \E i \in Intent : Step(i) \/ Apply(i) \/ \E cmd \in Command : Accept(i, cmd)
    \/ MonitorStep \/ Compacted \/ TurnArrives \/ TurnRuns \/ Deleted \/ Crash

Spec == Init /\ [][Next]_vars
FairSpec ==
    /\ Spec
    /\ \A i \in Intent : WF_vars(Step(i))
    /\ WF_vars(MonitorStep) /\ WF_vars(Compacted)

-----------------------------------------------------------------------------
TypeOK ==
    /\ conv \in [st : {"active", "uninitialized", "archived", "blocked", "deleted"}, act : 0..MaxRev,
                 bar : {"none", "compact", "unknown_effect"}, by : Intent \cup {none}]
    /\ rev \in [Revision -> {"none", "active", "superseded", "archived"}]
    /\ intent \in [Intent -> [st : Final \cup {"none", "accepted", "effect_in_flight", "reconciling"}, cmd : Command \cup {"set"}]]
    /\ task \in [Intent -> [pc : Held \cup {"none", "wait", "ok", "error"}, to : 0..MaxRev]]
    /\ asked \in [Intent -> {"no", "asked", "done", "again"}]
    /\ drift \in {"no", "change", "activity"} /\ thread \in {"idle", "compacting"}
    /\ monitor \in {"off", "look", "idle", "block", "dead"} /\ looked \in Intent \cup {none}
    /\ busy \in BOOLEAN /\ stolen \in BOOLEAN /\ faults \in 0..MaxFaults

\* What the provider changed or still works on is never out of sight: until it is
\* committed or the owner chose to recover, no Turn can start, because a barrier is
\* up or the Conversation is fenced or gone.
DriftIsBarred ==
    drift # "no" => conv.bar # "none" \/ conv.st \in {"blocked", "deleted"} \/ stolen

\* The answer the owner gets is true: a command that succeeded was done by the
\* provider, one that was rejected or failed was not and may be given again. Nothing
\* is asked of the provider twice for one interaction, however often it arrives.
AnswersAreTrue ==
    \A i \in Intent :
        /\ asked[i] # "again"
        /\ intent[i].st = "succeeded" /\ intent[i].cmd \notin Local \cup {"websearch"} => asked[i] = "done"
        /\ intent[i].st \in {"rejected", "failed"} => asked[i] # "done"

\* The revision of the Conversation is the one active revision it has.
OneRevision ==
    conv.act # 0 => {r \in Revision : rev[r] = "active"} = {conv.act}

\* An answer is for good, and so is the deletion of the Conversation: no late
\* transaction of a command, of the monitor or of a restart changes either.
AnswersStand ==
    [][/\ \A i \in Intent : intent[i].st \in Final => intent'[i] = intent[i]
       /\ conv.st = "deleted" => conv'.st = "deleted"]_vars

\* nobody works on the barrier: it is the owner's, or no monitor runs because of an
\* error, its own or one of a transaction on the way to its start
Unattended == conv.st \in {"blocked", "deleted"} \/ monitor = "dead"

\* Every command is answered, over restarts too. Only a compaction that a crash cut
\* off waits: for the owner once it is fenced, for a restart if an error ended the
\* monitor or kept it from starting, and for good if the thread is deleted.
CommandsAreAnswered ==
    \A i \in Intent :
        intent[i].st # "none" ~> intent[i].st \in Final \/ (intent[i].st = "reconciling" /\ intent[i].cmd = "compact" /\ Unattended)

\* The barrier of a compaction comes down or becomes a fence, unless an error ended its
\* monitor or, in a transaction after the provider's answer, kept it from starting:
\* then only a restart or an explicit recovery by the owner lifts it.
CompactionReleases ==
    conv.bar = "compact" ~> conv.bar # "compact" \/ Unattended
=============================================================================
