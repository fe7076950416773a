-------------------------------- MODULE Intake --------------------------------
(***************************************************************************)
(* Intake: from a message in Discord to a Turn. A message comes as a live  *)
(* event of the gateway or out of the channel's history, which a scan      *)
(* reads up to a durable checkpoint after every connect. In a thread it    *)
(* is claimed, its attachments are stored and its Turn is queued; in a     *)
(* parent channel a thread is made for it first, through the outbox, and   *)
(* the message is read again before its Turn is queued (the preflight).    *)
(*                                                                         *)
(* One channel, whose messages are numbered as Discord orders them. A step *)
(* is one transaction, one request to Discord or one wake-up of a task.    *)
(***************************************************************************)
EXTENDS Naturals, FiniteSetsExt

CONSTANTS
    N,          \* messages the owner posts
    Blank,      \* messages that may have nothing in them to run
    PageSize,   \* messages a page of the history has
    Scopes,     \* kinds of channel: "thread" of a Conversation, "parent"
    InThread,   \* messages and failures together, if the channel is a thread
    InParent,   \* messages and failures together, if it is a parent channel
    Env         \* the failures it may have

ASSUME IntakeAssumption ==
    /\ N \in Nat \ {0} /\ PageSize \in Nat \ {0} /\ InThread \in Nat /\ InParent \in Nat
    /\ Blank \subseteq 1..N /\ Scopes \subseteq {"thread", "parent"}

(***************************************************************************)
(* Members of Env:                                                         *)
(*   "crash"       the process dies between two steps and starts again     *)
(*   "disconnect"  the gateway connection breaks                           *)
(*   "http"        a request to Discord fails and may be tried again       *)
(*   "forbidden"   the history may not be read                             *)
(*   "internal"    a handler meets an error nobody expected                *)
(*   "refused"     the attachments, the Conversation or the channel refuse   *)
(*   "lease"       the outbox row is lost to its lease before it is acked  *)
(*   "edit"        an accepted message is edited                           *)
(*   "remove"      a message is deleted                                    *)
(***************************************************************************)

Msg == 1..N
Who == {"handler", "preflight"}
Pending == {"pending_thread", "pending_preflight"}
Closed == {"ready", "rejected"}

VARIABLES
    scope,      \* the kind of the channel
    posted,     \* how many messages there are
    world,      \* what became of each message in Discord
    event,      \* where the live event of each message is
    gateway,    \* the connection: "up", "down", or "new" before the first session
    seen,       \* channel.last_message_id, as the client remembers it
    row,        \* ingress_messages
    out,        \* the outbox row that makes the thread of a message
    ckpt,       \* discord_ingress_checkpoints
    scanning,   \* _ChannelState.scanning: live events are buffered
    scan,       \* the task that scans
    task,       \* the handler under ingest_lock, and the preflight beside it
    due,        \* preflights that wait for the second of these
    told,       \* messages that were refused to their author and have no row
    faults

vars == <<scope, posted, world, event, gateway, seen, row, out, ckpt, scanning, scan, task, due, told, faults>>
discord == <<scope, posted, world, gateway, seen>>
db == <<row, out, ckpt>>

NoRow == [st |-> "none", kind |-> "live", old |-> FALSE, edited |-> FALSE]
Idle == [m |-> 0, pc |-> "none", by |-> "none"]
NoScan == [pc |-> "off", bar |-> 0, cur |-> 0, page |-> {}, full |-> FALSE]

Init ==
    /\ scope \in Scopes
    /\ posted = 0 /\ gateway = "up" /\ seen = 0
    /\ world = [m \in Msg |-> "good"]
    /\ event = [m \in Msg |-> "none"]
    /\ row = [m \in Msg |-> NoRow]
    /\ out = [m \in Msg |-> "none"]
    /\ ckpt = [st |-> "none", base |-> 0, last |-> 0, open |-> FALSE, bar |-> 0, after |-> 0]
    /\ scanning = FALSE /\ scan = NoScan
    /\ task = [w \in Who |-> Idle]
    /\ due = {} /\ told = {} /\ faults = 0

Budget == posted + faults < (IF scope = "thread" THEN InThread ELSE InParent)
Fault(e) == e \in Env /\ Budget /\ faults' = faults + 1
Least(S) == {m \in S : \A n \in S : m <= n}
At(st) == {m \in Msg : event[m] = st}
Smaller(a, b) == IF a < b THEN a ELSE b
Larger(a, b) == IF a > b THEN a ELSE b

(***************************************************************************)
(* Discord.                                                                *)
(***************************************************************************)
Post(st) ==
    /\ posted < N /\ Budget /\ (st = "empty" => posted + 1 \in Blank)
    /\ posted' = posted + 1
    /\ world' = [world EXCEPT ![posted + 1] = st]
    /\ event' = [event EXCEPT ![posted + 1] = "sent"]
    /\ UNCHANGED <<scope, gateway, seen, db, scanning, scan, task, due, told, faults>>

Edit(m) ==
    /\ scope = "parent" /\ row[m].st \in Pending /\ ~row[m].edited /\ Fault("edit")
    /\ row' = [row EXCEPT ![m].edited = TRUE]
    /\ UNCHANGED <<discord, event, out, ckpt, scanning, scan, task, due, told>>

Remove(m) ==
    /\ m <= posted /\ world[m] # "gone" /\ Fault("remove")
    /\ world' = [world EXCEPT ![m] = "gone"]
    /\ UNCHANGED <<scope, posted, event, gateway, seen, db, scanning, scan, task, due, told>>

Disconnect ==
    /\ gateway = "up" /\ Fault("disconnect")
    /\ gateway' = "down"
    /\ UNCHANGED <<scope, posted, world, event, seen, db, scanning, scan, task, due, told>>

\* on_resumed: the gateway sends what was missed
Resume ==
    /\ gateway = "down" /\ gateway' = "up"
    /\ UNCHANGED <<scope, posted, world, event, seen, db, scanning, scan, task, due, told, faults>>

\* on_ready of a new session: what was missed is in the history only
PendingPreflights == {m \in Msg : row[m].st = "pending_preflight" /\ row[m].kind = "backfill"}
Missed(S) == [m \in Msg |-> IF event[m] \in S THEN "over" ELSE event[m]]
Ready ==
    /\ gateway # "up" /\ gateway' = "up"
    /\ seen' = posted
    /\ event' = Missed({"sent"})
    /\ due' = due \cup PendingPreflights
    /\ UNCHANGED <<scope, posted, world, db, scanning, scan, task, told, faults>>

(***************************************************************************)
(* process_live. Live events wait for the discovery of the channels, then  *)
(* for the end of a scan, in a buffer, or for the lock of the channel.     *)
(***************************************************************************)
Waiting == IF scanning THEN "buffered" ELSE "queued"
Dispatch(m) ==
    /\ gateway = "up" /\ m \in Least(At("sent"))
    /\ event' = [event EXCEPT ![m] = IF scan.pc = "discover" THEN "arrived" ELSE Waiting]
    /\ seen' = Larger(seen, m)
    /\ UNCHANGED <<scope, posted, world, gateway, db, scanning, scan, task, due, told, faults>>

ProcessLive(m) ==
    /\ m \in Least(At("arrived")) /\ scan.pc # "discover"
    /\ event' = [event EXCEPT ![m] = Waiting]
    /\ UNCHANGED <<discord, db, scanning, scan, task, due, told, faults>>

LockFree == task["handler"].pc = "none" /\ scan.pc \in {"off", "discover", "start"}
Handle(m, pc, by) == task' = [task EXCEPT !["handler"] = [m |-> m, pc |-> pc, by |-> by]]

TakeLive(m) ==
    /\ LockFree /\ m \in Least(At("queued"))
    /\ Handle(m, "claim", "live")
    /\ event' = [event EXCEPT ![m] = "over"]
    /\ UNCHANGED <<discord, db, scanning, scan, due, told, faults>>

(***************************************************************************)
(* The handler of a message.                                               *)
(***************************************************************************)
Goto(w, pc) == task' = [task EXCEPT ![w].pc = pc]
Stop(w) == task' = [task EXCEPT ![w] = Idle]
Busy(w, pc, m) == task[w].pc = pc /\ task[w].m = m
Kind(by) == IF by = "scan" THEN "backfill" ELSE "live"

\* nothing to run: refused before there is a row
RefuseEmpty(m) ==
    /\ Busy("handler", "claim", m) /\ world[m] = "empty"
    /\ Stop("handler")
    /\ told' = told \cup {m}
    /\ UNCHANGED <<discord, event, db, scanning, scan, due, faults>>

AlreadyAccepted(m) ==
    /\ Busy("handler", "claim", m) /\ world[m] # "empty" /\ row[m].st # "none"
    /\ Stop("handler")
    /\ UNCHANGED <<discord, event, db, scanning, scan, due, told, faults>>

NewRow(m, st) == row' = [row EXCEPT ![m] = [st |-> st, kind |-> Kind(task["handler"].by), old |-> FALSE, edited |-> FALSE]]

ClaimIngress(m) ==
    /\ Busy("handler", "claim", m) /\ world[m] # "empty" /\ row[m].st = "none"
    /\ scope = "thread"
    /\ NewRow(m, "pending_preflight")
    /\ Goto("handler", "enqueue")
    /\ UNCHANGED <<discord, event, out, ckpt, scanning, scan, due, told, faults>>

RequestThread(m) ==
    /\ Busy("handler", "claim", m) /\ world[m] # "empty" /\ row[m].st = "none"
    /\ scope = "parent"
    /\ NewRow(m, "pending_thread")
    /\ out' = [out EXCEPT ![m] = "pending"]
    /\ Stop("handler")
    /\ UNCHANGED <<discord, event, ckpt, scanning, scan, due, told, faults>>

\* a live handler tells of an error; that of the history lets the scan fail
ClaimFails(m) ==
    /\ Busy("handler", "claim", m) /\ task["handler"].by # "scan" /\ Fault("internal")
    /\ Stop("handler")
    /\ told' = told \cup {m}
    /\ UNCHANGED <<discord, event, db, scanning, scan, due>>

(***************************************************************************)
(* The preflight, and the part it shares with the handler of a thread.     *)
(***************************************************************************)
StartPreflight(m) ==
    /\ task["preflight"].pc = "none" /\ m \in Least(due)
    /\ task' = [task EXCEPT !["preflight"] = [m |-> m, pc |-> "read", by |-> "preflight"]]
    /\ due' = due \ {m}
    /\ UNCHANGED <<discord, event, db, scanning, scan, told, faults>>

\* _process_initial_ingress_locked reads the row and the message again
Stale(m) == row[m].old /\ row[m].kind # "backfill"
Unchanged(m) == scope = "parent" /\ world[m] # "gone" /\ ~row[m].edited
ReadIngress(w, m) ==
    /\ Busy(w, "read", m)
    /\ IF row[m].st \in Closed THEN Stop(w)
       ELSE Goto(w, IF Unchanged(m) /\ ~Stale(m) THEN "enqueue" ELSE "reject")
    /\ UNCHANGED <<discord, event, db, scanning, scan, due, told, faults>>

\* the attachments cannot be stored, or the Conversation takes no Turn
InputRefused(w, m) ==
    /\ Busy(w, "enqueue", m) /\ Fault("refused")
    /\ Goto(w, "reject")
    /\ UNCHANGED <<discord, event, db, scanning, scan, due, told>>

\* a row that is closed says no more than how it was closed
Close(m, st) == [row EXCEPT ![m] = [NoRow EXCEPT !.st = st]]
Rejected(m) == IF row[m].st \in Pending THEN Close(m, "rejected") ELSE row

\* enqueue_turn closes the row of the message with the Turn
EnqueueTurn(w, m) ==
    /\ Busy(w, "enqueue", m)
    /\ \/ row[m].st \in Pending /\ row' = Close(m, "ready") /\ Stop(w)
       \/ row[m].st = "ready" /\ Stop(w) /\ UNCHANGED row
       \/ row[m].st = "rejected" /\ Goto(w, "reject") /\ UNCHANGED row
    /\ UNCHANGED <<discord, event, out, ckpt, scanning, scan, due, told, faults>>

RejectIngress(w, m) ==
    /\ Busy(w, "reject", m)
    /\ row' = Rejected(m)
    /\ Stop(w)
    /\ UNCHANGED <<discord, event, out, ckpt, scanning, scan, due, told, faults>>

(***************************************************************************)
(* The outbox makes the thread of a message: the thread, the Conversation, *)
(* the acknowledgement, the preflight.                                     *)
(***************************************************************************)
Deliver(m) ==
    /\ out[m] = "pending" /\ (row[m].st = "pending_thread" => world[m] # "gone")
    /\ row' = IF row[m].st = "pending_thread" THEN [row EXCEPT ![m].st = "pending_preflight"] ELSE row
    /\ out' = [out EXCEPT ![m] = "made"]
    /\ UNCHANGED <<discord, event, ckpt, scanning, scan, task, due, told, faults>>

\* the message is gone or Discord forbids the thread: the ingress is rejected
\* and a notice queued for the channel
FailThreadCreation(m) ==
    /\ out[m] = "pending" /\ row[m].st = "pending_thread"
    /\ IF world[m] = "gone" THEN UNCHANGED faults ELSE Fault("refused")
    /\ row' = Rejected(m) /\ out' = [out EXCEPT ![m] = "over"]
    /\ UNCHANGED <<discord, event, ckpt, scanning, scan, task, due, told>>

AckedQuietly(m) == due
Acked(m) == due \cup {m}
Acknowledge(m) ==
    /\ out[m] = "made"
    /\ \/ out' = [out EXCEPT ![m] = "over"] /\ due' = Acked(m) /\ UNCHANGED faults
       \/ out' = [out EXCEPT ![m] = "pending"] /\ Fault("lease") /\ UNCHANGED due
    /\ UNCHANGED <<discord, event, row, ckpt, scanning, scan, task, told>>

(***************************************************************************)
(* The scan: trigger and _scan_target.                                     *)
(***************************************************************************)
ScanTo(pc) == scan' = [scan EXCEPT !.pc = pc]

\* a scan that can change nothing is left out
MayFind == scanning \/ ckpt.st \in {"none", "retry"} \/ ckpt.last < posted
Trigger ==
    /\ gateway = "up" /\ scan.pc = "off" /\ MayFind
    /\ ScanTo("discover")
    /\ UNCHANGED <<discord, event, db, scanning, task, due, told, faults>>

Discover ==
    /\ scan.pc = "discover"
    /\ \/ scanning' = TRUE /\ ScanTo("start") /\ UNCHANGED faults
       \/ scan' = NoScan /\ Fault("http") /\ UNCHANGED scanning
    /\ UNCHANGED <<discord, event, db, task, due, told>>

\* ensure: the first checkpoint of the channel starts at what is known of it
KnownIds == {m \in Msg : row[m].st # "none"}
Baseline(b) == Smaller(b, Max(KnownIds \cup {0}))
Ensured ==
    IF ckpt.st # "none" THEN ckpt
    ELSE [ckpt EXCEPT !.st = "idle", !.base = Baseline(seen), !.last = Baseline(seen)]

\* begin_scan goes on with an unfinished scan, up to its own barrier
Begun(c) ==
    IF c.open THEN [c EXCEPT !.st = "scanning"]
    ELSE [c EXCEPT !.st = "scanning", !.open = TRUE, !.after = c.last, !.bar = Larger(seen, c.last)]

BeginScan ==
    /\ scan.pc = "start" /\ task["handler"].pc = "none" /\ ckpt.st # "blocked"
    /\ ckpt' = Begun(Ensured)
    /\ scan' = [NoScan EXCEPT !.pc = "page", !.bar = Begun(Ensured).bar, !.cur = Begun(Ensured).after]
    /\ UNCHANGED <<discord, event, row, out, scanning, task, due, told, faults>>

ReleasedNone == event
Released == Missed({"buffered", "draining"})
ReleaseBuffered ==
    /\ event' = Released
    /\ scanning' = FALSE
    /\ scan' = NoScan

BlockedScan ==
    /\ scan.pc = "start" /\ task["handler"].pc = "none" /\ ckpt.st = "blocked"
    /\ ReleaseBuffered
    /\ UNCHANGED <<discord, db, task, due, told, faults>>

History == {m \in Msg : m <= posted /\ world[m] # "gone" /\ scan.cur < m /\ m <= scan.bar}
FirstOf(S) == {m \in S : Cardinality({n \in S : n < m}) < PageSize}
Page ==
    /\ scan.pc = "page" /\ History # {}
    /\ scan' = [scan EXCEPT !.pc = "each", !.page = FirstOf(History), !.full = Cardinality(FirstOf(History)) = PageSize]
    /\ UNCHANGED <<discord, event, db, scanning, task, due, told, faults>>

\* a message there is a row of is passed by, unless its preflight is to be done
Each(m) ==
    /\ scan.pc = "each" /\ task["handler"].pc = "none" /\ m \in Least(scan.page)
    /\ \/ row[m].st = "none" /\ Handle(m, "claim", "scan")
       \/ m \in PendingPreflights /\ Handle(m, "read", "scan")
       \/ row[m].st # "none" /\ m \notin PendingPreflights /\ UNCHANGED task
    /\ scan' = [scan EXCEPT !.page = @ \ {m}, !.cur = m]
    /\ UNCHANGED <<discord, event, db, scanning, due, told, faults>>

PageDone == scan.pc = "each" /\ scan.page = {} /\ task["handler"].pc = "none"
RecordProgress ==
    /\ PageDone /\ scan.full
    /\ ckpt' = [ckpt EXCEPT !.after = scan.cur]
    /\ ScanTo("page")
    /\ UNCHANGED <<discord, event, row, out, scanning, task, due, told, faults>>

ScannedToNow == Larger(seen, scan.bar)
ScannedTo == scan.bar
Complete ==
    /\ (PageDone /\ ~scan.full) \/ (scan.pc = "page" /\ History = {})
    /\ ckpt' = [ckpt EXCEPT !.st = "idle", !.open = FALSE, !.last = ScannedTo, !.after = 0, !.bar = 0]
    /\ scan' = [NoScan EXCEPT !.pc = "drain"]
    /\ UNCHANGED <<discord, event, row, out, scanning, task, due, told, faults>>

MayDrainEarly == scan.pc \in {"page", "drain"}
MayDrain == scan.pc = "drain"
\* _drain_buffered: what came live meanwhile, in order, until nothing is left
TakeBuffer ==
    /\ MayDrain /\ task["handler"].pc = "none" /\ At("draining") = {}
    /\ event' = [m \in Msg |-> IF event[m] = "buffered" THEN "draining" ELSE event[m]]
    /\ IF At("buffered") = {} THEN scanning' = FALSE /\ scan' = NoScan ELSE UNCHANGED <<scanning, scan>>
    /\ UNCHANGED <<discord, db, task, due, told, faults>>

Drain(m) ==
    /\ MayDrain /\ task["handler"].pc = "none" /\ m \in Least(At("draining"))
    /\ Handle(m, "claim", "drain")
    /\ event' = [event EXCEPT ![m] = "over"]
    /\ UNCHANGED <<discord, db, scanning, scan, due, told, faults>>

\* an error that may pass: the channel stays in scanning, and live events wait
OfScan == task["handler"].by = "scan" /\ task["handler"].pc = "claim"
NextTry == {"start", "off"}
ScanFails ==
    /\ scan.pc \in {"page", "each"} /\ (task["handler"].pc = "none" \/ OfScan) /\ Fault("http")
    /\ ckpt' = [ckpt EXCEPT !.st = "retry"]
    /\ \E pc \in NextTry : scan' = [NoScan EXCEPT !.pc = pc]
    /\ Stop("handler")
    /\ UNCHANGED <<discord, event, row, out, scanning, due, told>>

ScanForbidden ==
    /\ scan.pc = "page" /\ Fault("forbidden")
    /\ ckpt' = [ckpt EXCEPT !.st = "blocked"]
    /\ ReleaseBuffered
    /\ UNCHANGED <<discord, row, out, task, due, told>>

(***************************************************************************)
(* The process dies and starts again: recover_startup.                     *)
(***************************************************************************)
Recovered(m) ==
    LET r == row[m]
    IN  IF r.st = "pending_preflight" /\ r.kind = "live" THEN [NoRow EXCEPT !.st = "rejected"]
        ELSE [r EXCEPT !.old = r.st \in Pending]

Crash ==
    /\ Fault("crash")
    /\ row' = [m \in Msg |-> Recovered(m)]
    /\ out' = [m \in Msg |-> IF out[m] = "made" THEN "pending" ELSE out[m]]
    /\ event' = Missed({"arrived", "buffered", "draining", "queued"})
    /\ gateway' = "new"
    /\ scanning' = FALSE /\ scan' = NoScan
    /\ task' = [w \in Who |-> Idle] /\ due' = {}
    /\ UNCHANGED <<scope, posted, world, seen, ckpt, told>>

Handler(m) ==
    \/ RefuseEmpty(m) \/ AlreadyAccepted(m) \/ ClaimIngress(m) \/ RequestThread(m)
    \/ \E w \in Who : ReadIngress(w, m) \/ EnqueueTurn(w, m) \/ RejectIngress(w, m)

Scan ==
    \/ Trigger \/ Discover \/ BlockedScan \/ BeginScan \/ Page \/ RecordProgress \/ Complete \/ TakeBuffer
    \/ \E m \in Msg : Each(m) \/ Drain(m)

Live(m) == Dispatch(m) \/ ProcessLive(m) \/ TakeLive(m)
Back(m) == StartPreflight(m) \/ Deliver(m) \/ FailThreadCreation(m) \/ Acknowledge(m)

Next ==
    \/ \E st \in {"good", "empty"} : Post(st)
    \/ \E m \in Msg : Edit(m) \/ Remove(m) \/ ClaimFails(m) \/ (\E w \in Who : InputRefused(w, m)) \/ Live(m) \/ Handler(m) \/ Back(m)
    \/ Disconnect \/ Resume \/ Ready \/ Scan \/ ScanFails \/ ScanForbidden \/ Crash

Spec == Init /\ [][Next]_vars

\* the event loop runs what is ready, and the gateway connects again
Fairness ==
    /\ WF_vars(\E m \in Msg : Live(m) \/ Handler(m) \/ Back(m))
    /\ WF_vars(Scan)
    /\ WF_vars(Resume \/ Ready)
FairSpec == Spec /\ Fairness

(***************************************************************************)
(* Properties.                                                             *)
(***************************************************************************)
\* What each variable holds.
TypeOK ==
    /\ scope \in {"thread", "parent"} /\ gateway \in {"up", "down", "new"}
    /\ posted \in 0..N /\ seen \in 0..posted /\ faults \in Nat /\ scanning \in BOOLEAN
    /\ world \in [Msg -> {"good", "empty", "gone"}]
    /\ event \in [Msg -> {"none", "sent", "arrived", "buffered", "draining", "queued", "over"}]
    /\ row \in [Msg -> [st : {"none"} \cup Pending \cup Closed, kind : {"live", "backfill"}, old : BOOLEAN, edited : BOOLEAN]]
    /\ out \in [Msg -> {"none", "pending", "made", "over"}]
    /\ ckpt \in [st : {"none", "idle", "scanning", "retry", "blocked"}, open : BOOLEAN,
                 base : 0..posted, last : 0..posted, bar : 0..posted, after : 0..posted]
    /\ scan \in [pc : {"off", "discover", "start", "page", "each", "drain"}, full : BOOLEAN,
                 bar : 0..posted, cur : 0..posted, page : SUBSET (1..posted)]
    /\ task \in [Who -> [m : 0..N, pc : {"none", "claim", "read", "enqueue", "reject"},
                         by : {"none", "live", "scan", "drain", "preflight"}]]
    /\ due \subseteq Msg /\ told \subseteq Msg

Dealt(m) == row[m].st # "none" \/ m \in told \/ world[m] = "gone"

\* The checkpoint never passes a message nobody dealt with: whatever it
\* calls scanned was claimed, refused to its author or deleted, whichever of
\* a live event, a page and a resumed scan brought it.
NoneSkipped ==
    \A m \in Msg : ckpt.base < m /\ m <= (IF ckpt.open THEN ckpt.after ELSE ckpt.last) => Dealt(m)

\* A message that came live during a scan is handled after every earlier
\* message that the scan finds in the history.
BufferedInOrder ==
    task["handler"].by = "drain" => \A m \in Msg : ckpt.base < m /\ m < task["handler"].m /\ m <= Larger(ckpt.last, ckpt.bar) => Dealt(m)

\* m has its answer, or the code gives none.
Answered(m) ==
    \/ row[m].st \in Closed \/ m \in told \/ world[m] = "gone"
    \/ ckpt.st = "blocked" \/ (ckpt.st # "none" /\ m <= ckpt.base)

\* Every message of the owner gets its Turn or a refusal, unless it is
\* deleted, older than the channel's first checkpoint or the checkpoint of
\* the channel is blocked: lost events, failed scans and restarts do not
\* lose it. Nor does its on_message wait for ever in the buffer of a scan
\* that fails: the channel is tried again.
MessagesAreAnswered ==
    []<>(At("buffered") \cup At("draining") = {} /\ \A m \in Msg : m <= posted => Answered(m))

\* What an input came to stays: a refused message gets no Turn later, and
\* a second preflight takes no Turn back.
VerdictStands == [][\A m \in Msg : row[m].st \in Closed => row'[m].st = row[m].st]_vars
===============================================================================
