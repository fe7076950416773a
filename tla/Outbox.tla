--------------------------------- MODULE Outbox ---------------------------------
(***************************************************************************)
(* Outbox: rows of discord_outbox that transactions on Turns insert, and   *)
(* delivery workers that claim them under a lease and post to Discord.     *)
(*                                                                         *)
(* One Conversation: a thread, and the channel above it. A step is one     *)
(* transaction or one request to Discord; between them every other task    *)
(* may run. Time is left out: a row whose next_attempt_at may lie ahead is *)
(* one that a claim may pass over.                                         *)
(***************************************************************************)
EXTENDS Integers, Sequences, FiniteSets

CONSTANTS
    Worker,    \* coroutines of OutboxWorker._run
    NoWorker,
    MaxTurn,   \* Turns of the Conversation
    Starter,   \* Turns whose prompt is the message the thread was made from
    MaxUpdate, \* updates of the progress view and the task card of a running Turn
    MaxToggle, \* times the owner expands or collapses the task card of a Turn
    MaxPart,   \* messages the text of a result needs
    MaxFaults, \* failures of the environment the instance has
    Env        \* the failures it may have

ASSUME OutboxAssumption ==
    /\ IsFiniteSet(Worker) /\ NoWorker \notin Worker
    /\ MaxTurn \in Nat \ {0} /\ Starter \subseteq 1..MaxTurn /\ MaxUpdate \in Nat /\ MaxToggle \in Nat
    /\ MaxPart \in Nat \ {0} /\ MaxFaults \in Nat

(***************************************************************************)
(* Members of Env:                                                         *)
(*   "lost"    Discord does what was asked, its answer does not arrive     *)
(*   "refuse"  a request fails and may be repeated                         *)
(*   "forbid"  a request fails for good                                    *)
(*   "stall"   the lease of a live delivery is not renewed in time         *)
(*   "restart" the daemon stops or crashes and starts again                *)
(*   "remove"  somebody deletes a progress message                         *)
(* and, not counted by MaxFaults,                                          *)
(*   "window"  Discord forgets the nonce of a message                      *)
(*   "burst"   500 newer messages bury one that a scan would look for      *)
(***************************************************************************)

Turn == 1..MaxTurn
Row == 1..MaxTurn * (MaxUpdate + MaxToggle + 7) + 1
Footer == MaxPart + 1
Part == 1..Footer
Marker == Row \X Part
NoRow == 0
Settled == {"sent", "dead_letter", "superseded"}
Open == {"pending", "retry", "reconciling"}

VARIABLES
    rows,     \* discord_outbox in the order of enqueue_sequence
    turn,     \* what the tables say of a Turn, its progress view and its card
    worker,   \* local state of the deliveries
    volatile, \* Turns whose result is in the VolatileTurnStore
    copies,   \* messages in Discord that were posted for a delivery marker
    reaction, \* reactions on the prompt of a Turn
    known,    \* markers whose nonce Discord remembers
    buried,   \* markers no scan of the history reaches
    late,     \* requests whose sender is gone and that may still land
    reported, \* markers with an incident delivery_duplicate_possible
    dead,     \* rows that were dead letters, also after their compaction
    stalled,  \* rows whose lease ran out under a live delivery
    faults    \* failures so far

discord == <<copies, reaction, known, buried, late>>
vars == <<rows, turn, worker, volatile, discord, reported, dead, stalled, faults>>

Idle == [pc |-> "idle", row |-> NoRow, from |-> "none", part |-> 1, got |-> NoRow]

Init ==
    /\ rows = <<>>
    /\ turn = [t \in Turn |-> [stage |-> "none", rev |-> 0, card |-> 0, toggles |-> 0, outcome |-> "none",
                               msg |-> NoRow, cardMsg |-> NoRow, cleanup |-> "active"]]
    /\ worker = [w \in Worker |-> Idle]
    /\ volatile = {}
    /\ copies = [m \in Marker |-> 0]
    /\ reaction = [t \in Turn |-> {}]
    /\ known = {} /\ buried = {} /\ late = {} /\ reported = {} /\ dead = {} /\ stalled = {}
    /\ faults = 0

(***************************************************************************)
(* Rows and the transactions that insert them.                             *)
(***************************************************************************)
NewRow(t, kind, op, dep, shows) ==
    [turn |-> t, kind |-> kind, op |-> op, dep |-> dep, shows |-> shows,
     state |-> "pending", owner |-> NoWorker, expired |-> FALSE]

\* destination_key: a starter message lies in the channel, and a notice about an
\* unusable thread goes there
Destination(r) ==
    IF r.kind = "notice" \/ (r.kind = "reaction" /\ r.turn \in Starter) THEN "channel" ELSE "thread"

\* coalesce_key
SameKey(r, t, kind) == r.turn = t /\ r.kind = kind /\ kind \in {"reaction", "progress", "card"}

Supersede(rs, t, kind, states) ==
    [i \in DOMAIN rs |->
        IF SameKey(rs[i], t, kind) /\ rs[i].state \in states
        THEN [rs[i] EXCEPT !.state = "superseded"] ELSE rs[i]]

InsertReaction(rs, t, state) ==
    Append(Supersede(rs, t, "reaction", Open), NewRow(t, "reaction", "edit", NoRow, state))

\* rows of the progress view that are not superseded
Progress(rs, t) ==
    {i \in DOMAIN rs : SameKey(rs[i], t, "progress") /\ rs[i].state # "superseded"}
Newest(S) == CHOOSE i \in S : \A j \in S : j <= i

\* the row that shows revision rev: the newest one rewritten, or another edit
InsertProgress(rs, t, rev) ==
    LET prev == Progress(rs, t) IN
    IF prev # {} /\ rs[Newest(prev)].state = "pending"
    THEN [rs EXCEPT ![Newest(prev)].shows = rev]
    ELSE Append(rs, NewRow(t, "progress", "edit", NoRow, rev))

InsertCard(rs, t, rev) ==
    Append(Supersede(rs, t, "card", {"pending"}),
           NewRow(t, "card", IF rev = 1 THEN "send" ELSE "edit", NoRow, rev))

\* the first row with the dedupe key of a notice stays the only one
InsertNotice(rs) ==
    IF \E i \in DOMAIN rs : rs[i].kind = "notice" THEN rs
    ELSE Append(rs, NewRow(0, "notice", "send", NoRow, "unavailable"))

Enqueue(t) ==
    /\ turn[t].stage = "none"
    /\ \A u \in Turn : u < t => turn[u].stage # "none"
    /\ rows' = Append(InsertReaction(rows, t, "waiting"), NewRow(t, "progress", "send", NoRow, 1))
    /\ turn' = [turn EXCEPT ![t].stage = "active", ![t].rev = 1]
    /\ UNCHANGED <<worker, volatile, discord, reported, dead, stalled, faults>>

UpdateProgress(t) ==
    /\ turn[t].stage = "active" /\ turn[t].rev + turn[t].card - turn[t].toggles <= MaxUpdate
    /\ rows' = InsertProgress(rows, t, turn[t].rev + 1)
    /\ turn' = [turn EXCEPT ![t].rev = @ + 1]
    /\ UNCHANGED <<worker, volatile, discord, reported, dead, stalled, faults>>

RenderCard(t) ==
    /\ turn[t].stage = "active" /\ turn[t].rev + turn[t].card - turn[t].toggles <= MaxUpdate
    /\ rows' = InsertCard(rows, t, turn[t].card + 1)
    /\ turn' = [turn EXCEPT ![t].card = @ + 1]
    /\ UNCHANGED <<worker, volatile, discord, reported, dead, stalled, faults>>

\* a click on the button of a card that shows its last revision
ToggleCard(t) ==
    /\ turn[t].cardMsg # NoRow /\ turn[t].toggles < MaxToggle
    /\ \A i \in DOMAIN rows : SameKey(rows[i], t, "card") => rows[i].state \in Settled
    /\ rows' = InsertCard(rows, t, turn[t].card + 1)
    /\ turn' = [turn EXCEPT ![t].card = @ + 1, ![t].toggles = @ + 1]
    /\ UNCHANGED <<worker, volatile, discord, reported, dead, stalled, faults>>

\* the terminal event: an open task card is finished, the prompt gets its
\* reaction, the progress its last revision, and the result waits for that
FinishCard(rs, t) == IF turn[t].card = 0 THEN rs ELSE InsertCard(rs, t, turn[t].card + 1)
InsertFinal(rs, t, outcome) ==
    Append(rs, NewRow(t, "final", "send", Newest(Progress(rs, t)), outcome))

Terminate(t) ==
    /\ turn[t].stage = "active"
    /\ \E outcome \in {"completed", "failed"} :
        /\ rows' = InsertFinal(InsertProgress(InsertReaction(FinishCard(rows, t), t, outcome),
                                              t, turn[t].rev + 1), t, outcome)
        /\ turn' = [turn EXCEPT ![t].stage = "terminal", ![t].outcome = outcome, ![t].rev = @ + 1,
                                ![t].card = IF @ = 0 THEN 0 ELSE @ + 1]
        /\ volatile' = volatile \cup {t}
    /\ UNCHANGED <<worker, discord, reported, dead, stalled, faults>>

(***************************************************************************)
(* claim_outbox                                                            *)
(***************************************************************************)
\* a delivery with an expired lease has an unknown outcome
Expired == {i \in DOMAIN rows : rows[i].state = "sending" /\ rows[i].expired}

\* of the edits with a coalesce key only those of reactions are dropped
Dropped ==
    {i \in DOMAIN rows :
        /\ rows[i].state = "reconciling" \/ i \in Expired
        /\ rows[i].kind = "reaction"
        /\ \E j \in DOMAIN rows : /\ j > i /\ SameKey(rows[j], rows[i].turn, "reaction")
                                  /\ rows[j].state # "superseded"}

StateNow(i) ==
    IF i \in Dropped THEN "superseded" ELSE IF i \in Expired THEN "reconciling" ELSE rows[i].state

Swept ==
    [i \in DOMAIN rows |->
        IF i \in Expired \cup Dropped
        THEN [rows[i] EXCEPT !.state = StateNow(i), !.owner = NoWorker, !.expired = FALSE] ELSE rows[i]]

\* earlier rows of the destination come first, except those that wait for i
InOrderAnyhow(i) ==
    \A j \in 1..(i - 1) :
        Destination(rows[j]) = Destination(rows[i]) /\ rows[j].dep # i => StateNow(j) # "sending"
InOrder(i) ==
    \A j \in 1..(i - 1) :
        Destination(rows[j]) = Destination(rows[i]) /\ rows[j].dep # i => StateNow(j) \in Settled

\* a row may go when the row it depends on is done, however that ended
ReleasedBySuccess(state) == state = "sent"
Released(state) == state \in Settled

Claimable(i) ==
    /\ StateNow(i) \in Open
    /\ rows[i].dep # NoRow => Released(StateNow(rows[i].dep))
    /\ InOrder(i)

\* where the delivery of a row begins: an attempt that follows another one
\* looks for its message first
EntryAfterRetry(from) == IF from = "reconciling" THEN "scan" ELSE "post"
Entry(from) == IF from = "pending" THEN "post" ELSE "scan"

FirstStep(r, from) ==
    CASE r.op = "delete" -> "delete"
      [] r.kind = "reaction" -> "react"
      [] r.op = "edit" /\ r.kind # "reaction" -> "edit"
      [] OTHER -> Entry(from)

\* Between two attempts Discord may forget the nonces of the first one: it
\* remembers them longer than a request can take, and longer than a delivery
\* goes on that lost its claim. 500 newer messages may bury what was posted.
Posted(i) == {m \in Marker : m[1] = i /\ copies[m] > 0}
Undecided(i) ==
    \/ \E m \in late : m[1] = i
    \/ \E w \in Worker : worker[w].row = i
TimePasses(i) ==
    /\ known' \in {known} \cup
            IF "window" \in Env /\ ~Undecided(i) THEN {{m \in known : m[1] # i}} ELSE {}
    /\ buried' \in {buried} \cup IF "burst" \in Env THEN {buried \cup Posted(i)} ELSE {}

\* next_attempt_at: the backoff of a retry, the pace of progress edits
MayBeLater(i) == StateNow(i) \in {"pending", "retry"}

Claim(w) ==
    /\ worker[w].pc = "idle"
    /\ \/ \E i \in DOMAIN rows :
            /\ Claimable(i) /\ \A j \in 1..(i - 1) : Claimable(j) => MayBeLater(j)
            /\ rows' = [Swept EXCEPT ![i].state = "sending", ![i].owner = w]
            /\ worker' = [worker EXCEPT ![w] = [pc |-> FirstStep(rows[i], StateNow(i)), row |-> i,
                                                from |-> StateNow(i), part |-> 1, got |-> i]]
            /\ TimePasses(i)
       \/ /\ Expired # {} /\ \A i \in DOMAIN rows : ~Claimable(i)
          /\ rows' = Swept /\ UNCHANGED <<worker, known, buried>>
    /\ UNCHANGED <<turn, volatile, copies, reaction, late, reported, dead, stalled, faults>>

(***************************************************************************)
(* Delivery: DiscordOutboxTransport.deliver between two of its requests.   *)
(***************************************************************************)
RowOf(w) == rows[worker[w].row]
Current(w) == <<worker[w].row, worker[w].part>>
\* the claim is what renew, ack, retry and fail compare
Holds(w) == RowOf(w).state = "sending" /\ RowOf(w).owner = w
Visible(i) == i # NoRow /\ copies[<<i, 1>>] > 0

\* the parts of a result are rendered from memory, or replaced by one notice
Parts(i) ==
    IF rows[i].kind # "final" THEN {1}
    ELSE IF rows[i].turn \in volatile THEN Part ELSE {1, Footer}

\* the message id in the progress view or in the task card view
Bound(i) == IF rows[i].kind = "card" THEN turn[rows[i].turn].cardMsg ELSE turn[rows[i].turn].msg

Step(w, pc) == worker' = [worker EXCEPT ![w].pc = pc]
Acknowledge(w, got) == worker' = [worker EXCEPT ![w].pc = "ack", ![w].got = got]

\* after one part comes the next, and the acknowledgement after the last one
Advance(w) ==
    LET left == {p \in Parts(worker[w].row) : p > worker[w].part}
        next == CHOOSE p \in left : \A q \in left : p <= q
    IN IF left = {} THEN Acknowledge(w, worker[w].row)
       ELSE worker' = [worker EXCEPT ![w].pc = Entry(worker[w].from), ![w].part = next]
AdvanceFoundFirst(w) == Acknowledge(w, worker[w].row)
AdvanceFound(w) == Advance(w)

\* _find_marker over the newest 500 messages
Scan(w) ==
    /\ worker[w].pc = "scan"
    /\ IF copies[Current(w)] > 0 /\ Current(w) \notin buried
       THEN AdvanceFound(w) /\ UNCHANGED reported
       ELSE /\ Step(w, "post")
            /\ reported' = IF buried = {} THEN reported ELSE reported \cup {Current(w)}
    /\ UNCHANGED <<rows, turn, volatile, discord, dead, stalled, faults>>

\* Discord accepts one message per nonce, as long as it remembers it
Land(m) ==
    /\ copies' = IF m \in known THEN copies ELSE [copies EXCEPT ![m] = @ + 1]
    /\ known' = known \cup {m}

Fault(event) == event \in Env /\ faults < MaxFaults /\ faults' = faults + 1

\* channel.send with a nonce: 500 newer messages are no reason to refuse it
Post(w) ==
    /\ worker[w].pc = "post"
    /\ Land(Current(w))
    /\ \/ Advance(w) /\ UNCHANGED faults
       \/ Fault("lost") /\ Step(w, "retry")
    /\ UNCHANGED <<rows, turn, volatile, reaction, buried, late, reported, dead, stalled>>

\* message.edit of the bound message, or a new message when it is gone
Edit(w) ==
    /\ worker[w].pc = "edit"
    /\ IF Visible(Bound(worker[w].row)) THEN Acknowledge(w, Bound(worker[w].row))
       ELSE Step(w, Entry(worker[w].from))
    /\ UNCHANGED <<rows, turn, volatile, discord, reported, dead, stalled, faults>>

\* what turn_progress_delete_target insists on: the row is being sent, its
\* final row was sent, and the view waits for the deletion
DeleteTargetValid(i) ==
    /\ rows[i].state = "sending" /\ rows[rows[i].dep].state = "sent"
    /\ turn[rows[i].turn].cleanup = "delete_pending"

Delete(w) ==
    LET i == worker[w].row msg == turn[rows[i].turn].msg IN
    /\ worker[w].pc = "delete"
    /\ IF DeleteTargetValid(i)
       THEN /\ copies' = IF Visible(msg) THEN [copies EXCEPT ![<<msg, 1>>] = @ - 1] ELSE copies
            /\ \/ Acknowledge(w, NoRow) /\ UNCHANGED faults
               \/ Fault("lost") /\ Step(w, "retry")
       ELSE Step(w, "fail") /\ UNCHANGED <<copies, faults>>
    /\ UNCHANGED <<rows, turn, volatile, reaction, known, buried, late, reported, dead, stalled>>

\* the other reactions are taken away, then the desired one is added
Stripped(shown, desired) == shown \cap {desired}
React(w) ==
    /\ worker[w].pc = "react"
    /\ reaction' = [reaction EXCEPT ![RowOf(w).turn] = Stripped(@, RowOf(w).shows)]
    /\ Step(w, "add")
    /\ UNCHANGED <<rows, turn, volatile, copies, known, buried, late, reported, dead, stalled, faults>>
AddReaction(w) ==
    /\ worker[w].pc = "add"
    /\ reaction' = [reaction EXCEPT ![RowOf(w).turn] = @ \cup {RowOf(w).shows}]
    /\ \/ Acknowledge(w, NoRow) /\ UNCHANGED faults
       \/ Fault("lost") /\ Step(w, "retry")
    /\ UNCHANGED <<rows, turn, volatile, copies, known, buried, late, reported, dead, stalled>>

Delivering == {"scan", "post", "edit", "delete", "react", "add"}

\* 429, a server error, an unreadable history
Refused(w) ==
    /\ worker[w].pc \in Delivering
    /\ Fault("refuse") /\ Step(w, "retry")
    /\ UNCHANGED <<rows, turn, volatile, discord, reported, dead, stalled>>

\* any other client error; a scan that is forbidden stays uncertain
Forbidden(w) ==
    /\ worker[w].pc \in Delivering \ {"scan"}
    /\ Fault("forbid") /\ Step(w, "fail")
    /\ UNCHANGED <<rows, turn, volatile, discord, reported, dead, stalled>>

(***************************************************************************)
(* The end of a delivery. A transaction that finds the claim gone raises   *)
(* ConflictError, and the row belongs to whoever claimed it since.         *)
(***************************************************************************)
Release(w) == worker' = [worker EXCEPT ![w] = Idle]

\* ack_outbox, _compact_acknowledged_outbox: the other rows of an acknowledged
\* progress row that are done lose their content
Compacted(rs, i) ==
    [j \in DOMAIN rs |->
        IF rs[i].kind = "progress" /\ j # i /\ SameKey(rs[j], rs[i].turn, "progress")
           /\ rs[j].state \in Settled
        THEN [rs[j] EXCEPT !.state = "superseded"] ELSE rs[j]]

Sent(i) == Compacted([rows EXCEPT ![i].state = "sent", ![i].owner = NoWorker, ![i].expired = FALSE], i)

Bind(i, msg) ==
    IF rows[i].kind = "card" THEN [turn EXCEPT ![rows[i].turn].cardMsg = msg]
    ELSE [turn EXCEPT ![rows[i].turn].msg = msg]

\* _enqueue_terminal_progress_cleanup, _mark_terminal_progress_deleted
CleanupAfter(i) ==
    LET t == rows[i].turn IN
    IF turn[t].cleanup # "active" THEN rows' = Sent(i) /\ UNCHANGED turn
    ELSE IF turn[t].msg = NoRow
         THEN rows' = Sent(i) /\ turn' = [turn EXCEPT ![t].cleanup = "deleted"]
         ELSE /\ rows' = Append(Sent(i), NewRow(t, "delete", "delete", i, "nothing"))
              /\ turn' = [turn EXCEPT ![t].cleanup = "delete_pending"]
AckRow(w, i) ==
    \/ /\ rows[i].kind \in {"reaction", "notice"}
       /\ rows' = Sent(i) /\ UNCHANGED <<turn, volatile>>
    \/ /\ rows[i].kind \in {"progress", "card"}
       /\ rows' = Sent(i) /\ turn' = Bind(i, worker[w].got) /\ UNCHANGED volatile
    \/ /\ rows[i].kind = "final"
       /\ CleanupAfter(i) /\ volatile' = volatile \ {rows[i].turn}
    \/ /\ rows[i].kind = "delete"
       /\ rows' = Sent(i) /\ UNCHANGED volatile
       /\ turn' = [turn EXCEPT ![rows[i].turn].msg = NoRow, ![rows[i].turn].cleanup = "deleted"]

Ack(w) ==
    /\ worker[w].pc = "ack" /\ Holds(w)
    /\ AckRow(w, worker[w].row) /\ Release(w)
    /\ UNCHANGED <<discord, reported, dead, stalled, faults>>

Retry(w) ==
    /\ worker[w].pc = "retry" /\ Holds(w)
    /\ rows' = [rows EXCEPT ![worker[w].row].state = "retry", ![worker[w].row].owner = NoWorker,
                            ![worker[w].row].expired = FALSE]
    /\ Release(w)
    /\ UNCHANGED <<turn, volatile, discord, reported, dead, stalled, faults>>

\* fail_outbox_permanently: a failed deletion fails the cleanup, any other row
\* of a thread makes a notice for the channel
FailedRows(i) ==
    LET failed == [rows EXCEPT ![i].state = "dead_letter", ![i].owner = NoWorker, ![i].expired = FALSE]
    IN IF rows[i].kind # "delete" /\ Destination(rows[i]) = "thread" THEN InsertNotice(failed) ELSE failed

Fail(w) ==
    LET i == worker[w].row IN
    /\ worker[w].pc = "fail" /\ Holds(w)
    /\ rows' = FailedRows(i)
    /\ turn' = IF rows[i].kind = "delete" THEN [turn EXCEPT ![rows[i].turn].cleanup = "delete_failed"] ELSE turn
    /\ dead' = dead \cup {i}
    /\ Release(w)
    /\ UNCHANGED <<volatile, discord, reported, stalled, faults>>

LeaseConflict(w) ==
    /\ worker[w].pc \in {"ack", "retry", "fail"} /\ ~Holds(w)
    /\ Release(w)
    /\ UNCHANGED <<rows, turn, volatile, discord, reported, dead, stalled, faults>>

(***************************************************************************)
(* Leases, restarts and what Discord does in the meantime.                 *)
(***************************************************************************)
\* renewals fail until the lease has passed although the delivery goes on; a
\* lease that is renewed before a claim notices was never lost
Expire(w) ==
    /\ worker[w].pc # "idle" /\ Holds(w) /\ ~RowOf(w).expired
    /\ Fault("stall")
    /\ rows' = [rows EXCEPT ![worker[w].row].expired = TRUE]
    /\ stalled' = stalled \cup {worker[w].row}
    /\ UNCHANGED <<turn, worker, volatile, discord, reported, dead>>

\* the request of an abandoned delivery may be on its way
Abandoned(W) == {Current(w) : w \in {v \in W : worker[v].pc = "post"}}

\* a renewal that changes no row cancels the delivery
LoseLease(w) ==
    /\ worker[w].pc \in Delivering /\ ~Holds(w)
    /\ late' \in {late, late \cup Abandoned({w})}
    /\ Release(w)
    /\ UNCHANGED <<rows, turn, volatile, copies, reaction, known, buried, reported, dead, stalled, faults>>

\* recover_startup takes every delivery in progress for one with an unknown outcome
Recovered(rs) ==
    [i \in DOMAIN rs |->
        IF rs[i].state = "sending"
        THEN [rs[i] EXCEPT !.state = "reconciling", !.owner = NoWorker, !.expired = FALSE] ELSE rs[i]]
Restart ==
    /\ Fault("restart")
    /\ \E lost \in SUBSET Abandoned(Worker) : late' = late \cup lost
    /\ worker' = [w \in Worker |-> Idle]
    /\ rows' = Recovered(rows)
    /\ volatile' = {}
    /\ UNCHANGED <<turn, copies, reaction, known, buried, reported, dead, stalled>>

LateRequest(m) ==
    /\ m \in late /\ late' = late \ {m}
    /\ Land(m) \/ UNCHANGED <<copies, known>>
    /\ UNCHANGED <<rows, turn, worker, volatile, reaction, buried, reported, dead, stalled, faults>>

RemoveMessage(i) ==
    /\ i \in DOMAIN rows /\ rows[i].kind \in {"progress", "card"} /\ Bound(i) = i /\ Visible(i)
    /\ Fault("remove") /\ copies' = [copies EXCEPT ![<<i, 1>>] = 0]
    /\ UNCHANGED <<rows, turn, worker, volatile, reaction, known, buried, late, reported, dead, stalled>>

Transactions == \E t \in Turn : Enqueue(t) \/ UpdateProgress(t) \/ RenderCard(t) \/ ToggleCard(t) \/ Terminate(t)
Deliver(w) ==
    \/ Scan(w) \/ Post(w) \/ Edit(w) \/ Delete(w) \/ React(w) \/ AddReaction(w)
    \/ Refused(w) \/ Forbidden(w)
    \/ Ack(w) \/ Retry(w) \/ Fail(w) \/ LeaseConflict(w) \/ LoseLease(w)
Environment ==
    \/ Restart
    \/ \E w \in Worker : Expire(w)
    \/ \E m \in Marker : LateRequest(m)
    \/ \E i \in Row : RemoveMessage(i)

Next == Transactions \/ (\E w \in Worker : Claim(w) \/ Deliver(w)) \/ Environment

Spec == Init /\ [][Next]_vars

\* the loops of the workers run on, and a lease that is not renewed expires
FairSpec == Spec /\ \A w \in Worker : WF_vars(Claim(w) \/ Deliver(w))

--------------------------------------------------------------------------------
(* The values every variable keeps to. *)
TypeOK ==
    /\ \A i \in DOMAIN rows :
        /\ i \in Row
        /\ rows[i].state \in Settled \cup Open \cup {"sending"}
        /\ rows[i].owner \in Worker \cup {NoWorker}
        /\ rows[i].dep \in 0..(i - 1)
        /\ (rows[i].state = "sending") = (rows[i].owner # NoWorker)
    /\ \A w \in Worker : worker[w].pc \in {"idle", "ack", "retry", "fail"} \cup Delivering
    /\ \A m \in Marker : copies[m] \in Nat
    /\ dead \cup stalled \subseteq Row
    /\ known \cup buried \cup late \cup reported \subseteq Marker

\* A message is in Discord twice only when the incident of an exhausted history
\* search says so: nonce, leases and reconciliation together leave no other way.
NoSilentDuplicate == \A m \in Marker : copies[m] > 1 => m \in reported

\* The progress message of a finished Turn is gone once its view says so, unless
\* a row that posted it became a dead letter, a duplicate was reported, or a
\* delivery went on after its claim was lost.
ProgressRemoved ==
    \A i \in DOMAIN rows :
        /\ rows[i].kind = "progress" /\ turn[rows[i].turn].cleanup = "deleted"
        /\ i \notin dead \cup stalled /\ <<i, 1>> \notin reported
        => ~Visible(i)

\* A row is acknowledged only when each of its messages is in Discord: a
\* reconciled result is not taken for complete because its first part was found.
SentIsWhole ==
    [][\A i \in DOMAIN rows :
        rows[i].kind \in {"final", "notice"} /\ rows[i].state # "sent" /\ rows'[i].state = "sent"
        => \A p \in Parts(i) : copies[<<i, p>>] > 0]_vars

\* Messages of one destination appear in the order of enqueue_sequence: the
\* first message of a row comes after every earlier row has been settled.
PostsInOrder ==
    [][\A i \in Row :
        copies[<<i, 1>>] = 0 /\ copies'[<<i, 1>>] > 0
        => /\ i \in DOMAIN rows
           /\ \A j \in 1..(i - 1) :
                Destination(rows[j]) = Destination(rows[i]) => rows[j].state \in Settled]_vars

\* Every row is settled: no lease, dependency or earlier row holds it for ever.
RowsSettle == []<>(\A i \in DOMAIN rows : rows[i].state \in Settled)

\* The prompt of a finished Turn ends with the reaction of its outcome alone,
\* unless it could not be delivered or a stalled delivery interfered.
ReactionConverges ==
    <>[](\A t \in Turn :
            turn[t].stage = "terminal" =>
                \/ reaction[t] = {turn[t].outcome}
                \/ \E i \in dead \cup stalled : rows[i].kind = "reaction" /\ rows[i].turn = t)
================================================================================
