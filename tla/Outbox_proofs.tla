----------------------------- MODULE Outbox_proofs -----------------------------
(***************************************************************************)
(* Proofs about Outbox: no message is in Discord twice without a report,   *)
(* the messages of a destination come in the order of their rows, and a    *)
(* result is acknowledged only when all of it is there, for any number of  *)
(* workers, Turns, parts and failures.                                     *)
(***************************************************************************)
EXTENDS Outbox, FiniteSetTheorems, SequenceTheorems, WellFoundedInduction, TLAPS

Kind == {"reaction", "progress", "card", "final", "delete", "notice"}
Shows == Nat \cup {"waiting", "completed", "failed", "nothing", "unavailable"}
RowState == Settled \cup Open \cup {"sending"}
RowType ==
    [turn : 0..MaxTurn, kind : Kind, op : {"send", "edit", "delete"}, dep : Nat, shows : Shows,
     state : RowState, owner : Worker \cup {NoWorker}, expired : BOOLEAN]
View ==
    [stage : {"none", "active", "terminal"}, rev : Nat, card : Nat, toggles : Nat,
     outcome : {"none", "completed", "failed"}, msg : Nat, cardMsg : Nat,
     cleanup : {"active", "delete_pending", "delete_failed", "deleted"}]
Task ==
    [pc : {"idle", "ack", "retry", "fail"} \cup Delivering, row : Nat, from : Open \cup {"none"},
     part : Part, got : Nat]

\* A row waits for an earlier one only; only rows of a Turn have edits, and of the
\* rows only those of a deletion delete.
Fits(r) ==
    IF r.kind = "notice" THEN r.turn = 0 /\ r.op = "send"
    ELSE /\ r.turn \in Turn /\ (r.op = "delete" <=> r.kind = "delete")
         /\ r.kind = "final" => r.op = "send"
Rows(rs) == rs \in Seq(RowType) /\ \A i \in DOMAIN rs : rs[i].dep < i /\ Fits(rs[i])

Typed ==
    /\ Rows(rows) /\ turn \in [Turn -> View] /\ worker \in [Worker -> Task]
    /\ copies \in [Marker -> Nat]

\* An active Turn has a row for its progress.
Shown == \A t \in Turn : turn[t].stage = "active" => Progress(rows, t) # {}

\* Row i was claimed: it is there, it is not pending any more, and what comes
\* before it in its destination is done.
Ready(i) ==
    /\ i \in DOMAIN rows /\ rows[i].state # "pending"
    /\ \A j \in 1..(i - 1) :
          Destination(rows[j]) = Destination(rows[i]) => rows[j].state \in Settled

\* Only a claimed row has messages, requests on their way, or a delivery.
Begun ==
    /\ \A m \in Marker : copies[m] > 0 => Ready(m[1])
    /\ \A m \in late : Ready(m[1])
    /\ \A w \in Worker :
          /\ worker[w].pc # "idle" => Ready(worker[w].row)
          /\ worker[w].pc = "edit" => rows[worker[w].row].kind # "notice"

\* Posting m again is harmless, or its incident is reported.
Safe(m) == copies[m] > 0 => m \in known \cup reported

\* Who posts has looked for the message, or is the first to claim the row. While
\* a delivery goes on or a request is on its way, Discord forgets no nonce of its
\* row.
Careful ==
    /\ NoSilentDuplicate
    /\ \A m \in Marker : m \in late => Safe(m)
    /\ \A w \in Worker, p \in Part :
          LET m == <<worker[w].row, p>> IN
          /\ m \in Marker /\ worker[w].pc = "post" /\ worker[w].part = p => Safe(m)
          /\ m \in Marker /\ worker[w].pc # "idle" /\ worker[w].from = "pending" => Safe(m)

Sound == Shown /\ Begun /\ Careful
IInv == Typed /\ Sound


\* What a row is for; no two rows are for the same, and what a row may be for
\* follows from the tables: so there are never more rows than Row has.
What(r) == IF r.kind = "reaction" /\ r.shows # "waiting" THEN "outcome" ELSE r.kind
Nth(r) == IF r.kind \in {"progress", "card"} THEN r.shows ELSE 0
Label(r) == <<r.turn, What(r), Nth(r)>>
Labels(rs) == {Label(rs[i]) : i \in DOMAIN rs}
Distinct(rs) == \A i, j \in DOMAIN rs : Label(rs[i]) = Label(rs[j]) => i = j

Permits(v, what, n) ==
    \/ what = "reaction" /\ v.stage # "none" /\ n = 0
    \/ what \in {"outcome", "final"} /\ v.stage = "terminal" /\ n = 0
    \/ what = "progress" /\ n \in 1..v.rev
    \/ what = "card" /\ n \in 1..v.card
    \/ what = "delete" /\ v.cleanup # "active" /\ n = 0
Allows(tn, l) == l[2] = "notice" \/ (l[1] \in Turn /\ Permits(tn[l[1]], l[2], l[3]))
Counted(v) ==
    /\ v.stage = "none" => v.rev = 0 /\ v.card = 0 /\ v.cleanup = "active"
    /\ v.toggles <= MaxToggle
    /\ v.rev + v.card <= v.toggles + MaxUpdate + (IF v.stage = "terminal" THEN 3 ELSE 1)
Listed ==
    /\ Distinct(rows) /\ \A l \in Labels(rows) : Allows(turn, l)
    /\ \A t \in Turn : Counted(turn[t])

\* The message of a view was posted for a row of that view: what is removed from
\* Discord is never a part of a result.
Message(t, m) ==
    m = NoRow \/ (m \in DOMAIN rows /\ rows[m].turn = t /\ rows[m].kind \in {"progress", "card"})
Attached ==
    /\ \A t \in Turn : Message(t, turn[t].msg) /\ Message(t, turn[t].cardMsg)
    /\ \A w \in Worker :
          worker[w].pc = "ack" /\ rows[worker[w].row].kind \in {"progress", "card"} =>
              Message(rows[worker[w].row].turn, worker[w].got)

\* A nonce that Discord remembers is that of a message, and the parts that a
\* delivery has left behind are there.
Result(i) == i \in DOMAIN rows /\ rows[i].kind \in {"final", "notice"}
Delivered(w) ==
    worker[w].pc # "idle" /\ Result(worker[w].row) =>
        /\ worker[w].pc \in {"scan", "post", "ack", "retry", "fail"}
        /\ \A p \in Parts(worker[w].row) :
              worker[w].pc = "ack" \/ (worker[w].pc \in {"scan", "post"} /\ p < worker[w].part)
                  => copies[<<worker[w].row, p>>] > 0
Whole ==
    /\ \A m \in Marker : m \in known => m[1] \in DOMAIN rows /\ (Result(m[1]) => copies[m] > 0)
    /\ \A w \in Worker : Delivered(w)

Complete == Listed /\ Attached /\ Whole

-----------------------------------------------------------------------------
(***************************************************************************)
(* Rows: what the transactions do to them.                                 *)
(***************************************************************************)
\* What may become of a row: it keeps what it is, it is pending only from the
\* start, and what is settled stays so.
Kept(r, q) ==
    /\ q.turn = r.turn /\ q.kind = r.kind /\ q.op = r.op /\ q.dep = r.dep
    /\ q.state = "pending" => r.state = "pending"
    /\ r.state \in Settled => q.state \in Settled

Grown(rs, qs) ==
    /\ Rows(qs) /\ DOMAIN rs \subseteq DOMAIN qs
    /\ \A i \in DOMAIN rs : Kept(rs[i], qs[i])
    /\ \A t \in Turn : Progress(rs, t) # {} => Progress(qs, t) # {}

LEMMA LeastOf ==
    ASSUME NEW T \in SUBSET Nat, T # {}
    PROVE  \E x \in T : \A y \in T : x <= y
<1> DEFINE R == OpToRel(<, Nat)
<1>1. IsWellFoundedOn(R, Nat)
  BY NatLessThanWellFounded
<1>2. \A x, y \in Nat : <<y, x>> \in R <=> y < x
  BY DEF OpToRel
<1> HIDE DEF R
<1>3. \E x \in T : \A y \in T : ~(<<y, x>> \in R)
  BY <1>1, WFMin
<1>4. \A x, y \in Nat : ~(y < x) => x <= y
  OBVIOUS
<1>. QED BY <1>2, <1>3, <1>4

LEMMA NewestIn ==
    ASSUME NEW n \in Nat, NEW T \in SUBSET (1..n), T # {}
    PROVE  Newest(T) \in T
<1> DEFINE U == {n - i : i \in T}
<1>1. U \in SUBSET Nat /\ U # {}
  <2>1. \A i \in T : n - i \in Nat
    OBVIOUS
  <2>. QED BY <2>1
<1>2. PICK x \in U : \A y \in U : x <= y
  BY <1>1, LeastOf
<1>3. PICK i \in T : x = n - i
  OBVIOUS
<1>4. ASSUME NEW j \in T PROVE j <= i
  <2>1. n - i <= n - j
    BY <1>2, <1>3
  <2>2. i \in Nat /\ j \in Nat
    OBVIOUS
  <2>. QED BY <2>1, <2>2
<1>. QED BY <1>3, <1>4 DEF Newest

LEMMA SeqOfFunction ==
    ASSUME NEW S, NEW n \in Nat, NEW f \in [1..n -> S]
    PROVE  f \in Seq(S) /\ Len(f) = n
<1>1. f \in Seq(S)
  BY SeqDef
<1>2. Len(f) \in Nat /\ DOMAIN f = 1..Len(f)
  BY <1>1, LenProperties
<1>3. ~(n < Len(f)) /\ ~(Len(f) < n)
  <2>1. 1..Len(f) = 1..n
    BY <1>2
  <2>. QED BY <1>2, <2>1
<1>. QED BY <1>1, <1>2, <1>3

LEMMA RowsHave ==
    ASSUME NEW rs, Rows(rs)
    PROVE  /\ Len(rs) \in Nat /\ DOMAIN rs = 1..Len(rs)
           /\ \A i \in DOMAIN rs : rs[i] \in RowType
           /\ rs \in [1..Len(rs) -> RowType]
BY LenProperties, ElementOfSeq DEF Rows

LEMMA GrownTransitive ==
    ASSUME NEW rs, NEW qs, NEW us, Grown(rs, qs), Grown(qs, us)
    PROVE  Grown(rs, us)
BY DEF Grown, Kept

\* A step that rewrites rows.
LEMMA Rewritten ==
    ASSUME NEW rs, NEW qs, Rows(rs), qs \in [DOMAIN rs -> RowType],
           \A i \in DOMAIN rs : Kept(rs[i], qs[i]),
           \A i \in DOMAIN rs : rs[i].kind = "progress" /\ rs[i].state # "superseded" =>
                                    qs[i].state # "superseded"
    PROVE  Grown(rs, qs) /\ DOMAIN qs = DOMAIN rs
<1>1. Len(rs) \in Nat /\ DOMAIN rs = 1..Len(rs) /\ DOMAIN qs = DOMAIN rs
  BY RowsHave
<1>2. qs \in Seq(RowType)
  BY <1>1, SeqOfFunction
<1>3. \A i \in DOMAIN qs : qs[i].dep < i /\ Fits(qs[i])
  BY <1>1 DEF Rows, Kept, Fits
<1>4. \A t \in Turn : Progress(rs, t) # {} => Progress(qs, t) # {}
  BY <1>1 DEF Progress, SameKey, Kept
<1>. QED BY <1>1, <1>2, <1>3, <1>4 DEF Grown, Rows

\* A row that is added.
LEMMA Added ==
    ASSUME NEW rs, Rows(rs), NEW r \in RowType, Fits(r), r.dep \in {NoRow} \cup DOMAIN rs
    PROVE  /\ Grown(rs, Append(rs, r)) /\ DOMAIN Append(rs, r) = DOMAIN rs \cup {Len(rs) + 1}
           /\ Append(rs, r)[Len(rs) + 1] = r
           /\ \A i \in DOMAIN rs : Append(rs, r)[i] = rs[i]
<1> DEFINE qs == Append(rs, r)
<1>1. Len(rs) \in Nat /\ DOMAIN rs = 1..Len(rs) /\ rs \in Seq(RowType)
  BY RowsHave DEF Rows
<1>2. /\ qs \in Seq(RowType) /\ Len(qs) = Len(rs) + 1 /\ qs[Len(rs) + 1] = r
      /\ \A i \in 1..Len(rs) : qs[i] = rs[i]
  BY <1>1, AppendProperties
<1> HIDE DEF qs
<1>3. DOMAIN qs = 1..(Len(rs) + 1)
  BY <1>2, LenProperties
<1>4. DOMAIN qs = DOMAIN rs \cup {Len(rs) + 1} /\ DOMAIN rs \subseteq DOMAIN qs
  BY <1>1, <1>3
<1>5. \A i \in DOMAIN qs : qs[i].dep < i /\ Fits(qs[i])
  BY <1>1, <1>2, <1>4 DEF Rows, NoRow
<1>6. \A t \in Turn : Progress(rs, t) \subseteq Progress(qs, t)
  BY <1>1, <1>2, <1>4 DEF Progress, SameKey
<1>7. \A i \in DOMAIN rs : Kept(rs[i], qs[i])
  BY <1>1, <1>2 DEF Kept
<1>8. Grown(rs, qs)
  BY <1>2, <1>4, <1>5, <1>6, <1>7 DEF Grown, Rows
<1>. QED BY <1>1, <1>2, <1>4, <1>8 DEF qs

LEMMA Unchanged == ASSUME NEW rs, Rows(rs) PROVE Grown(rs, rs)
BY DEF Grown, Kept

LEMMA NewRowTyped ==
    ASSUME NEW t \in 0..MaxTurn, NEW kind \in Kind, NEW op \in {"send", "edit", "delete"},
           NEW dep \in Nat, NEW shows \in Shows,
           IF kind = "notice" THEN t = 0 /\ op = "send"
           ELSE t \in Turn /\ (op = "delete" <=> kind = "delete") /\ (kind = "final" => op = "send")
    PROVE  /\ NewRow(t, kind, op, dep, shows) \in RowType /\ Fits(NewRow(t, kind, op, dep, shows))
           /\ NewRow(t, kind, op, dep, shows).dep = dep
BY DEF NewRow, RowType, RowState, Open, Fits

\* A row whose state is set, and with it the lease.
Moved(r, st, owner) == [r EXCEPT !.state = st, !.owner = owner, !.expired = FALSE]

LEMMA MovedTyped ==
    ASSUME NEW r \in RowType, NEW st \in RowState, NEW owner \in Worker \cup {NoWorker}
    PROVE  /\ Moved(r, st, owner) \in RowType /\ Moved(r, st, owner).state = st
           /\ Moved(r, st, owner).turn = r.turn /\ Moved(r, st, owner).kind = r.kind
           /\ Moved(r, st, owner).op = r.op /\ Moved(r, st, owner).dep = r.dep
           /\ Moved(r, st, owner).shows = r.shows
<1> DEFINE a == [r EXCEPT !.state = st]
<1> DEFINE b == [a EXCEPT !.owner = owner]
<1> DEFINE c == [b EXCEPT !.expired = FALSE]
<1>1. a \in RowType /\ a.state = st /\ a.turn = r.turn /\ a.kind = r.kind /\ a.op = r.op /\ a.dep = r.dep /\ a.shows = r.shows
  BY DEF RowType
<1>2. Moved(r, st, owner) = c
  BY DEF Moved
<1> HIDE DEF a
<1>3. b \in RowType /\ b.state = st /\ b.turn = r.turn /\ b.kind = r.kind /\ b.op = r.op /\ b.dep = r.dep /\ b.shows = r.shows
  BY <1>1 DEF RowType
<1> HIDE DEF b
<1>4. c \in RowType /\ c.state = st /\ c.turn = r.turn /\ c.kind = r.kind /\ c.op = r.op /\ c.dep = r.dep /\ c.shows = r.shows
  BY <1>3 DEF RowType
<1> HIDE DEF c
<1>. QED BY <1>2, <1>4

LEMMA SupersedeGrows ==
    ASSUME NEW rs, Rows(rs), NEW t, NEW kind \in {"reaction", "card"}, NEW states \in SUBSET Open
    PROVE  Grown(rs, Supersede(rs, t, kind, states))
<1> DEFINE qs == Supersede(rs, t, kind, states)
<1>1. ASSUME NEW i \in DOMAIN rs
      PROVE  /\ qs[i] \in RowType /\ Kept(rs[i], qs[i])
             /\ rs[i].kind = "progress" => qs[i].state = rs[i].state
  <2>1. rs[i] \in RowType
    BY RowsHave
  <2>2. qs[i] = IF SameKey(rs[i], t, kind) /\ rs[i].state \in states
                THEN [rs[i] EXCEPT !.state = "superseded"] ELSE rs[i]
    BY DEF Supersede
  <2> HIDE DEF qs
  <2>3. CASE SameKey(rs[i], t, kind) /\ rs[i].state \in states
    <3>1. qs[i] \in RowType /\ qs[i].state = "superseded" /\ qs[i].turn = rs[i].turn
          /\ qs[i].kind = rs[i].kind /\ qs[i].op = rs[i].op /\ qs[i].dep = rs[i].dep
      BY <2>1, <2>2, <2>3 DEF RowType, RowState, Settled
    <3>2. rs[i].kind # "progress"
      BY <2>3 DEF SameKey
    <3>. QED BY <3>1, <3>2 DEF Kept, Settled
  <2>4. CASE ~(SameKey(rs[i], t, kind) /\ rs[i].state \in states)
    BY <2>1, <2>2, <2>4 DEF Kept
  <2>. QED BY <2>3, <2>4
<1>2. qs \in [DOMAIN rs -> RowType]
  <2>1. qs = [i \in DOMAIN rs |-> qs[i]]
    BY DEF Supersede
  <2> HIDE DEF qs
  <2>. QED BY <1>1, <2>1
<1> HIDE DEF qs
<1>3. Grown(rs, qs)
  BY <1>1, <1>2, Rewritten
<1>. QED BY <1>3 DEF qs

LEMMA AppendGrows ==
    ASSUME NEW rs, NEW qs, Rows(rs), Grown(rs, qs), NEW r \in RowType, Fits(r), r.dep = NoRow
    PROVE  Grown(rs, Append(qs, r))
BY Added, GrownTransitive DEF Grown

LEMMA InsertReactionGrows ==
    ASSUME NEW rs, Rows(rs), NEW t \in Turn, NEW state \in {"waiting", "completed", "failed"}
    PROVE  Grown(rs, InsertReaction(rs, t, state))
<1>1. Grown(rs, Supersede(rs, t, "reaction", Open))
  BY SupersedeGrows
<1>2. t \in 0..MaxTurn /\ NoRow \in Nat /\ state \in Shows /\ "reaction" \in Kind
  BY OutboxAssumption DEF Turn, NoRow, Shows, Kind
<1>3. NewRow(t, "reaction", "edit", NoRow, state) \in RowType /\ Fits(NewRow(t, "reaction", "edit", NoRow, state))
      /\ NewRow(t, "reaction", "edit", NoRow, state).dep = NoRow
  BY <1>2, NewRowTyped
<1>. QED BY <1>1, <1>3, AppendGrows DEF InsertReaction

LEMMA InsertProgressGrows ==
    ASSUME NEW rs, Rows(rs), NEW t \in Turn, NEW rev \in Nat
    PROVE  Grown(rs, InsertProgress(rs, t, rev))
<1> DEFINE prev == Progress(rs, t)
<1> DEFINE k == Newest(prev)
<1>1. CASE prev # {} /\ rs[k].state = "pending"
  <2> DEFINE qs == [rs EXCEPT ![k].shows = rev]
  <2>1. k \in DOMAIN rs
    <3>1. Len(rs) \in Nat /\ prev \in SUBSET (1..Len(rs))
      BY RowsHave DEF Progress
    <3> HIDE DEF prev
    <3>2. Newest(prev) \in prev
      BY <1>1, <3>1, NewestIn
    <3>. QED BY <3>1, <3>2, RowsHave
  <2>2. InsertProgress(rs, t, rev) = qs
    BY <1>1 DEF InsertProgress
  <2> HIDE DEF k
  <2>3. ASSUME NEW i \in DOMAIN rs
        PROVE  qs[i] \in RowType /\ Kept(rs[i], qs[i]) /\ qs[i].state = rs[i].state
    <3>1. rs[i] \in RowType
      BY RowsHave
    <3>2. qs[i] = IF i = k THEN [rs[i] EXCEPT !.shows = rev] ELSE rs[i]
      OBVIOUS
    <3> HIDE DEF qs
    <3>3. CASE i = k
      <4>1. rev \in Shows
        BY DEF Shows
      <4>2. /\ qs[i] \in RowType /\ qs[i].state = rs[i].state /\ qs[i].turn = rs[i].turn
            /\ qs[i].kind = rs[i].kind /\ qs[i].op = rs[i].op /\ qs[i].dep = rs[i].dep
        BY <3>1, <3>2, <3>3, <4>1 DEF RowType
      <4>. QED BY <4>2 DEF Kept
    <3>4. CASE i # k
      BY <3>1, <3>2, <3>4 DEF Kept
    <3>. QED BY <3>3, <3>4
  <2>4. qs \in [DOMAIN rs -> RowType]
    <3>1. qs = [i \in DOMAIN rs |-> qs[i]]
      BY <2>1, RowsHave
    <3> HIDE DEF qs
    <3>. QED BY <2>3, <3>1
  <2> HIDE DEF qs
  <2>5. Grown(rs, qs)
    BY <2>3, <2>4, Rewritten
  <2>. QED BY <2>2, <2>5
<1>2. CASE ~(prev # {} /\ rs[k].state = "pending")
  <2>1. t \in 0..MaxTurn /\ NoRow \in Nat /\ rev \in Shows /\ "progress" \in Kind
    BY OutboxAssumption DEF Turn, NoRow, Shows, Kind
  <2>2. NewRow(t, "progress", "edit", NoRow, rev) \in RowType /\ Fits(NewRow(t, "progress", "edit", NoRow, rev))
        /\ NewRow(t, "progress", "edit", NoRow, rev).dep = NoRow
    BY <2>1, NewRowTyped
  <2>3. Grown(rs, Append(rs, NewRow(t, "progress", "edit", NoRow, rev)))
    BY <2>2, Unchanged, AppendGrows
  <2>. QED BY <1>2, <2>3 DEF InsertProgress
<1>. QED BY <1>1, <1>2

LEMMA InsertCardGrows ==
    ASSUME NEW rs, Rows(rs), NEW t \in Turn, NEW rev \in Nat
    PROVE  Grown(rs, InsertCard(rs, t, rev))
<1>1. Grown(rs, Supersede(rs, t, "card", {"pending"}))
  BY SupersedeGrows DEF Open
<1> DEFINE op == IF rev = 1 THEN "send" ELSE "edit"
<1>2. /\ t \in 0..MaxTurn /\ NoRow \in Nat /\ rev \in Shows /\ "card" \in Kind
      /\ op \in {"send", "edit", "delete"} /\ op # "delete"
  BY OutboxAssumption DEF Turn, NoRow, Shows, Kind
<1>3. InsertCard(rs, t, rev) =
        Append(Supersede(rs, t, "card", {"pending"}), NewRow(t, "card", op, NoRow, rev))
  BY DEF InsertCard
<1> HIDE DEF op
<1>4. NewRow(t, "card", op, NoRow, rev) \in RowType /\ Fits(NewRow(t, "card", op, NoRow, rev)) /\ NewRow(t, "card", op, NoRow, rev).dep = NoRow
  BY <1>2, NewRowTyped
<1>. QED BY <1>1, <1>3, <1>4, AppendGrows

LEMMA InsertNoticeGrows ==
    ASSUME NEW rs, Rows(rs)
    PROVE  Grown(rs, InsertNotice(rs))
<1>1. 0 \in 0..MaxTurn /\ NoRow \in Nat /\ "unavailable" \in Shows /\ "notice" \in Kind
  BY OutboxAssumption DEF NoRow, Shows, Kind
<1>2. NewRow(0, "notice", "send", NoRow, "unavailable") \in RowType /\ Fits(NewRow(0, "notice", "send", NoRow, "unavailable"))
      /\ NewRow(0, "notice", "send", NoRow, "unavailable").dep = NoRow
  BY <1>1, NewRowTyped
<1>3. Grown(rs, rs) /\ Grown(rs, Append(rs, NewRow(0, "notice", "send", NoRow, "unavailable")))
  BY <1>2, Unchanged, AppendGrows
<1>. QED BY <1>3 DEF InsertNotice

LEMMA InsertFinalGrows ==
    ASSUME NEW rs, Rows(rs), NEW t \in Turn, NEW outcome \in {"completed", "failed"},
           Progress(rs, t) # {}
    PROVE  Grown(rs, InsertFinal(rs, t, outcome))
<1> DEFINE dep == Newest(Progress(rs, t))
<1>1. dep \in DOMAIN rs
  <2>1. Len(rs) \in Nat /\ Progress(rs, t) \in SUBSET (1..Len(rs))
    BY RowsHave DEF Progress
  <2>2. dep \in Progress(rs, t)
    BY <2>1, NewestIn
  <2>. QED BY <2>1, <2>2, RowsHave
<1> HIDE DEF dep
<1>2. /\ t \in 0..MaxTurn /\ dep \in Nat /\ outcome \in Shows /\ "final" \in Kind
  BY <1>1, RowsHave, OutboxAssumption DEF Turn, Shows, Kind
<1>3. NewRow(t, "final", "send", dep, outcome) \in RowType /\ Fits(NewRow(t, "final", "send", dep, outcome))
      /\ NewRow(t, "final", "send", dep, outcome).dep = dep
  BY <1>2, NewRowTyped
<1>4. Grown(rs, Append(rs, NewRow(t, "final", "send", dep, outcome)))
  BY <1>1, <1>3, Added
<1>. QED BY <1>4 DEF InsertFinal, dep

\* A delivery that is moved on: no settled row is touched.
LEMMA MoveGrows ==
    ASSUME NEW rs, Rows(rs), NEW i \in DOMAIN rs, rs[i].state \notin Settled,
           NEW st \in RowState \ {"pending", "superseded"}, NEW owner \in Worker \cup {NoWorker}
    PROVE  /\ Grown(rs, [rs EXCEPT ![i] = Moved(rs[i], st, owner)])
           /\ [rs EXCEPT ![i] = Moved(rs[i], st, owner)] \in [DOMAIN rs -> RowType]
<1> DEFINE q == Moved(rs[i], st, owner)
<1>1. rs[i] \in RowType /\ rs \in [DOMAIN rs -> RowType]
  BY RowsHave
<1>2. q \in RowType /\ q.state = st /\ q.turn = rs[i].turn /\ q.kind = rs[i].kind /\ q.op = rs[i].op /\ q.dep = rs[i].dep
  BY <1>1, MovedTyped
<1> HIDE DEF q
<1>3. Kept(rs[i], q)
  BY <1>2 DEF Kept
<1> DEFINE qs == [rs EXCEPT ![i] = q]
<1>4. qs \in [DOMAIN rs -> RowType] /\ qs[i] = q /\ \A j \in DOMAIN rs \ {i} : qs[j] = rs[j]
  BY <1>1, <1>2
<1> HIDE DEF qs
<1>5. Grown(rs, qs)
  BY <1>2, <1>3, <1>4, Rewritten DEF Kept
<1>. QED BY <1>4, <1>5 DEF q, qs


\* Rows whose state is set one by one.
LEMMA MovesGrow ==
    ASSUME NEW rs, Rows(rs), NEW qs, DOMAIN qs = DOMAIN rs, qs = [i \in DOMAIN rs |-> qs[i]],
           \A i \in DOMAIN rs :
              \/ qs[i] = rs[i]
              \/ \E st \in RowState \ {"pending"}, owner \in Worker \cup {NoWorker} :
                    /\ qs[i] = Moved(rs[i], st, owner)
                    /\ rs[i].state \in Settled => st \in Settled
                    /\ rs[i].kind = "progress" => st # "superseded"
    PROVE  Grown(rs, qs)
<1>1. ASSUME NEW i \in DOMAIN rs
      PROVE  /\ qs[i] \in RowType /\ Kept(rs[i], qs[i])
             /\ rs[i].kind = "progress" /\ rs[i].state # "superseded" => qs[i].state # "superseded"
  <2>1. rs[i] \in RowType
    BY RowsHave
  <2>2. CASE qs[i] = rs[i]
    BY <2>1, <2>2 DEF Kept
  <2>3. ASSUME NEW st \in RowState \ {"pending"}, NEW owner \in Worker \cup {NoWorker},
               qs[i] = Moved(rs[i], st, owner), rs[i].state \in Settled => st \in Settled,
               rs[i].kind = "progress" => st # "superseded"
        PROVE  /\ qs[i] \in RowType /\ Kept(rs[i], qs[i])
               /\ rs[i].kind = "progress" /\ rs[i].state # "superseded" => qs[i].state # "superseded"
    <3>1. /\ qs[i] \in RowType /\ qs[i].state = st /\ qs[i].turn = rs[i].turn
          /\ qs[i].kind = rs[i].kind /\ qs[i].op = rs[i].op /\ qs[i].dep = rs[i].dep
      BY <2>1, <2>3, MovedTyped
    <3>. QED BY <2>3, <3>1 DEF Kept
  <2>. QED BY <2>2, <2>3
<1>2. qs \in [DOMAIN rs -> RowType]
  BY <1>1
<1>. QED BY <1>1, <1>2, Rewritten

LEMMA SweptGrows ==
    ASSUME Rows(rows)
    PROVE  /\ Grown(rows, Swept) /\ DOMAIN Swept = DOMAIN rows
           /\ \A i \in DOMAIN rows : Swept[i].state = StateNow(i)
<1>1. DOMAIN Swept = DOMAIN rows /\ Swept = [i \in DOMAIN rows |-> Swept[i]]
  BY DEF Swept
<1>2. ASSUME NEW i \in DOMAIN rows
      PROVE  /\ Swept[i].state = StateNow(i)
             /\ \/ Swept[i] = rows[i]
                \/ \E st \in RowState \ {"pending"}, owner \in Worker \cup {NoWorker} :
                    /\ Swept[i] = Moved(rows[i], st, owner)
                    /\ rows[i].state \in Settled => st \in Settled
                    /\ rows[i].kind = "progress" => st # "superseded"
  <2>1. rows[i] \in RowType
    BY RowsHave
  <2>2. Swept[i] = IF i \in Expired \cup Dropped THEN Moved(rows[i], StateNow(i), NoWorker) ELSE rows[i]
    BY DEF Swept, Moved
  <2>3. CASE i \in Expired \cup Dropped
    <3>1. StateNow(i) \in {"superseded", "reconciling"} /\ rows[i].state \notin Settled
      BY <2>3 DEF StateNow, Expired, Dropped, Settled
    <3>2. rows[i].kind = "progress" => StateNow(i) # "superseded"
      BY <2>3 DEF StateNow, Expired, Dropped
    <3>3. StateNow(i) \in RowState \ {"pending"}
      BY <3>1 DEF RowState, Settled, Open
    <3>4. Moved(rows[i], StateNow(i), NoWorker).state = StateNow(i)
      BY <2>1, <3>3, MovedTyped
    <3>. QED BY <2>2, <2>3, <3>1, <3>2, <3>3, <3>4
  <2>4. CASE i \notin Expired \cup Dropped
    BY <2>2, <2>4 DEF StateNow
  <2>. QED BY <2>3, <2>4
<1>. QED BY <1>1, <1>2, MovesGrow

\* The claim of row i on what the sweep left.
LEMMA ClaimGrows ==
    ASSUME Rows(rows), NEW i \in DOMAIN rows, StateNow(i) \notin Settled, NEW w \in Worker,
           rows' = [Swept EXCEPT ![i].state = "sending", ![i].owner = w]
    PROVE  /\ Grown(rows, rows') /\ DOMAIN rows' = DOMAIN rows
           /\ rows'[i].state = "sending" /\ \A j \in DOMAIN rows \ {i} : rows'[j].state = StateNow(j)
<1>1. /\ Grown(rows, Swept) /\ DOMAIN Swept = DOMAIN rows /\ Rows(Swept)
      /\ \A j \in DOMAIN rows : Swept[j].state = StateNow(j)
  BY SweptGrows DEF Grown
<1> DEFINE q == [[Swept[i] EXCEPT !.state = "sending"] EXCEPT !.owner = w]
<1>2. rows' = [Swept EXCEPT ![i] = q]
  BY <1>1
<1>3. Swept[i] \in RowType /\ Swept \in [DOMAIN rows -> RowType]
  BY <1>1, RowsHave
<1>4. /\ q \in RowType /\ q.state = "sending" /\ q.turn = Swept[i].turn
      /\ q.kind = Swept[i].kind /\ q.op = Swept[i].op /\ q.dep = Swept[i].dep
  <2> DEFINE a == [Swept[i] EXCEPT !.state = "sending"]
  <2>1. /\ a \in RowType /\ a.state = "sending" /\ a.turn = Swept[i].turn
        /\ a.kind = Swept[i].kind /\ a.op = Swept[i].op /\ a.dep = Swept[i].dep
    BY <1>3 DEF RowType, RowState
  <2>2. q = [a EXCEPT !.owner = w]
    OBVIOUS
  <2> HIDE DEF a, q
  <2>. QED BY <2>1, <2>2 DEF RowType
<1> HIDE DEF q
<1>5. /\ rows' \in [DOMAIN Swept -> RowType] /\ rows'[i] = q
      /\ \A j \in DOMAIN rows \ {i} : rows'[j] = Swept[j]
  BY <1>1, <1>2, <1>3, <1>4
<1>6. Swept[i].state \notin Settled
  BY <1>1
<1>7. Grown(Swept, rows') /\ DOMAIN rows' = DOMAIN Swept
  BY <1>1, <1>4, <1>5, <1>6, Rewritten DEF Kept
<1>. QED BY <1>1, <1>4, <1>5, <1>7, GrownTransitive

LEMMA RecoveredGrows ==
    ASSUME Rows(rows)
    PROVE  Grown(rows, Recovered(rows))
<1>1. /\ DOMAIN Recovered(rows) = DOMAIN rows
      /\ Recovered(rows) = [i \in DOMAIN rows |-> Recovered(rows)[i]]
  BY DEF Recovered
<1>2. ASSUME NEW i \in DOMAIN rows
      PROVE  \/ Recovered(rows)[i] = rows[i]
             \/ /\ Recovered(rows)[i] = Moved(rows[i], "reconciling", NoWorker)
                /\ rows[i].state = "sending"
  BY DEF Recovered, Moved
<1>3. "reconciling" \in RowState \ {"pending"} /\ "sending" \notin Settled
  BY DEF RowState, Settled, Open
<1>. QED BY <1>1, <1>2, <1>3, MovesGrow

\* A transaction that ends a delivery.
LEMMA EndGrows ==
    ASSUME Rows(rows), NEW i \in DOMAIN rows, rows[i].state = "sending",
           NEW st \in {"sent", "retry", "dead_letter"},
           NEW qs, qs = [rows EXCEPT ![i].state = st, ![i].owner = NoWorker, ![i].expired = FALSE]
    PROVE  Grown(rows, qs) /\ DOMAIN qs = DOMAIN rows /\ qs[i].state = st
<1>1. rows \in [DOMAIN rows -> RowType] /\ rows[i] \in RowType
  BY RowsHave
<1>2. st \in RowState \ {"pending", "superseded"} /\ rows[i].state \notin Settled
  BY DEF RowState, Settled, Open
<1>3. qs = [rows EXCEPT ![i] = Moved(rows[i], st, NoWorker)]
  BY <1>1 DEF Moved
<1>4. Moved(rows[i], st, NoWorker).state = st
  BY <1>1, <1>2, MovedTyped
<1>5. Grown(rows, qs) /\ qs \in [DOMAIN rows -> RowType]
  <2> DEFINE us == [rows EXCEPT ![i] = Moved(rows[i], st, NoWorker)]
  <2>1. Grown(rows, us) /\ us \in [DOMAIN rows -> RowType]
    BY <1>2, MoveGrows
  <2>2. qs = us
    BY <1>3
  <2> HIDE DEF us
  <2>. QED BY <2>1, <2>2
<1>6. qs[i] = Moved(rows[i], st, NoWorker)
  BY <1>1, <1>3
<1>. QED BY <1>4, <1>5, <1>6

\* ack_outbox on the rows: the progress view keeps the row that was sent.
LEMMA SentGrows ==
    ASSUME Rows(rows), NEW i \in DOMAIN rows, rows[i].state = "sending"
    PROVE  Grown(rows, Sent(i)) /\ DOMAIN Sent(i) = DOMAIN rows
<1> DEFINE rs == [rows EXCEPT ![i].state = "sent", ![i].owner = NoWorker, ![i].expired = FALSE]
<1> DEFINE qs == Compacted(rs, i)
<1>1. Grown(rows, rs) /\ DOMAIN rs = DOMAIN rows /\ rs[i].state = "sent"
  BY EndGrows
<1>2. Sent(i) = qs
  BY DEF Sent
<1> HIDE DEF rs
<1>3. Rows(rs) /\ i \in DOMAIN rs
  BY <1>1 DEF Grown
<1>4. DOMAIN qs = DOMAIN rs /\ qs = [j \in DOMAIN rs |-> qs[j]]
  BY DEF Compacted
<1>5. \A j \in DOMAIN rs :
        qs[j] = IF rs[i].kind = "progress" /\ j # i /\ SameKey(rs[j], rs[i].turn, "progress")
                   /\ rs[j].state \in Settled
                THEN [rs[j] EXCEPT !.state = "superseded"] ELSE rs[j]
  BY DEF Compacted
<1> HIDE DEF qs
<1>6. ASSUME NEW j \in DOMAIN rs
      PROVE  qs[j] \in RowType /\ Kept(rs[j], qs[j])
  <2>1. rs[j] \in RowType
    BY <1>3, RowsHave
  <2>2. CASE qs[j] = rs[j]
    BY <2>1, <2>2 DEF Kept
  <2>3. CASE qs[j] = [rs[j] EXCEPT !.state = "superseded"]
    <3>1. /\ qs[j] \in RowType /\ qs[j].state = "superseded" /\ qs[j].turn = rs[j].turn
          /\ qs[j].kind = rs[j].kind /\ qs[j].op = rs[j].op /\ qs[j].dep = rs[j].dep
      BY <2>1, <2>3 DEF RowType, RowState, Settled
    <3>. QED BY <3>1 DEF Kept, Settled
  <2>. QED BY <1>5, <2>2, <2>3
<1>7. ASSUME NEW t \in Turn, Progress(rs, t) # {}
      PROVE  Progress(qs, t) # {}
  <2>1. PICK j \in DOMAIN rs : SameKey(rs[j], t, "progress") /\ rs[j].state # "superseded"
    BY <1>7 DEF Progress
  <2>2. CASE qs[j] = rs[j]
    BY <1>4, <2>1, <2>2 DEF Progress
  <2>3. CASE qs[j] # rs[j]
    <3>1. rs[i].kind = "progress" /\ rs[i].turn = t
      BY <1>5, <2>1, <2>3 DEF SameKey
    <3>2. qs[i] = rs[i]
      BY <1>3, <1>5
    <3>3. i \in Progress(qs, t)
      BY <1>1, <1>3, <1>4, <3>1, <3>2 DEF Progress, SameKey
    <3>. QED BY <3>3
  <2>. QED BY <2>2, <2>3
<1>8. qs \in Seq(RowType)
  <2>1. Len(rs) \in Nat /\ DOMAIN rs = 1..Len(rs)
    BY <1>3, RowsHave
  <2>2. qs \in [1..Len(rs) -> RowType]
    BY <1>4, <1>6, <2>1
  <2>. QED BY <2>1, <2>2, SeqOfFunction
<1>9. \A j \in DOMAIN qs : qs[j].dep < j /\ Fits(qs[j])
  BY <1>3, <1>4, <1>6 DEF Rows, Kept, Fits
<1>10. Rows(qs)
  BY <1>8, <1>9 DEF Rows
<1>11. Grown(rs, qs)
  BY <1>3, <1>4, <1>6, <1>7, <1>10 DEF Grown
<1>. QED BY <1>1, <1>2, <1>4, <1>11, GrownTransitive

LEMMA FailedGrows ==
    ASSUME Rows(rows), NEW i \in DOMAIN rows, rows[i].state = "sending"
    PROVE  Grown(rows, FailedRows(i))
<1> DEFINE rs == [rows EXCEPT ![i].state = "dead_letter", ![i].owner = NoWorker, ![i].expired = FALSE]
<1>1. Grown(rows, rs)
  BY EndGrows
<1>2. FailedRows(i) \in {rs, InsertNotice(rs)}
  BY DEF FailedRows
<1> HIDE DEF rs
<1>3. Rows(rs)
  BY <1>1 DEF Grown
<1>4. Grown(rs, InsertNotice(rs))
  BY <1>3, InsertNoticeGrows
<1>. QED BY <1>1, <1>2, <1>4, GrownTransitive

\* A row stays ready for good, and so does the progress of a Turn.
LEMMA ReadyStays ==
    ASSUME Rows(rows), Grown(rows, rows'), NEW i, Ready(i)
    PROVE  Ready(i)'
<1>1. i \in DOMAIN rows' /\ rows'[i].state # "pending"
  BY DEF Ready, Grown, Kept
<1>2. ASSUME NEW j \in 1..(i - 1), Destination(rows'[j]) = Destination(rows'[i])
      PROVE  rows'[j].state \in Settled
  <2>1. j \in DOMAIN rows
    BY RowsHave DEF Ready
  <2>2. Kept(rows[j], rows'[j]) /\ Kept(rows[i], rows'[i])
    BY <2>1 DEF Grown, Ready
  <2>3. Destination(rows[j]) = Destination(rows[i])
    BY <1>2, <2>2 DEF Kept, Destination
  <2>. QED BY <2>2, <2>3 DEF Ready, Kept
<1>. QED BY <1>1, <1>2 DEF Ready

-----------------------------------------------------------------------------
(***************************************************************************)
(* A step that claims no row keeps the invariant.                          *)
(***************************************************************************)
\* Messages appear for ready rows only, and what appears is remembered.
Landed ==
    /\ copies' \in [Marker -> Nat] /\ known \subseteq known' /\ reported \subseteq reported'
    /\ \A m \in Marker :
          \/ copies'[m] <= copies[m]
          \/ Ready(m[1]) /\ m \in known' /\ (copies'[m] <= 1 \/ m \in reported')

SafeNext(m) == copies'[m] > 0 => m \in known' \cup reported'

\* A delivery ends, or goes on with its row. It begins to post what is safe.
Follows(w) ==
    \/ worker'[w].pc = "idle"
    \/ /\ worker[w].pc # "idle" /\ worker'[w].row = worker[w].row /\ worker'[w].from = worker[w].from
       /\ worker'[w].pc = "edit" => worker[w].pc = "edit"
       /\ worker'[w].pc = "post" =>
            \/ worker[w].pc = "post" /\ worker'[w].part = worker[w].part
            \/ worker[w].from = "pending"
            \/ Current(w)' \in Marker => SafeNext(Current(w)')

Goes ==
    /\ Grown(rows, rows')
    /\ turn' \in [Turn -> View] /\ Shown'
    /\ worker' \in [Worker -> Task] /\ \A w \in Worker : Follows(w)
    /\ Landed
    /\ late' \subseteq late \cup Abandoned(Worker)

LEMMA SafeStays ==
    ASSUME Landed, NEW m \in Marker, Safe(m), copies \in [Marker -> Nat]
    PROVE  SafeNext(m)
<1>1. copies[m] \in Nat /\ copies'[m] \in Nat
  BY DEF Landed
<1>2. CASE copies'[m] <= copies[m]
  <2>1. copies'[m] > 0 => copies[m] > 0
    BY <1>1, <1>2
  <2>. QED BY <2>1 DEF Safe, SafeNext, Landed
<1>3. CASE ~(copies'[m] <= copies[m])
  BY <1>3 DEF Safe, SafeNext, Landed
<1>. QED BY <1>2, <1>3

LEMMA GoesBegun ==
    ASSUME IInv, Goes
    PROVE  Begun'
<1>1. Rows(rows) /\ Grown(rows, rows')
  BY DEF IInv, Typed, Goes
<1>2. ASSUME NEW m \in Marker, copies'[m] > 0
      PROVE  Ready(m[1])
  <2>1. copies[m] \in Nat /\ copies'[m] \in Nat
    BY DEF IInv, Typed, Goes, Landed
  <2>2. copies'[m] <= copies[m] => copies[m] > 0
    BY <1>2, <2>1
  <2>. QED BY <2>2 DEF IInv, Sound, Begun, Goes, Landed
<1>3. ASSUME NEW m \in late'
      PROVE  Ready(m[1])
  <2>1. CASE m \in late
    BY <2>1 DEF IInv, Sound, Begun
  <2>2. CASE m \notin late
    <3>1. PICK w \in Worker : worker[w].pc = "post" /\ m = Current(w)
      BY <1>3, <2>2 DEF Goes, Abandoned
    <3>. QED BY <3>1 DEF Current, IInv, Sound, Begun
  <2>. QED BY <2>1, <2>2
<1>4. ASSUME NEW w \in Worker, worker'[w].pc # "idle"
      PROVE  /\ worker'[w].row = worker[w].row /\ Ready(worker[w].row)
             /\ worker'[w].pc = "edit" => rows[worker[w].row].kind # "notice"
  BY <1>4 DEF Goes, Follows, IInv, Sound, Begun
<1>5. \A i : Ready(i) => Ready(i)' /\ rows'[i].kind = rows[i].kind
  <2> SUFFICES ASSUME NEW i, Ready(i)
               PROVE  Ready(i)' /\ rows'[i].kind = rows[i].kind
    OBVIOUS
  <2>1. Ready(i)'
    BY <1>1, ReadyStays
  <2>2. rows'[i].kind = rows[i].kind
    BY <1>1 DEF Ready, Grown, Kept
  <2>. QED BY <2>1, <2>2
<1>6. \A m \in Marker : copies'[m] > 0 => Ready(m[1])'
  BY <1>2, <1>5
<1>7. \A m \in late' : Ready(m[1])'
  BY <1>3, <1>5
<1>8. ASSUME NEW w \in Worker
      PROVE  /\ (worker[w].pc # "idle" => Ready(worker[w].row))'
             /\ (worker[w].pc = "edit" => rows[worker[w].row].kind # "notice")'
  <2>1. CASE worker'[w].pc = "idle"
    BY <2>1
  <2>2. CASE worker'[w].pc # "idle"
    <3>1. /\ worker'[w].row = worker[w].row /\ Ready(worker[w].row)
          /\ worker'[w].pc = "edit" => rows[worker[w].row].kind # "notice"
      BY <1>4, <2>2
    <3>2. PICK i : i = worker[w].row
      OBVIOUS
    <3>3. Ready(i)' /\ rows'[i].kind = rows[i].kind
      BY <1>5, <3>1, <3>2
    <3>4. Ready(worker[w].row)'
      BY <3>1, <3>2, <3>3 DEF Ready
    <3>. QED BY <3>1, <3>2, <3>3, <3>4
  <2>. QED BY <2>1, <2>2
<1>. QED BY <1>6, <1>7, <1>8 DEF Begun, Ready

LEMMA GoesCareful ==
    ASSUME IInv, Goes
    PROVE  Careful'
<1>1. copies \in [Marker -> Nat] /\ copies' \in [Marker -> Nat]
  BY DEF IInv, Typed, Goes, Landed
<1>2. \A m \in Marker : Safe(m) => SafeNext(m)
  BY <1>1, SafeStays DEF Goes
<1>3. NoSilentDuplicate'
  <2> SUFFICES ASSUME NEW m \in Marker, copies'[m] > 1
               PROVE  m \in reported'
    BY DEF NoSilentDuplicate
  <2>1. copies[m] \in Nat /\ copies'[m] \in Nat
    BY <1>1
  <2>2. CASE copies'[m] <= copies[m]
    <3>1. copies[m] > 1
      BY <2>1, <2>2
    <3>. QED BY <3>1 DEF IInv, Sound, Careful, NoSilentDuplicate, Goes, Landed
  <2>3. CASE ~(copies'[m] <= copies[m])
    <3>1. ~(copies'[m] <= 1)
      BY <2>1
    <3>. QED BY <2>3, <3>1 DEF Goes, Landed
  <2>. QED BY <2>2, <2>3
<1>4. ASSUME NEW w \in Worker, worker[w].pc = "post", Current(w) \in Marker
      PROVE  Safe(Current(w))
  <2>1. worker[w].part \in Part
    BY DEF IInv, Typed, Task
  <2>. QED BY <1>4, <2>1 DEF IInv, Sound, Careful, Current
<1>5. ASSUME NEW m \in Marker, m \in late'
      PROVE  SafeNext(m)
  <2>1. CASE m \in late
    BY <1>2, <2>1 DEF IInv, Sound, Careful
  <2>2. CASE m \notin late
    <3>1. PICK w \in Worker : worker[w].pc = "post" /\ m = Current(w)
      BY <1>5, <2>2 DEF Goes, Abandoned
    <3>. QED BY <1>2, <1>4, <3>1
  <2>. QED BY <2>1, <2>2
<1>6. ASSUME NEW w \in Worker, NEW p \in Part, <<worker'[w].row, p>> \in Marker,
             \/ worker'[w].pc = "post" /\ worker'[w].part = p
             \/ worker'[w].pc # "idle" /\ worker'[w].from = "pending"
      PROVE  SafeNext(<<worker'[w].row, p>>)
  <2> DEFINE m == <<worker'[w].row, p>>
  <2>1. /\ worker[w].pc # "idle" /\ worker'[w].row = worker[w].row
        /\ worker'[w].from = worker[w].from /\ m = <<worker[w].row, p>> /\ m \in Marker
    BY <1>6 DEF Goes, Follows
  <2>2. worker[w].from = "pending" => Safe(m)
    BY <1>6, <2>1 DEF IInv, Sound, Careful
  <2>3. worker[w].pc = "post" /\ worker[w].part = p => Safe(m)
    BY <1>6, <2>1 DEF IInv, Sound, Careful
  <2>4. Safe(m) => SafeNext(m)
    BY <1>2, <2>1
  <2>5. CASE worker[w].from = "pending" \/ (worker[w].pc = "post" /\ worker[w].part = p)
    BY <2>2, <2>3, <2>4, <2>5
  <2>6. CASE worker[w].from # "pending" /\ ~(worker[w].pc = "post" /\ worker[w].part = p)
    <3>1. worker'[w].pc = "post" /\ worker'[w].part = p
      BY <1>6, <2>1, <2>6
    <3>2. Current(w)' = m
      BY <3>1 DEF Current
    <3>3. Current(w)' \in Marker => SafeNext(Current(w)')
      BY <2>6, <3>1 DEF Goes, Follows
    <3>. QED BY <2>1, <3>2, <3>3
  <2>. QED BY <2>5, <2>6
<1>7. ASSUME NEW w \in Worker, NEW p \in Part
      PROVE  LET m == <<worker'[w].row, p>> IN
             /\ m \in Marker /\ worker'[w].pc = "post" /\ worker'[w].part = p => SafeNext(m)
             /\ m \in Marker /\ worker'[w].pc # "idle" /\ worker'[w].from = "pending" => SafeNext(m)
  BY <1>6
<1>. QED BY <1>3, <1>5, <1>7 DEF Careful, Safe, SafeNext

LEMMA Preserved ==
    ASSUME IInv, Goes
    PROVE  IInv'
<1>1. Typed'
  BY DEF Goes, Grown, Landed, Typed
<1>2. Begun' /\ Careful'
  BY GoesBegun, GoesCareful
<1>. QED BY <1>1, <1>2 DEF IInv, Sound, Goes

\* The transactions of other parts leave deliveries and messages alone.
Quiet == UNCHANGED <<worker, copies, known, late, reported>>

LEMMA QuietGoes ==
    ASSUME IInv, Quiet, Grown(rows, rows'), turn' \in [Turn -> View], Shown'
    PROVE  Goes
<1>1. worker' \in [Worker -> Task] /\ \A w \in Worker : Follows(w)
  BY DEF Quiet, Follows, IInv, Typed
<1>2. copies' = copies /\ copies \in [Marker -> Nat] /\ \A m \in Marker : copies[m] <= copies[m]
  BY DEF Quiet, IInv, Typed
<1>3. Landed
  BY <1>2 DEF Quiet, Landed
<1>. QED BY <1>1, <1>3 DEF Quiet, Goes

LEMMA ShownStays ==
    ASSUME Shown, Grown(rows, rows'),
           \A u \in Turn : turn'[u].stage = "active" => turn[u].stage = "active"
    PROVE  Shown'
BY DEF Shown, Grown

\* A step on one Turn.
LEMMA TurnTyped ==
    ASSUME IInv, NEW t \in Turn, NEW v \in View, turn' = [turn EXCEPT ![t] = v],
           v.stage = "active" => turn[t].stage = "active", Grown(rows, rows')
    PROVE  turn' \in [Turn -> View] /\ Shown'
<1>1. turn \in [Turn -> View] /\ Shown
  BY DEF IInv, Typed, Sound
<1>2. turn' \in [Turn -> View] /\ \A u \in Turn : turn'[u] = IF u = t THEN v ELSE turn[u]
  BY <1>1
<1>3. \A u \in Turn : turn'[u].stage = "active" => turn[u].stage = "active"
  BY <1>2
<1>. QED BY <1>1, <1>2, <1>3, ShownStays

LEMMA EnqueueGoes ==
    ASSUME IInv, NEW t \in Turn, Enqueue(t)
    PROVE  Goes
<1> DEFINE rs == InsertReaction(rows, t, "waiting")
<1> DEFINE r == NewRow(t, "progress", "send", NoRow, 1)
<1>1. Rows(rows) /\ turn \in [Turn -> View] /\ Shown
  BY DEF IInv, Typed, Sound
<1>2. Grown(rows, rs) /\ Rows(rs)
  BY <1>1, InsertReactionGrows DEF Grown
<1>3. r \in RowType /\ Fits(r) /\ r.dep = NoRow
  <2>1. t \in 0..MaxTurn /\ NoRow \in Nat /\ 1 \in Shows /\ "progress" \in Kind
    BY OutboxAssumption DEF Turn, NoRow, Shows, Kind
  <2>. QED BY <2>1, NewRowTyped
<1>4. rows' = Append(rs, r) /\ turn' = [turn EXCEPT ![t].stage = "active", ![t].rev = 1]
  BY DEF Enqueue
<1>5. SameKey(r, t, "progress") /\ r.state # "superseded"
  BY DEF NewRow, SameKey
<1> HIDE DEF rs, r
<1>6. Grown(rs, rows') /\ DOMAIN rows' = DOMAIN rs \cup {Len(rs) + 1} /\ rows'[Len(rs) + 1] = r
  BY <1>2, <1>3, <1>4, Added
<1>7. Grown(rows, rows')
  BY <1>2, <1>6, GrownTransitive
<1>8. Progress(rows', t) # {}
  BY <1>5, <1>6 DEF Progress
<1>9. turn' \in [Turn -> View] /\ \A u \in Turn \ {t} : turn'[u] = turn[u]
  <2> DEFINE v == [turn[t] EXCEPT !.stage = "active", !.rev = 1]
  <2>1. v \in View
    BY <1>1 DEF View
  <2>2. turn' = [turn EXCEPT ![t] = v]
    BY <1>1, <1>4
  <2> HIDE DEF v
  <2>. QED BY <1>1, <2>1, <2>2
<1>10. Shown'
  BY <1>1, <1>7, <1>8, <1>9 DEF Shown, Grown
<1>. QED BY <1>7, <1>9, <1>10, QuietGoes DEF Enqueue, discord, Quiet

LEMMA UpdateProgressGoes ==
    ASSUME IInv, NEW t \in Turn, UpdateProgress(t)
    PROVE  Goes
<1>1. Rows(rows) /\ turn[t] \in View /\ turn \in [Turn -> View]
  BY DEF IInv, Typed
<1>2. turn[t].rev + 1 \in Nat
  BY <1>1 DEF View
<1>3. Grown(rows, rows')
  BY <1>1, <1>2, InsertProgressGrows DEF UpdateProgress
<1> DEFINE v == [turn[t] EXCEPT !.rev = turn[t].rev + 1]
<1>4. v \in View /\ v.stage = turn[t].stage /\ turn' = [turn EXCEPT ![t] = v]
  BY <1>1, <1>2 DEF View, UpdateProgress
<1> HIDE DEF v
<1>. QED BY <1>3, <1>4, TurnTyped, QuietGoes DEF UpdateProgress, discord, Quiet

LEMMA RenderCardGoes ==
    ASSUME IInv, NEW t \in Turn, RenderCard(t)
    PROVE  Goes
<1>1. Rows(rows) /\ turn[t] \in View /\ turn \in [Turn -> View]
  BY DEF IInv, Typed
<1>2. turn[t].card + 1 \in Nat
  BY <1>1 DEF View
<1>3. Grown(rows, rows')
  BY <1>1, <1>2, InsertCardGrows DEF RenderCard
<1> DEFINE v == [turn[t] EXCEPT !.card = turn[t].card + 1]
<1>4. v \in View /\ v.stage = turn[t].stage /\ turn' = [turn EXCEPT ![t] = v]
  BY <1>1, <1>2 DEF View, RenderCard
<1> HIDE DEF v
<1>. QED BY <1>3, <1>4, TurnTyped, QuietGoes DEF RenderCard, discord, Quiet

LEMMA ToggleCardGoes ==
    ASSUME IInv, NEW t \in Turn, ToggleCard(t)
    PROVE  Goes
<1>1. Rows(rows) /\ turn[t] \in View /\ turn \in [Turn -> View]
  BY DEF IInv, Typed
<1>2. turn[t].card + 1 \in Nat /\ turn[t].toggles + 1 \in Nat
  BY <1>1 DEF View
<1>3. Grown(rows, rows')
  BY <1>1, <1>2, InsertCardGrows DEF ToggleCard
<1> DEFINE v == [turn[t] EXCEPT !.card = turn[t].card + 1, !.toggles = turn[t].toggles + 1]
<1>4. v \in View /\ v.stage = turn[t].stage /\ turn' = [turn EXCEPT ![t] = v]
  BY <1>1, <1>2 DEF View, ToggleCard
<1> HIDE DEF v
<1>. QED BY <1>3, <1>4, TurnTyped, QuietGoes DEF ToggleCard, discord, Quiet

LEMMA TerminateGoes ==
    ASSUME IInv, NEW t \in Turn, Terminate(t)
    PROVE  Goes
<1>1. Rows(rows) /\ turn[t] \in View /\ turn \in [Turn -> View] /\ Progress(rows, t) # {}
  BY DEF IInv, Typed, Sound, Shown, Terminate
<1>2. turn[t].rev + 1 \in Nat /\ turn[t].card + 1 \in Nat
  BY <1>1 DEF View
<1>3. PICK outcome \in {"completed", "failed"} :
        /\ rows' = InsertFinal(InsertProgress(InsertReaction(FinishCard(rows, t), t, outcome),
                                              t, turn[t].rev + 1), t, outcome)
        /\ turn' = [turn EXCEPT ![t].stage = "terminal", ![t].outcome = outcome, ![t].rev = @ + 1,
                                ![t].card = IF @ = 0 THEN 0 ELSE @ + 1]
  BY DEF Terminate
<1> DEFINE a == FinishCard(rows, t)
<1> DEFINE b == InsertReaction(a, t, outcome)
<1> DEFINE c == InsertProgress(b, t, turn[t].rev + 1)
<1>4. Grown(rows, a)
  BY <1>1, <1>2, InsertCardGrows, Unchanged DEF FinishCard
<1>5. Grown(a, b)
  <2> HIDE DEF a
  <2>. QED BY <1>4, InsertReactionGrows DEF Grown
<1>6. Grown(b, c)
  <2> HIDE DEF b
  <2>. QED BY <1>2, <1>5, InsertProgressGrows DEF Grown
<1>7. Grown(rows, c)
  <2> HIDE DEF a, b, c
  <2>. QED BY <1>4, <1>5, <1>6, GrownTransitive
<1>8. Grown(c, rows')
  <2>1. rows' = InsertFinal(c, t, outcome)
    BY <1>3
  <2> HIDE DEF c
  <2>2. Rows(c) /\ Progress(c, t) # {}
    BY <1>1, <1>7 DEF Grown
  <2>. QED BY <2>1, <2>2, InsertFinalGrows
<1>9. Grown(rows, rows')
  <2> HIDE DEF c
  <2>. QED BY <1>7, <1>8, GrownTransitive
<1> DEFINE n == IF turn[t].card = 0 THEN 0 ELSE turn[t].card + 1
<1> DEFINE v == [turn[t] EXCEPT !.stage = "terminal", !.outcome = outcome, !.rev = turn[t].rev + 1,
                                !.card = n]
<1>10. v \in View /\ v.stage = "terminal" /\ turn' = [turn EXCEPT ![t] = v]
  <2>1. n \in Nat
    BY <1>2
  <2>2. turn' = [turn EXCEPT ![t] = v]
    BY <1>1, <1>3
  <2> HIDE DEF n
  <2>3. v \in View /\ v.stage = "terminal"
    BY <1>1, <1>2, <2>1 DEF View
  <2>. QED BY <2>2, <2>3
<1> HIDE DEF v
<1>. QED BY <1>9, <1>10, TurnTyped, QuietGoes DEF Terminate, discord, Quiet

\* A step of one delivery.
Goal(w, q) ==
    \/ q.pc = "idle"
    \/ /\ q.row = worker[w].row /\ q.from = worker[w].from /\ q.pc # "edit"
       /\ q.pc = "post" =>
            \/ q.from = "pending"
            \/ <<q.row, q.part>> \in Marker => SafeNext(<<q.row, q.part>>)

LEMMA WorkerGoes ==
    ASSUME IInv, NEW w \in Worker, worker[w].pc # "idle", NEW q \in Task, Goal(w, q),
           worker' = [worker EXCEPT ![w] = q]
    PROVE  worker' \in [Worker -> Task] /\ \A v \in Worker : Follows(v)
<1>1. worker \in [Worker -> Task]
  BY DEF IInv, Typed
<1>2. worker' \in [Worker -> Task] /\ \A v \in Worker : worker'[v] = IF v = w THEN q ELSE worker[v]
  BY <1>1
<1>3. ASSUME NEW v \in Worker
      PROVE  Follows(v)
  <2>1. CASE v = w
    <3>1. worker'[v] = q
      BY <1>2, <2>1
    <3>2. Current(v)' = <<q.row, q.part>>
      BY <3>1 DEF Current
    <3>. QED BY <2>1, <3>1, <3>2 DEF Follows, Goal
  <2>2. CASE v # w
    BY <1>2, <2>2 DEF Follows
  <2>. QED BY <2>1, <2>2
<1>. QED BY <1>2, <1>3

\* The forms of such a step.
LEMMA StepGoes ==
    ASSUME IInv, NEW w \in Worker, worker[w].pc # "idle",
           NEW pc \in {"ack", "retry", "fail", "add", "post"}, Step(w, pc),
           pc = "post" => (Current(w) \in Marker => SafeNext(Current(w)))
    PROVE  worker' \in [Worker -> Task] /\ \A v \in Worker : Follows(v)
<1> DEFINE q == [worker[w] EXCEPT !.pc = pc]
<1>1. worker[w] \in Task
  BY DEF IInv, Typed
<1>2. /\ q \in Task /\ q.pc = pc /\ q.row = worker[w].row /\ q.from = worker[w].from
      /\ q.part = worker[w].part
  BY <1>1 DEF Task, Delivering
<1>3. worker' = [worker EXCEPT ![w] = q]
  BY DEF Step
<1> HIDE DEF q
<1>4. Goal(w, q)
  BY <1>2 DEF Goal, Current
<1>. QED BY <1>2, <1>3, <1>4, WorkerGoes

LEMMA AcknowledgeGoes ==
    ASSUME IInv, NEW w \in Worker, worker[w].pc # "idle", NEW got \in Nat, Acknowledge(w, got)
    PROVE  worker' \in [Worker -> Task] /\ \A v \in Worker : Follows(v)
<1> DEFINE q == [worker[w] EXCEPT !.pc = "ack", !.got = got]
<1>1. worker[w] \in Task
  BY DEF IInv, Typed
<1>2. q \in Task /\ q.pc = "ack" /\ q.row = worker[w].row /\ q.from = worker[w].from
  BY <1>1 DEF Task
<1>3. worker' = [worker EXCEPT ![w] = q]
  BY DEF Acknowledge
<1> HIDE DEF q
<1>4. Goal(w, q)
  BY <1>2 DEF Goal
<1>. QED BY <1>2, <1>3, <1>4, WorkerGoes

LEMMA ReleaseGoes ==
    ASSUME IInv, NEW w \in Worker, worker[w].pc # "idle", Release(w)
    PROVE  worker' \in [Worker -> Task] /\ \A v \in Worker : Follows(v)
<1>1. 1 \in Part
  BY OutboxAssumption DEF Part, Footer
<1>2. Idle \in Task /\ Idle.pc = "idle"
  BY <1>1 DEF Idle, Task, NoRow
<1>. QED BY <1>2, WorkerGoes DEF Release, Goal

LEMMA AdvanceGoes ==
    ASSUME IInv, NEW w \in Worker, worker[w].pc # "idle", Advance(w)
    PROVE  worker' \in [Worker -> Task] /\ \A v \in Worker : Follows(v)
<1> DEFINE left == {p \in Parts(worker[w].row) : p > worker[w].part}
<1> DEFINE next == CHOOSE p \in left : \A q \in left : p <= q
<1>1. worker[w] \in Task
  BY DEF IInv, Typed
<1>2. CASE left = {}
  <2>1. Acknowledge(w, worker[w].row)
    BY <1>2 DEF Advance
  <2>2. worker[w].row \in Nat
    BY <1>1 DEF Task
  <2>. QED BY <2>1, <2>2, AcknowledgeGoes
<1>3. CASE left # {}
  <2>1. Part \subseteq Nat /\ 1 \in Part /\ Footer \in Part
    BY OutboxAssumption DEF Part, Footer
  <2>2. left \subseteq Part
    BY <2>1 DEF Parts
  <2>3. next \in left
    <3> HIDE DEF left
    <3>1. \E p \in left : \A q \in left : p <= q
      BY <1>3, <2>1, <2>2, LeastOf
    <3>. QED BY <3>1
  <2>4. worker' = [worker EXCEPT ![w].pc = Entry(worker[w].from), ![w].part = next]
    BY <1>3 DEF Advance
  <2>5. next \in Part
    BY <2>2, <2>3
  <2> HIDE DEF left, next
  <2> DEFINE q == [worker[w] EXCEPT !.pc = Entry(worker[w].from), !.part = next]
  <2>6. worker' = [worker EXCEPT ![w] = q]
    BY <2>4
  <2>7. Entry(worker[w].from) \in {"post", "scan"}
        /\ (Entry(worker[w].from) = "post" => worker[w].from = "pending")
    BY DEF Entry
  <2>8. /\ q \in Task /\ q.pc = Entry(worker[w].from) /\ q.row = worker[w].row
        /\ q.from = worker[w].from
    BY <1>1, <2>5, <2>7 DEF Task, Delivering
  <2> HIDE DEF q
  <2>9. Goal(w, q)
    BY <2>7, <2>8 DEF Goal
  <2>. QED BY <2>6, <2>8, <2>9, WorkerGoes
<1>. QED BY <1>2, <1>3

\* A step of a delivery before its end.
LEMMA DeliveryGoes ==
    ASSUME IInv, UNCHANGED <<rows, turn>>, worker' \in [Worker -> Task],
           \A v \in Worker : Follows(v), Landed, late' \subseteq late \cup Abandoned(Worker)
    PROVE  Goes
<1>1. Rows(rows) /\ turn \in [Turn -> View] /\ Shown
  BY DEF IInv, Typed, Sound
<1>2. Grown(rows, rows')
  BY <1>1, Unchanged
<1>3. Shown'
  BY <1>1, <1>2, ShownStays
<1>. QED BY <1>1, <1>2, <1>3 DEF Goes

LEMMA NothingLands ==
    ASSUME IInv, UNCHANGED <<copies, known>>, reported \subseteq reported'
    PROVE  Landed
<1>1. copies' = copies /\ copies \in [Marker -> Nat] /\ \A m \in Marker : copies[m] <= copies[m]
  BY DEF IInv, Typed
<1>. QED BY <1>1 DEF Landed

LEMMA LandGoes ==
    ASSUME IInv, NEW m, m \in Marker => Safe(m) /\ Ready(m[1]), Land(m), reported' = reported
    PROVE  Landed /\ (m \in Marker => SafeNext(m))
<1>1. copies \in [Marker -> Nat]
  BY DEF IInv, Typed
<1>2. known' = known \cup {m}
  BY DEF Land
<1>3. CASE m \in known \/ m \notin Marker
  <2>1. copies' = copies
    BY <1>1, <1>3 DEF Land
  <2>2. \A k \in Marker : copies'[k] <= copies[k]
    BY <1>1, <2>1
  <2>. QED BY <1>1, <1>2, <2>1, <2>2 DEF Landed, SafeNext
<1>4. CASE m \notin known /\ m \in Marker
  <2>1. copies' = [copies EXCEPT ![m] = copies[m] + 1]
    BY <1>4 DEF Land
  <2>2. copies[m] \in Nat /\ copies[m] + 1 \in Nat
    BY <1>1, <1>4
  <2>3. /\ copies' \in [Marker -> Nat] /\ copies'[m] = copies[m] + 1
        /\ \A k \in Marker \ {m} : copies'[k] = copies[k] /\ copies'[k] <= copies[k]
    BY <1>1, <1>4, <2>1, <2>2
  <2>4. copies'[m] <= 1 \/ m \in reported'
    <3>1. copies[m] > 0 => m \in reported
      BY <1>4 DEF Safe
    <3>2. ~(copies[m] > 0) => copies[m] + 1 <= 1
      BY <2>2
    <3>. QED BY <2>3, <3>1, <3>2
  <2>5. \A k \in Marker : \/ copies'[k] <= copies[k]
                          \/ Ready(k[1]) /\ k \in known' /\ (copies'[k] <= 1 \/ k \in reported')
    BY <1>2, <1>4, <2>3, <2>4
  <2>. QED BY <1>2, <2>3, <2>5 DEF Landed, SafeNext
<1>. QED BY <1>3, <1>4

\* A message is deleted.
LEMMA DeletedGoes ==
    ASSUME IInv, NEW m, NEW n \in Nat, m \in Marker => n <= copies[m],
           copies' = [copies EXCEPT ![m] = n], UNCHANGED <<known, reported>>
    PROVE  Landed
<1>1. copies \in [Marker -> Nat] /\ \A k \in Marker : copies[k] <= copies[k]
  BY DEF IInv, Typed
<1>2. copies' \in [Marker -> Nat] /\ \A k \in Marker : copies'[k] = IF k = m THEN n ELSE copies[k]
  BY <1>1
<1>. QED BY <1>1, <1>2 DEF Landed

LEMMA ScanGoes ==
    ASSUME IInv, NEW w \in Worker, Scan(w)
    PROVE  Goes
<1>1. worker[w].pc # "idle" /\ reported \subseteq reported' /\ UNCHANGED <<rows, turn, discord>>
  BY DEF Scan
<1>2. CASE AdvanceFound(w)
  <2>1. Advance(w)
    BY <1>2 DEF AdvanceFound
  <2>. QED BY <1>1, <2>1, AdvanceGoes, NothingLands, DeliveryGoes DEF discord
<1>3. CASE ~AdvanceFound(w)
  <2>1. /\ Step(w, "post") /\ reported' = IF buried = {} THEN reported ELSE reported \cup {Current(w)}
        /\ ~(copies[Current(w)] > 0 /\ Current(w) \notin buried)
    BY <1>3 DEF Scan
  <2>2. SafeNext(Current(w))
    BY <1>1, <2>1 DEF SafeNext, discord
  <2>. QED BY <1>1, <2>1, <2>2, StepGoes, NothingLands, DeliveryGoes DEF discord
<1>. QED BY <1>2, <1>3

LEMMA PostGoes ==
    ASSUME IInv, NEW w \in Worker, Post(w)
    PROVE  Goes
<1> DEFINE m == Current(w)
<1>1. worker[w].pc = "post" /\ Land(m) /\ reported' = reported /\ UNCHANGED <<rows, turn, late>>
  BY DEF Post
<1>2. m \in Marker => Safe(m) /\ Ready(m[1])
  <2>1. worker[w].part \in Part
    BY DEF IInv, Typed, Task
  <2>. QED BY <1>1, <2>1 DEF IInv, Sound, Careful, Begun, Current
<1>3. Landed /\ (m \in Marker => SafeNext(m))
  <2> HIDE DEF m
  <2>. QED BY <1>1, <1>2, LandGoes
<1>4. Advance(w) \/ Step(w, "retry")
  BY DEF Post
<1>5. worker' \in [Worker -> Task] /\ \A v \in Worker : Follows(v)
  BY <1>1, <1>4, AdvanceGoes, StepGoes
<1>. QED BY <1>1, <1>3, <1>5, DeliveryGoes

LEMMA EditGoes ==
    ASSUME IInv, NEW w \in Worker, Edit(w)
    PROVE  Goes
<1> DEFINE i == worker[w].row
<1>1. worker[w].pc = "edit" /\ UNCHANGED <<rows, turn, discord, reported>>
  BY DEF Edit
<1>2. Rows(rows) /\ i \in DOMAIN rows /\ rows[i].kind # "notice"
  BY <1>1 DEF IInv, Typed, Sound, Begun, Ready
<1>3. Bound(i) \in Nat
  <2> HIDE DEF i
  <2>1. rows[i].turn \in Turn
    BY <1>2 DEF Rows, Fits
  <2>2. turn[rows[i].turn] \in View
    BY <2>1 DEF IInv, Typed
  <2>. QED BY <2>2 DEF Bound, View
<1>4. CASE Visible(Bound(i))
  <2>1. Acknowledge(w, Bound(i))
    BY <1>4 DEF Edit
  <2> HIDE DEF i
  <2>. QED BY <1>1, <1>3, <2>1, AcknowledgeGoes, NothingLands, DeliveryGoes DEF discord
<1>5. CASE ~Visible(Bound(i))
  <2> DEFINE q == [worker[w] EXCEPT !.pc = Entry(worker[w].from)]
  <2>1. worker' = [worker EXCEPT ![w] = q]
    BY <1>5 DEF Edit, Step
  <2>2. Entry(worker[w].from) \in {"post", "scan"}
        /\ (Entry(worker[w].from) = "post" => worker[w].from = "pending")
    BY DEF Entry
  <2>3. worker[w] \in Task
    BY DEF IInv, Typed
  <2>4. /\ q \in Task /\ q.pc = Entry(worker[w].from) /\ q.row = worker[w].row
        /\ q.from = worker[w].from
    BY <2>2, <2>3 DEF Task, Delivering
  <2> HIDE DEF q
  <2>5. Goal(w, q)
    BY <2>2, <2>4 DEF Goal
  <2>. QED BY <1>1, <2>1, <2>4, <2>5, WorkerGoes, NothingLands, DeliveryGoes DEF discord
<1>. QED BY <1>4, <1>5

LEMMA DeleteGoes ==
    ASSUME IInv, NEW w \in Worker, Delete(w)
    PROVE  Goes
<1> DEFINE m == <<turn[rows[worker[w].row].turn].msg, 1>>
<1>1. worker[w].pc = "delete" /\ UNCHANGED <<rows, turn, known, late, reported>>
  BY DEF Delete
<1>2. worker' \in [Worker -> Task] /\ \A v \in Worker : Follows(v)
  <2>1. Acknowledge(w, NoRow) \/ Step(w, "retry") \/ Step(w, "fail")
    BY DEF Delete
  <2>. QED BY <1>1, <2>1, AcknowledgeGoes, StepGoes DEF NoRow
<1>3. copies' = copies \/ (copies[m] > 0 /\ copies' = [copies EXCEPT ![m] = copies[m] - 1])
  BY DEF Delete, Visible
<1> HIDE DEF m
<1>4. Landed
  <2>1. CASE copies' = copies
    BY <1>1, <2>1, NothingLands
  <2>2. CASE copies[m] > 0 /\ copies' = [copies EXCEPT ![m] = copies[m] - 1] /\ m \in Marker
    <3>1. copies[m] - 1 \in Nat /\ copies[m] - 1 <= copies[m]
      <4>1. copies[m] \in Nat
        BY <2>2 DEF IInv, Typed
      <4>. QED BY <2>2, <4>1
    <3>. QED BY <1>1, <2>2, <3>1, DeletedGoes
  <2>3. CASE copies' = [copies EXCEPT ![m] = copies[m] - 1] /\ m \notin Marker
    <3>1. copies' = copies
      BY <2>3 DEF IInv, Typed
    <3>. QED BY <1>1, <3>1, NothingLands
  <2>. QED BY <1>3, <2>1, <2>2, <2>3
<1>. QED BY <1>1, <1>2, <1>4, DeliveryGoes

LEMMA ReactGoes ==
    ASSUME IInv, NEW w \in Worker, React(w) \/ AddReaction(w) \/ Refused(w) \/ Forbidden(w)
    PROVE  Goes
<1>1. /\ worker[w].pc # "idle" /\ UNCHANGED <<rows, turn, copies, known, late, reported>>
      /\ \/ Step(w, "add") \/ Step(w, "retry") \/ Step(w, "fail")
         \/ Acknowledge(w, NoRow)
  BY DEF React, AddReaction, Refused, Forbidden, Delivering, discord
<1>2. worker' \in [Worker -> Task] /\ \A v \in Worker : Follows(v)
  BY <1>1, AcknowledgeGoes, StepGoes DEF NoRow
<1>. QED BY <1>1, <1>2, NothingLands, DeliveryGoes

\* A transaction that ends a delivery.
LEMMA EndGoes ==
    ASSUME IInv, NEW w \in Worker, worker[w].pc # "idle", Release(w), Grown(rows, rows'),
           turn' \in [Turn -> View], Shown', UNCHANGED <<copies, known, late, reported>>
    PROVE  Goes
BY ReleaseGoes, NothingLands DEF Goes

LEMMA TurnKept ==
    ASSUME IInv, UNCHANGED turn, Grown(rows, rows')
    PROVE  turn' \in [Turn -> View] /\ Shown'
BY ShownStays DEF IInv, Typed, Sound

\* The row of a delivery that holds its claim.
LEMMA HeldRow ==
    ASSUME IInv, NEW w \in Worker, worker[w].pc # "idle", Holds(w)
    PROVE  /\ Rows(rows) /\ worker[w].row \in DOMAIN rows /\ rows[worker[w].row].state = "sending"
           /\ Fits(rows[worker[w].row])
BY DEF IInv, Typed, Sound, Begun, Ready, Holds, RowOf, Rows

LEMMA AckGoes ==
    ASSUME IInv, NEW w \in Worker, Ack(w)
    PROVE  Goes
<1> DEFINE i == worker[w].row
<1> DEFINE t == rows[i].turn
<1> DEFINE r == NewRow(t, "delete", "delete", i, "nothing")
<1>1. /\ worker[w].pc # "idle" /\ Holds(w) /\ AckRow(w, i) /\ Release(w)
      /\ UNCHANGED <<copies, known, late, reported>>
  BY DEF Ack, discord
<1>2. /\ Rows(rows) /\ i \in DOMAIN rows /\ i \in Nat /\ rows[i].state = "sending"
      /\ rows[i].kind # "notice" => t \in Turn
  BY <1>1, HeldRow, RowsHave DEF Fits
<1>3. Grown(rows, Sent(i)) /\ DOMAIN Sent(i) = DOMAIN rows /\ Rows(Sent(i))
  BY <1>2, SentGrows DEF Grown
<1>4. worker[w].got \in Nat
  BY DEF IInv, Typed, Task
<1>5. t \in Turn => Grown(rows, Append(Sent(i), r))
  <2> SUFFICES ASSUME t \in Turn
               PROVE  Grown(rows, Append(Sent(i), r))
    OBVIOUS
  <2>1. t \in 0..MaxTurn /\ i \in Nat /\ "nothing" \in Shows /\ "delete" \in Kind
    BY <1>2, OutboxAssumption DEF Turn, Shows, Kind
  <2>2. r \in RowType /\ Fits(r) /\ r.dep = i
    <3> HIDE DEF t, i
    <3>. QED BY <2>1, NewRowTyped
  <2> HIDE DEF r
  <2>3. Grown(Sent(i), Append(Sent(i), r))
    BY <1>2, <1>3, <2>2, Added
  <2>. QED BY <1>3, <2>3, GrownTransitive
<1>6. turn \in [Turn -> View] /\ (t \in Turn => turn[t] \in View)
  BY DEF IInv, Typed
<1> HIDE DEF t, r
<1>7. Grown(rows, rows')
  <2>1. rows' = Sent(i) \/ (rows[i].kind # "notice" /\ rows' = Append(Sent(i), r))
    BY <1>1 DEF AckRow, CleanupAfter, r, t
  <2>. QED BY <1>2, <1>3, <1>5, <2>1
<1>8. turn' \in [Turn -> View] /\ Shown'
  <2>1. CASE turn' = turn
    BY <1>7, <2>1, TurnKept
  <2>2. CASE t \in Turn /\ \E c \in {"active", "delete_pending", "delete_failed", "deleted"} :
                turn' = [turn EXCEPT ![t].cleanup = c]
    <3>1. PICK c \in {"active", "delete_pending", "delete_failed", "deleted"} :
            turn' = [turn EXCEPT ![t].cleanup = c]
      BY <2>2
    <3> DEFINE v == [turn[t] EXCEPT !.cleanup = c]
    <3>2. v \in View /\ v.stage = turn[t].stage /\ turn' = [turn EXCEPT ![t] = v]
      BY <1>6, <2>2, <3>1 DEF View
    <3> HIDE DEF v
    <3>. QED BY <1>7, <2>2, <3>2, TurnTyped
  <2>3. CASE t \in Turn /\ turn' = [turn EXCEPT ![t].msg = worker[w].got]
    <3> DEFINE v == [turn[t] EXCEPT !.msg = worker[w].got]
    <3>1. v \in View /\ v.stage = turn[t].stage /\ turn' = [turn EXCEPT ![t] = v]
      BY <1>4, <1>6, <2>3 DEF View
    <3> HIDE DEF v
    <3>. QED BY <1>7, <2>3, <3>1, TurnTyped
  <2>4. CASE t \in Turn /\ turn' = [turn EXCEPT ![t].cardMsg = worker[w].got]
    <3> DEFINE v == [turn[t] EXCEPT !.cardMsg = worker[w].got]
    <3>1. v \in View /\ v.stage = turn[t].stage /\ turn' = [turn EXCEPT ![t] = v]
      BY <1>4, <1>6, <2>4 DEF View
    <3> HIDE DEF v
    <3>. QED BY <1>7, <2>4, <3>1, TurnTyped
  <2>5. CASE t \in Turn /\ turn' = [turn EXCEPT ![t].msg = NoRow, ![t].cleanup = "deleted"]
    <3> DEFINE v == [turn[t] EXCEPT !.msg = NoRow, !.cleanup = "deleted"]
    <3>1. v \in View /\ v.stage = turn[t].stage /\ turn' = [turn EXCEPT ![t] = v]
      BY <1>6, <2>5 DEF View, NoRow
    <3> HIDE DEF v
    <3>. QED BY <1>7, <2>5, <3>1, TurnTyped
  <2>6. \/ turn' = turn
        \/ rows[i].kind # "notice" /\ \/ turn' = [turn EXCEPT ![t].cleanup = "deleted"]
                                      \/ turn' = [turn EXCEPT ![t].cleanup = "delete_pending"]
                                      \/ turn' = [turn EXCEPT ![t].msg = worker[w].got]
                                      \/ turn' = [turn EXCEPT ![t].cardMsg = worker[w].got]
                                      \/ turn' = [turn EXCEPT ![t].msg = NoRow, ![t].cleanup = "deleted"]
    BY <1>1 DEF AckRow, CleanupAfter, Bind, t
  <2>. QED BY <1>2, <2>1, <2>2, <2>3, <2>4, <2>5, <2>6 DEF t
<1>. QED BY <1>1, <1>7, <1>8, EndGoes

LEMMA RetryGoes ==
    ASSUME IInv, NEW w \in Worker, Retry(w)
    PROVE  Goes
<1> DEFINE i == worker[w].row
<1>1. /\ worker[w].pc # "idle" /\ Holds(w) /\ Release(w)
      /\ UNCHANGED <<turn, copies, known, late, reported>>
  BY DEF Retry, discord
<1>2. rows' = [rows EXCEPT ![i].state = "retry", ![i].owner = NoWorker, ![i].expired = FALSE]
  BY DEF Retry
<1>3. Rows(rows) /\ i \in DOMAIN rows /\ rows[i].state = "sending"
  BY <1>1, HeldRow
<1> HIDE DEF i
<1>4. Grown(rows, rows')
  <2>1. "retry" \in {"sent", "retry", "dead_letter"}
    OBVIOUS
  <2>. QED BY <1>2, <1>3, <2>1, EndGrows
<1>. QED BY <1>1, <1>4, TurnKept, EndGoes

LEMMA FailGoes ==
    ASSUME IInv, NEW w \in Worker, Fail(w)
    PROVE  Goes
<1> DEFINE i == worker[w].row
<1> DEFINE t == rows[i].turn
<1>1. /\ worker[w].pc # "idle" /\ Holds(w) /\ Release(w) /\ rows' = FailedRows(i)
      /\ turn' = IF rows[i].kind = "delete" THEN [turn EXCEPT ![t].cleanup = "delete_failed"] ELSE turn
      /\ UNCHANGED <<copies, known, late, reported>>
  BY DEF Fail, discord
<1>2. /\ Rows(rows) /\ i \in DOMAIN rows /\ rows[i].state = "sending"
      /\ rows[i].kind # "notice" => t \in Turn
  BY <1>1, HeldRow DEF Fits
<1>3. Grown(rows, rows')
  BY <1>1, <1>2, FailedGrows
<1>4. CASE turn' = turn
  BY <1>1, <1>3, <1>4, TurnKept, EndGoes
<1>5. CASE turn' # turn
  <2>1. t \in Turn /\ turn' = [turn EXCEPT ![t].cleanup = "delete_failed"]
    BY <1>1, <1>2, <1>5
  <2> HIDE DEF t
  <2> DEFINE v == [turn[t] EXCEPT !.cleanup = "delete_failed"]
  <2>2. turn \in [Turn -> View] /\ turn[t] \in View
    BY <2>1 DEF IInv, Typed
  <2>3. v \in View /\ v.stage = turn[t].stage /\ turn' = [turn EXCEPT ![t] = v]
    BY <2>1, <2>2 DEF View
  <2> HIDE DEF v
  <2>4. turn' \in [Turn -> View] /\ Shown'
    BY <1>3, <2>1, <2>3, TurnTyped
  <2>. QED BY <1>1, <1>3, <2>4, EndGoes
<1>. QED BY <1>4, <1>5

LEMMA LeaseGoes ==
    ASSUME IInv, NEW w \in Worker, LeaseConflict(w) \/ LoseLease(w)
    PROVE  Goes
<1>1. /\ worker[w].pc # "idle" /\ Release(w) /\ UNCHANGED <<rows, turn, copies, known, reported>>
      /\ late' \subseteq late \cup Abandoned({w})
  BY DEF LeaseConflict, LoseLease, Delivering, discord
<1>2. Abandoned({w}) \subseteq Abandoned(Worker)
  BY DEF Abandoned
<1>. QED BY <1>1, <1>2, ReleaseGoes, NothingLands, DeliveryGoes

LEMMA ExpireGoes ==
    ASSUME IInv, NEW w \in Worker, Expire(w)
    PROVE  Goes
<1> DEFINE i == worker[w].row
<1>1. /\ worker[w].pc # "idle" /\ Holds(w) /\ rows' = [rows EXCEPT ![i].expired = TRUE]
      /\ UNCHANGED <<turn, worker, copies, known, late, reported>>
  BY DEF Expire, discord
<1>2. Rows(rows) /\ i \in DOMAIN rows
  BY <1>1, HeldRow
<1>3. rows \in [DOMAIN rows -> RowType] /\ rows[i] \in RowType
  BY <1>2, RowsHave
<1> HIDE DEF i
<1> DEFINE q == [rows[i] EXCEPT !.expired = TRUE]
<1>4. /\ q \in RowType /\ q.state = rows[i].state /\ q.turn = rows[i].turn
      /\ q.kind = rows[i].kind /\ q.op = rows[i].op /\ q.dep = rows[i].dep
  BY <1>3 DEF RowType
<1>5. rows' = [rows EXCEPT ![i] = q]
  BY <1>1
<1> HIDE DEF q
<1>6. /\ rows' \in [DOMAIN rows -> RowType] /\ rows'[i] = q
      /\ \A j \in DOMAIN rows \ {i} : rows'[j] = rows[j]
  BY <1>2, <1>3, <1>4, <1>5
<1>7. \A j \in DOMAIN rows : Kept(rows[j], rows'[j]) /\ rows'[j].state = rows[j].state
  BY <1>4, <1>6 DEF Kept
<1>8. Grown(rows, rows')
  BY <1>2, <1>6, <1>7, Rewritten
<1>. QED BY <1>1, <1>8, TurnKept, QuietGoes DEF Quiet

LEMMA RestartGoes ==
    ASSUME IInv, Restart
    PROVE  Goes
<1>1. /\ worker' = [w \in Worker |-> Idle] /\ rows' = Recovered(rows)
      /\ UNCHANGED <<turn, copies, known, reported>>
      /\ late' \subseteq late \cup Abandoned(Worker)
  BY DEF Restart
<1>2. Rows(rows)
  BY DEF IInv, Typed
<1>3. Grown(rows, rows')
  BY <1>1, <1>2, RecoveredGrows
<1>4. 1 \in Part
  BY OutboxAssumption DEF Part, Footer
<1>5. worker' \in [Worker -> Task] /\ \A w \in Worker : Follows(w)
  BY <1>1, <1>4 DEF Idle, Task, NoRow, Follows
<1>. QED BY <1>1, <1>3, <1>5, TurnKept, NothingLands DEF Goes

LEMMA LateRequestGoes ==
    ASSUME IInv, NEW m \in Marker, LateRequest(m)
    PROVE  Goes
<1>1. m \in late /\ late' \subseteq late /\ UNCHANGED <<rows, turn, worker, reported>>
  BY DEF LateRequest
<1>2. Safe(m) /\ Ready(m[1])
  BY <1>1 DEF IInv, Sound, Careful, Begun
<1>3. Landed
  <2>1. CASE Land(m)
    BY <1>1, <1>2, <2>1, LandGoes
  <2>2. CASE UNCHANGED <<copies, known>>
    BY <1>1, <2>2, NothingLands
  <2>. QED BY <2>1, <2>2 DEF LateRequest
<1>4. worker' \in [Worker -> Task] /\ \A w \in Worker : Follows(w)
  BY <1>1 DEF Follows, IInv, Typed
<1>. QED BY <1>1, <1>3, <1>4, DeliveryGoes

LEMMA RemoveMessageGoes ==
    ASSUME IInv, NEW i, RemoveMessage(i)
    PROVE  Goes
<1>1. /\ copies' = [copies EXCEPT ![<<i, 1>>] = 0]
      /\ UNCHANGED <<rows, turn, worker, known, late, reported>>
  BY DEF RemoveMessage
<1>2. <<i, 1>> \in Marker => 0 <= copies[<<i, 1>>]
  BY DEF IInv, Typed
<1>3. Landed
  BY <1>1, <1>2, DeletedGoes
<1>4. worker' \in [Worker -> Task] /\ \A w \in Worker : Follows(w)
  BY <1>1 DEF Follows, IInv, Typed
<1>. QED BY <1>1, <1>3, <1>4, DeliveryGoes

-----------------------------------------------------------------------------
(***************************************************************************)
(* A claim. The sweep may have settled rows since, but what it leaves is   *)
(* in order; what Discord forgets concerns no delivery.                    *)
(***************************************************************************)
\* What is claimed is ready, and pending rows have posted nothing.
LEMMA ClaimedIsReady ==
    ASSUME IInv, NEW w \in Worker, NEW i \in DOMAIN rows, Claimable(i),
           rows' = [Swept EXCEPT ![i].state = "sending", ![i].owner = w]
    PROVE  Grown(rows, rows') /\ Ready(i)' /\ rows'[i].kind = rows[i].kind
<1>1. Rows(rows)
  BY DEF IInv, Typed
<1>2. StateNow(i) \notin Settled
  BY DEF Claimable, Open, Settled
<1>3. /\ Grown(rows, rows') /\ DOMAIN rows' = DOMAIN rows
      /\ rows'[i].state = "sending" /\ \A j \in DOMAIN rows \ {i} : rows'[j].state = StateNow(j)
  BY <1>1, <1>2, ClaimGrows
<1>4. ASSUME NEW j \in 1..(i - 1), Destination(rows'[j]) = Destination(rows'[i])
      PROVE  rows'[j].state \in Settled
  <2>1. j \in DOMAIN rows \ {i} /\ j < i /\ i \in Nat
    BY <1>1, RowsHave
  <2>2. Kept(rows[j], rows'[j]) /\ Kept(rows[i], rows'[i])
    BY <1>3, <2>1 DEF Grown
  <2>3. Destination(rows[j]) = Destination(rows[i])
    BY <1>4, <2>2 DEF Kept, Destination
  <2>4. rows[j].dep # i
    <3>1. rows[j].dep < j /\ rows[j] \in RowType
      BY <1>1, <2>1, RowsHave DEF Rows
    <3>2. rows[j].dep \in Nat
      BY <3>1 DEF RowType
    <3>. QED BY <2>1, <3>1, <3>2
  <2>5. StateNow(j) \in Settled
    BY <2>3, <2>4 DEF Claimable, InOrder
  <2>. QED BY <1>3, <2>1, <2>5
<1>. QED BY <1>3, <1>4 DEF Ready, Grown, Kept

LEMMA ClaimTaskTyped ==
    ASSUME NEW i \in DOMAIN rows, Rows(rows), Claimable(i)
    PROVE  LET q == [pc |-> FirstStep(rows[i], StateNow(i)), row |-> i,
                     from |-> StateNow(i), part |-> 1, got |-> i] IN
           /\ q \in Task /\ q.row = i /\ q.from = StateNow(i)
           /\ q.pc = "edit" => rows[i].kind # "notice"
           /\ q.pc = "post" => q.from = "pending"
<1> DEFINE pc == FirstStep(rows[i], StateNow(i))
<1>1. pc \in Delivering
  BY DEF FirstStep, Entry, Delivering
<1>2. pc = "edit" => rows[i].op = "edit"
  BY DEF FirstStep, Entry
<1>3. pc = "post" => StateNow(i) = "pending"
  BY DEF FirstStep, Entry
<1>4. rows[i].op = "edit" => rows[i].kind # "notice"
  BY DEF Rows, Fits
<1>5. StateNow(i) \in Open /\ i \in Nat /\ 1 \in Part
  BY RowsHave, OutboxAssumption DEF Claimable, Part, Footer
<1> HIDE DEF pc
<1>6. [pc |-> pc, row |-> i, from |-> StateNow(i), part |-> 1, got |-> i] \in Task
  BY <1>1, <1>5 DEF Task
<1>. QED BY <1>2, <1>3, <1>4, <1>6 DEF pc

LEMMA SweepKeeps ==
    ASSUME IInv, NEW w \in Worker, Claim(w), UNCHANGED <<worker, known>>, rows' = Swept
    PROVE  Goes
<1>1. Rows(rows) /\ UNCHANGED <<turn, copies, late, reported>>
  BY DEF IInv, Typed, Claim
<1>2. Grown(rows, rows')
  BY <1>1, SweptGrows
<1>. QED BY <1>1, <1>2, TurnKept, QuietGoes DEF Quiet

LEMMA ClaimKeeps ==
    ASSUME IInv, NEW w \in Worker, Claim(w)
    PROVE  IInv' /\ UNCHANGED copies
<1>1. /\ worker[w].pc = "idle" /\ UNCHANGED <<turn, copies, late, reported>>
      /\ Rows(rows) /\ turn \in [Turn -> View] /\ worker \in [Worker -> Task]
      /\ copies \in [Marker -> Nat] /\ Shown /\ Begun /\ Careful
  BY DEF Claim, IInv, Typed, Sound
<1>2. CASE rows' = Swept /\ UNCHANGED <<worker, known>>
  BY <1>1, <1>2, SweepKeeps, Preserved
<1>3. CASE ~(rows' = Swept /\ UNCHANGED <<worker, known>>)
  <2>1. PICK i \in DOMAIN rows :
          /\ Claimable(i)
          /\ rows' = [Swept EXCEPT ![i].state = "sending", ![i].owner = w]
          /\ worker' = [worker EXCEPT ![w] = [pc |-> FirstStep(rows[i], StateNow(i)), row |-> i,
                                              from |-> StateNow(i), part |-> 1, got |-> i]]
          /\ TimePasses(i)
    BY <1>3 DEF Claim
  <2> DEFINE q == [pc |-> FirstStep(rows[i], StateNow(i)), row |-> i,
                   from |-> StateNow(i), part |-> 1, got |-> i]
  <2>2. /\ q \in Task /\ q.row = i /\ q.from = StateNow(i)
        /\ q.pc = "edit" => rows[i].kind # "notice"
        /\ q.pc = "post" => q.from = "pending"
    BY <1>1, <2>1, ClaimTaskTyped
  <2>3. worker' = [worker EXCEPT ![w] = q]
    BY <2>1
  <2> HIDE DEF q
  <2>4. /\ worker' \in [Worker -> Task] /\ worker'[w] = q
        /\ \A v \in Worker \ {w} : worker'[v] = worker[v]
    BY <1>1, <2>2, <2>3
  <2>5. Grown(rows, rows') /\ Ready(i)' /\ rows'[i].kind = rows[i].kind
    BY <2>1, ClaimedIsReady
  <2>6. Typed'
    BY <1>1, <2>4, <2>5 DEF Typed, Grown
  <2>7. Shown'
    BY <1>1, <2>5, ShownStays
  <2>8. ASSUME NEW j, Ready(j)
        PROVE  Ready(j)' /\ rows'[j].kind = rows[j].kind
    <3>1. Ready(j)'
      BY <1>1, <2>5, <2>8, ReadyStays
    <3>. QED BY <2>5, <2>8, <3>1 DEF Ready, Grown, Kept
  <2>9. Begun'
    <3>1. \A m \in Marker : copies'[m] > 0 => Ready(m[1])'
      BY <1>1, <2>8 DEF Begun
    <3>2. \A m \in late' : Ready(m[1])'
      BY <1>1, <2>8 DEF Begun
    <3>3. ASSUME NEW v \in Worker
          PROVE  /\ (worker[v].pc # "idle" => Ready(worker[v].row))'
                 /\ (worker[v].pc = "edit" => rows[worker[v].row].kind # "notice")'
      <4>1. CASE v = w
        <5>1. worker'[v].row = i /\ worker'[v].pc = q.pc
          BY <2>2, <2>4, <4>1
        <5>. QED BY <2>2, <2>5, <5>1 DEF Ready
      <4>2. CASE v # w /\ worker[v].pc # "idle"
        <5>1. PICK j : j = worker[v].row
          OBVIOUS
        <5>2. Ready(j) /\ (worker[v].pc = "edit" => rows[j].kind # "notice")
          BY <1>1, <4>2, <5>1 DEF Begun
        <5>3. Ready(j)' /\ rows'[j].kind = rows[j].kind
          BY <2>8, <5>2
        <5>. QED BY <2>4, <4>2, <5>1, <5>2, <5>3 DEF Ready
      <4>3. CASE v # w /\ worker[v].pc = "idle"
        BY <2>4, <4>3
      <4>. QED BY <4>1, <4>2, <4>3
    <3>. QED BY <3>1, <3>2, <3>3 DEF Begun, Ready
  <2>10. ASSUME NEW m \in Marker, Safe(m), \/ m \in late
                                          \/ m[1] # i
                                          \/ \E v \in Worker : worker[v].row = m[1]
         PROVE  SafeNext(m)
    <3>1. m \in known => m \in known'
      BY <2>1, <2>10 DEF TimePasses, Undecided
    <3>. QED BY <1>1, <2>10, <3>1 DEF Safe, SafeNext
  <2>11. StateNow(i) = "pending" => \A m \in Marker : m[1] = i => SafeNext(m)
    <3> SUFFICES ASSUME StateNow(i) = "pending", NEW m \in Marker, m[1] = i
                 PROVE  ~(copies[m] > 0)
      BY <1>1 DEF SafeNext
    <3>1. rows[i].state = "pending"
      BY DEF StateNow
    <3>. QED BY <1>1, <3>1 DEF Begun, Ready
  <2>12. NoSilentDuplicate'
    BY <1>1 DEF Careful, NoSilentDuplicate
  <2>13. \A m \in Marker : m \in late' => SafeNext(m)
    BY <1>1, <2>10 DEF Careful
  <2>14. ASSUME NEW v \in Worker, NEW p \in Part, <<worker'[v].row, p>> \in Marker,
                \/ worker'[v].pc = "post" /\ worker'[v].part = p
                \/ worker'[v].pc # "idle" /\ worker'[v].from = "pending"
         PROVE  SafeNext(<<worker'[v].row, p>>)
    <3>1. CASE v = w
      <4>1. worker'[v].row = i /\ StateNow(i) = "pending"
        BY <2>2, <2>4, <2>14, <3>1
      <4>. QED BY <2>11, <2>14, <4>1
    <3>2. CASE v # w
      <4> DEFINE m == <<worker[v].row, p>>
      <4>1. worker'[v] = worker[v] /\ m \in Marker /\ <<worker'[v].row, p>> = m
        BY <2>4, <2>14, <3>2
      <4>2. Safe(m)
        BY <1>1, <2>14, <4>1 DEF Careful
      <4>3. worker[v].row = m[1]
        OBVIOUS
      <4>. QED BY <2>10, <4>1, <4>2, <4>3
    <3>. QED BY <3>1, <3>2
  <2>15. Careful'
    <3>1. ASSUME NEW v \in Worker, NEW p \in Part
          PROVE  LET m == <<worker'[v].row, p>> IN
                 /\ m \in Marker /\ worker'[v].pc = "post" /\ worker'[v].part = p => SafeNext(m)
                 /\ m \in Marker /\ worker'[v].pc # "idle" /\ worker'[v].from = "pending" => SafeNext(m)
      BY <2>14
    <3>. QED BY <2>12, <2>13, <3>1 DEF Careful, Safe, SafeNext
  <2>. QED BY <1>1, <2>6, <2>7, <2>9, <2>15 DEF IInv, Sound
<1>. QED BY <1>1, <1>2, <1>3

-----------------------------------------------------------------------------
(***************************************************************************)
(* The invariant holds, and what follows from it.                          *)
(***************************************************************************)
LEMMA Initially == Init => IInv
<1> SUFFICES ASSUME Init
             PROVE  IInv
  OBVIOUS
<1>1. Rows(rows) /\ DOMAIN rows = {}
  <2>1. rows = << >> /\ << >> \in Seq(RowType) /\ Len(<< >>) = 0
    BY EmptySeq DEF Init
  <2>2. DOMAIN rows = {}
    BY <2>1
  <2>. QED BY <2>1, <2>2 DEF Rows
<1>2. 1 \in Part
  BY OutboxAssumption DEF Part, Footer
<1>3. /\ worker = [v \in Worker |-> Idle] /\ \A w \in Worker : worker[w] = Idle
      /\ copies = [m \in Marker |-> 0] /\ late = {}
  BY DEF Init
<1>4. Idle \in Task /\ Idle.pc = "idle"
  BY <1>2 DEF Idle, Task, NoRow
<1>5. turn \in [Turn -> View] /\ \A t \in Turn : turn[t].stage = "none"
  BY DEF Init, View, NoRow
<1>6. worker \in [Worker -> Task] /\ copies \in [Marker -> Nat]
  BY <1>4, <1>3 DEF Init
<1>7. Shown
  BY <1>5 DEF Shown
<1>8. Begun
  BY <1>3, <1>4 DEF Begun
<1>9. Careful
  BY <1>3, <1>4 DEF Careful, NoSilentDuplicate, Safe
<1>. QED BY <1>1, <1>5, <1>6, <1>7, <1>8, <1>9 DEF IInv, Typed, Sound

\* Every other step.
LEMMA OthersGo ==
    ASSUME IInv, Next, \A w \in Worker : ~Claim(w)
    PROVE  Goes
<1>1. CASE Transactions
  BY <1>1, EnqueueGoes, UpdateProgressGoes, RenderCardGoes, ToggleCardGoes, TerminateGoes
     DEF Transactions
<1>2. ASSUME NEW w \in Worker, Deliver(w)
      PROVE  Goes
  BY <1>2, ScanGoes, PostGoes, EditGoes, DeleteGoes, ReactGoes, AckGoes, RetryGoes, FailGoes, LeaseGoes
     DEF Deliver
<1>3. CASE Environment
  BY <1>3, RestartGoes, ExpireGoes, LateRequestGoes, RemoveMessageGoes DEF Environment
<1>. QED BY <1>1, <1>2, <1>3 DEF Next

\* The invariant: rows only settle, what is delivered is in order, and who posts
\* has looked first or is the first (claim_outbox, DiscordOutboxTransport.deliver).
THEOREM InductiveInvariant == Spec => []IInv
<1>1. IInv /\ [Next]_vars => IInv'
  <2> SUFFICES ASSUME IInv, [Next]_vars
               PROVE  IInv'
    OBVIOUS
  <2>1. ASSUME NEW w \in Worker, Claim(w)
        PROVE  IInv'
    BY <2>1, ClaimKeeps
  <2>2. CASE Next /\ \A w \in Worker : ~Claim(w)
    BY <2>2, OthersGo, Preserved
  <2>3. CASE UNCHANGED vars
    <3>1. /\ rows' = rows /\ turn' = turn /\ worker' = worker /\ copies' = copies
          /\ known' = known /\ late' = late /\ reported' = reported
      BY <2>3 DEF vars, discord
    <3>2. Grown(rows, rows')
      BY <3>1, Unchanged DEF IInv, Typed
    <3>. QED BY <3>1, <3>2, TurnKept, QuietGoes, Preserved DEF Quiet
  <2>. QED BY <2>1, <2>2, <2>3
<1>. QED BY <1>1, Initially, PTL DEF Spec

\* A message is in Discord twice only when the incident of an exhausted history
\* search says so, whatever is lost, delayed, refused or restarted.
THEOREM NoSilentDuplicates == Spec => []NoSilentDuplicate
<1>1. IInv => NoSilentDuplicate
  BY DEF IInv, Sound, Careful
<1>. QED BY <1>1, InductiveInvariant, PTL

\* The messages of a destination appear in the order of their rows: the first
\* message of a row comes after every earlier row has been settled.
THEOREM PostsStayInOrder == Spec => PostsInOrder
<1> DEFINE Order ==
        \A i \in Row :
            copies[<<i, 1>>] = 0 /\ copies'[<<i, 1>>] > 0
            => /\ i \in DOMAIN rows
               /\ \A j \in 1..(i - 1) :
                    Destination(rows[j]) = Destination(rows[i]) => rows[j].state \in Settled
<1>1. IInv /\ [Next]_vars => [Order]_vars
  <2> SUFFICES ASSUME IInv, Next, NEW i \in Row, copies[<<i, 1>>] = 0, copies'[<<i, 1>>] > 0
               PROVE  Ready(i)
    BY DEF Ready
  <2>1. \A w \in Worker : ~Claim(w)
    BY ClaimKeeps
  <2>2. Landed
    BY <2>1, OthersGo DEF Goes
  <2>3. <<i, 1>> \in Marker
    BY OutboxAssumption DEF Marker, Part, Footer
  <2>4. ~(copies'[<<i, 1>>] <= copies[<<i, 1>>])
    BY <2>2, <2>3 DEF Landed
  <2>5. Ready(<<i, 1>>[1])
    BY <2>2, <2>3, <2>4 DEF Landed
  <2>. QED BY <2>5
<1>. QED BY <1>1, InductiveInvariant, PTL DEF Spec, PostsInOrder

-----------------------------------------------------------------------------
(***************************************************************************)
(* How many rows there can be.                                             *)
(***************************************************************************)
\* A place for each label of a Turn: the revisions of the progress view from one
\* end, those of the card from the other.
Slot(what, n) ==
    IF what = "progress" THEN n
    ELSE IF what = "card" THEN MaxUpdate + MaxToggle + 4 - n
    ELSE IF what = "reaction" THEN MaxUpdate + MaxToggle + 4
    ELSE IF what = "outcome" THEN MaxUpdate + MaxToggle + 5
    ELSE IF what = "final" THEN MaxUpdate + MaxToggle + 6
    ELSE MaxUpdate + MaxToggle + 7

LEMMA SlotFits ==
    ASSUME NEW v \in View, Counted(v), NEW what, NEW n, Permits(v, what, n)
    PROVE  Slot(what, n) \in 1..(MaxUpdate + MaxToggle + 7)
<1>1. MaxUpdate \in Nat /\ MaxToggle \in Nat
  BY OutboxAssumption
<1>2. v.rev \in Nat /\ v.card \in Nat /\ v.toggles \in Nat
  BY DEF View
<1>3. v.rev + v.card <= MaxToggle + MaxUpdate + 3
  BY <1>1, <1>2 DEF Counted
<1>4. CASE what = "progress"
  <2>1. n \in 1..v.rev
    BY <1>4 DEF Permits
  <2>. QED BY <1>1, <1>2, <1>3, <1>4, <2>1 DEF Slot
<1>5. CASE what = "card"
  <2>1. n \in 1..v.card
    BY <1>5 DEF Permits
  <2>. QED BY <1>1, <1>2, <1>3, <1>5, <2>1 DEF Slot
<1>6. CASE what \notin {"progress", "card"}
  BY <1>1, <1>6 DEF Slot
<1>. QED BY <1>4, <1>5, <1>6

LEMMA SlotTells ==
    ASSUME NEW v \in View, Counted(v), NEW what, NEW n, Permits(v, what, n),
           NEW other, NEW k, Permits(v, other, k), Slot(what, n) = Slot(other, k)
    PROVE  what = other /\ n = k
<1>1. MaxUpdate \in Nat /\ MaxToggle \in Nat
  BY OutboxAssumption
<1>2. v.rev \in Nat /\ v.card \in Nat /\ v.toggles \in Nat
  BY DEF View
<1>3. v.rev + v.card <= MaxToggle + MaxUpdate + 3
  BY <1>1, <1>2 DEF Counted
<1> DEFINE Place(w, m) ==
             \/ w = "progress" /\ m \in 1..v.rev /\ Slot(w, m) = m
             \/ w = "card" /\ m \in 1..v.card /\ Slot(w, m) = MaxUpdate + MaxToggle + 4 - m
             \/ w = "reaction" /\ m = 0 /\ Slot(w, m) = MaxUpdate + MaxToggle + 4
             \/ w = "outcome" /\ m = 0 /\ Slot(w, m) = MaxUpdate + MaxToggle + 5
             \/ w = "final" /\ m = 0 /\ Slot(w, m) = MaxUpdate + MaxToggle + 6
             \/ w = "delete" /\ m = 0 /\ Slot(w, m) = MaxUpdate + MaxToggle + 7
<1>4. Place(what, n) /\ Place(other, k)
  BY DEF Permits, Slot
<1>. QED BY <1>1, <1>2, <1>3, <1>4

LEMMA Interval ==
    ASSUME NEW n \in Nat
    PROVE  IsFiniteSet(1..n) /\ Cardinality(1..n) = n
<1>1. /\ IsFiniteSet(1..n) /\ Cardinality(1..n) = IF 1 > n THEN 0 ELSE n - 1 + 1
  BY FS_Interval
<1>2. (IF 1 > n THEN 0 ELSE n - 1 + 1) = n
  OBVIOUS
<1>. QED BY <1>1, <1>2

\* The tables leave room for as many rows as Row has.
LEMMA RowsFit ==
    ASSUME Typed, Listed
    PROVE  DOMAIN rows \subseteq Row
<1> DEFINE N == MaxUpdate + MaxToggle + 7
<1> DEFINE T == (Turn \X (1..N)) \cup {<<0, 0>>}
<1> DEFINE place(r) == IF r.kind = "notice" THEN <<0, 0>> ELSE <<r.turn, Slot(What(r), Nth(r))>>
<1> DEFINE f == [i \in DOMAIN rows |-> place(rows[i])]
<1>1. /\ MaxTurn \in Nat /\ N \in Nat /\ Turn = 1..MaxTurn
      /\ Len(rows) \in Nat /\ DOMAIN rows = 1..Len(rows)
  BY OutboxAssumption, RowsHave DEF Typed, Turn
<1> HIDE DEF N
<1>2. ASSUME NEW i \in DOMAIN rows
      PROVE  /\ rows[i].kind = "notice" => rows[i].turn = 0
             /\ rows[i].kind # "notice" =>
                   /\ rows[i].turn \in Turn /\ turn[rows[i].turn] \in View /\ Counted(turn[rows[i].turn])
                   /\ Permits(turn[rows[i].turn], What(rows[i]), Nth(rows[i]))
  <2>1. Fits(rows[i]) /\ Allows(turn, Label(rows[i]))
    BY DEF Typed, Rows, Listed, Labels
  <2>2. rows[i].kind # "notice" => What(rows[i]) # "notice"
    BY DEF What
  <2>3. rows[i].kind # "notice" => rows[i].turn \in Turn /\ Permits(turn[rows[i].turn], What(rows[i]), Nth(rows[i]))
    BY <2>1, <2>2 DEF Allows, Label
  <2>. QED BY <2>1, <2>3 DEF Fits, Typed, Listed
<1>3. ASSUME NEW i \in DOMAIN rows
      PROVE  f[i] \in T
  BY <1>2, SlotFits DEF N
<1>4. ASSUME NEW i \in DOMAIN rows, NEW j \in DOMAIN rows, f[i] = f[j]
      PROVE  i = j
  <2>1. place(rows[i]) = place(rows[j])
    BY <1>4
  <2>2. 0 \notin Turn
    BY <1>1
  <2>3. CASE rows[i].kind = "notice" /\ rows[j].kind = "notice"
    <3>1. Label(rows[i]) = Label(rows[j])
      BY <1>2, <2>3 DEF Label, What, Nth
    <3>. QED BY <3>1 DEF Listed, Distinct
  <2>4. CASE rows[i].kind # "notice" /\ rows[j].kind # "notice"
    <3>1. /\ rows[i].turn = rows[j].turn
          /\ Slot(What(rows[i]), Nth(rows[i])) = Slot(What(rows[j]), Nth(rows[j]))
      BY <2>1, <2>4
    <3>2. What(rows[i]) = What(rows[j]) /\ Nth(rows[i]) = Nth(rows[j])
      BY <1>2, <2>4, <3>1, SlotTells
    <3>. QED BY <3>1, <3>2 DEF Listed, Distinct, Label
  <2>5. CASE (rows[i].kind = "notice") # (rows[j].kind = "notice")
    BY <1>2, <2>1, <2>2, <2>5
  <2>. QED BY <2>3, <2>4, <2>5
<1>5. f \in Injection(1..Len(rows), T)
  BY <1>1, <1>3, <1>4 DEF Injection, IsInjective
<1> HIDE DEF f
<1>6. IsFiniteSet(Turn) /\ Cardinality(Turn) = MaxTurn
  BY <1>1, Interval
<1>7. IsFiniteSet(1..N) /\ Cardinality(1..N) = N
  BY <1>1, Interval
<1>8. IsFiniteSet(Turn \X (1..N)) /\ Cardinality(Turn \X (1..N)) = MaxTurn * N
  BY <1>6, <1>7, FS_Product
<1>9. IsFiniteSet(T) /\ Cardinality(T) <= MaxTurn * N + 1
  <2>1. PICK P : P = Turn \X (1..N)
    OBVIOUS
  <2>2. /\ IsFiniteSet(P \cup {<<0, 0>>})
        /\ Cardinality(P \cup {<<0, 0>>}) = IF <<0, 0>> \in P THEN Cardinality(P) ELSE Cardinality(P) + 1
    BY <1>8, <2>1, FS_AddElement
  <2>3. Cardinality(P) \in Nat
    BY <1>8, <2>1, FS_CardinalityType
  <2>. QED BY <1>8, <2>1, <2>2, <2>3
<1> HIDE DEF T
<1>10. Cardinality(1..Len(rows)) = Len(rows) /\ IsFiniteSet(1..Len(rows))
  BY <1>1, Interval
<1>11. Cardinality(1..Len(rows)) <= Cardinality(T)
  BY <1>5, <1>9, FS_Injection
<1>12. Cardinality(T) \in Nat
  BY <1>9, FS_CardinalityType
<1>13. MaxTurn * N \in Nat
  BY <1>1
<1>14. Len(rows) <= MaxTurn * N + 1
  BY <1>1, <1>9, <1>10, <1>11, <1>12, <1>13
<1>15. Row = 1..(MaxTurn * N + 1)
  BY DEF Row, N
<1>16. \A a \in Nat : Len(rows) <= a => 1..Len(rows) \subseteq 1..a
  BY <1>1
<1>. QED BY <1>1, <1>13, <1>14, <1>15, <1>16


-----------------------------------------------------------------------------
(***************************************************************************)
(* What the transactions list, and which rows they acknowledge.            *)
(***************************************************************************)
\* Rows are added for the labels of new, and no other label appears.
Enlists(rs, qs, new) ==
    /\ Rows(qs) /\ DOMAIN rs \subseteq DOMAIN qs
    /\ Distinct(rs) => Distinct(qs)
    /\ Labels(qs) \subseteq Labels(rs) \cup new

\* No row is acknowledged.
Silent(rs, qs) == \A i \in DOMAIN rs : qs[i].state = "sent" => rs[i].state = "sent"

LEMMA EnlistsTransitive ==
    ASSUME NEW rs, NEW qs, NEW us, NEW new, NEW more, Enlists(rs, qs, new), Enlists(qs, us, more)
    PROVE  /\ Enlists(rs, us, new \cup more)
           /\ Silent(rs, qs) /\ Silent(qs, us) => Silent(rs, us)
BY DEF Enlists, Silent

\* Rows that stay what they are.
Alike(r, q) == q.turn = r.turn /\ q.kind = r.kind /\ q.shows = r.shows

LEMMA AlikeEnlists ==
    ASSUME NEW rs, NEW qs, Rows(qs), DOMAIN qs = DOMAIN rs, \A i \in DOMAIN rs : Alike(rs[i], qs[i])
    PROVE  Enlists(rs, qs, {})
<1>1. \A i \in DOMAIN rs : Label(qs[i]) = Label(rs[i])
  BY DEF Alike, Label, What, Nth
<1>2. Labels(qs) \subseteq Labels(rs)
  BY <1>1 DEF Labels
<1>3. Distinct(rs) => Distinct(qs)
  BY <1>1 DEF Distinct
<1>. QED BY <1>2, <1>3 DEF Enlists

LEMMA AppendEnlists ==
    ASSUME NEW rs, Rows(rs), NEW r \in RowType, Fits(r), r.dep \in {NoRow} \cup DOMAIN rs,
           Label(r) \notin Labels(rs)
    PROVE  Enlists(rs, Append(rs, r), {Label(r)}) /\ Silent(rs, Append(rs, r))
<1> DEFINE qs == Append(rs, r)
<1>1. /\ Rows(qs) /\ DOMAIN qs = DOMAIN rs \cup {Len(rs) + 1} /\ qs[Len(rs) + 1] = r
      /\ \A i \in DOMAIN rs : qs[i] = rs[i]
  BY Added DEF Grown
<1> HIDE DEF qs
<1>2. Labels(qs) \subseteq Labels(rs) \cup {Label(r)}
  BY <1>1 DEF Labels
<1>3. ASSUME Distinct(rs), NEW i \in DOMAIN qs, NEW j \in DOMAIN qs, Label(qs[i]) = Label(qs[j])
      PROVE  i = j
  <2>1. CASE i \in DOMAIN rs /\ j \in DOMAIN rs
    BY <1>1, <1>3, <2>1 DEF Distinct
  <2>2. CASE i \in DOMAIN rs /\ j \notin DOMAIN rs
    BY <1>1, <1>3, <2>2 DEF Labels
  <2>3. CASE i \notin DOMAIN rs /\ j \in DOMAIN rs
    BY <1>1, <1>3, <2>3 DEF Labels
  <2>4. CASE i \notin DOMAIN rs /\ j \notin DOMAIN rs
    BY <1>1, <2>4
  <2>. QED BY <2>1, <2>2, <2>3, <2>4
<1>4. Enlists(rs, qs, {Label(r)}) /\ Silent(rs, qs)
  BY <1>1, <1>2, <1>3 DEF Enlists, Distinct, Silent
<1>. QED BY <1>4 DEF qs

\* A new row of a Turn.
LEMMA NewRowEnlists ==
    ASSUME NEW rs, Rows(rs), NEW t \in Turn, NEW kind \in Kind \ {"notice"},
           NEW op \in {"send", "edit", "delete"}, op = "delete" <=> kind = "delete",
           kind = "final" => op = "send", NEW dep \in {NoRow} \cup DOMAIN rs, NEW shows \in Shows,
           Label(NewRow(t, kind, op, dep, shows)) \notin Labels(rs)
    PROVE  LET r == NewRow(t, kind, op, dep, shows) IN
           /\ Enlists(rs, Append(rs, r), {Label(r)}) /\ Silent(rs, Append(rs, r))
<1> DEFINE r == NewRow(t, kind, op, dep, shows)
<1>1. t \in 0..MaxTurn /\ dep \in Nat
  BY OutboxAssumption, RowsHave DEF Turn, NoRow
<1>2. r \in RowType /\ Fits(r) /\ r.dep = dep
  BY <1>1, NewRowTyped
<1> HIDE DEF r
<1>3. Label(r) \notin Labels(rs)
  BY DEF r
<1>4. Enlists(rs, Append(rs, r), {Label(r)}) /\ Silent(rs, Append(rs, r))
  BY <1>2, <1>3, AppendEnlists
<1>. QED BY <1>4 DEF r

LEMMA SupersedeEnlists ==
    ASSUME NEW rs, Rows(rs), NEW t, NEW kind \in {"reaction", "card"}, NEW states \in SUBSET Open
    PROVE  /\ Enlists(rs, Supersede(rs, t, kind, states), {})
           /\ Silent(rs, Supersede(rs, t, kind, states))
<1> DEFINE qs == Supersede(rs, t, kind, states)
<1>1. ASSUME NEW i \in DOMAIN rs
      PROVE  Alike(rs[i], qs[i]) /\ (qs[i].state = "sent" => rs[i].state = "sent")
  <2>1. rs[i] \in RowType
    BY RowsHave
  <2>2. qs[i] = IF SameKey(rs[i], t, kind) /\ rs[i].state \in states
                THEN [rs[i] EXCEPT !.state = "superseded"] ELSE rs[i]
    BY DEF Supersede
  <2> HIDE DEF qs
  <2>. QED BY <2>1, <2>2 DEF RowType, Alike
<1>2. DOMAIN qs = DOMAIN rs
  BY DEF Supersede
<1>3. Rows(qs)
  BY SupersedeGrows DEF Grown
<1> HIDE DEF qs
<1>4. Enlists(rs, qs, {}) /\ Silent(rs, qs)
  BY <1>1, <1>2, <1>3, AlikeEnlists DEF Silent
<1>. QED BY <1>4 DEF qs

LEMMA InsertReactionEnlists ==
    ASSUME NEW rs, Rows(rs), NEW t \in Turn, NEW state \in {"waiting", "completed", "failed"},
           NEW what, what = IF state = "waiting" THEN "reaction" ELSE "outcome",
           <<t, what, 0>> \notin Labels(rs)
    PROVE  /\ Enlists(rs, InsertReaction(rs, t, state), {<<t, what, 0>>})
           /\ Silent(rs, InsertReaction(rs, t, state))
<1> DEFINE qs == Supersede(rs, t, "reaction", Open)
<1> DEFINE r == NewRow(t, "reaction", "edit", NoRow, state)
<1>1. Enlists(rs, qs, {}) /\ Silent(rs, qs)
  BY SupersedeEnlists
<1>2. Rows(qs) /\ Labels(qs) \subseteq Labels(rs)
  BY <1>1 DEF Enlists
<1>3. Label(r) = <<t, what, 0>>
  BY DEF NewRow, Label, What, Nth
<1>4. InsertReaction(rs, t, state) = Append(qs, r)
  BY DEF InsertReaction
<1> HIDE DEF qs
<1>5. Enlists(qs, Append(qs, r), {Label(r)}) /\ Silent(qs, Append(qs, r))
  <2>1. state \in Shows /\ "reaction" \in Kind \ {"notice"}
    BY DEF Shows, Kind
  <2>. QED BY <1>2, <1>3, <2>1, NewRowEnlists
<1> HIDE DEF r
<1>6. Enlists(rs, Append(qs, r), {} \cup {Label(r)}) /\ Silent(rs, Append(qs, r))
  BY <1>1, <1>5, EnlistsTransitive
<1>7. {} \cup {Label(r)} = {<<t, what, 0>>}
  BY <1>3
<1>. QED BY <1>4, <1>6, <1>7

LEMMA InsertCardEnlists ==
    ASSUME NEW rs, Rows(rs), NEW t \in Turn, NEW rev \in Nat, <<t, "card", rev>> \notin Labels(rs)
    PROVE  /\ Enlists(rs, InsertCard(rs, t, rev), {<<t, "card", rev>>})
           /\ Silent(rs, InsertCard(rs, t, rev))
<1> DEFINE qs == Supersede(rs, t, "card", {"pending"})
<1> DEFINE op == IF rev = 1 THEN "send" ELSE "edit"
<1> DEFINE r == NewRow(t, "card", op, NoRow, rev)
<1>1. Enlists(rs, qs, {}) /\ Silent(rs, qs)
  BY SupersedeEnlists DEF Open
<1>2. Rows(qs) /\ Labels(qs) \subseteq Labels(rs)
  BY <1>1 DEF Enlists
<1>3. Label(r) = <<t, "card", rev>>
  BY DEF NewRow, Label, What, Nth
<1>4. InsertCard(rs, t, rev) = Append(qs, r)
  BY DEF InsertCard
<1>5. op \in {"send", "edit", "delete"} /\ op # "delete"
  OBVIOUS
<1> HIDE DEF qs, op
<1>6. Enlists(qs, Append(qs, r), {Label(r)}) /\ Silent(qs, Append(qs, r))
  <2>1. rev \in Shows /\ "card" \in Kind \ {"notice"}
    BY DEF Shows, Kind
  <2>. QED BY <1>2, <1>3, <1>5, <2>1, NewRowEnlists
<1> HIDE DEF r
<1>7. Enlists(rs, Append(qs, r), {} \cup {Label(r)}) /\ Silent(rs, Append(qs, r))
  BY <1>1, <1>6, EnlistsTransitive
<1>8. {} \cup {Label(r)} = {<<t, "card", rev>>}
  BY <1>3
<1>. QED BY <1>4, <1>7, <1>8

LEMMA InsertProgressEnlists ==
    ASSUME NEW rs, Rows(rs), NEW t \in Turn, NEW rev \in Nat, <<t, "progress", rev>> \notin Labels(rs)
    PROVE  /\ Enlists(rs, InsertProgress(rs, t, rev), {<<t, "progress", rev>>})
           /\ Silent(rs, InsertProgress(rs, t, rev))
<1> DEFINE prev == Progress(rs, t)
<1> DEFINE k == Newest(prev)
<1>1. CASE prev # {} /\ rs[k].state = "pending"
  <2> DEFINE qs == [rs EXCEPT ![k].shows = rev]
  <2>1. InsertProgress(rs, t, rev) = qs
    BY <1>1 DEF InsertProgress
  <2>2. k \in DOMAIN rs /\ SameKey(rs[k], t, "progress")
    <3>1. Len(rs) \in Nat /\ prev \in SUBSET (1..Len(rs))
      BY RowsHave DEF Progress
    <3>2. prev = {i \in DOMAIN rs : SameKey(rs[i], t, "progress") /\ rs[i].state # "superseded"}
      BY DEF Progress
    <3> HIDE DEF prev
    <3>3. Newest(prev) \in prev
      BY <1>1, <3>1, NewestIn
    <3>. QED BY <3>2, <3>3
  <2> HIDE DEF k
  <2>3. ASSUME NEW i \in DOMAIN rs
        PROVE  /\ qs[i].state = rs[i].state
               /\ Label(qs[i]) = IF i = k THEN <<t, "progress", rev>> ELSE Label(rs[i])
    <3>1. rs[i] \in RowType
      BY RowsHave
    <3>2. qs[i] = IF i = k THEN [rs[i] EXCEPT !.shows = rev] ELSE rs[i]
      OBVIOUS
    <3> HIDE DEF qs
    <3>3. CASE i = k
      <4>1. /\ qs[i].state = rs[i].state /\ qs[i].turn = rs[i].turn /\ qs[i].kind = rs[i].kind
            /\ qs[i].shows = rev
        BY <3>1, <3>2, <3>3 DEF RowType
      <4>. QED BY <2>2, <3>3, <4>1 DEF SameKey, Label, What, Nth
    <3>4. CASE i # k
      BY <3>2, <3>4
    <3>. QED BY <3>3, <3>4
  <2>4. Rows(qs) /\ DOMAIN qs = DOMAIN rs
    BY <2>1, InsertProgressGrows DEF Grown
  <2> HIDE DEF qs
  <2>5. Labels(qs) \subseteq Labels(rs) \cup {<<t, "progress", rev>>}
    BY <2>3, <2>4 DEF Labels
  <2>6. \A i \in DOMAIN rs : Label(rs[i]) # <<t, "progress", rev>>
    BY DEF Labels
  <2>7. Distinct(rs) => Distinct(qs)
    BY <2>3, <2>4, <2>6 DEF Distinct
  <2>. QED BY <2>1, <2>3, <2>4, <2>5, <2>7 DEF Enlists, Silent
<1>2. CASE ~(prev # {} /\ rs[k].state = "pending")
  <2> DEFINE r == NewRow(t, "progress", "edit", NoRow, rev)
  <2>1. Label(r) = <<t, "progress", rev>>
    BY DEF NewRow, Label, What, Nth
  <2>2. InsertProgress(rs, t, rev) = Append(rs, r)
    BY <1>2 DEF InsertProgress
  <2>3. rev \in Shows /\ "progress" \in Kind \ {"notice"}
    BY DEF Shows, Kind
  <2>4. Enlists(rs, Append(rs, r), {Label(r)}) /\ Silent(rs, Append(rs, r))
    BY <2>1, <2>3, NewRowEnlists
  <2>. QED BY <2>1, <2>2, <2>4
<1>. QED BY <1>1, <1>2

LEMMA InsertFinalEnlists ==
    ASSUME NEW rs, Rows(rs), NEW t \in Turn, NEW outcome \in {"completed", "failed"},
           Progress(rs, t) # {}, <<t, "final", 0>> \notin Labels(rs)
    PROVE  /\ Enlists(rs, InsertFinal(rs, t, outcome), {<<t, "final", 0>>})
           /\ Silent(rs, InsertFinal(rs, t, outcome))
<1> DEFINE dep == Newest(Progress(rs, t))
<1> DEFINE r == NewRow(t, "final", "send", dep, outcome)
<1>1. dep \in DOMAIN rs
  <2>1. Len(rs) \in Nat /\ Progress(rs, t) \in SUBSET (1..Len(rs))
    BY RowsHave DEF Progress
  <2>2. dep \in Progress(rs, t)
    BY <2>1, NewestIn
  <2>. QED BY <2>1, <2>2, RowsHave
<1>2. InsertFinal(rs, t, outcome) = Append(rs, r)
  BY DEF InsertFinal
<1> HIDE DEF dep
<1>3. Label(r) = <<t, "final", 0>>
  BY DEF NewRow, Label, What, Nth
<1>4. outcome \in Shows /\ "final" \in Kind \ {"notice"}
  BY DEF Shows, Kind
<1>5. Enlists(rs, Append(rs, r), {Label(r)}) /\ Silent(rs, Append(rs, r))
  BY <1>1, <1>3, <1>4, NewRowEnlists
<1>. QED BY <1>2, <1>3, <1>5

LEMMA InsertNoticeEnlists ==
    ASSUME NEW rs, Rows(rs)
    PROVE  /\ Enlists(rs, InsertNotice(rs), {<<0, "notice", 0>>})
           /\ Silent(rs, InsertNotice(rs))
<1> DEFINE r == NewRow(0, "notice", "send", NoRow, "unavailable")
<1>1. Label(r) = <<0, "notice", 0>>
  BY DEF NewRow, Label, What, Nth
<1>2. CASE \E i \in DOMAIN rs : rs[i].kind = "notice"
  BY <1>2 DEF InsertNotice, Enlists, Silent
<1>3. CASE ~ \E i \in DOMAIN rs : rs[i].kind = "notice"
  <2>1. InsertNotice(rs) = Append(rs, r)
    BY <1>3 DEF InsertNotice
  <2>2. <<0, "notice", 0>> \notin Labels(rs)
    <3> SUFFICES ASSUME NEW i \in DOMAIN rs, Label(rs[i]) = <<0, "notice", 0>>
                 PROVE  FALSE
      BY DEF Labels
    <3>. QED BY <1>3 DEF Label, What
  <2>3. 0 \in 0..MaxTurn /\ NoRow \in Nat /\ "unavailable" \in Shows /\ "notice" \in Kind
    BY OutboxAssumption DEF NoRow, Shows, Kind
  <2>4. r \in RowType /\ Fits(r) /\ r.dep = NoRow
    BY <2>3, NewRowTyped
  <2> HIDE DEF r
  <2>5. Enlists(rs, Append(rs, r), {Label(r)}) /\ Silent(rs, Append(rs, r))
    BY <1>1, <2>2, <2>4, AppendEnlists
  <2>. QED BY <1>1, <2>1, <2>5
<1>. QED BY <1>2, <1>3


\* A row whose state is set stays what it is.
LEMMA MovedAlike ==
    ASSUME NEW r \in RowType, NEW st, NEW owner
    PROVE  Alike(r, Moved(r, st, owner)) /\ Moved(r, st, owner).state = st
BY DEF RowType, Moved, Alike

LEMMA SweptEnlists ==
    ASSUME Rows(rows)
    PROVE  Enlists(rows, Swept, {}) /\ Silent(rows, Swept)
<1>1. Rows(Swept) /\ DOMAIN Swept = DOMAIN rows
  BY SweptGrows DEF Grown
<1>2. ASSUME NEW i \in DOMAIN rows
      PROVE  Alike(rows[i], Swept[i]) /\ (Swept[i].state = "sent" => rows[i].state = "sent")
  <2>1. rows[i] \in RowType
    BY RowsHave
  <2>2. Swept[i] = IF i \in Expired \cup Dropped THEN Moved(rows[i], StateNow(i), NoWorker) ELSE rows[i]
    BY DEF Swept, Moved
  <2>3. i \in Expired \cup Dropped => StateNow(i) # "sent"
    BY DEF StateNow
  <2>. QED BY <2>1, <2>2, <2>3, MovedAlike DEF Alike
<1>. QED BY <1>1, <1>2, AlikeEnlists DEF Silent

LEMMA ClaimEnlists ==
    ASSUME Rows(rows), NEW i \in DOMAIN rows, StateNow(i) \notin Settled, NEW w \in Worker,
           rows' = [Swept EXCEPT ![i].state = "sending", ![i].owner = w]
    PROVE  Enlists(rows, rows', {}) /\ Silent(rows, rows')
<1>1. /\ Enlists(rows, Swept, {}) /\ Silent(rows, Swept)
      /\ Rows(Swept) /\ DOMAIN Swept = DOMAIN rows
  BY SweptEnlists, SweptGrows DEF Grown
<1>2. Rows(rows') /\ DOMAIN rows' = DOMAIN rows
  BY ClaimGrows DEF Grown
<1>3. ASSUME NEW j \in DOMAIN rows
      PROVE  Alike(Swept[j], rows'[j]) /\ (rows'[j].state = "sent" => Swept[j].state = "sent")
  <2>1. Swept[j] \in RowType
    BY <1>1, RowsHave
  <2>2. rows'[j] = IF j = i THEN [[Swept[j] EXCEPT !.state = "sending"] EXCEPT !.owner = w] ELSE Swept[j]
    BY <1>1
  <2>3. PICK r \in RowType : r = Swept[j]
    BY <2>1
  <2>4. PICK a : a = [r EXCEPT !.state = "sending"]
    OBVIOUS
  <2>5. a.state = "sending" /\ Alike(r, a) /\ a \in RowType
    BY <2>4 DEF RowType, RowState, Alike
  <2>6. PICK b : b = [a EXCEPT !.owner = w]
    OBVIOUS
  <2>7. b.state = "sending" /\ Alike(r, b)
    BY <2>5, <2>6 DEF RowType, Alike
  <2>8. CASE j = i
    BY <2>2, <2>3, <2>4, <2>6, <2>7, <2>8
  <2>9. CASE j # i
    BY <2>2, <2>9 DEF Alike
  <2>. QED BY <2>8, <2>9
<1>4. Enlists(Swept, rows', {}) /\ Silent(Swept, rows')
  BY <1>1, <1>2, <1>3, AlikeEnlists DEF Silent
<1>5. Enlists(rows, rows', {} \cup {}) /\ Silent(rows, rows')
  BY <1>1, <1>4, EnlistsTransitive
<1>. QED BY <1>5

LEMMA RecoveredEnlists ==
    ASSUME Rows(rows)
    PROVE  Enlists(rows, Recovered(rows), {}) /\ Silent(rows, Recovered(rows))
<1> DEFINE qs == Recovered(rows)
<1>1. Rows(qs)
  BY RecoveredGrows DEF Grown
<1>2. DOMAIN qs = DOMAIN rows
  BY DEF Recovered
<1>3. ASSUME NEW i \in DOMAIN rows
      PROVE  Alike(rows[i], qs[i]) /\ (qs[i].state = "sent" => rows[i].state = "sent")
  <2>1. rows[i] \in RowType
    BY RowsHave
  <2>2. qs[i] = IF rows[i].state = "sending" THEN Moved(rows[i], "reconciling", NoWorker) ELSE rows[i]
    BY DEF Recovered, Moved
  <2> HIDE DEF qs
  <2>. QED BY <2>1, <2>2, MovedAlike DEF Alike
<1> HIDE DEF qs
<1>4. Enlists(rows, qs, {}) /\ Silent(rows, qs)
  BY <1>1, <1>2, <1>3, AlikeEnlists DEF Silent
<1>. QED BY <1>4 DEF qs

\* The end of a delivery moves its row alone.
LEMMA EndEnlists ==
    ASSUME Rows(rows), NEW i \in DOMAIN rows, rows[i].state = "sending",
           NEW st \in {"sent", "retry", "dead_letter"},
           NEW qs, qs = [rows EXCEPT ![i].state = st, ![i].owner = NoWorker, ![i].expired = FALSE]
    PROVE  /\ Enlists(rows, qs, {}) /\ (st # "sent" => Silent(rows, qs))
           /\ \A j \in DOMAIN rows \ {i} : qs[j] = rows[j]
<1>0. Grown(rows, qs) /\ DOMAIN qs = DOMAIN rows
  BY EndGrows
<1>1. Rows(qs) /\ DOMAIN qs = DOMAIN rows
  BY <1>0 DEF Grown
<1>2. rows[i] \in RowType
  BY RowsHave
<1>3. /\ qs[i] = Moved(rows[i], st, NoWorker)
      /\ \A j \in DOMAIN rows \ {i} : qs[j] = rows[j]
  BY DEF Moved
<1>4. ASSUME NEW j \in DOMAIN rows
      PROVE  Alike(rows[j], qs[j]) /\ (st # "sent" /\ qs[j].state = "sent" => rows[j].state = "sent")
  BY <1>2, <1>3, MovedAlike DEF Alike
<1>. QED BY <1>1, <1>3, <1>4, AlikeEnlists DEF Silent

\* ack_outbox acknowledges one row.
LEMMA SentEnlists ==
    ASSUME Rows(rows), NEW i \in DOMAIN rows, rows[i].state = "sending"
    PROVE  /\ Enlists(rows, Sent(i), {})
           /\ \A j \in DOMAIN rows \ {i} : Sent(i)[j].state = "sent" => rows[j].state = "sent"
<1> DEFINE rs == [rows EXCEPT ![i].state = "sent", ![i].owner = NoWorker, ![i].expired = FALSE]
<1> DEFINE qs == Compacted(rs, i)
<1>1. Enlists(rows, rs, {}) /\ \A j \in DOMAIN rows \ {i} : rs[j] = rows[j]
  BY EndEnlists
<1>2. Sent(i) = qs
  BY DEF Sent
<1>3. Rows(qs) /\ DOMAIN qs = DOMAIN rows
  BY <1>2, SentGrows DEF Grown
<1>0. Grown(rows, rs) /\ DOMAIN rs = DOMAIN rows
  BY EndGrows
<1>4. DOMAIN rs = DOMAIN rows /\ Rows(rs)
  BY <1>0 DEF Grown
<1> HIDE DEF rs
<1>5. \A j \in DOMAIN rs :
        qs[j] = IF rs[i].kind = "progress" /\ j # i /\ SameKey(rs[j], rs[i].turn, "progress")
                   /\ rs[j].state \in Settled
                THEN [rs[j] EXCEPT !.state = "superseded"] ELSE rs[j]
  BY DEF Compacted
<1> HIDE DEF qs
<1>6. ASSUME NEW j \in DOMAIN rs
      PROVE  Alike(rs[j], qs[j]) /\ (qs[j].state = "sent" => rs[j].state = "sent")
  <2>1. rs[j] \in RowType
    BY <1>4, RowsHave
  <2>2. CASE qs[j] = rs[j]
    BY <2>2 DEF Alike
  <2>3. CASE qs[j] = [rs[j] EXCEPT !.state = "superseded"]
    BY <2>1, <2>3 DEF RowType, Alike
  <2>. QED BY <1>5, <2>2, <2>3
<1>7. Enlists(rs, qs, {})
  BY <1>3, <1>4, <1>6, AlikeEnlists
<1>8. Enlists(rows, qs, {} \cup {})
  BY <1>1, <1>7, EnlistsTransitive
<1>9. \A j \in DOMAIN rows \ {i} : qs[j].state = "sent" => rows[j].state = "sent"
  BY <1>1, <1>4, <1>6
<1>. QED BY <1>2, <1>8, <1>9

LEMMA FailedEnlists ==
    ASSUME Rows(rows), NEW i \in DOMAIN rows, rows[i].state = "sending"
    PROVE  Enlists(rows, FailedRows(i), {<<0, "notice", 0>>}) /\ Silent(rows, FailedRows(i))
<1> DEFINE rs == [rows EXCEPT ![i].state = "dead_letter", ![i].owner = NoWorker, ![i].expired = FALSE]
<1>1. Enlists(rows, rs, {}) /\ Silent(rows, rs)
  BY EndEnlists
<1>2. FailedRows(i) \in {rs, InsertNotice(rs)}
  BY DEF FailedRows
<1> HIDE DEF rs
<1>3. Rows(rs)
  BY <1>1 DEF Enlists
<1>4. Enlists(rs, InsertNotice(rs), {<<0, "notice", 0>>}) /\ Silent(rs, InsertNotice(rs))
  BY <1>3, InsertNoticeEnlists
<1>5. Enlists(rows, InsertNotice(rs), {} \cup {<<0, "notice", 0>>}) /\ Silent(rows, InsertNotice(rs))
  BY <1>1, <1>4, EnlistsTransitive
<1>6. Enlists(rows, rs, {<<0, "notice", 0>>})
  BY <1>1 DEF Enlists
<1>. QED BY <1>1, <1>2, <1>5, <1>6

-----------------------------------------------------------------------------
(***************************************************************************)
(* What a step must do to keep the three parts of Complete.                *)
(***************************************************************************)
\* A Turn only gains labels.
More(v, q) ==
    /\ v.rev <= q.rev /\ v.card <= q.card
    /\ v.stage # "none" => q.stage # "none"
    /\ v.stage = "terminal" => q.stage = "terminal"
    /\ v.cleanup # "active" => q.cleanup # "active"

LEMMA PermitsMore ==
    ASSUME NEW v \in View, NEW q \in View, More(v, q), NEW what, NEW n, Permits(v, what, n)
    PROVE  Permits(q, what, n)
<1>1. v.rev \in Nat /\ q.rev \in Nat /\ v.card \in Nat /\ q.card \in Nat
  BY DEF View
<1>2. 1..v.rev \subseteq 1..q.rev /\ 1..v.card \subseteq 1..q.card
  BY <1>1 DEF More
<1>. QED BY <1>2 DEF Permits, More

LEMMA ListedStays ==
    ASSUME Typed, turn' \in [Turn -> View], Listed, NEW new, Enlists(rows, rows', new),
           \A l \in new : Allows(turn', l),
           \A t \in Turn : More(turn[t], turn'[t]) /\ Counted(turn'[t])
    PROVE  Listed'
<1>1. Distinct(rows')
  BY DEF Enlists, Listed
<1>2. ASSUME NEW l \in Labels(rows)
      PROVE  Allows(turn', l)
  <2>1. Allows(turn, l)
    BY DEF Listed
  <2>2. l[1] \in Turn => turn[l[1]] \in View /\ turn'[l[1]] \in View /\ More(turn[l[1]], turn'[l[1]])
    BY DEF Typed
  <2>. QED BY <2>1, <2>2, PermitsMore DEF Allows
<1>3. \A l \in Labels(rows') : Allows(turn', l)
  BY <1>2 DEF Enlists
<1>. QED BY <1>1, <1>3 DEF Listed

\* A step on one Turn.
LEMMA TurnListed ==
    ASSUME Typed, Listed, NEW t \in Turn, NEW v \in View, turn' = [turn EXCEPT ![t] = v],
           More(turn[t], v), Counted(v)
    PROVE  /\ turn' \in [Turn -> View] /\ turn'[t] = v
           /\ \A u \in Turn : More(turn[u], turn'[u]) /\ Counted(turn'[u])
<1>1. turn \in [Turn -> View] /\ \A u \in Turn : Counted(turn[u])
  BY DEF Typed, Listed
<1>2. turn' \in [Turn -> View] /\ \A u \in Turn : turn'[u] = IF u = t THEN v ELSE turn[u]
  BY <1>1
<1>3. \A u \in Turn : turn[u].rev \in Nat /\ turn[u].card \in Nat
  BY <1>1 DEF View
<1>4. \A u \in Turn : turn[u].rev <= turn[u].rev /\ turn[u].card <= turn[u].card
  BY <1>3
<1>. QED BY <1>1, <1>2, <1>4 DEF More

LEMMA TurnsKept ==
    ASSUME Typed, Listed, UNCHANGED turn
    PROVE  /\ turn' \in [Turn -> View]
           /\ \A u \in Turn : More(turn[u], turn'[u]) /\ Counted(turn'[u])
<1>1. turn \in [Turn -> View] /\ \A u \in Turn : Counted(turn[u])
  BY DEF Typed, Listed
<1>3. \A u \in Turn : turn[u].rev \in Nat /\ turn[u].card \in Nat
  BY <1>1 DEF View
<1>4. \A u \in Turn : turn[u].rev <= turn[u].rev /\ turn[u].card <= turn[u].card
  BY <1>3
<1>. QED BY <1>1, <1>4 DEF More

\* What is not permitted has no row.
LEMMA Fresh ==
    ASSUME Listed, NEW l, l[2] # "notice", ~Permits(turn[l[1]], l[2], l[3])
    PROVE  l \notin Labels(rows)
BY DEF Listed, Allows

LEMMA MessageStays ==
    ASSUME Grown(rows, rows'), NEW t, NEW m, Message(t, m)
    PROVE  Message(t, m)'
BY DEF Message, Grown, Kept

LEMMA AttachedStays ==
    ASSUME IInv, Attached, Grown(rows, rows'),
           \A t \in Turn : /\ turn'[t].msg = turn[t].msg \/ Message(t, turn'[t].msg)
                           /\ turn'[t].cardMsg = turn[t].cardMsg \/ Message(t, turn'[t].cardMsg),
           \A w \in Worker : worker'[w].pc = "ack" =>
              /\ worker[w].pc # "idle" /\ worker'[w].row = worker[w].row
              /\ rows[worker[w].row].kind \in {"progress", "card"} =>
                    Message(rows[worker[w].row].turn, worker'[w].got)
    PROVE  Attached'
<1>1. ASSUME NEW t \in Turn
      PROVE  Message(t, turn[t].msg)' /\ Message(t, turn[t].cardMsg)'
  <2>1. PICK a : a = turn'[t].msg
    OBVIOUS
  <2>2. PICK b : b = turn'[t].cardMsg
    OBVIOUS
  <2>3. Message(t, a) /\ Message(t, b)
    BY <2>1, <2>2 DEF Attached
  <2>4. Message(t, a)' /\ Message(t, b)'
    BY <2>3, MessageStays
  <2>. QED BY <2>1, <2>2, <2>4 DEF Message
<1>2. ASSUME NEW w \in Worker, worker'[w].pc = "ack", rows'[worker'[w].row].kind \in {"progress", "card"}
      PROVE  Message(rows[worker[w].row].turn, worker[w].got)'
  <2>1. PICK i : i = worker[w].row
    OBVIOUS
  <2>2. i \in DOMAIN rows /\ worker'[w].row = i
    BY <1>2, <2>1 DEF IInv, Sound, Begun, Ready
  <2>3. rows'[i].kind = rows[i].kind /\ rows'[i].turn = rows[i].turn
    BY <2>2 DEF Grown, Kept
  <2>4. PICK m : m = worker'[w].got
    OBVIOUS
  <2>5. Message(rows[i].turn, m)
    BY <1>2, <2>1, <2>2, <2>3, <2>4
  <2>6. PICK t : t = rows[i].turn
    OBVIOUS
  <2>7. Message(t, m)'
    BY <2>5, <2>6, MessageStays
  <2>. QED BY <2>2, <2>3, <2>4, <2>6, <2>7 DEF Message
<1>. QED BY <1>1, <1>2 DEF Attached

LEMMA PartsShrink ==
    ASSUME Grown(rows, rows'),
           \A i \in DOMAIN rows : rows[i].kind = "final" /\ rows[i].turn \in volatile' => rows[i].turn \in volatile
    PROVE  \A i \in DOMAIN rows : Parts(i)' \subseteq Parts(i) /\ Parts(i) \subseteq Part
<1>1. 1 \in Part /\ Footer \in Part
  BY OutboxAssumption DEF Part, Footer
<1>2. \A i \in DOMAIN rows : rows'[i].kind = rows[i].kind /\ rows'[i].turn = rows[i].turn
  BY DEF Grown, Kept
<1>. QED BY <1>1, <1>2 DEF Parts

\* A delivery that goes on has left no part behind.
Keeps(w) ==
    \/ worker'[w].pc = "idle"
    \/ worker'[w] = worker[w]
    \/ /\ worker'[w].row \in DOMAIN rows
       /\ Result(worker'[w].row) =>
             /\ worker'[w].pc \in {"scan", "post", "ack", "retry", "fail"}
             /\ \A p \in Parts(worker'[w].row) :
                  worker'[w].pc = "ack" \/ (worker'[w].pc \in {"scan", "post"} /\ p < worker'[w].part)
                      => copies'[<<worker'[w].row, p>>] > 0

LEMMA WholeStays ==
    ASSUME IInv, Listed, Whole, Grown(rows, rows'),
           \A i \in DOMAIN rows : rows[i].kind = "final" /\ rows[i].turn \in volatile' => rows[i].turn \in volatile,
           \A m \in Marker : Result(m[1]) /\ copies[m] > 0 => copies'[m] > 0,
           \A m \in Marker : m \in known' => m \in known \/ (m[1] \in DOMAIN rows /\ copies'[m] > 0),
           \A w \in Worker : Keeps(w)
    PROVE  Whole'
<1>1. \A i \in DOMAIN rows : Parts(i)' \subseteq Parts(i) /\ Parts(i) \subseteq Part
  BY PartsShrink
<1>2. \A i \in DOMAIN rows : i \in DOMAIN rows' /\ (Result(i)' => Result(i))
  BY DEF Grown, Kept, Result
<1>3. ASSUME NEW m \in Marker, m \in known'
      PROVE  m[1] \in DOMAIN rows' /\ (Result(m[1])' => copies'[m] > 0)
  <2>1. CASE m \in known
    <3>1. m[1] \in DOMAIN rows /\ (Result(m[1]) => copies[m] > 0)
      BY <2>1 DEF Whole
    <3>2. PICK i : i = m[1]
      OBVIOUS
    <3>. QED BY <1>2, <3>1, <3>2 DEF Result
  <2>2. CASE m \notin known
    BY <1>2, <1>3, <2>2
  <2>. QED BY <2>1, <2>2
<1>4. ASSUME NEW w \in Worker, worker'[w].pc # "idle", Result(worker[w].row)'
      PROVE  /\ worker'[w].pc \in {"scan", "post", "ack", "retry", "fail"}
             /\ \A p \in Parts(worker[w].row)' :
                  worker'[w].pc = "ack" \/ (worker'[w].pc \in {"scan", "post"} /\ p < worker'[w].part)
                      => copies'[<<worker'[w].row, p>>] > 0
  <2>1. PICK i : i = worker'[w].row
    OBVIOUS
  <2>2. Result(i)' /\ Parts(worker[w].row)' = Parts(i)'
    BY <1>4, <2>1 DEF Result, Parts
  <2>3. CASE worker'[w] = worker[w]
    <3>1. i \in DOMAIN rows /\ i \in Row
      BY <1>4, <2>1, <2>3, RowsFit DEF IInv, Sound, Begun, Ready
    <3>2. Result(i) /\ Parts(i)' \subseteq Parts(i) /\ Parts(i) \subseteq Part
      BY <1>1, <1>2, <2>2, <3>1
    <3>3. \A p \in Parts(i) : <<i, p>> \in Marker /\ <<i, p>>[1] = i
      BY <3>1, <3>2 DEF Marker
    <3>4. /\ worker[w].pc \in {"scan", "post", "ack", "retry", "fail"}
          /\ \A p \in Parts(i) :
               worker[w].pc = "ack" \/ (worker[w].pc \in {"scan", "post"} /\ p < worker[w].part)
                   => copies[<<i, p>>] > 0
      BY <1>4, <2>1, <2>3, <3>2 DEF Whole, Delivered
    <3>5. \A p \in Parts(i) : copies[<<i, p>>] > 0 => copies'[<<i, p>>] > 0
      BY <3>2, <3>3
    <3>. QED BY <2>1, <2>2, <2>3, <3>2, <3>4, <3>5
  <2>4. CASE worker'[w] # worker[w]
    <3>1. i \in DOMAIN rows /\ Result(i)
      BY <1>2, <1>4, <2>1, <2>2, <2>4 DEF Keeps
    <3>2. Parts(i)' \subseteq Parts(i)
      BY <1>1, <3>1
    <3>. QED BY <1>4, <2>1, <2>2, <2>4, <3>1, <3>2 DEF Keeps
  <2>. QED BY <2>3, <2>4
<1>5. \A w \in Worker : Delivered(w)'
  BY <1>4 DEF Delivered
<1>. QED BY <1>3, <1>5 DEF Whole


\* A row of a Turn shows that the Turn was enqueued, and a result that it ended.
LEMMA RowOfTurn ==
    ASSUME Typed, Listed, NEW i \in DOMAIN rows, rows[i].kind # "notice"
    PROVE  /\ rows[i].turn \in Turn /\ turn[rows[i].turn].stage # "none"
           /\ rows[i].kind = "final" => turn[rows[i].turn].stage = "terminal"
<1>1. PICK t : t = rows[i].turn
  OBVIOUS
<1>2. t \in Turn /\ turn[t] \in View /\ Counted(turn[t])
  BY <1>1 DEF Typed, Rows, Fits, Listed
<1>3. What(rows[i]) # "notice" /\ Allows(turn, Label(rows[i])) /\ Label(rows[i])[2] = What(rows[i])
  BY DEF What, Label, Listed, Labels
<1>4. Permits(turn[t], What(rows[i]), Nth(rows[i]))
  BY <1>1, <1>3 DEF Allows, Label
<1>5. turn[t].stage # "none"
  <2>1. turn[t].stage = "none" => 1..turn[t].rev = {} /\ 1..turn[t].card = {} /\ turn[t].cleanup = "active"
    BY <1>2 DEF Counted
  <2>. QED BY <1>4, <2>1 DEF Permits
<1>6. rows[i].kind = "final" => turn[t].stage = "terminal"
  BY <1>4 DEF Permits, What
<1>. QED BY <1>1, <1>2, <1>5, <1>6

LEMMA FinalsKept ==
    ASSUME Typed, Listed, NEW t \in Turn, volatile' \subseteq volatile \cup {t},
           t \in volatile' => t \in volatile \/ turn[t].stage # "terminal"
    PROVE  \A i \in DOMAIN rows :
              rows[i].kind = "final" /\ rows[i].turn \in volatile' => rows[i].turn \in volatile
BY RowOfTurn

-----------------------------------------------------------------------------
(***************************************************************************)
(* Each step keeps Complete, and none but an acknowledgement is heard of.  *)
(***************************************************************************)
LEMMA TransactionCompletes ==
    ASSUME IInv, Complete, Grown(rows, rows'), UNCHANGED <<worker, copies, known>>,
           NEW t \in Turn, NEW v \in View, turn' = [turn EXCEPT ![t] = v],
           More(turn[t], v), Counted(v), v.msg = turn[t].msg, v.cardMsg = turn[t].cardMsg,
           NEW new, Enlists(rows, rows', new), \A l \in new : l[1] = t /\ Permits(v, l[2], l[3]),
           volatile' \subseteq volatile \cup {t},
           t \in volatile' => t \in volatile \/ turn[t].stage # "terminal"
    PROVE  Complete'
<1>1. Typed /\ Listed /\ Attached /\ Whole
  BY DEF IInv, Complete
<1>2. /\ turn' \in [Turn -> View] /\ turn'[t] = v
      /\ \A u \in Turn : More(turn[u], turn'[u]) /\ Counted(turn'[u])
  BY <1>1, TurnListed
<1>3. \A l \in new : Allows(turn', l)
  BY <1>2 DEF Allows
<1>4. Listed'
  BY <1>1, <1>2, <1>3, ListedStays
<1>5. \A u \in Turn : turn'[u].msg = turn[u].msg /\ turn'[u].cardMsg = turn[u].cardMsg
  BY <1>1 DEF Typed
<1>6. Attached'
  <2>1. \A w \in Worker : worker'[w].pc = "ack" =>
          /\ worker[w].pc # "idle" /\ worker'[w].row = worker[w].row
          /\ rows[worker[w].row].kind \in {"progress", "card"} =>
                Message(rows[worker[w].row].turn, worker'[w].got)
    BY <1>1 DEF Attached
  <2>. QED BY <1>1, <1>5, <2>1, AttachedStays
<1>7. Whole'
  <2>1. \A i \in DOMAIN rows :
          rows[i].kind = "final" /\ rows[i].turn \in volatile' => rows[i].turn \in volatile
    BY <1>1, FinalsKept
  <2>2. \A w \in Worker : Keeps(w)
    BY DEF Keeps
  <2>. QED BY <1>1, <2>1, <2>2, WholeStays
<1>. QED BY <1>4, <1>6, <1>7 DEF Complete

LEMMA EnqueueCompletes ==
    ASSUME IInv, Complete, NEW t \in Turn, Enqueue(t)
    PROVE  Complete' /\ Silent(rows, rows')
<1> DEFINE rs == InsertReaction(rows, t, "waiting")
<1> DEFINE r == NewRow(t, "progress", "send", NoRow, 1)
<1> DEFINE v == [turn[t] EXCEPT !.stage = "active", !.rev = 1]
<1>1. Rows(rows) /\ turn[t] \in View /\ turn \in [Turn -> View] /\ Listed /\ Counted(turn[t])
  BY DEF IInv, Typed, Complete, Listed
<1>2. /\ turn[t].stage = "none" /\ turn[t].rev = 0 /\ turn[t].card = 0 /\ turn[t].cleanup = "active"
      /\ turn[t].toggles \in Nat /\ MaxUpdate \in Nat /\ MaxToggle \in Nat
  BY <1>1, OutboxAssumption DEF Enqueue, Counted, View
<1>3. <<t, "reaction", 0>> \notin Labels(rows) /\ <<t, "progress", 1>> \notin Labels(rows)
  <2>1. ~Permits(turn[t], "reaction", 0)
    BY <1>2 DEF Permits
  <2>2. ~Permits(turn[t], "progress", 1)
    BY <1>2 DEF Permits
  <2>. QED BY <1>1, <2>1, <2>2, Fresh
<1>4. Enlists(rows, rs, {<<t, "reaction", 0>>}) /\ Silent(rows, rs)
  BY <1>1, <1>3, InsertReactionEnlists
<1>5. rows' = Append(rs, r) /\ Label(r) = <<t, "progress", 1>>
  BY DEF Enqueue, NewRow, Label, What, Nth
<1> HIDE DEF rs
<1>6. Label(r) \notin Labels(rs) /\ Rows(rs)
  BY <1>3, <1>4, <1>5 DEF Enlists
<1>7. Enlists(rs, Append(rs, r), {Label(r)}) /\ Silent(rs, Append(rs, r))
  <2>1. 1 \in Shows /\ "progress" \in Kind \ {"notice"}
    BY DEF Shows, Kind
  <2>. QED BY <1>6, <2>1, NewRowEnlists
<1> HIDE DEF r
<1> DEFINE new == {<<t, "reaction", 0>>} \cup {Label(r)}
<1>8. Enlists(rows, rows', new) /\ Silent(rows, rows')
  BY <1>4, <1>5, <1>7, EnlistsTransitive
<1>9. /\ v \in View /\ turn' = [turn EXCEPT ![t] = v] /\ v.stage = "active" /\ v.rev = 1 /\ v.card = 0
      /\ v.toggles = turn[t].toggles /\ v.msg = turn[t].msg /\ v.cardMsg = turn[t].cardMsg
      /\ v.cleanup = turn[t].cleanup
  BY <1>1, <1>2 DEF View, Enqueue
<1> HIDE DEF v
<1>10. More(turn[t], v) /\ Counted(v)
  BY <1>1, <1>2, <1>9 DEF More, Counted
<1>11. \A l \in new : l[1] = t /\ Permits(v, l[2], l[3])
  BY <1>5, <1>9 DEF Permits
<1> HIDE DEF new
<1>12. Grown(rows, rows') /\ UNCHANGED <<worker, copies, known, volatile>>
  BY EnqueueGoes DEF Goes, Enqueue, discord
<1>. QED BY <1>8, <1>9, <1>10, <1>11, <1>12, TransactionCompletes

LEMMA UpdateProgressCompletes ==
    ASSUME IInv, Complete, NEW t \in Turn, UpdateProgress(t)
    PROVE  Complete' /\ Silent(rows, rows')
<1> DEFINE n == turn[t].rev + 1
<1> DEFINE new == {<<t, "progress", n>>}
<1> DEFINE v == [turn[t] EXCEPT !.rev = n]
<1>1. Rows(rows) /\ turn[t] \in View /\ turn \in [Turn -> View] /\ Listed /\ Counted(turn[t])
  BY DEF IInv, Typed, Complete, Listed
<1>2. /\ turn[t].stage = "active" /\ turn[t].rev + turn[t].card - turn[t].toggles <= MaxUpdate
      /\ turn[t].rev \in Nat /\ turn[t].card \in Nat /\ turn[t].toggles \in Nat
      /\ MaxUpdate \in Nat /\ MaxToggle \in Nat /\ n \in Nat
  BY <1>1, OutboxAssumption DEF UpdateProgress, View
<1>3. <<t, "progress", n>> \notin Labels(rows)
  <2>1. ~Permits(turn[t], "progress", n)
    BY <1>2 DEF Permits
  <2> HIDE DEF n
  <2>. QED BY <1>1, <2>1, Fresh
<1>4. Enlists(rows, rows', new) /\ Silent(rows, rows')
  <2>1. rows' = InsertProgress(rows, t, n)
    BY DEF UpdateProgress
  <2> HIDE DEF n
  <2>. QED BY <1>1, <1>2, <1>3, <2>1, InsertProgressEnlists
<1>5. /\ v \in View /\ turn' = [turn EXCEPT ![t] = v] /\ v.stage = "active" /\ v.rev = n
      /\ v.card = turn[t].card /\ v.toggles = turn[t].toggles
      /\ v.msg = turn[t].msg /\ v.cardMsg = turn[t].cardMsg /\ v.cleanup = turn[t].cleanup
  BY <1>1, <1>2 DEF View, UpdateProgress
<1> HIDE DEF v
<1>6. More(turn[t], v)
  BY <1>2, <1>5 DEF More
<1>7. Counted(v)
  BY <1>1, <1>2, <1>5 DEF Counted
<1>8. \A l \in new : l[1] = t /\ Permits(v, l[2], l[3])
  BY <1>2, <1>5 DEF Permits
<1>9. Grown(rows, rows') /\ UNCHANGED <<worker, copies, known, volatile>>
  BY UpdateProgressGoes DEF Goes, UpdateProgress, discord
<1> HIDE DEF n, new
<1>. QED BY <1>4, <1>5, <1>6, <1>7, <1>8, <1>9, TransactionCompletes

LEMMA RenderCardCompletes ==
    ASSUME IInv, Complete, NEW t \in Turn, RenderCard(t)
    PROVE  Complete' /\ Silent(rows, rows')
<1> DEFINE n == turn[t].card + 1
<1> DEFINE new == {<<t, "card", n>>}
<1> DEFINE v == [turn[t] EXCEPT !.card = n]
<1>1. Rows(rows) /\ turn[t] \in View /\ turn \in [Turn -> View] /\ Listed /\ Counted(turn[t])
  BY DEF IInv, Typed, Complete, Listed
<1>2. /\ turn[t].stage = "active" /\ turn[t].rev + turn[t].card - turn[t].toggles <= MaxUpdate
      /\ turn[t].rev \in Nat /\ turn[t].card \in Nat /\ turn[t].toggles \in Nat
      /\ MaxUpdate \in Nat /\ MaxToggle \in Nat /\ n \in Nat
  BY <1>1, OutboxAssumption DEF RenderCard, View
<1>3. <<t, "card", n>> \notin Labels(rows)
  <2>1. ~Permits(turn[t], "card", n)
    BY <1>2 DEF Permits
  <2> HIDE DEF n
  <2>. QED BY <1>1, <2>1, Fresh
<1>4. Enlists(rows, rows', new) /\ Silent(rows, rows')
  <2>1. rows' = InsertCard(rows, t, n)
    BY DEF RenderCard
  <2> HIDE DEF n
  <2>. QED BY <1>1, <1>2, <1>3, <2>1, InsertCardEnlists
<1>5. /\ v \in View /\ turn' = [turn EXCEPT ![t] = v] /\ v.stage = "active" /\ v.card = n
      /\ v.rev = turn[t].rev /\ v.toggles = turn[t].toggles
      /\ v.msg = turn[t].msg /\ v.cardMsg = turn[t].cardMsg /\ v.cleanup = turn[t].cleanup
  BY <1>1, <1>2 DEF View, RenderCard
<1> HIDE DEF v
<1>6. More(turn[t], v)
  BY <1>2, <1>5 DEF More
<1>7. Counted(v)
  BY <1>1, <1>2, <1>5 DEF Counted
<1>8. \A l \in new : l[1] = t /\ Permits(v, l[2], l[3])
  BY <1>2, <1>5 DEF Permits
<1>9. Grown(rows, rows') /\ UNCHANGED <<worker, copies, known, volatile>>
  BY RenderCardGoes DEF Goes, RenderCard, discord
<1> HIDE DEF n, new
<1>. QED BY <1>4, <1>5, <1>6, <1>7, <1>8, <1>9, TransactionCompletes

LEMMA ToggleCardCompletes ==
    ASSUME IInv, Complete, NEW t \in Turn, ToggleCard(t)
    PROVE  Complete' /\ Silent(rows, rows')
<1> DEFINE n == turn[t].card + 1
<1> DEFINE k == turn[t].toggles + 1
<1> DEFINE new == {<<t, "card", n>>}
<1> DEFINE v == [turn[t] EXCEPT !.card = n, !.toggles = k]
<1>1. Rows(rows) /\ turn[t] \in View /\ turn \in [Turn -> View] /\ Listed /\ Counted(turn[t])
  BY DEF IInv, Typed, Complete, Listed
<1>2. /\ turn[t].toggles < MaxToggle
      /\ turn[t].rev \in Nat /\ turn[t].card \in Nat /\ turn[t].toggles \in Nat
      /\ MaxUpdate \in Nat /\ MaxToggle \in Nat /\ n \in Nat /\ k \in Nat
  BY <1>1, OutboxAssumption DEF ToggleCard, View
<1>3. <<t, "card", n>> \notin Labels(rows)
  <2>1. ~Permits(turn[t], "card", n)
    BY <1>2 DEF Permits
  <2> HIDE DEF n
  <2>. QED BY <1>1, <2>1, Fresh
<1>4. Enlists(rows, rows', new) /\ Silent(rows, rows')
  <2>1. rows' = InsertCard(rows, t, n)
    BY DEF ToggleCard
  <2> HIDE DEF n
  <2>. QED BY <1>1, <1>2, <1>3, <2>1, InsertCardEnlists
<1>5. /\ v \in View /\ turn' = [turn EXCEPT ![t] = v] /\ v.stage = turn[t].stage /\ v.card = n
      /\ v.rev = turn[t].rev /\ v.toggles = k
      /\ v.msg = turn[t].msg /\ v.cardMsg = turn[t].cardMsg /\ v.cleanup = turn[t].cleanup
  BY <1>1, <1>2 DEF View, ToggleCard
<1> HIDE DEF v
<1>6. More(turn[t], v)
  BY <1>2, <1>5 DEF More
<1>7. turn[t].stage # "none"
  <2>1. Typed /\ Message(t, turn[t].cardMsg) /\ turn[t].cardMsg # NoRow
    BY DEF IInv, Complete, Attached, ToggleCard
  <2>2. PICK i \in DOMAIN rows : rows[i].turn = t /\ rows[i].kind \in {"progress", "card"}
    BY <2>1 DEF Message
  <2>. QED BY <1>1, <2>1, <2>2, RowOfTurn
<1>8. Counted(v)
  <2>1. k <= MaxToggle
    BY <1>2
  <2>2. \A e \in Nat : turn[t].rev + turn[t].card <= turn[t].toggles + MaxUpdate + e
                        => turn[t].rev + n <= k + MaxUpdate + e
    BY <1>2
  <2> HIDE DEF n, k
  <2>. QED BY <1>1, <1>5, <1>7, <2>1, <2>2 DEF Counted
<1>9. \A l \in new : l[1] = t /\ Permits(v, l[2], l[3])
  BY <1>2, <1>5 DEF Permits
<1>10. Grown(rows, rows') /\ UNCHANGED <<worker, copies, known, volatile>>
  BY ToggleCardGoes DEF Goes, ToggleCard, discord
<1> HIDE DEF n, new, k
<1>. QED BY <1>4, <1>5, <1>6, <1>8, <1>9, <1>10, TransactionCompletes

LEMMA TerminateCompletes ==
    ASSUME IInv, Complete, NEW t \in Turn, Terminate(t)
    PROVE  Complete' /\ Silent(rows, rows')
<1> DEFINE c == IF turn[t].card = 0 THEN 0 ELSE turn[t].card + 1
<1> DEFINE n == turn[t].rev + 1
<1>1. /\ Rows(rows) /\ turn[t] \in View /\ turn \in [Turn -> View] /\ Listed /\ Counted(turn[t])
      /\ Progress(rows, t) # {}
  BY DEF IInv, Typed, Complete, Listed, Sound, Shown, Terminate
<1>2. /\ turn[t].stage = "active"
      /\ turn[t].rev \in Nat /\ turn[t].card \in Nat /\ turn[t].toggles \in Nat
      /\ MaxUpdate \in Nat /\ MaxToggle \in Nat /\ n \in Nat /\ c \in Nat
  BY <1>1, OutboxAssumption DEF Terminate, View
<1>3. PICK outcome \in {"completed", "failed"} :
        /\ rows' = InsertFinal(InsertProgress(InsertReaction(FinishCard(rows, t), t, outcome), t, n), t, outcome)
        /\ turn' = [turn EXCEPT ![t].stage = "terminal", ![t].outcome = outcome, ![t].rev = @ + 1,
                                ![t].card = IF @ = 0 THEN 0 ELSE @ + 1]
  BY DEF Terminate
<1>4. /\ <<t, "outcome", 0>> \notin Labels(rows) /\ <<t, "final", 0>> \notin Labels(rows)
      /\ <<t, "progress", n>> \notin Labels(rows)
      /\ <<t, "card", turn[t].card + 1>> \notin Labels(rows)
  <2>1. ~Permits(turn[t], "outcome", 0) /\ ~Permits(turn[t], "final", 0)
    BY <1>2 DEF Permits
  <2>2. ~Permits(turn[t], "progress", n)
    BY <1>2 DEF Permits
  <2>3. ~Permits(turn[t], "card", turn[t].card + 1)
    BY <1>2 DEF Permits
  <2> HIDE DEF n
  <2>. QED BY <1>1, <2>1, <2>2, <2>3, Fresh
<1> DEFINE new1 == IF turn[t].card = 0 THEN {} ELSE {<<t, "card", turn[t].card + 1>>}
<1> DEFINE a == FinishCard(rows, t)
<1> DEFINE b == InsertReaction(a, t, outcome)
<1> DEFINE d == InsertProgress(b, t, n)
<1>5. Enlists(rows, a, new1) /\ Silent(rows, a) /\ Grown(rows, a)
  <2>1. CASE turn[t].card = 0
    <3>1. a = rows /\ new1 = {}
      BY <2>1 DEF FinishCard
    <3>. QED BY <1>1, <3>1, Unchanged DEF Enlists, Silent
  <2>2. CASE turn[t].card # 0
    <3>1. turn[t].card + 1 \in Nat
      BY <1>2
    <3>2. a = InsertCard(rows, t, turn[t].card + 1) /\ new1 = {<<t, "card", turn[t].card + 1>>}
      BY <2>2 DEF FinishCard
    <3> HIDE DEF a, new1
    <3>. QED BY <1>1, <1>4, <3>1, <3>2, InsertCardEnlists, InsertCardGrows
  <2>. QED BY <2>1, <2>2
<1>6. new1 \subseteq {<<t, "card", turn[t].card + 1>>}
  OBVIOUS
<1> HIDE DEF a, new1
<1>7. Enlists(a, b, {<<t, "outcome", 0>>}) /\ Silent(a, b) /\ Grown(a, b)
  <2>1. Rows(a) /\ <<t, "outcome", 0>> \notin Labels(a)
    BY <1>4, <1>5, <1>6 DEF Enlists
  <2>. QED BY <2>1, InsertReactionEnlists, InsertReactionGrows
<1> HIDE DEF b
<1>8. Enlists(rows, b, new1 \cup {<<t, "outcome", 0>>}) /\ Silent(rows, b) /\ Grown(rows, b)
  BY <1>5, <1>7, EnlistsTransitive, GrownTransitive
<1>9. Enlists(b, d, {<<t, "progress", n>>}) /\ Silent(b, d) /\ Grown(b, d)
  <2> HIDE DEF n
  <2>1. Rows(b) /\ <<t, "progress", n>> \notin Labels(b)
    BY <1>4, <1>6, <1>8 DEF Enlists
  <2>. QED BY <1>2, <2>1, InsertProgressEnlists, InsertProgressGrows
<1> HIDE DEF d
<1>10. /\ Enlists(rows, d, (new1 \cup {<<t, "outcome", 0>>}) \cup {<<t, "progress", n>>})
       /\ Silent(rows, d) /\ Grown(rows, d)
  BY <1>8, <1>9, EnlistsTransitive, GrownTransitive
<1>11. Enlists(d, rows', {<<t, "final", 0>>}) /\ Silent(d, rows')
  <2>1. rows' = InsertFinal(d, t, outcome)
    BY <1>3 DEF a, b, d
  <2>2. Rows(d) /\ Progress(d, t) # {}
    BY <1>1, <1>10 DEF Grown
  <2>3. <<t, "final", 0>> \notin Labels(d)
    BY <1>4, <1>6, <1>10 DEF Enlists
  <2>. QED BY <2>1, <2>2, <2>3, InsertFinalEnlists
<1> DEFINE new == ((new1 \cup {<<t, "outcome", 0>>}) \cup {<<t, "progress", n>>}) \cup {<<t, "final", 0>>}
<1>12. Enlists(rows, rows', new) /\ Silent(rows, rows')
  <2> HIDE DEF n
  <2>. QED BY <1>10, <1>11, EnlistsTransitive
<1> DEFINE v == [turn[t] EXCEPT !.stage = "terminal", !.outcome = outcome, !.rev = n, !.card = c]
<1>13. turn' = [turn EXCEPT ![t] = v]
  BY <1>1, <1>3
<1> HIDE DEF c
<1>14. /\ v \in View /\ v.stage = "terminal" /\ v.card = c /\ v.rev = n /\ v.toggles = turn[t].toggles
       /\ v.msg = turn[t].msg /\ v.cardMsg = turn[t].cardMsg /\ v.cleanup = turn[t].cleanup
  BY <1>1, <1>2 DEF View
<1> HIDE DEF v
<1>15. More(turn[t], v)
  <2>1. turn[t].card <= c /\ turn[t].rev <= n
    BY <1>2 DEF c
  <2>. QED BY <1>2, <1>14, <2>1 DEF More
<1>16. Counted(v)
  <2>1. turn[t].toggles <= MaxToggle /\ turn[t].rev + turn[t].card <= turn[t].toggles + MaxUpdate + 1
    BY <1>1, <1>2 DEF Counted
  <2>2. n + c <= turn[t].toggles + MaxUpdate + 3
    BY <1>2, <2>1 DEF c
  <2>. QED BY <1>14, <2>1, <2>2 DEF Counted
<1>17. \A l \in new : l[1] = t /\ Permits(v, l[2], l[3])
  <2>1. Permits(v, "outcome", 0) /\ Permits(v, "final", 0)
    BY <1>14 DEF Permits
  <2>2. Permits(v, "progress", n)
    BY <1>2, <1>14 DEF Permits
  <2>3. turn[t].card # 0 => Permits(v, "card", turn[t].card + 1)
    BY <1>2, <1>14 DEF Permits, c
  <2> HIDE DEF n
  <2>. QED BY <2>1, <2>2, <2>3 DEF new1
<1> HIDE DEF new
<1>18. Grown(rows, rows') /\ UNCHANGED <<worker, copies, known>> /\ volatile' = volatile \cup {t}
  BY TerminateGoes DEF Goes, Terminate, discord
<1>. QED BY <1>2, <1>12, <1>13, <1>14, <1>15, <1>16, <1>17, <1>18, TransactionCompletes


\* A step of one delivery: what it acknowledges is a message of its view, and it
\* leaves no part of a result behind.
Well(w, q) ==
    \/ q.pc = "idle"
    \/ /\ worker[w].pc # "idle" /\ q.row = worker[w].row
       /\ q.pc = "ack" /\ rows[q.row].kind \in {"progress", "card"} => Message(rows[q.row].turn, q.got)
       /\ Result(q.row) =>
             /\ q.pc \in {"scan", "post", "ack", "retry", "fail"}
             /\ \A p \in Parts(q.row) :
                  q.pc = "ack" \/ (q.pc \in {"scan", "post"} /\ p < q.part) => copies'[<<q.row, p>>] > 0
Acks(w) ==
    worker'[w].pc = "ack" =>
        /\ worker[w].pc # "idle" /\ worker'[w].row = worker[w].row
        /\ rows[worker[w].row].kind \in {"progress", "card"} =>
              Message(rows[worker[w].row].turn, worker'[w].got)
\* What happens to the messages.
MessagesStay ==
    /\ \A m \in Marker : Result(m[1]) /\ copies[m] > 0 => copies'[m] > 0
    /\ \A m \in Marker : m \in known' => m \in known \/ (m[1] \in DOMAIN rows /\ copies'[m] > 0)

LEMMA RowOfDelivery ==
    ASSUME IInv, Listed, NEW w \in Worker, worker[w].pc # "idle"
    PROVE  worker[w].row \in DOMAIN rows /\ worker[w].row \in Row
BY RowsFit DEF IInv, Sound, Begun, Ready

LEMMA WellKeeps ==
    ASSUME IInv, Complete, NEW w \in Worker, NEW q, Well(w, q), worker' = [worker EXCEPT ![w] = q]
    PROVE  \A v \in Worker : Acks(v) /\ Keeps(v)
<1>1. \A v \in Worker : worker'[v] = IF v = w THEN q ELSE worker[v]
  BY DEF IInv, Typed
<1>2. ASSUME NEW v \in Worker, v # w
      PROVE  Acks(v) /\ Keeps(v)
  BY <1>1, <1>2 DEF Acks, Keeps, Complete, Attached
<1>3. Acks(w) /\ Keeps(w)
  <2>1. worker'[w] = q
    BY <1>1
  <2>2. q.pc # "idle" => q.row \in DOMAIN rows
    BY RowOfDelivery DEF Well, Complete
  <2>. QED BY <2>1, <2>2 DEF Well, Acks, Keeps
<1>. QED BY <1>2, <1>3

LEMMA OthersKeep ==
    ASSUME IInv, Complete, UNCHANGED worker
    PROVE  \A v \in Worker : Acks(v) /\ Keeps(v)
BY DEF Acks, Keeps, Complete, Attached

\* A step of a delivery before its end.
LEMMA DeliveryCompletes ==
    ASSUME IInv, Complete, UNCHANGED <<rows, turn, volatile>>, MessagesStay,
           \A v \in Worker : Acks(v) /\ Keeps(v)
    PROVE  Complete' /\ Silent(rows, rows')
<1>1. Typed /\ Listed /\ Attached /\ Whole /\ Rows(rows) /\ Grown(rows, rows')
  BY Unchanged DEF IInv, Complete, Typed
<1>2. Listed'
  BY <1>1 DEF Listed
<1>3. Attached'
  BY <1>1, AttachedStays DEF Acks
<1>4. Whole'
  BY <1>1, WholeStays DEF MessagesStay
<1>. QED BY <1>2, <1>3, <1>4 DEF Complete, Silent

LEMMA NoMessage ==
    ASSUME UNCHANGED <<copies, known>>
    PROVE  MessagesStay
BY DEF MessagesStay

\* A request that lands leaves its message in Discord.
LEMMA LandsWhole ==
    ASSUME IInv, Complete, NEW m \in Marker, m[1] \in DOMAIN rows, Land(m)
    PROVE  MessagesStay /\ (Result(m[1]) => copies'[m] > 0)
<1>1. copies \in [Marker -> Nat] /\ known' = known \cup {m}
  BY DEF IInv, Typed, Land
<1>2. CASE m \in known
  <2>1. copies' = copies /\ known' = known
    BY <1>1, <1>2 DEF Land
  <2>. QED BY <1>2, <2>1, NoMessage DEF Complete, Whole
<1>3. CASE m \notin known
  <2>1. copies' = [copies EXCEPT ![m] = copies[m] + 1]
    BY <1>3 DEF Land
  <2>2. copies[m] \in Nat
    BY <1>1
  <2>3. copies[m] + 1 > 0
    BY <2>2
  <2>4. copies'[m] > 0 /\ \A k \in Marker \ {m} : copies'[k] = copies[k]
    BY <1>1, <2>1, <2>3
  <2>. QED BY <1>1, <2>4 DEF MessagesStay
<1>. QED BY <1>2, <1>3

\* The forms of a step.
LEMMA StepWell ==
    ASSUME IInv, Complete, NEW w \in Worker, worker[w].pc # "idle", NEW pc, Step(w, pc),
           pc # "ack",
           Result(worker[w].row) =>
              \/ pc \in {"retry", "fail"}
              \/ pc = "post" /\ worker[w].pc = "scan" /\ UNCHANGED copies
    PROVE  \A v \in Worker : Acks(v) /\ Keeps(v)
<1> DEFINE q == [worker[w] EXCEPT !.pc = pc]
<1>1. /\ q.pc = pc /\ q.row = worker[w].row /\ q.part = worker[w].part
  BY DEF IInv, Typed, Task
<1>2. worker' = [worker EXCEPT ![w] = q]
  BY DEF Step
<1> HIDE DEF q
<1>3. Well(w, q)
  <2>1. CASE ~Result(worker[w].row)
    BY <1>1, <2>1 DEF Well
  <2>2. CASE pc \in {"retry", "fail"}
    BY <1>1, <2>2 DEF Well
  <2>3. CASE pc = "post" /\ worker[w].pc = "scan" /\ UNCHANGED copies
    BY <1>1, <2>3 DEF Well, Complete, Whole, Delivered
  <2>. QED BY <2>1, <2>2, <2>3
<1>. QED BY <1>2, <1>3, WellKeeps

LEMMA AcknowledgeWell ==
    ASSUME IInv, Complete, NEW w \in Worker, worker[w].pc # "idle", NEW got, Acknowledge(w, got),
           rows[worker[w].row].kind \in {"progress", "card"} => Message(rows[worker[w].row].turn, got),
           Result(worker[w].row) => \A p \in Parts(worker[w].row) : copies'[<<worker[w].row, p>>] > 0
    PROVE  \A v \in Worker : Acks(v) /\ Keeps(v)
<1> DEFINE q == [worker[w] EXCEPT !.pc = "ack", !.got = got]
<1>1. q.pc = "ack" /\ q.row = worker[w].row /\ q.got = got
  BY DEF IInv, Typed, Task
<1>2. worker' = [worker EXCEPT ![w] = q]
  BY DEF Acknowledge
<1> HIDE DEF q
<1>3. Well(w, q)
  BY <1>1 DEF Well
<1>. QED BY <1>2, <1>3, WellKeeps

LEMMA ReleaseWell ==
    ASSUME IInv, Complete, NEW w \in Worker, Release(w)
    PROVE  \A v \in Worker : Acks(v) /\ Keeps(v)
<1>1. Well(w, Idle)
  BY DEF Idle, Well
<1>. QED BY <1>1, WellKeeps DEF Release

\* The next part begins when the current one is there.
LEMMA AdvanceWell ==
    ASSUME IInv, Complete, NEW w \in Worker, worker[w].pc \in {"scan", "post"}, Advance(w), MessagesStay,
           Result(worker[w].row) => copies'[Current(w)] > 0
    PROVE  \A v \in Worker : Acks(v) /\ Keeps(v)
<1> DEFINE i == worker[w].row
<1> DEFINE left == {p \in Parts(i) : p > worker[w].part}
<1> DEFINE next == CHOOSE p \in left : \A q \in left : p <= q
<1>1. worker[w] \in Task /\ worker[w].pc # "idle" /\ i \in DOMAIN rows /\ i \in Row /\ worker[w].part \in Part
  BY RowOfDelivery DEF IInv, Typed, Task, Complete
<1>2. Part \subseteq Nat /\ Parts(i) \subseteq Part
  BY OutboxAssumption DEF Part, Footer, Parts
<1>3. ASSUME Result(i), NEW p \in Parts(i), p \notin left
      PROVE  copies'[<<i, p>>] > 0
  <2>1. p < worker[w].part \/ p = worker[w].part
    <3>1. p \in Nat /\ worker[w].part \in Nat /\ ~(p > worker[w].part)
      BY <1>1, <1>2, <1>3
    <3>. QED BY <3>1
  <2>2. CASE p < worker[w].part
    <3>1. copies[<<i, p>>] > 0
      BY <1>3, <2>2 DEF Complete, Whole, Delivered
    <3>2. <<i, p>> \in Marker /\ <<i, p>>[1] = i
      BY <1>1, <1>2 DEF Marker
    <3> HIDE DEF i
    <3>. QED BY <1>3, <3>1, <3>2 DEF MessagesStay
  <2>3. CASE p = worker[w].part
    BY <1>3, <2>3 DEF Current
  <2>. QED BY <2>1, <2>2, <2>3
<1>4. CASE left = {}
  <2>1. Acknowledge(w, i)
    BY <1>4 DEF Advance
  <2>2. rows[i].kind \in {"progress", "card"} => Message(rows[i].turn, i)
    BY <1>1 DEF Message
  <2>3. Result(i) => \A p \in Parts(i) : copies'[<<i, p>>] > 0
    BY <1>3, <1>4
  <2>. QED BY <1>1, <2>1, <2>2, <2>3, AcknowledgeWell
<1>5. CASE left # {}
  <2>1. next \in left /\ \A q \in left : next <= q
    <3>1. left \subseteq Nat
      BY <1>2
    <3> HIDE DEF left
    <3>2. \E p \in left : \A q \in left : p <= q
      BY <1>5, <3>1, LeastOf
    <3>. QED BY <3>2
  <2>2. worker' = [worker EXCEPT ![w].pc = Entry(worker[w].from), ![w].part = next]
    BY <1>5 DEF Advance
  <2>3. next \in Nat /\ left \subseteq Nat
    BY <1>2, <2>1
  <2> HIDE DEF left, next
  <2> DEFINE q == [worker[w] EXCEPT !.pc = Entry(worker[w].from), !.part = next]
  <2>4. worker' = [worker EXCEPT ![w] = q]
    BY <2>2
  <2>5. Entry(worker[w].from) \in {"post", "scan"}
    BY DEF Entry
  <2>6. q.pc = Entry(worker[w].from) /\ q.row = i /\ q.part = next
    BY <1>1 DEF Task
  <2> HIDE DEF q
  <2>7. ASSUME Result(i), NEW p \in Parts(i), p < next
        PROVE  copies'[<<i, p>>] > 0
    <3>1. p \in Nat
      BY <1>2
    <3>2. p \notin left
      <4>1. p \in left => next <= p
        BY <2>1
      <4>. QED BY <2>3, <2>7, <3>1, <4>1
    <3>. QED BY <1>3, <2>7, <3>2
  <2>8. Well(w, q)
    BY <1>1, <2>5, <2>6, <2>7 DEF Well
  <2>. QED BY <2>4, <2>8, WellKeeps
<1>. QED BY <1>4, <1>5

LEMMA ScanCompletes ==
    ASSUME IInv, Complete, NEW w \in Worker, Scan(w)
    PROVE  Complete' /\ Silent(rows, rows')
<1>1. worker[w].pc = "scan" /\ UNCHANGED <<rows, turn, volatile, copies, known>>
  BY DEF Scan, discord
<1>2. MessagesStay
  BY <1>1, NoMessage
<1>3. \A v \in Worker : Acks(v) /\ Keeps(v)
  <2>1. CASE copies[Current(w)] > 0 /\ Advance(w)
    BY <1>1, <1>2, <2>1, AdvanceWell
  <2>2. CASE Step(w, "post")
    BY <1>1, <2>2, StepWell
  <2>. QED BY <2>1, <2>2 DEF Scan, AdvanceFound
<1>. QED BY <1>1, <1>2, <1>3, DeliveryCompletes

LEMMA PostCompletes ==
    ASSUME IInv, Complete, NEW w \in Worker, Post(w)
    PROVE  Complete' /\ Silent(rows, rows')
<1>1. worker[w].pc = "post" /\ Land(Current(w)) /\ UNCHANGED <<rows, turn, volatile>>
  BY DEF Post
<1>2. worker[w].row \in DOMAIN rows /\ worker[w].row \in Row /\ worker[w].part \in Part
  BY <1>1, RowOfDelivery DEF IInv, Typed, Task, Complete
<1>3. Current(w) \in Marker /\ Current(w)[1] = worker[w].row
  BY <1>2 DEF Current, Marker
<1>4. MessagesStay /\ (Result(worker[w].row) => copies'[Current(w)] > 0)
  <2>1. PICK m \in Marker : m = Current(w)
    BY <1>3
  <2>. QED BY <1>1, <1>2, <1>3, <2>1, LandsWhole
<1>5. \A v \in Worker : Acks(v) /\ Keeps(v)
  <2>1. CASE Advance(w)
    BY <1>1, <1>4, <2>1, AdvanceWell
  <2>2. CASE Step(w, "retry")
    BY <1>1, <2>2, StepWell
  <2>. QED BY <2>1, <2>2 DEF Post
<1>. QED BY <1>1, <1>4, <1>5, DeliveryCompletes

LEMMA EditCompletes ==
    ASSUME IInv, Complete, NEW w \in Worker, Edit(w)
    PROVE  Complete' /\ Silent(rows, rows')
<1> DEFINE i == worker[w].row
<1>1. worker[w].pc = "edit" /\ UNCHANGED <<rows, turn, volatile, copies, known>>
  BY DEF Edit, discord
<1>2. /\ i \in DOMAIN rows /\ rows[i].kind # "notice" /\ rows[i].turn \in Turn /\ ~Result(i)
  <2>1. i \in DOMAIN rows /\ rows[i].kind # "notice"
    BY <1>1 DEF IInv, Typed, Sound, Begun, Ready
  <2>2. rows[i].turn \in Turn
    BY <2>1 DEF IInv, Typed, Rows, Fits
  <2>3. ~Result(i)
    BY <1>1 DEF Complete, Whole, Delivered
  <2>. QED BY <2>1, <2>2, <2>3
<1>3. \A v \in Worker : Acks(v) /\ Keeps(v)
  <2>1. CASE Acknowledge(w, Bound(i))
    <3>1. Message(rows[i].turn, Bound(i))
      BY <1>2 DEF Bound, Complete, Attached
    <3>. QED BY <1>1, <1>2, <2>1, <3>1, AcknowledgeWell
  <2>2. CASE Step(w, Entry(worker[w].from))
    <3>1. Entry(worker[w].from) # "ack"
      BY DEF Entry
    <3>. QED BY <1>1, <1>2, <2>2, <3>1, StepWell
  <2>. QED BY <2>1, <2>2 DEF Edit
<1>. QED BY <1>1, <1>3, NoMessage, DeliveryCompletes

\* What is deleted is the message of a view.
LEMMA RemovalStays ==
    ASSUME IInv, NEW t, NEW i, Message(t, i), i # NoRow, NEW n,
           copies' = [copies EXCEPT ![<<i, 1>>] = n], UNCHANGED known
    PROVE  MessagesStay
<1>1. copies \in [Marker -> Nat]
  BY DEF IInv, Typed
<1>2. \A m \in Marker : m # <<i, 1>> => copies'[m] = copies[m]
  BY <1>1
<1>3. ~Result(<<i, 1>>[1])
  BY DEF Message, Result
<1>. QED BY <1>2, <1>3 DEF MessagesStay

LEMMA DeleteCompletes ==
    ASSUME IInv, Complete, NEW w \in Worker, Delete(w)
    PROVE  Complete' /\ Silent(rows, rows')
<1> DEFINE i == worker[w].row
<1> DEFINE msg == turn[rows[i].turn].msg
<1>1. worker[w].pc = "delete" /\ UNCHANGED <<rows, turn, volatile, known>>
  BY DEF Delete
<1>2. i \in DOMAIN rows /\ ~Result(i) /\ NoRow = NoRow
  BY <1>1, RowOfDelivery DEF Complete, Whole, Delivered
<1>3. \A v \in Worker : Acks(v) /\ Keeps(v)
  <2>1. CASE Acknowledge(w, NoRow)
    BY <1>1, <1>2, <2>1, AcknowledgeWell DEF Message
  <2>2. CASE Step(w, "retry") \/ Step(w, "fail")
    BY <1>1, <2>2, StepWell
  <2>. QED BY <2>1, <2>2 DEF Delete
<1>4. MessagesStay
  <2>1. CASE copies' = copies
    BY <1>1, <2>1, NoMessage
  <2>2. CASE Visible(msg) /\ copies' = [copies EXCEPT ![<<msg, 1>>] = @ - 1]
    <3>1. PICK m : m = msg
      OBVIOUS
    <3>2. PICK t : t = rows[i].turn
      OBVIOUS
    <3>3. t \in Turn
      <4>1. rows[i].kind # "notice"
        BY <1>2 DEF Result
      <4>. QED BY <1>2, <3>2, <4>1 DEF IInv, Typed, Rows, Fits
    <3>4. Message(t, m) /\ m # NoRow
      BY <2>2, <3>1, <3>2, <3>3 DEF Complete, Attached, Visible
    <3>5. copies' = [copies EXCEPT ![<<m, 1>>] = copies[<<m, 1>>] - 1]
      BY <2>2, <3>1
    <3>. QED BY <1>1, <3>4, <3>5, RemovalStays
  <2>. QED BY <2>1, <2>2 DEF Delete
<1>. QED BY <1>1, <1>3, <1>4, DeliveryCompletes

LEMMA ReactCompletes ==
    ASSUME IInv, Complete, NEW w \in Worker,
           React(w) \/ AddReaction(w) \/ Refused(w) \/ Forbidden(w) \/ LeaseConflict(w) \/ LoseLease(w)
    PROVE  Complete' /\ Silent(rows, rows')
<1>1. worker[w].pc # "idle" /\ UNCHANGED <<rows, turn, volatile, copies, known>>
  BY DEF React, AddReaction, Refused, Forbidden, LeaseConflict, LoseLease, Delivering, discord
<1>2. \/ worker[w].pc \in {"react", "add"} /\ (Step(w, "add") \/ Acknowledge(w, NoRow))
      \/ Step(w, "retry") \/ Step(w, "fail") \/ Release(w)
  BY DEF React, AddReaction, Refused, Forbidden, LeaseConflict, LoseLease
<1>3. worker[w].pc \in {"react", "add"} => ~Result(worker[w].row)
  BY DEF Complete, Whole, Delivered
<1>4. \A v \in Worker : Acks(v) /\ Keeps(v)
  <2>1. CASE worker[w].pc \in {"react", "add"} /\ Step(w, "add")
    BY <1>1, <1>3, <2>1, StepWell
  <2>2. CASE worker[w].pc \in {"react", "add"} /\ Acknowledge(w, NoRow)
    BY <1>1, <1>3, <2>2, AcknowledgeWell DEF Message
  <2>3. CASE Step(w, "retry") \/ Step(w, "fail")
    BY <1>1, <2>3, StepWell
  <2>4. CASE Release(w)
    BY <2>4, ReleaseWell
  <2>. QED BY <1>2, <2>1, <2>2, <2>3, <2>4
<1>. QED BY <1>1, <1>4, NoMessage, DeliveryCompletes

LEMMA LateRequestCompletes ==
    ASSUME IInv, Complete, NEW m \in Marker, LateRequest(m)
    PROVE  Complete' /\ Silent(rows, rows')
<1>1. m \in late /\ UNCHANGED <<rows, turn, worker, volatile>>
  BY DEF LateRequest
<1>2. m[1] \in DOMAIN rows
  BY <1>1 DEF IInv, Sound, Begun, Ready
<1>3. MessagesStay
  <2>1. CASE Land(m)
    BY <1>2, <2>1, LandsWhole
  <2>2. CASE UNCHANGED <<copies, known>>
    BY <2>2, NoMessage
  <2>. QED BY <2>1, <2>2 DEF LateRequest
<1>. QED BY <1>1, <1>3, OthersKeep, DeliveryCompletes

LEMMA RemoveMessageCompletes ==
    ASSUME IInv, Complete, NEW i, RemoveMessage(i)
    PROVE  Complete' /\ Silent(rows, rows')
<1>1. /\ i \in DOMAIN rows /\ rows[i].kind \in {"progress", "card"} /\ i # NoRow
      /\ copies' = [copies EXCEPT ![<<i, 1>>] = 0]
      /\ UNCHANGED <<rows, turn, worker, volatile, known>>
  BY DEF RemoveMessage, Visible
<1>2. PICK t : t = rows[i].turn
  OBVIOUS
<1>3. Message(t, i)
  BY <1>1, <1>2 DEF Message
<1>4. MessagesStay
  BY <1>1, <1>3, RemovalStays
<1>. QED BY <1>1, <1>4, OthersKeep, DeliveryCompletes


\* A transaction that ends deliveries.
LEMMA EndCompletes ==
    ASSUME IInv, Complete, \A v \in Worker : Acks(v) /\ Keeps(v), Grown(rows, rows'),
           NEW new, Enlists(rows, rows', new), turn' \in [Turn -> View],
           \A l \in new : Allows(turn', l),
           \A t \in Turn : More(turn[t], turn'[t]) /\ Counted(turn'[t]),
           \A t \in Turn : /\ turn'[t].msg = turn[t].msg \/ Message(t, turn'[t].msg)
                           /\ turn'[t].cardMsg = turn[t].cardMsg \/ Message(t, turn'[t].cardMsg),
           UNCHANGED <<copies, known>>, volatile' \subseteq volatile
    PROVE  Complete'
<1>1. Typed /\ Listed /\ Attached /\ Whole
  BY DEF IInv, Complete
<1>2. Listed'
  BY <1>1, ListedStays
<1>3. Attached'
  BY <1>1, AttachedStays DEF Acks
<1>4. Whole'
  BY <1>1, WholeStays
<1>. QED BY <1>2, <1>3, <1>4 DEF Complete

\* Such a transaction when the tables of Turns stay.
LEMMA EndKeepsTurns ==
    ASSUME IInv, Complete, \A v \in Worker : Acks(v) /\ Keeps(v), Grown(rows, rows'),
           NEW new, Enlists(rows, rows', new), \A l \in new : l[2] = "notice",
           UNCHANGED <<turn, copies, known>>, volatile' \subseteq volatile
    PROVE  Complete'
<1>1. Typed /\ Listed
  BY DEF IInv, Complete
<1>2. turn' \in [Turn -> View] /\ \A u \in Turn : More(turn[u], turn'[u]) /\ Counted(turn'[u])
  BY <1>1, TurnsKept
<1>3. \A l \in new : Allows(turn', l)
  BY DEF Allows
<1>. QED BY <1>2, <1>3, EndCompletes

\* Such a transaction when the tables of one Turn change, but not its revisions.
LEMMA EndMovesTurn ==
    ASSUME IInv, Complete, \A v \in Worker : Acks(v) /\ Keeps(v), Grown(rows, rows'),
           NEW t \in Turn, turn[t].stage # "none", NEW v \in View, turn' = [turn EXCEPT ![t] = v],
           v.stage = turn[t].stage, v.rev = turn[t].rev, v.card = turn[t].card, v.toggles = turn[t].toggles,
           turn[t].cleanup # "active" => v.cleanup # "active",
           v.msg = turn[t].msg \/ Message(t, v.msg), v.cardMsg = turn[t].cardMsg \/ Message(t, v.cardMsg),
           NEW new, Enlists(rows, rows', new), \A l \in new : l[1] = t /\ Permits(v, l[2], l[3]),
           UNCHANGED <<copies, known>>, volatile' \subseteq volatile
    PROVE  Complete'
<1>1. Typed /\ Listed
  BY DEF IInv, Complete
<1>2. turn[t] \in View /\ turn \in [Turn -> View] /\ Counted(turn[t])
  BY <1>1 DEF Typed, Listed
<1>3. turn[t].rev \in Nat /\ turn[t].card \in Nat
  BY <1>2 DEF View
<1>4. v.rev <= v.rev /\ v.card <= v.card
  BY <1>3
<1>5. More(turn[t], v)
  BY <1>4 DEF More
<1>6. Counted(v)
  BY <1>2 DEF Counted
<1>7. /\ turn' \in [Turn -> View] /\ turn'[t] = v
      /\ \A u \in Turn : More(turn[u], turn'[u]) /\ Counted(turn'[u])
  BY <1>1, <1>5, <1>6, TurnListed
<1>8. \A l \in new : Allows(turn', l)
  BY <1>7 DEF Allows
<1>9. \A u \in Turn : u # t => turn'[u] = turn[u]
  BY <1>2
<1>10. \A u \in Turn : /\ turn'[u].msg = turn[u].msg \/ Message(u, turn'[u].msg)
                       /\ turn'[u].cardMsg = turn[u].cardMsg \/ Message(u, turn'[u].cardMsg)
  BY <1>7, <1>9
<1>. QED BY <1>7, <1>8, <1>10, EndCompletes

\* The same for a delivery that adds no row.
LEMMA QuietKeepsTurns ==
    ASSUME IInv, Complete, \A v \in Worker : Acks(v) /\ Keeps(v), Grown(rows, rows'),
           Enlists(rows, rows', {}), turn' = turn, copies' = copies, known' = known, volatile' \subseteq volatile
    PROVE  Complete'
<1> DEFINE new == {}
<1>1. Enlists(rows, rows', new) /\ \A l \in new : l[2] = "notice"
  OBVIOUS
<1> HIDE DEF new
<1>. QED BY <1>1, EndKeepsTurns

LEMMA QuietMovesTurn ==
    ASSUME IInv, Complete, \A v \in Worker : Acks(v) /\ Keeps(v), Grown(rows, rows'),
           NEW t \in Turn, turn[t].stage # "none", NEW v \in View, turn' = [turn EXCEPT ![t] = v],
           v.stage = turn[t].stage, v.rev = turn[t].rev, v.card = turn[t].card, v.toggles = turn[t].toggles,
           turn[t].cleanup # "active" => v.cleanup # "active",
           v.msg = turn[t].msg \/ Message(t, v.msg), v.cardMsg = turn[t].cardMsg \/ Message(t, v.cardMsg),
           Enlists(rows, rows', {}), copies' = copies, known' = known, volatile' \subseteq volatile
    PROVE  Complete'
<1> DEFINE new == {}
<1>1. Enlists(rows, rows', new) /\ \A l \in new : l[1] = t /\ Permits(v, l[2], l[3])
  OBVIOUS
<1> HIDE DEF new
<1>. QED BY <1>1, EndMovesTurn

LEMMA AckCompletes ==
    ASSUME IInv, Complete, NEW w \in Worker, Ack(w)
    PROVE  Complete'
<1> DEFINE i == worker[w].row
<1> DEFINE t == rows[i].turn
<1>1. /\ worker[w].pc = "ack" /\ Holds(w) /\ AckRow(w, i) /\ Release(w)
      /\ UNCHANGED <<copies, known>> /\ Grown(rows, rows')
  BY AckGoes DEF Ack, discord, Goes
<1>2. Rows(rows) /\ i \in DOMAIN rows /\ rows[i].state = "sending"
  BY <1>1, HeldRow
<1>3. Enlists(rows, Sent(i), {})
  BY <1>2, SentEnlists
<1>4. \A v \in Worker : Acks(v) /\ Keeps(v)
  BY <1>1, ReleaseWell
<1>5. rows[i].kind # "notice" =>
        /\ t \in Turn /\ turn[t] \in View /\ turn \in [Turn -> View] /\ turn[t].stage # "none"
  BY <1>2, RowOfTurn DEF IInv, Typed, Complete
<1>6. volatile' \subseteq volatile
  BY <1>1 DEF AckRow
<1>7. CASE rows' = Sent(i) /\ turn' = turn
  <2>1. Enlists(rows, rows', {})
    BY <1>3, <1>7
  <2>. QED BY <1>1, <1>4, <1>6, <1>7, <2>1, QuietKeepsTurns
<1>8. CASE rows[i].kind \in {"progress", "card"} /\ rows' = Sent(i) /\ turn' = Bind(i, worker[w].got)
  <2>1. Message(t, worker[w].got)
    BY <1>1, <1>8 DEF Complete, Attached
  <2>2. worker[w].got \in Nat
    BY DEF IInv, Typed, Task
  <2>3. CASE rows[i].kind = "card"
    <3> DEFINE v == [turn[t] EXCEPT !.cardMsg = worker[w].got]
    <3>1. turn' = [turn EXCEPT ![t].cardMsg = worker[w].got]
      BY <1>8, <2>3 DEF Bind
    <3> HIDE DEF t
    <3>2. /\ v \in View /\ turn' = [turn EXCEPT ![t] = v] /\ v.cardMsg = worker[w].got
          /\ v.stage = turn[t].stage /\ v.rev = turn[t].rev /\ v.card = turn[t].card
          /\ v.toggles = turn[t].toggles /\ v.msg = turn[t].msg /\ v.cleanup = turn[t].cleanup
      BY <1>5, <1>8, <2>2, <3>1 DEF View
    <3> HIDE DEF v
    <3>3. Enlists(rows, rows', {})
      BY <1>3, <1>8
    <3> HIDE DEF i
    <3>. QED BY <1>1, <1>4, <1>5, <1>6, <1>8, <2>1, <3>2, <3>3, QuietMovesTurn
  <2>4. CASE rows[i].kind # "card"
    <3> DEFINE v == [turn[t] EXCEPT !.msg = worker[w].got]
    <3>1. turn' = [turn EXCEPT ![t].msg = worker[w].got]
      BY <1>8, <2>4 DEF Bind
    <3> HIDE DEF t
    <3>2. /\ v \in View /\ turn' = [turn EXCEPT ![t] = v] /\ v.msg = worker[w].got
          /\ v.stage = turn[t].stage /\ v.rev = turn[t].rev /\ v.card = turn[t].card
          /\ v.toggles = turn[t].toggles /\ v.cardMsg = turn[t].cardMsg /\ v.cleanup = turn[t].cleanup
      BY <1>5, <1>8, <2>2, <3>1 DEF View
    <3> HIDE DEF v
    <3>3. Enlists(rows, rows', {})
      BY <1>3, <1>8
    <3> HIDE DEF i
    <3>. QED BY <1>1, <1>4, <1>5, <1>6, <1>8, <2>1, <3>2, <3>3, QuietMovesTurn
  <2>. QED BY <2>3, <2>4
<1>9. CASE /\ rows[i].kind = "delete" /\ rows' = Sent(i)
           /\ turn' = [turn EXCEPT ![t].msg = NoRow, ![t].cleanup = "deleted"]
  <2> HIDE DEF t
  <2> DEFINE v == [turn[t] EXCEPT !.msg = NoRow, !.cleanup = "deleted"]
  <2>1. /\ v \in View /\ turn' = [turn EXCEPT ![t] = v] /\ v.msg = NoRow /\ v.cleanup = "deleted"
        /\ v.stage = turn[t].stage /\ v.rev = turn[t].rev /\ v.card = turn[t].card
        /\ v.toggles = turn[t].toggles /\ v.cardMsg = turn[t].cardMsg
    BY <1>5, <1>9 DEF View, NoRow
  <2> HIDE DEF v
  <2>2. Message(t, v.msg)
    BY <2>1 DEF Message
  <2>3. Enlists(rows, rows', {})
    BY <1>3, <1>9
  <2> HIDE DEF i
  <2>. QED BY <1>1, <1>4, <1>5, <1>6, <1>9, <2>1, <2>2, <2>3, QuietMovesTurn
<1>10. CASE rows[i].kind = "final" /\ rows' = Sent(i) /\ turn' = [turn EXCEPT ![t].cleanup = "deleted"]
  <2> HIDE DEF t
  <2> DEFINE v == [turn[t] EXCEPT !.cleanup = "deleted"]
  <2>1. /\ v \in View /\ turn' = [turn EXCEPT ![t] = v] /\ v.msg = turn[t].msg /\ v.cleanup = "deleted"
        /\ v.stage = turn[t].stage /\ v.rev = turn[t].rev /\ v.card = turn[t].card
        /\ v.toggles = turn[t].toggles /\ v.cardMsg = turn[t].cardMsg
    BY <1>5, <1>10 DEF View
  <2> HIDE DEF v
  <2>2. Enlists(rows, rows', {})
    BY <1>3, <1>10
  <2> HIDE DEF i
  <2>. QED BY <1>1, <1>4, <1>5, <1>6, <1>10, <2>1, <2>2, QuietMovesTurn
<1>11. CASE /\ rows[i].kind = "final" /\ turn[t].cleanup = "active"
            /\ rows' = Append(Sent(i), NewRow(t, "delete", "delete", i, "nothing"))
            /\ turn' = [turn EXCEPT ![t].cleanup = "delete_pending"]
  <2> DEFINE r == NewRow(t, "delete", "delete", i, "nothing")
  <2>1. rows' = Append(Sent(i), r)
    BY <1>11
  <2>2. Label(r) = <<t, "delete", 0>>
    BY DEF NewRow, Label, What, Nth
  <2>3. Rows(Sent(i)) /\ Labels(Sent(i)) \subseteq Labels(rows) /\ i \in DOMAIN Sent(i)
    BY <1>2, <1>3 DEF Enlists
  <2>4. t \in Turn
    BY <1>5, <1>11
  <2> HIDE DEF t, i
  <2>5. Label(r) \notin Labels(Sent(i))
    <3>1. ~Permits(turn[t], "delete", 0)
      BY <1>11 DEF Permits
    <3> HIDE DEF r
    <3>. QED BY <2>2, <2>3, <3>1, Fresh DEF Complete
  <2>6. Enlists(Sent(i), Append(Sent(i), r), {Label(r)})
    <3>1. "nothing" \in Shows /\ "delete" \in Kind \ {"notice"}
      BY DEF Shows, Kind
    <3>. QED BY <2>3, <2>4, <2>5, <3>1, NewRowEnlists
  <2> HIDE DEF r
  <2>7. Enlists(rows, rows', {} \cup {Label(r)})
    BY <1>3, <2>1, <2>6, EnlistsTransitive
  <2> DEFINE v == [turn[t] EXCEPT !.cleanup = "delete_pending"]
  <2>8. /\ v \in View /\ turn' = [turn EXCEPT ![t] = v] /\ v.msg = turn[t].msg /\ v.cleanup = "delete_pending"
        /\ v.stage = turn[t].stage /\ v.rev = turn[t].rev /\ v.card = turn[t].card
        /\ v.toggles = turn[t].toggles /\ v.cardMsg = turn[t].cardMsg
    BY <1>5, <1>11 DEF View
  <2> HIDE DEF v
  <2> DEFINE new == {} \cup {Label(r)}
  <2>9. \A l \in new : l[1] = t /\ Permits(v, l[2], l[3])
    BY <2>2, <2>8 DEF Permits
  <2>10. Enlists(rows, rows', new)
    BY <2>7
  <2> HIDE DEF new
  <2>. QED BY <1>1, <1>4, <1>5, <1>6, <1>11, <2>8, <2>9, <2>10, EndMovesTurn
<1>12. \/ rows' = Sent(i) /\ turn' = turn
       \/ rows[i].kind \in {"progress", "card"} /\ rows' = Sent(i) /\ turn' = Bind(i, worker[w].got)
       \/ /\ rows[i].kind = "delete" /\ rows' = Sent(i)
          /\ turn' = [turn EXCEPT ![t].msg = NoRow, ![t].cleanup = "deleted"]
       \/ rows[i].kind = "final" /\ rows' = Sent(i) /\ turn' = [turn EXCEPT ![t].cleanup = "deleted"]
       \/ /\ rows[i].kind = "final" /\ turn[t].cleanup = "active"
          /\ rows' = Append(Sent(i), NewRow(t, "delete", "delete", i, "nothing"))
          /\ turn' = [turn EXCEPT ![t].cleanup = "delete_pending"]
  BY <1>1 DEF AckRow, CleanupAfter
<1>. QED BY <1>7, <1>8, <1>9, <1>10, <1>11, <1>12

\* What the acknowledgement says: every part is there, and no other row is sent.
LEMMA AckIsWhole ==
    ASSUME IInv, Complete, NEW w \in Worker, Ack(w), NEW i \in DOMAIN rows,
           rows[i].kind \in {"final", "notice"}, rows[i].state # "sent", rows'[i].state = "sent"
    PROVE  \A p \in Parts(i) : copies[<<i, p>>] > 0
<1> DEFINE k == worker[w].row
<1>1. worker[w].pc = "ack" /\ Holds(w) /\ AckRow(w, k)
  BY DEF Ack
<1>2. Rows(rows) /\ k \in DOMAIN rows /\ rows[k].state = "sending"
  BY <1>1, HeldRow
<1>3. rows'[i] = Sent(k)[i]
  <2>1. Rows(Sent(k)) /\ DOMAIN Sent(k) = DOMAIN rows
    BY <1>2, SentGrows DEF Grown
  <2>2. PICK qs : qs = Sent(k)
    OBVIOUS
  <2>3. \A r : Append(qs, r)[i] = qs[i]
    <3>1. Len(qs) \in Nat /\ DOMAIN qs = 1..Len(qs)
      BY <2>1, <2>2, RowsHave
    <3>. QED BY <2>1, <2>2, <3>1
  <2>4. rows' = qs \/ \E r : rows' = Append(qs, r)
    BY <1>1, <2>2 DEF AckRow, CleanupAfter
  <2>. QED BY <2>2, <2>3, <2>4
<1>4. i = k
  BY <1>2, <1>3, SentEnlists
<1>. QED BY <1>1, <1>2, <1>4 DEF Complete, Whole, Delivered, Result

LEMMA RetryCompletes ==
    ASSUME IInv, Complete, NEW w \in Worker, Retry(w)
    PROVE  Complete' /\ Silent(rows, rows')
<1> DEFINE i == worker[w].row
<1>1. /\ worker[w].pc # "idle" /\ Holds(w) /\ Release(w) /\ UNCHANGED <<turn, copies, known, volatile>>
      /\ rows' = [rows EXCEPT ![i].state = "retry", ![i].owner = NoWorker, ![i].expired = FALSE]
      /\ Grown(rows, rows')
  BY RetryGoes DEF Retry, discord, Goes
<1>2. Rows(rows) /\ i \in DOMAIN rows /\ rows[i].state = "sending"
  BY <1>1, HeldRow
<1>3. Enlists(rows, rows', {}) /\ Silent(rows, rows')
  <2>1. "retry" \in {"sent", "retry", "dead_letter"} /\ "retry" # "sent"
    OBVIOUS
  <2>2. rows' = [rows EXCEPT ![i].state = "retry", ![i].owner = NoWorker, ![i].expired = FALSE]
    BY <1>1
  <2> HIDE DEF i
  <2>. QED BY <1>2, <2>1, <2>2, EndEnlists
<1>4. \A v \in Worker : Acks(v) /\ Keeps(v)
  BY <1>1, ReleaseWell
<1> HIDE DEF i
<1>. QED BY <1>1, <1>3, <1>4, QuietKeepsTurns

LEMMA FailCompletes ==
    ASSUME IInv, Complete, NEW w \in Worker, Fail(w)
    PROVE  Complete' /\ Silent(rows, rows')
<1> DEFINE i == worker[w].row
<1> DEFINE t == rows[i].turn
<1>1. /\ worker[w].pc # "idle" /\ Holds(w) /\ Release(w) /\ UNCHANGED <<copies, known, volatile>>
      /\ rows' = FailedRows(i) /\ Grown(rows, rows')
      /\ turn' = IF rows[i].kind = "delete" THEN [turn EXCEPT ![t].cleanup = "delete_failed"] ELSE turn
  BY FailGoes DEF Fail, discord, Goes
<1>2. Rows(rows) /\ i \in DOMAIN rows /\ rows[i].state = "sending"
  BY <1>1, HeldRow
<1>3. Enlists(rows, rows', {<<0, "notice", 0>>}) /\ Silent(rows, rows')
  BY <1>1, <1>2, FailedEnlists
<1>4. \A v \in Worker : Acks(v) /\ Keeps(v)
  BY <1>1, ReleaseWell
<1>5. CASE rows[i].kind # "delete"
  <2> DEFINE new == {<<0, "notice", 0>>}
  <2>1. \A l \in new : l[2] = "notice"
    OBVIOUS
  <2>2. Enlists(rows, rows', new)
    BY <1>3
  <2> HIDE DEF new
  <2>. QED BY <1>1, <1>3, <1>4, <1>5, <2>1, <2>2, EndKeepsTurns
<1>6. CASE rows[i].kind = "delete"
  <2>1. rows' = [rows EXCEPT ![i].state = "dead_letter", ![i].owner = NoWorker, ![i].expired = FALSE]
    BY <1>1, <1>6 DEF FailedRows
  <2>2. Enlists(rows, rows', {})
    <3>1. "dead_letter" \in {"sent", "retry", "dead_letter"}
      OBVIOUS
    <3> HIDE DEF i
    <3>. QED BY <1>2, <2>1, <3>1, EndEnlists
  <2>3. t \in Turn /\ turn[t] \in View /\ turn \in [Turn -> View] /\ turn[t].stage # "none"
    BY <1>2, <1>6, RowOfTurn DEF IInv, Typed, Complete
  <2>4. turn' = [turn EXCEPT ![t].cleanup = "delete_failed"]
    BY <1>1, <1>6
  <2> HIDE DEF t
  <2> DEFINE v == [turn[t] EXCEPT !.cleanup = "delete_failed"]
  <2>5. /\ v \in View /\ turn' = [turn EXCEPT ![t] = v] /\ v.msg = turn[t].msg /\ v.cleanup = "delete_failed"
        /\ v.stage = turn[t].stage /\ v.rev = turn[t].rev /\ v.card = turn[t].card
        /\ v.toggles = turn[t].toggles /\ v.cardMsg = turn[t].cardMsg
    BY <2>3, <2>4 DEF View
  <2> HIDE DEF v
  <2> HIDE DEF i
  <2>. QED BY <1>1, <1>3, <1>4, <2>2, <2>3, <2>5, QuietMovesTurn
<1>. QED BY <1>5, <1>6

LEMMA ExpireCompletes ==
    ASSUME IInv, Complete, NEW w \in Worker, Expire(w)
    PROVE  Complete' /\ Silent(rows, rows')
<1> DEFINE i == worker[w].row
<1>1. /\ worker[w].pc # "idle" /\ Holds(w) /\ UNCHANGED <<turn, worker, copies, known, volatile>>
      /\ rows' = [rows EXCEPT ![i].expired = TRUE] /\ Grown(rows, rows')
  BY ExpireGoes DEF Expire, discord, Goes
<1>2. Rows(rows) /\ i \in DOMAIN rows /\ rows[i] \in RowType
  BY <1>1, HeldRow, RowsHave
<1>3. ASSUME NEW j \in DOMAIN rows
      PROVE  Alike(rows[j], rows'[j]) /\ (rows'[j].state = "sent" => rows[j].state = "sent")
  <2>1. rows'[j] = IF j = i THEN [rows[i] EXCEPT !.expired = TRUE] ELSE rows[j]
    BY <1>1, <1>2
  <2>2. PICK r \in RowType : r = rows[i]
    BY <1>2
  <2>3. PICK q : q = [r EXCEPT !.expired = TRUE]
    OBVIOUS
  <2>4. Alike(r, q) /\ q.state = r.state
    BY <2>3 DEF RowType, Alike
  <2>. QED BY <2>1, <2>2, <2>3, <2>4 DEF Alike
<1>4. Enlists(rows, rows', {}) /\ Silent(rows, rows')
  <2>1. Rows(rows') /\ DOMAIN rows' = DOMAIN rows
    BY <1>1 DEF Grown
  <2>. QED BY <1>3, <2>1, AlikeEnlists DEF Silent
<1> HIDE DEF i
<1>. QED BY <1>1, <1>4, OthersKeep, QuietKeepsTurns

LEMMA RestartCompletes ==
    ASSUME IInv, Complete, Restart
    PROVE  Complete' /\ Silent(rows, rows')
<1>1. /\ worker' = [w \in Worker |-> Idle] /\ rows' = Recovered(rows) /\ volatile' = {}
      /\ UNCHANGED <<turn, copies, known>> /\ Rows(rows) /\ Grown(rows, rows')
  BY RestartGoes DEF Restart, Goes, IInv, Typed
<1>2. Enlists(rows, rows', {}) /\ Silent(rows, rows')
  BY <1>1, RecoveredEnlists
<1>3. \A v \in Worker : Acks(v) /\ Keeps(v)
  BY <1>1 DEF Idle, Acks, Keeps
<1>. QED BY <1>1, <1>2, <1>3, QuietKeepsTurns

\* A claim begins with the first part.
LEMMA ClaimCompletes ==
    ASSUME IInv, Complete, NEW w \in Worker, Claim(w)
    PROVE  Complete' /\ Silent(rows, rows')
<1>1. /\ worker[w].pc = "idle" /\ UNCHANGED <<turn, copies, volatile>> /\ Rows(rows)
      /\ Typed /\ Listed /\ Attached /\ Whole
  BY DEF Claim, IInv, Typed, Complete
<1>2. CASE rows' = Swept /\ UNCHANGED <<worker, known>>
  <2>1. Grown(rows, rows') /\ Enlists(rows, rows', {}) /\ Silent(rows, rows')
    BY <1>1, <1>2, SweptGrows, SweptEnlists
  <2>. QED BY <1>1, <1>2, <2>1, OthersKeep, QuietKeepsTurns
<1>3. CASE ~(rows' = Swept /\ UNCHANGED <<worker, known>>)
  <2>1. PICK i \in DOMAIN rows :
          /\ Claimable(i)
          /\ rows' = [Swept EXCEPT ![i].state = "sending", ![i].owner = w]
          /\ worker' = [worker EXCEPT ![w] = [pc |-> FirstStep(rows[i], StateNow(i)), row |-> i,
                                              from |-> StateNow(i), part |-> 1, got |-> i]]
          /\ TimePasses(i)
    BY <1>3 DEF Claim
  <2>2. Grown(rows, rows')
    BY <2>1, ClaimedIsReady
  <2>3. Enlists(rows, rows', {}) /\ Silent(rows, rows')
    <3>1. StateNow(i) \notin Settled
      BY <2>1 DEF Claimable, Open, Settled
    <3>. QED BY <1>1, <2>1, <3>1, ClaimEnlists
  <2>4. known' \subseteq known
    BY <2>1 DEF TimePasses
  <2>5. FirstStep(rows[i], StateNow(i)) # "ack"
    BY DEF FirstStep, Entry
  <2>6. Result(i) => FirstStep(rows[i], StateNow(i)) \in {"scan", "post"}
    <3>1. Fits(rows[i])
      BY <1>1 DEF Rows
    <3>. QED BY <3>1 DEF Result, Fits, FirstStep, Entry
  <2>7. \A p \in Parts(i) : ~(p < 1)
    <3>1. Parts(i) \subseteq Part /\ Part \subseteq Nat /\ \A p \in Part : 1 <= p
      BY OutboxAssumption DEF Parts, Part, Footer
    <3>2. ASSUME NEW p \in Parts(i)
          PROVE  ~(p < 1)
      <4>1. p \in Nat /\ 1 <= p
        BY <3>1
      <4>. QED BY <4>1
    <3>. QED BY <3>2
  <2>8. ASSUME NEW v \in Worker
        PROVE  Acks(v) /\ Keeps(v)
    <3>1. CASE v = w
      <4>1. /\ worker'[v].pc = FirstStep(rows[i], StateNow(i)) /\ worker'[v].row = i
            /\ worker'[v].part = 1
        BY <2>1, <3>1 DEF IInv, Typed
      <4>. QED BY <2>5, <2>6, <2>7, <4>1 DEF Acks, Keeps
    <3>2. CASE v # w
      <4>1. worker'[v] = worker[v]
        BY <2>1, <3>2 DEF IInv, Typed
      <4>. QED BY <1>1, <4>1 DEF Acks, Keeps, Attached
    <3>. QED BY <3>1, <3>2
  <2>9. Listed'
    <3>1. turn' \in [Turn -> View] /\ \A u \in Turn : More(turn[u], turn'[u]) /\ Counted(turn'[u])
      BY <1>1, TurnsKept
    <3>. QED BY <1>1, <2>3, <3>1, ListedStays
  <2>10. Attached'
    BY <1>1, <2>2, <2>8, AttachedStays DEF Acks
  <2>11. Whole'
    BY <1>1, <2>2, <2>4, <2>8, WholeStays
  <2>. QED BY <2>3, <2>9, <2>10, <2>11 DEF Complete
<1>. QED BY <1>2, <1>3

LEMMA InitiallyComplete == Init => Complete
<1> SUFFICES ASSUME Init
             PROVE  Complete
  OBVIOUS
<1>1. DOMAIN rows = {} /\ known = {}
  BY DEF Init
<1>2. \A t \in Turn : /\ turn[t].stage = "none" /\ turn[t].rev = 0 /\ turn[t].card = 0
                      /\ turn[t].toggles = 0 /\ turn[t].cleanup = "active"
                      /\ turn[t].msg = NoRow /\ turn[t].cardMsg = NoRow
  BY DEF Init
<1>3. \A w \in Worker : worker[w].pc = "idle"
  BY DEF Init, Idle
<1>4. Listed
  <2>1. \A t \in Turn : Counted(turn[t])
    BY <1>2, OutboxAssumption DEF Counted
  <2>. QED BY <1>1, <2>1 DEF Listed, Distinct, Labels
<1>5. Attached
  BY <1>2, <1>3 DEF Attached, Message
<1>6. Whole
  BY <1>1, <1>3 DEF Whole, Delivered
<1>. QED BY <1>4, <1>5, <1>6 DEF Complete

\* Every step but an acknowledgement.
LEMMA OthersComplete ==
    ASSUME IInv, Complete, Next, \A w \in Worker : ~Ack(w)
    PROVE  Complete' /\ Silent(rows, rows')
<1>1. CASE Transactions
  BY <1>1, EnqueueCompletes, UpdateProgressCompletes, RenderCardCompletes, ToggleCardCompletes,
     TerminateCompletes DEF Transactions
<1>2. ASSUME NEW w \in Worker, Claim(w) \/ Deliver(w)
      PROVE  Complete' /\ Silent(rows, rows')
  BY <1>2, ClaimCompletes, ScanCompletes, PostCompletes, EditCompletes, DeleteCompletes, ReactCompletes,
     RetryCompletes, FailCompletes DEF Deliver
<1>3. CASE Environment
  BY <1>3, RestartCompletes, ExpireCompletes, LateRequestCompletes, RemoveMessageCompletes
     DEF Environment
<1>. QED BY <1>1, <1>2, <1>3 DEF Next

\* The second invariant: no two rows are for the same, a view names a message of
\* its own, and a delivery that goes on has posted or found the parts before.
THEOREM CompleteInvariant == Spec => []Complete
<1>1. IInv /\ Complete /\ [Next]_vars => Complete'
  <2> SUFFICES ASSUME IInv, Complete, [Next]_vars
               PROVE  Complete'
    OBVIOUS
  <2>1. ASSUME NEW w \in Worker, Ack(w)
        PROVE  Complete'
    BY <2>1, AckCompletes
  <2>2. CASE Next /\ \A w \in Worker : ~Ack(w)
    BY <2>2, OthersComplete
  <2>3. CASE UNCHANGED vars
    BY <2>3, OthersKeep, NoMessage, DeliveryCompletes DEF vars, discord
  <2>. QED BY <2>1, <2>2, <2>3
<1>. QED BY <1>1, InitiallyComplete, InductiveInvariant, PTL DEF Spec

\* No transaction ever needs a row beyond Row: one per kind and revision of a
\* Turn, and one notice (insert_outbox and its dedupe keys).
THEOREM RowsAreBounded == Spec => [](DOMAIN rows \subseteq Row)
<1>1. IInv /\ Complete => DOMAIN rows \subseteq Row
  BY RowsFit DEF IInv, Complete
<1>. QED BY <1>1, InductiveInvariant, CompleteInvariant, PTL

\* A row is acknowledged only when each of its messages is in Discord: a
\* reconciled result is not taken for complete because its first part was found.
THEOREM SentStaysWhole == Spec => SentIsWhole
<1> DEFINE Good ==
        \A i \in DOMAIN rows :
            rows[i].kind \in {"final", "notice"} /\ rows[i].state # "sent" /\ rows'[i].state = "sent"
            => \A p \in Parts(i) : copies[<<i, p>>] > 0
<1>1. IInv /\ Complete /\ [Next]_vars => [Good]_vars
  <2> SUFFICES ASSUME IInv, Complete, Next, NEW i \in DOMAIN rows,
                      rows[i].kind \in {"final", "notice"}, rows[i].state # "sent", rows'[i].state = "sent"
               PROVE  \A p \in Parts(i) : copies[<<i, p>>] > 0
    OBVIOUS
  <2>1. PICK w \in Worker : Ack(w)
    BY OthersComplete DEF Silent
  <2>. QED BY <2>1, AckIsWhole
<1>. QED BY <1>1, InductiveInvariant, CompleteInvariant, PTL DEF Spec, SentIsWhole

-----------------------------------------------------------------------------
(***************************************************************************)
(* The other types: who has a lease, and which markers there are.          *)
(***************************************************************************)
\* A row is being sent if and only if a worker has its lease.
Leased(r) == (r.state = "sending") = (r.owner # NoWorker)
Leases(rs) == \A i \in DOMAIN rs : Leased(rs[i])
Markers ==
    /\ dead \cup stalled \subseteq Row
    /\ known \cup buried \cup late \cup reported \subseteq Marker

LEMMA LeaseKept ==
    ASSUME NEW r \in RowType, Leased(r), NEW st \in RowState \ {"sending"}
    PROVE  /\ Leased(Moved(r, st, NoWorker))
           /\ r.state # "sending" => Leased([r EXCEPT !.state = st])
<1>1. Moved(r, st, NoWorker).state = st /\ Moved(r, st, NoWorker).owner = NoWorker
  BY DEF Moved, RowType
<1>2. [r EXCEPT !.state = st].state = st /\ [r EXCEPT !.state = st].owner = r.owner
  BY DEF RowType
<1>. QED BY <1>1, <1>2 DEF Leased

LEMMA AppendLeases ==
    ASSUME NEW rs, Rows(rs), Leases(rs), NEW t, NEW kind, NEW op, NEW dep, NEW shows
    PROVE  Leases(Append(rs, NewRow(t, kind, op, dep, shows)))
<1> DEFINE r == NewRow(t, kind, op, dep, shows)
<1>1. Leased(r)
  BY DEF Leased, NewRow
<1> HIDE DEF r
<1>2. rs \in Seq(RowType)
  BY DEF Rows
<1>3. /\ DOMAIN Append(rs, r) = DOMAIN rs \cup {Len(rs) + 1} /\ Append(rs, r)[Len(rs) + 1] = r
      /\ \A i \in DOMAIN rs : Append(rs, r)[i] = rs[i]
  BY <1>2
<1>. QED BY <1>1, <1>3 DEF Leases, r

LEMMA SupersedeLeases ==
    ASSUME NEW rs, Rows(rs), Leases(rs), NEW t, NEW kind, NEW states \in SUBSET (RowState \ {"sending"})
    PROVE  Leases(Supersede(rs, t, kind, states))
<1> DEFINE qs == Supersede(rs, t, kind, states)
<1>1. DOMAIN qs = DOMAIN rs
  BY DEF Supersede
<1>2. ASSUME NEW i \in DOMAIN rs
      PROVE  Leased(qs[i])
  <2>1. rs[i] \in RowType /\ Leased(rs[i]) /\ "superseded" \in RowState \ {"sending"}
    BY RowsHave DEF Leases, RowState, Settled
  <2>2. qs[i] = IF SameKey(rs[i], t, kind) /\ rs[i].state \in states
                THEN [rs[i] EXCEPT !.state = "superseded"] ELSE rs[i]
    BY DEF Supersede
  <2> HIDE DEF qs
  <2>. QED BY <2>1, <2>2, LeaseKept
<1> HIDE DEF qs
<1>3. Leases(qs)
  BY <1>1, <1>2 DEF Leases
<1>. QED BY <1>3 DEF qs

LEMMA InsertReactionLeases ==
    ASSUME NEW rs, Rows(rs), Leases(rs), NEW t, NEW state
    PROVE  Leases(InsertReaction(rs, t, state))
<1>1. Open \in SUBSET (RowState \ {"sending"}) /\ Open \in SUBSET Open
  BY DEF Open, RowState, Settled
<1>2. Rows(Supersede(rs, t, "reaction", Open)) /\ Leases(Supersede(rs, t, "reaction", Open))
  BY <1>1, SupersedeLeases, SupersedeGrows DEF Grown
<1>. QED BY <1>2, AppendLeases DEF InsertReaction

LEMMA InsertCardLeases ==
    ASSUME NEW rs, Rows(rs), Leases(rs), NEW t, NEW rev
    PROVE  Leases(InsertCard(rs, t, rev))
<1>1. {"pending"} \in SUBSET (RowState \ {"sending"}) /\ {"pending"} \in SUBSET Open
  BY DEF Open, RowState, Settled
<1>2. Rows(Supersede(rs, t, "card", {"pending"})) /\ Leases(Supersede(rs, t, "card", {"pending"}))
  BY <1>1, SupersedeLeases, SupersedeGrows DEF Grown
<1>. QED BY <1>2, AppendLeases DEF InsertCard

LEMMA InsertProgressLeases ==
    ASSUME NEW rs, Rows(rs), Leases(rs), NEW t, NEW rev
    PROVE  Leases(InsertProgress(rs, t, rev))
<1> DEFINE k == Newest(Progress(rs, t))
<1>1. ASSUME NEW j, NEW qs, qs = [rs EXCEPT ![j].shows = rev]
      PROVE  Leases(qs)
  <2>1. ASSUME NEW i \in DOMAIN rs
        PROVE  Leased(qs[i])
    <3>1. rs[i] \in RowType /\ Leased(rs[i])
      BY RowsHave DEF Leases
    <3>2. qs[i] = IF i = j THEN [rs[i] EXCEPT !.shows = rev] ELSE rs[i]
      BY <1>1
    <3>3. [rs[i] EXCEPT !.shows = rev].state = rs[i].state /\ [rs[i] EXCEPT !.shows = rev].owner = rs[i].owner
      BY <3>1 DEF RowType
    <3>. QED BY <3>1, <3>2, <3>3 DEF Leased
  <2>. QED BY <1>1, <2>1 DEF Leases
<1>2. Leases(Append(rs, NewRow(t, "progress", "edit", NoRow, rev)))
  BY AppendLeases
<1>3. \/ InsertProgress(rs, t, rev) = [rs EXCEPT ![k].shows = rev]
      \/ InsertProgress(rs, t, rev) = Append(rs, NewRow(t, "progress", "edit", NoRow, rev))
  BY DEF InsertProgress
<1> HIDE DEF k
<1>. QED BY <1>1, <1>2, <1>3

LEMMA TransactionLeases ==
    ASSUME IInv, Leases(rows), Transactions
    PROVE  Leases(rows')
<1>0. Rows(rows) /\ turn \in [Turn -> View] /\ Shown
  BY DEF IInv, Typed, Sound
<1>. SUFFICES ASSUME NEW t \in Turn,
                     Enqueue(t) \/ UpdateProgress(t) \/ RenderCard(t) \/ ToggleCard(t) \/ Terminate(t)
              PROVE  Leases(rows')
  BY DEF Transactions
<1>1. CASE Enqueue(t)
  <2>1. Leases(InsertReaction(rows, t, "waiting")) /\ Rows(InsertReaction(rows, t, "waiting"))
    BY <1>0, InsertReactionLeases, InsertReactionGrows DEF Grown
  <2>2. rows' = Append(InsertReaction(rows, t, "waiting"), NewRow(t, "progress", "send", NoRow, 1))
    BY <1>1 DEF Enqueue
  <2>. QED BY <2>1, <2>2, AppendLeases
<1>2. CASE UpdateProgress(t)
  BY <1>0, <1>2, InsertProgressLeases DEF UpdateProgress
<1>3. CASE RenderCard(t) \/ ToggleCard(t)
  BY <1>0, <1>3, InsertCardLeases DEF RenderCard, ToggleCard
<1>4. CASE Terminate(t)
  <2>1. PICK outcome \in {"completed", "failed"} :
          rows' = InsertFinal(InsertProgress(InsertReaction(FinishCard(rows, t), t, outcome),
                                             t, turn[t].rev + 1), t, outcome)
    BY <1>4 DEF Terminate
  <2>2. turn[t].rev + 1 \in Nat /\ turn[t].card + 1 \in Nat
    BY <1>0 DEF View
  <2>3. PICK a : a = FinishCard(rows, t)
    OBVIOUS
  <2>4. Rows(a) /\ Leases(a)
    BY <1>0, <2>2, <2>3, InsertCardGrows, InsertCardLeases DEF FinishCard, Grown
  <2>5. PICK b : b = InsertReaction(a, t, outcome)
    OBVIOUS
  <2>6. Rows(b) /\ Leases(b)
    BY <2>4, <2>5, InsertReactionGrows, InsertReactionLeases DEF Grown
  <2>7. PICK c : c = InsertProgress(b, t, turn[t].rev + 1)
    OBVIOUS
  <2>8. Rows(c) /\ Leases(c)
    BY <2>2, <2>6, <2>7, InsertProgressGrows, InsertProgressLeases DEF Grown
  <2>9. rows' = InsertFinal(c, t, outcome)
    BY <2>1, <2>3, <2>5, <2>7
  <2>. QED BY <2>8, <2>9, AppendLeases DEF InsertFinal
<1>. QED BY <1>1, <1>2, <1>3, <1>4

LEMMA SweptLeases ==
    ASSUME Rows(rows), Leases(rows)
    PROVE  Leases(Swept) /\ \A i \in DOMAIN Swept : i \in DOMAIN rows
<1>1. DOMAIN Swept = DOMAIN rows
  BY SweptGrows
<1>2. ASSUME NEW i \in DOMAIN rows
      PROVE  Leased(Swept[i])
  <2>1. rows[i] \in RowType /\ Leased(rows[i])
    BY RowsHave DEF Leases
  <2>2. Swept[i] = IF i \in Expired \cup Dropped THEN Moved(rows[i], StateNow(i), NoWorker) ELSE rows[i]
    BY DEF Swept, Moved
  <2>3. i \in Expired \cup Dropped => StateNow(i) \in RowState \ {"sending"}
    BY DEF StateNow, RowState, Settled, Open
  <2>. QED BY <2>1, <2>2, <2>3, LeaseKept
<1>. QED BY <1>1, <1>2 DEF Leases

\* The end of a delivery gives the lease back.
LEMMA EndLeases ==
    ASSUME Rows(rows), Leases(rows), NEW i \in DOMAIN rows, NEW st \in {"sent", "retry", "dead_letter"},
           NEW qs, qs = [rows EXCEPT ![i].state = st, ![i].owner = NoWorker, ![i].expired = FALSE]
    PROVE  Leases(qs)
<1>1. rows[i] \in RowType /\ Leased(rows[i]) /\ st \in RowState \ {"sending"}
  BY RowsHave DEF Leases, RowState, Settled, Open
<1>2. /\ qs[i] = Moved(rows[i], st, NoWorker) /\ DOMAIN qs = DOMAIN rows
      /\ \A j \in DOMAIN rows \ {i} : qs[j] = rows[j]
  BY DEF Moved
<1>3. Leased(qs[i])
  BY <1>1, <1>2, LeaseKept
<1>. QED BY <1>2, <1>3 DEF Leases

LEMMA SentLeases ==
    ASSUME Rows(rows), Leases(rows), NEW i \in DOMAIN rows, rows[i].state = "sending"
    PROVE  Leases(Sent(i))
<1> DEFINE rs == [rows EXCEPT ![i].state = "sent", ![i].owner = NoWorker, ![i].expired = FALSE]
<1>1. Leases(rs) /\ Grown(rows, rs)
  BY EndLeases, EndGrows
<1>2. Sent(i) = Compacted(rs, i)
  BY DEF Sent
<1> HIDE DEF rs
<1>3. Rows(rs)
  BY <1>1 DEF Grown
<1>4. PICK qs : qs = Compacted(rs, i)
  OBVIOUS
<1>5. DOMAIN qs = DOMAIN rs
  BY <1>4 DEF Compacted
<1>6. ASSUME NEW j \in DOMAIN rs
      PROVE  Leased(qs[j])
  <2>1. rs[j] \in RowType /\ Leased(rs[j]) /\ "superseded" \in RowState \ {"sending"}
    BY <1>1, <1>3, RowsHave DEF Leases, RowState, Settled
  <2>2. qs[j] = rs[j] \/ (qs[j] = [rs[j] EXCEPT !.state = "superseded"] /\ rs[j].state # "sending")
    BY <1>4 DEF Compacted, Settled
  <2>. QED BY <2>1, <2>2, LeaseKept
<1>. QED BY <1>2, <1>4, <1>5, <1>6 DEF Leases

\* Each step of a delivery.
LEMMA DeliveryLeases ==
    ASSUME IInv, Leases(rows), NEW w \in Worker, Claim(w) \/ Deliver(w) \/ Expire(w)
    PROVE  Leases(rows')
<1>0. Rows(rows)
  BY DEF IInv, Typed
<1> DEFINE i == worker[w].row
<1>1. CASE Claim(w)
  <2>1. Leases(Swept) /\ Rows(Swept)
    BY <1>0, SweptLeases, SweptGrows DEF Grown
  <2>2. CASE rows' = Swept
    BY <2>1, <2>2
  <2>3. CASE \E k \in DOMAIN rows : rows' = [Swept EXCEPT ![k].state = "sending", ![k].owner = w]
    <3>1. PICK k \in DOMAIN rows : rows' = [Swept EXCEPT ![k].state = "sending", ![k].owner = w]
      BY <2>3
    <3>2. w # NoWorker /\ DOMAIN Swept = DOMAIN rows
      BY <1>0, OutboxAssumption, SweptGrows
    <3>3. PICK r \in RowType : r = Swept[k]
      BY <2>1, <3>2, RowsHave
    <3>4. PICK q : q = [[r EXCEPT !.state = "sending"] EXCEPT !.owner = w]
      OBVIOUS
    <3>5. q.state = "sending" /\ q.owner = w
      BY <3>4 DEF RowType
    <3>6. /\ rows'[k] = q /\ DOMAIN rows' = DOMAIN Swept
          /\ \A j \in DOMAIN Swept \ {k} : rows'[j] = Swept[j]
      BY <3>1, <3>2, <3>3, <3>4
    <3>7. Leased(q)
      BY <3>2, <3>5 DEF Leased
    <3>. QED BY <2>1, <3>6, <3>7 DEF Leases
  <2>. QED BY <1>1, <2>2, <2>3 DEF Claim
<1>2. CASE Expire(w)
  <2>1. /\ worker[w].pc # "idle" /\ Holds(w) /\ rows' = [rows EXCEPT ![i].expired = TRUE]
    BY <1>2 DEF Expire
  <2>2. i \in DOMAIN rows
    BY <2>1, HeldRow
  <2>3. rows[i] \in RowType /\ Leased(rows[i])
    BY <1>0, <2>2, RowsHave DEF Leases
  <2> HIDE DEF i
  <2>4. PICK r \in RowType : r = rows[i]
    BY <2>3
  <2>5. PICK q : q = [r EXCEPT !.expired = TRUE]
    OBVIOUS
  <2>6. q.state = r.state /\ q.owner = r.owner
    BY <2>5 DEF RowType
  <2>7. rows'[i] = q /\ DOMAIN rows' = DOMAIN rows /\ \A j \in DOMAIN rows \ {i} : rows'[j] = rows[j]
    BY <2>1, <2>2, <2>4, <2>5
  <2>. QED BY <2>3, <2>4, <2>6, <2>7 DEF Leases, Leased
<1>3. CASE Ack(w)
  <2>1. Holds(w) /\ worker[w].pc # "idle" /\ AckRow(w, i)
    BY <1>3 DEF Ack
  <2>2. i \in DOMAIN rows /\ rows[i].state = "sending"
    BY <2>1, HeldRow
  <2>3. Leases(Sent(i)) /\ Rows(Sent(i))
    BY <1>0, <2>2, SentLeases, SentGrows DEF Grown
  <2>4. rows' = Sent(i) \/ rows' = Append(Sent(i), NewRow(rows[i].turn, "delete", "delete", i, "nothing"))
    BY <2>1 DEF AckRow, CleanupAfter
  <2> HIDE DEF i
  <2>. QED BY <2>3, <2>4, AppendLeases
<1>4. CASE Retry(w)
  <2>1. /\ worker[w].pc # "idle" /\ Holds(w)
        /\ rows' = [rows EXCEPT ![i].state = "retry", ![i].owner = NoWorker, ![i].expired = FALSE]
    BY <1>4 DEF Retry
  <2>2. i \in DOMAIN rows
    BY <2>1, HeldRow
  <2>3. "retry" \in {"sent", "retry", "dead_letter"}
    OBVIOUS
  <2> HIDE DEF i
  <2>. QED BY <1>0, <2>1, <2>2, <2>3, EndLeases
<1>5. CASE Fail(w)
  <2>1. worker[w].pc # "idle" /\ Holds(w) /\ rows' = FailedRows(i)
    BY <1>5 DEF Fail
  <2>2. i \in DOMAIN rows /\ rows[i].state = "sending"
    BY <2>1, HeldRow
  <2>3. "dead_letter" \in {"sent", "retry", "dead_letter"}
    OBVIOUS
  <2> HIDE DEF i
  <2>4. PICK rs : rs = [rows EXCEPT ![i].state = "dead_letter", ![i].owner = NoWorker, ![i].expired = FALSE]
    OBVIOUS
  <2>5. Leases(rs) /\ Grown(rows, rs)
    BY <1>0, <2>2, <2>3, <2>4, EndLeases, EndGrows
  <2>6. rows' = rs \/ rows' = Append(rs, NewRow(0, "notice", "send", NoRow, "unavailable"))
    BY <2>1, <2>4 DEF FailedRows, InsertNotice
  <2>. QED BY <2>5, <2>6, AppendLeases DEF Grown
<1>6. CASE UNCHANGED rows
  BY <1>6
<1>. QED BY <1>1, <1>2, <1>3, <1>4, <1>5, <1>6
         DEF Deliver, Scan, Post, Edit, Delete, React, AddReaction, Refused, Forbidden,
             LeaseConflict, LoseLease

LEMMA OtherLeases ==
    ASSUME IInv, Leases(rows), Environment
    PROVE  Leases(rows')
<1>0. Rows(rows)
  BY DEF IInv, Typed
<1>1. CASE rows' = Recovered(rows)
  <2>1. ASSUME NEW i \in DOMAIN rows
        PROVE  Leased(rows'[i])
    <3>1. rows[i] \in RowType /\ Leased(rows[i]) /\ "reconciling" \in RowState \ {"sending"}
      BY <1>0, RowsHave DEF Leases, RowState, Open
    <3>2. rows'[i] = IF rows[i].state = "sending" THEN Moved(rows[i], "reconciling", NoWorker) ELSE rows[i]
      BY <1>1 DEF Recovered, Moved
    <3>. QED BY <3>1, <3>2, LeaseKept
  <2>2. DOMAIN rows' = DOMAIN rows
    BY <1>1 DEF Recovered
  <2>. QED BY <2>1, <2>2 DEF Leases
<1>2. CASE \E w \in Worker : Expire(w)
  BY <1>2, DeliveryLeases
<1>3. CASE UNCHANGED rows
  BY <1>3
<1>. QED BY <1>1, <1>2, <1>3 DEF Environment, Restart, LateRequest, RemoveMessage

LEMMA CurrentMarker ==
    ASSUME IInv, DOMAIN rows \subseteq Row, NEW w \in Worker, worker[w].pc # "idle"
    PROVE  Current(w) \in Marker /\ worker[w].row \in Row
<1>1. worker[w].row \in DOMAIN rows
  BY DEF IInv, Sound, Begun, Ready
<1>2. worker[w].part \in Part
  BY DEF IInv, Typed, Task
<1>. QED BY <1>1, <1>2 DEF Current, Marker

LEMMA MarkersStay ==
    ASSUME IInv, DOMAIN rows \subseteq Row, Markers, Next
    PROVE  Markers'
<1> DEFINE Same == UNCHANGED <<dead, stalled, known, buried, late, reported>>
<1>0. ASSUME Same  PROVE Markers'
  BY <1>0 DEF Markers
<1>1. CASE Transactions
  BY <1>1 DEF Transactions, Enqueue, UpdateProgress, RenderCard, ToggleCard, Terminate, discord, Markers
<1>2. ASSUME NEW w \in Worker, Claim(w) \/ Deliver(w)
      PROVE  Markers'
  <2>1. CASE Claim(w)
    <3>1. UNCHANGED <<late, reported, dead, stalled>>
      BY <2>1 DEF Claim
    <3>2. known' \subseteq known /\ buried' \subseteq buried \cup Marker
      BY <2>1 DEF Claim, TimePasses, Posted
    <3>. QED BY <3>1, <3>2 DEF Markers
  <2>2. CASE Scan(w) \/ Post(w) \/ LoseLease(w)
    <3>1. worker[w].pc # "idle"
      BY <2>2 DEF Scan, Post, LoseLease, Delivering
    <3>2. Current(w) \in Marker
      BY <3>1, CurrentMarker
    <3>3. /\ UNCHANGED <<dead, stalled, buried>> /\ known' \subseteq known \cup {Current(w)}
          /\ reported' \subseteq reported \cup {Current(w)} /\ late' \subseteq late \cup {Current(w)}
      BY <2>2 DEF Scan, Post, LoseLease, Land, Abandoned, discord
    <3>. QED BY <3>2, <3>3 DEF Markers
  <2>3. CASE Fail(w)
    <3>1. worker[w].row \in Row
      BY <2>3, CurrentMarker DEF Fail
    <3>. QED BY <2>3, <3>1 DEF Fail, discord, Markers
  <2>4. CASE Same
    BY <1>0, <2>4
  <2>. QED BY <1>2, <2>1, <2>2, <2>3, <2>4
           DEF Deliver, Edit, Delete, React, AddReaction, Refused, Forbidden, Ack, Retry,
               LeaseConflict, discord
<1>3. CASE Environment
  <2>1. CASE Restart
    <3>1. late' \subseteq late \cup Abandoned(Worker)
      BY <2>1 DEF Restart
    <3>2. Abandoned(Worker) \subseteq Marker
      BY CurrentMarker DEF Abandoned
    <3>. QED BY <2>1, <3>1, <3>2 DEF Restart, Markers
  <2>2. ASSUME NEW w \in Worker, Expire(w)
        PROVE  Markers'
    <3>1. worker[w].row \in Row
      BY <2>2, CurrentMarker DEF Expire
    <3>. QED BY <2>2, <3>1 DEF Expire, discord, Markers
  <2>3. ASSUME NEW m \in Marker, LateRequest(m)
        PROVE  Markers'
    BY <2>3 DEF LateRequest, Land, Markers
  <2>4. ASSUME NEW i \in Row, RemoveMessage(i)
        PROVE  Markers'
    BY <2>4 DEF RemoveMessage, Markers
  <2>. QED BY <1>3, <2>1, <2>2, <2>3, <2>4 DEF Environment
<1>. QED BY <1>1, <1>2, <1>3 DEF Next

\* Every row, view, delivery and marker keeps a value of its type.
THEOREM TypeCorrect == Spec => []TypeOK
<1>1. Init => Leases(rows) /\ Markers
  BY DEF Init, Leases, Markers
<1>2. /\ IInv /\ DOMAIN rows \subseteq Row /\ Leases(rows) /\ Markers /\ [Next]_vars
      => Leases(rows') /\ Markers'
  <2>1. CASE UNCHANGED vars
    BY <2>1 DEF vars, discord, Markers
  <2>2. CASE Next
    BY <2>2, TransactionLeases, DeliveryLeases, OtherLeases, MarkersStay DEF Next
  <2>. QED BY <2>1, <2>2
<1>3. Leases(rows)' <=> Leases(rows')
  BY DEF Leases
<1>4. IInv /\ DOMAIN rows \subseteq Row /\ Leases(rows) /\ Markers => TypeOK
  <2>. SUFFICES ASSUME IInv, DOMAIN rows \subseteq Row, Leases(rows), Markers
                PROVE  TypeOK
    OBVIOUS
  <2>1. ASSUME NEW i \in DOMAIN rows
        PROVE  /\ i \in Row
               /\ rows[i].state \in Settled \cup Open \cup {"sending"}
               /\ rows[i].owner \in Worker \cup {NoWorker}
               /\ rows[i].dep \in 0..(i - 1)
               /\ (rows[i].state = "sending") = (rows[i].owner # NoWorker)
    <3>1. rows[i] \in RowType /\ rows[i].dep < i /\ i \in Nat
      BY RowsHave DEF IInv, Typed, Rows
    <3>2. rows[i].dep \in Nat
      BY <3>1 DEF RowType
    <3>3. rows[i].dep \in 0..(i - 1)
      BY <3>1, <3>2
    <3>. QED BY <3>1, <3>3 DEF RowType, RowState, Leases, Leased
  <2>2. \A w \in Worker : worker[w].pc \in {"idle", "ack", "retry", "fail"} \cup Delivering
    BY DEF IInv, Typed, Task
  <2>3. \A m \in Marker : copies[m] \in Nat
    BY DEF IInv, Typed
  <2>. QED BY <2>1, <2>2, <2>3 DEF TypeOK, Markers
<1>. QED BY <1>1, <1>2, <1>3, <1>4, InductiveInvariant, RowsAreBounded, PTL DEF Spec
================================================================================
