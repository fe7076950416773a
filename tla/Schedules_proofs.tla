---------------------------- MODULE Schedules_proofs ----------------------------
(***************************************************************************)
(* Proofs about Schedules: types, that no occurrence is lost between the   *)
(* owner's cursor and the timer's, that a tick which goes on from an old   *)
(* snapshot fires nothing that has been moved, and that a deleted Schedule *)
(* stays so, for any number of Schedules, drafts, minutes and commands.    *)
(***************************************************************************)
EXTENDS Schedules, SequenceTheorems, TLAPS

\* Where the timer stands says what it holds; a version it has lost belongs to
\* a Schedule it still counts.
TimerHolds ==
    /\ timer.now <= clock
    /\ timer.pc # "batch" => timer.of = "none" /\ timer.todo = <<>>
    /\ timer.pc = "batch" => timer.of # "none"
    /\ timer.pc \notin {"tick", "batch"} => timer.snaps = {}
    /\ \A s \in behind : Counted(s)

\* A snapshot is of a Schedule that was due, and of its row unless somebody
\* else has written that.
Snapped(snap) ==
    /\ snap.row.st = "active" /\ snap.row.cur # NoDue /\ snap.row.cur <= timer.now
    /\ snap.row.def.kind = "once" => snap.row.cur = snap.row.def.at
    /\ timer.of # snap.of
    /\ snap.of \notin behind => sched[snap.of] = snap.row
    /\ sched[snap.of].st # "none"
    /\ \A other \in timer.snaps : other.of = snap.of => other = snap

\* The batch in work goes from the cursor on, occurrence by occurrence, as long
\* as nobody else has written the row.
Chained ==
    /\ timer.of # "none" => sched[timer.of].st # "none"
    /\ \A i \in 1..Len(timer.todo) : timer.todo[i].at <= timer.now
    /\ timer.of # "none" /\ timer.todo # <<>> /\ Accepts(timer.of) =>
          /\ timer.todo[1].at = sched[timer.of].cur
          /\ sched[timer.of].def.kind = "once" => Len(timer.todo) = 1
          /\ \A i \in 1..Len(timer.todo) :
                /\ timer.todo[i].next = NextOccurrence(sched[timer.of].def, timer.todo[i].at)
                /\ i < Len(timer.todo) => timer.todo[i].next = timer.todo[i + 1].at

\* The cursor of a Schedule, its definition and its fires.
Kept(s) ==
    /\ sched[s].st = "none" => s \notin review /\ \A o \in Minute : fires[s][o] = "none"
    /\ sched[s].st = "active" =>
          /\ sched[s].cur # NoDue
          /\ sched[s].def.kind = "once" => sched[s].cur = sched[s].def.at
          /\ \A o \in Minute : fires[s][o] # "none" => o < sched[s].cur
          /\ \A o \in Occurrences(sched[s].def) :
                since[s] <= o /\ o < sched[s].cur => fires[s][o] # "none"
    /\ sched[s].st = "completed" =>
          \A o \in Occurrences(sched[s].def) : since[s] <= o => fires[s][o] # "none"
    /\ \A o \in Minute : fires[s][o] # "none" => o <= clock

\* A draft that can be confirmed knows a next occurrence, after all fires.
Current(d) ==
    /\ draft[d].to # "none" =>
          /\ draft[d].next # NoDue
          /\ draft[d].def.kind = "once" => draft[d].next = draft[d].def.at
    /\ draft[d].to \in Schedule =>
          /\ sched[draft[d].to].st # "none"
          /\ \A o \in Minute : fires[draft[d].to][o] # "none" => o < draft[d].next

Sound ==
    /\ TimerHolds /\ Chained
    /\ \A snap \in timer.snaps : Snapped(snap)
    /\ \A s \in Schedule : Kept(s)
    /\ \A d \in Draft : Current(d)

IInv == TypeOK /\ Sound

\* What a step may do to the fires and to a deleted row.
Standing ==
    \A s \in Schedule :
        /\ \A o \in Minute : fires[s][o] = "none" /\ fires'[s][o] # "none" =>
               sched[s].st = "active" /\ sched[s].cur = o
        /\ sched[s].st = "deleted" => sched'[s] = sched[s] /\ fires'[s] = fires[s]

Drafts == [Draft -> [to : Schedule \cup {"none", "new"}, def : Definition \cup {NoRow.def},
                     next : 0..Horizon + 1]]

-----------------------------------------------------------------------------
(***************************************************************************)
(* What the helpers write.                                                 *)
(***************************************************************************)
LEMMA DefinitionTyped ==
    \A def \in Definition \cup {NoRow.def} :
        /\ def.kind \in {"cron", "once"} /\ def.at \in 0..Horizon + 1
        /\ def.kind = "once" => def.at # 0
BY SchedulesAssumption DEF Definition, NoRow

LEMMA FaultCounts == ASSUME TypeOK, NEW event, Fault(event) PROVE faults' \in 0..MaxFaults
BY SchedulesAssumption DEF TypeOK, Fault

LEMMA EditCounts == ASSUME TypeOK, Edit PROVE edits' \in 0..MaxEdit
BY SchedulesAssumption DEF TypeOK, Edit

LEMMA LapseDoes ==
    ASSUME TypeOK, NEW s \in Schedule, NEW new, Lapse(s, new)
    PROVE  /\ draft' \in Drafts /\ review' \subseteq review
           /\ \A d \in Draft : draft'[d] = IF draft[d].to = s THEN NoDraft ELSE draft[d]
<1>1. NoDraft \in [to : Schedule \cup {"none", "new"}, def : Definition \cup {NoRow.def},
                   next : 0..Horizon + 1]
  BY SchedulesAssumption DEF NoDraft, NoDue
<1>2. draft \in Drafts
  BY DEF TypeOK, Drafts
<1>. QED BY <1>1, <1>2 DEF Lapse, TypeOK, Drafts

\* A row that somebody else writes is not the timer's any more.
LEMMA WriteDoes ==
    ASSUME TypeOK, NEW s \in Schedule, NEW new \in Row, Write(s, new)
    PROVE  /\ sched' \in [Schedule -> Row] /\ sched'[s] = new
           /\ \A x \in Schedule \ {s} : sched'[x] = sched[x]
           /\ behind' \subseteq Schedule /\ behind \subseteq behind'
           /\ \A x \in Schedule \ {s} : x \in behind' => x \in behind
           /\ s \in behind' <=> s \in behind \/ Counted(s)
           /\ draft' \in Drafts /\ review' \subseteq review
           /\ \A d \in Draft : draft'[d] = IF draft[d].to = s THEN NoDraft ELSE draft[d]
BY LapseDoes DEF Write, TypeOK

LEMMA TimerWriteDoes ==
    ASSUME TypeOK, NEW s \in Schedule, NEW new \in Row, TimerWrite(s, new)
    PROVE  /\ sched' \in [Schedule -> Row] /\ sched'[s] = new
           /\ \A x \in Schedule \ {s} : sched'[x] = sched[x]
           /\ behind' = behind
           /\ draft' \in Drafts /\ review' \subseteq review
           /\ \A d \in Draft : draft'[d] = IF draft[d].to = s THEN NoDraft ELSE draft[d]
BY LapseDoes DEF TimerWrite, TypeOK

SetRow(r, st, cur) == [r EXCEPT !.st = st, !.cur = cur]

Cursors == 0..Horizon + 1

LEMMA InRange ==
    /\ "active" \in State /\ "paused" \in State /\ "blocked" \in State /\ "deleted" \in State
    /\ 0 \in Cursors
BY SchedulesAssumption DEF State, Cursors

LEMMA SetTyped ==
    ASSUME NEW r \in Row, NEW st \in State, NEW cur \in Cursors
    PROVE  /\ SetRow(r, st, cur) \in Row /\ SetRow(r, st, cur).st = st
           /\ SetRow(r, st, cur).cur = cur /\ SetRow(r, st, cur).def = r.def
<1> DEFINE q == [r EXCEPT !.st = st]
<1> DEFINE n == [q EXCEPT !.cur = cur]
<1>1. q \in Row /\ q.st = st /\ q.def = r.def
  BY DEF Row
<1>2. SetRow(r, st, cur) = n
  BY DEF SetRow
<1> HIDE DEF q
<1>3. n \in Row /\ n.st = st /\ n.cur = cur /\ n.def = r.def
  BY <1>1 DEF Row, Cursors
<1> HIDE DEF n
<1>. QED BY <1>2, <1>3

LEMMA ActiveTyped ==
    \A r \in Row, cur \in Cursors :
        /\ SetRow(r, "active", cur) \in Row /\ SetRow(r, "active", cur).st = "active"
        /\ SetRow(r, "active", cur).cur = cur /\ SetRow(r, "active", cur).def = r.def
<1>. SUFFICES ASSUME NEW r \in Row, NEW cur \in Cursors
     PROVE  /\ SetRow(r, "active", cur) \in Row /\ SetRow(r, "active", cur).st = "active"
            /\ SetRow(r, "active", cur).cur = cur /\ SetRow(r, "active", cur).def = r.def
  OBVIOUS
<1>. QED BY SetTyped, InRange

LEMMA BlockedTyped ==
    ASSUME NEW r \in Row
    PROVE  Blocked(r) \in Row /\ Blocked(r).st = "blocked" /\ Blocked(r).def = r.def
<1>1. Blocked(r) = SetRow(r, "blocked", 0)
  BY DEF Blocked, SetRow, NoDue
<1>. QED BY <1>1, InRange, SetTyped

LEMMA AdvanceTyped ==
    ASSUME NEW r \in Row, NEW next \in 0..Horizon + 1, r.st = "active"
    PROVE  /\ Advance(r, next) \in Row /\ Advance(r, next).def = r.def /\ Advance(r, next).cur = next
           /\ Advance(r, next).st =
                IF r.def.kind = "once" /\ next = NoDue THEN "completed" ELSE "active"
<1> DEFINE q == [r EXCEPT !.cur = next]
<1>1. q \in Row /\ q.st = r.st /\ q.def = r.def /\ q.cur = next
  BY DEF Row
<1> HIDE DEF q
<1>2. Advance(r, next) =
        [q EXCEPT !.st = IF r.def.kind = "once" /\ next = NoDue THEN "completed" ELSE r.st]
  BY <1>1 DEF Advance, q
<1>. QED BY <1>1, <1>2 DEF Row, State

\* Whatever somebody else writes, the timer keeps to what it may do: if the row
\* is active, the command has set the cursor behind all fires.
LEMMA WriteKeeps ==
    ASSUME IInv, NEW s \in Schedule, NEW new \in Row, Write(s, new),
           sched[s].st # "none", new.st \notin {"none", "completed"},
           sched[s].st = "deleted" => new.st = "deleted",
           UNCHANGED <<clock, fires, timer>>, since' \in [Schedule -> 0..Horizon + 1],
           \A x \in Schedule \ {s} : since'[x] = since[x],
           new.st = "active" =>
              /\ since'[s] = new.cur /\ new.cur # NoDue
              /\ new.def.kind = "once" => new.cur = new.def.at
              /\ \A o \in Minute : fires[s][o] # "none" => o < new.cur
    PROVE  Sound'
<1>1. /\ sched' \in [Schedule -> Row] /\ sched'[s] = new
      /\ \A x \in Schedule \ {s} : sched'[x] = sched[x]
      /\ behind \subseteq behind' /\ \A x \in Schedule \ {s} : x \in behind' => x \in behind
      /\ s \in behind' <=> s \in behind \/ Counted(s)
      /\ \A d \in Draft : draft'[d] = IF draft[d].to = s THEN NoDraft ELSE draft[d]
      /\ review' \subseteq review
  BY WriteDoes DEF IInv
<1>2. TimerHolds'
  <2>1. TimerHolds /\ behind' \subseteq Schedule
    BY WriteDoes DEF IInv, Sound
  <2>2. \A x \in behind' : Counted(x)
    BY <1>1, <2>1 DEF TimerHolds
  <2>3. \A x \in behind' : Counted(x)'
    BY <2>2 DEF Counted
  <2>. QED BY <2>1, <2>3 DEF TimerHolds
<1>3. Chained'
  <2>1. timer.of # "none" /\ Accepts(timer.of)' => timer.of # s
    BY <1>1 DEF IInv, Counted, Accepts
  <2>2. timer.of # "none" /\ Accepts(timer.of)' =>
          Accepts(timer.of) /\ sched'[timer.of] = sched[timer.of]
    BY <1>1, <2>1 DEF IInv, TypeOK, Accepts
  <2>3. timer.of # "none" => sched'[timer.of].st # "none"
    BY <1>1 DEF IInv, TypeOK, Sound, Chained
  <2>. QED BY <2>2, <2>3 DEF IInv, Sound, Chained, NextOccurrence
<1>4. ASSUME NEW snap \in timer.snaps PROVE Snapped(snap)'
  <2>1. snap.of = s => s \in behind'
    BY <1>1 DEF Counted
  <2>2. snap.of \in Schedule
    BY DEF IInv, TypeOK
  <2>. QED BY <1>1, <2>1, <2>2 DEF IInv, Sound, Snapped
<1>5. ASSUME NEW x \in Schedule PROVE Kept(x)'
  <2>1. CASE x = s
    <3>1. \A o \in Minute : fires[s][o] # "none" => o <= clock
      BY DEF IInv, Sound, Kept
    <3>2. \A o \in 0..Horizon + 1 : ~(new.cur <= o /\ o < new.cur)
      BY SchedulesAssumption DEF Row
    <3>3. \A o \in Occurrences(new.def) : o \in 0..Horizon + 1
      BY SchedulesAssumption DEF Occurrences, Minute
    <3>. QED BY <1>1, <2>1, <3>1, <3>2, <3>3 DEF Kept
  <2>2. CASE x # s
    BY <1>1, <2>2 DEF IInv, Sound, Kept
  <2>. QED BY <2>1, <2>2
<1>6. ASSUME NEW d \in Draft PROVE Current(d)'
  <2>1. CASE draft[d].to = s
    BY <1>1, <2>1, SchedulesAssumption DEF Current, NoDraft
  <2>2. CASE draft[d].to # s
    BY <1>1, <2>2 DEF IInv, Sound, Current
  <2>. QED BY <2>1, <2>2
<1>. QED BY <1>2, <1>3, <1>4, <1>5, <1>6 DEF Sound

\* What leaves rows, drafts, fires and the timer alone.
LEMMA RestAlone ==
    ASSUME IInv, UNCHANGED <<clock, sched, draft, behind, fires, since, timer>>,
           \A s \in review' : s \in review \/ sched[s].st # "none"
    PROVE  Sound' /\ Standing
<1>1. TimerHolds' /\ Chained'
  BY DEF IInv, Sound, TimerHolds, Chained, Counted, Accepts, NextOccurrence
<1>2. \A snap \in timer'.snaps : Snapped(snap)'
  BY DEF IInv, Sound, Snapped
<1>3. \A s \in Schedule : Kept(s)'
  BY DEF IInv, Sound, Kept
<1>4. \A d \in Draft : Current(d)'
  BY DEF IInv, Sound, Current
<1>. QED BY <1>1, <1>2, <1>3, <1>4 DEF Sound, Standing

\* What changes drafts only.
LEMMA DraftKeeps ==
    ASSUME IInv, UNCHANGED <<clock, sched, behind, review, fires, since, timer>>,
           \A d \in Draft : Current(d)'
    PROVE  Sound' /\ Standing
<1>1. TimerHolds' /\ Chained'
  BY DEF IInv, Sound, TimerHolds, Chained, Counted, Accepts, NextOccurrence
<1>2. \A snap \in timer'.snaps : Snapped(snap)'
  BY DEF IInv, Sound, Snapped
<1>3. \A s \in Schedule : Kept(s)'
  BY DEF IInv, Sound, Kept
<1>. QED BY <1>1, <1>2, <1>3 DEF Sound, Standing

-----------------------------------------------------------------------------
(***************************************************************************)
(* The owner's commands.                                                   *)
(***************************************************************************)
LEMMA NewDraftTyped ==
    ASSUME TypeOK, NEW to \in Schedule \cup {"new"}, NEW def \in Definition, Previews(def)
    PROVE  /\ NewDraft(to, def) \in [to : Schedule \cup {"none", "new"},
                                     def : Definition \cup {NoRow.def}, next : 0..Horizon + 1]
           /\ NewDraft(to, def).to = to /\ NewDraft(to, def).def = def
           /\ NewDraft(to, def).next # NoDue /\ NewDraft(to, def).next > clock
           /\ def.kind = "once" => NewDraft(to, def).next = def.at
<1>1. /\ NextOccurrence(def, clock) \in 1..Horizon + 1 /\ NextOccurrence(def, clock) > clock
      /\ def.kind = "once" => NextOccurrence(def, clock) = def.at
  BY SchedulesAssumption, DefinitionTyped DEF TypeOK, Previews, NextOccurrence, NoDue
<1>. QED BY <1>1, SchedulesAssumption DEF NewDraft, NoDue

LEMMA NewDraftKeeps ==
    ASSUME IInv, NEW d \in Draft, NEW to \in Schedule \cup {"new"}, NEW def \in Definition,
           Previews(def), draft' = [draft EXCEPT ![d] = NewDraft(to, def)],
           to \in Schedule => sched[to].st # "none"
    PROVE  /\ draft' \in Drafts
           /\ UNCHANGED <<clock, sched, fires>> => \A e \in Draft : Current(e)'
<1> DEFINE new == NewDraft(to, def)
<1>1. /\ new \in [to : Schedule \cup {"none", "new"}, def : Definition \cup {NoRow.def},
                  next : 0..Horizon + 1]
      /\ new.to = to /\ new.def = def /\ new.next # NoDue /\ new.next > clock
      /\ def.kind = "once" => new.next = def.at
  BY NewDraftTyped DEF IInv
<1> HIDE DEF new
<1>2. draft' \in Drafts /\ draft'[d] = new /\ \A e \in Draft \ {d} : draft'[e] = draft[e]
  BY <1>1 DEF new, IInv, TypeOK, Drafts
<1>3. ASSUME UNCHANGED <<clock, sched, fires>>, NEW e \in Draft PROVE Current(e)'
  <2>1. CASE e = d
    <3>1. to \in Schedule => \A o \in Minute : fires[to][o] # "none" => o <= clock
      BY DEF IInv, Sound, Kept
    <3>2. to \in Schedule => \A o \in Minute : fires[to][o] # "none" => o < new.next
      BY <1>1, <3>1, SchedulesAssumption DEF IInv, TypeOK, Minute
    <3>. QED BY <1>1, <1>2, <1>3, <2>1, <3>2 DEF Current
  <2>2. CASE e # d
    BY <1>2, <1>3, <2>2 DEF IInv, Sound, Current
  <2>. QED BY <2>1, <2>2
<1>. QED BY <1>2, <1>3

LEMMA CreateDraftKeeps ==
    ASSUME IInv, NEW d \in Draft, NEW def \in Definition, CreateDraft(d, def)
    PROVE  IInv' /\ Standing
<1>1. draft' \in Drafts /\ \A e \in Draft : Current(e)'
  BY NewDraftKeeps, SchedulesAssumption DEF CreateDraft, table
<1>2. TypeOK'
  BY <1>1 DEF CreateDraft, IInv, TypeOK, Drafts
<1>. QED BY <1>1, <1>2, DraftKeeps DEF CreateDraft, IInv

LEMMA UpdateDraftKeeps ==
    ASSUME IInv, NEW d \in Draft, NEW s \in Schedule, NEW def \in Definition, UpdateDraft(d, s, def)
    PROVE  IInv' /\ Standing
<1>1. draft' \in Drafts /\ \A e \in Draft : Current(e)'
  BY NewDraftKeeps DEF UpdateDraft, Open
<1>2. TypeOK'
  BY <1>1, EditCounts DEF UpdateDraft, IInv, TypeOK, Drafts
<1>. QED BY <1>1, <1>2, DraftKeeps DEF UpdateDraft, IInv

LEMMA NoDraftTyped ==
    /\ NoDraft \in [to : Schedule \cup {"none", "new"}, def : Definition \cup {NoRow.def},
                    next : 0..Horizon + 1]
    /\ NoDraft.to = "none" /\ "none" \notin Schedule
BY SchedulesAssumption DEF NoDraft, NoDue

LEMMA CloseDraftKeeps ==
    ASSUME IInv, NEW d \in Draft, CloseDraft(d)
    PROVE  IInv' /\ Standing
<1>1. TypeOK' /\ draft'[d] = NoDraft /\ \A e \in Draft \ {d} : draft'[e] = draft[e]
  BY NoDraftTyped DEF CloseDraft, IInv, TypeOK
<1>2. ASSUME NEW e \in Draft PROVE Current(e)'
  BY <1>1, NoDraftTyped DEF CloseDraft, IInv, Sound, Current
<1>. QED BY <1>1, <1>2, DraftKeeps DEF CloseDraft, IInv

\* A new Schedule: nobody has counted it before.
LEMMA ConfirmCreateKeeps ==
    ASSUME IInv, NEW d \in Draft, NEW s \in Schedule, ConfirmCreate(d, s)
    PROVE  IInv' /\ Standing
<1> DEFINE new == [st |-> "active", def |-> draft[d].def, cur |-> draft[d].next]
<1>1. /\ new \in Row /\ new.cur # NoDue /\ (new.def.kind = "once" => new.cur = new.def.at)
      /\ new.st = "active"
  BY SchedulesAssumption DEF ConfirmCreate, IInv, TypeOK, Sound, Current, Row, State
<1> HIDE DEF new
<1>2. /\ sched' \in [Schedule -> Row] /\ sched'[s] = new
      /\ \A x \in Schedule \ {s} : sched'[x] = sched[x] /\ since'[x] = since[x]
      /\ sched[s].st = "none" /\ since'[s] = new.cur
      /\ draft'[d] = NoDraft /\ \A e \in Draft \ {d} : draft'[e] = draft[e]
      /\ UNCHANGED <<clock, behind, review, fires, timer>>
  BY <1>1 DEF ConfirmCreate, IInv, TypeOK, new
<1>3. since' \in [Schedule -> 0..Horizon + 1] /\ draft' \in Drafts
  BY NoDraftTyped DEF ConfirmCreate, IInv, TypeOK, Drafts
<1>4. TypeOK'
  BY <1>2, <1>3 DEF ConfirmCreate, IInv, TypeOK, Drafts
<1>5. TimerHolds'
  BY <1>2 DEF IInv, Sound, TimerHolds, Counted
<1>6. timer.of # "none" => timer.of \in Schedule \ {s}
  BY <1>2 DEF IInv, TypeOK, Sound, Chained
<1>7. Chained'
  <2>1. timer.of # "none" =>
          sched'[timer.of] = sched[timer.of] /\ (Accepts(timer.of)' = Accepts(timer.of))
    BY <1>2, <1>6 DEF Accepts
  <2>. QED BY <1>2, <2>1 DEF IInv, Sound, Chained, NextOccurrence
<1>8. ASSUME NEW snap \in timer'.snaps PROVE Snapped(snap)'
  <2>1. Snapped(snap) /\ snap.of \in Schedule
    BY <1>2 DEF IInv, TypeOK, Sound
  <2>2. snap.of # s
    BY <1>2, <2>1 DEF Snapped
  <2>. QED BY <1>2, <2>1, <2>2 DEF Snapped
<1>9. ASSUME NEW x \in Schedule PROVE Kept(x)'
  <2>1. CASE x = s
    <3>1. \A o \in 0..Horizon + 1 : ~(new.cur <= o /\ o < new.cur)
      BY <1>1, SchedulesAssumption DEF Row
    <3>2. \A o \in Occurrences(new.def) : o \in 0..Horizon + 1
      BY SchedulesAssumption DEF Occurrences, Minute
    <3>3. s \notin review /\ \A o \in Minute : fires[s][o] = "none"
      BY <1>2 DEF IInv, Sound, Kept
    <3>. QED BY <1>1, <1>2, <2>1, <3>1, <3>2, <3>3 DEF Kept
  <2>2. CASE x # s
    BY <1>2, <2>2 DEF IInv, Sound, Kept
  <2>. QED BY <2>1, <2>2
<1>10. ASSUME NEW e \in Draft PROVE Current(e)'
  <2>1. CASE draft'[e].to = s
    BY <1>2, <2>1, NoDraftTyped DEF IInv, Sound, Current
  <2>2. CASE draft'[e].to # s
    BY <1>2, <2>2, NoDraftTyped DEF IInv, Sound, Current
  <2>. QED BY <2>1, <2>2
<1>11. Standing
  BY <1>2 DEF Standing
<1>. QED BY <1>4, <1>5, <1>7, <1>8, <1>9, <1>10, <1>11 DEF IInv, Sound

\* Pause, Resume, ConfirmUpdate, ConfirmDelete, a blocked run and a message that
\* cannot be delivered: all write the row of a Schedule beside the timer.
LEMMA WriteStands ==
    ASSUME NEW s \in Schedule, NEW new \in Row, UNCHANGED fires, IInv, Write(s, new),
           sched[s].st = "deleted" => new = sched[s]
    PROVE  Standing
BY WriteDoes DEF Standing, IInv

LEMMA PauseKeeps == ASSUME IInv, NEW s \in Schedule, Pause(s) PROVE IInv' /\ Standing
<1> DEFINE new == SetRow(sched[s], "paused", 0)
<1>1. sched[s] \in Row
  BY DEF IInv, TypeOK
<1>2. new \in Row /\ new.st = "paused"
  BY <1>1, SetTyped, InRange
<1>3. Write(s, new) /\ sched[s].st = "active"
  BY DEF Pause, NoDue, SetRow
<1> HIDE DEF new
<1>4. Sound'
  BY <1>2, <1>3, WriteKeeps DEF Pause, IInv, TypeOK
<1>5. Standing
  BY <1>2, <1>3, WriteStands DEF Pause
<1>6. TypeOK'
  BY <1>2, <1>3, WriteDoes, EditCounts DEF Pause, IInv, TypeOK, Drafts
<1>. QED BY <1>4, <1>5, <1>6 DEF IInv

LEMMA ResumeKeeps == ASSUME IInv, NEW s \in Schedule, Resume(s) PROVE IInv' /\ Standing
<1>1. sched[s] \in Row
  BY DEF IInv, TypeOK
<1>2. /\ ResumeAt(sched[s]) \in 0..Horizon + 1
      /\ ResumeAt(sched[s]) # NoDue /\ ResumeAt(sched[s]) > clock
      /\ sched[s].def.kind = "once" => ResumeAt(sched[s]) = sched[s].def.at
  <2>1. sched[s].def \in Definition \cup {NoRow.def}
    BY <1>1 DEF Row
  <2>2. sched[s].def.kind \in {"cron", "once"} /\ sched[s].def.at \in 0..Horizon + 1
    BY <2>1, DefinitionTyped
  <2>3. clock \in 0..Horizon /\ ResumeAt(sched[s]) # NoDue
    BY DEF Resume, IInv, TypeOK
  <2>. QED BY <2>2, <2>3, SchedulesAssumption DEF ResumeAt, NextOccurrence, NoDue
<1>3. PICK next \in Cursors : next = ResumeAt(sched[s])
  BY <1>2 DEF Cursors
<1> DEFINE new == SetRow(sched[s], "active", next)
<1>4. new \in Row /\ new.st = "active" /\ new.cur = next /\ new.def = sched[s].def
  BY <1>1, ActiveTyped
<1>5. /\ Write(s, new) /\ sched[s].st \in {"paused", "blocked"}
      /\ since' = [since EXCEPT ![s] = new.cur]
  BY <1>3, <1>4 DEF Resume, WriteCursor, SetRow
<1> HIDE DEF new
<1>6. /\ since' \in [Schedule -> 0..Horizon + 1] /\ since'[s] = new.cur
      /\ \A x \in Schedule \ {s} : since'[x] = since[x]
  BY <1>2, <1>3, <1>4, <1>5, SchedulesAssumption DEF IInv, TypeOK
<1>7. \A o \in Minute : fires[s][o] # "none" => o < new.cur
  BY <1>2, <1>3, <1>4, SchedulesAssumption DEF IInv, TypeOK, Sound, Kept, Minute
<1>8. Sound'
  BY <1>2, <1>3, <1>4, <1>5, <1>6, <1>7, WriteKeeps, SchedulesAssumption DEF Resume, NoDue
<1>9. Standing
  BY <1>4, <1>5, WriteStands DEF Resume
<1>10. TypeOK'
  BY <1>4, <1>5, <1>6, WriteDoes, EditCounts DEF Resume, IInv, TypeOK, Drafts
<1>. QED BY <1>8, <1>9, <1>10 DEF IInv

LEMMA ConfirmUpdateKeeps ==
    ASSUME IInv, NEW d \in Draft, NEW s \in Schedule, ConfirmUpdate(d, s)
    PROVE  IInv' /\ Standing
<1> DEFINE next == IF sched[s].st = "active" THEN draft[d].next ELSE NoDue
<1> DEFINE new == Updated(sched[s], d)
<1> DEFINE q == [sched[s] EXCEPT !.def = draft[d].def]
<1>1. q \in Row /\ q.st = sched[s].st /\ q.def = draft[d].def
  <2>1. sched[s] \in Row /\ draft[d].def \in Definition \cup {NoRow.def}
    BY DEF IInv, TypeOK
  <2>. QED BY <2>1 DEF Row
<1> HIDE DEF q
<1>2. new = [q EXCEPT !.cur = next]
  BY DEF q, Updated
<1>3. next \in 0..Horizon + 1
  BY SchedulesAssumption DEF IInv, TypeOK, NoDue
<1> HIDE DEF next
<1>4. new \in Row /\ new.st = sched[s].st /\ new.cur = next /\ new.def = draft[d].def
  BY <1>1, <1>2, <1>3 DEF Row
<1>5. /\ Write(s, new) /\ sched[s].st \in {"active", "paused", "blocked"} /\ draft[d].to = s
      /\ since' = [since EXCEPT ![s] = new.cur]
  BY DEF ConfirmUpdate, WriteCursor, Open
<1> HIDE DEF new
<1>6. /\ since' \in [Schedule -> 0..Horizon + 1] /\ since'[s] = new.cur
      /\ \A x \in Schedule \ {s} : since'[x] = since[x]
  BY <1>3, <1>4, <1>5 DEF IInv, TypeOK
<1>7. sched[s].st = "active" =>
          /\ new.cur # NoDue /\ (new.def.kind = "once" => new.cur = new.def.at)
          /\ \A o \in Minute : fires[s][o] # "none" => o < new.cur
  BY <1>4, <1>5, NoDraftTyped DEF IInv, Sound, Current, next
<1>8. Sound'
  BY <1>4, <1>5, <1>6, <1>7, WriteKeeps DEF ConfirmUpdate
<1>9. Standing
  BY <1>4, <1>5, WriteStands DEF ConfirmUpdate
<1>10. TypeOK'
  BY <1>4, <1>5, <1>6, WriteDoes DEF ConfirmUpdate, IInv, TypeOK, Drafts
<1>. QED BY <1>8, <1>9, <1>10 DEF IInv

LEMMA ConfirmDeleteKeeps == ASSUME IInv, NEW s \in Schedule, ConfirmDelete(s) PROVE IInv' /\ Standing
<1> DEFINE new == SetRow(sched[s], "deleted", 0)
<1>1. sched[s] \in Row
  BY DEF IInv, TypeOK
<1>2. new \in Row /\ new.st = "deleted"
  BY <1>1, SetTyped, InRange
<1>3. Write(s, new) /\ sched[s].st \notin {"none", "deleted"}
  BY DEF ConfirmDelete, NoDue, SetRow, IInv, Sound, Kept
<1> HIDE DEF new
<1>4. Sound'
  BY <1>2, <1>3, WriteKeeps DEF ConfirmDelete, IInv, TypeOK
<1>5. Standing
  BY <1>2, <1>3, WriteStands DEF ConfirmDelete
<1>6. TypeOK'
  BY <1>2, <1>3, WriteDoes DEF ConfirmDelete, IInv, TypeOK, Drafts
<1>. QED BY <1>4, <1>5, <1>6 DEF IInv

LEMMA ReviewKeeps ==
    ASSUME IInv, NEW s \in Schedule, PrepareDelete(s) \/ CloseReview(s)
    PROVE  IInv' /\ Standing
<1>1. /\ UNCHANGED <<clock, sched, behind, draft, fires, since, target, manual, timer, asleep, faults>>
      /\ edits' \in 0..MaxEdit /\ review' \subseteq Schedule
      /\ \A x \in review' : x \in review \/ sched[x].st # "none"
  BY EditCounts DEF PrepareDelete, CloseReview, IInv, TypeOK
<1>2. TypeOK'
  BY <1>1 DEF IInv, TypeOK
<1>. QED BY <1>1, <1>2, RestAlone DEF IInv

LEMMA RunNowKeeps == ASSUME IInv, NEW s \in Schedule, RunNow(s) PROVE IInv' /\ Standing
<1>1. CASE s \in target
  <2>1. UNCHANGED <<clock, sched, behind, draft, review, fires, since, target, timer, faults>>
    BY <1>1 DEF RunNow, table
  <2>2. TypeOK'
    BY <1>1, <2>1, EditCounts DEF RunNow, IInv, TypeOK
  <2>. QED BY <2>1, <2>2, RestAlone DEF IInv
<1>2. CASE s \notin target
  <2> DEFINE new == Blocked(sched[s])
  <2>1. sched[s] \in Row
    BY DEF IInv, TypeOK
  <2>2. new \in Row /\ new.st = "blocked"
    BY <2>1, BlockedTyped
  <2>3. Write(s, new) /\ sched[s].st = "active" /\ UNCHANGED <<asleep, manual>>
    BY <1>2 DEF RunNow
  <2> HIDE DEF new
  <2>4. Sound'
    BY <2>2, <2>3, WriteKeeps DEF RunNow, IInv, TypeOK
  <2>5. Standing
    BY <2>2, <2>3, WriteStands DEF RunNow
  <2>6. TypeOK'
    BY <2>2, <2>3, WriteDoes, EditCounts DEF RunNow, IInv, TypeOK, Drafts
  <2>. QED BY <2>4, <2>5, <2>6 DEF IInv
<1>. QED BY <1>1, <1>2

\* WakeRun, and what closes or opens a target.
LEMMA TargetKeeps ==
    ASSUME IInv, NEW s \in Schedule, WakeRun(s) \/ TargetLost(s) \/ TargetBack(s)
    PROVE  IInv' /\ Standing
<1>1. /\ UNCHANGED <<clock, sched, behind, draft, review, fires, since, timer, faults>>
      /\ edits' \in 0..MaxEdit /\ manual' \subseteq Schedule /\ asleep' \subseteq Schedule
      /\ target' \subseteq Schedule
  BY EditCounts DEF WakeRun, TargetLost, TargetBack, table, IInv, TypeOK
<1>2. TypeOK'
  BY <1>1 DEF IInv, TypeOK
<1>. QED BY <1>1, <1>2, RestAlone DEF IInv

\* A message that cannot be delivered is of a Turn that a fire made.
LEMMA TurnUndeliverableKeeps ==
    ASSUME IInv, NEW s \in Schedule, TurnUndeliverable(s)
    PROVE  IInv' /\ Standing
<1> DEFINE new == Blocked(sched[s])
<1>1. sched[s] \in Row
  BY DEF IInv, TypeOK
<1>2. new \in Row /\ new.st = "blocked"
  BY <1>1, BlockedTyped
<1>3. Write(s, new) /\ sched[s].st \notin {"none", "deleted"}
  BY DEF TurnUndeliverable, Blockable, IInv, Sound, Kept
<1> HIDE DEF new
<1>4. Sound'
  BY <1>2, <1>3, WriteKeeps DEF TurnUndeliverable, IInv, TypeOK
<1>5. Standing
  BY <1>2, <1>3, WriteStands DEF TurnUndeliverable
<1>6. TypeOK'
  BY <1>2, <1>3, WriteDoes, FaultCounts DEF TurnUndeliverable, IInv, TypeOK, Drafts
<1>. QED BY <1>4, <1>5, <1>6 DEF IInv

LEMMA PassKeeps == ASSUME IInv, Pass PROVE IInv' /\ Standing
<1>1. /\ UNCHANGED <<sched, behind, draft, review, fires, since, target, manual>>
      /\ UNCHANGED <<timer, asleep, edits, faults>>
      /\ clock' \in 0..Horizon /\ clock < clock'
  BY SchedulesAssumption DEF Pass, table, IInv, TypeOK
<1>2. TypeOK'
  BY <1>1 DEF IInv, TypeOK
<1>3. TimerHolds'
  BY <1>1, SchedulesAssumption DEF IInv, TypeOK, Sound, TimerHolds, Counted
<1>4. Chained'
  BY <1>1 DEF IInv, Sound, Chained, Accepts, NextOccurrence
<1>5. \A snap \in timer'.snaps : Snapped(snap)'
  BY <1>1 DEF IInv, Sound, Snapped
<1>6. ASSUME NEW s \in Schedule PROVE Kept(s)'
  BY <1>1, SchedulesAssumption DEF IInv, TypeOK, Sound, Kept, Minute
<1>7. \A d \in Draft : Current(d)'
  BY <1>1 DEF IInv, Sound, Current
<1>8. Standing
  BY <1>1 DEF Standing
<1>. QED BY <1>2, <1>3, <1>4, <1>5, <1>6, <1>7, <1>8 DEF IInv, Sound

-----------------------------------------------------------------------------
(***************************************************************************)
(* The timer.                                                              *)
(***************************************************************************)
Timers == [pc : {"idle", "tick", "batch", "down"}, wake : BOOLEAN, now : 0..Horizon,
           snaps : SUBSET [of : Schedule, row : Row], of : Schedule \cup {"none"},
           todo : Seq(Step), fired : BOOLEAN]

LEMMA BeginTickKeeps ==
    ASSUME IInv, timer.pc \in {"idle", "down"}, BeginTick,
           UNCHANGED <<clock, table, fires, since, target, manual, asleep, edits, faults>>
    PROVE  IInv' /\ Standing
<1>1. /\ timer.of = "none" /\ timer.snaps = {} /\ timer.todo = <<>> /\ behind = {}
  BY SchedulesAssumption DEF IInv, TypeOK, Sound, TimerHolds, Counted
<1> DEFINE snaps == {[of |-> s, row |-> sched[s]] : s \in Due(clock)}
<1>2. snaps \in SUBSET [of : Schedule, row : Row]
  BY DEF Due, IInv, TypeOK
<1>3. timer' = [timer EXCEPT !.pc = "tick", !.now = clock, !.snaps = snaps]
  BY DEF BeginTick
<1>4. \A snap \in snaps : /\ snap.of \in Schedule /\ snap.row = sched[snap.of] /\ snap.of \in Due(clock)
                          /\ snap = [of |-> snap.of, row |-> sched[snap.of]]
  BY DEF Due
<1> HIDE DEF snaps
<1>5. /\ timer'.pc = "tick" /\ timer'.now = clock /\ timer'.snaps = snaps /\ timer'.of = timer.of
      /\ timer'.todo = timer.todo /\ timer' \in Timers
  BY <1>2, <1>3 DEF IInv, TypeOK, Timers
<1>6. TypeOK'
  BY <1>5 DEF IInv, TypeOK, table, Timers
<1>7. TimerHolds'
  BY <1>1, <1>5, SchedulesAssumption DEF IInv, TypeOK, TimerHolds, table
<1>8. Chained'
  BY <1>1, <1>5 DEF Chained
<1>9. ASSUME NEW snap \in timer'.snaps PROVE Snapped(snap)'
  <2>1. /\ sched[snap.of].st = "active" /\ sched[snap.of].cur # NoDue /\ sched[snap.of].cur <= clock
        /\ snap.row = sched[snap.of] /\ snap.of \in Schedule /\ snap.of # "none"
    BY <1>4, <1>5, <1>9, SchedulesAssumption DEF Due
  <2>2. sched[snap.of].def.kind = "once" => sched[snap.of].cur = sched[snap.of].def.at
    BY <2>1 DEF IInv, Sound, Kept
  <2>3. \A other \in timer'.snaps : other.of = snap.of => other = snap
    BY <1>4, <1>5, <1>9
  <2>. QED BY <1>1, <1>5, <2>1, <2>2, <2>3 DEF Snapped, table
<1>10. /\ \A s \in Schedule : Kept(s)'
       /\ \A d \in Draft : Current(d)'
  BY DEF IInv, Sound, Kept, Current, table
<1>11. Standing
  BY DEF Standing, table
<1>. QED BY <1>6, <1>7, <1>8, <1>9, <1>10, <1>11 DEF IInv, Sound

LEMMA SeqOfFunction ==
    ASSUME NEW S, NEW n \in Nat, NEW f \in [1..n -> S]
    PROVE  f \in Seq(S) /\ Len(f) = n
<1>1. f \in Seq(S)
  BY SeqDef
<1>2. Len(f) \in Nat /\ DOMAIN f = 1..Len(f)
  BY <1>1, LenProperties
<1>3. 1..Len(f) = 1..n
  BY <1>2
<1>4. ~(n < Len(f))
  BY <1>2, <1>3
<1>5. ~(Len(f) < n)
  BY <1>2, <1>3
<1>. QED BY <1>1, <1>2, <1>4, <1>5

\* The occurrences of a batch follow one another from the cursor up to now.
LEMMA BatchDoes ==
    ASSUME NEW r \in Row, NEW now \in 0..Horizon, r.cur # NoDue, r.cur <= now,
           r.def.kind = "once" => r.cur = r.def.at
    PROVE  \E n \in Nat \ {0} :
              /\ Batch(r, now) \in [1..n -> Minute] /\ (r.def.kind = "once" => n = 1)
              /\ \A i \in 1..n : Batch(r, now)[i] = r.cur + i - 1 /\ Batch(r, now)[i] <= now
<1>1. r.cur \in 1..Horizon
  BY SchedulesAssumption DEF Row, NoDue
<1>2. CASE r.def.kind = "once"
  <2>1. Batch(r, now) = <<r.cur>>
    BY <1>2 DEF Batch
  <2>2. <<r.cur>> \in [1..1 -> Minute] /\ <<r.cur>>[1] = r.cur
    BY <1>1 DEF Minute
  <2>3. \A i \in 1..1 : i = 1
    OBVIOUS
  <2>. QED BY <1>1, <1>2, <2>1, <2>2, <2>3, SchedulesAssumption
<1>3. CASE r.def.kind # "once"
  <2> DEFINE last == IF now < r.cur + MaxDue THEN now ELSE r.cur + MaxDue - 1
  <2>1. Batch(r, now) = [i \in 1..last - r.cur + 1 |-> r.cur + i - 1]
    BY <1>3 DEF Batch
  <2>2. last \in r.cur..now
    BY <1>1, SchedulesAssumption
  <2> HIDE DEF last
  <2>3. last - r.cur + 1 \in Nat \ {0}
    BY <1>1, <2>2, SchedulesAssumption
  <2>4. \A i \in 1..last - r.cur + 1 : r.cur + i - 1 \in Minute /\ r.cur + i - 1 <= now
    BY <1>1, <2>2, SchedulesAssumption DEF Minute
  <2>. QED BY <1>3, <2>1, <2>3, <2>4
<1>. QED BY <1>2, <1>3

LEMMA PlanDoes ==
    ASSUME NEW r \in Row, NEW now \in 0..Horizon, NEW onTime \in BOOLEAN, r.cur # NoDue, r.cur <= now,
           r.def.kind = "once" => r.cur = r.def.at
    PROVE  /\ Plan(r, now, onTime) \in Seq(Step)
           /\ Plan(r, now, onTime) # <<>> /\ Plan(r, now, onTime)[1].at = r.cur
           /\ r.def.kind = "once" => Len(Plan(r, now, onTime)) = 1
           /\ \A i \in 1..Len(Plan(r, now, onTime)) :
                 /\ Plan(r, now, onTime)[i].at <= now
                 /\ Plan(r, now, onTime)[i].next = NextOccurrence(r.def, Plan(r, now, onTime)[i].at)
                 /\ i < Len(Plan(r, now, onTime)) =>
                        Plan(r, now, onTime)[i].next = Plan(r, now, onTime)[i + 1].at
<1> DEFINE b == Batch(r, now)
<1>1. PICK n \in Nat \ {0} :
         /\ b \in [1..n -> Minute] /\ (r.def.kind = "once" => n = 1)
         /\ \A i \in 1..n : b[i] = r.cur + i - 1 /\ b[i] <= now
  BY BatchDoes
<1> DEFINE fate(i) == Fate(r, now, b, onTime, i)
<1> DEFINE next(i) == IF i < n THEN b[i + 1] ELSE Following(r, b)
<1> DEFINE p == [i \in 1..n |-> [at |-> b[i], do |-> fate(i), next |-> next(i)]]
<1>2. Len(b) = n /\ DOMAIN b = 1..n
  BY <1>1, SeqOfFunction
<1>3. Plan(r, now, onTime) = p
  BY <1>2 DEF Plan
<1>4. r.def \in Definition \cup {NoRow.def} /\ r.cur \in 1..Horizon
  BY SchedulesAssumption DEF Row, NoDue
<1>5. r.def.policy \in {"skip", "latest", "all"}
  BY <1>4, SchedulesAssumption DEF Definition, NoRow
<1>6. \A i \in 1..n : fate(i) \in {"fire", "skip"}
  BY <1>5 DEF Fate
<1>7. \A i \in 1..n : next(i) = NextOccurrence(r.def, b[i]) /\ next(i) \in 0..Horizon + 1
  <2>1. ASSUME NEW i \in 1..n PROVE NextOccurrence(r.def, b[i]) \in 0..Horizon + 1
    <3>1. b[i] \in 1..Horizon
      BY <1>1 DEF Minute
    <3> HIDE DEF b
    <3>2. b[i] + 1 \in 0..Horizon + 1 /\ r.def.at \in 0..Horizon + 1 /\ 0 \in 0..Horizon + 1
      BY <1>4, <3>1, DefinitionTyped, SchedulesAssumption
    <3>. QED BY <3>2 DEF NextOccurrence, NoDue
  <2>2. ASSUME NEW i \in 1..n, i < n PROVE b[i + 1] = NextOccurrence(r.def, b[i])
    <3>1. r.def.kind = "cron"
      BY <1>1, <1>4, <2>2, DefinitionTyped
    <3>2. i + 1 \in 1..n
      BY <2>2
    <3>. QED BY <1>1, <1>4, <2>2, <3>1, <3>2 DEF NextOccurrence
  <2>3. ASSUME NEW i \in 1..n, ~(i < n) PROVE Following(r, b) = NextOccurrence(r.def, b[i])
    <3>1. i = n
      BY <2>3
    <3>. QED BY <1>2, <3>1 DEF Following
  <2>. QED BY <2>1, <2>2, <2>3
<1> HIDE DEF b, fate, next
<1>8. p \in [1..n -> Step]
  BY <1>1, <1>6, <1>7 DEF Step
<1>9. p \in Seq(Step) /\ Len(p) = n
  BY <1>8, SeqOfFunction
<1>10. \A i \in 1..n : p[i].at = b[i] /\ p[i].next = next(i)
  OBVIOUS
<1>11. p # <<>>
  BY <1>9
<1>12. \A i \in 1..n : i < n => p[i].next = p[i + 1].at
  <2>. SUFFICES ASSUME NEW i \in 1..n, i < n PROVE p[i].next = p[i + 1].at
    OBVIOUS
  <2>1. i + 1 \in 1..n
    OBVIOUS
  <2>2. next(i) = b[i + 1]
    BY DEF next
  <2>. QED BY <1>10, <2>1, <2>2
<1>13. 1 \in 1..n /\ b[1] = r.cur
  BY <1>1, <1>4
<1>14. p[1].at = r.cur
  BY <1>10, <1>13
<1>15. \A i \in 1..n : p[i].at <= now /\ p[i].next = NextOccurrence(r.def, p[i].at)
  BY <1>1, <1>7, <1>10
<1>16. r.def.kind = "once" => n = 1
  BY <1>1
<1> HIDE DEF p
<1>. QED BY <1>3, <1>9, <1>11, <1>12, <1>14, <1>15, <1>16

\* What _process_due works off is the plan of the snapshot.
LEMMA ProcessKeeps ==
    ASSUME IInv, NEW snap \in timer.snaps, NEW onTime \in BOOLEAN, Process(snap, onTime)
    PROVE  IInv' /\ Standing
<1> DEFINE plan == Plan(snap.row, timer.now, onTime)
<1>1. /\ timer.pc = "tick" /\ timer.of = "none" /\ Snapped(snap)
      /\ snap.of \in Schedule /\ snap.row \in Row /\ timer.now \in 0..Horizon
  BY DEF Process, IInv, TypeOK, Sound, TimerHolds
<1>2. /\ plan \in Seq(Step) /\ plan # <<>> /\ plan[1].at = snap.row.cur
      /\ snap.row.def.kind = "once" => Len(plan) = 1
      /\ \A i \in 1..Len(plan) :
            /\ plan[i].at <= timer.now /\ plan[i].next = NextOccurrence(snap.row.def, plan[i].at)
            /\ i < Len(plan) => plan[i].next = plan[i + 1].at
  BY <1>1, PlanDoes DEF Snapped
<1>3. /\ timer' = [timer EXCEPT !.pc = "batch", !.snaps = timer.snaps \ {snap},
                               !.of = snap.of, !.todo = plan]
      /\ UNCHANGED <<clock, sched, behind, draft, review, fires, since, target, manual>>
      /\ UNCHANGED <<asleep, edits, faults>>
  BY DEF Process, table
<1> HIDE DEF plan
<1>4. /\ timer'.pc = "batch" /\ timer'.now = timer.now /\ timer'.snaps = timer.snaps \ {snap}
      /\ timer'.of = snap.of /\ timer'.todo = plan /\ timer' \in Timers
  BY <1>1, <1>2, <1>3 DEF IInv, TypeOK, Timers
<1>5. TypeOK'
  BY <1>3, <1>4 DEF IInv, TypeOK, Timers
<1>6. TimerHolds'
  BY <1>1, <1>3, <1>4, SchedulesAssumption DEF IInv, Sound, TimerHolds, TypeOK, Counted
<1>7. Chained'
  <2>1. Accepts(snap.of)' => sched'[snap.of] = snap.row
    BY <1>1, <1>3 DEF Accepts, Snapped
  <2>. QED BY <1>1, <1>2, <1>3, <1>4, <2>1 DEF Chained, Snapped, NextOccurrence
<1>8. ASSUME NEW other \in timer'.snaps PROVE Snapped(other)'
  <2>1. Snapped(other) /\ other.of # snap.of
    BY <1>1, <1>4 DEF IInv, Sound, Snapped
  <2>. QED BY <1>3, <1>4, <2>1 DEF Snapped
<1>9. /\ \A s \in Schedule : Kept(s)'
      /\ \A d \in Draft : Current(d)'
  BY <1>3 DEF IInv, Sound, Kept, Current
<1>10. Standing
  BY <1>3 DEF Standing
<1>. QED BY <1>5, <1>6, <1>7, <1>8, <1>9, <1>10 DEF IInv, Sound

LEMMA BlockInvalidKeeps ==
    ASSUME IInv, NEW snap \in timer.snaps, BlockInvalid(snap)
    PROVE  IInv' /\ Standing
<1>1. /\ timer.pc = "tick" /\ timer.of = "none" /\ timer.todo = <<>> /\ Snapped(snap)
      /\ snap.of \in Schedule /\ sched[snap.of] \in Row
  BY DEF BlockInvalid, IInv, TypeOK, Sound, TimerHolds
<1>2. /\ timer'.pc = "tick" /\ timer'.now = timer.now /\ timer'.snaps = timer.snaps \ {snap}
      /\ timer'.of = "none" /\ timer'.todo = <<>> /\ timer' \in Timers
      /\ UNCHANGED <<clock, fires, since, target, manual, asleep, edits>>
  BY <1>1 DEF BlockInvalid, IInv, TypeOK, Timers
<1>3. /\ sched' \in [Schedule -> Row] /\ draft' \in Drafts
      /\ sched'[snap.of] = sched[snap.of] \/ sched'[snap.of].st = "blocked"
      /\ \A x \in Schedule \ {snap.of} : sched'[x] = sched[x]
      /\ behind' = behind \ {snap.of} /\ review' \subseteq review
      /\ \A d \in Draft : draft'[d] = draft[d] \/ draft'[d] = NoDraft
      /\ sched[snap.of].st = "deleted" => sched' = sched
  <2>1. CASE TimerWrite(snap.of, Blocked(sched[snap.of])) /\ snap.of \notin behind
    BY <1>1, <2>1, BlockedTyped, TimerWriteDoes DEF IInv, Snapped
  <2>2. CASE behind' = behind \ {snap.of} /\ UNCHANGED <<sched, draft, review>>
    BY <2>2 DEF IInv, TypeOK, Drafts
  <2>. QED BY <2>1, <2>2 DEF BlockInvalid
<1>4. faults' \in 0..MaxFaults
  BY FaultCounts DEF BlockInvalid, IInv
<1>5. TypeOK'
  BY <1>2, <1>3, <1>4 DEF IInv, TypeOK, Timers, Drafts
<1>6. TimerHolds'
  BY <1>1, <1>2, <1>3 DEF IInv, Sound, TimerHolds, Counted
<1>7. Chained'
  BY <1>2 DEF Chained
<1>8. ASSUME NEW other \in timer'.snaps PROVE Snapped(other)'
  <2>1. Snapped(other) /\ other.of # snap.of /\ other.of \in Schedule
    BY <1>1, <1>2 DEF IInv, TypeOK, Sound, Snapped
  <2>. QED BY <1>1, <1>2, <1>3, <2>1 DEF Snapped
<1>9. ASSUME NEW s \in Schedule PROVE Kept(s)'
  <2>1. Kept(s)
    BY DEF IInv, Sound
  <2>. QED BY <1>2, <1>3, <2>1 DEF Kept
<1>10. ASSUME NEW d \in Draft PROVE Current(d)'
  <2>1. Current(d)
    BY DEF IInv, Sound
  <2>2. \A s \in Schedule : sched[s].st # "none" => sched'[s].st # "none"
    BY <1>3
  <2>. QED BY <1>2, <1>3, <2>1, <2>2, NoDraftTyped DEF Current
<1>11. Standing
  BY <1>2, <1>3 DEF Standing
<1>. QED BY <1>5, <1>6, <1>7, <1>8, <1>9, <1>10, <1>11 DEF IInv, Sound

\* What the timer drops, it has done with.
LEMMA TimerLets ==
    ASSUME IInv, UNCHANGED <<clock, sched, draft, review, fires, since>>,
           timer' \in Timers, TypeOK',
           timer'.now <= timer.now, timer'.todo = <<>>, timer'.snaps \in {{}, timer.snaps},
           timer'.of \in {"none", timer.of},
           timer'.snaps = timer.snaps =>
              timer'.now = timer.now /\ behind' = behind \ ({timer.of} \ {timer'.of}),
           timer'.snaps # timer.snaps => timer'.of = "none" /\ behind' = {},
           timer'.pc = "batch" <=> timer'.of # "none",
           timer'.pc \notin {"tick", "batch"} => timer'.snaps = {}
    PROVE  IInv' /\ Standing
<1>1. TimerHolds'
  BY DEF IInv, TypeOK, Sound, TimerHolds, Counted, Timers
<1>2. Chained'
  BY DEF IInv, Sound, Chained
<1>3. ASSUME NEW snap \in timer'.snaps PROVE Snapped(snap)'
  <2>1. Snapped(snap) /\ snap.of # "none"
    BY SchedulesAssumption DEF IInv, TypeOK, Sound
  <2>. QED BY <2>1 DEF Snapped
<1>4. /\ \A s \in Schedule : Kept(s)'
      /\ \A d \in Draft : Current(d)'
  BY DEF IInv, Sound, Kept, Current
<1>. QED BY <1>1, <1>2, <1>3, <1>4 DEF IInv, Sound, Standing

LEMMA IdleTyped == Idle \in Timers /\ [Idle EXCEPT !.pc = "down", !.wake = FALSE] \in Timers
<1>1. <<>> \in Seq(Step) /\ 0 \in 0..Horizon
  BY SchedulesAssumption
<1>2. Idle \in Timers
  BY <1>1 DEF Idle, Timers
<1> DEFINE q == [Idle EXCEPT !.pc = "down"]
<1> DEFINE n == [q EXCEPT !.wake = FALSE]
<1>3. q \in Timers
  BY <1>2 DEF Timers
<1>4. [Idle EXCEPT !.pc = "down", !.wake = FALSE] = n
  BY DEF Idle
<1> HIDE DEF q
<1>5. n \in Timers
  BY <1>3 DEF Timers
<1> HIDE DEF n
<1>. QED BY <1>2, <1>4, <1>5

LEMMA FireRefusedKeeps == ASSUME IInv, FireRefused PROVE IInv' /\ Standing
<1>1. /\ UNCHANGED <<clock, sched, behind, draft, review, fires, since, target, manual>>
      /\ UNCHANGED <<asleep, edits, faults>>
      /\ timer' = [timer EXCEPT !.todo = <<>>] /\ timer.pc = "batch"
  BY DEF FireRefused, Working, table
<1>2. <<>> \in Seq(Step)
  OBVIOUS
<1>3. /\ timer' \in Timers /\ timer'.pc = "batch" /\ timer'.now = timer.now
      /\ timer'.snaps = timer.snaps /\ timer'.of = timer.of /\ timer'.todo = <<>>
  BY <1>1, <1>2 DEF IInv, TypeOK, Timers
<1>4. TypeOK'
  BY <1>1, <1>3 DEF IInv, TypeOK, Timers
<1>5. timer.of # "none" /\ timer.now \in Int
  BY <1>1 DEF IInv, TypeOK, Sound, TimerHolds
<1>. QED BY <1>1, <1>3, <1>4, <1>5, TimerLets

LEMMA DoneKeeps == ASSUME IInv, Done PROVE IInv' /\ Standing
<1>1. /\ UNCHANGED <<clock, sched, draft, review, fires, since, target, manual, asleep, edits, faults>>
      /\ timer' = [timer EXCEPT !.pc = "tick", !.of = "none"] /\ timer.pc = "batch" /\ timer.todo = <<>>
      /\ behind' = behind \ {timer.of}
  BY DEF Done
<1>2. /\ timer' \in Timers /\ timer'.pc = "tick" /\ timer'.now = timer.now /\ timer'.snaps = timer.snaps
      /\ timer'.of = "none" /\ timer'.todo = <<>>
  BY <1>1 DEF IInv, TypeOK, Timers
<1>3. TypeOK'
  BY <1>1, <1>2 DEF IInv, TypeOK, Timers
<1>4. timer.of # "none" /\ timer.now \in Int
  BY <1>1 DEF IInv, TypeOK, Sound, TimerHolds
<1>. QED BY <1>1, <1>2, <1>3, <1>4, TimerLets

\* With an empty timer there is no version to lose.
LEMMA NobodyBehind ==
    ASSUME IInv, timer.snaps = {}, timer.of = "none"
    PROVE  behind = {}
BY SchedulesAssumption DEF IInv, TypeOK, Sound, TimerHolds, Counted

LEMMA EndTickKeeps == ASSUME IInv, EndTick PROVE IInv' /\ Standing
<1>1. /\ UNCHANGED <<clock, sched, behind, draft, review, fires, since, target, manual, edits, faults>>
      /\ timer' = Idle /\ timer.pc = "tick" /\ timer.snaps = {} /\ asleep' \in {asleep, {}}
  BY DEF EndTick, AsleepAfter, table
<1>2. timer.of = "none" /\ timer.todo = <<>> /\ behind = {}
  BY <1>1, NobodyBehind DEF IInv, Sound, TimerHolds
<1>3. /\ timer' \in Timers /\ timer'.pc = "idle" /\ timer'.now = 0 /\ timer'.snaps = {}
      /\ timer'.of = "none" /\ timer'.todo = <<>>
  BY <1>1, IdleTyped DEF Idle
<1>4. TypeOK'
  BY <1>1, <1>3 DEF IInv, TypeOK, Timers
<1>5. TimerHolds'
  BY <1>1, <1>2, <1>3, SchedulesAssumption DEF TimerHolds, IInv, TypeOK
<1>6. Chained'
  BY <1>3 DEF Chained
<1>7. /\ \A s \in Schedule : Kept(s)'
      /\ \A d \in Draft : Current(d)'
  BY <1>1 DEF IInv, Sound, Kept, Current
<1>8. Standing
  BY <1>1 DEF Standing
<1>. QED BY <1>3, <1>4, <1>5, <1>6, <1>7, <1>8 DEF IInv, Sound

LEMMA CrashKeeps == ASSUME IInv, Crash PROVE IInv' /\ Standing
<1>1. /\ UNCHANGED <<clock, sched, draft, review, fires, since, target, asleep, edits>>
      /\ timer' = [Idle EXCEPT !.pc = "down", !.wake = FALSE] /\ manual' = {} /\ behind' = {}
      /\ faults' \in 0..MaxFaults
  BY FaultCounts DEF Crash, IInv
<1>2. /\ timer' \in Timers /\ timer'.pc = "down" /\ timer'.now = 0 /\ timer'.snaps = {}
      /\ timer'.of = "none" /\ timer'.todo = <<>>
  BY <1>1, IdleTyped DEF Idle
<1>3. TypeOK'
  BY <1>1, <1>2 DEF IInv, TypeOK, Timers
<1>4. TimerHolds'
  BY <1>1, <1>2, SchedulesAssumption DEF TimerHolds, IInv, TypeOK
<1>5. Chained'
  BY <1>2 DEF Chained
<1>6. /\ \A s \in Schedule : Kept(s)'
      /\ \A d \in Draft : Current(d)'
  BY <1>1 DEF IInv, Sound, Kept, Current
<1>7. Standing
  BY <1>1 DEF Standing
<1>. QED BY <1>2, <1>3, <1>4, <1>5, <1>6, <1>7 DEF IInv, Sound

LEMMA WakeTurnKeeps == ASSUME IInv, WakeTurn PROVE IInv' /\ Standing
<1>1. /\ UNCHANGED <<clock, sched, behind, draft, review, fires, since, target, manual, edits, faults>>
      /\ timer' = [timer EXCEPT !.fired = FALSE] /\ asleep' \subseteq Schedule
  BY DEF WakeTurn, table, IInv, TypeOK
<1>2. /\ timer' \in Timers /\ timer'.pc = timer.pc /\ timer'.now = timer.now
      /\ timer'.snaps = timer.snaps /\ timer'.of = timer.of /\ timer'.todo = timer.todo
  BY <1>1 DEF IInv, TypeOK, Timers
<1>3. TypeOK'
  BY <1>1, <1>2 DEF IInv, TypeOK, Timers
<1>4. TimerHolds' /\ Chained'
  BY <1>1, <1>2 DEF IInv, Sound, TimerHolds, Chained, Counted, Accepts, NextOccurrence
<1>5. \A snap \in timer'.snaps : Snapped(snap)'
  BY <1>1, <1>2 DEF IInv, Sound, Snapped
<1>6. /\ \A s \in Schedule : Kept(s)'
      /\ \A d \in Draft : Current(d)'
  BY <1>1 DEF IInv, Sound, Kept, Current
<1>7. Standing
  BY <1>1 DEF Standing
<1>. QED BY <1>3, <1>4, <1>5, <1>6, <1>7 DEF IInv, Sound

\* At a start nothing is counted.
LEMMA ReconcileKeeps == ASSUME IInv, NEW s \in Schedule, Reconcile(s) PROVE IInv' /\ Standing
<1>1. /\ timer.of = "none" /\ timer.snaps = {} /\ timer.todo = <<>> /\ behind = {}
      /\ sched[s] \in Row /\ sched[s].st = "active"
  BY NobodyBehind DEF Reconcile, IInv, TypeOK, Sound, TimerHolds
<1>2. /\ sched' \in [Schedule -> Row] /\ draft' \in Drafts /\ sched'[s].st = "blocked"
      /\ \A x \in Schedule \ {s} : sched'[x] = sched[x]
      /\ behind' = behind /\ review' \subseteq review
      /\ \A d \in Draft : draft'[d] = draft[d] \/ draft'[d] = NoDraft
      /\ UNCHANGED <<clock, fires, since, target, manual, timer, asleep, edits, faults>>
  BY <1>1, BlockedTyped, TimerWriteDoes DEF Reconcile, IInv
<1>3. TypeOK'
  BY <1>2 DEF IInv, TypeOK, Drafts
<1>4. TimerHolds' /\ Chained'
  BY <1>1, <1>2 DEF IInv, Sound, TimerHolds, Chained
<1>5. ASSUME NEW x \in Schedule PROVE Kept(x)'
  <2>1. Kept(x)
    BY DEF IInv, Sound
  <2>. QED BY <1>1, <1>2, <2>1 DEF Kept
<1>6. ASSUME NEW d \in Draft PROVE Current(d)'
  <2>1. Current(d)
    BY DEF IInv, Sound
  <2>2. \A x \in Schedule : sched[x].st # "none" => sched'[x].st # "none"
    BY <1>2
  <2>. QED BY <1>2, <2>1, <2>2, NoDraftTyped DEF Current
<1>7. Standing
  BY <1>1, <1>2 DEF Standing
<1>. QED BY <1>1, <1>2, <1>3, <1>4, <1>5, <1>6, <1>7 DEF IInv, Sound


\* A step of the batch: the occurrence at the cursor gets its fire, and the
\* cursor goes on to the next one, where the batch goes on too.
LEMMA WorkOff ==
    ASSUME IInv, timer.pc = "batch", timer.todo # <<>>, Accepts(timer.of),
           NEW new \in Row, TimerWrite(timer.of, new), new.def = sched[timer.of].def,
           \/ new.st = "blocked"
           \/ /\ new.cur = timer.todo[1].next
              /\ new.st = IF new.def.kind = "once" /\ new.cur = NoDue THEN "completed" ELSE "active",
           fires' \in [Schedule -> [Minute -> Fires]],
           fires'[timer.of][timer.todo[1].at] # "none",
           \A x \in Schedule, o \in Minute :
              (x # timer.of \/ o # timer.todo[1].at) => fires'[x][o] = fires[x][o],
           UNCHANGED <<clock, since>>,
           timer'.pc = "batch", timer'.now = timer.now, timer'.snaps = timer.snaps,
           timer'.of = timer.of, timer'.todo = Tail(timer.todo)
    PROVE  Sound' /\ Standing
<1> DEFINE s == timer.of
<1> DEFINE todo == timer.todo
<1> DEFINE at == todo[1].at
<1>1. /\ s \in Schedule /\ s # "none" /\ todo \in Seq(Step) /\ sched[s] \in Row
      /\ timer.now \in 0..Horizon /\ sched[s].st = "active" /\ clock \in 0..Horizon /\ timer.now <= clock
  BY DEF IInv, TypeOK, Sound, TimerHolds, Accepts
<1>2. Len(todo) \in Nat \ {0} /\ \A i \in 1..Len(todo) : todo[i] \in Step
  BY <1>1
<1>3. at \in Minute /\ at <= timer.now /\ todo[1] \in Step
  BY <1>2 DEF IInv, Sound, Chained, Step
<1>4. /\ at = sched[s].cur
      /\ sched[s].def.kind = "once" => Len(todo) = 1
      /\ \A i \in 1..Len(todo) :
            /\ todo[i].next = NextOccurrence(sched[s].def, todo[i].at)
            /\ i < Len(todo) => todo[i].next = todo[i + 1].at
  BY <1>1 DEF IInv, Sound, Chained
<1>5. /\ Tail(todo) \in Seq(Step) /\ Len(Tail(todo)) = Len(todo) - 1
      /\ \A i \in 1..Len(todo) - 1 : Tail(todo)[i] = todo[i + 1]
  BY <1>1, HeadTailProperties
<1>6. /\ sched'[s] = new /\ \A x \in Schedule \ {s} : sched'[x] = sched[x]
      /\ behind' = behind /\ review' \subseteq review
      /\ \A d \in Draft : draft'[d] = IF draft[d].to = s THEN NoDraft ELSE draft[d]
  BY <1>1, TimerWriteDoes DEF IInv
<1>7. Kept(s)
  BY <1>1 DEF IInv, Sound
<1>8. at \in 1..Horizon /\ sched[s].def.kind \in {"cron", "once"} /\ sched[s].def.at \in 0..Horizon + 1
  BY <1>1, <1>3, DefinitionTyped DEF Minute, Row
<1>9. new.st = "active" => new.def.kind = "cron" /\ new.cur = at + 1
  <2>1. new.st = "active" => new.cur = NextOccurrence(new.def, at)
    BY <1>2, <1>4
  <2>2. new.def.kind = "once" => new.def.at = at
    BY <1>1, <1>4, <1>7 DEF Kept
  <2>. QED BY <1>8, <2>1, <2>2 DEF NextOccurrence, NoDue
<1>10. new.st = "completed" => new.def.kind = "once" /\ new.def.at = at
  BY <1>1, <1>4, <1>7 DEF Kept
<1>11. fires'[s][at] # "none" /\ \A o \in Minute \ {at} : fires'[s][o] = fires[s][o]
  BY <1>1
<1> HIDE DEF at
<1>12. TimerHolds'
  BY <1>1, <1>6 DEF IInv, Sound, TimerHolds, Counted
<1>13. Chained'
  <2>1. \A i \in 1..Len(Tail(todo)) : i + 1 \in 1..Len(todo) /\ Tail(todo)[i] = todo[i + 1]
    BY <1>2, <1>5
  <2>2. \A i \in 1..Len(Tail(todo)) : Tail(todo)[i].at <= timer.now
    BY <2>1 DEF IInv, Sound, Chained
  <2>3. ASSUME Tail(todo) # <<>>, Accepts(s)'
        PROVE  /\ Tail(todo)[1].at = new.cur
               /\ new.def.kind = "once" => Len(Tail(todo)) = 1
               /\ \A i \in 1..Len(Tail(todo)) :
                     /\ Tail(todo)[i].next = NextOccurrence(new.def, Tail(todo)[i].at)
                     /\ i < Len(Tail(todo)) => Tail(todo)[i].next = Tail(todo)[i + 1].at
    <3>1. Len(Tail(todo)) # 0
      BY <1>5, <2>3, EmptySeq
    <3>2. 1 \in 1..Len(Tail(todo)) /\ 1 < Len(todo) /\ 1 \in 1..Len(todo)
      <4> DEFINE n == Len(todo)
      <4> DEFINE m == Len(Tail(todo))
      <4>1. n \in Nat /\ m = n - 1 /\ m # 0 /\ n # 0
        BY <1>2, <1>5, <3>1
      <4> HIDE DEF n, m
      <4>2. 1 \in 1..m /\ 1 < n /\ 1 \in 1..n
        BY <4>1
      <4>. QED BY <4>2 DEF n, m
    <3>3. new.st = "active"
      BY <1>6, <2>3 DEF Accepts
    <3>4. new.cur = todo[1].next
      BY <3>3
    <3>5. Tail(todo)[1].at = new.cur
      BY <1>4, <2>1, <3>2, <3>4
    <3>6. new.def.kind # "once"
      BY <1>9, <3>3
    <3>7. ASSUME NEW i \in 1..Len(Tail(todo)), i < Len(Tail(todo))
          PROVE  Tail(todo)[i].next = Tail(todo)[i + 1].at
      <4>1. i + 1 \in 1..Len(todo) /\ i + 1 < Len(todo) /\ i + 1 \in 1..Len(Tail(todo))
        BY <1>2, <1>5, <3>7
      <4>2. Tail(todo)[i] = todo[i + 1] /\ Tail(todo)[i + 1] = todo[i + 1 + 1]
        BY <2>1, <4>1
      <4>. QED BY <1>4, <4>1, <4>2
    <3>8. \A i \in 1..Len(Tail(todo)) : Tail(todo)[i].next = NextOccurrence(new.def, Tail(todo)[i].at)
      BY <1>4, <2>1
    <3>. QED BY <3>5, <3>6, <3>7, <3>8
  <2>4. sched'[s].st # "none"
    BY <1>6
  <2> DEFINE rest == Tail(todo)
  <2>5. timer'.todo = rest /\ timer'.of = s /\ timer'.now = timer.now /\ sched'[s] = new
    BY <1>6
  <2>6. Accepts(timer.of)' <=> Accepts(s)'
    BY <2>5 DEF Accepts
  <2>7. ASSUME rest # <<>>, Accepts(timer.of)'
        PROVE  /\ rest[1].at = new.cur
               /\ new.def.kind = "once" => Len(rest) = 1
               /\ \A i \in 1..Len(rest) :
                     /\ rest[i].next = NextOccurrence(new.def, rest[i].at)
                     /\ i < Len(rest) => rest[i].next = rest[i + 1].at
    BY <2>3, <2>6, <2>7
  <2>8. \A i \in 1..Len(rest) : rest[i].at <= timer.now
    BY <2>2
  <2> HIDE DEF rest, s, todo
  <2>9. (timer.of # "none" => sched[timer.of].st # "none")'
    BY <2>4, <2>5
  <2>10. (\A i \in 1..Len(timer.todo) : timer.todo[i].at <= timer.now)'
    BY <2>5, <2>8
  <2>11. (timer.of # "none" /\ timer.todo # <<>> /\ Accepts(timer.of) =>
             /\ timer.todo[1].at = sched[timer.of].cur
             /\ sched[timer.of].def.kind = "once" => Len(timer.todo) = 1)'
    BY <2>5, <2>7
  <2>12. (timer.of # "none" /\ timer.todo # <<>> /\ Accepts(timer.of) =>
             \A i \in 1..Len(timer.todo) :
                /\ timer.todo[i].next = NextOccurrence(sched[timer.of].def, timer.todo[i].at)
                /\ i < Len(timer.todo) => timer.todo[i].next = timer.todo[i + 1].at)'
    BY <2>5, <2>7
  <2>. QED BY <2>9, <2>10, <2>11, <2>12 DEF Chained
<1>14. ASSUME NEW snap \in timer'.snaps PROVE Snapped(snap)'
  <2>1. Snapped(snap) /\ snap.of \in Schedule /\ snap.of # s
    BY DEF IInv, TypeOK, Sound, Snapped
  <2>. QED BY <1>6, <2>1 DEF Snapped
<1>15. ASSUME NEW x \in Schedule PROVE Kept(x)'
  <2>1. CASE x = s
    <3>1. new.st # "none"
      OBVIOUS
    <3>2. ASSUME new.st = "active"
          PROVE  /\ new.cur # NoDue
                 /\ new.def.kind = "once" => new.cur = new.def.at
                 /\ \A o \in Minute : fires'[s][o] # "none" => o < new.cur
                 /\ \A o \in Occurrences(new.def) :
                       since[s] <= o /\ o < new.cur => fires'[s][o] # "none"
      <4>1. new.cur = at + 1 /\ new.def.kind = "cron"
        BY <1>9, <3>2
      <4>2. ASSUME NEW o \in Minute, fires'[s][o] # "none" PROVE o < new.cur
        <5>1. o # at => fires[s][o] # "none"
          BY <1>11, <4>2
        <5>2. o # at => o < at
          BY <1>1, <1>4, <1>7, <5>1 DEF Kept, at
        <5>. QED BY <1>8, <4>1, <5>2 DEF Minute
      <4>3. ASSUME NEW o \in Occurrences(new.def), since[s] <= o, o < new.cur
            PROVE  fires'[s][o] # "none"
        <5>1. o \in Minute /\ o \in Int /\ (o = at \/ o < at)
          BY <1>8, <4>1, <4>3 DEF Occurrences, Minute
        <5>2. o < at => fires[s][o] # "none"
          BY <1>1, <1>4, <1>7, <4>3 DEF Kept, at
        <5>. QED BY <1>8, <1>11, <5>1, <5>2
      <4>. QED BY <1>8, <4>1, <4>2, <4>3 DEF NoDue
    <3>3. new.st = "completed" => \A o \in Occurrences(new.def) : fires'[s][o] # "none"
      BY <1>10, <1>11 DEF Occurrences
    <3>4. \A o \in Minute : fires'[s][o] # "none" => o <= clock
      BY <1>1, <1>3, <1>7, <1>8, <1>11 DEF Kept
    <3>. QED BY <1>6, <2>1, <3>1, <3>2, <3>3, <3>4 DEF Kept
  <2>2. CASE x # s
    <3>1. Kept(x) /\ sched'[x] = sched[x] /\ \A o \in Minute : fires'[x][o] = fires[x][o]
      BY <1>6, <2>2 DEF IInv, Sound
    <3>2. \A o \in Occurrences(sched[x].def) : o \in Minute
      BY DEF Occurrences
    <3>. QED BY <1>6, <3>1, <3>2 DEF Kept
  <2>. QED BY <2>1, <2>2
<1>16. ASSUME NEW d \in Draft PROVE Current(d)'
  <2>1. CASE draft[d].to = s
    BY <1>6, <2>1, NoDraftTyped DEF Current
  <2>2. CASE draft[d].to # s
    BY <1>6, <2>2 DEF IInv, Sound, Current
  <2>. QED BY <2>1, <2>2
<1>17. Standing
  <2>1. ASSUME NEW x \in Schedule, NEW o \in Minute, fires[x][o] = "none", fires'[x][o] # "none"
        PROVE  sched[x].st = "active" /\ sched[x].cur = o
    <3>1. x = s /\ o = at
      BY <2>1 DEF at
    <3>. QED BY <1>1, <1>4, <3>1 DEF at
  <2>2. ASSUME NEW x \in Schedule, sched[x].st = "deleted"
        PROVE  sched'[x] = sched[x] /\ fires'[x] = fires[x]
    <3>1. x # s
      BY <1>1, <2>2
    <3>2. fires'[x] \in [Minute -> Fires] /\ fires[x] \in [Minute -> Fires]
      BY DEF IInv, TypeOK
    <3>3. \A o \in Minute : fires'[x][o] = fires[x][o]
      BY <3>1
    <3>4. fires'[x] = fires[x]
      BY <3>2, <3>3
    <3>. QED BY <1>6, <3>1, <3>4
  <2>. QED BY <2>1, <2>2 DEF Standing
<1>. QED BY <1>12, <1>13, <1>14, <1>15, <1>16, <1>17 DEF Sound


LEMMA SkipKeeps == ASSUME IInv, Skip PROVE IInv' /\ Standing
<1> DEFINE s == timer.of
<1> DEFINE todo == timer.todo
<1>1. /\ timer.pc = "batch" /\ todo # <<>> /\ todo \in Seq(Step) /\ s \in Schedule /\ sched[s] \in Row
      /\ UNCHANGED <<clock, since, target, manual, asleep, edits, faults>>
  BY DEF Skip, Working, IInv, TypeOK, Sound, TimerHolds
<1>2. Len(todo) \in Nat \ {0} /\ Head(todo) = todo[1] /\ todo[1] \in Step /\ todo[Len(todo)] \in Step
  BY <1>1
<1>3. todo[1].at \in Minute /\ todo[1].next \in 0..Horizon + 1
  BY <1>2 DEF Step
<1>4. CASE Accepts(s)
  <2> DEFINE new == Advance(sched[s], todo[1].next)
  <2>1. /\ new \in Row /\ new.def = sched[s].def /\ new.cur = todo[1].next
        /\ new.st = IF new.def.kind = "once" /\ new.cur = NoDue THEN "completed" ELSE "active"
    BY <1>1, <1>3, <1>4, AdvanceTyped DEF Accepts
  <2>2. /\ TimerWrite(s, new) /\ timer' = [timer EXCEPT !.todo = Tail(todo)]
        /\ fires' = IF fires[s][todo[1].at] = "none"
                    THEN [fires EXCEPT ![s][todo[1].at] = "skipped"] ELSE fires
    BY <1>2, <1>4 DEF Skip
  <2> HIDE DEF new
  <2>3. /\ fires' \in [Schedule -> [Minute -> Fires]] /\ fires'[s][todo[1].at] # "none"
        /\ \A x \in Schedule, o \in Minute :
              (x # s \/ o # todo[1].at) => fires'[x][o] = fires[x][o]
    BY <1>1, <1>3, <2>2 DEF IInv, TypeOK, Fires
  <2>4. /\ timer' \in Timers /\ timer'.pc = "batch" /\ timer'.now = timer.now
        /\ timer'.snaps = timer.snaps /\ timer'.of = s /\ timer'.todo = Tail(todo)
    BY <1>1, <2>2, HeadTailProperties DEF IInv, TypeOK, Timers
  <2>5. Sound' /\ Standing
    BY <1>1, <1>4, <2>1, <2>2, <2>3, <2>4, WorkOff
  <2>6. TypeOK'
    BY <1>1, <2>1, <2>2, <2>3, <2>4, TimerWriteDoes DEF IInv, TypeOK, Timers, Drafts
  <2>. QED BY <2>5, <2>6 DEF IInv
<1>5. CASE ~Accepts(s)
  <2>1. /\ UNCHANGED <<sched, behind, draft, review, fires>>
        /\ timer' = [timer EXCEPT !.todo = AfterRefusal(s)]
    BY <1>5 DEF Skip, table
  <2>2. /\ AfterRefusal(s) \in Seq(Step)
        /\ \A i \in 1..Len(AfterRefusal(s)) : AfterRefusal(s)[i] = todo[Len(todo)]
    <3>1. PICK e \in Step : e = todo[Len(todo)]
      BY <1>2
    <3>2. AfterRefusal(s) \in {<<>>, <<e>>}
      BY <3>1 DEF AfterRefusal
    <3>3. <<e>> \in Seq(Step) /\ \A i \in 1..Len(<<e>>) : <<e>>[i] = e
      OBVIOUS
    <3>4. <<>> \in Seq(Step) /\ 1..Len(<<>>) = {}
      OBVIOUS
    <3>. QED BY <3>1, <3>2, <3>3, <3>4
  <2>3. /\ timer' \in Timers /\ timer'.pc = "batch" /\ timer'.now = timer.now
        /\ timer'.snaps = timer.snaps /\ timer'.of = s /\ timer'.todo = AfterRefusal(s)
    BY <1>1, <2>1, <2>2 DEF IInv, TypeOK, Timers
  <2>4. TypeOK'
    BY <1>1, <2>1, <2>3 DEF IInv, TypeOK, Timers
  <2>5. TimerHolds'
    BY <1>1, <2>1, <2>3 DEF IInv, Sound, TimerHolds, Counted
  <2>6. todo[Len(todo)].at <= timer.now
    BY <1>2 DEF IInv, Sound, Chained
  <2>7. Chained'
    BY <1>1, <1>5, <2>1, <2>2, <2>3, <2>6 DEF IInv, Sound, Chained, Accepts
  <2>8. ASSUME NEW snap \in timer'.snaps PROVE Snapped(snap)'
    BY <2>1, <2>3 DEF IInv, Sound, Snapped
  <2>9. /\ \A x \in Schedule : Kept(x)'
        /\ \A d \in Draft : Current(d)'
    BY <1>1, <2>1 DEF IInv, Sound, Kept, Current
  <2>10. Standing
    BY <2>1 DEF Standing
  <2>. QED BY <2>4, <2>5, <2>7, <2>8, <2>9, <2>10 DEF IInv, Sound
<1>. QED BY <1>4, <1>5

LEMMA FireKeeps == ASSUME IInv, Fire PROVE IInv' /\ Standing
<1> DEFINE s == timer.of
<1> DEFINE todo == timer.todo
<1> DEFINE new == AfterFire(s, todo[1].next)
<1>1. /\ timer.pc = "batch" /\ todo # <<>> /\ todo \in Seq(Step) /\ s \in Schedule /\ sched[s] \in Row
      /\ UNCHANGED <<clock, since, target, manual, edits, faults>>
  BY DEF Fire, Working, IInv, TypeOK, Sound, TimerHolds
<1>2. Head(todo) = todo[1] /\ todo[1] \in Step
  BY <1>1
<1>3. todo[1].at \in Minute /\ todo[1].next \in 0..Horizon + 1
  BY <1>2 DEF Step
<1>4. Accepts(s)
  BY DEF Fire
<1>5. /\ new \in Row /\ new.def = sched[s].def
      /\ \/ new.st = "blocked"
         \/ /\ new.cur = todo[1].next
            /\ new.st = IF new.def.kind = "once" /\ new.cur = NoDue THEN "completed" ELSE "active"
  <2>1. CASE s \in target
    BY <1>1, <1>3, <1>4, <2>1, AdvanceTyped DEF Accepts, AfterFire
  <2>2. CASE s \notin target
    BY <1>1, <2>2, BlockedTyped DEF AfterFire
  <2>. QED BY <2>1, <2>2
<1>6. /\ TimerWrite(s, new) /\ fires' = [fires EXCEPT ![s][todo[1].at] = FireState(s)]
      /\ timer' = [timer EXCEPT !.todo = Tail(todo), !.fired = s \in target /\ timer.wake]
      /\ asleep' \subseteq Schedule
  BY <1>1, <1>2 DEF Fire, IInv, TypeOK
<1> HIDE DEF new
<1>7. /\ fires' \in [Schedule -> [Minute -> Fires]] /\ fires'[s][todo[1].at] # "none"
      /\ \A x \in Schedule, o \in Minute :
            (x # s \/ o # todo[1].at) => fires'[x][o] = fires[x][o]
  <2>1. FireState(s) \in Fires \ {"none"}
    BY DEF FireState, Fires
  <2>. QED BY <1>1, <1>3, <1>6, <2>1 DEF IInv, TypeOK
<1>8. /\ timer' \in Timers /\ timer'.pc = "batch" /\ timer'.now = timer.now
      /\ timer'.snaps = timer.snaps /\ timer'.of = s /\ timer'.todo = Tail(todo)
  <2> DEFINE fired == s \in target /\ timer.wake
  <2>1. fired \in BOOLEAN
    OBVIOUS
  <2>2. timer \in Timers /\ Tail(todo) \in Seq(Step)
    BY <1>1, HeadTailProperties DEF IInv, TypeOK, Timers
  <2> DEFINE q == [timer EXCEPT !.todo = Tail(todo)]
  <2> DEFINE n == [q EXCEPT !.fired = fired]
  <2>3. /\ q \in Timers /\ q.pc = timer.pc /\ q.now = timer.now /\ q.snaps = timer.snaps /\ q.of = s
        /\ q.todo = Tail(todo)
    BY <2>2 DEF Timers
  <2>4. timer' = n
    BY <1>6
  <2> HIDE DEF q, fired
  <2>5. /\ n \in Timers /\ n.pc = q.pc /\ n.now = q.now /\ n.snaps = q.snaps /\ n.of = q.of
        /\ n.todo = q.todo
    BY <2>1, <2>3 DEF Timers
  <2> HIDE DEF n
  <2>. QED BY <1>1, <2>3, <2>4, <2>5
<1>9. Sound' /\ Standing
  BY <1>1, <1>4, <1>5, <1>6, <1>7, <1>8, WorkOff
<1>10. TypeOK'
  BY <1>1, <1>5, <1>6, <1>7, <1>8, TimerWriteDoes DEF IInv, TypeOK, Timers, Drafts
<1>. QED BY <1>9, <1>10 DEF IInv

-----------------------------------------------------------------------------
(***************************************************************************)
(* The invariant.                                                          *)
(***************************************************************************)
LEMMA Initially == Init => IInv
<1>. SUFFICES ASSUME Init PROVE IInv
  OBVIOUS
<1>1. NoRow \in Row /\ NoRow.st = "none"
  BY SchedulesAssumption DEF NoRow, Row, State, NoDue
<1>2. TypeOK
  BY <1>1, IdleTyped, NoDraftTyped, SchedulesAssumption DEF Init, TypeOK, Timers, Fires
<1>3. TimerHolds /\ Chained
  BY SchedulesAssumption DEF Init, TimerHolds, Chained, Idle
<1>4. \A snap \in timer.snaps : Snapped(snap)
  BY DEF Init, Idle
<1>5. \A s \in Schedule : Kept(s)
  BY <1>1 DEF Init, Kept
<1>6. \A d \in Draft : Current(d)
  BY NoDraftTyped DEF Init, Current
<1>. QED BY <1>2, <1>3, <1>4, <1>5, <1>6 DEF IInv, Sound

LEMMA TimerStepKeeps == ASSUME IInv, TimerStep PROVE IInv' /\ Standing
<1>1. CASE Tick
  BY <1>1, BeginTickKeeps DEF Tick
<1>2. CASE Restore
  BY <1>2, BeginTickKeeps DEF Restore
<1>3. CASE Skip \/ Fire \/ FireRefused
  BY <1>3, SkipKeeps, FireKeeps, FireRefusedKeeps
<1>4. CASE WakeTurn \/ Done \/ EndTick
  BY <1>4, WakeTurnKeeps, DoneKeeps, EndTickKeeps
<1>5. CASE \E snap \in timer.snaps, onTime \in BOOLEAN : Process(snap, onTime)
  BY <1>5, ProcessKeeps
<1>6. CASE \E s \in Schedule : Reconcile(s)
  BY <1>6, ReconcileKeeps
<1>. QED BY <1>1, <1>2, <1>3, <1>4, <1>5, <1>6 DEF TimerStep

LEMMA OwnerStepKeeps == ASSUME IInv, OwnerStep PROVE IInv' /\ Standing
<1>1. CASE \E d \in Draft, def \in Definition : CreateDraft(d, def) \/ ToolDraft(d, def)
  BY <1>1, CreateDraftKeeps DEF ToolDraft
<1>2. CASE \E d \in Draft, s \in Schedule, def \in Definition : UpdateDraft(d, s, def)
  BY <1>2, UpdateDraftKeeps
<1>3. CASE \E d \in Draft : CloseDraft(d)
  BY <1>3, CloseDraftKeeps
<1>4. CASE \E d \in Draft, s \in Schedule : ConfirmCreate(d, s) \/ ConfirmUpdate(d, s)
  BY <1>4, ConfirmCreateKeeps, ConfirmUpdateKeeps
<1>5. CASE \E s \in Schedule : Pause(s) \/ Resume(s) \/ PrepareDelete(s) \/ CloseReview(s)
                               \/ ConfirmDelete(s) \/ RunNow(s)
  BY <1>5, PauseKeeps, ResumeKeeps, ReviewKeeps, ConfirmDeleteKeeps, RunNowKeeps
<1>. QED BY <1>1, <1>2, <1>3, <1>4, <1>5 DEF OwnerStep

LEMMA StutterKeeps == ASSUME IInv, UNCHANGED vars PROVE IInv' /\ Standing
<1>1. /\ UNCHANGED <<clock, sched, behind, draft, review, fires, since, target, manual, timer>>
      /\ UNCHANGED <<asleep, edits, faults>>
  BY DEF vars, table
<1>2. TypeOK'
  BY <1>1 DEF IInv, TypeOK
<1>. QED BY <1>1, <1>2, RestAlone DEF IInv

LEMMA StepsKeep == ASSUME IInv, [Next]_vars PROVE IInv' /\ Standing
<1>1. CASE Pass \/ TimerStep \/ OwnerStep \/ Crash
  BY <1>1, PassKeeps, TimerStepKeeps, OwnerStepKeeps, CrashKeeps
<1>2. CASE \E snap \in timer.snaps : BlockInvalid(snap)
  BY <1>2, BlockInvalidKeeps
<1>3. CASE \E s \in Schedule : WakeRun(s) \/ TargetLost(s) \/ TargetBack(s) \/ TurnUndeliverable(s)
  BY <1>3, TargetKeeps, TurnUndeliverableKeeps
<1>4. CASE UNCHANGED vars
  BY <1>4, StutterKeeps
<1>. QED BY <1>1, <1>2, <1>3, <1>4 DEF Next

\* The coordinator never loses its place: what it has read, what it is working
\* off and what a draft previews fit the rows as long as nobody else writes them.
THEOREM InductiveInvariant == Spec => []IInv
<1>1. IInv /\ [Next]_vars => IInv'
  BY StepsKeep
<1>. QED BY Initially, <1>1, PTL DEF Spec

\* The rows, drafts and fires keep their types, and so does the timer's state.
THEOREM TypeCorrect == Spec => []TypeOK
<1>1. IInv => TypeOK
  BY DEF IInv
<1>. QED BY InductiveInvariant, <1>1, PTL

\* No occurrence is lost without a trace between the cursor of the owner's last
\* command and the timer's, with any number of occurrences due and any cap on a
\* tick, over every crash and every command in between (_process_due,
\* record_skipped, materialize).
THEOREM NoneIsMissed == Spec => []NoneMissed
<1>1. IInv => NoneMissed
  BY SchedulesAssumption DEF IInv, TypeOK, Sound, Kept, NoneMissed
<1>. QED BY InductiveInvariant, <1>1, PTL

\* The cursor of an active Schedule lies after every occurrence that has a fire
\* (materialize, advance).
THEOREM CursorStaysAhead == Spec => []CursorAhead
<1>1. IInv => CursorAhead
  BY DEF IInv, Sound, Kept, CursorAhead
<1>. QED BY InductiveInvariant, <1>1, PTL

\* Nothing is fired that the row in the table does not stand at, however old the
\* snapshot of the tick is (the version that materialize expects).
THEOREM FiresOnlyAtCursor == Spec => FiresAtCursor
<1>1. IInv /\ [Next]_vars => Standing
  BY StepsKeep
<1>2. Standing => \A s \in Schedule, o \in Minute :
        fires[s][o] = "none" /\ fires'[s][o] # "none" => sched[s].st = "active" /\ sched[s].cur = o
  BY DEF Standing
<1>. QED BY InductiveInvariant, <1>1, <1>2, PTL DEF Spec, FiresAtCursor

\* A deleted Schedule stays deleted, and its fires stay as they are.
THEOREM DeletedStays == Spec => DeletedIsFinal
<1>1. IInv /\ [Next]_vars => Standing
  BY StepsKeep
<1>2. Standing => \A s \in Schedule :
        sched[s].st = "deleted" => sched'[s] = sched[s] /\ fires'[s] = fires[s]
  BY DEF Standing
<1>. QED BY InductiveInvariant, <1>1, <1>2, PTL DEF Spec, DeletedIsFinal
================================================================================
