----------------------------- MODULE Sessions_proofs ----------------------------
(***************************************************************************)
(* Proofs about Sessions: types, that what the provider did stays behind a *)
(* barrier or a fence, and that the owner's answers are true and stand,    *)
(* for any number of interactions, revisions and failures.                 *)
(***************************************************************************)
EXTENDS Sessions, TLAPS

\* Where a task stands before and after it has recorded its intent.
Waiting == {"wait", "prep", "ready"}
Calling == {"call", "commit", "undo", "mark"}

\* Nothing is known to be wrong with a drift: the thread is gone, or a barrier
\* was cleared under it.
Excused == stolen \/ conv.st = "deleted"
Calm == drift = "no" \/ Excused

\* What an intent, its task, its request and its barrier say of each other.
Consistent(i) ==
    /\ intent[i].st \in {"none", "accepted"} => asked[i] = "no" /\ conv.by # i /\ looked # i
    /\ intent[i].st \in {"none", "reconciling"} => task[i].pc = "none"
    /\ task[i].pc \in Waiting => intent[i].st = "accepted"
    /\ task[i].pc = "prep" => intent[i].cmd \in Recovery
    /\ task[i].pc \in Calling =>
          /\ intent[i].st = "effect_in_flight"
          /\ conv.by = i \/ (conv.by = none /\ stolen)
    /\ task[i].pc = "call" => asked[i] \in {"asked", "done"}
    /\ task[i].pc = "commit" => asked[i] = "done"
    /\ task[i].pc = "undo" => asked[i] = "asked"
    /\ task[i].pc = "ok" /\ intent[i].cmd \notin Local \cup {"websearch"} => asked[i] = "done"
    /\ conv.by = i => conv.bar = BarrierOf(intent[i].cmd)
    /\ looked = i => task[i].pc \notin Held

\* Until a task has asked the provider, and until the provider has done it,
\* nothing has drifted.
Clean(i) ==
    /\ task[i].pc = "ready" /\ (conv.bar = "none" \/ intent[i].cmd \notin Recovery) => Calm
    /\ task[i].pc \in {"call", "undo"} /\ asked[i] = "asked" => Calm

\* One answer is true.
TrueAnswer(i) ==
    /\ asked[i] # "again"
    /\ intent[i].st = "succeeded" /\ intent[i].cmd \notin Local \cup {"websearch"}
        => asked[i] = "done"
    /\ intent[i].st \in {"rejected", "failed"} => asked[i] # "done"

\* One task at a time has the Conversation's lock.
OneHolder == \A i, j \in Intent : task[i].pc \in Held /\ task[j].pc \in Held => i = j

\* The barrier, the drift it hides, and what the monitor has found.
Barred ==
    /\ conv.bar = "none" <=> conv.by = none
    /\ drift # "no" => conv.bar # "none" \/ conv.st \in {"blocked", "deleted"} \/ stolen
    /\ drift = "activity" => thread = "compacting"
    /\ conv.bar = "compact" => drift # "change" \/ Excused
    /\ monitor = "idle" /\ looked # none /\ looked = conv.by => Calm

\* What no step may take back: an answer, and the deletion of the Conversation.
Standing ==
    /\ \A i \in Intent : intent[i].st \in Final => intent'[i] = intent[i]
    /\ conv.st = "deleted" => conv'.st = "deleted"

IInv ==
    /\ TypeOK /\ OneRevision /\ OneHolder /\ Barred
    /\ \A i \in Intent : Consistent(i) /\ Clean(i) /\ TrueAnswer(i)

-----------------------------------------------------------------------------
(***************************************************************************)
(* The types of the rows, and what the helpers of the actions do to them.  *)
(***************************************************************************)
ConvRow == [st : {"active", "uninitialized", "archived", "blocked", "deleted"}, act : 0..MaxRev,
            bar : {"none", "compact", "unknown_effect"}, by : Intent \cup {none}]
IntentSt == Final \cup {"none", "accepted", "effect_in_flight", "reconciling"}
Intents == [Intent -> [st : IntentSt, cmd : Command \cup {"set"}]]
Pc == Held \cup {"none", "wait", "ok", "error"}
Tasks == [Intent -> [pc : Pc, to : 0..MaxRev]]

LEMMA Types ==
    TypeOK <=> /\ conv \in ConvRow /\ intent \in Intents /\ task \in Tasks
               /\ rev \in [Revision -> {"none", "active", "superseded", "archived"}]
               /\ asked \in [Intent -> {"no", "asked", "done", "again"}]
               /\ drift \in {"no", "change", "activity"} /\ thread \in {"idle", "compacting"}
               /\ monitor \in {"off", "look", "idle", "block", "dead"}
               /\ looked \in Intent \cup {none}
               /\ busy \in BOOLEAN /\ stolen \in BOOLEAN /\ faults \in 0..MaxFaults
BY DEF TypeOK, ConvRow, IntentSt, Intents, Pc, Tasks

LEMMA ZeroRev == 0 \in 0..MaxRev
BY SessionsAssumption

LEMMA GotoMoves ==
    ASSUME task \in Tasks, NEW i \in Intent, NEW pc \in Pc, Goto(i, pc)
    PROVE  /\ task' \in Tasks /\ task'[i].pc = pc /\ task'[i].to = task[i].to
           /\ \A j \in Intent \ {i} : task'[j] = task[j]
BY DEF Goto, Tasks

LEMMA AnsweredChanges ==
    ASSUME intent \in Intents, NEW i \in Intent \cup {none}, NEW st \in IntentSt
    PROVE  /\ Answered(i, st) \in Intents
           /\ \A j \in Intent : Answered(i, st)[j].cmd = intent[j].cmd
           /\ \A j \in Intent : j # i => Answered(i, st)[j] = intent[j]
           /\ i \in Intent => Answered(i, st)[i].st = st
BY SessionsAssumption DEF Answered, Intents

LEMMA FencedChanges ==
    ASSUME conv \in ConvRow
    PROVE  /\ Fenced(conv) \in ConvRow /\ Fenced(conv).act = conv.act
           /\ Fenced(conv).bar = conv.bar /\ Fenced(conv).by = conv.by
           /\ Fenced(conv).st = IF conv.st = "deleted" THEN "deleted" ELSE "blocked"
BY DEF Fenced, ConvRow

LEMMA ClearedChanges ==
    ASSUME conv \in ConvRow
    PROVE  /\ Cleared(conv) \in ConvRow /\ Cleared(conv).act = conv.act
           /\ Cleared(conv).bar = "none" /\ Cleared(conv).by = none /\ Cleared(conv).st = conv.st
BY DEF Cleared, ConvRow

LEMMA FaultCounts == ASSUME TypeOK, NEW event, Fault(event) PROVE faults' \in 0..MaxFaults
BY SessionsAssumption DEF TypeOK, Fault

LEMMA OneActive ==
    ASSUME TypeOK, NEW r \in Revision
    PROVE  {s \in Revision : Activated(r)[s] = "active"} = {r}
BY DEF TypeOK, Activated


\* A task that is refused has asked nobody for anything.
LEMMA RefuseKeeps == ASSUME IInv, NEW i \in Intent, task[i].pc \in Waiting, Refuse(i)
                     PROVE  IInv' /\ Standing
<1>1. /\ task' \in Tasks /\ task'[i].pc = "error" /\ \A p \in Intent \ {i} : task'[p] = task[p]
  BY Types, GotoMoves DEF IInv, Pc, Held, Refuse
<1>2. UNCHANGED <<conv, rev, intent, asked, drift, thread, monitor, looked, busy, stolen, faults>>
  BY DEF Refuse, world, watch
<1>3. TypeOK'
  BY <1>1, <1>2, SessionsAssumption DEF IInv, TypeOK, ConvRow, Intents, IntentSt, Tasks, Pc
<1>4. OneRevision'
  BY <1>1, <1>2, SessionsAssumption DEF IInv, TypeOK, OneRevision
<1>5. OneHolder'
  BY <1>1, <1>2, SessionsAssumption DEF IInv, TypeOK, OneHolder, Held
<1>6. Barred'
  BY <1>1, <1>2, SessionsAssumption DEF IInv, TypeOK, OneHolder, Consistent, Clean, Barred,
       Calm, Excused, BarrierOf, Waiting, Calling, Held, Recovery, Local
<1>7. ASSUME NEW j \in Intent PROVE Consistent(j)'
  <2>1. CASE j = i
    BY <1>1, <1>2, <2>1, SessionsAssumption DEF IInv, TypeOK, OneHolder, Barred, Consistent,
         Waiting, Calling, Recovery, Local, Held, BarrierOf, Final
  <2>2. CASE j # i
    BY <1>1, <1>2, <2>2, SessionsAssumption DEF IInv, TypeOK, OneHolder, Barred, Consistent,
         Waiting, Calling, Recovery, Local, Held, BarrierOf, Final
  <2>. QED BY <2>1, <2>2
<1>8. ASSUME NEW j \in Intent PROVE Clean(j)'
  BY <1>1, <1>2, SessionsAssumption DEF IInv, TypeOK, OneHolder, Barred, Consistent, Clean,
       Calm, Excused, Waiting, Calling, Recovery, Local, Held, BarrierOf
<1>9. ASSUME NEW j \in Intent PROVE TrueAnswer(j)'
  BY <1>1, <1>2, SessionsAssumption DEF IInv, TypeOK, Consistent, TrueAnswer, Waiting, Calling,
       Local, Final, OneHolder, Held
<1>10. Standing
  BY <1>1, <1>2, SessionsAssumption DEF IInv, TypeOK, Standing, Consistent, Waiting, Calling,
       Final
<1>. QED BY <1>3, <1>4, <1>5, <1>6, <1>7, <1>8, <1>9, <1>10 DEF IInv

LEMMA AcceptKeeps == ASSUME IInv, NEW i \in Intent, NEW cmd \in Command, Accept(i, cmd)
    PROVE IInv' /\ Standing
<1>1. TypeOK'
  BY SessionsAssumption DEF IInv, TypeOK, Held, Final, Accept, Acceptable, Goto, world, watch
<1>2. OneRevision'
  BY SessionsAssumption DEF IInv, TypeOK, OneRevision, Accept, Acceptable, Goto, world, watch
<1>3. OneHolder'
  BY SessionsAssumption DEF IInv, TypeOK, OneHolder, Held, Accept, Acceptable, Goto, world,
       watch
<1>4. Barred'
  BY SessionsAssumption DEF IInv, TypeOK, OneHolder, Consistent, Clean, Barred, Calm, Excused,
       BarrierOf, Waiting, Calling, Held, Recovery, Local, Accept, Acceptable, Goto, world,
       watch
<1>5. ASSUME NEW j \in Intent PROVE Consistent(j)'
  BY SessionsAssumption DEF IInv, TypeOK, OneHolder, Barred, Consistent, Waiting, Calling,
       Recovery, Local, Held, BarrierOf, Final, Accept, Acceptable, Goto, world, watch
<1>6. ASSUME NEW j \in Intent PROVE Clean(j)'
  BY SessionsAssumption DEF IInv, TypeOK, OneHolder, Barred, Consistent, Clean, Calm, Excused,
       Waiting, Calling, Recovery, Local, Held, BarrierOf, Accept, Acceptable, Goto, world,
       watch
<1>7. ASSUME NEW j \in Intent PROVE TrueAnswer(j)'
  BY SessionsAssumption DEF IInv, TypeOK, Consistent, TrueAnswer, Waiting, Calling, Local,
       Final, OneHolder, Held, Accept, Acceptable, Goto, world, watch
<1>8. Standing
  BY SessionsAssumption DEF IInv, TypeOK, Standing, Consistent, Waiting, Calling, Final, Accept,
       Acceptable, Goto, world, watch
<1>. QED BY <1>1, <1>2, <1>3, <1>4, <1>5, <1>6, <1>7, <1>8 DEF IInv

LEMMA StartKeeps == ASSUME IInv, NEW i \in Intent, Start(i) PROVE IInv' /\ Standing
<1>1. CASE Refuse(i)
  BY <1>1, RefuseKeeps DEF Start, Waiting
<1>2. CASE Admits(intent[i].cmd) /\ ~Refuse(i)
  <2>1. /\ task[i].pc = "wait" /\ \A p \in Intent : task[p].pc \notin Held
        /\ conv.st # "deleted"
        /\ intent[i].cmd \in Recovery \/ (conv.st # "blocked" /\ conv.bar = "none")
    BY <1>2 DEF Start, Admits, Free
  <2>2. /\ task' \in Tasks /\ task'[i].pc = IF conv.st = "blocked" THEN "prep" ELSE "ready"
        /\ \A p \in Intent \ {i} : task'[p] = task[p]
    BY <1>2, Types, GotoMoves DEF IInv, Pc, Held, Start
  <2>3. UNCHANGED <<conv, rev, intent, asked, drift, thread, monitor, looked, busy, stolen, faults>>
    BY <1>2 DEF Start, world, watch
  <2>4. TypeOK'
    BY <2>1, <2>2, <2>3, SessionsAssumption DEF IInv, TypeOK, ConvRow, Intents, IntentSt, Tasks,
         Pc
  <2>5. OneRevision'
    BY <2>1, <2>2, <2>3, SessionsAssumption DEF IInv, TypeOK, OneRevision
  <2>6. OneHolder'
    BY <2>1, <2>2, <2>3, SessionsAssumption DEF IInv, TypeOK, OneHolder, Held
  <2>7. Barred'
    BY <2>1, <2>2, <2>3, SessionsAssumption DEF IInv, TypeOK, OneHolder, Consistent, Clean,
         Barred, Calm, Excused, BarrierOf, Waiting, Calling, Held, Recovery, Local
  <2>8. ASSUME NEW j \in Intent PROVE Consistent(j)'
    BY <2>1, <2>2, <2>3, SessionsAssumption DEF IInv, TypeOK, OneHolder, Barred, Consistent,
         Waiting, Calling, Recovery, Local, Held, BarrierOf, Final
  <2>9. ASSUME NEW j \in Intent PROVE Clean(j)'
    BY <2>1, <2>2, <2>3, SessionsAssumption DEF IInv, TypeOK, OneHolder, Barred, Consistent,
         Clean, Calm, Excused, Waiting, Calling, Recovery, Local, Held, BarrierOf
  <2>10. ASSUME NEW j \in Intent PROVE TrueAnswer(j)'
    BY <2>1, <2>2, <2>3, SessionsAssumption DEF IInv, TypeOK, Consistent, TrueAnswer, Waiting,
         Calling, Local, Final, OneHolder, Held
  <2>11. Standing
    BY <2>1, <2>2, <2>3, SessionsAssumption DEF IInv, TypeOK, Standing, Consistent, Waiting,
         Calling, Final
  <2>. QED BY <2>4, <2>5, <2>6, <2>7, <2>8, <2>9, <2>10, <2>11 DEF IInv
<1>. QED BY <1>1, <1>2 DEF Start

LEMMA PrepareKeeps == ASSUME IInv, NEW i \in Intent, Prepare(i) PROVE IInv' /\ Standing
<1>1. /\ task \in Tasks /\ conv \in ConvRow /\ intent \in Intents /\ task[i].pc = "prep"
      /\ task' \in Tasks /\ task'[i].pc = "ready"
      /\ \A p \in Intent \ {i} : task'[p] = task[p]
  BY Types, GotoMoves DEF IInv, Pc, Held, Prepare
<1>2. UNCHANGED <<rev, asked, thread, monitor, looked, busy, stolen, faults>>
  BY DEF Prepare, watch
<1>3. conv.st # "blocked" => UNCHANGED <<conv, intent, drift>>
  BY DEF Prepare
<1>4. conv.st = "blocked" =>
        /\ drift' = "no"
        /\ conv' \in ConvRow /\ conv'.bar = "none" /\ conv'.by = none
            /\ conv'.act \in {0, conv.act}
        /\ conv'.st \in {"active", "uninitialized"}
  <2>. DEFINE c == Cleared(conv)
  <2>1. c \in ConvRow /\ c.act = conv.act /\ c.bar = "none" /\ c.by = none
    BY <1>1, ClearedChanges
  <2>2. conv.st = "blocked" => drift' = "no"
            /\ conv' \in {[c EXCEPT !.st = "uninitialized", !.act = 0], [c EXCEPT !.st = "active"]}
    BY DEF Prepare
  <2>. HIDE DEF c
  <2>. QED BY <2>1, <2>2, ZeroRev DEF ConvRow
<1>5. /\ intent' \in Intents /\ \A p \in Intent : intent'[p].cmd = intent[p].cmd
      /\ \A p \in Intent :
            \/ intent'[p] = intent[p]
            \/ p = conv.by /\ intent'[p].st = "unknown"
                /\ intent[p].st \in {"effect_in_flight", "reconciling"}
  <2>1. intent' = intent \/ (intent[conv.by].st \in {"effect_in_flight", "reconciling"}
            /\ conv.by # none /\ intent' = Answered(conv.by, "unknown"))
    BY DEF Prepare, MayAnswer, Answered
  <2>2. conv.by \in Intent \cup {none} /\ "unknown" \in IntentSt
    BY <1>1 DEF ConvRow, IntentSt, Final
  <2>3. CASE intent' = intent
    BY <1>1, <2>3
  <2>4. CASE intent[conv.by].st \in {"effect_in_flight", "reconciling"}
            /\ intent' = Answered(conv.by, "unknown")
    BY <1>1, <2>2, <2>4, AnsweredChanges
  <2>. QED BY <2>1, <2>3, <2>4
<1>6. TypeOK'
  BY <1>1, <1>2, <1>3, <1>4, <1>5, SessionsAssumption DEF IInv, TypeOK, ConvRow, Intents,
       IntentSt, Tasks, Pc
<1>7. OneRevision'
  BY <1>1, <1>2, <1>3, <1>4, <1>5, SessionsAssumption DEF IInv, TypeOK, OneRevision
<1>8. OneHolder'
  BY <1>1, <1>2, <1>3, <1>4, <1>5, SessionsAssumption DEF IInv, TypeOK, OneHolder, Held
<1>9. Barred'
  BY <1>1, <1>2, <1>3, <1>4, <1>5, SessionsAssumption DEF IInv, TypeOK, OneHolder, Consistent,
       Clean, Barred, Calm, Excused, BarrierOf, Waiting, Calling, Held, Recovery, Local
<1>10. ASSUME NEW j \in Intent PROVE Consistent(j)'
  BY <1>1, <1>2, <1>3, <1>4, <1>5, SessionsAssumption DEF IInv, TypeOK, OneHolder, Barred,
       Consistent, Waiting, Calling, Recovery, Local, Held, BarrierOf, Final
<1>11. ASSUME NEW j \in Intent PROVE Clean(j)'
  BY <1>1, <1>2, <1>3, <1>4, <1>5, SessionsAssumption DEF IInv, TypeOK, OneHolder, Barred,
       Consistent, Clean, Calm, Excused, Waiting, Calling, Recovery, Local, Held, BarrierOf
<1>12. ASSUME NEW j \in Intent PROVE TrueAnswer(j)'
  BY <1>1, <1>2, <1>3, <1>4, <1>5, SessionsAssumption DEF IInv, TypeOK, Consistent, TrueAnswer,
       Waiting, Calling, Local, Final, OneHolder, Held
<1>13. Standing
  BY <1>1, <1>2, <1>3, <1>4, <1>5, SessionsAssumption DEF IInv, TypeOK, Standing, Consistent,
       Waiting, Calling, Final
<1>. QED BY <1>6, <1>7, <1>8, <1>9, <1>10, <1>11, <1>12, <1>13 DEF IInv

LEMMA NotReadyKeeps == ASSUME IInv, NEW i \in Intent, NotReady(i) PROVE IInv' /\ Standing
BY RefuseKeeps DEF NotReady, Waiting

LEMMA ChoiceRefusedKeeps == ASSUME IInv, NEW i \in Intent, ChoiceRefused(i)
    PROVE IInv' /\ Standing
BY RefuseKeeps DEF ChoiceRefused, Waiting

LEMMA MistakenKeeps == ASSUME IInv, NEW i \in Intent, Mistaken(i) PROVE IInv' /\ Standing
<1>1. /\ task \in Tasks /\ conv \in ConvRow /\ intent \in Intents /\ task[i].pc = "ready"
      /\ task' \in Tasks /\ task'[i].pc = "error"
      /\ \A p \in Intent \ {i} : task'[p] = task[p]
  BY Types, GotoMoves DEF IInv, Pc, Held, Mistaken
<1>2. /\ conv' \in ConvRow /\ conv'.act = conv.act /\ conv'.bar = conv.bar /\ conv'.by = conv.by
      /\ conv'.st = conv.st \/ (conv.st # "deleted" /\ conv'.st = "blocked")
  BY Types, FencedChanges DEF IInv, Mistaken
<1>3. faults' \in 0..MaxFaults
  BY Types, FaultCounts DEF IInv, Mistaken
<1>4. UNCHANGED <<rev, intent, asked, drift, thread, monitor, looked, busy, stolen>>
  BY DEF Mistaken, world, watch
<1>5. TypeOK'
  BY <1>1, <1>2, <1>3, <1>4, SessionsAssumption DEF IInv, TypeOK, ConvRow, Intents, IntentSt,
       Tasks, Pc
<1>6. OneRevision'
  BY <1>1, <1>2, <1>3, <1>4, SessionsAssumption DEF IInv, TypeOK, OneRevision
<1>7. OneHolder'
  BY <1>1, <1>2, <1>3, <1>4, SessionsAssumption DEF IInv, TypeOK, OneHolder, Held
<1>8. Barred'
  BY <1>1, <1>2, <1>3, <1>4, SessionsAssumption DEF IInv, TypeOK, OneHolder, Consistent, Clean,
       Barred, Calm, Excused, BarrierOf, Waiting, Calling, Held, Recovery, Local
<1>9. ASSUME NEW j \in Intent PROVE Consistent(j)'
  BY <1>1, <1>2, <1>3, <1>4, SessionsAssumption DEF IInv, TypeOK, OneHolder, Barred, Consistent,
       Waiting, Calling, Recovery, Local, Held, BarrierOf, Final
<1>10. ASSUME NEW j \in Intent PROVE Clean(j)'
  BY <1>1, <1>2, <1>3, <1>4, SessionsAssumption DEF IInv, TypeOK, OneHolder, Barred, Consistent,
       Clean, Calm, Excused, Waiting, Calling, Recovery, Local, Held, BarrierOf
<1>11. ASSUME NEW j \in Intent PROVE TrueAnswer(j)'
  BY <1>1, <1>2, <1>3, <1>4, SessionsAssumption DEF IInv, TypeOK, Consistent, TrueAnswer,
       Waiting, Calling, Local, Final, OneHolder, Held
<1>12. Standing
  BY <1>1, <1>2, <1>3, <1>4, SessionsAssumption DEF IInv, TypeOK, Standing, Consistent, Waiting,
       Calling, Final
<1>. QED BY <1>5, <1>6, <1>7, <1>8, <1>9, <1>10, <1>11, <1>12 DEF IInv

LEMMA BeginKeeps == ASSUME IInv, NEW i \in Intent, NEW to \in 0..MaxRev, Begin(i, to)
    PROVE IInv' /\ Standing
<1>1. CASE ~MayBegin(i)
  BY <1>1, RefuseKeeps DEF Begin, Waiting
<1>2. CASE MayBegin(i)
  <2>1. /\ task \in Tasks /\ conv \in ConvRow /\ intent \in Intents /\ task[i].pc = "ready"
        /\ intent[i].cmd \notin Local /\ intent[i].st = "accepted" /\ asked[i] = "no"
        /\ conv.bar = "none" /\ conv.by # i
    BY <1>2, Types DEF IInv, Begin, MayBegin, Consistent, Waiting
  <2>2. /\ task' \in Tasks /\ task'[i].pc = "call"
        /\ \A p \in Intent \ {i} : task'[p] = task[p]
    BY <1>2, <2>1 DEF Begin, Tasks, Pc, Held
  <2>3. /\ intent' \in Intents /\ intent'[i].st = "effect_in_flight"
            /\ intent'[i].cmd = intent[i].cmd
        /\ \A p \in Intent \ {i} : intent'[p] = intent[p]
    BY <1>2, <2>1 DEF Begin, Intents, IntentSt
  <2>4. /\ conv' \in ConvRow /\ conv'.bar = BarrierOf(intent[i].cmd) /\ conv'.bar # "none"
            /\ conv'.by = i
        /\ conv'.st = conv.st /\ conv'.act = conv.act
    BY <1>2, <2>1 DEF Begin, ConvRow, BarrierOf
  <2>5. /\ asked' \in [Intent -> {"no", "asked", "done", "again"}] /\ asked'[i] = "asked"
        /\ \A p \in Intent \ {i} : asked'[p] = asked[p]
    BY <1>2, <2>1, Types DEF IInv, Begin
  <2>6. UNCHANGED <<rev, drift, thread, monitor, looked, busy, stolen, faults>>
    BY <1>2 DEF Begin, watch
  <2>7. TypeOK'
    BY <2>1, <2>2, <2>3, <2>4, <2>5, <2>6, SessionsAssumption DEF IInv, TypeOK, ConvRow,
         Intents, IntentSt, Tasks, Pc
  <2>8. OneRevision'
    BY <2>1, <2>2, <2>3, <2>4, <2>5, <2>6, SessionsAssumption DEF IInv, TypeOK, OneRevision
  <2>9. OneHolder'
    BY <2>1, <2>2, <2>3, <2>4, <2>5, <2>6, SessionsAssumption DEF IInv, TypeOK, OneHolder, Held
  <2>10. Barred'
    BY <2>1, <2>2, <2>3, <2>4, <2>5, <2>6, SessionsAssumption DEF IInv, TypeOK, OneHolder,
         Consistent, Clean, Barred, Calm, Excused, BarrierOf, Waiting, Calling, Held, Recovery,
         Local
  <2>11. ASSUME NEW j \in Intent PROVE Consistent(j)'
    BY <2>1, <2>2, <2>3, <2>4, <2>5, <2>6, SessionsAssumption DEF IInv, TypeOK, OneHolder,
         Barred, Consistent, Waiting, Calling, Recovery, Local, Held, BarrierOf, Final
  <2>12. ASSUME NEW j \in Intent PROVE Clean(j)'
    BY <2>1, <2>2, <2>3, <2>4, <2>5, <2>6, SessionsAssumption DEF IInv, TypeOK, OneHolder,
         Barred, Consistent, Clean, Calm, Excused, Waiting, Calling, Recovery, Local, Held,
         BarrierOf
  <2>13. ASSUME NEW j \in Intent PROVE TrueAnswer(j)'
    BY <2>1, <2>2, <2>3, <2>4, <2>5, <2>6, SessionsAssumption DEF IInv, TypeOK, Consistent,
         TrueAnswer, Waiting, Calling, Local, Final, OneHolder, Held
  <2>14. Standing
    BY <2>1, <2>2, <2>3, <2>4, <2>5, <2>6, SessionsAssumption DEF IInv, TypeOK, Standing,
         Consistent, Waiting, Calling, Final
  <2>. QED BY <2>7, <2>8, <2>9, <2>10, <2>11, <2>12, <2>13, <2>14 DEF IInv
<1>. QED BY <1>1, <1>2

LEMMA SetWebSearchKeeps == ASSUME IInv, NEW i \in Intent, SetWebSearch(i) PROVE IInv' /\ Standing
<1>1. CASE Refuse(i)
  BY <1>1, RefuseKeeps DEF SetWebSearch, Waiting
<1>2. CASE intent[i].st = "accepted" /\ ~Refuse(i)
  <2>1. /\ task \in Tasks /\ conv \in ConvRow /\ intent \in Intents /\ task[i].pc = "ready"
        /\ task' \in Tasks /\ task'[i].pc = "ok"
        /\ \A p \in Intent \ {i} : task'[p] = task[p]
    BY <1>2, Types, GotoMoves DEF IInv, Pc, Held, SetWebSearch
  <2>2. /\ intent' \in Intents /\ intent'[i].cmd = "websearch"
            /\ intent[i].cmd = "websearch" /\ intent'[i].st = "succeeded"
        /\ \A p \in Intent \ {i} : intent'[p] = intent[p]
    <3>1. "succeeded" \in IntentSt
      BY DEF IntentSt, Final
    <3>. QED BY <1>2, <2>1, <3>1, AnsweredChanges DEF SetWebSearch
  <2>3. UNCHANGED <<conv, rev, asked, drift, thread, monitor, looked, busy, stolen, faults>>
    BY <1>2 DEF SetWebSearch, world, watch
  <2>4. TypeOK'
    BY <2>1, <2>2, <2>3, SessionsAssumption DEF IInv, TypeOK, ConvRow, Intents, IntentSt, Tasks,
         Pc
  <2>5. OneRevision'
    BY <2>1, <2>2, <2>3, SessionsAssumption DEF IInv, TypeOK, OneRevision
  <2>6. OneHolder'
    BY <2>1, <2>2, <2>3, SessionsAssumption DEF IInv, TypeOK, OneHolder, Held
  <2>7. Barred'
    BY <2>1, <2>2, <2>3, SessionsAssumption DEF IInv, TypeOK, OneHolder, Consistent, Clean,
         Barred, Calm, Excused, BarrierOf, Waiting, Calling, Held, Recovery, Local
  <2>8. ASSUME NEW j \in Intent PROVE Consistent(j)'
    BY <2>1, <2>2, <2>3, SessionsAssumption DEF IInv, TypeOK, OneHolder, Barred, Consistent,
         Waiting, Calling, Recovery, Local, Held, BarrierOf, Final
  <2>9. ASSUME NEW j \in Intent PROVE Clean(j)'
    BY <2>1, <2>2, <2>3, SessionsAssumption DEF IInv, TypeOK, OneHolder, Barred, Consistent,
         Clean, Calm, Excused, Waiting, Calling, Recovery, Local, Held, BarrierOf
  <2>10. ASSUME NEW j \in Intent PROVE TrueAnswer(j)'
    BY <2>1, <2>2, <2>3, SessionsAssumption DEF IInv, TypeOK, Consistent, TrueAnswer, Waiting,
         Calling, Local, Final, OneHolder, Held
  <2>11. Standing
    BY <2>1, <2>2, <2>3, SessionsAssumption DEF IInv, TypeOK, Standing, Consistent, Waiting,
         Calling, Final
  <2>. QED BY <2>4, <2>5, <2>6, <2>7, <2>8, <2>9, <2>10, <2>11 DEF IInv
<1>. QED BY <1>1, <1>2 DEF SetWebSearch

LEMMA ApplyKeeps == ASSUME IInv, NEW i \in Intent, Apply(i) PROVE IInv' /\ Standing
<1>1. TypeOK'
  BY SessionsAssumption DEF IInv, TypeOK, Held, Final, Apply, watch
<1>2. OneRevision'
  BY SessionsAssumption DEF IInv, TypeOK, OneRevision, Apply, watch
<1>3. OneHolder'
  BY SessionsAssumption DEF IInv, TypeOK, OneHolder, Held, Apply, watch
<1>4. Barred'
  BY SessionsAssumption DEF IInv, TypeOK, OneHolder, Consistent, Clean, Barred, Calm, Excused,
       BarrierOf, Waiting, Calling, Held, Recovery, Local, Apply, watch
<1>5. ASSUME NEW j \in Intent PROVE Consistent(j)'
  BY SessionsAssumption DEF IInv, TypeOK, OneHolder, Barred, Consistent, Waiting, Calling,
       Recovery, Local, Held, BarrierOf, Final, Apply, watch
<1>6. ASSUME NEW j \in Intent PROVE Clean(j)'
  BY SessionsAssumption DEF IInv, TypeOK, OneHolder, Barred, Consistent, Clean, Calm, Excused,
       Waiting, Calling, Recovery, Local, Held, BarrierOf, Apply, watch
<1>7. ASSUME NEW j \in Intent PROVE TrueAnswer(j)'
  BY SessionsAssumption DEF IInv, TypeOK, Consistent, TrueAnswer, Waiting, Calling, Local,
       Final, OneHolder, Held, Apply, watch
<1>8. Standing
  BY SessionsAssumption DEF IInv, TypeOK, Standing, Consistent, Waiting, Calling, Final, Apply,
       watch
<1>. QED BY <1>1, <1>2, <1>3, <1>4, <1>5, <1>6, <1>7, <1>8 DEF IInv

LEMMA SucceedsKeeps == ASSUME IInv, NEW i \in Intent, Succeeds(i) PROVE IInv' /\ Standing
<1>1. TypeOK'
  BY SessionsAssumption DEF IInv, TypeOK, Held, Final, Succeeds, Goto, world, watch
<1>2. OneRevision'
  BY SessionsAssumption DEF IInv, TypeOK, OneRevision, Succeeds, Goto, world, watch
<1>3. OneHolder'
  BY SessionsAssumption DEF IInv, TypeOK, OneHolder, Held, Succeeds, Goto, world, watch
<1>4. Barred'
  BY SessionsAssumption DEF IInv, TypeOK, OneHolder, Consistent, Clean, Barred, Calm, Excused,
       BarrierOf, Waiting, Calling, Held, Recovery, Local, Succeeds, Goto, world, watch
<1>5. ASSUME NEW j \in Intent PROVE Consistent(j)'
  BY SessionsAssumption DEF IInv, TypeOK, OneHolder, Barred, Consistent, Waiting, Calling,
       Recovery, Local, Held, BarrierOf, Final, Succeeds, Goto, world, watch
<1>6. ASSUME NEW j \in Intent PROVE Clean(j)'
  BY SessionsAssumption DEF IInv, TypeOK, OneHolder, Barred, Consistent, Clean, Calm, Excused,
       Waiting, Calling, Recovery, Local, Held, BarrierOf, Succeeds, Goto, world, watch
<1>7. ASSUME NEW j \in Intent PROVE TrueAnswer(j)'
  BY SessionsAssumption DEF IInv, TypeOK, Consistent, TrueAnswer, Waiting, Calling, Local,
       Final, OneHolder, Held, Succeeds, Goto, world, watch
<1>8. Standing
  BY SessionsAssumption DEF IInv, TypeOK, Standing, Consistent, Waiting, Calling, Final,
       Succeeds, Goto, world, watch
<1>. QED BY <1>1, <1>2, <1>3, <1>4, <1>5, <1>6, <1>7, <1>8 DEF IInv

LEMMA RejectsKeeps == ASSUME IInv, NEW i \in Intent, Rejects(i) PROVE IInv' /\ Standing
<1>1. TypeOK'
  BY SessionsAssumption DEF IInv, TypeOK, Held, Final, Rejects, Goto, world, watch
<1>2. OneRevision'
  BY SessionsAssumption DEF IInv, TypeOK, OneRevision, Rejects, Goto, world, watch
<1>3. OneHolder'
  BY SessionsAssumption DEF IInv, TypeOK, OneHolder, Held, Rejects, Goto, world, watch
<1>4. Barred'
  BY SessionsAssumption DEF IInv, TypeOK, OneHolder, Consistent, Clean, Barred, Calm, Excused,
       BarrierOf, Waiting, Calling, Held, Recovery, Local, Rejects, Goto, world, watch
<1>5. ASSUME NEW j \in Intent PROVE Consistent(j)'
  BY SessionsAssumption DEF IInv, TypeOK, OneHolder, Barred, Consistent, Waiting, Calling,
       Recovery, Local, Held, BarrierOf, Final, Rejects, Goto, world, watch
<1>6. ASSUME NEW j \in Intent PROVE Clean(j)'
  BY SessionsAssumption DEF IInv, TypeOK, OneHolder, Barred, Consistent, Clean, Calm, Excused,
       Waiting, Calling, Recovery, Local, Held, BarrierOf, Rejects, Goto, world, watch
<1>7. ASSUME NEW j \in Intent PROVE TrueAnswer(j)'
  BY SessionsAssumption DEF IInv, TypeOK, Consistent, TrueAnswer, Waiting, Calling, Local,
       Final, OneHolder, Held, Rejects, Goto, world, watch
<1>8. Standing
  BY SessionsAssumption DEF IInv, TypeOK, Standing, Consistent, Waiting, Calling, Final,
       Rejects, Goto, world, watch
<1>. QED BY <1>1, <1>2, <1>3, <1>4, <1>5, <1>6, <1>7, <1>8 DEF IInv

LEMMA LosesKeeps == ASSUME IInv, NEW i \in Intent, Loses(i) PROVE IInv' /\ Standing
<1>1. TypeOK'
  BY SessionsAssumption DEF IInv, TypeOK, Held, Final, Loses, Fault, Goto, AfterLost, world,
       watch
<1>2. OneRevision'
  BY SessionsAssumption DEF IInv, TypeOK, OneRevision, Loses, Fault, Goto, AfterLost, world,
       watch
<1>3. OneHolder'
  BY SessionsAssumption DEF IInv, TypeOK, OneHolder, Held, Loses, Fault, Goto, AfterLost, world,
       watch
<1>4. Barred'
  BY SessionsAssumption DEF IInv, TypeOK, OneHolder, Consistent, Clean, Barred, Calm, Excused,
       BarrierOf, Waiting, Calling, Held, Recovery, Local, Loses, Fault, Goto, AfterLost, world,
       watch
<1>5. ASSUME NEW j \in Intent PROVE Consistent(j)'
  BY SessionsAssumption DEF IInv, TypeOK, OneHolder, Barred, Consistent, Waiting, Calling,
       Recovery, Local, Held, BarrierOf, Final, Loses, Fault, Goto, AfterLost, world, watch
<1>6. ASSUME NEW j \in Intent PROVE Clean(j)'
  BY SessionsAssumption DEF IInv, TypeOK, OneHolder, Barred, Consistent, Clean, Calm, Excused,
       Waiting, Calling, Recovery, Local, Held, BarrierOf, Loses, Fault, Goto, AfterLost, world,
       watch
<1>7. ASSUME NEW j \in Intent PROVE TrueAnswer(j)'
  BY SessionsAssumption DEF IInv, TypeOK, Consistent, TrueAnswer, Waiting, Calling, Local,
       Final, OneHolder, Held, Loses, Fault, Goto, AfterLost, world, watch
<1>8. Standing
  BY SessionsAssumption DEF IInv, TypeOK, Standing, Consistent, Waiting, Calling, Final, Loses,
       Fault, Goto, AfterLost, world, watch
<1>. QED BY <1>1, <1>2, <1>3, <1>4, <1>5, <1>6, <1>7, <1>8 DEF IInv

LEMMA CommitKeeps == ASSUME IInv, NEW i \in Intent, NEW r \in Revision, Commit(i, r)
    PROVE IInv' /\ Standing
<1>1. /\ task \in Tasks /\ conv \in ConvRow /\ intent \in Intents /\ task[i].pc = "commit"
      /\ task' \in Tasks /\ task'[i].pc = "ok"
      /\ \A p \in Intent \ {i} : task'[p] = task[p]
  BY Types, GotoMoves DEF IInv, Pc, Held, Commit
<1>2. /\ intent' \in Intents /\ \A p \in Intent : intent'[p].cmd = intent[p].cmd
      /\ \A p \in Intent :
            \/ intent'[p] = intent[p]
            \/ p = conv.by /\ intent'[p].st = "succeeded" /\ intent[p].st \notin Final
  <2>1. intent' = Answered(conv.by, "succeeded") /\ MayAnswer(conv.by)
    BY DEF Commit, MayCommit
  <2>2. conv.by \in Intent \cup {none} /\ "succeeded" \in IntentSt
    BY <1>1 DEF ConvRow, IntentSt, Final
  <2>3. CASE conv.by = none
    BY <1>1, <2>1, <2>3 DEF Answered
  <2>4. CASE conv.by # none
    BY <1>1, <2>1, <2>2, <2>4, AnsweredChanges DEF MayAnswer
  <2>. QED BY <2>3, <2>4
<1>3. /\ conv' \in ConvRow /\ conv'.bar = "none" /\ conv'.by = none
      /\ rev' \in [Revision -> {"none", "active", "superseded", "archived"}]
      /\ \/ conv'.act = 0
         \/ conv'.act = conv.act /\ rev' = rev
         \/ conv'.act \in Revision /\ rev' = Activated(conv'.act)
  <2>. DEFINE c == CommittedConv(i, r)
  <2>1. r \in 0..MaxRev /\ 0 \in 0..MaxRev
    BY SessionsAssumption DEF Revision
  <2>2. c \in ConvRow /\ (c.act = 0 \/ (c.act = conv.act /\ CommittedRev(i, r) = rev)
                         \/ (c.act = r /\ CommittedRev(i, r) = Activated(r)))
    BY <1>1, <2>1 DEF CommittedConv, CommittedRev, ConvRow
  <2>3. CommittedRev(i, r) \in [Revision -> {"none", "active", "superseded", "archived"}]
    BY Types DEF IInv, CommittedRev, Activated
  <2>4. conv' = Cleared(c) /\ rev' = CommittedRev(i, r)
    BY DEF Commit
  <2>. HIDE DEF c
  <2>5. conv' \in ConvRow /\ conv'.act = c.act /\ conv'.bar = "none" /\ conv'.by = none
    BY <2>2, <2>4 DEF Cleared, ConvRow
  <2>. QED BY <2>2, <2>3, <2>4, <2>5
<1>4. conv.st # "deleted"
  BY DEF Commit, MayCommit, MayActivate
<1>5. drift' = "no" /\ UNCHANGED <<asked, thread, monitor, looked, busy, stolen, faults>>
  BY DEF Commit, watch
<1>6. TypeOK'
  BY <1>1, <1>2, <1>3, <1>4, <1>5, SessionsAssumption DEF IInv, TypeOK, ConvRow, Intents,
       IntentSt, Tasks, Pc
<1>7. OneRevision'
  BY <1>3, OneActive DEF IInv, OneRevision
<1>8. OneHolder'
  BY <1>1, <1>2, <1>3, <1>4, <1>5, SessionsAssumption DEF IInv, TypeOK, OneHolder, Held
<1>9. Barred'
  BY <1>1, <1>2, <1>3, <1>4, <1>5, SessionsAssumption DEF IInv, TypeOK, OneHolder, Consistent,
       Clean, Barred, Calm, Excused, BarrierOf, Waiting, Calling, Held, Recovery, Local
<1>10. ASSUME NEW j \in Intent PROVE Consistent(j)'
  BY <1>1, <1>2, <1>3, <1>4, <1>5, SessionsAssumption DEF IInv, TypeOK, OneHolder, Barred,
       Consistent, Waiting, Calling, Recovery, Local, Held, BarrierOf, Final
<1>11. ASSUME NEW j \in Intent PROVE Clean(j)'
  BY <1>1, <1>2, <1>3, <1>4, <1>5, SessionsAssumption DEF IInv, TypeOK, OneHolder, Barred,
       Consistent, Clean, Calm, Excused, Waiting, Calling, Recovery, Local, Held, BarrierOf
<1>12. ASSUME NEW j \in Intent PROVE TrueAnswer(j)'
  BY <1>1, <1>2, <1>3, <1>4, <1>5, SessionsAssumption DEF IInv, TypeOK, Consistent, TrueAnswer,
       Waiting, Calling, Local, Final, OneHolder, Held
<1>13. Standing
  BY <1>1, <1>2, <1>3, <1>4, <1>5, SessionsAssumption DEF IInv, TypeOK, Standing, Consistent,
       Waiting, Calling, Final
<1>. QED BY <1>6, <1>7, <1>8, <1>9, <1>10, <1>11, <1>12, <1>13 DEF IInv

LEMMA CommitFailsKeeps == ASSUME IInv, NEW i \in Intent, CommitFails(i) PROVE IInv' /\ Standing
<1>1. /\ task \in Tasks /\ conv \in ConvRow /\ intent \in Intents /\ task[i].pc = "commit"
      /\ task' \in Tasks /\ task'[i].pc = "mark"
      /\ \A p \in Intent \ {i} : task'[p] = task[p]
  BY Types, GotoMoves DEF IInv, Pc, Held, CommitFails
<1>2. /\ conv' \in ConvRow /\ conv'.act = conv.act /\ conv'.bar = conv.bar /\ conv'.by = conv.by
      /\ conv'.st = conv.st \/ (conv.st # "deleted" /\ conv'.st = "blocked")
  BY Types, FencedChanges DEF IInv, CommitFails
<1>3. faults' \in 0..MaxFaults
  BY Types, FaultCounts DEF IInv, CommitFails
<1>4. UNCHANGED <<rev, intent, asked, drift, thread, monitor, looked, busy, stolen>>
  BY DEF CommitFails, world, watch
<1>5. TypeOK'
  BY <1>1, <1>2, <1>3, <1>4, SessionsAssumption DEF IInv, TypeOK, ConvRow, Intents, IntentSt,
       Tasks, Pc
<1>6. OneRevision'
  BY <1>1, <1>2, <1>3, <1>4, SessionsAssumption DEF IInv, TypeOK, OneRevision
<1>7. OneHolder'
  BY <1>1, <1>2, <1>3, <1>4, SessionsAssumption DEF IInv, TypeOK, OneHolder, Held
<1>8. Barred'
  BY <1>1, <1>2, <1>3, <1>4, SessionsAssumption DEF IInv, TypeOK, OneHolder, Consistent, Clean,
       Barred, Calm, Excused, BarrierOf, Waiting, Calling, Held, Recovery, Local
<1>9. ASSUME NEW j \in Intent PROVE Consistent(j)'
  BY <1>1, <1>2, <1>3, <1>4, SessionsAssumption DEF IInv, TypeOK, OneHolder, Barred, Consistent,
       Waiting, Calling, Recovery, Local, Held, BarrierOf, Final
<1>10. ASSUME NEW j \in Intent PROVE Clean(j)'
  BY <1>1, <1>2, <1>3, <1>4, SessionsAssumption DEF IInv, TypeOK, OneHolder, Barred, Consistent,
       Clean, Calm, Excused, Waiting, Calling, Recovery, Local, Held, BarrierOf
<1>11. ASSUME NEW j \in Intent PROVE TrueAnswer(j)'
  BY <1>1, <1>2, <1>3, <1>4, SessionsAssumption DEF IInv, TypeOK, Consistent, TrueAnswer,
       Waiting, Calling, Local, Final, OneHolder, Held
<1>12. Standing
  BY <1>1, <1>2, <1>3, <1>4, SessionsAssumption DEF IInv, TypeOK, Standing, Consistent, Waiting,
       Calling, Final
<1>. QED BY <1>5, <1>6, <1>7, <1>8, <1>9, <1>10, <1>11, <1>12 DEF IInv

LEMMA MismatchKeeps == ASSUME IInv, NEW i \in Intent, Mismatch(i) PROVE IInv' /\ Standing
<1>1. /\ task \in Tasks /\ conv \in ConvRow /\ intent \in Intents /\ task[i].pc = "commit"
      /\ task' \in Tasks /\ task'[i].pc = "mark"
      /\ \A p \in Intent \ {i} : task'[p] = task[p]
  BY Types, GotoMoves DEF IInv, Pc, Held, Mismatch
<1>2. /\ conv' \in ConvRow /\ conv'.act = conv.act /\ conv'.bar = conv.bar /\ conv'.by = conv.by
      /\ conv'.st = conv.st \/ (conv.st # "deleted" /\ conv'.st = "blocked")
  BY Types, FencedChanges DEF IInv, Mismatch
<1>3. faults' \in 0..MaxFaults
  BY Types, FaultCounts DEF IInv, Mismatch
<1>4. UNCHANGED <<rev, intent, asked, drift, thread, monitor, looked, busy, stolen>>
  BY DEF Mismatch, world, watch
<1>5. TypeOK'
  BY <1>1, <1>2, <1>3, <1>4, SessionsAssumption DEF IInv, TypeOK, ConvRow, Intents, IntentSt,
       Tasks, Pc
<1>6. OneRevision'
  BY <1>1, <1>2, <1>3, <1>4, SessionsAssumption DEF IInv, TypeOK, OneRevision
<1>7. OneHolder'
  BY <1>1, <1>2, <1>3, <1>4, SessionsAssumption DEF IInv, TypeOK, OneHolder, Held
<1>8. Barred'
  BY <1>1, <1>2, <1>3, <1>4, SessionsAssumption DEF IInv, TypeOK, OneHolder, Consistent, Clean,
       Barred, Calm, Excused, BarrierOf, Waiting, Calling, Held, Recovery, Local
<1>9. ASSUME NEW j \in Intent PROVE Consistent(j)'
  BY <1>1, <1>2, <1>3, <1>4, SessionsAssumption DEF IInv, TypeOK, OneHolder, Barred, Consistent,
       Waiting, Calling, Recovery, Local, Held, BarrierOf, Final
<1>10. ASSUME NEW j \in Intent PROVE Clean(j)'
  BY <1>1, <1>2, <1>3, <1>4, SessionsAssumption DEF IInv, TypeOK, OneHolder, Barred, Consistent,
       Clean, Calm, Excused, Waiting, Calling, Recovery, Local, Held, BarrierOf
<1>11. ASSUME NEW j \in Intent PROVE TrueAnswer(j)'
  BY <1>1, <1>2, <1>3, <1>4, SessionsAssumption DEF IInv, TypeOK, Consistent, TrueAnswer,
       Waiting, Calling, Local, Final, OneHolder, Held
<1>12. Standing
  BY <1>1, <1>2, <1>3, <1>4, SessionsAssumption DEF IInv, TypeOK, Standing, Consistent, Waiting,
       Calling, Final
<1>. QED BY <1>5, <1>6, <1>7, <1>8, <1>9, <1>10, <1>11, <1>12 DEF IInv

LEMMA CompactAcceptedKeeps == ASSUME IInv, NEW i \in Intent, CompactAccepted(i)
    PROVE IInv' /\ Standing
<1>1. /\ task \in Tasks /\ conv \in ConvRow /\ intent \in Intents /\ task[i].pc = "commit"
      /\ task' \in Tasks /\ task'[i].pc \in {"ok", "error"}
      /\ \A p \in Intent \ {i} : task'[p] = task[p]
  BY Types, GotoMoves DEF IInv, Pc, Held, CompactAccepted
<1>2. /\ intent' \in Intents /\ \A p \in Intent : intent'[p].cmd = intent[p].cmd
      /\ \A p \in Intent :
            \/ intent'[p] = intent[p]
            \/ p = conv.by /\ intent'[p].st = "succeeded" /\ intent[p].st \notin Final
  <2>1. intent' = intent \/ (intent[conv.by].st \notin Final /\ conv.by # none
            /\ intent' = Answered(conv.by, "succeeded"))
    BY DEF CompactAccepted, MayAnswer, Answered
  <2>2. conv.by \in Intent \cup {none} /\ "succeeded" \in IntentSt
    BY <1>1 DEF ConvRow, IntentSt, Final
  <2>3. CASE intent' = intent
    BY <1>1, <2>3
  <2>4. CASE intent[conv.by].st \notin Final /\ intent' = Answered(conv.by, "succeeded")
    BY <1>1, <2>2, <2>4, AnsweredChanges
  <2>. QED BY <2>1, <2>3, <2>4
<1>3. monitor' = monitor \/ (monitor \in {"off", "dead"} /\ monitor' = "look")
  BY DEF CompactAccepted, Watched
<1>4. UNCHANGED <<conv, rev, asked, drift, thread, looked, busy, stolen, faults>>
  BY DEF CompactAccepted, world
<1>5. TypeOK'
  BY <1>1, <1>2, <1>3, <1>4, SessionsAssumption DEF IInv, TypeOK, ConvRow, Intents, IntentSt,
       Tasks, Pc
<1>6. OneRevision'
  BY <1>1, <1>2, <1>3, <1>4, SessionsAssumption DEF IInv, TypeOK, OneRevision
<1>7. OneHolder'
  BY <1>1, <1>2, <1>3, <1>4, SessionsAssumption DEF IInv, TypeOK, OneHolder, Held
<1>8. Barred'
  BY <1>1, <1>2, <1>3, <1>4, SessionsAssumption DEF IInv, TypeOK, OneHolder, Consistent, Clean,
       Barred, Calm, Excused, BarrierOf, Waiting, Calling, Held, Recovery, Local
<1>9. ASSUME NEW j \in Intent PROVE Consistent(j)'
  BY <1>1, <1>2, <1>3, <1>4, SessionsAssumption DEF IInv, TypeOK, OneHolder, Barred, Consistent,
       Waiting, Calling, Recovery, Local, Held, BarrierOf, Final
<1>10. ASSUME NEW j \in Intent PROVE Clean(j)'
  BY <1>1, <1>2, <1>3, <1>4, SessionsAssumption DEF IInv, TypeOK, OneHolder, Barred, Consistent,
       Clean, Calm, Excused, Waiting, Calling, Recovery, Local, Held, BarrierOf
<1>11. ASSUME NEW j \in Intent PROVE TrueAnswer(j)'
  BY <1>1, <1>2, <1>3, <1>4, SessionsAssumption DEF IInv, TypeOK, Consistent, TrueAnswer,
       Waiting, Calling, Local, Final, OneHolder, Held
<1>12. Standing
  BY <1>1, <1>2, <1>3, <1>4, SessionsAssumption DEF IInv, TypeOK, Standing, Consistent, Waiting,
       Calling, Final
<1>. QED BY <1>5, <1>6, <1>7, <1>8, <1>9, <1>10, <1>11, <1>12 DEF IInv

LEMMA UndoKeeps == ASSUME IInv, NEW i \in Intent, Undo(i) PROVE IInv' /\ Standing
<1>1. /\ task \in Tasks /\ conv \in ConvRow /\ intent \in Intents /\ task[i].pc = "undo"
      /\ task' \in Tasks /\ task'[i].pc = "error"
      /\ \A p \in Intent \ {i} : task'[p] = task[p]
  BY Types, GotoMoves DEF IInv, Pc, Held, Undo
<1>2. /\ intent' \in Intents /\ \A p \in Intent : intent'[p].cmd = intent[p].cmd
      /\ \A p \in Intent :
            \/ intent'[p] = intent[p]
            \/ p = conv.by /\ intent'[p].st = "rejected" /\ intent[p].st \notin Final
  <2>1. intent' = intent \/ (intent[conv.by].st \notin Final /\ conv.by # none
            /\ intent' = Answered(conv.by, "rejected"))
    BY DEF Undo, MayAnswer, Answered
  <2>2. conv.by \in Intent \cup {none} /\ "rejected" \in IntentSt
    BY <1>1 DEF ConvRow, IntentSt, Final
  <2>3. CASE intent' = intent
    BY <1>1, <2>3
  <2>4. CASE intent[conv.by].st \notin Final /\ intent' = Answered(conv.by, "rejected")
    BY <1>1, <2>2, <2>4, AnsweredChanges
  <2>. QED BY <2>1, <2>3, <2>4
<1>3. /\ conv' \in ConvRow /\ conv'.st = conv.st /\ conv'.act = conv.act
      /\ \/ conv'.bar = conv.bar /\ conv'.by = conv.by /\ intent' = intent
         \/ conv'.bar = "none" /\ conv'.by = none /\ (conv.by # none
             => intent'[conv.by].st = "rejected")
  <2>1. CASE MayAnswer(conv.by)
    <3>1. conv' = Cleared(conv) /\ intent' = Answered(conv.by, "rejected")
      BY <2>1 DEF Undo
    <3>2. conv.by \in Intent \cup {none} /\ "rejected" \in IntentSt
      BY <1>1 DEF ConvRow, IntentSt, Final
    <3>. QED BY <1>1, <3>1, <3>2, ClearedChanges, AnsweredChanges
  <2>2. CASE ~MayAnswer(conv.by)
    BY <1>1, <2>2 DEF Undo
  <2>. QED BY <2>1, <2>2
<1>4. UNCHANGED <<rev, asked, drift, thread, monitor, looked, busy, stolen, faults>>
  BY DEF Undo, world, watch
<1>5. TypeOK'
  BY <1>1, <1>2, <1>3, <1>4, SessionsAssumption DEF IInv, TypeOK, ConvRow, Intents, IntentSt,
       Tasks, Pc
<1>6. OneRevision'
  BY <1>1, <1>2, <1>3, <1>4, SessionsAssumption DEF IInv, TypeOK, OneRevision
<1>7. OneHolder'
  BY <1>1, <1>2, <1>3, <1>4, SessionsAssumption DEF IInv, TypeOK, OneHolder, Held
<1>8. Barred'
  BY <1>1, <1>2, <1>3, <1>4, SessionsAssumption DEF IInv, TypeOK, OneHolder, Consistent, Clean,
       Barred, Calm, Excused, BarrierOf, Waiting, Calling, Held, Recovery, Local
<1>9. ASSUME NEW j \in Intent PROVE Consistent(j)'
  BY <1>1, <1>2, <1>3, <1>4, SessionsAssumption DEF IInv, TypeOK, OneHolder, Barred, Consistent,
       Waiting, Calling, Recovery, Local, Held, BarrierOf, Final
<1>10. ASSUME NEW j \in Intent PROVE Clean(j)'
  BY <1>1, <1>2, <1>3, <1>4, SessionsAssumption DEF IInv, TypeOK, OneHolder, Barred, Consistent,
       Clean, Calm, Excused, Waiting, Calling, Recovery, Local, Held, BarrierOf
<1>11. ASSUME NEW j \in Intent PROVE TrueAnswer(j)'
  BY <1>1, <1>2, <1>3, <1>4, SessionsAssumption DEF IInv, TypeOK, Consistent, TrueAnswer,
       Waiting, Calling, Local, Final, OneHolder, Held
<1>12. Standing
  BY <1>1, <1>2, <1>3, <1>4, SessionsAssumption DEF IInv, TypeOK, Standing, Consistent, Waiting,
       Calling, Final
<1>. QED BY <1>5, <1>6, <1>7, <1>8, <1>9, <1>10, <1>11, <1>12 DEF IInv

LEMMA MarkKeeps == ASSUME IInv, NEW i \in Intent, Mark(i) PROVE IInv' /\ Standing
<1>1. /\ task \in Tasks /\ conv \in ConvRow /\ intent \in Intents /\ task[i].pc = "mark"
      /\ task' \in Tasks /\ task'[i].pc \in {"fence", "error"}
      /\ \A p \in Intent \ {i} : task'[p] = task[p]
  BY Types, GotoMoves DEF IInv, Pc, Held, Mark
<1>2. /\ intent' \in Intents /\ \A p \in Intent : intent'[p].cmd = intent[p].cmd
      /\ \A p \in Intent :
            \/ intent'[p] = intent[p]
            \/ p = conv.by /\ intent'[p].st = "unknown"
                /\ intent[p].st \in {"effect_in_flight", "reconciling"}
  <2>1. intent' = intent \/ (intent[conv.by].st \in {"effect_in_flight", "reconciling"}
            /\ conv.by # none /\ intent' = Answered(conv.by, "unknown"))
    BY DEF Mark, MarkedIntent, MayAnswer, Answered
  <2>2. conv.by \in Intent \cup {none} /\ "unknown" \in IntentSt
    BY <1>1 DEF ConvRow, IntentSt, Final
  <2>3. CASE intent' = intent
    BY <1>1, <2>3
  <2>4. CASE intent[conv.by].st \in {"effect_in_flight", "reconciling"}
            /\ intent' = Answered(conv.by, "unknown")
    BY <1>1, <2>2, <2>4, AnsweredChanges
  <2>. QED BY <2>1, <2>3, <2>4
<1>3. monitor' = monitor \/ (monitor \in {"off", "dead"} /\ monitor' = "look")
  BY DEF Mark, Watched
<1>4. UNCHANGED <<conv, rev, asked, drift, thread, looked, busy, stolen, faults>>
  BY DEF Mark, Marked, world
<1>5. TypeOK'
  BY <1>1, <1>2, <1>3, <1>4, SessionsAssumption DEF IInv, TypeOK, ConvRow, Intents, IntentSt,
       Tasks, Pc
<1>6. OneRevision'
  BY <1>1, <1>2, <1>3, <1>4, SessionsAssumption DEF IInv, TypeOK, OneRevision
<1>7. OneHolder'
  BY <1>1, <1>2, <1>3, <1>4, SessionsAssumption DEF IInv, TypeOK, OneHolder, Held
<1>8. Barred'
  BY <1>1, <1>2, <1>3, <1>4, SessionsAssumption DEF IInv, TypeOK, OneHolder, Consistent, Clean,
       Barred, Calm, Excused, BarrierOf, Waiting, Calling, Held, Recovery, Local
<1>9. ASSUME NEW j \in Intent PROVE Consistent(j)'
  BY <1>1, <1>2, <1>3, <1>4, SessionsAssumption DEF IInv, TypeOK, OneHolder, Barred, Consistent,
       Waiting, Calling, Recovery, Local, Held, BarrierOf, Final
<1>10. ASSUME NEW j \in Intent PROVE Clean(j)'
  BY <1>1, <1>2, <1>3, <1>4, SessionsAssumption DEF IInv, TypeOK, OneHolder, Barred, Consistent,
       Clean, Calm, Excused, Waiting, Calling, Recovery, Local, Held, BarrierOf
<1>11. ASSUME NEW j \in Intent PROVE TrueAnswer(j)'
  BY <1>1, <1>2, <1>3, <1>4, SessionsAssumption DEF IInv, TypeOK, Consistent, TrueAnswer,
       Waiting, Calling, Local, Final, OneHolder, Held
<1>12. Standing
  BY <1>1, <1>2, <1>3, <1>4, SessionsAssumption DEF IInv, TypeOK, Standing, Consistent, Waiting,
       Calling, Final
<1>. QED BY <1>5, <1>6, <1>7, <1>8, <1>9, <1>10, <1>11, <1>12 DEF IInv

LEMMA FenceKeeps == ASSUME IInv, NEW i \in Intent, Fence(i) PROVE IInv' /\ Standing
<1>1. /\ task \in Tasks /\ conv \in ConvRow /\ intent \in Intents /\ task[i].pc = "fence"
      /\ task' \in Tasks /\ task'[i].pc = "error"
      /\ \A p \in Intent \ {i} : task'[p] = task[p]
  BY Types, GotoMoves DEF IInv, Pc, Held, Fence
<1>2. /\ conv' \in ConvRow /\ conv'.act = conv.act /\ conv'.bar = conv.bar /\ conv'.by = conv.by
      /\ conv'.st = conv.st \/ (conv.st # "deleted" /\ conv'.st = "blocked")
  BY Types, FencedChanges DEF IInv, Fence
<1>3. UNCHANGED <<rev, intent, asked, drift, thread, monitor, looked, busy, stolen, faults>>
  BY DEF Fence, world, watch
<1>4. TypeOK'
  BY <1>1, <1>2, <1>3, SessionsAssumption DEF IInv, TypeOK, ConvRow, Intents, IntentSt, Tasks,
       Pc
<1>5. OneRevision'
  BY <1>1, <1>2, <1>3, SessionsAssumption DEF IInv, TypeOK, OneRevision
<1>6. OneHolder'
  BY <1>1, <1>2, <1>3, SessionsAssumption DEF IInv, TypeOK, OneHolder, Held
<1>7. Barred'
  BY <1>1, <1>2, <1>3, SessionsAssumption DEF IInv, TypeOK, OneHolder, Consistent, Clean,
       Barred, Calm, Excused, BarrierOf, Waiting, Calling, Held, Recovery, Local
<1>8. ASSUME NEW j \in Intent PROVE Consistent(j)'
  BY <1>1, <1>2, <1>3, SessionsAssumption DEF IInv, TypeOK, OneHolder, Barred, Consistent,
       Waiting, Calling, Recovery, Local, Held, BarrierOf, Final
<1>9. ASSUME NEW j \in Intent PROVE Clean(j)'
  BY <1>1, <1>2, <1>3, SessionsAssumption DEF IInv, TypeOK, OneHolder, Barred, Consistent,
       Clean, Calm, Excused, Waiting, Calling, Recovery, Local, Held, BarrierOf
<1>10. ASSUME NEW j \in Intent PROVE TrueAnswer(j)'
  BY <1>1, <1>2, <1>3, SessionsAssumption DEF IInv, TypeOK, Consistent, TrueAnswer, Waiting,
       Calling, Local, Final, OneHolder, Held
<1>11. Standing
  BY <1>1, <1>2, <1>3, SessionsAssumption DEF IInv, TypeOK, Standing, Consistent, Waiting,
       Calling, Final
<1>. QED BY <1>4, <1>5, <1>6, <1>7, <1>8, <1>9, <1>10, <1>11 DEF IInv

\* A transaction that fails after the provider's answer changes no more than a
\* mark does: the barrier stays.
LEMMA FailsKeeps ==
    ASSUME IInv, NEW i \in Intent, CompactFails(i) \/ UndoFails(i) \/ MarkFails(i) \/ FenceFails(i)
    PROVE  IInv' /\ Standing
<1>1. /\ task \in Tasks /\ conv \in ConvRow /\ intent \in Intents
      /\ task[i].pc \in {"commit", "undo", "mark", "fence"}
      /\ task' \in Tasks /\ task'[i].pc \in {"fence", "error"}
      /\ \A p \in Intent \ {i} : task'[p] = task[p]
  BY Types, GotoMoves DEF IInv, Pc, Held, CompactFails, UndoFails, MarkFails, FenceFails
<1>2. /\ intent' \in Intents /\ \A p \in Intent : intent'[p].cmd = intent[p].cmd
      /\ \A p \in Intent :
            \/ intent'[p] = intent[p]
            \/ p = conv.by /\ intent'[p].st = "unknown"
                /\ intent[p].st \in {"effect_in_flight", "reconciling"}
  <2>1. intent' = intent \/ (intent[conv.by].st \in {"effect_in_flight", "reconciling"}
            /\ conv.by # none /\ intent' = Answered(conv.by, "unknown"))
    BY DEF CompactFails, UndoFails, MarkFails, FenceFails, MarkedIntent
  <2>2. conv.by \in Intent \cup {none} /\ "unknown" \in IntentSt
    BY <1>1 DEF ConvRow, IntentSt, Final
  <2>3. CASE intent' = intent
    BY <1>1, <2>3
  <2>4. CASE intent[conv.by].st \in {"effect_in_flight", "reconciling"}
            /\ intent' = Answered(conv.by, "unknown")
    BY <1>1, <2>2, <2>4, AnsweredChanges
  <2>. QED BY <2>1, <2>3, <2>4
<1>3. monitor' = monitor \/ (monitor = "off" /\ monitor' = "dead")
  BY DEF CompactFails, UndoFails, MarkFails, FenceFails, Unwatched, watch
<1>4. faults' \in 0..MaxFaults
  BY Types, FaultCounts DEF IInv, CompactFails, UndoFails, MarkFails, FenceFails
<1>5. UNCHANGED <<conv, rev, asked, drift, thread, looked, busy, stolen>>
  BY DEF CompactFails, UndoFails, MarkFails, FenceFails, world, watch
<1>6. TypeOK'
  BY <1>1, <1>2, <1>3, <1>5, <1>4, SessionsAssumption DEF IInv, TypeOK, ConvRow, Intents, IntentSt,
       Tasks, Pc
<1>7. OneRevision'
  BY <1>1, <1>2, <1>3, <1>5, SessionsAssumption DEF IInv, TypeOK, OneRevision
<1>8. OneHolder'
  BY <1>1, <1>2, <1>3, <1>5, SessionsAssumption DEF IInv, TypeOK, OneHolder, Held
<1>9. Barred'
  BY <1>1, <1>2, <1>3, <1>5, SessionsAssumption DEF IInv, TypeOK, OneHolder, Consistent, Clean,
       Barred, Calm, Excused, BarrierOf, Waiting, Calling, Held, Recovery, Local
<1>10. ASSUME NEW j \in Intent PROVE Consistent(j)'
  BY <1>1, <1>2, <1>3, <1>5, SessionsAssumption DEF IInv, TypeOK, OneHolder, Barred, Consistent,
       Waiting, Calling, Recovery, Local, Held, BarrierOf, Final
<1>11. ASSUME NEW j \in Intent PROVE Clean(j)'
  BY <1>1, <1>2, <1>3, <1>5, SessionsAssumption DEF IInv, TypeOK, OneHolder, Barred, Consistent,
       Clean, Calm, Excused, Waiting, Calling, Recovery, Local, Held, BarrierOf
<1>12. ASSUME NEW j \in Intent PROVE TrueAnswer(j)'
  BY <1>1, <1>2, <1>3, <1>5, SessionsAssumption DEF IInv, TypeOK, Consistent, TrueAnswer,
       Waiting, Calling, Local, Final, OneHolder, Held
<1>13. Standing
  BY <1>1, <1>2, <1>3, <1>5, SessionsAssumption DEF IInv, TypeOK, Standing, Consistent, Waiting,
       Calling, Final
<1>. QED BY <1>6, <1>7, <1>8, <1>9, <1>10, <1>11, <1>12, <1>13 DEF IInv

LEMMA SetPreferenceKeeps == ASSUME IInv, NEW i \in Intent, SetPreference(i)
    PROVE IInv' /\ Standing
<1>1. TypeOK'
  BY SessionsAssumption, SMTT(30) DEF IInv, TypeOK, Held, Final, SetPreference, LocalAdmits,
       AnswerLocally, Answered, Goto, world, watch, Refuse
<1>2. OneRevision'
  BY SessionsAssumption DEF IInv, TypeOK, OneRevision, SetPreference, LocalAdmits,
       AnswerLocally, Answered, Goto, world, watch, Refuse
<1>3. OneHolder'
  BY SessionsAssumption DEF IInv, TypeOK, OneHolder, Held, SetPreference, LocalAdmits,
       AnswerLocally, Answered, Goto, world, watch, Refuse
<1>4. Barred'
  BY SessionsAssumption DEF IInv, TypeOK, OneHolder, Consistent, Clean, Barred, Calm, Excused,
       BarrierOf, Waiting, Calling, Held, Recovery, Local, SetPreference, LocalAdmits,
       AnswerLocally, Answered, Goto, world, watch, Refuse
<1>5. ASSUME NEW j \in Intent PROVE Consistent(j)'
  BY SessionsAssumption DEF IInv, TypeOK, OneHolder, Barred, Consistent, Waiting, Calling,
       Recovery, Local, Held, BarrierOf, Final, SetPreference, LocalAdmits, AnswerLocally,
       Answered, Goto, world, watch, Refuse
<1>6. ASSUME NEW j \in Intent PROVE Clean(j)'
  BY SessionsAssumption DEF IInv, TypeOK, OneHolder, Barred, Consistent, Clean, Calm, Excused,
       Waiting, Calling, Recovery, Local, Held, BarrierOf, SetPreference, LocalAdmits,
       AnswerLocally, Answered, Goto, world, watch, Refuse
<1>7. ASSUME NEW j \in Intent PROVE TrueAnswer(j)'
  BY SessionsAssumption DEF IInv, TypeOK, Consistent, TrueAnswer, Waiting, Calling, Local,
       Final, OneHolder, Held, SetPreference, LocalAdmits, AnswerLocally, Answered, Goto, world,
       watch, Refuse
<1>8. Standing
  BY SessionsAssumption DEF IInv, TypeOK, Standing, Consistent, Waiting, Calling, Final,
       SetPreference, LocalAdmits, AnswerLocally, Answered, Goto, world, watch, Refuse
<1>. QED BY <1>1, <1>2, <1>3, <1>4, <1>5, <1>6, <1>7, <1>8 DEF IInv

LEMMA ClearKeeps == ASSUME IInv, NEW i \in Intent, Clear(i) PROVE IInv' /\ Standing
<1>1. CASE Refuse(i)
  BY <1>1, RefuseKeeps DEF Clear, Waiting
<1>2. CASE LocalAdmits(i) /\ ~busy
  <2>1. /\ task \in Tasks /\ conv \in ConvRow /\ intent \in Intents /\ task[i].pc = "ready"
            /\ intent[i].cmd = "clear"
        /\ conv.st # "deleted" /\ intent[i].st = "accepted"
    BY <1>2, Types DEF IInv, Clear, LocalAdmits
  <2>2. /\ task' \in Tasks /\ task'[i].pc = "ok" /\ \A p \in Intent \ {i} : task'[p] = task[p]
    BY <1>2, <2>1, GotoMoves DEF Clear, AnswerLocally, Pc
  <2>3. /\ intent' \in Intents /\ intent'[i].cmd = intent[i].cmd /\ intent'[i].st = "succeeded"
        /\ \A p \in Intent \ {i} : intent'[p] = intent[p]
    <3>1. "succeeded" \in IntentSt
      BY DEF IntentSt, Final
    <3>. QED BY <1>2, <2>1, <3>1, AnsweredChanges DEF Clear, AnswerLocally
  <2>4. /\ conv' \in ConvRow /\ conv'.bar = "none" /\ conv'.by = none /\ conv'.act = 0
            /\ conv'.st = "uninitialized"
    <3>. DEFINE c == Cleared(conv)
    <3>1. c \in ConvRow /\ c.bar = "none" /\ c.by = none
      BY <2>1, ClearedChanges
    <3>2. conv' = [c EXCEPT !.st = "uninitialized", !.act = 0]
      BY <1>2 DEF Clear
    <3>. HIDE DEF c
    <3>. QED BY <3>1, <3>2, ZeroRev DEF ConvRow
  <2>5. rev' \in [Revision -> {"none", "active", "superseded", "archived"}]
    BY <1>2, Types DEF IInv, Clear
  <2>6. UNCHANGED <<asked, drift, thread, monitor, looked, busy, stolen, faults>>
    BY <1>2 DEF Clear, AnswerLocally, world, watch
  <2>7. TypeOK'
    BY <2>1, <2>2, <2>3, <2>4, <2>5, <2>6, SessionsAssumption DEF IInv, TypeOK, ConvRow,
         Intents, IntentSt, Tasks, Pc
  <2>8. OneRevision'
    BY <2>1, <2>2, <2>3, <2>4, <2>5, <2>6, SessionsAssumption DEF IInv, TypeOK, OneRevision
  <2>9. OneHolder'
    BY <2>1, <2>2, <2>3, <2>4, <2>5, <2>6, SessionsAssumption DEF IInv, TypeOK, OneHolder, Held
  <2>10. Barred'
    BY <2>1, <2>2, <2>3, <2>4, <2>5, <2>6, SessionsAssumption DEF IInv, TypeOK, OneHolder,
         Consistent, Clean, Barred, Calm, Excused, BarrierOf, Waiting, Calling, Held, Recovery,
         Local
  <2>11. ASSUME NEW j \in Intent PROVE Consistent(j)'
    BY <2>1, <2>2, <2>3, <2>4, <2>5, <2>6, SessionsAssumption DEF IInv, TypeOK, OneHolder,
         Barred, Consistent, Waiting, Calling, Recovery, Local, Held, BarrierOf, Final
  <2>12. ASSUME NEW j \in Intent PROVE Clean(j)'
    BY <2>1, <2>2, <2>3, <2>4, <2>5, <2>6, SessionsAssumption DEF IInv, TypeOK, OneHolder,
         Barred, Consistent, Clean, Calm, Excused, Waiting, Calling, Recovery, Local, Held,
         BarrierOf
  <2>13. ASSUME NEW j \in Intent PROVE TrueAnswer(j)'
    BY <2>1, <2>2, <2>3, <2>4, <2>5, <2>6, SessionsAssumption DEF IInv, TypeOK, Consistent,
         TrueAnswer, Waiting, Calling, Local, Final, OneHolder, Held
  <2>14. Standing
    BY <2>1, <2>2, <2>3, <2>4, <2>5, <2>6, SessionsAssumption DEF IInv, TypeOK, Standing,
         Consistent, Waiting, Calling, Final
  <2>. QED BY <2>7, <2>8, <2>9, <2>10, <2>11, <2>12, <2>13, <2>14 DEF IInv
<1>. QED BY <1>1, <1>2 DEF Clear

LEMMA AnswerKeeps == ASSUME IInv, NEW i \in Intent, Answer(i) PROVE IInv' /\ Standing
<1>1. /\ task \in Tasks /\ conv \in ConvRow /\ intent \in Intents
          /\ task[i].pc \in {"ok", "error"}
      /\ task' \in Tasks /\ task'[i].pc = "none"
      /\ \A p \in Intent \ {i} : task'[p] = task[p]
  BY Types, ZeroRev DEF IInv, Answer, Tasks, NoTask, Pc
<1>2. /\ intent' \in Intents /\ intent'[i].cmd = intent[i].cmd
      /\ \A p \in Intent \ {i} : intent'[p] = intent[p]
      /\ intent[i].st \in Final => intent'[i] = intent[i]
      /\ intent[i].st \notin Final => intent'[i].st = AnswerOf(i)
  <2>1. AnswerOf(i) \in IntentSt /\ i # none
    BY SessionsAssumption DEF AnswerOf, IntentSt, Final
  <2>. QED BY <1>1, <2>1, AnsweredChanges DEF Answer, MayAnswer
<1>3. UNCHANGED <<conv, rev, asked, drift, thread, monitor, looked, busy, stolen, faults>>
  BY DEF Answer, world, watch
<1>4. TypeOK'
  BY <1>1, <1>2, <1>3 DEF IInv, TypeOK, ConvRow, Intents, IntentSt, Tasks, Pc
<1>5. OneRevision'
  BY <1>1, <1>2, <1>3, SessionsAssumption DEF IInv, TypeOK, OneRevision, AnswerOf
<1>6. OneHolder'
  BY <1>1, <1>2, <1>3, SessionsAssumption DEF IInv, TypeOK, OneHolder, Held, AnswerOf
<1>7. Barred'
  BY <1>1, <1>2, <1>3, SessionsAssumption DEF IInv, TypeOK, OneHolder, Consistent, Clean,
       Barred, Calm, Excused, BarrierOf, Waiting, Calling, Held, Recovery, Local, AnswerOf
<1>8. ASSUME NEW j \in Intent PROVE Consistent(j)'
  BY <1>1, <1>2, <1>3, SessionsAssumption DEF IInv, TypeOK, OneHolder, Barred, Consistent,
       Waiting, Calling, Recovery, Local, Held, BarrierOf, Final, AnswerOf
<1>9. ASSUME NEW j \in Intent PROVE Clean(j)'
  BY <1>1, <1>2, <1>3, SessionsAssumption DEF IInv, TypeOK, OneHolder, Barred, Consistent,
       Clean, Calm, Excused, Waiting, Calling, Recovery, Local, Held, BarrierOf, AnswerOf
<1>10. ASSUME NEW j \in Intent PROVE TrueAnswer(j)'
  BY <1>1, <1>2, <1>3, SessionsAssumption DEF IInv, TypeOK, Consistent, TrueAnswer, Waiting,
       Calling, Local, Final, OneHolder, Held, AnswerOf
<1>11. Standing
  BY <1>1, <1>2, <1>3, SessionsAssumption DEF IInv, TypeOK, Standing, Consistent, Waiting,
       Calling, Final, AnswerOf
<1>. QED BY <1>4, <1>5, <1>6, <1>7, <1>8, <1>9, <1>10, <1>11 DEF IInv

LEMMA MonitorLooksKeeps == ASSUME IInv, MonitorLooks PROVE IInv' /\ Standing
<1>1. TypeOK'
  BY SessionsAssumption DEF IInv, TypeOK, Held, Final, MonitorLooks, SettledBy, Fault, world
<1>2. OneRevision'
  BY SessionsAssumption DEF IInv, TypeOK, OneRevision, MonitorLooks, SettledBy, Held, Fault,
       world
<1>3. OneHolder'
  BY SessionsAssumption DEF IInv, TypeOK, OneHolder, Held, MonitorLooks, SettledBy, Fault, world
<1>4. Barred'
  BY SessionsAssumption DEF IInv, TypeOK, OneHolder, Consistent, Clean, Barred, Calm, Excused,
       BarrierOf, Waiting, Calling, Held, Recovery, Local, MonitorLooks, SettledBy, Fault, world
<1>5. ASSUME NEW j \in Intent PROVE Consistent(j)'
  BY SessionsAssumption DEF IInv, TypeOK, OneHolder, Barred, Consistent, Waiting, Calling,
       Recovery, Local, Held, BarrierOf, Final, MonitorLooks, SettledBy, Fault, world
<1>6. ASSUME NEW j \in Intent PROVE Clean(j)'
  BY SessionsAssumption DEF IInv, TypeOK, OneHolder, Barred, Consistent, Clean, Calm, Excused,
       Waiting, Calling, Recovery, Local, Held, BarrierOf, MonitorLooks, SettledBy, Fault, world
<1>7. ASSUME NEW j \in Intent PROVE TrueAnswer(j)'
  BY SessionsAssumption DEF IInv, TypeOK, Consistent, TrueAnswer, Waiting, Calling, Local,
       Final, OneHolder, Held, MonitorLooks, SettledBy, Fault, world
<1>8. Standing
  BY SessionsAssumption DEF IInv, TypeOK, Standing, Consistent, Waiting, Calling, Final,
       MonitorLooks, SettledBy, Held, Fault, world
<1>. QED BY <1>1, <1>2, <1>3, <1>4, <1>5, <1>6, <1>7, <1>8 DEF IInv

LEMMA MonitorMismatchKeeps == ASSUME IInv, MonitorMismatch PROVE IInv' /\ Standing
<1>1. TypeOK'
  BY SessionsAssumption DEF IInv, TypeOK, Held, Final, MonitorMismatch, Fault, Fenced, world
<1>2. OneRevision'
  BY SessionsAssumption DEF IInv, TypeOK, OneRevision, MonitorMismatch, Fault, Fenced, world
<1>3. OneHolder'
  BY SessionsAssumption DEF IInv, TypeOK, OneHolder, Held, MonitorMismatch, Fault, Fenced, world
<1>4. Barred'
  BY SessionsAssumption DEF IInv, TypeOK, OneHolder, Consistent, Clean, Barred, Calm, Excused,
       BarrierOf, Waiting, Calling, Held, Recovery, Local, MonitorMismatch, Fault, Fenced, world
<1>5. ASSUME NEW j \in Intent PROVE Consistent(j)'
  BY SessionsAssumption DEF IInv, TypeOK, OneHolder, Barred, Consistent, Waiting, Calling,
       Recovery, Local, Held, BarrierOf, Final, MonitorMismatch, Fault, Fenced, world
<1>6. ASSUME NEW j \in Intent PROVE Clean(j)'
  BY SessionsAssumption DEF IInv, TypeOK, OneHolder, Barred, Consistent, Clean, Calm, Excused,
       Waiting, Calling, Recovery, Local, Held, BarrierOf, MonitorMismatch, Fault, Fenced, world
<1>7. ASSUME NEW j \in Intent PROVE TrueAnswer(j)'
  BY SessionsAssumption DEF IInv, TypeOK, Consistent, TrueAnswer, Waiting, Calling, Local,
       Final, OneHolder, Held, MonitorMismatch, Fault, Fenced, world
<1>8. Standing
  BY SessionsAssumption DEF IInv, TypeOK, Standing, Consistent, Waiting, Calling, Final,
       MonitorMismatch, Fault, Fenced, world
<1>. QED BY <1>1, <1>2, <1>3, <1>4, <1>5, <1>6, <1>7, <1>8 DEF IInv

LEMMA MonitorResolvesKeeps == ASSUME IInv, MonitorResolves PROVE IInv' /\ Standing
<1>1. /\ task \in Tasks /\ conv \in ConvRow /\ intent \in Intents /\ monitor = "idle"
      /\ monitor' = "off" /\ looked' = none
  BY Types DEF IInv, MonitorResolves
<1>2. /\ intent' \in Intents /\ \A p \in Intent : intent'[p].cmd = intent[p].cmd
      /\ \A p \in Intent :
            \/ intent'[p] = intent[p]
            \/ p = conv.by /\ intent'[p].st = "unknown" /\ intent[p].st = "reconciling"
  <2>1. intent' = intent \/ (intent[conv.by].st = "reconciling" /\ conv.by # none
            /\ intent' = Answered(conv.by, "unknown"))
    BY DEF MonitorResolves, MayAnswer, Answered
  <2>2. conv.by \in Intent \cup {none} /\ "unknown" \in IntentSt
    BY <1>1 DEF ConvRow, IntentSt, Final
  <2>3. CASE intent' = intent
    BY <1>1, <2>3
  <2>4. CASE intent[conv.by].st = "reconciling" /\ intent' = Answered(conv.by, "unknown")
    BY <1>1, <2>2, <2>4, AnsweredChanges
  <2>. QED BY <2>1, <2>3, <2>4
<1>3. /\ conv.bar = "none" => UNCHANGED <<conv, stolen>>
      /\ conv.bar # "none" =>
         /\ conv' \in ConvRow /\ conv'.bar = "none" /\ conv'.by = none /\ conv'.act = conv.act
         /\ conv'.st = conv.st \/ (conv.st = "blocked" /\ conv'.st = "active")
         /\ stolen' \in BOOLEAN /\ (stolen \/ conv.by # looked => stolen')
  <2>. DEFINE c == Cleared(conv)
  <2>1. c \in ConvRow /\ c.act = conv.act /\ c.bar = "none" /\ c.by = none /\ c.st = conv.st
    BY <1>1, ClearedChanges
  <2>2. conv.bar = "none" => UNCHANGED <<conv, stolen>>
    BY DEF MonitorResolves
  <2>3. conv.bar # "none" =>
          /\ conv' = [c EXCEPT !.st = IF @ = "blocked" THEN "active" ELSE @]
          /\ stolen' = (stolen \/ conv.by # looked)
    BY DEF MonitorResolves
  <2>. HIDE DEF c
  <2>. QED BY <2>1, <2>2, <2>3 DEF ConvRow
<1>4. /\ stolen => stolen'
      /\ conv.bar # "none" => drift = "no" \/ stolen' \/ conv'.st = "deleted"
      /\ conv.st = "deleted" => conv'.st = "deleted"
  BY <1>1, <1>3 DEF IInv, Barred, Calm, Excused
<1>5. UNCHANGED <<rev, task, asked, drift, thread, busy, faults>>
  BY DEF MonitorResolves, world
<1>6. TypeOK'
  BY <1>1, <1>2, <1>3, <1>4, <1>5, SessionsAssumption DEF IInv, TypeOK, ConvRow, Intents,
       IntentSt, Tasks, Pc
<1>7. OneRevision'
  BY <1>1, <1>2, <1>3, <1>4, <1>5, SessionsAssumption DEF IInv, TypeOK, OneRevision
<1>8. OneHolder'
  BY <1>1, <1>2, <1>3, <1>4, <1>5, SessionsAssumption DEF IInv, TypeOK, OneHolder, Held
<1>9. Barred'
  BY <1>1, <1>2, <1>3, <1>4, <1>5, SessionsAssumption DEF IInv, TypeOK, OneHolder, Consistent,
       Clean, Barred, Calm, Excused, BarrierOf, Waiting, Calling, Held, Recovery, Local
<1>10. ASSUME NEW j \in Intent PROVE Consistent(j)'
  BY <1>1, <1>2, <1>3, <1>4, <1>5, SessionsAssumption DEF IInv, TypeOK, OneHolder, Barred,
       Consistent, Waiting, Calling, Recovery, Local, Held, BarrierOf, Final
<1>11. ASSUME NEW j \in Intent PROVE Clean(j)'
  BY <1>1, <1>2, <1>3, <1>4, <1>5, SessionsAssumption DEF IInv, TypeOK, OneHolder, Barred,
       Consistent, Clean, Calm, Excused, Waiting, Calling, Recovery, Local, Held, BarrierOf
<1>12. ASSUME NEW j \in Intent PROVE TrueAnswer(j)'
  BY <1>1, <1>2, <1>3, <1>4, <1>5, SessionsAssumption DEF IInv, TypeOK, Consistent, TrueAnswer,
       Waiting, Calling, Local, Final, OneHolder, Held
<1>13. Standing
  BY <1>1, <1>2, <1>3, <1>4, <1>5, SessionsAssumption DEF IInv, TypeOK, Standing, Consistent,
       Waiting, Calling, Final
<1>. QED BY <1>6, <1>7, <1>8, <1>9, <1>10, <1>11, <1>12, <1>13 DEF IInv

LEMMA MonitorBlocksKeeps == ASSUME IInv, MonitorBlocks PROVE IInv' /\ Standing
<1>1. TypeOK'
  BY SessionsAssumption DEF IInv, TypeOK, Held, Final, MonitorBlocks, Fenced, world
<1>2. OneRevision'
  BY SessionsAssumption DEF IInv, TypeOK, OneRevision, MonitorBlocks, Fenced, world
<1>3. OneHolder'
  BY SessionsAssumption DEF IInv, TypeOK, OneHolder, Held, MonitorBlocks, Fenced, world
<1>4. Barred'
  BY SessionsAssumption DEF IInv, TypeOK, OneHolder, Consistent, Clean, Barred, Calm, Excused,
       BarrierOf, Waiting, Calling, Held, Recovery, Local, MonitorBlocks, Fenced, world
<1>5. ASSUME NEW j \in Intent PROVE Consistent(j)'
  BY SessionsAssumption DEF IInv, TypeOK, OneHolder, Barred, Consistent, Waiting, Calling,
       Recovery, Local, Held, BarrierOf, Final, MonitorBlocks, Fenced, world
<1>6. ASSUME NEW j \in Intent PROVE Clean(j)'
  BY SessionsAssumption DEF IInv, TypeOK, OneHolder, Barred, Consistent, Clean, Calm, Excused,
       Waiting, Calling, Recovery, Local, Held, BarrierOf, MonitorBlocks, Fenced, world
<1>7. ASSUME NEW j \in Intent PROVE TrueAnswer(j)'
  BY SessionsAssumption DEF IInv, TypeOK, Consistent, TrueAnswer, Waiting, Calling, Local,
       Final, OneHolder, Held, MonitorBlocks, Fenced, world
<1>8. Standing
  BY SessionsAssumption DEF IInv, TypeOK, Standing, Consistent, Waiting, Calling, Final,
       MonitorBlocks, Fenced, world
<1>. QED BY <1>1, <1>2, <1>3, <1>4, <1>5, <1>6, <1>7, <1>8 DEF IInv

LEMMA CompactedKeeps == ASSUME IInv, Compacted PROVE IInv' /\ Standing
<1>1. TypeOK'
  BY SessionsAssumption DEF IInv, TypeOK, Held, Final, Compacted, watch
<1>2. OneRevision'
  BY SessionsAssumption DEF IInv, TypeOK, OneRevision, Compacted, watch
<1>3. OneHolder'
  BY SessionsAssumption DEF IInv, TypeOK, OneHolder, Held, Compacted, watch
<1>4. Barred'
  BY SessionsAssumption DEF IInv, TypeOK, OneHolder, Consistent, Clean, Barred, Calm, Excused,
       BarrierOf, Waiting, Calling, Held, Recovery, Local, Compacted, watch
<1>5. ASSUME NEW j \in Intent PROVE Consistent(j)'
  BY SessionsAssumption DEF IInv, TypeOK, OneHolder, Barred, Consistent, Waiting, Calling,
       Recovery, Local, Held, BarrierOf, Final, Compacted, watch
<1>6. ASSUME NEW j \in Intent PROVE Clean(j)'
  BY SessionsAssumption DEF IInv, TypeOK, OneHolder, Barred, Consistent, Clean, Calm, Excused,
       Waiting, Calling, Recovery, Local, Held, BarrierOf, Compacted, watch
<1>7. ASSUME NEW j \in Intent PROVE TrueAnswer(j)'
  BY SessionsAssumption DEF IInv, TypeOK, Consistent, TrueAnswer, Waiting, Calling, Local,
       Final, OneHolder, Held, Compacted, watch
<1>8. Standing
  BY SessionsAssumption DEF IInv, TypeOK, Standing, Consistent, Waiting, Calling, Final,
       Compacted, watch
<1>. QED BY <1>1, <1>2, <1>3, <1>4, <1>5, <1>6, <1>7, <1>8 DEF IInv

LEMMA TurnArrivesKeeps == ASSUME IInv, TurnArrives PROVE IInv' /\ Standing
<1>1. TypeOK'
  BY SessionsAssumption DEF IInv, TypeOK, Held, Final, TurnArrives, Fault, world, watch
<1>2. OneRevision'
  BY SessionsAssumption DEF IInv, TypeOK, OneRevision, TurnArrives, Fault, world, watch
<1>3. OneHolder'
  BY SessionsAssumption DEF IInv, TypeOK, OneHolder, Held, TurnArrives, Fault, world, watch
<1>4. Barred'
  BY SessionsAssumption DEF IInv, TypeOK, OneHolder, Consistent, Clean, Barred, Calm, Excused,
       BarrierOf, Waiting, Calling, Held, Recovery, Local, TurnArrives, Fault, world, watch
<1>5. ASSUME NEW j \in Intent PROVE Consistent(j)'
  BY SessionsAssumption DEF IInv, TypeOK, OneHolder, Barred, Consistent, Waiting, Calling,
       Recovery, Local, Held, BarrierOf, Final, TurnArrives, Fault, world, watch
<1>6. ASSUME NEW j \in Intent PROVE Clean(j)'
  BY SessionsAssumption DEF IInv, TypeOK, OneHolder, Barred, Consistent, Clean, Calm, Excused,
       Waiting, Calling, Recovery, Local, Held, BarrierOf, TurnArrives, Fault, world, watch
<1>7. ASSUME NEW j \in Intent PROVE TrueAnswer(j)'
  BY SessionsAssumption DEF IInv, TypeOK, Consistent, TrueAnswer, Waiting, Calling, Local,
       Final, OneHolder, Held, TurnArrives, Fault, world, watch
<1>8. Standing
  BY SessionsAssumption DEF IInv, TypeOK, Standing, Consistent, Waiting, Calling, Final,
       TurnArrives, Fault, world, watch
<1>. QED BY <1>1, <1>2, <1>3, <1>4, <1>5, <1>6, <1>7, <1>8 DEF IInv

LEMMA TurnRunsKeeps == ASSUME IInv, TurnRuns PROVE IInv' /\ Standing
<1>1. /\ conv \in ConvRow /\ conv.bar = "none" /\ conv.st \in {"active", "uninitialized"}
          /\ busy' \in BOOLEAN
  BY Types DEF IInv, TurnRuns
<1>2. /\ conv' \in ConvRow /\ conv'.bar = conv.bar /\ conv'.by = conv.by
          /\ conv'.st \in {conv.st, "active"}
      /\ rev' \in [Revision -> {"none", "active", "superseded", "archived"}]
      /\ \/ conv'.act = conv.act /\ rev' = rev
         \/ conv'.act # 0 /\ conv'.act \in Revision /\ rev' = Activated(conv'.act)
  <2>1. CASE conv.act # 0
    BY <1>1, <2>1, Types DEF IInv, TurnRuns
  <2>2. CASE conv.act = 0
    <3>1. PICK r \in FirstFresh : rev' = Activated(r)
              /\ conv' = [conv EXCEPT !.st = "active", !.act = r]
      BY <2>2 DEF TurnRuns
    <3>2. r \in 1..MaxRev /\ r \in 0..MaxRev /\ r # 0
      BY SessionsAssumption DEF FirstFresh, Fresh, Revision
    <3>3. conv' \in ConvRow /\ conv'.act = r /\ conv'.st = "active" /\ conv'.bar = conv.bar
              /\ conv'.by = conv.by
      BY <1>1, <3>1, <3>2 DEF ConvRow
    <3>4. rev' \in [Revision -> {"none", "active", "superseded", "archived"}]
      BY <3>1, Types DEF IInv, Activated
    <3>. QED BY <3>1, <3>2, <3>3, <3>4 DEF Revision
  <2>. QED BY <2>1, <2>2
<1>3. UNCHANGED <<intent, task, asked, drift, thread, monitor, looked, stolen, faults>>
  BY DEF TurnRuns, world, watch
<1>4. TypeOK'
  BY <1>1, <1>2, <1>3, SessionsAssumption DEF IInv, TypeOK, ConvRow, Intents, IntentSt, Tasks,
       Pc
<1>5. OneRevision'
  BY <1>2, OneActive DEF IInv, OneRevision
<1>6. OneHolder'
  BY <1>1, <1>2, <1>3, SessionsAssumption DEF IInv, TypeOK, OneHolder, Held
<1>7. Barred'
  BY <1>1, <1>2, <1>3, SessionsAssumption DEF IInv, TypeOK, OneHolder, Consistent, Clean,
       Barred, Calm, Excused, BarrierOf, Waiting, Calling, Held, Recovery, Local
<1>8. ASSUME NEW j \in Intent PROVE Consistent(j)'
  BY <1>1, <1>2, <1>3, SessionsAssumption DEF IInv, TypeOK, OneHolder, Barred, Consistent,
       Waiting, Calling, Recovery, Local, Held, BarrierOf, Final
<1>9. ASSUME NEW j \in Intent PROVE Clean(j)'
  BY <1>1, <1>2, <1>3, SessionsAssumption DEF IInv, TypeOK, OneHolder, Barred, Consistent,
       Clean, Calm, Excused, Waiting, Calling, Recovery, Local, Held, BarrierOf
<1>10. ASSUME NEW j \in Intent PROVE TrueAnswer(j)'
  BY <1>1, <1>2, <1>3, SessionsAssumption DEF IInv, TypeOK, Consistent, TrueAnswer, Waiting,
       Calling, Local, Final, OneHolder, Held
<1>11. Standing
  BY <1>1, <1>2, <1>3, SessionsAssumption DEF IInv, TypeOK, Standing, Consistent, Waiting,
       Calling, Final
<1>. QED BY <1>4, <1>5, <1>6, <1>7, <1>8, <1>9, <1>10, <1>11 DEF IInv

LEMMA DeletedKeeps == ASSUME IInv, Deleted PROVE IInv' /\ Standing
<1>1. /\ conv \in ConvRow /\ conv' \in ConvRow /\ conv'.st = "deleted" /\ conv'.act = conv.act
      /\ conv'.bar = conv.bar /\ conv'.by = conv.by
  BY Types DEF IInv, Deleted, ConvRow
<1>2. busy' \in BOOLEAN /\ faults' \in 0..MaxFaults
  BY FaultCounts DEF IInv, Deleted
<1>3. UNCHANGED <<rev, intent, task, asked, drift, thread, monitor, looked, stolen>>
  BY DEF Deleted, world, watch
<1>4. TypeOK'
  BY <1>1, <1>2, <1>3, SessionsAssumption DEF IInv, TypeOK, ConvRow, Intents, IntentSt, Tasks,
       Pc
<1>5. OneRevision'
  BY <1>1, <1>2, <1>3, SessionsAssumption DEF IInv, TypeOK, OneRevision
<1>6. OneHolder'
  BY <1>1, <1>2, <1>3, SessionsAssumption DEF IInv, TypeOK, OneHolder, Held
<1>7. Barred'
  BY <1>1, <1>2, <1>3, SessionsAssumption DEF IInv, TypeOK, OneHolder, Consistent, Clean,
       Barred, Calm, Excused, BarrierOf, Waiting, Calling, Held, Recovery, Local
<1>8. ASSUME NEW j \in Intent PROVE Consistent(j)'
  BY <1>1, <1>2, <1>3, SessionsAssumption DEF IInv, TypeOK, OneHolder, Barred, Consistent,
       Waiting, Calling, Recovery, Local, Held, BarrierOf, Final
<1>9. ASSUME NEW j \in Intent PROVE Clean(j)'
  BY <1>1, <1>2, <1>3, SessionsAssumption DEF IInv, TypeOK, OneHolder, Barred, Consistent,
       Clean, Calm, Excused, Waiting, Calling, Recovery, Local, Held, BarrierOf
<1>10. ASSUME NEW j \in Intent PROVE TrueAnswer(j)'
  BY <1>1, <1>2, <1>3, SessionsAssumption DEF IInv, TypeOK, Consistent, TrueAnswer, Waiting,
       Calling, Local, Final, OneHolder, Held
<1>11. Standing
  BY <1>1, <1>2, <1>3, SessionsAssumption DEF IInv, TypeOK, Standing, Consistent, Waiting,
       Calling, Final
<1>. QED BY <1>4, <1>5, <1>6, <1>7, <1>8, <1>9, <1>10, <1>11 DEF IInv

LEMMA CrashKeeps == ASSUME IInv, Crash PROVE IInv' /\ Standing
<1>1. /\ task' \in Tasks /\ \A p \in Intent : task'[p].pc = "none"
  BY ZeroRev DEF Crash, NoTask, Tasks, Pc
<1>2. /\ intent \in Intents /\ intent' \in Intents
      /\ \A p \in Intent : intent'[p].cmd = intent[p].cmd /\ intent'[p].st = Recovered(p)
  <2>1. \A p \in Intent : Recovered(p) \in IntentSt
    BY Types DEF IInv, Recovered, Intents, IntentSt, Final
  <2>. QED BY <2>1, Types DEF IInv, Crash, Intents
<1>3. monitor' \in {"look", "off"} /\ looked' = none
  BY DEF Crash, Restored
<1>4. faults' \in 0..MaxFaults
  BY Types, FaultCounts DEF IInv, Crash
<1>5. UNCHANGED <<conv, rev, asked, drift, thread, busy, stolen>>
  BY DEF Crash, world
<1>6. TypeOK'
  BY <1>1, <1>2, <1>3, <1>4, <1>5, SessionsAssumption DEF IInv, TypeOK, ConvRow, Intents,
       IntentSt, Tasks, Pc
<1>7. OneRevision'
  BY <1>1, <1>2, <1>3, <1>4, <1>5, SessionsAssumption DEF IInv, TypeOK, OneRevision
<1>8. OneHolder'
  BY <1>1, <1>2, <1>3, <1>4, <1>5, SessionsAssumption DEF IInv, TypeOK, OneHolder, Held
<1>9. Barred'
  BY <1>1, <1>2, <1>3, <1>4, <1>5, SessionsAssumption DEF IInv, TypeOK, OneHolder, Consistent,
       Clean, Barred, Calm, Excused, BarrierOf, Waiting, Calling, Held, Recovery, Local
<1>10. ASSUME NEW j \in Intent PROVE Consistent(j)'
  BY <1>1, <1>2, <1>3, <1>4, <1>5, SessionsAssumption DEF IInv, TypeOK, Consistent, Waiting,
      Calling, Held,
     BarrierOf, Final, Recovered
<1>11. ASSUME NEW j \in Intent PROVE Clean(j)'
  BY <1>1, <1>2, <1>3, <1>4, <1>5, SessionsAssumption DEF IInv, TypeOK, OneHolder, Barred,
       Consistent, Clean, Calm, Excused, Waiting, Calling, Recovery, Local, Held, BarrierOf
<1>12. ASSUME NEW j \in Intent PROVE TrueAnswer(j)'
  BY <1>1, <1>2, <1>5 DEF IInv, TypeOK, Consistent, TrueAnswer, Final, Recovered
<1>13. Standing
  BY <1>2, <1>5 DEF Standing, Intents, IntentSt, Final, Recovered
<1>. QED BY <1>6, <1>7, <1>8, <1>9, <1>10, <1>11, <1>12, <1>13 DEF IInv

-----------------------------------------------------------------------------
(***************************************************************************)
(* The theorems.                                                           *)
(***************************************************************************)

LEMMA InitSound == Init => IInv
<1>1. SUFFICES ASSUME Init PROVE IInv
  OBVIOUS
<1>2. 1 \in 0..MaxRev /\ 0 \in 0..MaxRev /\ 0 \in 0..MaxFaults /\ 1 \in Revision
  BY SessionsAssumption DEF Revision
<1>3. TypeOK
  BY <1>1, <1>2 DEF Init, TypeOK, NoTask
<1>4. OneRevision
  BY <1>1, <1>2 DEF Init, OneRevision
<1>5. OneHolder /\ Barred
  BY <1>1 DEF Init, OneHolder, Barred, NoTask, Held
<1>6. ASSUME NEW i \in Intent PROVE Consistent(i) /\ Clean(i) /\ TrueAnswer(i)
  BY <1>1, SessionsAssumption DEF Init, Consistent, Clean, TrueAnswer, NoTask, Waiting,
      Calling, Held
<1>. QED BY <1>3, <1>4, <1>5, <1>6 DEF IInv

LEMMA TaskKeeps == ASSUME IInv, NEW i \in Intent, Step(i) PROVE IInv' /\ Standing
<1>1. CASE \/ Start(i) \/ Prepare(i) \/ NotReady(i) \/ ChoiceRefused(i) \/ Mistaken(i)
           \/ \E to \in 0..MaxRev : Begin(i, to)
  BY <1>1, StartKeeps, PrepareKeeps, NotReadyKeeps, ChoiceRefusedKeeps, MistakenKeeps, BeginKeeps
<1>2. CASE SetWebSearch(i) \/ Provider(i)
  BY <1>2, SetWebSearchKeeps, SucceedsKeeps, RejectsKeeps, LosesKeeps DEF Provider
<1>3. CASE \/ \E r \in Revision : Commit(i, r)
           \/ CommitFails(i) \/ Mismatch(i) \/ CompactAccepted(i)
  BY <1>3, CommitKeeps, CommitFailsKeeps, MismatchKeeps, CompactAcceptedKeeps
<1>4. CASE Undo(i) \/ Mark(i) \/ Fence(i) \/ SetPreference(i) \/ Clear(i) \/ Answer(i)
  BY <1>4, UndoKeeps, MarkKeeps, FenceKeeps, SetPreferenceKeeps, ClearKeeps, AnswerKeeps
<1>5. CASE CompactFails(i) \/ UndoFails(i) \/ MarkFails(i) \/ FenceFails(i)
  BY <1>5, FailsKeeps
<1>. QED BY <1>1, <1>2, <1>3, <1>4, <1>5 DEF Step

LEMMA StepKeeps == ASSUME IInv, [Next]_vars PROVE IInv' /\ (Standing \/ UNCHANGED vars)
<1>1. CASE UNCHANGED vars
  <2>1. TypeOK' /\ OneRevision' /\ OneHolder' /\ Barred'
    BY <1>1 DEF vars, IInv, TypeOK, OneRevision, OneHolder, Barred, Calm, Excused
  <2>2. \A i \in Intent : Consistent(i)' /\ Clean(i)' /\ TrueAnswer(i)'
    BY <1>1 DEF vars, IInv, Consistent, Clean, TrueAnswer, Calm, Excused
  <2>. QED BY <1>1, <2>1, <2>2 DEF IInv
<1>2. CASE \E i \in Intent : Step(i) \/ Apply(i) \/ \E cmd \in Command : Accept(i, cmd)
  BY <1>2, TaskKeeps, ApplyKeeps, AcceptKeeps
<1>3. CASE MonitorStep
  BY <1>3, MonitorLooksKeeps, MonitorMismatchKeeps, MonitorResolvesKeeps, MonitorBlocksKeeps
     DEF MonitorStep
<1>4. CASE Compacted \/ TurnArrives \/ TurnRuns \/ Deleted \/ Crash
  BY <1>4, CompactedKeeps, TurnArrivesKeeps, TurnRunsKeeps, DeletedKeeps, CrashKeeps
<1>. QED BY <1>1, <1>2, <1>3, <1>4 DEF Next

\* IInv is inductive: it holds at the start and every step of Spec keeps it.
THEOREM InductiveInvariant == Spec => []IInv
<1>1. Init => IInv
  BY InitSound
<1>2. IInv /\ [Next]_vars => IInv'
  BY StepKeeps
<1>. QED BY <1>1, <1>2, PTL DEF Spec

\* Every variable keeps to its type, for all interactions and failures.
THEOREM TypeCorrect == Spec => []TypeOK
<1>1. IInv => TypeOK
  BY DEF IInv
<1>. QED BY <1>1, InductiveInvariant, PTL

\* What a command changed at the provider stays behind a barrier or a fence until
\* it is committed or the owner recovers (session_lifecycle.py).
THEOREM DriftStaysBarred == Spec => []DriftIsBarred
<1>1. IInv => DriftIsBarred
  BY DEF IInv, Barred, DriftIsBarred
<1>. QED BY <1>1, InductiveInvariant, PTL

\* Every durable answer says what the provider did (command_intents).
THEOREM AnswersStayTrue == Spec => []AnswersAreTrue
<1>1. IInv => AnswersAreTrue
  BY DEF IInv, TrueAnswer, AnswersAreTrue
<1>. QED BY <1>1, InductiveInvariant, PTL

\* No late transaction of a command, the monitor or a restart changes an answer,
\* or brings a deleted Conversation back.
THEOREM AnswersStandForGood == Spec => AnswersStand
<1>1. IInv /\ [Next]_vars => Standing \/ UNCHANGED vars
  BY StepKeeps
<1>2. [][Standing]_vars => AnswersStand
  BY PTL DEF Standing, AnswersStand
<1>3. Spec => [][Standing]_vars
  BY <1>1, InductiveInvariant, PTL DEF Spec
<1>. QED BY <1>2, <1>3, PTL

\* A Conversation has one active revision, the one its row names
\* (activate_thread_revision).
THEOREM OneActiveRevision == Spec => []OneRevision
<1>1. IInv => OneRevision
  BY DEF IInv
<1>. QED BY <1>1, InductiveInvariant, PTL


================================================================================
