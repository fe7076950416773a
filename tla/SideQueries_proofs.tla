--------------------------- MODULE SideQueries_proofs --------------------------
(***************************************************************************)
(* Proofs about SideQueries: types, that every fork is seen to, and that   *)
(* no runtime is evicted under one, for every set of queries and users,    *)
(* every bound and every choice of failures.                               *)
(***************************************************************************)
EXTENDS SideQueries, TLAPS

\* Where an ask stands: before it has touched the provider, while its row is
\* live, while it has a runtime, and when its fork has been seen to.
Untouched == {"none", "accepted", "check", "ensure", "recheck", "fork"}
OnRuntime == {"recheck", "fork", "turn", "detach", "mark", "collect", "close", "interrupt", "unsubscribe"}
Before == {"accepted", "check", "ensure"} \cup OnRuntime
After == {"finish", "report", "settle", "final", "done"}

Quiet(q) == side[q] \in {"loaded", "running", "cut"} => q \in messy

\* An except clause was cut short, and close() still has the handle.
LeftToClose(q) ==
    /\ task[q].pc \in {"final", "done"} /\ row[q] \in LiveRow
    /\ q \in items /\ (phase = "gathering" \/ (phase = "sweeping" /\ q \in todo))

Sound(q) ==
    /\ row[q] = "none" => task[q].pc = "none"
    /\ task[q].pc \in Untouched => side[q] = "none"
    /\ task[q].pc \in Before => row[q] \in LiveRow
    /\ late[q] \in {"completed", "failed"} => task[q].pc \in {"settle", "final", "done"} /\ Quiet(q)
    /\ task[q].pc \in After => Quiet(q) \/ LeftToClose(q)
    /\ q \in items => task[q].pc \notin {"none", "accepted"} /\ (phase = "sweeping" => task[q].pc = "done")
    /\ slot.evicting => task[q].pc \notin OnRuntime /\ Quiet(q)

\* What both properties need of each query.
IInv == TypeOK /\ \A q \in Query : Sound(q)

--------------------------------------------------------------------------------
(***************************************************************************)
(* What the helpers of the actions do.                                     *)
(***************************************************************************)
Tasks == [Query -> [pc : Pc, why : Reasons, gen : 0..MaxGen]]

LEMMA GotoMoves ==
    ASSUME task \in Tasks, NEW q \in Query, NEW pc \in Pc, Goto(q, pc)
    PROVE  /\ task' \in Tasks /\ task'[q] = [task[q] EXCEPT !.pc = pc]
           /\ task'[q].pc = pc /\ task'[q].why = task[q].why
           /\ \A p \in Query \ {q} : task'[p] = task[p]
BY DEF Goto, Tasks

LEMMA GiveUpMoves ==
    ASSUME task \in Tasks, NEW q \in Query, NEW pc \in Pc, NEW why \in Reasons, GiveUp(q, pc, why)
    PROVE  /\ task' \in Tasks /\ task'[q].pc = pc /\ task'[q].why = why
           /\ \A p \in Query \ {q} : task'[p] = task[p]
BY DEF GiveUp, Tasks

LEMMA FaultCounts == ASSUME TypeOK, NEW kind, Fault(kind) PROVE faults' \in 0..MaxFaults
BY SideQueriesAssumption DEF TypeOK, Fault

\* A task that goes on or gives up keeps to its steps, and a fault is counted.
LEMMA MoveTyped ==
    ASSUME IInv, NEW q \in Query,
           \/ \E pc \in Pc : Goto(q, pc)
           \/ \E pc \in Pc, why \in Reasons : GiveUp(q, pc, why),
           faults' = faults \/ \E kind \in Env : Fault(kind)
    PROVE  task' \in Tasks /\ faults' \in 0..MaxFaults /\ \A p \in Query \ {q} : task'[p] = task[p]
<1>1. task \in Tasks /\ TypeOK
  BY DEF IInv, TypeOK, Tasks
<1>2. faults' \in 0..MaxFaults
  BY <1>1, FaultCounts DEF TypeOK
<1>3. CASE \E pc \in Pc : Goto(q, pc)
  BY <1>1, <1>2, <1>3, GotoMoves
<1>4. CASE \E pc \in Pc, why \in Reasons : GiveUp(q, pc, why)
  BY <1>1, <1>2, <1>4, GiveUpMoves
<1>. QED BY <1>3, <1>4

\* A step of one query leaves the others alone.
LEMMA OthersKeep ==
    ASSUME IInv, NEW p \in Query,
           row'[p] = row[p], task'[p] = task[p], late'[p] = late[p],
           side'[p] = side[p] \/ (side[p] # "none" /\ side'[p] = "gone"),
           messy \subseteq messy', items' = items, phase' = phase, p \in todo => p \in todo',
           slot'.evicting => slot.evicting
    PROVE  Sound(p)'
BY DEF IInv, Sound, Quiet, LeftToClose

LEMMA RegisterKeeps == ASSUME IInv, NEW q \in Query, Register(q) PROVE IInv'
<1>1. task' \in Tasks /\ faults' \in 0..MaxFaults /\ \A p \in Query \ {q} : task'[p] = task[p]
  BY MoveTyped DEF Register, Pc
<1>2. TypeOK'
  BY <1>1 DEF IInv, TypeOK, Tasks, Register, memory, LiveRow, Settled
<1>3. ASSUME NEW p \in Query, p # q PROVE Sound(p)'
  BY <1>1, <1>3, OthersKeep DEF IInv, TypeOK, Register, memory
<1>4. task[q].pc = "accepted" /\ task'[q].pc = "check"
  BY GotoMoves, GiveUpMoves DEF IInv, TypeOK, Tasks, Register, At, Pc, Reasons, Settled
<1>5. UNCHANGED <<row, side, messy, slot, late, items, todo, phase>>
  BY DEF Register, memory
<1>6. Sound(q)'
  BY <1>4, <1>5 DEF IInv, Sound, Quiet, LeftToClose, Untouched, OnRuntime, Before, After, LiveRow, Settled
<1>. QED BY <1>2, <1>3, <1>6 DEF IInv

LEMMA TurnAwayKeeps == ASSUME IInv, NEW q \in Query, TurnAway(q) PROVE IInv'
<1>1. task' \in Tasks /\ faults' \in 0..MaxFaults /\ \A p \in Query \ {q} : task'[p] = task[p]
  <2>1. \/ \E pc \in Pc : Goto(q, pc)
        \/ \E pc \in Pc, why \in Reasons : GiveUp(q, pc, why)
    BY DEF TurnAway, Pc, Reasons
  <2>2. faults' = faults \/ \E kind \in Env : Fault(kind)
    BY DEF TurnAway, Fault
  <2>. QED BY <2>1, <2>2, MoveTyped
<1>2. TypeOK'
  BY <1>1 DEF IInv, TypeOK, Tasks, TurnAway, memory, LiveRow, Settled
<1>3. ASSUME NEW p \in Query, p # q PROVE Sound(p)'
  BY <1>1, <1>3, OthersKeep DEF IInv, TypeOK, TurnAway, memory
<1>4. task[q].pc = "accepted" /\ task'[q].pc = "done"
  BY GotoMoves, GiveUpMoves DEF IInv, TypeOK, Tasks, TurnAway, At, Pc, Reasons, Settled
<1>5. row'[q] \in {row[q], "failed"}
  BY DEF IInv, TypeOK, TurnAway, Settled
<1>6. UNCHANGED <<side, messy, slot, late, items, todo, phase>>
  BY DEF TurnAway, memory
<1>7. Sound(q)'
  BY <1>4, <1>5, <1>6 DEF IInv, Sound, Quiet, LeftToClose, Untouched, OnRuntime, Before, After, LiveRow, Settled
<1>. QED BY <1>2, <1>3, <1>7 DEF IInv

LEMMA CheckKeeps == ASSUME IInv, NEW q \in Query, Check(q) PROVE IInv'
<1>1. task' \in Tasks /\ faults' \in 0..MaxFaults /\ \A p \in Query \ {q} : task'[p] = task[p]
  <2>1. \/ \E pc \in Pc : Goto(q, pc)
        \/ \E pc \in Pc, why \in Reasons : GiveUp(q, pc, why)
    BY DEF Check, Pc, Reasons
  <2>2. faults' = faults \/ \E kind \in Env : Fault(kind)
    BY DEF Check, Fault
  <2>. QED BY <2>1, <2>2, MoveTyped
<1>2. TypeOK'
  BY <1>1 DEF IInv, TypeOK, Tasks, Check, memory, LiveRow, Settled
<1>3. ASSUME NEW p \in Query, p # q PROVE Sound(p)'
  BY <1>1, <1>3, OthersKeep DEF IInv, TypeOK, Check, memory
<1>4. task[q].pc \in {"check", "recheck"} /\ task'[q].pc \in {"ensure", "fork", "settle"}
  BY GotoMoves, GiveUpMoves DEF IInv, TypeOK, Tasks, Check, At, Pc, Reasons, Settled
<1>5. task[q].pc = "check" => task'[q].pc # "fork"
  BY GotoMoves, GiveUpMoves DEF IInv, TypeOK, Tasks, Check, At, Pc, Reasons, Settled
<1>6. UNCHANGED <<row, side, messy, slot, late, items, todo, phase>>
  BY DEF Check, memory
<1>7. Sound(q)'
  BY <1>4, <1>5, <1>6 DEF IInv, Sound, Quiet, LeftToClose, Untouched, OnRuntime, Before, After, LiveRow, Settled
<1>. QED BY <1>2, <1>3, <1>7 DEF IInv

LEMMA EnsureKeeps == ASSUME IInv, NEW q \in Query, Ensure(q) PROVE IInv'
<1>1. /\ task' \in Tasks /\ faults' \in 0..MaxFaults /\ \A p \in Query \ {q} : task'[p] = task[p]
      /\ task'[q].pc \in {"recheck", "settle"}
      /\ slot' \in [gen : 0..MaxGen, ready : BOOLEAN, alive : BOOLEAN, evicting : BOOLEAN]
      /\ slot'.evicting = slot.evicting
  <2>0. slot.gen \in 0..MaxGen /\ faults \in 0..MaxFaults /\ task \in Tasks
    BY DEF IInv, TypeOK, Tasks
  <2>1. CASE UNCHANGED <<slot, faults>> /\ task' = [task EXCEPT ![q].pc = "recheck", ![q].gen = slot.gen]
    <3>1. task' \in Tasks /\ task'[q].pc = "recheck" /\ \A p \in Query \ {q} : task'[p] = task[p]
      BY <2>0, <2>1 DEF Tasks, Pc
    <3>. QED BY <2>0, <2>1, <3>1 DEF IInv, TypeOK
  <2>2. CASE /\ slot.gen < MaxGen /\ slot' = [slot EXCEPT !.gen = @ + 1, !.ready = TRUE, !.alive = TRUE]
             /\ task' = [task EXCEPT ![q].pc = "recheck", ![q].gen = slot.gen + 1] /\ UNCHANGED faults
    <3>1. slot.gen + 1 \in 0..MaxGen
      BY <2>0, <2>2, SideQueriesAssumption
    <3>2. task' \in Tasks /\ task'[q].pc = "recheck" /\ \A p \in Query \ {q} : task'[p] = task[p]
      BY <2>0, <2>2, <3>1 DEF Tasks, Pc
    <3>. QED BY <2>0, <2>2, <3>1, <3>2 DEF IInv, TypeOK
  <2>3. CASE (UNCHANGED faults \/ Fault("refuse")) /\ GiveUp(q, "settle", "error") /\ UNCHANGED slot
    <3>1. faults' \in 0..MaxFaults
      BY <2>3, FaultCounts DEF IInv, TypeOK
    <3>2. /\ task' \in Tasks /\ task'[q].pc = "settle" /\ \A p \in Query \ {q} : task'[p] = task[p]
      BY <2>3, GiveUpMoves DEF IInv, TypeOK, Tasks, Pc, Reasons
    <3>. QED BY <2>3, <3>1, <3>2 DEF IInv, TypeOK
  <2>. QED BY <2>1, <2>2, <2>3 DEF Ensure
<1>2. task[q].pc = "ensure" /\ ~slot.evicting /\ UNCHANGED <<row, user, side, late, messy, stuck, opened, phase, items, todo>>
  BY DEF Ensure, At, memory
<1>3. TypeOK'
  BY <1>1, <1>2 DEF IInv, TypeOK, Tasks
<1>4. ASSUME NEW p \in Query, p # q PROVE Sound(p)'
  BY <1>1, <1>2, <1>4, OthersKeep
<1>5. Sound(q)'
  BY <1>1, <1>2 DEF IInv, Sound, Quiet, LeftToClose, Untouched, OnRuntime, Before, After, LiveRow, Settled
<1>. QED BY <1>3, <1>4, <1>5 DEF IInv

LEMMA FailureIsBlamed == ASSUME TypeOK, NEW q \in Query, Failure(q)
                         PROVE  faults' \in 0..MaxFaults /\ Blame(q) \subseteq {"error", "runtime"}
BY FaultCounts DEF TypeOK, Failure, Blame

LEMMA ForkKeeps == ASSUME IInv, NEW q \in Query, Fork(q) PROVE IInv'
<1>0. \/ Goto(q, "turn") \/ (\E why \in Reasons : GiveUp(q, "settle", why) \/ GiveUp(q, "report", why))
  <2>1. CASE Failure(q) /\ \E why \in Blame(q) : GiveUp(q, IF why = "runtime" THEN "report" ELSE "settle", why)
    BY <2>1, FailureIsBlamed DEF IInv, Reasons
  <2>. QED BY <2>1 DEF Fork, Reasons
<1>1. task' \in Tasks /\ faults' \in 0..MaxFaults /\ \A p \in Query \ {q} : task'[p] = task[p]
  <2>1. task' \in Tasks /\ \A p \in Query \ {q} : task'[p] = task[p]
    BY <1>0, GotoMoves, GiveUpMoves DEF IInv, TypeOK, Tasks, Pc
  <2>2. faults' \in 0..MaxFaults
    BY FailureIsBlamed, FaultCounts DEF IInv, TypeOK, Fork
  <2>. QED BY <2>1, <2>2
<1>2. TypeOK'
  BY <1>1 DEF IInv, TypeOK, Tasks, Fork, Failure, Blame, memory, LiveRow, Settled
<1>3. ASSUME NEW p \in Query, p # q PROVE Sound(p)'
  BY <1>1, <1>3, OthersKeep DEF IInv, TypeOK, Fork, Failure, Blame, memory
<1>4. task[q].pc = "fork" /\ task'[q].pc \in {"turn", "settle", "report"}
  BY <1>0, GotoMoves, GiveUpMoves DEF IInv, TypeOK, Tasks, Fork, At, Pc
<1>5. task'[q].pc # "turn" => side'[q] = side[q] \/ q \in messy'
  BY GotoMoves DEF IInv, TypeOK, Tasks, Fork, Pc
<1>6. messy \subseteq messy'
  BY DEF Fork, memory
<1>7. UNCHANGED <<row, slot, late, items, todo, phase>>
  BY DEF Fork, memory
<1>8. Sound(q)'
  BY <1>4, <1>5, <1>6, <1>7 DEF IInv, Sound, Quiet, LeftToClose, Untouched, OnRuntime, Before, After, LiveRow, Settled
<1>. QED BY <1>2, <1>3, <1>8 DEF IInv

LEMMA StartTurnKeeps == ASSUME IInv, NEW q \in Query, StartTurn(q) PROVE IInv'
<1>0. \/ Goto(q, "mark") \/ \E why \in Reasons : GiveUp(q, "detach", why)
  <2>1. CASE Failure(q) /\ \E why \in Blame(q) : GiveUp(q, "detach", why)
    BY <2>1, FailureIsBlamed DEF IInv, Reasons
  <2>. QED BY <2>1 DEF StartTurn, Reasons
<1>1. task' \in Tasks /\ faults' \in 0..MaxFaults /\ \A p \in Query \ {q} : task'[p] = task[p]
  <2>1. task' \in Tasks /\ \A p \in Query \ {q} : task'[p] = task[p]
    BY <1>0, GotoMoves, GiveUpMoves DEF IInv, TypeOK, Tasks, Pc
  <2>2. faults' \in 0..MaxFaults
    BY FailureIsBlamed, FaultCounts DEF IInv, TypeOK, StartTurn
  <2>. QED BY <2>1, <2>2
<1>2. TypeOK'
  BY <1>1 DEF IInv, TypeOK, Tasks, StartTurn, Failure, Blame, memory, LiveRow, Settled
<1>3. ASSUME NEW p \in Query, p # q PROVE Sound(p)'
  BY <1>1, <1>3, OthersKeep DEF IInv, TypeOK, StartTurn, Failure, Blame, memory
<1>4. task[q].pc = "turn" /\ task'[q].pc \in {"mark", "detach"}
  BY <1>0, GotoMoves, GiveUpMoves DEF IInv, TypeOK, Tasks, StartTurn, At, Pc
<1>5. UNCHANGED <<row, messy, slot, late, items, todo, phase>>
  BY DEF StartTurn, memory
<1>6. Sound(q)'
  BY <1>4, <1>5 DEF IInv, Sound, Quiet, LeftToClose, Untouched, OnRuntime, Before, After, LiveRow, Settled
<1>. QED BY <1>2, <1>3, <1>6 DEF IInv

LEMMA DetachKeeps == ASSUME IInv, NEW q \in Query, Detach(q) PROVE IInv'
<1>1. task' \in Tasks /\ faults' \in 0..MaxFaults /\ \A p \in Query \ {q} : task'[p] = task[p]
  <2>1. \/ \E pc \in Pc : Goto(q, pc)
        \/ \E pc \in Pc, why \in Reasons : GiveUp(q, pc, why)
    BY DEF Detach, Pc, Reasons
  <2>2. faults' = faults \/ \E kind \in Env : Fault(kind)
    BY DEF Detach, Fault
  <2>. QED BY <2>1, <2>2, MoveTyped
<1>2. TypeOK'
  BY <1>1 DEF IInv, TypeOK, Tasks, Detach, memory, LiveRow, Settled
<1>3. ASSUME NEW p \in Query, p # q PROVE Sound(p)'
  BY <1>1, <1>3, OthersKeep DEF IInv, TypeOK, Detach, memory
<1>4. task[q].pc = "detach" /\ task'[q].pc \in {"settle", "report"}
  BY GotoMoves, GiveUpMoves DEF IInv, TypeOK, Tasks, Detach, At, Pc, Reasons, Settled
<1>5. side'[q] = "gone" \/ (side'[q] = side[q] /\ q \in messy')
  BY DEF IInv, TypeOK, Detach, Settled
<1>6. messy \subseteq messy'
  BY DEF Detach, memory
<1>7. UNCHANGED <<row, slot, late, items, todo, phase>>
  BY DEF Detach, memory
<1>8. Sound(q)'
  BY <1>4, <1>5, <1>6, <1>7 DEF IInv, Sound, Quiet, LeftToClose, Untouched, OnRuntime, Before, After, LiveRow, Settled
<1>. QED BY <1>2, <1>3, <1>8 DEF IInv

LEMMA MarkRunningKeeps == ASSUME IInv, NEW q \in Query, MarkRunning(q) PROVE IInv'
<1>1. task' \in Tasks /\ faults' \in 0..MaxFaults /\ \A p \in Query \ {q} : task'[p] = task[p]
  <2>1. \/ \E pc \in Pc : Goto(q, pc)
        \/ \E pc \in Pc, why \in Reasons : GiveUp(q, pc, why)
    BY DEF MarkRunning, Pc, Reasons
  <2>2. faults' = faults \/ \E kind \in Env : Fault(kind)
    BY DEF MarkRunning, Fault
  <2>. QED BY <2>1, <2>2, MoveTyped
<1>2. TypeOK'
  BY <1>1 DEF IInv, TypeOK, Tasks, MarkRunning, memory, LiveRow, Settled
<1>3. ASSUME NEW p \in Query, p # q PROVE Sound(p)'
  BY <1>1, <1>3, OthersKeep DEF IInv, TypeOK, MarkRunning, memory
<1>4. task[q].pc = "mark" /\ task'[q].pc \in {"collect", "interrupt"}
  BY GotoMoves, GiveUpMoves DEF IInv, TypeOK, Tasks, MarkRunning, At, Pc, Reasons, Settled
<1>5. row'[q] \in {row[q], "running"}
  BY DEF IInv, TypeOK, MarkRunning, Settled
<1>6. UNCHANGED <<side, messy, slot, late, items, todo, phase>>
  BY DEF MarkRunning, memory
<1>7. Sound(q)'
  BY <1>4, <1>5, <1>6 DEF IInv, Sound, Quiet, LeftToClose, Untouched, OnRuntime, Before, After, LiveRow, Settled
<1>. QED BY <1>2, <1>3, <1>7 DEF IInv

LEMMA CollectKeeps == ASSUME IInv, NEW q \in Query, Collect(q) PROVE IInv'
<1>1. task' \in Tasks /\ faults' \in 0..MaxFaults /\ \A p \in Query \ {q} : task'[p] = task[p]
  <2>1. \/ \E pc \in Pc : Goto(q, pc)
        \/ \E pc \in Pc, why \in Reasons : GiveUp(q, pc, why)
    BY DEF Collect, Pc, Reasons
  <2>2. faults' = faults \/ \E kind \in Env : Fault(kind)
    BY DEF Collect, Fault
  <2>. QED BY <2>1, <2>2, MoveTyped
<1>2. TypeOK'
  BY <1>1 DEF IInv, TypeOK, Tasks, Collect, memory, LiveRow, Settled
<1>3. ASSUME NEW p \in Query, p # q PROVE Sound(p)'
  BY <1>1, <1>3, OthersKeep DEF IInv, TypeOK, Collect, memory
<1>4. task[q].pc = "collect" /\ task'[q].pc \in {"close", "interrupt", "unsubscribe"}
  BY GotoMoves, GiveUpMoves DEF IInv, TypeOK, Tasks, Collect, At, Pc, Reasons, Settled
<1>5. UNCHANGED <<row, side, messy, slot, late, items, todo, phase>>
  BY DEF Collect, memory
<1>6. Sound(q)'
  BY <1>4, <1>5 DEF IInv, Sound, Quiet, LeftToClose, Untouched, OnRuntime, Before, After, LiveRow, Settled
<1>. QED BY <1>2, <1>3, <1>6 DEF IInv

LEMMA CloseAnsweredKeeps == ASSUME IInv, NEW q \in Query, CloseAnswered(q) PROVE IInv'
<1>1. task' \in Tasks /\ faults' \in 0..MaxFaults /\ \A p \in Query \ {q} : task'[p] = task[p]
  <2>1. \/ \E pc \in Pc : Goto(q, pc)
        \/ \E pc \in Pc, why \in Reasons : GiveUp(q, pc, why)
    BY DEF CloseAnswered, Pc, Reasons
  <2>2. faults' = faults \/ \E kind \in Env : Fault(kind)
    BY DEF CloseAnswered, Fault
  <2>. QED BY <2>1, <2>2, MoveTyped
<1>2. TypeOK'
  BY <1>1 DEF IInv, TypeOK, Tasks, CloseAnswered, memory, LiveRow, Settled
<1>3. ASSUME NEW p \in Query, p # q PROVE Sound(p)'
  BY <1>1, <1>3, OthersKeep DEF IInv, TypeOK, CloseAnswered, memory
<1>4. task[q].pc = "close" /\ task'[q].pc \in {"finish", "interrupt"}
  BY GotoMoves, GiveUpMoves DEF IInv, TypeOK, Tasks, CloseAnswered, At, Pc, Reasons, Settled
<1>5. task'[q].pc = "finish" => side'[q] = "gone"
  <2>1. CASE GiveUp(q, "interrupt", "error")
    BY <2>1, GiveUpMoves DEF IInv, TypeOK, Tasks, Pc, Reasons
  <2>2. CASE side' = [side EXCEPT ![q] = "gone"]
    BY <2>2 DEF IInv, TypeOK
  <2>. QED BY <2>1, <2>2 DEF CloseAnswered
<1>6. messy \subseteq messy'
  BY DEF CloseAnswered, memory
<1>7. side'[q] \in {side[q], "gone"}
  BY DEF IInv, TypeOK, CloseAnswered, Settled
<1>8. UNCHANGED <<row, slot, late, items, todo, phase>>
  BY DEF CloseAnswered, memory
<1>9. Sound(q)'
  BY <1>4, <1>5, <1>6, <1>7, <1>8 DEF IInv, Sound, Quiet, LeftToClose, Untouched, OnRuntime, Before, After, LiveRow, Settled
<1>. QED BY <1>2, <1>3, <1>9 DEF IInv

LEMMA FinishKeeps == ASSUME IInv, NEW q \in Query, Finish(q) PROVE IInv'
<1>1. task' \in Tasks /\ faults' \in 0..MaxFaults /\ \A p \in Query \ {q} : task'[p] = task[p]
  <2>1. \/ \E pc \in Pc : Goto(q, pc)
        \/ \E pc \in Pc, why \in Reasons : GiveUp(q, pc, why)
    BY DEF Finish, Pc, Reasons
  <2>2. faults' = faults \/ \E kind \in Env : Fault(kind)
    BY DEF Finish, Fault
  <2>. QED BY <2>1, <2>2, MoveTyped
<1>2. TypeOK'
  BY <1>1 DEF IInv, TypeOK, Tasks, Finish, memory, LiveRow, Settled
<1>3. ASSUME NEW p \in Query, p # q PROVE Sound(p)'
  BY <1>1, <1>3, OthersKeep DEF IInv, TypeOK, Finish, memory
<1>4. task[q].pc = "finish" /\ task'[q].pc \in {"final", "settle"}
  BY GotoMoves, GiveUpMoves DEF IInv, TypeOK, Tasks, Finish, At, Pc, Reasons, Settled
<1>5. row'[q] \in {row[q], "completed"}
  BY DEF IInv, TypeOK, Finish, Settled
<1>6. UNCHANGED <<side, messy, slot, late, items, todo, phase>>
  BY DEF Finish, memory
<1>7. Sound(q)'
  BY <1>4, <1>5, <1>6 DEF IInv, Sound, Quiet, LeftToClose, Untouched, OnRuntime, Before, After, LiveRow, Settled
<1>. QED BY <1>2, <1>3, <1>7 DEF IInv

LEMMA InterruptKeeps == ASSUME IInv, NEW q \in Query, Interrupt(q) PROVE IInv'
<1>1. task' \in Tasks /\ faults' \in 0..MaxFaults /\ \A p \in Query \ {q} : task'[p] = task[p]
  <2>1. \E pc \in Pc : Goto(q, pc)
    BY DEF Interrupt, Pc
  <2>2. faults' = faults \/ \E kind \in Env : Fault(kind)
    BY DEF Interrupt, Fault
  <2>. QED BY <2>1, <2>2, MoveTyped
<1>2. TypeOK'
  BY <1>1 DEF IInv, TypeOK, Tasks, Interrupt, memory, LiveRow, Settled
<1>3. ASSUME NEW p \in Query, p # q PROVE Sound(p)'
  BY <1>1, <1>3, OthersKeep DEF IInv, TypeOK, Interrupt, memory
<1>4. task[q].pc = "interrupt" /\ task'[q].pc = "unsubscribe"
  BY GotoMoves, GiveUpMoves DEF IInv, TypeOK, Tasks, Interrupt, At, Pc, Reasons, Settled
<1>5. UNCHANGED <<row, messy, slot, late, items, todo, phase>>
  BY DEF Interrupt, memory
<1>6. Sound(q)'
  BY <1>4, <1>5 DEF IInv, Sound, Quiet, LeftToClose, Untouched, OnRuntime, Before, After, LiveRow, Settled
<1>. QED BY <1>2, <1>3, <1>6 DEF IInv

LEMMA UnsubscribeKeeps == ASSUME IInv, NEW q \in Query, Unsubscribe(q) PROVE IInv'
<1>1. task' \in Tasks /\ faults' \in 0..MaxFaults /\ \A p \in Query \ {q} : task'[p] = task[p]
  <2>1. \/ \E pc \in Pc : Goto(q, pc)
        \/ \E pc \in Pc, why \in Reasons : GiveUp(q, pc, why)
    BY DEF Unsubscribe, Pc, Reasons
  <2>2. faults' = faults \/ \E kind \in Env : Fault(kind)
    BY DEF Unsubscribe, Fault
  <2>. QED BY <2>1, <2>2, MoveTyped
<1>2. TypeOK'
  BY <1>1 DEF IInv, TypeOK, Tasks, Unsubscribe, memory, LiveRow, Settled
<1>3. ASSUME NEW p \in Query, p # q PROVE Sound(p)'
  BY <1>1, <1>3, OthersKeep DEF IInv, TypeOK, Unsubscribe, memory
<1>4. task[q].pc = "unsubscribe" /\ task'[q].pc \in {"settle", "report"}
  BY GotoMoves, GiveUpMoves DEF IInv, TypeOK, Tasks, Unsubscribe, At, Pc, Reasons, Settled
<1>5. side'[q] = "gone" \/ (side'[q] = side[q] /\ q \in messy')
  BY DEF IInv, TypeOK, Unsubscribe, Settled
<1>6. messy \subseteq messy'
  BY DEF Unsubscribe, memory
<1>7. UNCHANGED <<row, slot, late, items, todo, phase>>
  BY DEF Unsubscribe, memory
<1>8. Sound(q)'
  BY <1>4, <1>5, <1>6, <1>7 DEF IInv, Sound, Quiet, LeftToClose, Untouched, OnRuntime, Before, After, LiveRow, Settled
<1>. QED BY <1>2, <1>3, <1>8 DEF IInv

LEMMA SideGoes == ASSUME TypeOK, NEW gen, SideGone(gen)
                  PROVE  /\ side' \in [Query -> {"none", "loaded", "running", "cut", "gone"}]
                         /\ \A p \in Query : side'[p] = side[p] \/ (side[p] # "none" /\ side'[p] = "gone")
BY DEF TypeOK, SideGone

LEMMA ReportKeeps == ASSUME IInv, NEW q \in Query, Report(q) PROVE IInv'
<1>1. task' \in Tasks /\ faults' \in 0..MaxFaults /\ \A p \in Query \ {q} : task'[p] = task[p]
  BY GotoMoves, FaultCounts DEF IInv, TypeOK, Tasks, Report, Pc
<1>2. task[q].pc = "report" /\ task'[q].pc \in {"settle", "final"}
  BY GotoMoves DEF IInv, TypeOK, Tasks, Report, At, Pc
<1>3. /\ side' \in [Query -> {"none", "loaded", "running", "cut", "gone"}]
      /\ \A p \in Query : side'[p] = side[p] \/ (side[p] # "none" /\ side'[p] = "gone")
  BY SideGoes DEF IInv, TypeOK, Report
<1>4. /\ slot' \in [gen : 0..MaxGen, ready : BOOLEAN, alive : BOOLEAN, evicting : BOOLEAN]
      /\ slot'.evicting = slot.evicting
  <2>1. CASE slot' = [slot EXCEPT !.ready = FALSE, !.alive = FALSE]
    BY <2>1 DEF IInv, TypeOK
  <2>2. CASE UNCHANGED slot
    BY <2>2 DEF IInv, TypeOK
  <2>. QED BY <2>1, <2>2 DEF Report
<1>5. UNCHANGED <<row, user, late, messy, opened, items, todo, phase>> /\ stuck' \in {stuck, stuck \cup {q}}
  BY DEF Report, memory
<1>6. TypeOK'
  BY <1>1, <1>3, <1>4, <1>5 DEF IInv, TypeOK, Tasks
<1>7. ASSUME NEW p \in Query, p # q PROVE Sound(p)'
  BY <1>1, <1>3, <1>4, <1>5, <1>7, OthersKeep
<1>8. Sound(q)'
  BY <1>2, <1>3, <1>4, <1>5 DEF IInv, Sound, Quiet, LeftToClose, Untouched, OnRuntime, Before, After
<1>. QED BY <1>6, <1>7, <1>8 DEF IInv

LEMMA SettleKeeps == ASSUME IInv, NEW q \in Query, Settle(q) PROVE IInv'
<1>1. task' \in Tasks /\ faults' \in 0..MaxFaults /\ \A p \in Query \ {q} : task'[p] = task[p]
  <2>1. \/ \E pc \in Pc : Goto(q, pc)
        \/ \E pc \in Pc, why \in Reasons : GiveUp(q, pc, why)
    BY DEF Settle, Pc, Reasons
  <2>2. faults' = faults \/ \E kind \in Env : Fault(kind)
    BY DEF Settle, Fault
  <2>. QED BY <2>1, <2>2, MoveTyped
<1>2. TypeOK'
  BY <1>1 DEF IInv, TypeOK, Tasks, Settle, memory, LiveRow, Settled
<1>3. ASSUME NEW p \in Query, p # q PROVE Sound(p)'
  BY <1>1, <1>3, OthersKeep DEF IInv, TypeOK, Settle, memory
<1>4. task[q].pc = "settle" /\ task'[q].pc \in {"settle", "final"}
  BY GotoMoves, GiveUpMoves DEF IInv, TypeOK, Tasks, Settle, At, Pc, Reasons, Settled
<1>5. row'[q] \in {row[q]} \cup Settled
  BY DEF IInv, TypeOK, Settle, Settled
<1>6. UNCHANGED <<side, messy, slot, late, items, todo, phase>>
  BY DEF Settle, memory
<1>7. Sound(q)'
  BY <1>4, <1>5, <1>6 DEF IInv, Sound, Quiet, LeftToClose, Untouched, OnRuntime, Before, After, LiveRow, Settled
<1>. QED BY <1>2, <1>3, <1>7 DEF IInv

LEMMA AcceptKeeps == ASSUME IInv, NEW q \in Query, Accept(q) PROVE IInv'
<1>1. task' \in Tasks /\ \A p \in Query \ {q} : task'[p] = task[p]
  BY GotoMoves DEF IInv, TypeOK, Tasks, Accept, Pc
<1>2. TypeOK'
  BY <1>1 DEF IInv, TypeOK, Tasks, Accept, memory, LiveRow, Settled
<1>3. ASSUME NEW p \in Query, p # q PROVE Sound(p)'
  BY <1>1, <1>3, OthersKeep DEF IInv, TypeOK, Accept, memory
<1>4. row[q] = "none" /\ row'[q] = "accepted" /\ task'[q].pc = "accepted"
  BY GotoMoves DEF IInv, TypeOK, Tasks, Accept, Pc
<1>5. UNCHANGED <<side, late, items, todo, phase, messy, slot>>
  BY DEF Accept, memory
<1>6. Sound(q)'
  BY <1>4, <1>5 DEF IInv, Sound, Quiet, LeftToClose, Untouched, OnRuntime, Before, After, LiveRow, Settled
<1>. QED BY <1>2, <1>3, <1>6 DEF IInv

LEMMA LeaveKeeps == ASSUME IInv, NEW q \in Query, Leave(q) PROVE IInv'
<1>1. /\ task' \in Tasks /\ task[q].pc = "final" /\ task'[q].pc = "done"
      /\ \A p \in Query \ {q} : task'[p] = task[p]
  <2>1. [NoTask EXCEPT !.pc = "done", !.gen = IF side[q] = "gone" THEN 0 ELSE task[q].gen]
           \in [pc : Pc, why : Reasons, gen : 0..MaxGen]
    <3>1. 0 \in 0..MaxGen /\ task[q].gen \in 0..MaxGen
      BY SideQueriesAssumption DEF IInv, TypeOK
    <3>. QED BY <3>1 DEF NoTask, Pc, Reasons
  <2>. QED BY <2>1 DEF IInv, TypeOK, Tasks, Leave, At, NoTask
<1>2. UNCHANGED <<row, user, side, late, slot, phase, items, todo, messy, stuck, faults>> /\ opened' \subseteq opened
  BY DEF Leave
<1>3. TypeOK'
  BY <1>1, <1>2 DEF IInv, TypeOK, Tasks
<1>4. ASSUME NEW p \in Query, p # q PROVE Sound(p)'
  BY <1>1, <1>2, <1>4, OthersKeep
<1>5. Sound(q)'
  BY <1>1, <1>2 DEF IInv, Sound, Quiet, LeftToClose, Untouched, OnRuntime, Before, After, LiveRow, Settled
<1>. QED BY <1>3, <1>4, <1>5 DEF IInv

LEMMA LandKeeps == ASSUME IInv, NEW q \in Query, Land(q) PROVE IInv'
<1>1. UNCHANGED <<user, task, side, slot, opened, phase, items, todo, messy, stuck, faults>>
  BY DEF Land, memory
<1>2. /\ late' = [late EXCEPT ![q] = "none"] /\ \A p \in Query \ {q} : row'[p] = row[p]
      /\ row' \in [Query -> {"none"} \cup LiveRow \cup Settled]
      /\ row'[q] = row[q] \/ (row[q] \in LiveRow /\ row'[q] = late[q] /\ late[q] # "none")
  BY DEF IInv, TypeOK, Land, LiveRow, Settled
<1>3. TypeOK'
  BY <1>1, <1>2 DEF IInv, TypeOK
<1>4. ASSUME NEW p \in Query, p # q PROVE Sound(p)'
  BY <1>1, <1>2, <1>4, OthersKeep DEF IInv, TypeOK
<1>5. Sound(q)'
  <2>1. late'[q] = "none" /\ late[q] \in {"none", "running", "completed", "failed"}
    BY <1>2 DEF IInv, TypeOK
  <2>. QED BY <1>1, <1>2, <2>1 DEF IInv, Sound, Quiet, LeftToClose, Untouched, OnRuntime, Before, After, LiveRow, Settled
<1>. QED BY <1>3, <1>4, <1>5 DEF IInv

LEMMA ProviderEndsKeeps == ASSUME IInv, NEW q \in Query, ProviderEnds(q) PROVE IInv'
<1>1. UNCHANGED <<row, user, task, late, slot, opened, phase, items, todo, messy, stuck, faults>>
  BY DEF ProviderEnds, memory
<1>2. /\ side' \in [Query -> {"none", "loaded", "running", "cut", "gone"}]
      /\ side[q] = "running" /\ side'[q] = "loaded" /\ \A p \in Query \ {q} : side'[p] = side[p]
  BY DEF IInv, TypeOK, ProviderEnds
<1>3. TypeOK'
  BY <1>1, <1>2 DEF IInv, TypeOK
<1>4. ASSUME NEW p \in Query, p # q PROVE Sound(p)'
  BY <1>1, <1>2, <1>4, OthersKeep
<1>5. Sound(q)'
  BY <1>1, <1>2 DEF IInv, Sound, Quiet, LeftToClose, Untouched, OnRuntime, Before, After, LiveRow, Settled
<1>. QED BY <1>3, <1>4, <1>5 DEF IInv

--------------------------------------------------------------------------------
(***************************************************************************)
(* close(), which takes its items by and by.                               *)
(***************************************************************************)
LEMMA BeginCloseKeeps == ASSUME IInv, BeginClose PROVE IInv'
<1>1. /\ UNCHANGED <<row, user, task, opened, side, late, slot, messy, stuck, faults>>
      /\ phase = "up" /\ phase' = "interrupting"
      /\ items' \subseteq opened /\ todo' = items'
      /\ \A q \in items' : task[q].pc \notin {"none", "accepted"}
  BY DEF BeginClose, Registered, Over
<1>2. TypeOK'
  BY <1>1 DEF IInv, TypeOK
<1>3. ASSUME NEW p \in Query PROVE Sound(p)'
  BY <1>1 DEF IInv, Sound, Quiet, LeftToClose, Untouched, OnRuntime, Before, After, LiveRow, Settled
<1>. QED BY <1>2, <1>3 DEF IInv

LEMMA InterruptItemKeeps == ASSUME IInv, NEW q \in Query, InterruptItem(q) PROVE IInv'
<1>1. UNCHANGED <<row, user, task, opened, late, slot, phase, items, messy, stuck>> /\ phase = "interrupting"
  BY DEF InterruptItem
<1>2. /\ side' \in [Query -> {"none", "loaded", "running", "cut", "gone"}]
      /\ side'[q] = side[q] \/ (side[q] = "running" /\ side'[q] = "cut")
      /\ \A p \in Query \ {q} : side'[p] = side[p]
  BY DEF IInv, TypeOK, InterruptItem
<1>3. faults' \in 0..MaxFaults /\ todo' \subseteq todo
  BY FaultCounts DEF IInv, TypeOK, InterruptItem
<1>4. TypeOK'
  BY <1>1, <1>2, <1>3 DEF IInv, TypeOK
<1>5. ASSUME NEW p \in Query PROVE Sound(p)'
  BY <1>1, <1>2 DEF IInv, Sound, Quiet, LeftToClose, Untouched, OnRuntime, Before, After, LiveRow, Settled
<1>. QED BY <1>4, <1>5 DEF IInv

LEMMA CancelAllKeeps == ASSUME IInv, CancelAll PROVE IInv'
<1>1. UNCHANGED <<row, user, opened, slot, items, todo, stuck, faults>> /\ phase = "interrupting" /\ phase' = "gathering"
  BY DEF CancelAll
<1>2. ASSUME NEW q \in Query PROVE Cancelled(q) \in [pc : Pc, why : Reasons, gen : 0..MaxGen]
  <2>1. task[q] \in [pc : Pc, why : Reasons, gen : 0..MaxGen]
    BY DEF IInv, TypeOK
  <2>. QED BY <2>1 DEF Cancelled, Pc, Reasons
<1>3. task' \in Tasks /\ \A q \in Query : task'[q] = Cancelled(q)
  BY <1>2 DEF CancelAll, Tasks
<1>4. ASSUME NEW q \in Query PROVE InThread(q) \in {"none", "running", "completed", "failed"}
  BY DEF InThread
<1>5. /\ late' \in [Query -> {"none", "running", "completed", "failed"}]
      /\ \A q \in Query : late'[q] = IF late[q] = "none" THEN InThread(q) ELSE late[q]
  BY <1>4 DEF CancelAll, IInv, TypeOK
<1>6. /\ side' \in [Query -> {"none", "loaded", "running", "cut", "gone"}]
      /\ \A q \in Query : side'[q] = side[q] \/ (InFlight(q) /\ side'[q] = Effect(q))
  <2>1. PICK S \in SUBSET {q \in Query : InFlight(q)} : side' = [q \in Query |-> IF q \in S THEN Effect(q) ELSE side[q]]
    BY DEF CancelAll
  <2>2. \A q \in Query : InFlight(q) => Effect(q) \in {"loaded", "running", "gone"}
    BY DEF InFlight, Effect, At
  <2>. QED BY <2>1, <2>2 DEF IInv, TypeOK
<1>7. /\ messy \subseteq messy' /\ messy' \subseteq Query
      /\ \A q \in Query : task[q].pc \in {"fork", "detach"} \/ (InClause(q) /\ q \notin items) => q \in messy'
  BY DEF CancelAll, IInv, TypeOK
<1>8. TypeOK'
  BY <1>1, <1>3, <1>5, <1>6, <1>7 DEF IInv, TypeOK, Tasks
<1>9. ASSUME NEW q \in Query PROVE Sound(q)'
  <2>0. Sound(q) /\ task[q] \in [pc : Pc, why : Reasons, gen : 0..MaxGen]
    BY DEF IInv, TypeOK
  <2>1. CASE ~Registered(q) \/ At(q, "final")
    <3>1. task'[q] = task[q] /\ task[q].pc \in {"none", "done", "accepted", "final"}
      BY <1>3, <2>1 DEF Cancelled, InClause, HasHandle, Registered, Over, At
    <3>2. late'[q] = late[q] /\ side'[q] = side[q]
      BY <3>1, <1>5, <1>6 DEF InThread, InFlight, At
    <3>. QED BY <2>0, <3>1, <3>2, <1>1, <1>7 DEF Sound, Quiet, LeftToClose, Untouched, OnRuntime, Before, After, LiveRow, Settled
  <2>2. CASE Registered(q) /\ ~At(q, "final") /\ InClause(q)
    <3>1. task'[q].pc = "final" /\ task[q].pc \in {"interrupt", "unsubscribe", "report", "settle"}
      BY <1>3, <2>0, <2>2 DEF Cancelled, InClause, HasHandle, Registered, Over, At
    <3>2. side'[q] = side[q]
      BY <3>1, <1>6 DEF InFlight
    <3>3. late'[q] = late[q] \/ (late'[q] = "none") \/ (late'[q] = "failed" /\ task[q].pc = "settle")
      BY <3>1, <1>5 DEF InThread, At
    <3>. QED BY <2>0, <2>2, <3>1, <3>2, <3>3, <1>1, <1>7 DEF Sound, Quiet, LeftToClose, Untouched, OnRuntime, Before, After, LiveRow, Settled
  <2>3. CASE At(q, "turn")
    <3>1. task'[q].pc = "detach" /\ task[q].pc = "turn"
      BY <1>3, <2>0, <2>3 DEF Cancelled, InClause, HasHandle, Registered, Over, At
    <3>2. late'[q] = late[q] \/ late'[q] = "none"
      BY <3>1, <1>5 DEF InThread, At
    <3>. QED BY <2>0, <3>1, <3>2, <1>1, <1>7 DEF Sound, Quiet, LeftToClose, Untouched, OnRuntime, Before, After, LiveRow, Settled
  <2>4. CASE At(q, "detach")
    <3>1. task'[q].pc \in {"settle", "report"} /\ task[q].pc = "detach"
      BY <1>3, <2>0, <2>4 DEF Cancelled, InClause, HasHandle, Registered, Over, At
    <3>2. late'[q] = late[q] \/ late'[q] = "none"
      BY <3>1, <1>5 DEF InThread, At
    <3>. QED BY <2>0, <3>1, <3>2, <1>1, <1>7 DEF Sound, Quiet, LeftToClose, Untouched, OnRuntime, Before, After, LiveRow, Settled
  <2>5. CASE HasHandle(q) /\ ~InClause(q)
    <3>1. task'[q].pc = "interrupt" /\ task[q].pc \in {"mark", "collect", "close", "interrupt", "unsubscribe"}
      BY <1>3, <2>0, <2>5 DEF Cancelled, HasHandle, Registered, Over, At
    <3>2. late'[q] = late[q] \/ late'[q] \in {"none", "running"}
      BY <3>1, <1>5 DEF InThread, At
    <3>. QED BY <2>0, <3>1, <3>2, <1>1, <1>7 DEF Sound, Quiet, LeftToClose, Untouched, OnRuntime, Before, After, LiveRow, Settled
  <2>6. CASE Registered(q) /\ ~At(q, "final") /\ ~InClause(q) /\ ~At(q, "turn") /\ ~At(q, "detach") /\ ~HasHandle(q)
    <3>1. task'[q].pc = "settle" /\ task[q].pc \in {"check", "ensure", "recheck", "fork", "finish", "report", "settle"}
      BY <1>3, <2>0, <2>6 DEF Cancelled, HasHandle, Registered, Over, At, Pc
    <3>2. side'[q] = side[q] \/ task[q].pc = "fork"
      BY <3>1, <1>6 DEF InFlight
    <3>3. late'[q] = late[q] \/ late'[q] = "none" \/ task[q].pc \in {"finish", "settle"}
      BY <3>1, <1>5 DEF InThread, At
    <3>. QED BY <2>0, <3>1, <3>2, <3>3, <1>1, <1>7 DEF Sound, Quiet, LeftToClose, Untouched, OnRuntime, Before, After, LiveRow, Settled
  <2>. QED BY <2>1, <2>2, <2>3, <2>4, <2>5, <2>6
<1>. QED BY <1>8, <1>9 DEF IInv

LEMMA GatheredKeeps == ASSUME IInv, Gathered PROVE IInv'
<1>1. /\ UNCHANGED <<row, user, task, opened, side, late, slot, items, messy, stuck, faults>>
      /\ phase = "gathering" /\ phase' = "sweeping" /\ todo' = items
      /\ \A q \in Query : task[q].pc \in {"none", "done", "accepted"}
  BY DEF Gathered, Registered, Over
<1>2. TypeOK'
  BY <1>1 DEF IInv, TypeOK
<1>3. ASSUME NEW p \in Query PROVE Sound(p)'
  BY <1>1 DEF IInv, Sound, Quiet, LeftToClose, Untouched, OnRuntime, Before, After, LiveRow, Settled
<1>. QED BY <1>2, <1>3 DEF IInv

LEMMA SweepKeeps == ASSUME IInv, NEW q \in Query, Sweep(q) PROVE IInv'
<1>1. /\ UNCHANGED <<user, task, opened, late, slot, phase, items>>
      /\ phase = "sweeping" /\ q \in todo /\ q \in items /\ task[q].pc = "done"
  BY DEF Sweep, IInv, TypeOK, Sound
<1>2. /\ row' \in [Query -> {"none"} \cup LiveRow \cup Settled]
      /\ row'[q] \in {row[q], "interrupted"} /\ \A p \in Query \ {q} : row'[p] = row[p]
  BY DEF Sweep, IInv, TypeOK, LiveRow, Settled
<1>3. /\ side' \in [Query -> {"none", "loaded", "running", "cut", "gone"}]
      /\ side'[q] = "gone" \/ (side'[q] = side[q] /\ q \in messy')
      /\ \A p \in Query \ {q} : side'[p] = side[p]
  <2>1. CASE side' = [side EXCEPT ![q] = "gone"]
    BY <2>1 DEF IInv, TypeOK
  <2>2. CASE UNCHANGED side /\ messy' = messy \cup {q}
    BY <2>2 DEF IInv, TypeOK
  <2>. QED BY <2>1, <2>2 DEF Sweep
<1>4. /\ todo' \subseteq todo /\ messy \subseteq messy' /\ messy' \subseteq Query /\ stuck' \subseteq Query
      /\ \A p \in todo \ {q} : p \in todo' \/ p \in messy'
  BY DEF Sweep, IInv, TypeOK
<1>5. faults' \in 0..MaxFaults
  BY FaultCounts DEF Sweep, IInv, TypeOK
<1>6. TypeOK'
  BY <1>1, <1>2, <1>3, <1>4, <1>5 DEF IInv, TypeOK
<1>7. ASSUME NEW p \in Query, p # q PROVE Sound(p)'
  <2>1. row'[p] = row[p] /\ side'[p] = side[p]
    BY <1>2, <1>3, <1>7 DEF Sweep, IInv, TypeOK
  <2>. QED BY <1>1, <1>4, <1>7, <2>1 DEF IInv, Sound, Quiet, LeftToClose, Untouched, OnRuntime, Before, After, LiveRow, Settled
<1>8. Sound(q)'
  BY <1>1, <1>2, <1>3, <1>4 DEF IInv, Sound, Quiet, LeftToClose, Untouched, OnRuntime, Before, After, LiveRow, Settled
<1>. QED BY <1>6, <1>7, <1>8 DEF IInv

LEMMA ClosedKeeps == ASSUME IInv, Closed PROVE IInv'
<1>1. /\ UNCHANGED <<row, user, task, opened, side, late, slot, todo, messy, stuck, faults>>
      /\ phase = "sweeping" /\ phase' = "closed" /\ todo = {} /\ items' = {}
  BY DEF Closed
<1>2. TypeOK'
  BY <1>1 DEF IInv, TypeOK
<1>3. ASSUME NEW p \in Query PROVE Sound(p)'
  BY <1>1 DEF IInv, Sound, Quiet, LeftToClose, Untouched, OnRuntime, Before, After, LiveRow, Settled
<1>. QED BY <1>2, <1>3 DEF IInv

--------------------------------------------------------------------------------
(***************************************************************************)
(* The supervisor and restarts.                                            *)
(***************************************************************************)
LEMMA EvictLookKeeps == ASSUME IInv, EvictLook PROVE IInv'
<1>1. /\ UNCHANGED <<row, user, task, side, late, opened, phase, items, todo, messy, stuck, faults>>
      /\ \A q \in Query : row[q] \notin LiveRow
      /\ slot' \in [gen : 0..MaxGen, ready : BOOLEAN, alive : BOOLEAN, evicting : BOOLEAN]
  BY DEF EvictLook, memory, IInv, TypeOK
<1>2. TypeOK'
  BY <1>1 DEF IInv, TypeOK
<1>3. ASSUME NEW p \in Query PROVE Sound(p)'
  <2>1. task[p].pc \in Pc /\ Sound(p)
    BY DEF IInv, TypeOK
  <2>2. task[p].pc \notin OnRuntime /\ Quiet(p)
    BY <1>1, <2>1 DEF Sound, Quiet, LeftToClose, Untouched, OnRuntime, Before, After, LiveRow, Settled, Pc
  <2>. QED BY <1>1, <2>1, <2>2 DEF Sound, Quiet, LeftToClose
<1>. QED BY <1>2, <1>3 DEF IInv

\* A process ends: forks go, and no eviction begins.
LEMMA SlotEndsKeeps ==
    ASSUME IInv, EvictStop \/ Die \/ Found
    PROVE  IInv'
<1>1. UNCHANGED <<row, user, task, late, opened, phase, items, todo, messy, stuck>>
  BY DEF EvictStop, Die, Found, memory
<1>2. /\ slot' \in [gen : 0..MaxGen, ready : BOOLEAN, alive : BOOLEAN, evicting : BOOLEAN]
      /\ slot'.evicting => slot.evicting
  <2>1. CASE EvictStop
    BY <2>1 DEF EvictStop, IInv, TypeOK
  <2>2. CASE Die
    BY <2>2 DEF Die, IInv, TypeOK
  <2>3. CASE Found
    BY <2>3 DEF Found, IInv, TypeOK
  <2>. QED BY <2>1, <2>2, <2>3
<1>3. /\ side' \in [Query -> {"none", "loaded", "running", "cut", "gone"}]
      /\ \A p \in Query : side'[p] = side[p] \/ (side[p] # "none" /\ side'[p] = "gone")
  BY SideGoes DEF IInv, TypeOK, EvictStop, Die, Found
<1>4. faults' \in 0..MaxFaults
  BY FaultCounts DEF IInv, TypeOK, EvictStop, Die, Found
<1>5. TypeOK'
  BY <1>1, <1>2, <1>3, <1>4 DEF IInv, TypeOK
<1>6. ASSUME NEW p \in Query PROVE Sound(p)'
  BY <1>1, <1>2, <1>3, OthersKeep
<1>. QED BY <1>5, <1>6 DEF IInv

LEMMA RestartKeeps == ASSUME IInv, Restart PROVE IInv'
<1>1. /\ UNCHANGED user /\ phase' = "up"
      /\ opened' = {} /\ items' = {} /\ todo' = {} /\ messy' = {} /\ stuck' = {}
      /\ row' = [q \in Query |-> IF row[q] \in LiveRow THEN "interrupted" ELSE row[q]]
      /\ side' = [q \in Query |-> IF side[q] = "none" THEN "none" ELSE "gone"]
      /\ late' = [q \in Query |-> "none"]
  BY DEF Restart
<1>2. /\ slot' \in [gen : 0..MaxGen, ready : BOOLEAN, alive : BOOLEAN, evicting : BOOLEAN]
      /\ slot'.evicting = FALSE
  BY DEF Restart, IInv, TypeOK
<1>3. task' \in Tasks /\ \A q \in Query : task'[q] = IF row[q] = "none" THEN task[q] ELSE [NoTask EXCEPT !.pc = "done"]
  <2>1. [NoTask EXCEPT !.pc = "done"] \in [pc : Pc, why : Reasons, gen : 0..MaxGen]
    BY SideQueriesAssumption DEF NoTask, Pc, Reasons
  <2>. QED BY <2>1 DEF Restart, IInv, TypeOK, Tasks
<1>4. faults' \in 0..MaxFaults
  BY FaultCounts DEF Restart, IInv, TypeOK
<1>5. TypeOK'
  BY <1>1, <1>2, <1>3, <1>4 DEF IInv, TypeOK, Tasks, Settled
<1>6. ASSUME NEW p \in Query PROVE Sound(p)'
  <2>1. task'[p].pc = IF row[p] = "none" THEN "none" ELSE "done"
    BY <1>3 DEF IInv, Sound, NoTask
  <2>2. /\ row'[p] = (IF row[p] \in LiveRow THEN "interrupted" ELSE row[p])
        /\ side'[p] = (IF side[p] = "none" THEN "none" ELSE "gone") /\ late'[p] = "none"
    BY <1>1
  <2>. QED BY <1>1, <1>2, <2>1, <2>2 DEF IInv, Sound, Quiet, LeftToClose, Untouched, OnRuntime, Before, After, LiveRow, Settled
<1>. QED BY <1>5, <1>6 DEF IInv

--------------------------------------------------------------------------------
(***************************************************************************)
(* The theorems.                                                           *)
(***************************************************************************)
LEMMA Initially == ASSUME Init PROVE IInv
<1>1. TypeOK
  <2>1. 0 \in 0..MaxGen /\ 0 \in 0..MaxFaults
    BY SideQueriesAssumption
  <2>2. user \in [Query -> User] /\ task = [q \in Query |-> NoTask] /\ slot = [gen |-> 0, ready |-> FALSE, alive |-> FALSE, evicting |-> FALSE]
    BY DEF Init
  <2>. QED BY <2>1, <2>2 DEF Init, TypeOK, NoTask, Pc, Reasons
<1>2. ASSUME NEW q \in Query PROVE Sound(q)
  BY DEF Init, NoTask, Sound, Quiet, LeftToClose, Untouched, OnRuntime, Before, After, LiveRow, Settled
<1>. QED BY <1>1, <1>2 DEF IInv

\* Every action but those of close(), of the supervisor and of a restart is
\* one of a single query.
LEMMA StepsKeep == ASSUME IInv, [Next]_vars PROVE IInv'
<1>1. CASE UNCHANGED vars
  BY <1>1 DEF vars, IInv, TypeOK, Sound, Quiet, LeftToClose
<1>2. ASSUME NEW q \in Query, Ask(q) PROVE IInv'
  BY <1>2, RegisterKeeps, TurnAwayKeeps, CheckKeeps, EnsureKeeps, ForkKeeps, StartTurnKeeps, DetachKeeps,
     MarkRunningKeeps, CollectKeeps, CloseAnsweredKeeps, FinishKeeps, InterruptKeeps, UnsubscribeKeeps,
     ReportKeeps, SettleKeeps, LeaveKeeps DEF Ask
<1>3. CASE Closing
  BY <1>3, CancelAllKeeps, GatheredKeeps, ClosedKeeps, InterruptItemKeeps, SweepKeeps DEF Closing
<1>. QED BY <1>1, <1>2, <1>3, AcceptKeeps, LandKeeps, ProviderEndsKeeps, BeginCloseKeeps, EvictLookKeeps, SlotEndsKeeps,
            RestartKeeps DEF Next

\* The facts about each query that both properties follow from hold of every
\* execution.
THEOREM InductiveInvariant == Spec => []IInv
<1>. QED BY Initially, StepsKeep, PTL DEF Spec

\* Rows, tasks, forks, the slot and the sets of close() keep their types.
THEOREM TypeCorrect == Spec => []TypeOK
<1>1. IInv => TypeOK
  BY DEF IInv
<1>. QED BY <1>1, InductiveInvariant, PTL

\* SideQueryCoordinator leaves no fork at the provider to nobody, whatever
\* await a failure or the cancellation of close() finds it at.
THEOREM ForksTended == Spec => []ForksAreTended
<1>1. IInv => ForksAreTended
  <2>. SUFFICES ASSUME IInv, NEW q \in Query, side[q] \in {"loaded", "running", "cut"}
                PROVE  \/ task[q].pc \in {"turn", "detach", "mark", "collect", "close", "interrupt", "unsubscribe"}
                       \/ q \in items /\ phase # "closed" /\ (phase = "sweeping" => q \in todo)
                       \/ q \in messy
    BY DEF ForksAreTended
  <2>1. task[q].pc \in Pc /\ Sound(q)
    BY DEF IInv, TypeOK
  <2>. QED BY <2>1 DEF Pc, Sound, Quiet, LeftToClose, Untouched, OnRuntime, Before, After, LiveRow, Settled
<1>. QED BY <1>1, InductiveInvariant, PTL

\* runtime_scope_has_live_work sees every side Turn: the runtime of one is
\* not evicted.
THEOREM EvictedRuntimeIsIdle == Spec => []EvictedIsIdle
<1>1. IInv => EvictedIsIdle
  BY DEF IInv, Sound, Quiet, EvictedIsIdle
<1>. QED BY <1>1, InductiveInvariant, PTL
================================================================================
