------------------------- MODULE TurnLifecycle_proofs -------------------------
(***************************************************************************)
(* TurnLifecycle for any number of turns, conversations, generations and   *)
(* cancel interactions.                                                    *)
(*                                                                         *)
(* 1. Types and refinement.  IInv says what a worker knows of the row it    *)
(*    holds from Pick to Claim and afterwards.  Every step but Enqueue and  *)
(*    Pick is an Advance: the rows move as the state machine allows, the    *)
(*    workers keep the turn they have, and everything else keeps its type.  *)
(*    An Advance keeps IInv, and its first part is a step of TurnOrder,     *)
(*    whose promises follow.                                                *)
(* 2. Provider turns.  Moves says how a step changes a row, its provider    *)
(*    turn and its pump together: ProviderInv follows from Moves alone.     *)
(* 3. After the claim.  ClaimedStep lists what the worker of a claimed turn *)
(*    may do, WorkerCases and OtherStep who else moves.  With them SafeInv: *)
(*    cancellations are kept and no provider turn is left to nobody.        *)
(* 4. Before the claim.  Learns says what a worker comes to know at each    *)
(*    await: LeaseInv (leases and drivers), ThreadInv (one turn of a thread *)
(*    at a time) and BarrierInv (barriers have an owner) rest on it.        *)
(***************************************************************************)
EXTENDS TurnLifecycle, TLAPS

BeforeClaim == {"ensure", "boot", "thread", "startThread", "activateNew", "attach",
                "unbarNew", "read", "bar", "activate", "unbar", "recover",
                "retire", "retireClose", "resume", "claim"}

\* The worker holds a row of its conversation, with a generation while it boots.
WorkerHasTurn ==
    \A c \in Conv :
       worker[c].pc # "idle" =>
          /\ worker[c].turn \in Turn
          /\ turn[worker[c].turn].state # "absent"
          /\ turn[worker[c].turn].conv = c
          /\ worker[c].pc = "boot" => worker[c].gen \in Gen

\* Rows are inserted in the order of their numbers.
Contiguous ==
    \A t, u \in Turn : t < u /\ turn[t].state = "absent" => turn[u].state = "absent"

\* Until the claim nothing is queued before the turn of the worker, ...
FirstInQueue ==
    \A c \in Conv, u \in Turn :
       /\ worker[c].pc \in BeforeClaim
       /\ turn[u].state = "queued" /\ turn[u].conv = c
       => worker[c].turn <= u

\* ... and after it the turn is not queued.
ClaimedIsNotQueued ==
    \A c \in Conv :
       worker[c].pc \notin BeforeClaim \cup {"idle"} =>
          turn[worker[c].turn].state # "queued"

\* A turn with a pump or a handle was claimed, with a pump marked running.
PumpedIsRunning ==
    \A t \in Turn :
       /\ pump[t] = "on" => turn[t].state \in {"running", "cancelling"} \cup Terminal
       /\ t \in active => turn[t].state # "absent"

\* Who asks for the interrupt of a turn makes it cancelling.
UserCancels ==
    \A t \in Turn :
       turn[t].origin = "user" =>
          turn[t].state \in {"cancelling"} \cup Terminal

\* What _process_turn, the pumps and the cancel interactions rely on between
\* their awaits: the worker's row stays the first of its queue until claim_turn
\* and never returns to it, and an interrupt or a pump belongs to a row that
\* went through claim_turn.
IInv ==
    /\ TypeOK
    /\ WorkerHasTurn
    /\ Contiguous
    /\ FirstInQueue
    /\ ClaimedIsNotQueued
    /\ PumpedIsRunning
    /\ UserCancels

-----------------------------------------------------------------------------
(* How a step may change the rows of the turns. *)

\* A step of the state machine; a turn never comes back to the queue.
RowsAdvance ==
    /\ turn' \in [Turn -> Row]
    /\ [Order!Next]_Order!vars
    /\ \A t \in Turn :
          /\ turn'[t].conv = turn[t].conv
          /\ \/ turn'[t].state = turn[t].state
             \/ turn[t].state # "absent" /\ turn'[t].state \notin {"absent", "queued"}
          /\ turn[t].state \in {"running", "cancelling"} \cup Terminal =>
                turn'[t].state \in {"running", "cancelling"} \cup Terminal
          /\ turn'[t].origin = "user" =>
                turn'[t].state \in {"cancelling"} \cup Terminal

LEMMA SameStates ==
    ASSUME TypeOK, UserCancels, turn' \in [Turn -> Row],
           \A t \in Turn : /\ turn'[t].state = turn[t].state
                           /\ turn'[t].conv = turn[t].conv
                           /\ turn'[t].origin = turn[t].origin
    PROVE  RowsAdvance
  BY DEF TypeOK, UserCancels, RowsAdvance, Order!vars

LEMMA SameRows ==
    ASSUME TypeOK, UserCancels, turn' = turn
    PROVE  RowsAdvance
  BY SameStates DEF TypeOK

LEMMA OneMoves ==
    ASSUME TypeOK, UserCancels, turn' \in [Turn -> Row], NEW t \in Turn, NEW r,
           \A u \in Turn \ {t} : turn'[u] = turn[u],
           turn'[t].conv = turn[t].conv, turn'[t].state = r,
           <<turn[t].state, r>> \in Order!Transitions,
           turn'[t].origin = "user" => turn'[t].state \in {"cancelling"} \cup Terminal
    PROVE  RowsAdvance
<1>1. Order!Move(t, r)
  BY DEF TypeOK, Order!Move
<1>2. r \in Order!Active \cup Order!Terminal
  BY DEF Order!Transitions, Order!Active, Order!Terminal
<1>3. \E s \in Order!Active \cup Order!Terminal : Order!Move(t, s)
  BY <1>1, <1>2
<1>4. [Order!Next]_Order!vars
  BY <1>3 DEF Order!Next
<1>. QED
  BY <1>4 DEF TypeOK, UserCancels, RowsAdvance, Order!Transitions,
               Order!Terminal, Order!Active, Terminal

LEMMA RowUpdate ==
    ASSUME NEW r \in Row, NEW s \in TurnState, NEW o \in Origin
    PROVE  [r EXCEPT !.state = s, !.origin = o] \in Row
  BY DEF Row

LEMMA TerminalTurnAdvances ==
    ASSUME TypeOK, UserCancels, NEW t \in Turn, NEW s \in {"interrupted", "failed"},
           turn[t].state # "absent",
           s = "failed" => turn[t].state # "queued",
           turn' = TerminalTurn(t, s)
    PROVE  RowsAdvance
<1>1. CASE Ended(t)
  BY <1>1, SameRows DEF TerminalTurn
<1>2. CASE ~Ended(t)
  <2>1. turn' = [turn EXCEPT ![t].state = s]
    BY <1>2 DEF TerminalTurn
  <2>2. turn' \in [Turn -> Row]
    <3>1. turn[t] \in Row
      BY DEF TypeOK
    <3>2. [turn[t] EXCEPT !.state = s] \in Row
      BY <3>1 DEF Row, TurnState, Terminal
    <3>. QED  BY <2>1, <3>2 DEF TypeOK
  <2>3. turn[t].state \in TurnState \ (Terminal \cup {"absent"})
    BY <1>2 DEF TypeOK, Row, Ended
  <2>4. <<turn[t].state, turn'[t].state>> \in Order!Transitions
    BY <2>1, <2>3 DEF TypeOK, Row, TurnState, ActiveState, Terminal,
                      Order!Transitions, Order!Terminal
  <2>. QED
    BY <2>1, <2>2, <2>4, OneMoves DEF TypeOK, Row, Terminal
<1>. QED  BY <1>1, <1>2

LEMMA RequestCancelAdvances ==
    ASSUME TypeOK, UserCancels, NEW t \in Turn, NEW o \in Origin,
           turn[t].state # "absent", turn' = RequestCancel(t, o)
    PROVE  RowsAdvance
<1>1. CASE Ended(t)
  BY <1>1, SameRows DEF RequestCancel
<1>2. CASE ~Ended(t)
  <2>1. turn[t].state \in TurnState \ (Terminal \cup {"absent"})
    BY <1>2 DEF TypeOK, Row, Ended
  <2>2. turn' \in [Turn -> Row]
    <3>1. turn[t] \in Row
      BY DEF TypeOK
    <3>2. /\ [turn[t] EXCEPT !.state = "cancelled", !.origin = o] \in Row
          /\ [turn[t] EXCEPT !.state = "cancelling", !.origin = o] \in Row
      BY <3>1, RowUpdate DEF TurnState, ActiveState, Terminal
    <3>3. [turn[t] EXCEPT !.state = "cancelling", !.origin = o,
                          !.reason = IF @ = "none" THEN "requested" ELSE @] \in Row
      BY <3>1, <3>2 DEF Row
    <3>. QED
      BY <1>2, <3>2, <3>3 DEF RequestCancel, TypeOK
  <2>3. /\ \A u \in Turn \ {t} : turn'[u] = turn[u]
        /\ turn'[t].conv = turn[t].conv
        /\ turn'[t].state = IF turn[t].state = "queued" THEN "cancelled"
                            ELSE "cancelling"
    BY <1>2 DEF RequestCancel, TypeOK, Row
  <2>4. CASE turn[t].state = "cancelling"
    <3>1. \A u \in Turn : /\ turn'[u].state = turn[u].state
                          /\ turn'[u].conv = turn[u].conv
      BY <2>3, <2>4
    <3>2. [Order!Next]_Order!vars
      BY <3>1 DEF Order!vars
    <3>. QED
      BY <2>2, <2>3, <2>4, <3>1, <3>2 DEF RowsAdvance, UserCancels
  <2>5. CASE turn[t].state # "cancelling"
    <3>1. <<turn[t].state, turn'[t].state>> \in Order!Transitions
      BY <2>1, <2>3, <2>5 DEF TurnState, ActiveState, Terminal,
                              Order!Transitions, Order!Terminal
    <3>. QED
      BY <2>2, <2>3, <3>1, OneMoves DEF Terminal
  <2>. QED  BY <2>4, <2>5
<1>. QED  BY <1>1, <1>2

LEMMA InterruptAllAdvances ==
    ASSUME TypeOK, UserCancels, NEW X \in SUBSET Turn, NEW o \in Origin,
           \A t \in X : turn[t].state \in {"queued"} \cup ActiveState,
           turn' = InterruptAll(X, o)
    PROVE  RowsAdvance
<1>1. \A t \in Turn : turn'[t] = IF t \in X
                                 THEN [turn[t] EXCEPT !.state = "interrupted",
                                                      !.origin = o]
                                 ELSE turn[t]
  BY DEF InterruptAll
<1>2. \A t \in X : [turn[t] EXCEPT !.state = "interrupted", !.origin = o] \in Row
  BY RowUpdate DEF TypeOK, TurnState, Terminal
<1>3. turn' \in [Turn -> Row]
  BY <1>1, <1>2 DEF InterruptAll, TypeOK
<1>4. \A t \in Turn :
         /\ turn'[t].state = IF t \in X THEN "interrupted" ELSE turn[t].state
         /\ turn'[t].conv = turn[t].conv
         /\ t \notin X => turn'[t].origin = turn[t].origin
  BY <1>1 DEF TypeOK, Row
<1>5. Order!Lose(X)
  BY <1>4 DEF Order!Lose, Order!Active, ActiveState
<1>6. [Order!Next]_Order!vars
  BY <1>5 DEF Order!Next
<1>. QED
  BY <1>3, <1>4, <1>6 DEF RowsAdvance, UserCancels, ActiveState, Terminal

-----------------------------------------------------------------------------
(* How a step may change the workers and everything else. *)

\* A worker takes no other turn, and leaves the queue only with a claim.
WorkersAdvance ==
    /\ worker' \in [Conv -> Worker]
    /\ \A c \in Conv :
          \/ worker'[c] = worker[c]
          \/ worker'[c].pc = "idle"
          \/ /\ worker[c].pc # "idle"
             /\ worker'[c].turn = worker[c].turn
             /\ worker'[c].pc = "boot" => worker'[c].gen \in Gen
             /\ worker'[c].pc \in BeforeClaim => worker[c].pc \in BeforeClaim
             /\ worker'[c].pc \notin BeforeClaim =>
                   turn'[worker[c].turn].state # "queued"

\* The types of what is neither a row of turns nor a worker.
RestOK ==
    /\ conv \in [Conv -> ConvRow]
    /\ lease \in [Gen -> LeaseState]
    /\ slot \in Slot
    /\ alive \subseteq Gen
    /\ provider \in [Turn -> {"none", "live", "stopping"} \cup ProviderEnd]
    /\ active \subseteq Turn
    /\ volatile \subseteq Turn
    /\ pump \in [Turn -> {"off", "on", "terminal", "failed", "stale", "journal",
                          "lost"}]
    /\ canceller \in [Canceller -> CancelTask]
    /\ monitor \subseteq Conv
    /\ phase \in {"up", "closing", "forced", "stopping", "down", "restoring"}
    /\ boots \in 0..MaxBoot
    /\ critical \in BOOLEAN

\* Pumps and handles are for turns that run.
HandlesAdvance ==
    \A t \in Turn :
       /\ pump'[t] = "on" =>
             pump[t] = "on"
             \/ turn'[t].state \in {"running", "cancelling"} \cup Terminal
       /\ t \in active' => t \in active \/ turn[t].state # "absent"

Advance == RowsAdvance /\ WorkersAdvance /\ RestOK' /\ HandlesAdvance

LEMMA AdvanceKeepsInv ==
    ASSUME IInv, Advance
    PROVE  IInv'
<1>. USE DEF IInv, Advance
<1>0. turn \in [Turn -> Row] /\ turn' \in [Turn -> Row]
  BY DEF TypeOK, RowsAdvance
<1>1. TypeOK'
  BY DEF TypeOK, RestOK, RowsAdvance, WorkersAdvance
<1>2. WorkerHasTurn'
  BY DEF WorkerHasTurn, RowsAdvance, WorkersAdvance
<1>3. Contiguous'
  BY DEF Contiguous, RowsAdvance
<1>4. FirstInQueue'
  BY DEF FirstInQueue, RowsAdvance, WorkersAdvance, BeforeClaim
<1>5. ClaimedIsNotQueued'
  BY DEF ClaimedIsNotQueued, RowsAdvance, WorkersAdvance, WorkerHasTurn
<1>6. PumpedIsRunning'
  BY DEF PumpedIsRunning, RowsAdvance, HandlesAdvance
<1>7. UserCancels'
  BY DEF UserCancels, RowsAdvance
<1>. QED  BY <1>1, <1>2, <1>3, <1>4, <1>5, <1>6, <1>7

LEMMA IdleType == Idle \in Worker
  BY ConstantsAssumption DEF Idle, Worker, Pc, Barrier, NoGen, NoRev

LEMMA WorkersStay ==
    ASSUME IInv, worker' = worker
    PROVE  WorkersAdvance
  BY DEF WorkersAdvance, IInv, TypeOK

LEMMA WorkerReleases ==
    ASSUME IInv, NEW c \in Conv, Release(c)
    PROVE  WorkersAdvance
  BY IdleType DEF Release, WorkersAdvance, IInv, TypeOK, Idle

LEMMA WorkerSets ==
    ASSUME IInv, NEW c \in Conv, NEW w \in Worker,
           worker' = [worker EXCEPT ![c] = w],
           worker[c].pc # "idle", w.turn = worker[c].turn,
           w.pc = "boot" => w.gen \in Gen,
           w.pc \in BeforeClaim => worker[c].pc \in BeforeClaim,
           w.pc \notin BeforeClaim => turn'[worker[c].turn].state # "queued"
    PROVE  WorkersAdvance
  BY DEF WorkersAdvance, IInv, TypeOK

LEMMA WorkerGoes ==
    ASSUME IInv, NEW c \in Conv, NEW pc \in Pc, Goto(c, pc),
           worker[c].pc # "idle", pc # "boot",
           pc \in BeforeClaim => worker[c].pc \in BeforeClaim,
           pc \notin BeforeClaim => turn'[worker[c].turn].state # "queued"
    PROVE  WorkersAdvance
<1>. DEFINE w == [worker[c] EXCEPT !.pc = pc]
<1>1. w \in Worker /\ w.pc = pc /\ w.turn = worker[c].turn
  BY DEF IInv, TypeOK, Worker
<1>2. worker' = [worker EXCEPT ![c] = w]
  BY DEF Goto
<1>. QED  BY <1>1, <1>2, WorkerSets

\* Once it has claimed its turn, a worker may go anywhere but back.
LEMMA ClaimedGoes ==
    ASSUME IInv, RowsAdvance, NEW c \in Conv, NEW pc \in Pc \ BeforeClaim,
           Goto(c, pc), worker[c].pc \notin BeforeClaim \cup {"idle"}
    PROVE  WorkersAdvance
<1>1. turn'[worker[c].turn].state # "queued"
  BY DEF IInv, WorkerHasTurn, ClaimedIsNotQueued, RowsAdvance
<1>. QED  BY <1>1, WorkerGoes DEF BeforeClaim

LEMMA RestStays ==
    ASSUME IInv, UNCHANGED <<conv, lease, runtime, active, volatile, pump,
                             canceller, monitor, daemon>>
    PROVE  RestOK' /\ HandlesAdvance
  BY DEF IInv, TypeOK, RestOK, HandlesAdvance, runtime, daemon

-----------------------------------------------------------------------------
(* What the steps of a worker have in common. *)

LEMMA GoesOn ==
    ASSUME IInv, NEW c \in Conv, NEW pc \in Pc \ {"idle", "boot"},
           worker[c].pc # "idle",
           pc \in BeforeClaim <=> worker[c].pc \in BeforeClaim,
           turn' = turn, Goto(c, pc)
    PROVE  RowsAdvance /\ WorkersAdvance
<1>1. RowsAdvance
  BY SameRows DEF IInv
<1>2. CASE pc \in BeforeClaim
  BY <1>1, <1>2, WorkerGoes
<1>3. CASE pc \notin BeforeClaim
  BY <1>1, <1>3, ClaimedGoes
<1>. QED  BY <1>1, <1>2, <1>3

LEMMA GivesUp ==
    ASSUME IInv, NEW c \in Conv, turn' = turn, Release(c)
    PROVE  RowsAdvance /\ WorkersAdvance
  BY SameRows, WorkerReleases DEF IInv

LEMMA EndsTurn ==
    ASSUME IInv, NEW c \in Conv, worker[c].pc # "idle",
           NEW s \in {"interrupted", "failed"},
           s = "failed" => worker[c].pc \notin BeforeClaim,
           turn' = TerminalTurn(T(c), s),
           \/ Release(c)
           \/ Goto(c, "report")
           \/ Goto(c, "abandonReport")
    PROVE  RowsAdvance /\ WorkersAdvance
<1>1. /\ T(c) \in Turn /\ turn[T(c)].state # "absent"
      /\ s = "failed" => turn[T(c)].state # "queued"
  BY DEF IInv, WorkerHasTurn, ClaimedIsNotQueued, T
<1>2. RowsAdvance
  BY <1>1, TerminalTurnAdvances DEF IInv
<1>3. turn'[worker[c].turn].state # "queued"
  BY <1>1 DEF TerminalTurn, T, Ended, Terminal, IInv, TypeOK, Row
<1>4. "report" \in Pc /\ "abandonReport" \in Pc
  BY DEF Pc
<1>5. WorkersAdvance
  BY <1>3, <1>4, WorkerReleases, WorkerGoes DEF BeforeClaim
<1>. QED  BY <1>2, <1>5

\* An error of the database takes the worker, the handle and the pump.
LEMMA LoseAdvances ==
    ASSUME IInv, NEW c \in Conv, RowsAdvance, Lose(c),
           provider' \in [Turn -> {"none", "live", "stopping"} \cup ProviderEnd],
           UNCHANGED <<conv, lease, slot, alive, volatile, canceller, monitor,
                       phase, boots>>,
           critical' \in BOOLEAN
    PROVE  Advance
<1>1. Release(c) /\ active' \subseteq active
      /\ pump' = [pump EXCEPT ![T(c)] = "lost"]
  BY DEF Lose, Finish
<1>2. WorkersAdvance
  BY <1>1, WorkerReleases
<1>3. pump' \in [Turn -> {"off", "on", "terminal", "failed", "stale", "journal",
                         "lost"}]
      /\ \A t \in Turn : pump'[t] = "on" => pump[t] = "on"
  BY <1>1 DEF IInv, TypeOK
<1>4. RestOK'
  BY <1>1, <1>3 DEF IInv, TypeOK, RestOK
<1>5. HandlesAdvance
  BY <1>1, <1>3 DEF HandlesAdvance
<1>. QED  BY <1>2, <1>4, <1>5 DEF Advance

LEMMA ConvTypes ==
    ASSUME IInv, NEW c \in Conv
    PROVE  /\ \A kind \in Barrier : SetBarrier(c, kind) \in [Conv -> ConvRow]
           /\ Fence(c) \in [Conv -> ConvRow]
           /\ [conv EXCEPT ![c].barrier = "none"] \in [Conv -> ConvRow]
           /\ \A r \in 0..MaxRev : ActivateRevision(c, r) => conv' \in [Conv -> ConvRow]
<1>. USE DEF IInv, TypeOK, ConvRow, Barrier
<1>1. \A kind \in Barrier : SetBarrier(c, kind) \in [Conv -> ConvRow]
  BY DEF SetBarrier
<1>2. Fence(c) \in [Conv -> ConvRow]
  BY DEF Fence
<1>3. [conv EXCEPT ![c].barrier = "none"] \in [Conv -> ConvRow]
  OBVIOUS
<1>4. \A r \in 0..MaxRev : ActivateRevision(c, r) => conv' \in [Conv -> ConvRow]
  <2>. SUFFICES ASSUME NEW r \in 0..MaxRev, ActivateRevision(c, r)
                PROVE  conv' \in [Conv -> ConvRow]
    OBVIOUS
  <2>1. \A m \in 0..MaxRev : (IF r > m THEN r ELSE m) \in 0..MaxRev
    OBVIOUS
  <2>2. conv[c] \in ConvRow
    BY DEF ConvRow
  <2>3. [conv[c] EXCEPT !.state = "active", !.rev = r,
                        !.made = IF r > @ THEN r ELSE @] \in ConvRow
    BY <2>1, <2>2
  <2>4. conv' = [conv EXCEPT ![c] = [conv[c] EXCEPT !.state = "active", !.rev = r,
                                       !.made = IF r > @ THEN r ELSE @]]
    BY DEF ActivateRevision
  <2>. QED  BY <2>3, <2>4
<1>. QED  BY <1>1, <1>2, <1>3, <1>4

\* Steps that write the conversation and nothing else of the rest.
LEMMA ConvChanges ==
    ASSUME IInv, conv' \in [Conv -> ConvRow],
           UNCHANGED <<lease, runtime, active, volatile, pump, canceller,
                       monitor, daemon>>
    PROVE  RestOK' /\ HandlesAdvance
  BY DEF IInv, TypeOK, RestOK, HandlesAdvance, runtime, daemon

\* What several tasks do to the row of an interrupt, and to a generation.
LEMMA ClaimInterruptAdvances ==
    ASSUME TypeOK, UserCancels, NEW t, ClaimInterrupt(t)
    PROVE  RowsAdvance
<1>1. \A r \in Row : [r EXCEPT !.reason = "sending"] \in Row
  BY DEF Row
<1>2. turn' \in [Turn -> Row]
  BY <1>1 DEF ClaimInterrupt, TypeOK
<1>3. \A u \in Turn : /\ turn'[u].state = turn[u].state
                      /\ turn'[u].conv = turn[u].conv
                      /\ turn'[u].origin = turn[u].origin
  BY DEF ClaimInterrupt, TypeOK, Row
<1>. QED  BY <1>2, <1>3, SameStates

LEMMA SendInterruptAdvances ==
    ASSUME TypeOK, UserCancels, NEW t, SendInterrupt(t)
    PROVE  /\ RowsAdvance
           /\ provider' \in [Turn -> {"none", "live", "stopping"} \cup ProviderEnd]
<1>1. PICK x \in {"sent", "unsent"} : turn' = [turn EXCEPT ![t].reason = x]
  BY DEF SendInterrupt
<1>2. \A r \in Row : [r EXCEPT !.reason = x] \in Row
  BY DEF Row
<1>3. turn' \in [Turn -> Row]
  BY <1>1, <1>2 DEF TypeOK
<1>4. \A u \in Turn : /\ turn'[u].state = turn[u].state
                      /\ turn'[u].conv = turn[u].conv
                      /\ turn'[u].origin = turn[u].origin
  BY <1>1 DEF TypeOK, Row
<1>5. provider' \in [Turn -> {"none", "live", "stopping"} \cup ProviderEnd]
  BY DEF SendInterrupt, TypeOK
<1>. QED  BY <1>3, <1>4, <1>5, SameStates

LEMMA ReportAdvances ==
    ASSUME IInv, NEW g, MarkUnhealthy(g)
    PROVE  RowsAdvance
<1>1. /\ ActiveOn(g) \in SUBSET Turn
      /\ \A t \in ActiveOn(g) : turn[t].state \in {"queued"} \cup ActiveState
  BY DEF ActiveOn, Active
<1>2. "runtime" \in Origin
  BY DEF Origin
<1>. QED  BY <1>1, <1>2, InterruptAllAdvances DEF MarkUnhealthy, IInv

LEMMA CloseProcessTypes ==
    ASSUME TypeOK, CloseProcess
    PROVE  slot' \in Slot /\ alive' \subseteq Gen /\ provider' = provider
  BY ConstantsAssumption DEF TypeOK, CloseProcess, Slot, NoGen

-----------------------------------------------------------------------------
(* The steps of the worker, one lemma for each part of _process_turn. *)

LEMMA EnsureAdvances ==
    ASSUME IInv, NEW c \in Conv,
           \/ RefuseBlocked(c) \/ EnsureLoaded(c) \/ EnsureStart(c)
           \/ Booted(c) \/ BootFails(c) \/ EnsureRefused(c)
    PROVE  Advance
<1>. USE DEF Advance
<1>0. TypeOK /\ WorkerHasTurn /\ UserCancels
  BY DEF IInv
<1>1. CASE RefuseBlocked(c)
  <2>1. PICK t \in Turn : IsNextQueued(t, c) /\ turn' = TerminalTurn(t, "interrupted")
    BY <1>1 DEF RefuseBlocked
  <2>2. RowsAdvance
    BY <1>0, <2>1, TerminalTurnAdvances DEF IsNextQueued, QueuedIn
  <2>. QED  BY <1>1, <2>2, RestStays, WorkersStay DEF RefuseBlocked, tasks
<1>2. CASE EnsureLoaded(c)
  <2>. DEFINE w == [worker[c] EXCEPT !.pc = AfterEnsure(c), !.gen = slot.gen]
  <2>1. w \in Worker /\ w.turn = worker[c].turn /\ w.pc \in {"thread", "resume"}
    <3>1. worker[c] \in Worker /\ slot.gen \in 0..MaxGen
      BY <1>0 DEF TypeOK, Slot
    <3>2. AfterEnsure(c) \in {"thread", "resume"}
      BY DEF AfterEnsure
    <3>. QED  BY <3>1, <3>2 DEF Worker, Pc
  <2>2. worker' = [worker EXCEPT ![c] = w]
    BY <1>2 DEF EnsureLoaded
  <2>3. WorkersAdvance
    BY <1>2, <2>1, <2>2, WorkerSets DEF EnsureLoaded, At, BeforeClaim
  <2>. QED  BY <1>0, <1>2, <2>3, SameRows, RestStays DEF EnsureLoaded, rows
<1>3. CASE EnsureStart(c)
  <2>1. PICK g \in Gen : /\ lease' = [lease EXCEPT ![g] = "starting"]
                         /\ worker' = [worker EXCEPT ![c].pc = "boot", ![c].gen = g]
    BY <1>3 DEF EnsureStart
  <2>. DEFINE w == [worker[c] EXCEPT !.pc = "boot", !.gen = g]
  <2>2. g \in 0..MaxGen
    BY ConstantsAssumption DEF Gen
  <2>3. w \in Worker /\ w.turn = worker[c].turn /\ w.pc = "boot" /\ w.gen = g
    <3>1. worker[c] \in Worker
      BY <1>0 DEF TypeOK
    <3>. QED  BY <2>2, <3>1 DEF Worker, Pc
  <2>4. worker' = [worker EXCEPT ![c] = w]
    BY <2>1
  <2>5. WorkersAdvance
    BY <1>3, <2>3, <2>4, WorkerSets DEF EnsureStart, At, BeforeClaim
  <2>6. RestOK' /\ HandlesAdvance
    BY <1>0, <1>3 DEF EnsureStart, TypeOK, RestOK, HandlesAdvance, daemon,
                      LeaseState, Slot
  <2>. QED  BY <1>0, <1>3, <2>5, <2>6, SameRows DEF EnsureStart
<1>4. CASE Booted(c)
  <2>1. G(c) \in Gen
    BY <1>0, <1>4 DEF Booted, At, WorkerHasTurn, G
  <2>2. slot' \in Slot /\ alive' \subseteq Gen
    <3>1. G(c) \in 0..MaxGen
      BY <2>1, ConstantsAssumption DEF Gen
    <3>. QED  BY <1>0, <1>4, <2>1, <3>1 DEF Booted, TypeOK, Slot
  <2>3. RestOK' /\ HandlesAdvance
    BY <1>0, <1>4, <2>2 DEF Booted, TypeOK, RestOK, HandlesAdvance, daemon,
                            LeaseState
  <2>4. AfterEnsure(c) \in Pc \cap (BeforeClaim \ {"boot", "idle"})
    BY DEF AfterEnsure, Pc, BeforeClaim
  <2>5. worker[c].pc # "idle" /\ worker[c].pc \in BeforeClaim
    BY <1>4 DEF Booted, At, BeforeClaim
  <2>. QED  BY <1>4, <2>3, <2>4, <2>5, GoesOn DEF Booted
<1>5. CASE BootFails(c)
  <2>1. RestOK' /\ HandlesAdvance
    BY <1>0, <1>5 DEF BootFails, TypeOK, RestOK, HandlesAdvance, daemon,
                      LeaseState, Slot
  <2>. QED  BY <1>5, <2>1, GivesUp, EndsTurn DEF BootFails, GiveUpEnsure, At
<1>6. CASE EnsureRefused(c)
  BY <1>6, RestStays, GivesUp, EndsTurn DEF EnsureRefused, GiveUpEnsure, At
<1>. QED  BY <1>1, <1>2, <1>3, <1>4, <1>5, <1>6

LEMMA NewThreadAdvances ==
    ASSUME IInv, NEW c \in Conv,
           \/ Thread(c) \/ StartThread(c) \/ StartThreadRejected(c)
           \/ StartThreadUnknown(c) \/ ActivateNew(c) \/ Attach(c)
           \/ AttachFails(c) \/ Unbar(c) \/ EffectFails(c) \/ QueuedFails(c)
    PROVE  Advance
<1>. USE DEF Advance, At, WorkerOnly
<1>0. TypeOK /\ WorkerHasTurn /\ UserCancels
  BY DEF IInv
<1>1. CASE Thread(c)
  <2>1. RestOK' /\ HandlesAdvance
    BY <1>0, <1>1, ConvTypes, ConvChanges DEF Thread, TypeOK, Barrier
  <2>2. CASE conv[c].rev = NoRev
    BY <1>1, <2>1, <2>2, GoesOn DEF Thread, Pc, BeforeClaim
  <2>3. CASE conv[c].rev # NoRev
    <3>. DEFINE w == [worker[c] EXCEPT !.pc = "read", !.rev = conv[c].rev]
    <3>1. w \in Worker /\ w.turn = worker[c].turn /\ w.pc = "read"
      <4>1. worker[c] \in Worker /\ conv[c].rev \in 0..MaxRev
        BY <1>0 DEF TypeOK, ConvRow
      <4>. QED  BY <4>1 DEF Worker, Pc
    <3>2. worker' = [worker EXCEPT ![c] = w]
      BY <1>1, <2>3 DEF Thread
    <3>3. WorkersAdvance
      BY <1>1, <3>1, <3>2, WorkerSets DEF Thread, BeforeClaim
    <3>. QED  BY <1>0, <1>1, <2>1, <3>3, SameRows DEF Thread
  <2>. QED  BY <2>2, <2>3
<1>2. CASE StartThread(c)
  BY <1>2, GoesOn, RestStays DEF StartThread, rows, Pc, BeforeClaim
<1>3. CASE StartThreadRejected(c)
  BY <1>3, EndsTurn, ConvTypes, ConvChanges DEF StartThreadRejected
<1>4. CASE StartThreadUnknown(c)
  BY <1>4, EndsTurn, ConvTypes, ConvChanges DEF StartThreadUnknown
<1>5. CASE ActivateNew(c)
  <2>1. conv[c].made + 1 \in 0..MaxRev
    BY <1>0, <1>5, ConstantsAssumption DEF ActivateNew, TypeOK, ConvRow
  <2>2. RestOK' /\ HandlesAdvance
    BY <1>5, <2>1, ConvTypes, ConvChanges DEF ActivateNew
  <2>. DEFINE w == [worker[c] EXCEPT !.pc = "attach", !.rev = conv[c].made + 1]
  <2>3. w \in Worker /\ w.turn = worker[c].turn /\ w.pc = "attach"
    <3>1. worker[c] \in Worker
      BY <1>0 DEF TypeOK
    <3>. QED  BY <2>1, <3>1 DEF Worker, Pc
  <2>4. worker' = [worker EXCEPT ![c] = w]
    BY <1>5 DEF ActivateNew
  <2>5. WorkersAdvance
    BY <1>5, <2>3, <2>4, WorkerSets DEF ActivateNew, BeforeClaim
  <2>. QED  BY <1>0, <1>5, <2>2, <2>5, SameRows DEF ActivateNew
<1>6. CASE Attach(c)
  <2>1. /\ turn' \in [Turn -> Row]
        /\ \A t \in Turn : /\ turn'[t].state = turn[t].state
                           /\ turn'[t].conv = turn[t].conv
                           /\ turn'[t].origin = turn[t].origin
    <3>1. T(c) \in Turn /\ turn[T(c)] \in Row /\ worker[c].rev \in 0..MaxRev
      BY <1>0, <1>6 DEF Attach, TypeOK, WorkerHasTurn, Worker, T
    <3>2. [turn[T(c)] EXCEPT !.rev = worker[c].rev] \in Row
      BY <3>1 DEF Row
    <3>. QED  BY <1>0, <1>6, <3>1, <3>2 DEF Attach, TypeOK, Row
  <2>2. RowsAdvance
    BY <1>0, <2>1, SameStates
  <2>3. WorkersAdvance
    BY <1>6, WorkerGoes DEF Attach, Pc, BeforeClaim
  <2>. QED  BY <1>6, <2>2, <2>3, RestStays DEF Attach
<1>7. CASE AttachFails(c)
  BY <1>7, EndsTurn, ConvTypes, ConvChanges DEF AttachFails
<1>8. CASE Unbar(c)
  BY <1>8, GoesOn, ConvTypes, ConvChanges DEF Unbar, Pc, BeforeClaim
<1>9. CASE EffectFails(c)
  BY <1>9, GivesUp, ConvTypes, ConvChanges DEF EffectFails
<1>10. CASE QueuedFails(c)
  BY <1>10, GivesUp, RestStays DEF QueuedFails, rows
<1>. QED
  BY <1>1, <1>2, <1>3, <1>4, <1>5, <1>6, <1>7, <1>8, <1>9, <1>10

LEMMA ReadAdvances ==
    ASSUME IInv, NEW c \in Conv,
           \/ ReadIdle(c) \/ ReadReloaded(c) \/ ReadActive(c)
           \/ ReadSystemError(c) \/ ReadMismatch(c) \/ ReadFails(c)
           \/ Bar(c) \/ Activate(c)
    PROVE  Advance
<1>. USE DEF Advance, At, WorkerOnly
<1>0. AfterIdle(c) \in {"unbar", "claim"}
  BY DEF AfterIdle
<1>1. CASE ReadIdle(c)
  BY <1>0, <1>1, GoesOn, RestStays DEF ReadIdle, rows, Pc, BeforeClaim
<1>2. CASE ReadReloaded(c)
  BY <1>2, GoesOn, RestStays DEF ReadReloaded, rows, Pc, BeforeClaim
<1>3. CASE ReadActive(c)
  BY <1>3, GoesOn, RestStays DEF ReadActive, rows, Pc, BeforeClaim
<1>4. CASE ReadSystemError(c)
  BY <1>4, GoesOn, RestStays DEF ReadSystemError, rows, Pc, BeforeClaim
<1>5. CASE ReadMismatch(c)
  BY <1>5, EndsTurn, ConvTypes, ConvChanges DEF ReadMismatch
<1>6. CASE ReadFails(c)
  BY <1>6, EndsTurn, RestStays DEF ReadFails
<1>7. CASE Bar(c)
  <2>1. conv' \in [Conv -> ConvRow]
    BY <1>7, ConvTypes DEF Bar, Barrier
  <2>2. RestOK' /\ HandlesAdvance
    BY <1>7, <2>1 DEF Bar, IInv, TypeOK, RestOK, HandlesAdvance, runtime, daemon
  <2>. QED  BY <1>7, <2>2, EndsTurn, GivesUp DEF Bar, GiveUpRecovery
<1>8. CASE Activate(c)
  <2>1. worker[c].rev \in 0..MaxRev
    BY DEF IInv, TypeOK, Worker
  <2>2. RestOK' /\ HandlesAdvance
    BY <1>8, <2>1, ConvTypes, ConvChanges DEF Activate
  <2>. QED  BY <1>0, <1>8, <2>2, GoesOn DEF Activate, Pc, BeforeClaim
<1>. QED  BY <1>1, <1>2, <1>3, <1>4, <1>5, <1>6, <1>7, <1>8

LEMMA RecoveryAdvances ==
    ASSUME IInv, NEW c \in Conv,
           \/ Recover(c) \/ Retire(c) \/ RetireStale(c) \/ RetireClose(c)
           \/ ResumeIdle(c) \/ ResumeSystemError(c)
    PROVE  Advance
<1>. USE DEF Advance, At, WorkerOnly
<1>0. TypeOK /\ worker[c] \in Worker
  BY DEF IInv, TypeOK
<1>1. CASE Recover(c)
  BY <1>1, EndsTurn, GoesOn, RestStays DEF Recover, Pc, BeforeClaim
<1>2. CASE Retire(c)
  <2>1. RestOK' /\ HandlesAdvance
    BY <1>0, <1>2 DEF Retire, TypeOK, RestOK, HandlesAdvance, daemon, LeaseState, Slot
  <2>. QED  BY <1>2, <2>1, GoesOn DEF Retire, Pc, BeforeClaim
<1>3. ASSUME NEW n \in 0..2, worker' = [worker EXCEPT ![c].pc = "ensure", ![c].tries = n],
             worker[c].pc # "idle", worker[c].pc \in BeforeClaim, turn' = turn
      PROVE  RowsAdvance /\ WorkersAdvance
  <2>. DEFINE w == [worker[c] EXCEPT !.pc = "ensure", !.tries = n]
  <2>1. w \in Worker /\ w.turn = worker[c].turn /\ w.pc = "ensure"
    BY <1>0 DEF Worker, Pc
  <2>2. worker' = [worker EXCEPT ![c] = w]
    BY <1>3
  <2>3. WorkersAdvance
    BY <1>3, <2>1, <2>2, WorkerSets DEF BeforeClaim
  <2>. QED  BY <1>3, <2>3, SameRows DEF IInv
<1>4. CASE RetireStale(c)
  <2>1. RestOK' /\ HandlesAdvance
    BY <1>4, RestStays DEF RetireStale
  <2>2. CASE worker[c].tries = 0
    BY <1>3, <1>4, <2>1, <2>2 DEF RetireStale, BeforeClaim
  <2>3. CASE worker[c].tries # 0
    BY <1>4, <2>1, <2>3, EndsTurn, GivesUp DEF RetireStale, GiveUpRecovery
  <2>. QED  BY <2>2, <2>3
<1>5. CASE RetireClose(c)
  <2>1. RestOK' /\ HandlesAdvance
    <3>1. slot' \in Slot
      BY <1>5, ConstantsAssumption DEF RetireClose, Slot, NoGen
    <3>. QED  BY <1>0, <1>5, <3>1 DEF RetireClose, TypeOK, RestOK, HandlesAdvance,
                                      daemon, LeaseState
  <2>2. CASE worker[c].tries < 2
    <3>1. worker[c].tries + 1 \in 0..2
      BY <1>0, <2>2 DEF Worker
    <3>2. worker' = [worker EXCEPT ![c].pc = "ensure",
                                   ![c].tries = worker[c].tries + 1]
      BY <1>5, <2>2 DEF RetireClose
    <3>. QED  BY <1>3, <1>5, <2>1, <2>2, <3>1, <3>2 DEF RetireClose, BeforeClaim
  <2>3. CASE ~(worker[c].tries < 2)
    BY <1>5, <2>1, <2>3, EndsTurn, GivesUp DEF RetireClose, GiveUpRecovery
  <2>. QED  BY <2>2, <2>3
<1>6. CASE ResumeIdle(c)
  BY <1>6, GoesOn, RestStays DEF ResumeIdle, rows, Pc, BeforeClaim
<1>7. CASE ResumeSystemError(c)
  BY <1>7, GoesOn, RestStays DEF ResumeSystemError, rows, Pc, BeforeClaim
<1>. QED  BY <1>1, <1>2, <1>4, <1>5, <1>6, <1>7

\* The claim starts the first queued turn of a conversation without an active one.
LEMMA ClaimAdvances ==
    ASSUME IInv, NEW c \in Conv, Claim(c)
    PROVE  Advance
<1>0. PICK t \in Turn : t = worker[c].turn
  BY DEF IInv, WorkerHasTurn, Claim, At
<1>1. /\ turn[t].conv = c /\ turn[t].state = "queued"
      /\ worker[c].pc = "claim" /\ worker[c].gen \in 0..MaxGen
  BY <1>0 DEF IInv, TypeOK, WorkerHasTurn, Worker, Claim, CanClaim, At, T
<1>2. turn' = [turn EXCEPT ![t].state = "starting", ![t].gen = worker[c].gen]
  BY <1>0 DEF Claim, T, G
<1>3. turn' \in [Turn -> Row]
  <2>1. turn[t] \in Row
    BY <1>1 DEF IInv, TypeOK
  <2>2. [turn[t] EXCEPT !.state = "starting", !.gen = worker[c].gen] \in Row
    BY <1>1, <2>1 DEF Row, TurnState, ActiveState
  <2>. QED  BY <1>1, <1>2, <2>2 DEF IInv, TypeOK
<1>4. /\ \A u \in Turn \ {t} : turn'[u] = turn[u]
      /\ turn'[t].state = "starting" /\ turn'[t].conv = turn[t].conv
      /\ turn'[t].origin = turn[t].origin
  BY <1>1, <1>2 DEF IInv, TypeOK, Row
<1>5. Order!Start(t)
  <2>1. \A u \in Turn : u < t /\ turn[u].conv = c => turn[u].state # "queued"
    BY <1>0, <1>1 DEF IInv, FirstInQueue, BeforeClaim, Turn
  <2>2. \A u \in Turn : turn[u].conv = c => turn[u].state \notin Order!Active
    BY DEF Claim, CanClaim, Active, ActiveState, Order!Active
  <2>. QED  BY <1>1, <1>4, <2>1, <2>2 DEF Order!Start, IInv, TypeOK
<1>6. RowsAdvance
  <2>1. [Order!Next]_Order!vars
    BY <1>1, <1>5 DEF Order!Next
  <2>. QED
    BY <1>1, <1>3, <1>4, <2>1 DEF RowsAdvance, IInv, UserCancels, Terminal
<1>7. WorkersAdvance
  BY <1>0, <1>1, <1>4, WorkerGoes DEF Claim, Pc, BeforeClaim
<1>. QED  BY <1>6, <1>7, RestStays DEF Advance, Claim, WorkerOnly

LEMMA StartAdvances ==
    ASSUME IInv, NEW c \in Conv,
           \/ ClaimFails(c) \/ Load(c) \/ LoadFails(c) \/ LoadForShutdown(c)
           \/ Start(c) \/ StartMismatch(c) \/ StartRefused(c)
           \/ RuntimeUnavailable(c) \/ InputFails(c) \/ Started(c)
           \/ StartedFails(c)
    PROVE  Advance
<1>. USE DEF Advance, At, WorkerOnly
<1>0. TypeOK /\ UserCancels /\ WorkerHasTurn
  BY DEF IInv
<1>1. CASE ClaimFails(c)
  BY <1>1, GivesUp, RestStays DEF ClaimFails, rows
<1>2. CASE Load(c)
  BY <1>2, GoesOn, RestStays DEF Load, rows, Pc, BeforeClaim
<1>3. CASE LoadFails(c)
  BY <1>3, EndsTurn, RestStays DEF LoadFails, BeforeClaim
<1>4. CASE LoadForShutdown(c)
  <2>1. T(c) \in Turn /\ turn[T(c)].state \notin {"absent", "queued"}
    BY <1>4 DEF LoadForShutdown, IInv, WorkerHasTurn, ClaimedIsNotQueued, T,
                BeforeClaim
  <2>2. ~Ended(T(c)) => turn[T(c)].state \in ActiveState
    BY <1>0, <2>1 DEF Ended, TypeOK, Row, TurnState
  <2>3. "shutdown" \in Origin
    BY DEF Origin
  <2>4. RowsAdvance
    BY <1>0, <1>4, <2>1, <2>2, <2>3, SameRows, InterruptAllAdvances
       DEF LoadForShutdown
  <2>. QED  BY <1>4, <2>4, WorkerReleases, RestStays DEF LoadForShutdown
<1>5. ASSUME NEW pc \in {"started", "abandon"}, At(c, "start"), StartAccepted(c, pc)
      PROVE  Advance
  <2>1. RestOK' /\ HandlesAdvance
    BY <1>0, <1>5 DEF StartAccepted, TypeOK, RestOK, HandlesAdvance, rows, daemon
  <2>. QED  BY <1>5, <2>1, GoesOn DEF StartAccepted, rows, Pc, BeforeClaim
<1>6. CASE Start(c)
  BY <1>5, <1>6 DEF Start
<1>7. CASE StartMismatch(c)
  BY <1>5, <1>7 DEF StartMismatch
<1>8. CASE StartRefused(c)
  <2>1. RestOK' /\ HandlesAdvance
    BY <1>0, <1>8 DEF StartRefused, NotStarted, TypeOK, RestOK, HandlesAdvance, daemon
  <2>. QED  BY <1>8, <2>1, EndsTurn DEF StartRefused, BeforeClaim
<1>9. CASE RuntimeUnavailable(c)
  <2>1. RestOK' /\ HandlesAdvance
    BY <1>0, <1>9 DEF RuntimeUnavailable, NotStarted, TypeOK, RestOK,
                      HandlesAdvance, daemon
  <2>. QED  BY <1>9, <2>1, EndsTurn DEF RuntimeUnavailable
<1>10. CASE Started(c)
  <2>1. T(c) \in Turn /\ turn[T(c)].state # "absent"
    BY <1>0, <1>10 DEF Started, WorkerHasTurn, T
  <2>2. RowsAdvance
    BY <1>0, <1>10, <2>1, SameRows, RequestCancelAdvances DEF Started, Origin
  <2>3. WorkersAdvance
    BY <1>10, <2>2, ClaimedGoes DEF Started, Pc, BeforeClaim
  <2>. QED  BY <1>10, <2>2, <2>3, RestStays DEF Started
<1>11. CASE InputFails(c)
  <2>1. provider' \in [Turn -> {"none", "live", "stopping"} \cup ProviderEnd]
    BY <1>0, <1>11 DEF InputFails, NotStarted, TypeOK
  <2>2. RowsAdvance
    BY <1>0, <1>11, SameRows DEF InputFails, rows
  <2>. QED
    BY <1>0, <1>11, <2>1, <2>2, LoseAdvances DEF InputFails, TypeOK, rows, daemon
<1>12. CASE StartedFails(c)
  <2>1. RowsAdvance
    BY <1>0, <1>12, SameRows DEF StartedFails, rows
  <2>. QED
    BY <1>0, <1>12, <2>1, LoseAdvances
       DEF StartedFails, TypeOK, rows, runtime, daemon
<1>. QED
  BY <1>1, <1>2, <1>3, <1>4, <1>6, <1>7, <1>8, <1>9, <1>10, <1>11, <1>12

LEMMA MarkAdvances ==
    ASSUME IInv, NEW c \in Conv,
           \/ MarkRunning(c) \/ MarkFails(c) \/ Abandon(c) \/ Register(c)
           \/ Recheck(c) \/ WorkerClaimInterrupt(c) \/ WorkerSendInterrupt(c)
           \/ WatchFails(c)
    PROVE  Advance
<1>. USE DEF Advance, At, WorkerOnly
<1>. DEFINE t == worker[c].turn
<1>0. /\ TypeOK /\ UserCancels
      /\ t \in Turn /\ turn[t] \in Row /\ turn[t].state # "absent" /\ T(c) = t
  BY DEF IInv, TypeOK, WorkerHasTurn, T, MarkRunning, MarkFails, Abandon, Register,
         Recheck, WorkerClaimInterrupt, WorkerSendInterrupt, WatchFails
<1>1. CASE MarkRunning(c)
  <2>1. /\ turn' \in [Turn -> Row]
        /\ \A u \in Turn \ {t} : turn'[u] = turn[u]
        /\ turn'[t].conv = turn[t].conv /\ turn'[t].origin = turn[t].origin
        /\ turn'[t].state = IF turn[t].state = "starting" THEN "running"
                            ELSE turn[t].state
    <3>1. [turn[t] EXCEPT !.ident = TRUE,
                          !.state = IF @ = "starting" THEN "running" ELSE @] \in Row
      BY <1>0 DEF Row, TurnState, ActiveState
    <3>2. turn' = [turn EXCEPT ![t] =
                     [turn[t] EXCEPT !.ident = TRUE,
                                     !.state = IF @ = "starting" THEN "running"
                                               ELSE @]]
      BY <1>0, <1>1 DEF MarkRunning
    <3>. QED  BY <1>0, <3>1, <3>2 DEF TypeOK, Row
  <2>2. RowsAdvance
    <3>1. CASE turn[t].state = "starting"
      <4>1. turn[t].origin # "user" /\ turn'[t].state = "running"
        BY <1>0, <2>1, <3>1 DEF UserCancels, Terminal
      <4>2. <<turn[t].state, "running">> \in Order!Transitions
        BY <3>1 DEF Order!Transitions
      <4>. QED  BY <1>0, <2>1, <4>1, <4>2, OneMoves
    <3>2. CASE turn[t].state # "starting"
      BY <1>0, <2>1, <3>2, SameStates
    <3>. QED  BY <3>1, <3>2
  <2>3. WorkersAdvance
    BY <1>1, <2>2, ClaimedGoes DEF MarkRunning, Pc, BeforeClaim
  <2>4. turn'[t].state \in {"running", "cancelling"}
    BY <1>0, <1>1, <2>1 DEF MarkRunning
  <2>5. RestOK' /\ HandlesAdvance
    BY <1>0, <1>1, <2>4 DEF MarkRunning, TypeOK, RestOK, HandlesAdvance, runtime,
                            daemon
  <2>. QED  BY <2>2, <2>3, <2>5
<1>2. CASE MarkFails(c)
  BY <1>2, GoesOn, RestStays DEF MarkFails, rows, Pc, BeforeClaim
<1>3. CASE Abandon(c)
  <2>1. RestOK' /\ HandlesAdvance
    BY <1>0, <1>3 DEF Abandon, Interrupted, TypeOK, RestOK, HandlesAdvance, daemon
  <2>2. CASE turn' = TerminalTurn(T(c), "interrupted")
    BY <1>3, <2>1, <2>2, EndsTurn DEF Abandon
  <2>3. CASE turn' = turn
    BY <1>3, <2>1, <2>3, GoesOn DEF Abandon, Pc, BeforeClaim
  <2>. QED  BY <1>3, <2>2, <2>3 DEF Abandon
<1>4. CASE Register(c)
  <2>1. RestOK' /\ HandlesAdvance
    BY <1>0, <1>4 DEF Register, TypeOK, RestOK, HandlesAdvance, rows, runtime,
                            daemon
  <2>. QED  BY <1>4, <2>1, GoesOn DEF Register, rows, Pc, BeforeClaim
<1>5. CASE Recheck(c)
  BY <1>5, GoesOn, RestStays DEF Recheck, rows, Pc, BeforeClaim
<1>6. CASE WorkerClaimInterrupt(c)
  <2>1. RowsAdvance
    BY <1>0, <1>6, ClaimInterruptAdvances, SameRows DEF WorkerClaimInterrupt
  <2>2. WorkersAdvance
    BY <1>6, <2>1, ClaimedGoes DEF WorkerClaimInterrupt, Pc, BeforeClaim
  <2>. QED  BY <1>6, <2>1, <2>2, RestStays DEF WorkerClaimInterrupt
<1>7. CASE WorkerSendInterrupt(c)
  <2>1. RowsAdvance /\ provider' \in [Turn -> {"none", "live", "stopping"} \cup ProviderEnd]
    BY <1>0, <1>7, SendInterruptAdvances DEF WorkerSendInterrupt
  <2>2. WorkersAdvance
    BY <1>7, <2>1, ClaimedGoes DEF WorkerSendInterrupt, Pc, BeforeClaim
  <2>3. RestOK' /\ HandlesAdvance
    BY <1>0, <1>7, <2>1 DEF WorkerSendInterrupt, TypeOK, RestOK, HandlesAdvance, daemon
  <2>. QED  BY <2>1, <2>2, <2>3
<1>8. CASE WatchFails(c)
  <2>1. RowsAdvance /\ provider' \in [Turn -> {"none", "live", "stopping"} \cup ProviderEnd]
    <3>1. CASE SendInterrupt(T(c))
      BY <1>0, <3>1, SendInterruptAdvances
    <3>2. CASE turn' = turn /\ (provider' = provider \/ Interrupted(T(c)))
      BY <1>0, <3>2, SameRows DEF Interrupted, TypeOK
    <3>. QED  BY <1>8, <3>1, <3>2 DEF WatchFails
  <2>. QED
    BY <1>0, <1>8, <2>1, LoseAdvances DEF WatchFails, TypeOK, daemon
<1>. QED  BY <1>1, <1>2, <1>3, <1>4, <1>5, <1>6, <1>7, <1>8

LEMMA AwaitAdvances ==
    ASSUME IInv, NEW c \in Conv,
           \/ AwaitDone(c) \/ AwaitFailed(c) \/ AwaitJournal(c) \/ Report(c)
           \/ ReportFails(c) \/ ReportStale(c) \/ Close(c)
    PROVE  Advance
<1>. USE DEF Advance, At, WorkerOnly
<1>0. TypeOK
  BY DEF IInv
<1>1. CASE AwaitDone(c)
  <2>1. RestOK' /\ HandlesAdvance
    BY <1>0, <1>1 DEF AwaitDone, Finish, TypeOK, RestOK, HandlesAdvance, rows,
                            runtime, daemon
  <2>. QED  BY <1>1, <2>1, GivesUp DEF AwaitDone, Finish, rows
<1>2. CASE AwaitFailed(c)
  BY <1>2, GoesOn, RestStays DEF AwaitFailed, rows, Pc, BeforeClaim
<1>3. CASE AwaitJournal(c)
  <2>1. RestOK' /\ HandlesAdvance
    BY <1>0, <1>3 DEF AwaitJournal, Finish, Interrupted, TypeOK, RestOK,
                      HandlesAdvance, rows
  <2>. QED  BY <1>3, <2>1, GivesUp DEF AwaitJournal, Finish, rows
<1>4. CASE Report(c)
  <2>1. RowsAdvance
    BY <1>4, ReportAdvances DEF Report
  <2>2. WorkersAdvance
    BY <1>4, <2>1, ClaimedGoes DEF Report, Pc, BeforeClaim
  <2>3. RestOK' /\ HandlesAdvance
    BY <1>0, <1>4 DEF Report, MarkUnhealthy, TypeOK, RestOK, HandlesAdvance, daemon,
                      LeaseState, Slot
  <2>. QED  BY <2>1, <2>2, <2>3
<1>5. CASE ReportStale(c)
  <2>1. RestOK' /\ HandlesAdvance
    BY <1>0, <1>5 DEF ReportStale, Finish, TypeOK, RestOK, HandlesAdvance, rows,
                            runtime
  <2>. QED  BY <1>5, <2>1, GivesUp DEF ReportStale, Finish, rows
<1>6. CASE Close(c)
  <2>1. slot' \in Slot /\ alive' \subseteq Gen /\ provider' = provider
    BY <1>0, <1>6, CloseProcessTypes DEF Close
  <2>2. RestOK' /\ HandlesAdvance
    BY <1>0, <1>6, <2>1 DEF Close, Finish, TypeOK, RestOK, HandlesAdvance, rows
  <2>. QED  BY <1>6, <2>2, GivesUp DEF Close, Finish, rows
<1>7. CASE ReportFails(c)
  <2>1. RowsAdvance
    BY <1>0, <1>7, SameRows DEF ReportFails, rows, IInv
  <2>2. /\ critical' \in BOOLEAN
        /\ UNCHANGED <<conv, lease, slot, alive, volatile, canceller, monitor,
                       phase, boots>>
        /\ provider' = provider /\ Lose(c)
    BY <1>0, <1>7 DEF ReportFails, TypeOK, rows, runtime
  <2>. QED  BY <1>0, <2>1, <2>2, LoseAdvances DEF TypeOK
<1>. QED  BY <1>1, <1>2, <1>3, <1>4, <1>5, <1>6, <1>7

-----------------------------------------------------------------------------
(* Steps of the other tasks, of the runtime and of the daemon. *)

LEMMA CancelAdvances ==
    ASSUME IInv, NEW u \in Canceller, CancelRequest(u) \/ CancelStep(u)
    PROVE  Advance
<1>. USE DEF Advance, CancelStep
<1>0. TypeOK /\ UserCancels /\ canceller[u] \in CancelTask
  BY DEF IInv, TypeOK
<1>1. ASSUME NEW x \in {"claimInterrupt", "interrupt", "done", "failed"}, Step(u, x)
      PROVE  canceller' \in [Canceller -> CancelTask]
  BY <1>0, <1>1 DEF Step, CancelTask, TypeOK
<1>2. CASE CancelRequest(u)
  <2>1. PICK t \in Turn :
           /\ turn[t].state = "queued" \/ Active(t)
           /\ turn' = RequestCancel(t, "user")
           /\ canceller' = [canceller EXCEPT ![u] = [pc |-> "lookup", turn |-> t]]
    BY <1>2 DEF CancelRequest
  <2>2. RowsAdvance
    BY <1>0, <2>1, RequestCancelAdvances DEF Active, ActiveState, Origin
  <2>3. t \in 0..MaxTurn
    BY ConstantsAssumption DEF Turn
  <2>4. canceller' \in [Canceller -> CancelTask]
    BY <1>0, <2>1, <2>3 DEF CancelTask, TypeOK
  <2>5. RestOK' /\ HandlesAdvance
    BY <1>0, <1>2, <2>4 DEF CancelRequest, TypeOK, RestOK, HandlesAdvance, runtime,
                            daemon
  <2>. QED  BY <1>2, <2>2, <2>5, WorkersStay DEF CancelRequest
<1>3. CASE CancelLookup(u)
  <2>1. RestOK' /\ HandlesAdvance
    BY <1>0, <1>1, <1>3 DEF CancelLookup, TypeOK, RestOK, HandlesAdvance, rows,
                            runtime, daemon
  <2>. QED  BY <1>0, <1>3, <2>1, SameRows, WorkersStay DEF CancelLookup, rows
<1>4. CASE CancelClaimInterrupt(u)
  <2>1. RowsAdvance
    BY <1>0, <1>4, ClaimInterruptAdvances, SameRows DEF CancelClaimInterrupt
  <2>2. RestOK' /\ HandlesAdvance
    BY <1>0, <1>1, <1>4 DEF CancelClaimInterrupt, TypeOK, RestOK, HandlesAdvance,
                            runtime, daemon
  <2>. QED  BY <1>4, <2>1, <2>2, WorkersStay DEF CancelClaimInterrupt
<1>5. CASE CancelSendInterrupt(u)
  <2>1. RowsAdvance /\ provider' \in [Turn -> {"none", "live", "stopping"} \cup ProviderEnd]
    BY <1>0, <1>5, SendInterruptAdvances DEF CancelSendInterrupt
  <2>2. RestOK' /\ HandlesAdvance
    BY <1>0, <1>1, <1>5, <2>1 DEF CancelSendInterrupt, TypeOK, RestOK,
                                  HandlesAdvance, daemon
  <2>. QED  BY <1>5, <2>1, <2>2, WorkersStay DEF CancelSendInterrupt
<1>6. CASE CancelFails(u)
  <2>1. RestOK' /\ HandlesAdvance
    BY <1>0, <1>1, <1>6 DEF CancelFails, Interrupted, TypeOK, RestOK,
                            HandlesAdvance, rows, daemon
  <2>. QED  BY <1>0, <1>6, <2>1, SameRows, WorkersStay DEF CancelFails, rows
<1>. QED  BY <1>2, <1>3, <1>4, <1>5, <1>6

LEMMA PumpAdvances ==
    ASSUME IInv, NEW t \in Turn, PumpTask(t)
    PROVE  Advance
<1>. USE DEF Advance
<1>0. /\ TypeOK /\ UserCancels /\ turn[t] \in Row
      /\ pump[t] = "on" /\ turn[t].state \in {"running", "cancelling"} \cup Terminal
  BY DEF IInv, TypeOK, PumpedIsRunning, PumpTask, PumpTerminal, PumpFailure, PumpJournal
<1>1. ASSUME NEW s \in Terminal, NEW r \in {"terminal", "failed"}, PumpStep(t, s, r),
             s = "cancelled" => turn[t].origin = "user"
      PROVE  Advance
  <2>1. CASE Recordable(t)
    <3>1. turn' = [turn EXCEPT ![t].state = s]
      BY <1>1, <2>1 DEF PumpStep
    <3>2. turn' \in [Turn -> Row]
      <4>1. [turn[t] EXCEPT !.state = s] \in Row
        BY <1>0 DEF Row, TurnState
      <4>. QED  BY <1>0, <3>1, <4>1 DEF TypeOK
    <3>3. turn[t].state \in {"running", "cancelling"}
      BY <1>0, <2>1 DEF Recordable, Active, ActiveState, Terminal
    <3>4. turn[t].origin = "user" => turn[t].state = "cancelling"
      BY <1>0, <3>3 DEF UserCancels, Terminal
    <3>5. <<turn[t].state, s>> \in Order!Transitions
      BY <1>1, <3>3, <3>4 DEF Order!Transitions, Order!Terminal, Terminal
    <3>6. /\ turn'[t].state = s /\ turn'[t].conv = turn[t].conv
          /\ \A v \in Turn \ {t} : turn'[v] = turn[v]
      BY <1>0, <3>1 DEF TypeOK, Row
    <3>7. RowsAdvance
      BY <1>0, <3>2, <3>5, <3>6, OneMoves
    <3>8. RestOK' /\ HandlesAdvance
      BY <1>0, <1>1, <2>1 DEF PumpStep, TypeOK, RestOK, HandlesAdvance, runtime, daemon
    <3>. QED  BY <1>1, <3>7, <3>8, WorkersStay DEF PumpStep
  <2>2. CASE ~Recordable(t)
    <3>1. RestOK' /\ HandlesAdvance
      BY <1>0, <1>1, <2>2 DEF PumpStep, TypeOK, RestOK, HandlesAdvance, runtime, daemon
    <3>. QED  BY <1>0, <1>1, <2>2, <3>1, SameRows, WorkersStay DEF PumpStep
  <2>. QED  BY <2>1, <2>2
<1>2. CASE PumpTerminal(t)
  <2>1. /\ Outcome(t) \in Terminal
        /\ Outcome(t) = "cancelled" => turn[t].origin = "user"
    BY DEF Outcome, Terminal
  <2>. QED  BY <1>1, <1>2, <2>1 DEF PumpTerminal
<1>3. CASE PumpFailure(t)
  BY <1>1, <1>3 DEF PumpFailure, Terminal
<1>4. CASE PumpJournal(t)
  <2>1. RestOK' /\ HandlesAdvance
    BY <1>0, <1>4 DEF PumpJournal, TypeOK, RestOK, HandlesAdvance, rows, runtime, daemon
  <2>. QED  BY <1>0, <1>4, <2>1, SameRows, WorkersStay DEF PumpJournal, rows
<1>. QED  BY <1>2, <1>3, <1>4 DEF PumpTask

LEMMA RuntimeAdvances ==
    ASSUME IInv,
           \/ \E t \in Turn, end \in ProviderEnd : ProviderEnds(t, end)
           \/ \E g \in Gen : RuntimeDies(g)
           \/ WatchdogReport \/ WatchdogClose
    PROVE  Advance
<1>. USE DEF Advance
<1>0. TypeOK /\ UserCancels
  BY DEF IInv
<1>1. ASSUME NEW t \in Turn, NEW end \in ProviderEnd, ProviderEnds(t, end)
      PROVE  Advance
  <2>1. RestOK' /\ HandlesAdvance
    BY <1>0, <1>1 DEF ProviderEnds, TypeOK, RestOK, HandlesAdvance, rows, tasks, daemon
  <2>. QED  BY <1>0, <1>1, <2>1, SameRows, WorkersStay DEF ProviderEnds, rows, tasks
<1>2. ASSUME NEW g \in Gen, RuntimeDies(g)
      PROVE  Advance
  <2>1. RestOK' /\ HandlesAdvance
    BY <1>0, <1>2 DEF RuntimeDies, TypeOK, RestOK, HandlesAdvance, rows, tasks, daemon
  <2>. QED  BY <1>0, <1>2, <2>1, SameRows, WorkersStay DEF RuntimeDies, rows, tasks
<1>3. CASE WatchdogReport
  <2>1. RestOK' /\ HandlesAdvance
    BY <1>0, <1>3 DEF WatchdogReport, MarkUnhealthy, TypeOK, RestOK, HandlesAdvance,
                      LeaseState, Slot, tasks, daemon
  <2>. QED  BY <1>3, <2>1, ReportAdvances, WorkersStay DEF WatchdogReport, tasks
<1>4. CASE WatchdogClose
  <2>1. slot' \in Slot /\ alive' \subseteq Gen /\ provider' = provider
    BY <1>0, <1>4, CloseProcessTypes DEF WatchdogClose
  <2>2. RestOK' /\ HandlesAdvance
    BY <1>0, <1>4, <2>1 DEF WatchdogClose, TypeOK, RestOK, HandlesAdvance, rows,
                            tasks, daemon
  <2>. QED  BY <1>0, <1>4, <2>2, SameRows, WorkersStay DEF WatchdogClose, rows, tasks
<1>. QED  BY <1>1, <1>2, <1>3, <1>4

LEMMA SessionAdvances ==
    ASSUME IInv, NEW c \in Conv, Clear(c) \/ Compact(c) \/ MonitorStep(c)
    PROVE  Advance
<1>. USE DEF Advance, MonitorStep
<1>0. TypeOK /\ UserCancels /\ conv[c] \in ConvRow
  BY DEF IInv, TypeOK
<1>1. CASE Clear(c)
  <2>1. [conv[c] EXCEPT !.state = "uninitialized", !.rev = NoRev] \in ConvRow
    <3>1. NoRev \in 0..MaxRev
      BY ConstantsAssumption DEF NoRev
    <3>. QED  BY <1>0, <3>1 DEF ConvRow
  <2>2. conv' = [conv EXCEPT ![c] = [conv[c] EXCEPT !.state = "uninitialized",
                                                    !.rev = NoRev]]
    BY <1>1 DEF Clear
  <2>3. RestOK' /\ HandlesAdvance
    BY <1>0, <1>1, <2>1, <2>2 DEF Clear, TypeOK, RestOK, HandlesAdvance, runtime,
                                  tasks, daemon
  <2>. QED  BY <1>0, <1>1, <2>3, SameRows, WorkersStay DEF Clear, tasks
<1>2. CASE Compact(c)
  <2>1. conv' \in [Conv -> ConvRow]
    BY <1>2, ConvTypes DEF Compact, Barrier
  <2>2. RestOK' /\ HandlesAdvance
    BY <1>0, <1>2, <2>1 DEF Compact, TypeOK, RestOK, HandlesAdvance, runtime, daemon
  <2>. QED  BY <1>0, <1>2, <2>2, SameRows, WorkersStay DEF Compact
<1>3. ASSUME conv' \in [Conv -> ConvRow], MonitorStops(c)
      PROVE  Advance
  <2>1. RestOK' /\ HandlesAdvance
    BY <1>0, <1>3 DEF MonitorStops, TypeOK, RestOK, HandlesAdvance, runtime, daemon
  <2>. QED  BY <1>0, <1>3, <2>1, SameRows, WorkersStay DEF MonitorStops
<1>4. CASE MonitorIdle(c)
  <2>1. [conv[c] EXCEPT !.barrier = "none",
                        !.state = IF @ = "blocked" THEN "active" ELSE @] \in ConvRow
    BY <1>0 DEF ConvRow, Barrier
  <2>2. \/ conv' = conv
        \/ conv' = [conv EXCEPT ![c] =
                      [conv[c] EXCEPT !.barrier = "none",
                                      !.state = IF @ = "blocked" THEN "active"
                                                ELSE @]]
    BY <1>4 DEF MonitorIdle
  <2>. QED  BY <1>0, <1>3, <1>4, <2>1, <2>2 DEF MonitorIdle, TypeOK
<1>5. CASE MonitorBlocks(c)
  BY <1>3, <1>5, ConvTypes DEF MonitorBlocks
<1>. QED  BY <1>1, <1>2, <1>4, <1>5

LEMMA DaemonAdvances ==
    ASSUME IInv,
           \/ CloseBegin \/ (\E t \in Turn : ShutdownInterrupt(t)) \/ CloseTurns
           \/ ForceClose \/ CloseRuntimes \/ Crash \/ Boot \/ Restore
    PROVE  Advance
<1>. USE DEF Advance
<1>0. TypeOK /\ UserCancels /\ "shutdown" \in Origin /\ "runtime" \in Origin
  BY DEF IInv, Origin
<1>1. NoGen \in 0..MaxGen
  BY ConstantsAssumption DEF NoGen
<1>2. CASE CloseBegin
  <2>1. RestOK' /\ HandlesAdvance
    BY <1>0, <1>2 DEF CloseBegin, TypeOK, RestOK, HandlesAdvance, rows, runtime, tasks
  <2>. QED  BY <1>0, <1>2, <2>1, SameRows, WorkersStay DEF CloseBegin, rows, tasks
<1>3. ASSUME NEW t \in Turn, ShutdownInterrupt(t)
      PROVE  Advance
  <2>1. turn[t].state # "absent"
    BY <1>3 DEF ShutdownInterrupt, IInv, PumpedIsRunning
  <2>2. RowsAdvance
    BY <1>0, <1>3, <2>1, RequestCancelAdvances DEF ShutdownInterrupt
  <2>3. RestOK' /\ HandlesAdvance
    BY <1>0, <1>3 DEF ShutdownInterrupt, Interrupted, TypeOK, RestOK,
                      HandlesAdvance, tasks, daemon
  <2>. QED  BY <1>3, <2>2, <2>3, WorkersStay DEF ShutdownInterrupt, tasks
<1>4. ASSUME NEW F, StopTasks(F)
      PROVE  /\ WorkersAdvance /\ HandlesAdvance
             /\ conv' \in [Conv -> ConvRow] /\ active' = {} /\ monitor' = {}
             /\ pump' \in [Turn -> {"off"}] /\ canceller' \in [Canceller -> CancelTask]
  <2>1. WorkersAdvance
    BY <1>4, IdleType DEF StopTasks, WorkersAdvance, Idle
  <2>2. \A c \in Conv : [conv[c] EXCEPT !.state = "blocked"] \in ConvRow
    BY <1>0 DEF TypeOK, ConvRow
  <2>3. conv' \in [Conv -> ConvRow]
    BY <1>0, <1>4, <2>2 DEF StopTasks, TypeOK
  <2>4. \A u \in Canceller :
           [canceller[u] EXCEPT !.pc = IF @ = "ready" THEN @ ELSE "done"] \in CancelTask
    BY <1>0 DEF TypeOK, CancelTask
  <2>5. canceller' \in [Canceller -> CancelTask]
    BY <1>4, <2>4 DEF StopTasks
  <2>. QED  BY <1>4, <2>1, <2>3, <2>5 DEF StopTasks, HandlesAdvance
<1>5. CASE CloseTurns
  <2>1. RowsAdvance
    <3>. DEFINE X == {t \in Turn : \/ Active(t)
                                   \/ /\ turn[t].state = "queued"
                                      /\ turn[t].source # "schedule"}
    <3>1. X \in SUBSET Turn /\ \A t \in X : turn[t].state \in {"queued"} \cup ActiveState
      BY DEF Active
    <3>2. turn' = InterruptAll(X, "shutdown")
      BY <1>5 DEF CloseTurns
    <3>. HIDE DEF X
    <3>. QED  BY <1>0, <3>1, <3>2, InterruptAllAdvances
  <2>2. StopTasks(Starting)
    BY <1>5 DEF CloseTurns
  <2>3. RestOK'
    BY <1>0, <1>4, <1>5, <2>2 DEF CloseTurns, TypeOK, RestOK, runtime
  <2>. QED  BY <1>4, <2>1, <2>2, <2>3
<1>6. CASE CloseRuntimes
  <2>1. RestOK' /\ HandlesAdvance
    BY <1>0, <1>1, <1>6 DEF CloseRuntimes, CloseSlot, TypeOK, RestOK,
                            HandlesAdvance, LeaseState, Slot, tasks
  <2>. QED  BY <1>0, <1>6, <2>1, SameRows, WorkersStay DEF CloseRuntimes, tasks
<1>7. CASE ForceClose
  <2>1. RestOK' /\ HandlesAdvance
    BY <1>0, <1>1, <1>7 DEF ForceClose, CloseSlot, TypeOK, RestOK,
                            HandlesAdvance, LeaseState, Slot
  <2>2. WorkersAdvance
    BY <1>0, <1>7, IdleType DEF ForceClose, WorkersAdvance, Idle, TypeOK
  <2>. QED  BY <1>0, <1>7, <2>1, <2>2, SameRows DEF ForceClose
<1>8. CASE Crash
  <2>1. StopTasks({})
    BY <1>8 DEF Crash
  <2>2. RestOK'
    BY <1>0, <1>1, <1>4, <1>8, <2>1 DEF Crash, TypeOK, RestOK, Slot
  <2>. QED  BY <1>0, <1>4, <1>8, <2>1, <2>2, SameRows DEF Crash
<1>9. CASE Boot
  <2>1. RowsAdvance
    <3>. DEFINE X == {t \in Turn : \/ Active(t)
                                   \/ /\ turn[t].state = "queued"
                                      /\ turn[t].source = "discord"}
    <3>1. X \in SUBSET Turn /\ \A t \in X : turn[t].state \in {"queued"} \cup ActiveState
      BY DEF Active
    <3>2. turn' = InterruptAll(X, "runtime")
      BY <1>9 DEF Boot
    <3>. HIDE DEF X
    <3>. QED  BY <1>0, <3>1, <3>2, InterruptAllAdvances
  <2>2. boots' \in 0..MaxBoot
    BY <1>0, <1>9, ConstantsAssumption DEF Boot, TypeOK
  <2>3. RestOK' /\ HandlesAdvance
    BY <1>0, <1>9, <2>2 DEF Boot, TypeOK, RestOK, HandlesAdvance, LeaseState, runtime
  <2>. QED  BY <1>9, <2>1, <2>3, WorkersStay DEF Boot
<1>10. CASE Restore
  <2>1. RowsAdvance
    <3>1. CASE turn' = turn
      BY <1>0, <3>1, SameRows
    <3>2. CASE turn' # turn
      <4>1. PICK t \in Turn : turn[t].state = "queued" /\ turn' = InterruptAll({t}, "runtime")
        BY <1>10, <3>2 DEF Restore
      <4>. QED  BY <1>0, <4>1, InterruptAllAdvances
    <3>. QED  BY <3>1, <3>2
  <2>2. RestOK' /\ HandlesAdvance
    BY <1>0, <1>10 DEF Restore, TypeOK, RestOK, HandlesAdvance, runtime
  <2>. QED  BY <1>10, <2>1, <2>2, WorkersStay DEF Restore
<1>. QED  BY <1>2, <1>3, <1>5, <1>6, <1>7, <1>8, <1>9, <1>10

-----------------------------------------------------------------------------
(* The two steps that are not of this form: a row is inserted, a worker takes one. *)

LEMMA EnqueueStep ==
    ASSUME IInv, NEW c \in Conv, NEW s \in Source, Enqueue(c, s)
    PROVE  IInv' /\ [Order!Next]_Order!vars
<1>. DEFINE row == [Absent EXCEPT !.state = "queued", !.conv = c, !.source = s,
                                  !.rev = conv[c].rev]
<1>1. PICK t \in Turn :
         /\ turn[t].state = "absent"
         /\ \A u \in Turn : u < t => turn[u].state # "absent"
         /\ turn' = [turn EXCEPT ![t] = row]
         /\ volatile' = volatile \cup {t}
  BY DEF Enqueue
<1>2. /\ row \in Row /\ row.state = "queued" /\ row.conv = c /\ row.origin = "none"
  <2>1. conv[c].rev \in 0..MaxRev /\ NoGen \in 0..MaxGen
    BY ConstantsAssumption DEF IInv, TypeOK, ConvRow, NoGen
  <2>. QED  BY <2>1 DEF Absent, Row, TurnState, Source, Origin
<1>. HIDE DEF row
<1>3. /\ turn' \in [Turn -> Row] /\ turn'[t].state = "queued" /\ turn'[t].conv = c
      /\ turn'[t].origin = "none" /\ \A u \in Turn \ {t} : turn'[u] = turn[u]
  BY <1>1, <1>2 DEF IInv, TypeOK
<1>4. /\ worker' = worker /\ active' = active /\ pump' = pump
  BY DEF Enqueue
<1>5. \A u \in Turn : t < u => turn[u].state = "absent"
  BY <1>1 DEF IInv, Contiguous
<1>6. TypeOK'
  BY <1>1, <1>3 DEF Enqueue, IInv, TypeOK, runtime, daemon
<1>7. WorkerHasTurn' /\ ClaimedIsNotQueued' /\ PumpedIsRunning' /\ UserCancels'
  BY <1>1, <1>3, <1>4 DEF IInv, WorkerHasTurn, ClaimedIsNotQueued, PumpedIsRunning,
                          UserCancels, Terminal
<1>8. Contiguous'
  BY <1>1, <1>3 DEF IInv, Contiguous, Turn
<1>9. FirstInQueue'
  <2>1. \A d \in Conv : worker[d].pc \in BeforeClaim => worker[d].turn <= t
    BY <1>5 DEF IInv, WorkerHasTurn, BeforeClaim, Turn
  <2>. QED  BY <1>3, <1>4, <2>1 DEF IInv, FirstInQueue
<1>10. Order!Arrive(t, c)
  BY <1>1, <1>3, <1>5 DEF Order!Arrive, IInv, TypeOK, Turn
<1>. QED
  BY <1>6, <1>7, <1>8, <1>9, <1>10 DEF IInv, Order!Next

LEMMA PickStep ==
    ASSUME IInv, NEW c \in Conv, Pick(c)
    PROVE  IInv' /\ turn' = turn
<1>1. PICK t \in Turn : /\ IsNextQueued(t, c)
                        /\ worker' = [worker EXCEPT ![c] =
                                        [Idle EXCEPT !.pc = "ensure", !.turn = t,
                                                     !.barrier = conv[c].barrier]]
  BY DEF Pick
<1>. DEFINE w == [Idle EXCEPT !.pc = "ensure", !.turn = t, !.barrier = conv[c].barrier]
<1>2. w \in Worker /\ w.pc = "ensure" /\ w.turn = t
  <2>1. t \in 0..MaxTurn /\ conv[c].barrier \in Barrier
    BY ConstantsAssumption DEF Turn, IInv, TypeOK, ConvRow
  <2>. QED  BY <2>1, IdleType DEF Idle, Worker, Pc
<1>. HIDE DEF w
<1>3. worker' = [worker EXCEPT ![c] = w]
  BY <1>1 DEF w
<1>4. /\ turn[t].state = "queued" /\ turn[t].conv = c
      /\ \A u \in Turn : turn[u].state = "queued" /\ turn[u].conv = c => t <= u
  BY <1>1 DEF IsNextQueued, QueuedIn
<1>5. /\ turn' = turn
      /\ UNCHANGED <<conv, lease, runtime, active, volatile, pump, canceller,
                     monitor, daemon>>
  BY DEF Pick, rows
<1>6. TypeOK'
  BY <1>2, <1>3, <1>5 DEF IInv, TypeOK, runtime, daemon
<1>7. WorkerHasTurn' /\ FirstInQueue' /\ ClaimedIsNotQueued'
  BY <1>2, <1>3, <1>4, <1>5 DEF IInv, TypeOK, WorkerHasTurn, FirstInQueue,
                                ClaimedIsNotQueued, BeforeClaim
<1>8. Contiguous' /\ PumpedIsRunning' /\ UserCancels'
  BY <1>5 DEF IInv, Contiguous, PumpedIsRunning, UserCancels
<1>. QED  BY <1>5, <1>6, <1>7, <1>8 DEF IInv

-----------------------------------------------------------------------------
(* The theorems. *)

LEMMA InitInv == Init => IInv /\ Order!Init
<1>. SUFFICES ASSUME Init  PROVE IInv /\ Order!Init
  OBVIOUS
<1>1. NoGen \in 0..MaxGen /\ NoRev \in 0..MaxRev /\ 0 \in 0..MaxTurn /\ 1 \in 0..MaxRev
      /\ 0 \in 0..MaxBoot /\ 0 \in 0..MaxRev
  BY ConstantsAssumption DEF NoGen, NoRev
<1>2. Absent \in Row
  BY <1>1 DEF Absent, Row, TurnState, Source, Origin
<1>3. TypeOK
  <2>1. turn \in [Turn -> Row] /\ worker \in [Conv -> Worker]
    BY <1>2, IdleType DEF Init
  <2>2. conv \in [Conv -> ConvRow]
    BY <1>1 DEF Init, ConvRow, Barrier
  <2>3. canceller \in [Canceller -> CancelTask] /\ slot \in Slot
    BY <1>1 DEF Init, CancelTask, Slot
  <2>. QED  BY <1>1, <2>1, <2>2, <2>3 DEF Init, TypeOK, LeaseState
<1>4. IInv
  BY <1>3 DEF IInv, Init, Absent, Idle, WorkerHasTurn, Contiguous, FirstInQueue,
              ClaimedIsNotQueued, PumpedIsRunning, UserCancels, BeforeClaim
<1>5. Order!Init
  BY DEF Init, Order!Init, Absent
<1>. QED  BY <1>4, <1>5

LEMMA NextInv == IInv /\ [Next]_vars => IInv' /\ [Order!Next]_Order!vars
<1>. SUFFICES ASSUME IInv, [Next]_vars  PROVE IInv' /\ [Order!Next]_Order!vars
  OBVIOUS
<1>1. ASSUME Advance  PROVE IInv' /\ [Order!Next]_Order!vars
  BY <1>1, AdvanceKeepsInv DEF Advance, RowsAdvance
<1>2. ASSUME NEW c \in Conv, WorkerStep(c)  PROVE IInv' /\ [Order!Next]_Order!vars
  <2>1. CASE Pick(c)
    BY <2>1, PickStep DEF Order!vars
  <2>2. CASE Claim(c)
    BY <1>1, <2>2, ClaimAdvances
  <2>3. CASE ~Pick(c) /\ ~Claim(c)
    BY <1>1, <1>2, <2>3, EnsureAdvances, NewThreadAdvances, ReadAdvances,
       RecoveryAdvances, StartAdvances, MarkAdvances, AwaitAdvances
       DEF WorkerStep
  <2>. QED  BY <2>1, <2>2, <2>3
<1>3. ASSUME NEW c \in Conv, MonitorStep(c) \/ Clear(c) \/ Compact(c)
      PROVE  IInv' /\ [Order!Next]_Order!vars
  BY <1>1, <1>3, SessionAdvances
<1>4. ASSUME NEW c \in Conv, NEW s \in Source, Enqueue(c, s)
      PROVE  IInv' /\ [Order!Next]_Order!vars
  BY <1>4, EnqueueStep
<1>5. ASSUME NEW u \in Canceller, CancelRequest(u) \/ CancelStep(u)
      PROVE  IInv' /\ [Order!Next]_Order!vars
  BY <1>1, <1>5, CancelAdvances
<1>6. ASSUME NEW t \in Turn, PumpTask(t)
      PROVE  IInv' /\ [Order!Next]_Order!vars
  BY <1>1, <1>6, PumpAdvances
<1>7. CASE \/ \E t \in Turn, end \in ProviderEnd : ProviderEnds(t, end)
           \/ \E g \in Gen : RuntimeDies(g)
           \/ WatchdogReport \/ WatchdogClose
  BY <1>1, <1>7, RuntimeAdvances
<1>8. CASE \/ CloseBegin \/ (\E t \in Turn : ShutdownInterrupt(t)) \/ CloseTurns
           \/ ForceClose \/ CloseRuntimes \/ Crash \/ Boot \/ Restore
  BY <1>1, <1>8, DaemonAdvances
<1>9. CASE UNCHANGED vars
  <2>1. UNCHANGED <<turn, conv, lease, slot, alive, provider, worker, active,
                    volatile, pump, canceller, monitor, phase, boots, critical>>
    BY <1>9 DEF vars, rows, runtime, tasks, daemon
  <2>. QED
    BY <2>1 DEF IInv, TypeOK, WorkerHasTurn, Contiguous, FirstInQueue,
                ClaimedIsNotQueued, PumpedIsRunning, UserCancels, Order!vars
<1>. QED
  BY <1>2, <1>3, <1>4, <1>5, <1>6, <1>7, <1>8, <1>9 DEF Next

\* The invariant the other theorems rest on.
THEOREM InductiveInvariant == Spec => []IInv
  BY InitInv, NextInv, PTL DEF Spec

\* Every row, task and process keeps a value of its type, for any number of
\* turns, conversations, generations and cancel interactions.
THEOREM TypeCorrect == Spec => []TypeOK
<1>1. IInv => TypeOK
  BY DEF IInv
<1>. QED  BY <1>1, InductiveInvariant, PTL

\* Whoever writes the rows and in whatever order, they move as TurnOrder says.
THEOREM Refinement == Spec => ImplementsTurnOrder
  BY InitInv, NextInv, InductiveInvariant, PTL DEF Spec, ImplementsTurnOrder, Order!Spec

-----------------------------------------------------------------------------
(* The promises of TurnOrder, and that the detailed model keeps them. *)

\* At most one turn of a conversation is active.
OneActiveInv == Order!TypeOK /\ Order!OneActive

LEMMA OneActiveStep == OneActiveInv /\ [Order!Next]_Order!vars => OneActiveInv'
<1>. SUFFICES ASSUME OneActiveInv, [Order!Next]_Order!vars  PROVE OneActiveInv'
  OBVIOUS
<1>. USE DEF OneActiveInv, Order!TypeOK, Order!OneActive, Order!Active, Order!Terminal
<1>1. ASSUME NEW t \in Turn, NEW c \in Conv, Order!Arrive(t, c)  PROVE OneActiveInv'
  <2>1. \A u \in Turn : /\ turn'[u].state = IF u = t THEN "queued" ELSE turn[u].state
                        /\ turn'[u].conv = IF u = t THEN c ELSE turn[u].conv
    BY <1>1 DEF Order!Arrive
  <2>. QED  BY <2>1
<1>2. ASSUME NEW t \in Turn, Order!Start(t)  PROVE OneActiveInv'
  <2>1. \A u \in Turn : /\ turn'[u].state = IF u = t THEN "starting" ELSE turn[u].state
                        /\ turn'[u].conv = turn[u].conv
    BY <1>2 DEF Order!Start
  <2>2. \A u \in Turn : u # t /\ turn[u].conv = turn[t].conv => turn[u].state \notin Order!Active
    BY <1>2 DEF Order!Start
  <2>. QED  BY <2>1, <2>2
<1>3. ASSUME NEW t \in Turn, NEW s, Order!Move(t, s)  PROVE OneActiveInv'
  <2>1. \A u \in Turn : /\ turn'[u].state = IF u = t THEN s ELSE turn[u].state
                        /\ turn'[u].conv = turn[u].conv
    BY <1>3 DEF Order!Move
  <2>2. /\ s \in Order!Active \cup Order!Terminal
        /\ s \in Order!Active => turn[t].state \in Order!Active
    BY <1>3 DEF Order!Move, Order!Transitions
  <2>. QED  BY <2>1, <2>2
<1>4. ASSUME NEW L \in SUBSET Turn, Order!Lose(L)  PROVE OneActiveInv'
  <2>1. \A u \in Turn :
           /\ turn'[u].state = IF u \in L THEN "interrupted" ELSE turn[u].state
           /\ turn'[u].conv = turn[u].conv
    BY <1>4 DEF Order!Lose
  <2>. QED  BY <2>1
<1>5. CASE UNCHANGED Order!vars
  BY <1>5 DEF Order!vars
<1>. QED  BY <1>1, <1>2, <1>3, <1>4, <1>5 DEF Order!Next

LEMMA FinalStep == Order!TypeOK /\ [Order!Next]_Order!vars => Order!KeepsOutcomes
<1>. SUFFICES ASSUME [Order!Next]_Order!vars, NEW t \in Turn,
                     turn[t].state \in Order!Terminal
              PROVE  turn'[t].state = turn[t].state
  BY DEF Order!KeepsOutcomes
<1>. USE DEF Order!Active, Order!Terminal
<1>1. ASSUME NEW u \in Turn, NEW c \in Conv, Order!Arrive(u, c)
      PROVE  turn'[t].state = turn[t].state
  BY <1>1 DEF Order!Arrive
<1>2. ASSUME NEW u \in Turn, Order!Start(u)  PROVE turn'[t].state = turn[t].state
  BY <1>2 DEF Order!Start
<1>3. ASSUME NEW u \in Turn, NEW s, Order!Move(u, s)  PROVE turn'[t].state = turn[t].state
  BY <1>3 DEF Order!Move, Order!Transitions
<1>4. ASSUME NEW L \in SUBSET Turn, Order!Lose(L)  PROVE turn'[t].state = turn[t].state
  BY <1>4 DEF Order!Lose
<1>5. CASE UNCHANGED Order!vars
  BY <1>5 DEF Order!vars
<1>. QED  BY <1>1, <1>2, <1>3, <1>4, <1>5 DEF Order!Next

\* Whatever keeps to TurnOrder never has two active turns in a conversation.
THEOREM OneActiveHolds == Order!Spec => []Order!OneActive
<1>1. Order!Init => OneActiveInv
  BY DEF Order!Init, OneActiveInv, Order!TypeOK, Order!OneActive, Order!Active
<1>2. OneActiveInv => Order!OneActive
  BY DEF OneActiveInv
<1>. QED  BY <1>1, <1>2, OneActiveStep, PTL DEF Order!Spec

\* Whatever keeps to TurnOrder ends a turn once.
THEOREM OutcomeIsFinal == Order!Spec => Order!EndsOnce
<1>1. Order!Init => OneActiveInv
  BY DEF Order!Init, OneActiveInv, Order!TypeOK, Order!OneActive, Order!Active
<1>2. OneActiveInv => Order!TypeOK
  BY DEF OneActiveInv
<1>. QED  BY <1>1, <1>2, OneActiveStep, FinalStep, PTL DEF Order!Spec, Order!EndsOnce

\* Two Turns of a Conversation are never active together, whatever the daemon's
\* tasks, its runtimes, shutdown and restarts do to their rows.
THEOREM OneActiveTurn == Spec => []Order!OneActive
  BY Refinement, OneActiveHolds, PTL DEF ImplementsTurnOrder

\* The outcome of a Turn stays: whoever comes late with another finds its row
\* closed.
THEOREM OutcomeStays == Spec => Order!EndsOnce
  BY Refinement, OutcomeIsFinal, PTL DEF ImplementsTurnOrder

-----------------------------------------------------------------------------
(* What a worker does before its claim. *)

\* A Turn that a worker has taken and not claimed is not active.
TakenIsNotActive ==
    \A c \in Conv : worker[c].pc \in BeforeClaim => ~Active(worker[c].turn)

\* Steps of a worker before its claim start nothing at the provider, have no
\* handle, and end its row if it is queued.
EarlyStep(c) ==
    /\ UNCHANGED <<provider, active, pump, canceller, daemon>>
    /\ worker[c].pc \in BeforeClaim
    /\ \A d \in Conv \ {c} : worker'[d] = worker[d]
    /\ \/ worker'[c].pc = "idle"
       \/ /\ worker'[c].turn = worker[c].turn
          /\ worker'[c].pc \in BeforeClaim \cup {"report"}
    /\ \A t \in Turn \ {worker[c].turn} : turn'[t] = turn[t]
    /\ \A t \in Turn :
          /\ turn'[t].conv = turn[t].conv /\ turn'[t].gen = turn[t].gen
          /\ turn'[t].ident = turn[t].ident /\ turn'[t].reason = turn[t].reason
          /\ \/ turn'[t].state = turn[t].state
             \/ turn[t].state = "queued" /\ turn'[t].state = "interrupted"

LEMMA EarlyGoes ==
    ASSUME IInv, NEW c \in Conv, NEW pc \in BeforeClaim \cup {"report"}, Goto(c, pc),
           worker[c].pc \in BeforeClaim, turn' = turn,
           UNCHANGED <<provider, active, pump, canceller, daemon>>
    PROVE  EarlyStep(c)
  BY DEF EarlyStep, Goto, IInv, TypeOK, Worker

LEMMA EarlyGivesUp ==
    ASSUME IInv, NEW c \in Conv, Release(c), worker[c].pc \in BeforeClaim, turn' = turn,
           UNCHANGED <<provider, active, pump, canceller, daemon>>
    PROVE  EarlyStep(c)
  BY DEF EarlyStep, Release, Idle, IInv, TypeOK

LEMMA EarlyEnds ==
    ASSUME IInv, TakenIsNotActive, NEW c \in Conv, Release(c) \/ Goto(c, "report"),
           worker[c].pc \in BeforeClaim,
           turn' = TerminalTurn(T(c), "interrupted"),
           UNCHANGED <<provider, active, pump, canceller, daemon>>
    PROVE  EarlyStep(c)
<1>. DEFINE t == worker[c].turn
<1>1. t \in Turn /\ turn[t] \in Row /\ turn[t].state # "absent" /\ ~Active(t)
  BY DEF IInv, TypeOK, WorkerHasTurn, TakenIsNotActive, BeforeClaim
<1>2. Ended(t) \/ turn[t].state = "queued"
  BY <1>1 DEF Ended, Active, Row, TurnState
<1>3. /\ \A u \in Turn \ {t} : turn'[u] = turn[u]
      /\ turn'[t].conv = turn[t].conv /\ turn'[t].gen = turn[t].gen
      /\ turn'[t].ident = turn[t].ident /\ turn'[t].reason = turn[t].reason
      /\ \/ turn'[t].state = turn[t].state
         \/ turn[t].state = "queued" /\ turn'[t].state = "interrupted"
  BY <1>1, <1>2 DEF TerminalTurn, T, IInv, TypeOK, Row
<1>4. \/ worker'[c].pc = "idle"
      \/ worker'[c].turn = t /\ worker'[c].pc = "report"
  BY DEF Release, Goto, Idle, IInv, TypeOK, Worker
<1>5. \A d \in Conv \ {c} : worker'[d] = worker[d]
  BY DEF Release, Goto, IInv, TypeOK
<1>. QED  BY <1>3, <1>4, <1>5 DEF EarlyStep

LEMMA EarlySteps ==
    ASSUME IInv, TakenIsNotActive, NEW c \in Conv,
           WorkerStep(c), worker[c].pc \in BeforeClaim, ~Claim(c)
    PROVE  EarlyStep(c)
<1>. USE DEF At, WorkerOnly
<1>0. /\ worker[c].pc # "idle" /\ worker[c].pc \notin Pc \ BeforeClaim /\ worker[c] \in Worker
      /\ AfterEnsure(c) \in BeforeClaim /\ AfterIdle(c) \in BeforeClaim
  BY DEF BeforeClaim, AfterEnsure, AfterIdle, IInv, TypeOK
<1>1. CASE EnsureLoaded(c)
  BY <1>0, <1>1 DEF EnsureLoaded, EarlyStep, rows, runtime, IInv, TypeOK, Worker
<1>2. CASE EnsureStart(c)
  BY <1>0, <1>2 DEF EnsureStart, EarlyStep, IInv, TypeOK, Worker, BeforeClaim
<1>3. CASE Booted(c)
  BY <1>0, <1>3, EarlyGoes DEF Booted
<1>4. CASE BootFails(c)
  BY <1>0, <1>4, EarlyGivesUp, EarlyEnds DEF BootFails, GiveUpEnsure
<1>5. CASE EnsureRefused(c)
  BY <1>0, <1>5, EarlyGivesUp, EarlyEnds DEF EnsureRefused, GiveUpEnsure, runtime
<1>6. CASE Thread(c)
  <2>1. CASE conv[c].rev = NoRev
    BY <1>0, <1>6, <2>1, EarlyGoes DEF Thread, runtime, BeforeClaim
  <2>2. CASE conv[c].rev # NoRev
    BY <1>0, <1>6, <2>2 DEF Thread, EarlyStep, runtime, IInv, TypeOK, Worker, BeforeClaim
  <2>. QED  BY <2>1, <2>2
<1>7. CASE StartThread(c)
  BY <1>0, <1>7, EarlyGoes DEF StartThread, rows, runtime, BeforeClaim
<1>8. CASE StartThreadRejected(c)
  BY <1>0, <1>8, EarlyEnds DEF StartThreadRejected, runtime
<1>9. CASE StartThreadUnknown(c)
  BY <1>0, <1>9, EarlyEnds DEF StartThreadUnknown, runtime
<1>10. CASE ActivateNew(c)
  BY <1>0, <1>10 DEF ActivateNew, EarlyStep, runtime, IInv, TypeOK, Worker, BeforeClaim
<1>11. CASE Attach(c)
  <2>1. worker'[c].pc = "unbarNew" /\ worker'[c].turn = worker[c].turn
    BY <1>0, <1>11 DEF Attach, Goto, Worker, IInv, TypeOK
  <2>2. \A d \in Conv \ {c} : worker'[d] = worker[d]
    BY <1>0, <1>11 DEF Attach, Goto, IInv, TypeOK
  <2>3. /\ \A t \in Turn \ {worker[c].turn} : turn'[t] = turn[t]
        /\ \A t \in Turn :
              /\ turn'[t].conv = turn[t].conv /\ turn'[t].gen = turn[t].gen
              /\ turn'[t].ident = turn[t].ident /\ turn'[t].reason = turn[t].reason
              /\ turn'[t].state = turn[t].state
    BY <1>11 DEF Attach, T, IInv, TypeOK, Row
  <2>. QED  BY <1>0, <1>11, <2>1, <2>2, <2>3 DEF Attach, EarlyStep, runtime, BeforeClaim
<1>12. CASE AttachFails(c)
  BY <1>0, <1>12, EarlyEnds DEF AttachFails, runtime
<1>13. CASE Unbar(c)
  BY <1>0, <1>13, EarlyGoes DEF Unbar, runtime, BeforeClaim
<1>14. CASE ReadIdle(c)
  BY <1>0, <1>14, EarlyGoes DEF ReadIdle, rows, runtime
<1>15. CASE ReadReloaded(c)
  BY <1>0, <1>15, EarlyGoes DEF ReadReloaded, rows, runtime, BeforeClaim
<1>16. CASE ReadActive(c)
  BY <1>0, <1>16, EarlyGoes DEF ReadActive, rows, runtime, BeforeClaim
<1>17. CASE ReadSystemError(c)
  BY <1>0, <1>17, EarlyGoes DEF ReadSystemError, rows, runtime, BeforeClaim
<1>18. CASE ReadMismatch(c)
  BY <1>0, <1>18, EarlyEnds DEF ReadMismatch, runtime
<1>19. CASE ReadFails(c)
  BY <1>0, <1>19, EarlyEnds DEF ReadFails, runtime
<1>20. CASE Bar(c)
  BY <1>0, <1>20, EarlyGivesUp, EarlyEnds DEF Bar, GiveUpRecovery, runtime
<1>21. CASE Activate(c)
  BY <1>0, <1>21, EarlyGoes DEF Activate, runtime, BeforeClaim
<1>22. CASE Recover(c)
  BY <1>0, <1>22, EarlyGoes, EarlyEnds DEF Recover, runtime, BeforeClaim
<1>23. CASE Retire(c)
  BY <1>0, <1>23, EarlyGoes DEF Retire, BeforeClaim
<1>24. ASSUME NEW n, worker' = [worker EXCEPT ![c].pc = "ensure", ![c].tries = n],
              turn' = turn, UNCHANGED <<provider, active, pump, canceller, daemon>>
       PROVE  EarlyStep(c)
  BY <1>0, <1>24 DEF EarlyStep, IInv, TypeOK, Worker, BeforeClaim
<1>25. CASE RetireStale(c)
  <2>1. CASE worker[c].tries = 0
    BY <1>24, <1>25, <2>1 DEF RetireStale, runtime
  <2>2. CASE worker[c].tries # 0
    BY <1>0, <1>25, <2>2, EarlyGivesUp, EarlyEnds DEF RetireStale, GiveUpRecovery, runtime
  <2>. QED  BY <2>1, <2>2
<1>26. CASE RetireClose(c)
  <2>1. CASE worker[c].tries < 2
    <3>1. worker' = [worker EXCEPT ![c].pc = "ensure", ![c].tries = worker[c].tries + 1]
      BY <1>26, <2>1 DEF RetireClose
    <3>. QED  BY <1>24, <1>26, <2>1, <3>1 DEF RetireClose
  <2>2. CASE ~(worker[c].tries < 2)
    BY <1>0, <1>26, <2>2, EarlyGivesUp, EarlyEnds DEF RetireClose, GiveUpRecovery
  <2>. QED  BY <2>1, <2>2
<1>27. CASE ResumeIdle(c)
  BY <1>0, <1>27, EarlyGoes DEF ResumeIdle, rows, runtime, BeforeClaim
<1>28. CASE ResumeSystemError(c)
  BY <1>0, <1>28, EarlyGoes DEF ResumeSystemError, rows, runtime, BeforeClaim
<1>29. CASE ClaimFails(c)
  BY <1>0, <1>29, EarlyGivesUp DEF ClaimFails, rows, runtime
<1>30. CASE EffectFails(c)
  BY <1>0, <1>30, EarlyGivesUp DEF EffectFails, runtime
<1>31. CASE QueuedFails(c)
  BY <1>0, <1>31, EarlyGivesUp DEF QueuedFails, rows, runtime
<1>. QED
  BY <1>0, <1>1, <1>2, <1>3, <1>4, <1>5, <1>6, <1>7, <1>8, <1>9, <1>10, <1>11, <1>12,
     <1>13, <1>14, <1>15, <1>16, <1>17, <1>18, <1>19, <1>20, <1>21, <1>22, <1>23,
     <1>25, <1>26, <1>27, <1>28, <1>29, <1>30, <1>31
     DEF WorkerStep, BeforeClaim, Pick, RefuseBlocked, Load, LoadFails,
         LoadForShutdown, Start, StartMismatch, StartRefused, RuntimeUnavailable,
         InputFails, Started, StartedFails, MarkRunning, MarkFails, Abandon, Register,
         Recheck, WorkerClaimInterrupt, WorkerSendInterrupt, WatchFails, AwaitDone,
         AwaitFailed, AwaitJournal, Report, ReportFails, ReportStale, Close

-----------------------------------------------------------------------------
(* What the transactions on the rows leave alone. *)

\* The columns a step on the state of a Turn does not write.
SameColumns(t) ==
    /\ turn'[t].conv = turn[t].conv /\ turn'[t].rev = turn[t].rev
    /\ turn'[t].gen = turn[t].gen /\ turn'[t].ident = turn[t].ident
    /\ turn'[t].source = turn[t].source

LEMMA TerminalTurnColumns ==
    ASSUME TypeOK, NEW t, NEW s, turn' = TerminalTurn(t, s)
    PROVE  \A u \in Turn :
              /\ SameColumns(u) /\ turn'[u].reason = turn[u].reason
              /\ turn'[u].state = IF u = t /\ ~Ended(t) THEN s ELSE turn[u].state
              /\ u # t => turn'[u] = turn[u]
  BY DEF TypeOK, Row, TerminalTurn, SameColumns

LEMMA RequestCancelColumns ==
    ASSUME TypeOK, NEW t, NEW o, turn' = RequestCancel(t, o)
    PROVE  \A u \in Turn :
              /\ SameColumns(u)
              /\ turn'[u].state = IF u # t \/ Ended(t) THEN turn[u].state
                                  ELSE IF turn[t].state = "queued" THEN "cancelled"
                                  ELSE "cancelling"
              /\ u # t => turn'[u] = turn[u]
<1>. SUFFICES ASSUME NEW u \in Turn
              PROVE  /\ SameColumns(u)
                     /\ turn'[u].state = IF u # t \/ Ended(t) THEN turn[u].state
                                         ELSE IF turn[t].state = "queued" THEN "cancelled"
                                         ELSE "cancelling"
                     /\ u # t => turn'[u] = turn[u]
  OBVIOUS
<1>1. CASE Ended(t)
  BY <1>1 DEF TypeOK, Row, RequestCancel, SameColumns
<1>2. CASE ~Ended(t) /\ turn[t].state = "queued"
  BY <1>2 DEF TypeOK, Row, RequestCancel, SameColumns
<1>3. CASE ~Ended(t) /\ turn[t].state # "queued"
  BY <1>3 DEF TypeOK, Row, RequestCancel, SameColumns
<1>. QED  BY <1>1, <1>2, <1>3

LEMMA InterruptAllColumns ==
    ASSUME TypeOK, NEW X, NEW o, turn' = InterruptAll(X, o)
    PROVE  \A u \in Turn :
              /\ SameColumns(u) /\ turn'[u].reason = turn[u].reason
              /\ turn'[u].state = IF u \in X THEN "interrupted" ELSE turn[u].state
              /\ u \notin X => turn'[u] = turn[u]
  BY ZenonT(60) DEF TypeOK, Row, InterruptAll, SameColumns

LEMMA InterruptColumns ==
    ASSUME TypeOK, NEW t, ClaimInterrupt(t) \/ SendInterrupt(t)
    PROVE  \A u \in Turn :
              /\ SameColumns(u) /\ turn'[u].state = turn[u].state
              /\ u # t => turn'[u] = turn[u]
  BY DEF TypeOK, Row, ClaimInterrupt, SendInterrupt, SameColumns

LEMMA PumpColumns ==
    ASSUME TypeOK, NEW t, NEW s, NEW r, PumpStep(t, s, r)
    PROVE  \A u \in Turn :
              /\ SameColumns(u) /\ turn'[u].reason = turn[u].reason
              /\ turn'[u].state = IF u = t /\ Recordable(t) THEN s ELSE turn[u].state
              /\ u # t => turn'[u] = turn[u]
  BY DEF TypeOK, Row, PumpStep, SameColumns

-----------------------------------------------------------------------------
(* Provider turns: who starts them, and who says that one is completed. *)

\* Where a worker is until the answer of turn/start.
BeforeStart == BeforeClaim \cup {"load", "start"}

\* The provider and the pumps know nothing of a Turn that was not claimed, ...
UnclaimedIsNotStarted ==
    \A t \in Turn :
       turn[t].state \in {"absent", "queued"} => provider[t] = "none" /\ pump[t] = "off"

\* ... nor the provider of one whose worker has not come to turn/start.
StartedOnce ==
    \A c \in Conv : worker[c].pc \in BeforeStart => provider[worker[c].turn] = "none"

\* Turns are started once, by the worker that claimed them, and what has been
\* reported as completed is so at the provider.
ProviderInv ==
    /\ TakenIsNotActive
    /\ UnclaimedIsNotStarted
    /\ StartedOnce
    /\ CompletedByProvider

\* How a step may change a row, its provider turn and its pump, and a worker
\* that has not come to turn/start.
RowMoves(t) ==
    /\ turn[t].state # "absent" => turn'[t].conv = turn[t].conv
    /\ \/ turn'[t].state = turn[t].state
       \/ turn'[t].state \in Terminal \ {"completed"}
       \/ turn'[t].state \in {"running", "cancelling"} /\ Active(t)
       \/ turn'[t].state = "completed" /\ provider[t] = "completed"
       \/ turn'[t].state = "queued" /\ turn[t].state = "absent"
       \/ /\ turn'[t].state = "starting"
          /\ \E c \in Conv : worker[c].turn = t /\ worker[c].pc \in BeforeClaim
                             /\ worker'[c].pc = "load"

\* A provider turn is started by the worker that has claimed it, and ends while
\* its app-server lives.
ProviderMoves(t) ==
    \/ provider'[t] = provider[t]
    \/ /\ provider[t] \in {"live", "stopping"} /\ turn[t].gen \in alive
       /\ provider'[t] \in {"stopping"} \cup ProviderEnd
    \/ /\ provider'[t] = "live"
       /\ \E c \in Conv : worker[c].turn = t /\ worker[c].pc = "start"
                          /\ worker'[c].pc \notin BeforeStart

\* A pump is started by the worker that has marked the turn running, and lost
\* with the worker that claimed it.
PumpMoves(t) ==
    \/ pump'[t] \in {pump[t], "off"}
    \/ pump[t] = "on"
    \/ \E c \in Conv : worker[c].turn = t /\ worker[c].pc = "mark"
    \/ \E c \in Conv : /\ worker[c].turn = t
                      /\ worker[c].pc \notin BeforeClaim \cup {"idle"}

\* A worker that has not come to turn/start keeps its turn or takes a queued one.
WorkerMoves(c) ==
    \/ worker'[c].pc \notin BeforeStart
    \/ worker'[c] = worker[c]
    \/ /\ worker'[c].turn = worker[c].turn /\ worker[c].pc \in BeforeStart
       /\ worker'[c].pc \in BeforeClaim => worker[c].pc \in BeforeClaim
    \/ turn[worker'[c].turn].state = "queued"

Moves ==
    /\ \A t \in Turn : RowMoves(t) /\ ProviderMoves(t) /\ PumpMoves(t)
    /\ \A c \in Conv : WorkerMoves(c)

LEMMA MovesKeepProviderInv ==
    ASSUME IInv, IInv', ProviderInv, Moves
    PROVE  ProviderInv'
<1>0. \A t \in Turn : provider[t] = "completed" => provider'[t] = "completed"
  <2>1. SUFFICES ASSUME NEW t \in Turn, provider[t] = "completed"
                 PROVE  provider'[t] = "completed"
    OBVIOUS
  <2>2. \A c \in Conv : worker[c].turn = t => worker[c].pc # "start"
    BY <2>1 DEF ProviderInv, StartedOnce, BeforeStart
  <2>. QED  BY <2>1, <2>2 DEF Moves, ProviderMoves
<1>1. CompletedByProvider'
  BY <1>0 DEF ProviderInv, CompletedByProvider, Moves, RowMoves, Terminal
<1>2. \A c, d \in Conv :
         worker[c].pc # "idle" /\ worker[d].pc # "idle" /\ worker[c].turn = worker[d].turn
         => c = d
  BY DEF IInv, WorkerHasTurn
<1>3. TakenIsNotActive'
  <2>1. SUFFICES ASSUME NEW c \in Conv, worker'[c].pc \in BeforeClaim
                 PROVE  turn'[worker'[c].turn].state \notin ActiveState
    BY DEF TakenIsNotActive, Active
  <2>. DEFINE t == worker'[c].turn
  <2>2. t \in Turn /\ turn'[t].conv = c
    BY <2>1 DEF IInv, WorkerHasTurn, BeforeClaim
  <2>3. /\ ~Active(t)
        /\ \/ turn[t].state = "queued"
           \/ worker[c].turn = t /\ worker[c].pc \in BeforeClaim
    BY <2>1, <2>2 DEF Moves, WorkerMoves, BeforeStart, BeforeClaim, ProviderInv,
                      TakenIsNotActive, Active, ActiveState
  <2>4. \A d \in Conv : worker[d].turn = t /\ worker[d].pc \in BeforeClaim => d = c
    <3>1. turn[t].state # "absent"
      BY <2>3 DEF IInv, WorkerHasTurn, BeforeClaim
    <3>2. turn[t].conv = c
      BY <2>2, <3>1 DEF Moves, RowMoves
    <3>. QED  BY <3>2 DEF BeforeClaim, IInv, WorkerHasTurn
  <2>. QED
    BY <2>1, <2>2, <2>3, <2>4 DEF Moves, RowMoves, ActiveState, Active, Terminal, BeforeClaim
<1>4. UnclaimedIsNotStarted'
  <2>1. SUFFICES ASSUME NEW t \in Turn, turn'[t].state \in {"absent", "queued"}
                 PROVE  provider'[t] = "none" /\ pump'[t] = "off"
    BY DEF UnclaimedIsNotStarted
  <2>2. turn[t].state \in {"absent", "queued"}
    BY <2>1 DEF Moves, RowMoves, Terminal
  <2>3. \A c \in Conv : worker[c].turn = t => worker[c].pc \in BeforeClaim \cup {"idle"}
    BY <2>2 DEF IInv, WorkerHasTurn, ClaimedIsNotQueued
  <2>. QED
    BY <2>2, <2>3 DEF ProviderInv, UnclaimedIsNotStarted, Moves, ProviderMoves, PumpMoves,
                      BeforeClaim
<1>5. StartedOnce'
  <2>1. SUFFICES ASSUME NEW c \in Conv, worker'[c].pc \in BeforeStart
                 PROVE  provider'[worker'[c].turn] = "none"
    BY DEF StartedOnce
  <2>. DEFINE t == worker'[c].turn
  <2>2. t \in Turn
    BY <2>1 DEF IInv, WorkerHasTurn, BeforeStart, BeforeClaim
  <2>3. /\ provider[t] = "none"
        /\ \/ turn[t].state = "queued"
           \/ worker[c].turn = t /\ worker[c].pc \in BeforeStart
    BY <2>1, <2>2 DEF Moves, WorkerMoves, ProviderInv, StartedOnce, UnclaimedIsNotStarted
  <2>4. \A d \in Conv : worker[d].turn = t /\ worker[d].pc = "start" => d = c
    BY <2>3, <1>2 DEF BeforeStart, BeforeClaim, IInv, ClaimedIsNotQueued
  <2>. QED  BY <2>1, <2>2, <2>3, <2>4 DEF Moves, ProviderMoves
<1>. QED  BY <1>1, <1>3, <1>4, <1>5 DEF ProviderInv

LEMMA GotoColumns ==
    ASSUME IInv, NEW c \in Conv, NEW pc, Goto(c, pc)
    PROVE  /\ worker'[c].pc = pc /\ worker'[c].turn = worker[c].turn
           /\ worker'[c].gen = worker[c].gen /\ worker'[c].rev = worker[c].rev
           /\ worker'[c].tries = worker[c].tries
           /\ \A d \in Conv \ {c} : worker'[d] = worker[d]
  BY DEF Goto, IInv, TypeOK, Worker

LEMMA ReleaseColumns ==
    ASSUME IInv, NEW c \in Conv, Release(c)
    PROVE  /\ worker'[c].pc = "idle" /\ worker'[c].tries = 0 /\ worker'[c].rev = NoRev
           /\ \A d \in Conv \ {c} : worker'[d] = worker[d]
  BY DEF Release, Idle, IInv, TypeOK

LEMMA RowsMove ==
    ASSUME TypeOK,
           \/ turn' = turn
           \/ \E t \in Turn, s \in {"interrupted", "failed"} : turn' = TerminalTurn(t, s)
           \/ \E t \in Turn, o \in Origin : turn[t].state # "absent" /\ turn' = RequestCancel(t, o)
           \/ \E X \in SUBSET Turn, o \in Origin : turn' = InterruptAll(X, o)
           \/ \E t \in 0..MaxTurn : ClaimInterrupt(t) \/ SendInterrupt(t)
    PROVE  \A t \in Turn : RowMoves(t)
<1>. USE DEF RowMoves, Terminal
<1>1. CASE turn' = turn
  BY <1>1
<1>2. ASSUME NEW t \in Turn, NEW s \in {"interrupted", "failed"}, turn' = TerminalTurn(t, s)
      PROVE  \A u \in Turn : RowMoves(u)
  BY <1>2, TerminalTurnColumns DEF SameColumns
<1>3. ASSUME NEW t \in Turn, NEW o \in Origin, turn[t].state # "absent",
             turn' = RequestCancel(t, o)
      PROVE  \A u \in Turn : RowMoves(u)
  <2>1. turn[t].state = "queued" \/ Ended(t) \/ Active(t)
    BY <1>3 DEF TypeOK, Row, TurnState, Ended, Active
  <2>. QED  BY <1>3, <2>1, RequestCancelColumns DEF SameColumns
<1>4. ASSUME NEW X \in SUBSET Turn, NEW o \in Origin, turn' = InterruptAll(X, o)
      PROVE  \A u \in Turn : RowMoves(u)
  BY <1>4, InterruptAllColumns DEF SameColumns
<1>5. ASSUME NEW t \in 0..MaxTurn, ClaimInterrupt(t) \/ SendInterrupt(t)
      PROVE  \A u \in Turn : RowMoves(u)
  BY <1>5, InterruptColumns DEF SameColumns
<1>. QED  BY <1>1, <1>2, <1>3, <1>4, <1>5

LEMMA ProvidersMove ==
    ASSUME TypeOK,
           \/ provider' = provider
           \/ \E t \in 0..MaxTurn, e \in {"stopping"} \cup ProviderEnd :
                 ProviderRuns(t) /\ provider' = [provider EXCEPT ![t] = e]
    PROVE  \A t \in Turn : ProviderMoves(t)
  BY DEF ProviderMoves, ProviderRuns, TypeOK

LEMMA ProviderStarts ==
    ASSUME TypeOK, NEW c \in Conv, worker[c].pc = "start", worker'[c].pc \notin BeforeStart,
           \/ provider' = provider
           \/ provider' = [provider EXCEPT ![worker[c].turn] = "live"]
    PROVE  \A t \in Turn : ProviderMoves(t)
  BY DEF ProviderMoves, TypeOK

LEMMA EarlyMoves ==
    ASSUME IInv, NEW c \in Conv, EarlyStep(c)
    PROVE  Moves
  BY DEF EarlyStep, Moves, RowMoves, ProviderMoves, PumpMoves, WorkerMoves,
         BeforeStart, BeforeClaim, Terminal

LEMMA LateMoves ==
    ASSUME IInv, NEW c \in Conv, WorkerStep(c), worker[c].pc \notin BeforeClaim \cup {"idle"}
    PROVE  Moves
<1>. DEFINE t == worker[c].turn
<1>0. /\ TypeOK /\ t \in Turn /\ t \in 0..MaxTurn /\ turn[t].state # "absent" /\ T(c) = t
      /\ worker[c].pc \in Pc \ (BeforeClaim \cup {"idle"})
      /\ {"shutdown", "runtime"} \subseteq Origin
  BY DEF IInv, WorkerHasTurn, T, TypeOK, Worker, Origin, Turn
<1>. USE DEF At, WorkerOnly
<1>1. ASSUME NEW pc, Goto(c, pc) \/ Release(c), pc \notin BeforeClaim,
             pc \in BeforeStart => worker[c].pc \in BeforeStart
      PROVE  \A d \in Conv : WorkerMoves(d)
  BY <1>1, GotoColumns, ReleaseColumns DEF WorkerMoves, BeforeStart, BeforeClaim
<1>2. CASE Load(c)
  <2>1. \A d \in Conv : WorkerMoves(d)
    BY <1>1, <1>2 DEF Load, BeforeStart, BeforeClaim, rows
  <2>. QED
    BY <1>0, <1>2, <2>1, RowsMove
       DEF Load, rows, runtime, Moves, ProviderMoves, PumpMoves
<1>3. CASE LoadFails(c)
  <2>1. \A d \in Conv : WorkerMoves(d)
    BY <1>1, <1>3 DEF LoadFails, BeforeStart, BeforeClaim, rows
  <2>. QED
    BY <1>0, <1>3, <2>1, RowsMove
       DEF LoadFails, rows, runtime, Moves, ProviderMoves, PumpMoves
<1>4. CASE LoadForShutdown(c)
  <2>1. \A d \in Conv : WorkerMoves(d)
    BY <1>1, <1>4 DEF LoadForShutdown, BeforeStart, BeforeClaim, rows
  <2>2. \A u \in Turn : RowMoves(u)
    <3>1. {t} \in SUBSET Turn
      BY <1>0
    <3>2. turn' = turn \/ turn' = InterruptAll({t}, "shutdown")
      BY <1>0, <1>4 DEF LoadForShutdown
    <3>. QED  BY <1>0, <3>1, <3>2, RowsMove
  <2>4. \A u \in Turn : ProviderMoves(u)
    BY <1>0, <1>4, ProvidersMove DEF LoadForShutdown, runtime
  <2>. QED
    BY <1>0, <1>4, <2>1, <2>2, <2>4 DEF LoadForShutdown, Moves, PumpMoves, TypeOK
<1>5. CASE Start(c)
  <2>1. \A d \in Conv : WorkerMoves(d)
    BY <1>1, <1>5 DEF Start, BeforeStart, BeforeClaim, rows, StartAccepted
  <2>2. \A u \in Turn : RowMoves(u)
    BY <1>0, <1>5, RowsMove DEF Start, rows, StartAccepted
  <2>3. worker'[c].pc \notin BeforeStart
    BY <1>5, GotoColumns, ReleaseColumns DEF Start, BeforeStart, BeforeClaim, StartAccepted
  <2>4. \A u \in Turn : ProviderMoves(u)
    BY <1>0, <1>5, <2>3, ProviderStarts DEF Start, StartAccepted
  <2>. QED
    BY <1>0, <1>5, <2>1, <2>2, <2>4 DEF Start, Moves, PumpMoves, TypeOK, StartAccepted
<1>6. CASE StartMismatch(c)
  <2>1. \A d \in Conv : WorkerMoves(d)
    BY <1>1, <1>6 DEF StartMismatch, BeforeStart, BeforeClaim, rows, StartAccepted
  <2>2. \A u \in Turn : RowMoves(u)
    BY <1>0, <1>6, RowsMove DEF StartMismatch, rows, StartAccepted
  <2>3. worker'[c].pc \notin BeforeStart
    BY <1>6, GotoColumns, ReleaseColumns DEF StartMismatch, BeforeStart, BeforeClaim, StartAccepted
  <2>4. \A u \in Turn : ProviderMoves(u)
    BY <1>0, <1>6, <2>3, ProviderStarts DEF StartMismatch, StartAccepted
  <2>. QED
    BY <1>0, <1>6, <2>1, <2>2, <2>4 DEF StartMismatch, Moves, PumpMoves, TypeOK, StartAccepted
<1>7. CASE StartRefused(c)
  <2>1. \A d \in Conv : WorkerMoves(d)
    BY <1>1, <1>7 DEF StartRefused, BeforeStart, BeforeClaim, rows, NotStarted
  <2>2. \A u \in Turn : RowMoves(u)
    BY <1>0, <1>7, RowsMove DEF StartRefused, rows, NotStarted
  <2>3. worker'[c].pc \notin BeforeStart
    BY <1>7, GotoColumns, ReleaseColumns DEF StartRefused, BeforeStart, BeforeClaim, NotStarted
  <2>4. \A u \in Turn : ProviderMoves(u)
    BY <1>0, <1>7, <2>3, ProviderStarts DEF StartRefused, NotStarted
  <2>. QED
    BY <1>0, <1>7, <2>1, <2>2, <2>4 DEF StartRefused, Moves, PumpMoves, TypeOK
<1>8. CASE RuntimeUnavailable(c)
  <2>1. \A d \in Conv : WorkerMoves(d)
    BY <1>1, <1>8 DEF RuntimeUnavailable, BeforeStart, BeforeClaim, rows, NotStarted
  <2>2. \A u \in Turn : RowMoves(u)
    BY <1>0, <1>8, RowsMove DEF RuntimeUnavailable, rows, NotStarted
  <2>3. worker'[c].pc \notin BeforeStart
    BY <1>8, GotoColumns DEF RuntimeUnavailable, BeforeStart, BeforeClaim, NotStarted
  <2>4. \A u \in Turn : ProviderMoves(u)
    BY <1>0, <1>8, <2>3, ProviderStarts, ProvidersMove DEF RuntimeUnavailable, NotStarted
  <2>. QED
    BY <1>0, <1>8, <2>1, <2>2, <2>4 DEF RuntimeUnavailable, Moves, PumpMoves, TypeOK
<1>9. CASE Started(c)
  <2>1. \A d \in Conv : WorkerMoves(d)
    BY <1>1, <1>9 DEF Started, BeforeStart, BeforeClaim, rows
  <2>2. \A u \in Turn : RowMoves(u)
    BY <1>0, <1>9, RowsMove DEF Started, rows
  <2>4. \A u \in Turn : ProviderMoves(u)
    BY <1>0, <1>9, ProvidersMove DEF Started, runtime
  <2>. QED
    BY <1>0, <1>9, <2>1, <2>2, <2>4 DEF Started, Moves, PumpMoves, TypeOK
<1>10. CASE MarkRunning(c)
  <2>1. \A d \in Conv : WorkerMoves(d)
    BY <1>1, <1>10 DEF MarkRunning, BeforeStart, BeforeClaim, rows
  <2>2. \A u \in Turn : RowMoves(u)
    BY <1>0, <1>10 DEF MarkRunning, RowMoves, Active, ActiveState, TypeOK, Row
  <2>4. \A u \in Turn : ProviderMoves(u)
    BY <1>0, <1>10, ProvidersMove DEF MarkRunning, runtime
  <2>. QED
    BY <1>0, <1>10, <2>1, <2>2, <2>4 DEF MarkRunning, Moves, PumpMoves, TypeOK
<1>11. CASE MarkFails(c)
  <2>1. \A d \in Conv : WorkerMoves(d)
    BY <1>1, <1>11 DEF MarkFails, BeforeStart, BeforeClaim, rows
  <2>. QED
    BY <1>0, <1>11, <2>1, RowsMove
       DEF MarkFails, rows, runtime, Moves, ProviderMoves, PumpMoves
<1>12. CASE Abandon(c)
  <2>1. \A d \in Conv : WorkerMoves(d)
    BY <1>1, <1>12 DEF Abandon, BeforeStart, BeforeClaim, rows, Interrupted
  <2>2. \A u \in Turn : RowMoves(u)
    BY <1>0, <1>12, RowsMove DEF Abandon, rows, Interrupted
  <2>4. \A u \in Turn : ProviderMoves(u)
    BY <1>0, <1>12, ProvidersMove DEF Abandon, runtime, Interrupted
  <2>. QED
    BY <1>0, <1>12, <2>1, <2>2, <2>4 DEF Abandon, Moves, PumpMoves, TypeOK
<1>13. CASE Register(c)
  <2>1. \A d \in Conv : WorkerMoves(d)
    BY <1>1, <1>13 DEF Register, BeforeStart, BeforeClaim, rows
  <2>. QED
    BY <1>0, <1>13, <2>1, RowsMove
       DEF Register, rows, runtime, Moves, ProviderMoves, PumpMoves
<1>14. CASE Recheck(c)
  <2>1. \A d \in Conv : WorkerMoves(d)
    BY <1>1, <1>14 DEF Recheck, BeforeStart, BeforeClaim, rows
  <2>. QED
    BY <1>0, <1>14, <2>1, RowsMove
       DEF Recheck, rows, runtime, Moves, ProviderMoves, PumpMoves
<1>15. CASE WorkerClaimInterrupt(c)
  <2>1. \A d \in Conv : WorkerMoves(d)
    BY <1>1, <1>15 DEF WorkerClaimInterrupt, BeforeStart, BeforeClaim, rows
  <2>. QED
    BY <1>0, <1>15, <2>1, RowsMove
       DEF WorkerClaimInterrupt, rows, runtime, Moves, ProviderMoves, PumpMoves
<1>16. CASE WorkerSendInterrupt(c)
  <2>1. \A d \in Conv : WorkerMoves(d)
    BY <1>1, <1>16 DEF WorkerSendInterrupt, BeforeStart, BeforeClaim, rows, SendInterrupt
  <2>2. \A u \in Turn : RowMoves(u)
    BY <1>0, <1>16, RowsMove DEF WorkerSendInterrupt, rows
  <2>4. \A u \in Turn : ProviderMoves(u)
    BY <1>0, <1>16, ProvidersMove DEF WorkerSendInterrupt, runtime, SendInterrupt
  <2>. QED
    BY <1>0, <1>16, <2>1, <2>2, <2>4 DEF WorkerSendInterrupt, Moves, PumpMoves, TypeOK
<1>17. CASE AwaitDone(c)
  <2>1. \A d \in Conv : WorkerMoves(d)
    BY <1>1, <1>17 DEF AwaitDone, BeforeStart, BeforeClaim, rows, Finish
  <2>. QED
    BY <1>0, <1>17, <2>1, RowsMove
       DEF AwaitDone, rows, runtime, Moves, ProviderMoves, PumpMoves, Finish
<1>18. CASE AwaitFailed(c)
  <2>1. \A d \in Conv : WorkerMoves(d)
    BY <1>1, <1>18 DEF AwaitFailed, BeforeStart, BeforeClaim, rows
  <2>. QED
    BY <1>0, <1>18, <2>1, RowsMove
       DEF AwaitFailed, rows, runtime, Moves, ProviderMoves, PumpMoves
<1>19. CASE AwaitJournal(c)
  <2>1. \A d \in Conv : WorkerMoves(d)
    BY <1>1, <1>19 DEF AwaitJournal, BeforeStart, BeforeClaim, rows, Finish, Interrupted
  <2>2. \A u \in Turn : RowMoves(u)
    BY <1>0, <1>19, RowsMove DEF AwaitJournal, rows, Finish, Interrupted
  <2>4. \A u \in Turn : ProviderMoves(u)
    BY <1>0, <1>19, ProvidersMove DEF AwaitJournal, runtime, Finish, Interrupted
  <2>. QED
    BY <1>0, <1>19, <2>1, <2>2, <2>4 DEF AwaitJournal, Moves, PumpMoves, TypeOK
<1>20. CASE Report(c)
  <2>1. \A d \in Conv : WorkerMoves(d)
    BY <1>1, <1>20 DEF Report, BeforeStart, BeforeClaim, rows
  <2>2. \A u \in Turn : RowMoves(u)
    <3>1. ActiveOn(G(c)) \in SUBSET Turn
      BY DEF ActiveOn
    <3>2. turn' = InterruptAll(ActiveOn(G(c)), "runtime")
      BY <1>20 DEF Report, MarkUnhealthy
    <3>. QED  BY <1>0, <3>1, <3>2, RowsMove
  <2>4. \A u \in Turn : ProviderMoves(u)
    BY <1>0, <1>20, ProvidersMove DEF Report, runtime
  <2>. QED
    BY <1>0, <1>20, <2>1, <2>2, <2>4 DEF Report, Moves, PumpMoves, TypeOK
<1>21. CASE ReportStale(c)
  <2>1. \A d \in Conv : WorkerMoves(d)
    BY <1>1, <1>21 DEF ReportStale, BeforeStart, BeforeClaim, rows, Finish
  <2>. QED
    BY <1>0, <1>21, <2>1, RowsMove
       DEF ReportStale, rows, runtime, Moves, ProviderMoves, PumpMoves, Finish
<1>22. CASE Close(c)
  <2>1. \A d \in Conv : WorkerMoves(d)
    BY <1>1, <1>22 DEF Close, BeforeStart, BeforeClaim, rows, Finish, CloseProcess
  <2>. QED
    BY <1>0, <1>22, <2>1, RowsMove
       DEF Close, rows, runtime, Moves, ProviderMoves, PumpMoves, Finish, CloseProcess
<1>23. ASSUME Lose(c)  PROVE \A u \in Turn : PumpMoves(u)
  <2>1. pump' = [pump EXCEPT ![t] = "lost"]
    BY <1>0, <1>23 DEF Lose
  <2>2. \A u \in Turn \ {t} : pump'[u] = pump[u]
    BY <1>0, <2>1 DEF TypeOK
  <2>. QED  BY <1>0, <2>2 DEF PumpMoves, BeforeClaim
<1>24. ASSUME Lose(c)  PROVE worker'[c].pc = "idle" /\ \A d \in Conv : WorkerMoves(d)
  BY <1>1, <1>24, ReleaseColumns DEF Lose, Finish, BeforeStart, BeforeClaim
<1>25. CASE InputFails(c)
  <2>1. Lose(c) /\ turn' = turn
    BY <1>25 DEF InputFails, rows
  <2>2. \A u \in Turn : ProviderMoves(u)
    BY <1>0, <1>24, <1>25, <2>1, ProviderStarts, ProvidersMove
       DEF InputFails, NotStarted, BeforeStart, BeforeClaim
  <2>. QED  BY <1>0, <1>23, <1>24, <2>1, <2>2, RowsMove DEF Moves
<1>26. CASE StartedFails(c)
  BY <1>0, <1>23, <1>24, <1>26, RowsMove, ProvidersMove
     DEF StartedFails, rows, runtime, Moves
<1>27. CASE WatchFails(c)
  <2>1. \A u \in Turn : RowMoves(u)
    BY <1>0, <1>27, RowsMove DEF WatchFails
  <2>2. \A u \in Turn : ProviderMoves(u)
    BY <1>0, <1>27, ProvidersMove DEF WatchFails, SendInterrupt, Interrupted
  <2>. QED  BY <1>23, <1>24, <1>27, <2>1, <2>2 DEF WatchFails, Moves
<1>28. CASE ReportFails(c)
  BY <1>0, <1>23, <1>24, <1>28, RowsMove, ProvidersMove
     DEF ReportFails, rows, runtime, Moves
<1>. QED
  BY <1>0, <1>2, <1>3, <1>4, <1>5, <1>6, <1>7, <1>8, <1>9, <1>10, <1>11, <1>12, <1>13, <1>14, <1>15, <1>16, <1>17, <1>18, <1>19, <1>20, <1>21, <1>22, <1>25, <1>26, <1>27, <1>28
     DEF WorkerStep, Pick, RefuseBlocked, EnsureLoaded, EnsureStart, Booted, BootFails,
         EnsureRefused, Thread, StartThread, StartThreadRejected, StartThreadUnknown,
         ActivateNew, Attach, AttachFails, Unbar, ReadIdle, ReadReloaded, ReadActive,
         ReadSystemError, ReadMismatch, ReadFails, Bar, Activate, Recover, Retire,
         RetireStale, RetireClose, ResumeIdle, ResumeSystemError, Claim, ClaimFails,
         EffectFails, QueuedFails, BeforeClaim

LEMMA OthersMove ==
    ASSUME IInv,
           \/ \E c \in Conv : RefuseBlocked(c) \/ Pick(c) \/ Claim(c)
           \/ \E c \in Conv : MonitorStep(c) \/ Clear(c) \/ Compact(c)
           \/ \E c \in Conv, s \in Source : Enqueue(c, s)
           \/ \E u \in Canceller : CancelRequest(u) \/ CancelStep(u)
           \/ \E t \in Turn : PumpTask(t)
           \/ \E t \in Turn, end \in ProviderEnd : ProviderEnds(t, end)
           \/ \E g \in Gen : RuntimeDies(g)
           \/ WatchdogReport \/ WatchdogClose
    PROVE  Moves
<1>0. TypeOK /\ {"user", "shutdown", "runtime"} \subseteq Origin /\ Turn \subseteq 0..MaxTurn
  BY DEF IInv, Origin, Turn
<1>1. ASSUME worker' = worker  PROVE \A d \in Conv : WorkerMoves(d)
  BY <1>1 DEF WorkerMoves
<1>2. ASSUME pump' = pump  PROVE \A t \in Turn : PumpMoves(t)
  BY <1>2 DEF PumpMoves
<1>3. ASSUME NEW c \in Conv, RefuseBlocked(c)  PROVE Moves
  <2>1. \A t \in Turn : RowMoves(t)
    BY <1>0, <1>3, RowsMove DEF RefuseBlocked
  <2>. QED
    BY <1>0, <1>1, <1>2, <1>3, <2>1, ProvidersMove DEF RefuseBlocked, runtime, tasks, Moves
<1>4. ASSUME NEW c \in Conv, Pick(c)  PROVE Moves
  <2>1. \A d \in Conv : WorkerMoves(d)
    <3>1. PICK t \in Turn : IsNextQueued(t, c) /\
                worker' = [worker EXCEPT ![c] = [Idle EXCEPT !.pc = "ensure", !.turn = t,
                                                             !.barrier = conv[c].barrier]]
      BY <1>4 DEF Pick
    <3>2. worker'[c].turn = t /\ \A d \in Conv \ {c} : worker'[d] = worker[d]
      BY <1>0, <3>1 DEF TypeOK, Idle
    <3>. QED  BY <3>1, <3>2 DEF WorkerMoves, IsNextQueued, QueuedIn
  <2>. QED
    BY <1>0, <1>2, <1>4, <2>1, RowsMove, ProvidersMove DEF Pick, rows, runtime, Moves
<1>5. ASSUME NEW c \in Conv, Claim(c)  PROVE Moves
  <2>1. /\ worker'[c].pc = "load" /\ worker'[c].turn = worker[c].turn
        /\ worker[c].pc = "claim" /\ \A d \in Conv \ {c} : worker'[d] = worker[d]
    BY <1>5, GotoColumns DEF Claim, At
  <2>2. \A t \in Turn : RowMoves(t)
    BY <1>0, <1>5, <2>1 DEF Claim, T, RowMoves, TypeOK, Row, BeforeClaim
  <2>3. \A d \in Conv : WorkerMoves(d)
    BY <2>1 DEF WorkerMoves, BeforeStart, BeforeClaim
  <2>. QED
    BY <1>0, <1>2, <1>5, <2>2, <2>3, ProvidersMove DEF Claim, WorkerOnly, runtime, Moves
<1>6. ASSUME NEW c \in Conv, MonitorStep(c) \/ Clear(c) \/ Compact(c)  PROVE Moves
  BY <1>0, <1>1, <1>2, <1>6, RowsMove, ProvidersMove
     DEF MonitorStep, MonitorIdle, MonitorBlocks, MonitorStops, Clear, Compact, runtime,
         tasks, Moves
<1>7. ASSUME NEW c \in Conv, NEW s \in Source, Enqueue(c, s)  PROVE Moves
  <2>1. PICK n \in Turn : /\ turn[n].state = "absent"
                          /\ turn' = [turn EXCEPT ![n] =
                                        [Absent EXCEPT !.state = "queued", !.conv = c,
                                                       !.source = s, !.rev = conv[c].rev]]
    BY <1>7 DEF Enqueue
  <2>2. turn'[n].state = "queued" /\ \A t \in Turn \ {n} : turn'[t] = turn[t]
    BY <1>0, <2>1 DEF TypeOK, Absent
  <2>3. \A t \in Turn : RowMoves(t)
    BY <2>1, <2>2 DEF RowMoves
  <2>. QED
    BY <1>0, <1>1, <1>2, <1>7, <2>3, ProvidersMove DEF Enqueue, runtime, Moves
<1>8. ASSUME NEW u \in Canceller, CancelRequest(u) \/ CancelStep(u)  PROVE Moves
  <2>1. CASE CancelRequest(u)
    <3>1. \E t \in Turn : turn[t].state # "absent" /\ turn' = RequestCancel(t, "user")
      BY <2>1 DEF CancelRequest, Active, ActiveState
    <3>. QED
      BY <1>0, <1>1, <1>2, <2>1, <3>1, RowsMove, ProvidersMove DEF CancelRequest, runtime, Moves
  <2>2. CASE CancelLookup(u)
    BY <1>0, <1>1, <1>2, <2>2, RowsMove, ProvidersMove DEF CancelLookup, rows, runtime, Moves
  <2>3. ASSUME CancelClaimInterrupt(u) \/ CancelSendInterrupt(u)
        PROVE  Moves
    <3>0. canceller[u].turn \in 0..MaxTurn
      BY <1>0 DEF TypeOK, CancelTask
    <3>1. CASE CancelClaimInterrupt(u)
      BY <1>0, <1>1, <1>2, <3>0, <3>1, RowsMove, ProvidersMove
         DEF CancelClaimInterrupt, runtime, Moves
    <3>2. CASE CancelSendInterrupt(u)
      <4>1. \A t \in Turn : RowMoves(t)
        BY <1>0, <3>0, <3>2, RowsMove DEF CancelSendInterrupt
      <4>2. \A t \in Turn : ProviderMoves(t)
        BY <1>0, <3>0, <3>2, ProvidersMove DEF CancelSendInterrupt, SendInterrupt
      <4>. QED  BY <1>1, <1>2, <3>2, <4>1, <4>2 DEF CancelSendInterrupt, Moves
    <3>. QED  BY <2>3, <3>1, <3>2
  <2>4. CASE CancelFails(u)
    <3>1. canceller[u].turn \in 0..MaxTurn
      BY <1>0 DEF TypeOK, CancelTask
    <3>2. \A t \in Turn : ProviderMoves(t)
      BY <1>0, <2>4, <3>1, ProvidersMove DEF CancelFails, Interrupted
    <3>. QED  BY <1>0, <1>1, <1>2, <2>4, <3>2, RowsMove DEF CancelFails, rows, Moves
  <2>. QED  BY <1>8, <2>1, <2>2, <2>3, <2>4 DEF CancelStep
<1>9. ASSUME NEW t \in Turn, PumpTask(t)  PROVE Moves
  <2>1. CASE PumpJournal(t)
    BY <1>0, <1>1, <2>1, RowsMove, ProvidersMove
       DEF PumpJournal, rows, runtime, PumpMoves, TypeOK, Moves
  <2>2. ASSUME NEW s, NEW r, PumpStep(t, s, r), s \in Terminal, pump[t] = "on",
               s = "completed" => provider[t] = "completed"
        PROVE  Moves
    <3>1. \A u \in Turn : RowMoves(u)
      BY <1>0, <2>2, PumpColumns DEF RowMoves, SameColumns
    <3>2. \A u \in Turn : PumpMoves(u)
      BY <1>0, <2>2 DEF PumpStep, PumpMoves, TypeOK
    <3>. QED  BY <1>0, <1>1, <2>2, <3>1, <3>2, ProvidersMove DEF PumpStep, runtime, Moves
  <2>3. CASE PumpTerminal(t)
    <3>1. Outcome(t) \in Terminal /\ (Outcome(t) = "completed" => provider[t] = "completed")
      BY DEF Outcome, Terminal
    <3>. QED  BY <2>2, <2>3, <3>1 DEF PumpTerminal
  <2>4. CASE PumpFailure(t)
    BY <2>2, <2>4 DEF PumpFailure, Terminal
  <2>. QED  BY <1>9, <2>1, <2>3, <2>4 DEF PumpTask
<1>10. ASSUME NEW t \in Turn, NEW end \in ProviderEnd, ProviderEnds(t, end)  PROVE Moves
  <2>1. \A u \in Turn : ProviderMoves(u)
    BY <1>0, <1>10, ProvidersMove DEF ProviderEnds
  <2>. QED  BY <1>0, <1>1, <1>2, <1>10, <2>1, RowsMove DEF ProviderEnds, rows, tasks, Moves
<1>11. ASSUME NEW g \in Gen, RuntimeDies(g)  PROVE Moves
  BY <1>0, <1>1, <1>2, <1>11, RowsMove, ProvidersMove DEF RuntimeDies, rows, tasks, Moves
<1>12. CASE WatchdogReport
  <2>1. ActiveOn(slot.gen) \in SUBSET Turn
    BY DEF ActiveOn
  <2>2. turn' = InterruptAll(ActiveOn(slot.gen), "runtime")
    BY <1>12 DEF WatchdogReport, MarkUnhealthy
  <2>3. \A t \in Turn : RowMoves(t)
    BY <1>0, <2>1, <2>2, RowsMove
  <2>. QED  BY <1>0, <1>1, <1>2, <1>12, <2>3, ProvidersMove DEF WatchdogReport, tasks, Moves
<1>13. CASE WatchdogClose
  BY <1>0, <1>1, <1>2, <1>13, RowsMove, ProvidersMove
     DEF WatchdogClose, CloseProcess, rows, tasks, Moves
<1>. QED
  BY <1>3, <1>4, <1>5, <1>6, <1>7, <1>8, <1>9, <1>10, <1>11, <1>12, <1>13

LEMMA DaemonMoves ==
    ASSUME IInv,
           \/ CloseBegin \/ (\E t \in Turn : ShutdownInterrupt(t)) \/ CloseTurns
           \/ ForceClose \/ CloseRuntimes \/ Crash \/ Boot \/ Restore
    PROVE  Moves
<1>0. TypeOK /\ {"user", "shutdown", "runtime"} \subseteq Origin /\ Turn \subseteq 0..MaxTurn
  BY DEF IInv, Origin, Turn
<1>1. ASSUME worker' = worker  PROVE \A d \in Conv : WorkerMoves(d)
  BY <1>1 DEF WorkerMoves
<1>2. ASSUME pump' = pump  PROVE \A t \in Turn : PumpMoves(t)
  BY <1>2 DEF PumpMoves
<1>3. CASE CloseBegin
  BY <1>0, <1>1, <1>2, <1>3, RowsMove, ProvidersMove DEF CloseBegin, rows, runtime, tasks, Moves
<1>4. ASSUME NEW t \in Turn, ShutdownInterrupt(t)  PROVE Moves
  <2>1. turn[t].state # "absent"
    BY <1>4 DEF ShutdownInterrupt, IInv, PumpedIsRunning
  <2>2. \A u \in Turn : RowMoves(u)
    BY <1>0, <1>4, <2>1, RowsMove DEF ShutdownInterrupt
  <2>3. \A u \in Turn : ProviderMoves(u)
    BY <1>0, <1>4, ProvidersMove DEF ShutdownInterrupt, Interrupted
  <2>. QED  BY <1>1, <1>2, <1>4, <2>2, <2>3 DEF ShutdownInterrupt, tasks, Moves
<1>5. ASSUME NEW F, StopTasks(F)
      PROVE  /\ \A d \in Conv : WorkerMoves(d)
             /\ \A t \in Turn : PumpMoves(t)
  BY <1>5 DEF StopTasks, WorkerMoves, PumpMoves, Idle, BeforeStart, BeforeClaim
<1>6. CASE CloseTurns
  <2>. DEFINE X == {t \in Turn : \/ Active(t)
                                 \/ /\ turn[t].state = "queued"
                                    /\ turn[t].source # "schedule"}
  <2>1. X \in SUBSET Turn /\ turn' = InterruptAll(X, "shutdown") /\ StopTasks(Starting)
    BY <1>6 DEF CloseTurns
  <2>. HIDE DEF X
  <2>2. \A t \in Turn : RowMoves(t)
    BY <1>0, <2>1, RowsMove
  <2>. QED  BY <1>0, <1>5, <1>6, <2>1, <2>2, ProvidersMove DEF CloseTurns, runtime, Moves
<1>7. CASE ForceClose
  <2>1. \A d \in Conv : WorkerMoves(d)
    BY <1>7 DEF ForceClose, WorkerMoves, Idle, BeforeStart, BeforeClaim
  <2>. QED  BY <1>0, <1>2, <1>7, <2>1, RowsMove, ProvidersMove DEF ForceClose, Moves
<1>8. CASE CloseRuntimes
  BY <1>0, <1>1, <1>2, <1>8, RowsMove, ProvidersMove DEF CloseRuntimes, tasks, Moves
<1>9. CASE Crash
  BY <1>0, <1>5, <1>9, RowsMove, ProvidersMove DEF Crash, Moves
<1>10. CASE Boot
  <2>. DEFINE X == {t \in Turn : \/ Active(t)
                                 \/ /\ turn[t].state = "queued"
                                    /\ turn[t].source = "discord"}
  <2>1. X \in SUBSET Turn /\ turn' = InterruptAll(X, "runtime")
    BY <1>10 DEF Boot
  <2>. HIDE DEF X
  <2>2. \A t \in Turn : RowMoves(t)
    BY <1>0, <2>1, RowsMove
  <2>. QED  BY <1>0, <1>1, <1>2, <1>10, <2>2, ProvidersMove DEF Boot, runtime, Moves
<1>11. CASE Restore
  <2>1. \/ turn' = turn
        \/ \E t \in Turn : turn' = InterruptAll({t}, "runtime")
    BY <1>11 DEF Restore
  <2>2. \A t \in Turn : RowMoves(t)
    <3>1. \A t \in Turn : {t} \in SUBSET Turn
      OBVIOUS
    <3>. QED  BY <1>0, <2>1, <3>1, RowsMove
  <2>. QED  BY <1>0, <1>1, <1>2, <1>11, <2>2, ProvidersMove DEF Restore, runtime, Moves
<1>. QED  BY <1>3, <1>4, <1>6, <1>7, <1>8, <1>9, <1>10, <1>11

LEMMA NextMoves ==
    ASSUME IInv, TakenIsNotActive, Next
    PROVE  Moves
<1>1. ASSUME NEW c \in Conv, WorkerStep(c)  PROVE Moves
  <2>1. CASE worker[c].pc = "idle"
    <3>1. RefuseBlocked(c) \/ Pick(c)
      BY <1>1, <2>1 DEF WorkerStep, At, Load, LoadFails,
         LoadForShutdown, Start, StartMismatch, StartRefused, RuntimeUnavailable,
         Started, MarkRunning, MarkFails, Abandon, Register, Recheck,
         WorkerClaimInterrupt, WorkerSendInterrupt, AwaitDone, AwaitFailed,
         AwaitJournal, Report, ReportStale, Close, EffectFails, QueuedFails,
         InputFails, StartedFails, WatchFails, ReportFails,
         EnsureLoaded, EnsureStart, Booted, BootFails,
         EnsureRefused, Thread, StartThread, StartThreadRejected, StartThreadUnknown,
         ActivateNew, Attach, AttachFails, Unbar, ReadIdle, ReadReloaded, ReadActive,
         ReadSystemError, ReadMismatch, ReadFails, Bar, Activate, Recover, Retire,
         RetireStale, RetireClose, ResumeIdle, ResumeSystemError, Claim, ClaimFails
    <3>. QED  BY <3>1, OthersMove
  <2>2. CASE worker[c].pc \in BeforeClaim
    BY <1>1, <2>2, EarlySteps, EarlyMoves, OthersMove
  <2>3. CASE worker[c].pc \notin BeforeClaim \cup {"idle"}
    BY <1>1, <2>3, LateMoves
  <2>. QED  BY <2>1, <2>2, <2>3
<1>. QED  BY <1>1, OthersMove, DaemonMoves DEF Next

LEMMA InitProvider == Init => ProviderInv
  BY DEF Init, ProviderInv, TakenIsNotActive, UnclaimedIsNotStarted, StartedOnce,
         CompletedByProvider, Absent, Idle, BeforeStart, BeforeClaim, Active, ActiveState

LEMMA NextProvider == IInv /\ IInv' /\ ProviderInv /\ [Next]_vars => ProviderInv'
<1>. SUFFICES ASSUME IInv, IInv', ProviderInv, [Next]_vars  PROVE ProviderInv'
  OBVIOUS
<1>1. CASE Next
  BY <1>1, NextMoves, MovesKeepProviderInv DEF ProviderInv
<1>2. CASE UNCHANGED vars
  BY <1>2 DEF vars, rows, runtime, tasks, ProviderInv, TakenIsNotActive,
              UnclaimedIsNotStarted, StartedOnce, CompletedByProvider, Active
<1>. QED  BY <1>1, <1>2

\* What the provider runs was claimed by the one worker that starts it, whatever
\* becomes of its runtime and of the daemon.
THEOREM Provided == Spec => []ProviderInv
  BY InductiveInvariant, InitProvider, NextProvider, PTL DEF Spec

\* A Turn is recorded as completed only when the provider completed it, ...
THEOREM CompletedIsReal == Spec => []CompletedByProvider
<1>1. ProviderInv => CompletedByProvider
  BY DEF ProviderInv
<1>. QED  BY <1>1, Provided, PTL

-----------------------------------------------------------------------------
(* What a worker does after its claim, and what a row never does. *)

\* Rows that have ended stay so, and a Turn keeps its conversation.
LEMMA RowsStay ==
    ASSUME IInv, Next
    PROVE  \A t \in Turn :
              /\ Ended(t) => turn'[t].state = turn[t].state
              /\ turn[t].state # "absent" => /\ turn'[t].conv = turn[t].conv
                                             /\ turn'[t].state # "absent"
              /\ turn'[t].state = "queued" => turn[t].state \in {"absent", "queued"}
              /\ turn'[t].state \in ActiveState =>
                    turn[t].state \in {"queued"} \cup ActiveState
<1>. DEFINE s == [t \in Turn |-> turn[t].state]
            o == [t \in Turn |-> turn[t].conv]
<1>1. [Order!Next]_Order!vars
  BY NextInv
<1>2. \A t \in Turn :
         /\ s[t] \in Terminal => s'[t] = s[t]
         /\ s[t] # "absent" => o'[t] = o[t] /\ s'[t] # "absent"
         /\ s'[t] = "queued" => s[t] \in {"absent", "queued"}
         /\ s'[t] \in ActiveState => s[t] \in {"queued"} \cup ActiveState
  <2>1. CASE \E t \in Turn, c \in Conv : Order!Arrive(t, c)
    BY <2>1 DEF Order!Arrive, Terminal, ActiveState
  <2>2. CASE \E t \in Turn : Order!Start(t)
    BY <2>2 DEF Order!Start, Terminal, ActiveState
  <2>3. CASE \E t \in Turn : \E r \in Order!Active \cup Order!Terminal : Order!Move(t, r)
    BY <2>3 DEF Order!Move, Order!Transitions, Order!Active, Order!Terminal, Terminal, ActiveState
  <2>4. CASE \E X \in SUBSET Turn : Order!Lose(X)
    BY <2>4 DEF Order!Lose, Order!Active, Terminal, ActiveState
  <2>5. CASE UNCHANGED Order!vars
    BY <2>5 DEF Order!vars
  <2>. QED  BY <1>1, <2>1, <2>2, <2>3, <2>4, <2>5 DEF Order!Next
<1>3. \A t \in Turn : /\ s[t] = turn[t].state /\ o[t] = turn[t].conv
                      /\ s'[t] = turn'[t].state /\ o'[t] = turn'[t].conv
  OBVIOUS
<1>. HIDE DEF s, o
<1>. QED  BY <1>2, <1>3 DEF Ended

\* The worker waits for the pump of its turn from its registration on.
Streaming == {"register", "recheck", "claimInterrupt", "interrupt", "await"}

\* Where a worker goes on to from its claim to its report.
Edges ==
    {<<"load", "start">>, <<"load", "report">>, <<"start", "started">>,
     <<"start", "abandon">>, <<"start", "report">>, <<"started", "mark">>,
     <<"mark", "register">>, <<"mark", "abandon">>, <<"abandon", "abandonReport">>,
     <<"register", "recheck">>, <<"recheck", "claimInterrupt">>, <<"recheck", "await">>,
     <<"claimInterrupt", "interrupt">>, <<"claimInterrupt", "await">>,
     <<"interrupt", "await">>, <<"await", "report">>}

\* When it lets go of its turn.
Lets(c) ==
    LET t == worker[c].turn
    IN  \/ worker[c].pc \in {"load", "start"} /\ turn'[t].state \in Terminal
        \/ worker[c].pc = "await" /\ pump[t] \in {"terminal", "stale"}
        \/ worker[c].pc = "await" /\ pump[t] = "journal" /\ critical'
        \/ worker[c].pc = "report" /\ slot.gen # worker[c].gen
        \/ worker[c].pc = "abandonReport" /\ slot.gen # worker[c].gen /\ critical'

\* What becomes of the row, the provider turn and the pump of its turn, ...
Works(c) ==
    LET t == worker[c].turn
        p == worker'[c].pc
    IN  /\ \/ turn'[t].state = turn[t].state
           \/ turn'[t].state = "failed" /\ p = "idle"
           \/ /\ turn'[t].state = "interrupted"
              /\ \/ p = "idle" /\ worker[c].pc = "load"
                 \/ p \in {"report", "abandonReport"}
           \/ turn'[t].state = "cancelling" /\ p = "mark" /\ phase # "up"
           \/ turn'[t].state = "running" /\ Active(t) /\ p = "register"
        /\ \/ pump'[t] = pump[t]
           \/ pump'[t] = "on" /\ p = "register" /\ Active(t)
        /\ \/ provider'[t] = provider[t]
           \/ /\ provider[t] \in {"live", "stopping"} /\ turn[t].gen \in alive
              /\ provider'[t] = "stopping"
           \/ /\ worker[c].pc = "start" /\ provider'[t] = "live"
              /\ worker[c].gen \in alive
              /\ \/ p \in {"started", "abandon", "report"}
                 \/ p = "idle" /\ turn'[t].state \in Terminal
        /\ worker[c].pc = "start" /\ p = "idle" =>
              turn'[t].state = IF Ended(t) THEN turn[t].state ELSE "failed"
        /\ p = "report" /\ worker[c].pc # "await" => turn'[t].state \in Terminal
        /\ p = "report" /\ worker[c].pc = "await" => pump[t] = "failed"
        /\ \/ t \in active'
           \/ p \notin Streaming \ {"register"}
           \/ worker[c].pc \in Streaming \ {"register"} /\ active' = active
        /\ p = "await" => \/ turn'[t].state # "cancelling"
                          \/ ~turn'[t].ident
                          \/ turn'[t].reason # "requested"
        /\ worker[c].pc = "await" /\ pump[t] = "on" => worker'[c] = worker[c]

\* The columns claim_turn leaves for good.
KeepsPlace(t) ==
    /\ turn'[t].conv = turn[t].conv /\ turn'[t].rev = turn[t].rev
    /\ turn'[t].gen = turn[t].gen /\ turn'[t].source = turn[t].source

\* ... and that it touches nobody else's.
ClaimedStep(c) ==
    LET t == worker[c].turn
    IN  /\ UNCHANGED <<conv, lease, slot, alive, canceller, monitor, phase, boots>>
        /\ worker[c].pc \notin BeforeClaim \cup {"idle", "close", "abandonClose"}
        /\ \A d \in Conv \ {c} : worker'[d] = worker[d]
        /\ \/ worker'[c] = Idle /\ worker'[c].pc = "idle" /\ Lets(c)
           \/ /\ <<worker[c].pc, worker'[c].pc>> \in Edges
              /\ worker'[c] = [worker[c] EXCEPT !.pc = worker'[c].pc]
        /\ \A u \in Turn \ {t} :
              /\ turn'[u] = turn[u] /\ provider'[u] = provider[u] /\ pump'[u] = pump[u]
              /\ u \in active' <=> u \in active
        /\ KeepsPlace(t)
        /\ critical => critical'
        /\ Works(c)

\* An error of the database takes the worker of a claimed turn: what it leaves.
LostStep(c) ==
    LET t == worker[c].turn
    IN  /\ UNCHANGED <<conv, lease, slot, alive, volatile, canceller, monitor, phase,
                       boots>>
        /\ worker[c].pc \notin BeforeClaim \cup {"idle", "close", "abandonClose"}
        /\ worker'[c] = Idle /\ worker'[c].pc = "idle"
        /\ \A d \in Conv \ {c} : worker'[d] = worker[d]
        /\ active' = active \ {t}
        /\ \A u \in Turn \ {t} :
              turn'[u] = turn[u] /\ provider'[u] = provider[u] /\ pump'[u] = pump[u]
        /\ KeepsPlace(t) /\ turn'[t].state = turn[t].state
        /\ pump'[t] = "lost"
        /\ \/ provider'[t] = provider[t]
           \/ /\ provider[t] \in {"live", "stopping"} /\ turn[t].gen \in alive
              /\ provider'[t] = "stopping"
           \/ /\ worker[c].pc = "start" /\ provider'[t] = "live"
              /\ worker[c].gen \in alive
        /\ critical => critical'

LEMMA LostSteps ==
    ASSUME IInv, NEW c \in Conv,
           InputFails(c) \/ StartedFails(c) \/ WatchFails(c) \/ ReportFails(c)
    PROVE  LostStep(c)
<1>. DEFINE t == worker[c].turn
<1>. USE DEF At
<1>0. /\ TypeOK /\ t \in Turn /\ T(c) = t /\ G(c) = worker[c].gen
      /\ worker[c].pc \notin BeforeClaim \cup {"idle", "close", "abandonClose"}
  BY DEF IInv, WorkerHasTurn, T, G, BeforeClaim, InputFails, StartedFails, WatchFails,
         ReportFails
<1>1. Lose(c)
  BY DEF InputFails, StartedFails, WatchFails, ReportFails
<1>2. /\ worker'[c] = Idle /\ \A d \in Conv \ {c} : worker'[d] = worker[d]
      /\ active' = active \ {t}
      /\ pump'[t] = "lost" /\ \A u \in Turn \ {t} : pump'[u] = pump[u]
  BY <1>0, <1>1 DEF Lose, Finish, Release, TypeOK
<1>3. ASSUME turn' = turn
      PROVE  KeepsPlace(t) /\ \A u \in Turn : turn'[u] = turn[u]
  BY <1>3 DEF KeepsPlace
<1>4. ASSUME provider' = provider \/ Interrupted(t) \/ SendInterrupt(t)
      PROVE  /\ \A u \in Turn \ {t} : provider'[u] = provider[u]
             /\ \/ provider'[t] = provider[t]
                \/ /\ provider[t] \in {"live", "stopping"} /\ turn[t].gen \in alive
                   /\ provider'[t] = "stopping"
  BY <1>0, <1>4 DEF Interrupted, SendInterrupt, ProviderRuns, TypeOK
<1>5. Idle.pc = "idle"
  BY DEF Idle
<1>6. CASE InputFails(c)
  <2>1. /\ \A u \in Turn \ {t} : provider'[u] = provider[u]
        /\ \/ provider'[t] = provider[t]
           \/ /\ worker[c].pc = "start" /\ provider'[t] = "live"
              /\ worker[c].gen \in alive
    BY <1>0, <1>6 DEF InputFails, NotStarted, Reachable, TypeOK
  <2>. QED  BY <1>0, <1>2, <1>3, <1>5, <1>6, <2>1 DEF InputFails, LostStep, rows, daemon
<1>7. CASE StartedFails(c)
  BY <1>0, <1>2, <1>3, <1>5, <1>7 DEF StartedFails, LostStep, rows, runtime, daemon
<1>8. CASE WatchFails(c)
  <2>1. /\ KeepsPlace(t) /\ turn'[t].state = turn[t].state
        /\ \A u \in Turn \ {t} : turn'[u] = turn[u]
    BY <1>0, <1>3, <1>8, InterruptColumns DEF WatchFails, KeepsPlace, SameColumns
  <2>2. provider' = provider \/ Interrupted(t) \/ SendInterrupt(t)
    BY <1>0, <1>8 DEF WatchFails
  <2>. QED  BY <1>0, <1>2, <1>4, <1>5, <1>8, <2>1, <2>2 DEF WatchFails, LostStep, daemon
<1>9. CASE ReportFails(c)
  BY <1>0, <1>2, <1>3, <1>5, <1>9 DEF ReportFails, LostStep, rows, runtime
<1>. QED  BY <1>6, <1>7, <1>8, <1>9

LEMMA GoesOnAs ==
    ASSUME IInv, NEW c \in Conv, NEW pc, Goto(c, pc)
    PROVE  /\ worker'[c].pc = pc /\ worker'[c] = [worker[c] EXCEPT !.pc = worker'[c].pc]
           /\ \A d \in Conv \ {c} : worker'[d] = worker[d]
  BY DEF Goto, IInv, TypeOK, Worker

LEMMA ClaimedSteps ==
    ASSUME IInv, NEW c \in Conv, WorkerStep(c),
           worker[c].pc \notin BeforeClaim \cup {"idle"}, ~Report(c), ~Close(c),
           ~InputFails(c), ~StartedFails(c), ~WatchFails(c), ~ReportFails(c)
    PROVE  ClaimedStep(c)
<1>. DEFINE t == worker[c].turn
<1>0. /\ TypeOK /\ t \in Turn /\ turn[t].state # "absent" /\ T(c) = t
      /\ G(c) = worker[c].gen /\ turn[t].state # "queued"
      /\ worker[c].pc \in Pc \ (BeforeClaim \cup {"idle"})
  BY DEF IInv, WorkerHasTurn, ClaimedIsNotQueued, T, G, TypeOK, Worker
<1>01. turn[t].state \in ActiveState \cup Terminal
  BY <1>0 DEF TypeOK, Row, TurnState
<1>04. Release(c) => worker'[c] = Idle
  BY <1>0 DEF Release, TypeOK
<1>02. \A s : turn' = TerminalTurn(t, s) =>
          turn'[t].state = IF Ended(t) THEN turn[t].state ELSE s
  BY <1>0, TerminalTurnColumns
<1>03. ASSUME turn' = turn  PROVE KeepsPlace(t)
  BY <1>03 DEF KeepsPlace
<1>. USE DEF At, WorkerOnly, KeepsPlace, SameColumns, rows, runtime, tasks, daemon, ClaimedStep, Works, Lets, Streaming,
             Edges, Idle
<1>2. CASE Load(c)
  BY <1>0, <1>03, <1>2, GoesOnAs DEF Load, BeforeClaim
<1>3. CASE LoadFails(c)
  BY <1>0, <1>02, <1>3, ReleaseColumns, <1>04, TerminalTurnColumns DEF LoadFails, Ended, Terminal
<1>4. CASE LoadForShutdown(c)
  <2>1. \/ Ended(t) /\ turn' = turn
        \/ turn' = InterruptAll({t}, "shutdown")
    BY <1>0, <1>4 DEF LoadForShutdown
  <2>2. /\ turn'[t].state \in Terminal /\ KeepsPlace(t)
        /\ turn'[t].state \in {turn[t].state, "interrupted"}
        /\ \A u \in Turn \ {t} : turn'[u] = turn[u]
    BY <1>0, <1>03, <2>1, InterruptAllColumns DEF Terminal, Ended
  <2>. QED  BY <1>0, <1>4, <2>2, ReleaseColumns, <1>04 DEF LoadForShutdown
<1>5. CASE Start(c)
  BY <1>0, <1>03, <1>5, GoesOnAs DEF Start, StartAccepted, TypeOK, Reachable, BeforeClaim
<1>6. CASE StartMismatch(c)
  BY <1>0, <1>03, <1>6, GoesOnAs DEF StartMismatch, StartAccepted, TypeOK, Reachable, BeforeClaim
<1>7. CASE StartRefused(c)
  <2>1. /\ turn'[t].state = IF Ended(t) THEN turn[t].state ELSE "failed"
        /\ KeepsPlace(t) /\ \A u \in Turn \ {t} : turn'[u] = turn[u]
    BY <1>0, <1>7, TerminalTurnColumns DEF StartRefused
  <2>2. \/ provider' = provider
        \/ provider' = [provider EXCEPT ![t] = "live"] /\ worker[c].gen \in alive
    BY <1>0, <1>7 DEF StartRefused, NotStarted, Reachable
  <2>. QED
    BY <1>0, <1>7, <2>1, <2>2, ReleaseColumns, <1>04 DEF StartRefused, Ended, Terminal, TypeOK
<1>8. CASE RuntimeUnavailable(c)
  <2>1. /\ turn'[t].state = IF Ended(t) THEN turn[t].state ELSE "interrupted"
        /\ KeepsPlace(t) /\ \A u \in Turn \ {t} : turn'[u] = turn[u]
    BY <1>0, <1>8, TerminalTurnColumns DEF RuntimeUnavailable
  <2>2. \/ provider' = provider
        \/ /\ provider' = [provider EXCEPT ![t] = "live"] /\ worker[c].gen \in alive
           /\ worker[c].pc = "start"
    BY <1>0, <1>8 DEF RuntimeUnavailable, NotStarted, Reachable
  <2>. QED
    BY <1>0, <1>8, <2>1, <2>2, GoesOnAs
       DEF RuntimeUnavailable, Ended, Terminal, TypeOK, BeforeClaim
<1>9. CASE Started(c)
  <2>1. /\ KeepsPlace(t) /\ \A u \in Turn \ {t} : turn'[u] = turn[u]
        /\ \/ turn'[t].state = turn[t].state
           \/ turn'[t].state = "cancelling" /\ phase # "up"
    <3>1. CASE Closing
      BY <1>0, <1>9, <3>1, RequestCancelColumns DEF Started, Closing
    <3>2. CASE ~Closing
      BY <1>0, <1>03, <1>9, <3>2 DEF Started
    <3>. QED  BY <3>1, <3>2
  <2>. QED  BY <1>0, <1>9, <2>1, GoesOnAs DEF Started, BeforeClaim
<1>10. CASE MarkRunning(c)
  <2>1. /\ KeepsPlace(t) /\ \A u \in Turn \ {t} : turn'[u] = turn[u]
        /\ Active(t)
        /\ \/ turn'[t].state = turn[t].state
           \/ turn'[t].state = "running"
    <3>1. turn' = [turn EXCEPT ![t] =
                     [turn[t] EXCEPT !.ident = TRUE,
                                     !.state = IF @ = "starting" THEN "running"
                                               ELSE @]]
      BY <1>0, <1>10 DEF MarkRunning
    <3>2. turn[t].state \in {"starting", "cancelling"}
      BY <1>0, <1>10 DEF MarkRunning
    <3>3. /\ turn[t] \in Row /\ \A u \in Turn \ {t} : turn'[u] = turn[u]
          /\ turn'[t] = [turn[t] EXCEPT !.ident = TRUE,
                                        !.state = IF @ = "starting" THEN "running"
                                                  ELSE @]
      BY <1>0, <3>1 DEF TypeOK
    <3>. QED  BY <3>2, <3>3 DEF Row, Active, ActiveState
  <2>2. pump'[t] = "on" /\ \A u \in Turn \ {t} : pump'[u] = pump[u]
    BY <1>0, <1>10 DEF MarkRunning, TypeOK
  <2>3. /\ worker'[c].pc = "register" /\ worker[c].pc = "mark"
        /\ worker'[c] = [worker[c] EXCEPT !.pc = worker'[c].pc]
        /\ \A d \in Conv \ {c} : worker'[d] = worker[d]
    BY <1>10, GoesOnAs DEF MarkRunning
  <2>4. UNCHANGED <<conv, lease, slot, alive, provider, active, canceller, monitor,
                    phase, boots, critical>>
    BY <1>10 DEF MarkRunning
  <2>. QED  BY <1>0, <2>1, <2>2, <2>3, <2>4 DEF BeforeClaim
<1>11. CASE MarkFails(c)
  BY <1>0, <1>03, <1>11, GoesOnAs DEF MarkFails, BeforeClaim
<1>12. CASE Abandon(c)
  <2>1. /\ turn'[t].state \in {turn[t].state, "interrupted"}
        /\ KeepsPlace(t) /\ \A u \in Turn \ {t} : turn'[u] = turn[u]
    BY <1>0, <1>03, <1>12, TerminalTurnColumns DEF Abandon
  <2>2. /\ \A u \in Turn \ {t} : provider'[u] = provider[u]
        /\ \/ provider'[t] = provider[t]
           \/ /\ provider[t] \in {"live", "stopping"} /\ turn[t].gen \in alive
              /\ provider'[t] = "stopping"
    BY <1>0, <1>12 DEF Abandon, Interrupted, ProviderRuns, TypeOK
  <2>. QED
    BY <1>0, <1>12, <2>1, <2>2, GoesOnAs DEF Abandon, Ended, Terminal, BeforeClaim
<1>13. CASE Register(c)
  BY <1>0, <1>03, <1>13, GoesOnAs DEF Register, BeforeClaim
<1>14. CASE Recheck(c)
  BY <1>0, <1>03, <1>14, GoesOnAs DEF Recheck, BeforeClaim
<1>15. CASE WorkerClaimInterrupt(c)
  <2>1. CASE ClaimableInterrupt(t)
    BY <1>0, <1>15, <2>1, GoesOnAs, InterruptColumns DEF WorkerClaimInterrupt, BeforeClaim
  <2>2. CASE ~ClaimableInterrupt(t)
    BY <1>0, <1>03, <1>15, <2>2, GoesOnAs
       DEF WorkerClaimInterrupt, ClaimableInterrupt, BeforeClaim
  <2>. QED  BY <2>1, <2>2
<1>16. CASE WorkerSendInterrupt(c)
  <2>1. /\ KeepsPlace(t) /\ \A u \in Turn \ {t} : turn'[u] = turn[u]
        /\ turn'[t].state = turn[t].state
    BY <1>0, <1>16, InterruptColumns DEF WorkerSendInterrupt
  <2>2. turn'[t].reason # "requested"
    BY <1>0, <1>16 DEF WorkerSendInterrupt, SendInterrupt, TypeOK, Row
  <2>3. /\ \A u \in Turn \ {t} : provider'[u] = provider[u]
        /\ \/ provider'[t] = provider[t]
           \/ /\ provider[t] \in {"live", "stopping"} /\ turn[t].gen \in alive
              /\ provider'[t] = "stopping"
    BY <1>0, <1>16 DEF WorkerSendInterrupt, SendInterrupt, ProviderRuns, TypeOK
  <2>. QED
    BY <1>0, <1>16, <2>1, <2>2, <2>3, GoesOnAs DEF WorkerSendInterrupt, BeforeClaim
<1>17. CASE AwaitDone(c)
  BY <1>0, <1>03, <1>17, ReleaseColumns, <1>04 DEF AwaitDone, Finish
<1>18. CASE AwaitFailed(c)
  BY <1>0, <1>03, <1>18, GoesOnAs DEF AwaitFailed, BeforeClaim
<1>19. CASE AwaitJournal(c)
  <2>1. /\ \A u \in Turn \ {t} : provider'[u] = provider[u]
        /\ \/ provider'[t] = provider[t]
           \/ /\ provider[t] \in {"live", "stopping"} /\ turn[t].gen \in alive
              /\ provider'[t] = "stopping"
    BY <1>0, <1>19 DEF AwaitJournal, Interrupted, ProviderRuns, TypeOK
  <2>. QED
    BY <1>0, <1>03, <1>19, <2>1, ReleaseColumns, <1>04 DEF AwaitJournal, Finish
<1>20. CASE ReportStale(c)
  BY <1>0, <1>03, <1>20, ReleaseColumns, <1>04 DEF ReportStale, Finish
<1>. QED
  BY <1>0, <1>2, <1>3, <1>4, <1>5, <1>6, <1>7, <1>8, <1>9, <1>10, <1>11, <1>12,
     <1>13, <1>14, <1>15, <1>16, <1>17, <1>18, <1>19, <1>20
     DEF WorkerStep, BeforeClaim, Pick, RefuseBlocked,
         EnsureLoaded, EnsureStart, Booted, BootFails,
         EnsureRefused, Thread, StartThread, StartThreadRejected, StartThreadUnknown,
         ActivateNew, Attach, AttachFails, Unbar, ReadIdle, ReadReloaded, ReadActive,
         ReadSystemError, ReadMismatch, ReadFails, Bar, Activate, Recover, Retire,
         RetireStale, RetireClose, ResumeIdle, ResumeSystemError, Claim, ClaimFails,
         EffectFails, QueuedFails

-----------------------------------------------------------------------------
(* The cases of a step, for the invariants below. *)

\* Steps of the tasks and processes that are no workers.
OtherStep ==
    \/ \E c \in Conv : MonitorStep(c) \/ Clear(c) \/ Compact(c)
    \/ \E c \in Conv, s \in Source : Enqueue(c, s)
    \/ \E u \in Canceller : CancelRequest(u) \/ CancelStep(u)
    \/ \E t \in Turn : PumpTask(t) \/ ShutdownInterrupt(t)
    \/ \E t \in Turn, end \in ProviderEnd : ProviderEnds(t, end)
    \/ \E g \in Gen : RuntimeDies(g)
    \/ WatchdogReport \/ WatchdogClose
    \/ CloseBegin \/ ForceClose \/ CloseTurns \/ CloseRuntimes \/ Crash \/ Boot \/ Restore

LEMMA WorkerCases ==
    ASSUME IInv, TakenIsNotActive, NEW c \in Conv, WorkerStep(c)
    PROVE  \/ Pick(c) \/ RefuseBlocked(c) \/ EarlyStep(c) \/ Claim(c) \/ ClaimedStep(c)
           \/ LostStep(c) \/ Report(c) \/ Close(c)
<1>1. CASE worker[c].pc = "idle"
  BY <1>1 DEF WorkerStep, At, Load, LoadFails,
         LoadForShutdown, Start, StartMismatch, StartRefused, RuntimeUnavailable,
         Started, MarkRunning, MarkFails, Abandon, Register, Recheck,
         WorkerClaimInterrupt, WorkerSendInterrupt, AwaitDone, AwaitFailed,
         AwaitJournal, Report, ReportStale, Close, EffectFails, QueuedFails,
         InputFails, StartedFails, WatchFails, ReportFails,
         EnsureLoaded, EnsureStart, Booted, BootFails,
         EnsureRefused, Thread, StartThread, StartThreadRejected, StartThreadUnknown,
         ActivateNew, Attach, AttachFails, Unbar, ReadIdle, ReadReloaded, ReadActive,
         ReadSystemError, ReadMismatch, ReadFails, Bar, Activate, Recover, Retire,
         RetireStale, RetireClose, ResumeIdle, ResumeSystemError, Claim, ClaimFails
<1>2. CASE worker[c].pc \in BeforeClaim
  BY <1>2, EarlySteps
<1>3. CASE worker[c].pc \notin BeforeClaim \cup {"idle"}
  BY <1>3, ClaimedSteps, LostSteps
<1>. QED  BY <1>1, <1>2, <1>3

-----------------------------------------------------------------------------
(* A daemon that is down has no tasks. *)

\* The phases of the daemon without tasks.
Quiet == {"stopping", "down", "restoring"}

\* From interrupt_for_shutdown, or a crash, to the end of the next start no
\* worker runs, then no app-server, and after recover_startup no Turn is active.
NoTasksWhenDown ==
    /\ phase \in Quiet => \A c \in Conv : worker[c].pc = "idle"
    /\ phase \in {"down", "restoring"} => alive = {}
    /\ phase = "restoring" => \A t \in Turn : ~Active(t)

LEMMA QuietWorkers ==
    ASSUME IInv, ProviderInv, NoTasksWhenDown, NEW c \in Conv, WorkerStep(c)
    PROVE  phase \notin Quiet
<1>. SUFFICES ASSUME worker[c].pc = "idle"  PROVE phase \notin Quiet
  BY DEF NoTasksWhenDown
<1>1. Pick(c) \/ RefuseBlocked(c)
  BY WorkerCases DEF ProviderInv, EarlyStep, ClaimedStep, LostStep, Claim, Report, Close, At,
                         BeforeClaim
<1>. QED  BY <1>1 DEF Pick, RefuseBlocked, Quiet

LEMMA NextQuiet ==
    ASSUME IInv, ProviderInv, NoTasksWhenDown, Next
    PROVE  NoTasksWhenDown'
<1>0. TypeOK /\ TakenIsNotActive
  BY DEF IInv, ProviderInv
<1>. USE DEF Quiet
<1>1. ASSUME NEW c \in Conv, WorkerStep(c)  PROVE NoTasksWhenDown'
  <2>1. phase' = phase
    BY <1>0, <1>1, WorkerCases
       DEF Pick, RefuseBlocked, EarlyStep, Claim, ClaimedStep, LostStep, Report, Close,
           WorkerOnly, daemon
  <2>. QED  BY <1>1, <2>1, QuietWorkers DEF NoTasksWhenDown
<1>2. CASE OtherStep
  <2>0. \A t \in Turn : phase = "restoring" => ~Active(t)'
    BY <1>2, NextMoves, <1>0
       DEF Moves, RowMoves, NoTasksWhenDown, Active, ActiveState, Terminal, BeforeClaim
  <2>1. CASE phase \notin Quiet
    <3>1. CASE CloseTurns \/ Crash
      BY <3>1 DEF CloseTurns, Crash, StopTasks, NoTasksWhenDown, Idle
    <3>2. CASE ~CloseTurns /\ ~Crash
      <4>1. phase' \notin Quiet
        BY <1>2, <2>1, <3>2
           DEF OtherStep, MonitorStep, MonitorIdle, MonitorBlocks, MonitorStops, Clear, Compact,
               Enqueue, CancelRequest, CancelStep, CancelLookup, CancelClaimInterrupt,
               CancelSendInterrupt, CancelFails, PumpTask, PumpTerminal, PumpFailure, PumpJournal,
               PumpStep, ShutdownInterrupt, ProviderEnds, RuntimeDies, WatchdogReport,
               WatchdogClose, CloseBegin, ForceClose, CloseRuntimes, Boot, Restore, daemon
      <4>. QED  BY <4>1 DEF NoTasksWhenDown
    <3>. QED  BY <3>1, <3>2
  <2>2. CASE phase \in Quiet
    <3>1. CASE CloseRuntimes \/ Crash \/ Boot \/ Restore
      <4>1. CASE CloseRuntimes
        BY <2>2, <4>1 DEF CloseRuntimes, CloseSlot, tasks, NoTasksWhenDown
      <4>2. CASE Crash
        BY <4>2 DEF Crash, StopTasks, NoTasksWhenDown, Idle
      <4>3. CASE Boot
        <5>1. /\ phase' = "restoring" /\ alive' = alive /\ worker' = worker
              /\ phase = "down"
          BY <4>3 DEF Boot, runtime
        <5>2. \A t \in Turn : turn'[t].state \notin ActiveState
          BY ZenonT(60), <1>0, <4>3 DEF Boot, InterruptAll, Active, ActiveState, TypeOK, Row
        <5>. QED  BY <5>1, <5>2 DEF NoTasksWhenDown, Active
      <4>4. CASE Restore
        BY <4>4 DEF Restore, NoTasksWhenDown
      <4>. QED  BY <3>1, <4>1, <4>2, <4>3, <4>4
    <3>2. CASE \/ \E c \in Conv : MonitorStep(c)
               \/ \E u \in Canceller : CancelStep(u)
               \/ \E t \in Turn : PumpTask(t)
               \/ \E t \in Turn, end \in ProviderEnd : ProviderEnds(t, end)
               \/ \E g \in Gen : RuntimeDies(g)
               \/ WatchdogClose
      <4>1. worker' = worker /\ phase' = phase /\ (alive = {} => alive' = {})
        BY <3>2
           DEF MonitorStep, MonitorIdle, MonitorBlocks, MonitorStops,
               CancelStep, CancelLookup, CancelClaimInterrupt,
               CancelSendInterrupt, CancelFails, PumpTask, PumpTerminal, PumpFailure, PumpJournal,
               PumpStep, ProviderEnds, RuntimeDies, WatchdogClose, CloseProcess, daemon,
               runtime, tasks
      <4>. QED  BY <2>0, <4>1 DEF NoTasksWhenDown
    <3>3. ~Next \/ (CloseRuntimes \/ Crash \/ Boot \/ Restore)
          \/ \/ \E c \in Conv : MonitorStep(c)
             \/ \E u \in Canceller : CancelStep(u)
             \/ \E t \in Turn : PumpTask(t)
             \/ \E t \in Turn, end \in ProviderEnd : ProviderEnds(t, end)
             \/ \E g \in Gen : RuntimeDies(g)
             \/ WatchdogClose
      BY <1>2, <2>2
         DEF OtherStep, Clear, Compact, Enqueue, CancelRequest, ShutdownInterrupt,
             WatchdogReport, CloseBegin, ForceClose, CloseTurns
    <3>. QED  BY <3>1, <3>2, <3>3
  <2>. QED  BY <2>1, <2>2
<1>. QED  BY <1>1, <1>2 DEF Next, OtherStep

LEMMA OneWorker ==
    ASSUME IInv, NEW c \in Conv, NEW d \in Conv, worker[c].pc # "idle", worker[d].pc # "idle",
           worker[c].turn = worker[d].turn
    PROVE  c = d
  BY DEF IInv, WorkerHasTurn

\* Nobody but its worker and the end of all tasks stops a worker.
LEMMA OtherTasks ==
    ASSUME IInv, OtherStep
    PROVE  \/ /\ active' = active
              /\ \A c \in Conv : \/ worker'[c] = worker[c]
                                 \/ worker[c].pc = "boot" /\ worker'[c] = Idle
           \/ /\ \A c \in Conv : worker'[c] = Idle
              /\ \A t \in Turn : pump'[t] = "off"
              /\ phase' # "up"
<1>1. CASE CloseTurns \/ Crash
  BY <1>1 DEF CloseTurns, Crash, StopTasks
<1>2. CASE ForceClose
  BY <1>2 DEF ForceClose, At
<1>3. CASE ~CloseTurns /\ ~Crash /\ ~ForceClose
  BY <1>3 DEF OtherStep, MonitorStep, MonitorIdle, MonitorBlocks, MonitorStops, Clear, Compact,
               Enqueue, CancelRequest, CancelStep, CancelLookup, CancelClaimInterrupt,
               CancelSendInterrupt, CancelFails, PumpTask, PumpTerminal, PumpFailure, PumpJournal,
               PumpStep, ShutdownInterrupt, ProviderEnds, RuntimeDies, WatchdogReport,
               WatchdogClose, CloseBegin, CloseRuntimes, Boot, Restore, tasks
<1>. QED  BY <1>1, <1>2, <1>3

-----------------------------------------------------------------------------
(* A worker, its handle and the pump of its turn. *)

\* A worker that has registered its turn keeps it in TurnCoordinator._active.
HandleIsKept ==
    \A c \in Conv :
       worker[c].pc \in Streaming \ {"register"} => worker[c].turn \in active

\* A pump that runs has a worker that will wait for it.
PumpHasWorker ==
    \A t \in Turn :
       pump[t] = "on" => \E c \in Conv : worker[c].turn = t /\ worker[c].pc \in Streaming

\* A pump that wrote an outcome wrote it into the row, and one that wrote the
\* provider's had it from the provider.
PumpOutcome ==
    \A t \in Turn : /\ pump[t] \in {"terminal", "failed"} => Ended(t)
                    /\ pump[t] = "terminal" => provider[t] \in ProviderEnd

LEMMA NextHandle ==
    ASSUME IInv, ProviderInv, HandleIsKept, Next
    PROVE  HandleIsKept'
<1>0. TypeOK /\ TakenIsNotActive
  BY DEF IInv, ProviderInv
<1>. USE DEF Streaming
<1>1. CASE OtherStep
  BY <1>1, OtherTasks DEF HandleIsKept, Idle
<1>2. ASSUME NEW d \in Conv, WorkerStep(d)  PROVE HandleIsKept'
  <2>1. SUFFICES ASSUME NEW c \in Conv, worker'[c].pc \in Streaming \ {"register"}
                 PROVE  worker'[c].turn \in active'
    BY DEF HandleIsKept
  <2>2. CASE EarlyStep(d)
    BY <2>1, <2>2 DEF EarlyStep, HandleIsKept, BeforeClaim
  <2>3. CASE ClaimedStep(d)
    <3>1. CASE c = d
      BY <2>1, <2>3, <3>1 DEF ClaimedStep, Works, HandleIsKept, IInv, TypeOK, Worker
    <3>2. CASE c # d
      <4>1. worker'[c] = worker[c] /\ worker[c].turn # worker[d].turn
            /\ worker[c].turn \in Turn
        BY <2>1, <2>3, <3>2, OneWorker DEF ClaimedStep, IInv, WorkerHasTurn
      <4>. QED  BY <2>1, <2>3, <4>1 DEF ClaimedStep, HandleIsKept
    <3>. QED  BY <3>1, <3>2
  <2>4. CASE Pick(d) \/ RefuseBlocked(d) \/ Claim(d) \/ Report(d)
    <3>1. active' = active
      BY <2>4 DEF Pick, RefuseBlocked, Claim, Report, WorkerOnly, tasks
    <3>2. \/ worker' = worker
          \/ /\ \A e \in Conv \ {d} : worker'[e] = worker[e]
             /\ worker'[d].pc \in {"ensure", "load", "close", "abandonClose"}
      <4>1. CASE Pick(d)
        BY <1>0, <4>1 DEF Pick, TypeOK, Idle
      <4>2. CASE RefuseBlocked(d)
        BY <4>2 DEF RefuseBlocked, tasks
      <4>3. CASE Claim(d) \/ Report(d)
        BY <4>3, GotoColumns DEF Claim, Report
      <4>. QED  BY <2>4, <4>1, <4>2, <4>3
    <3>. QED  BY <2>1, <3>1, <3>2 DEF HandleIsKept
  <2>5. CASE Close(d)
    <3>1. worker'[c] = worker[c] /\ c # d /\ worker[d].pc # "idle"
      BY <2>1, <2>5, ReleaseColumns, <1>0 DEF Close, Finish, At
    <3>2. worker[c].turn # worker[d].turn
      BY <2>1, <3>1, OneWorker
    <3>. QED  BY <2>1, <2>5, <3>1, <3>2 DEF HandleIsKept, Close, Finish, T
  <2>6. CASE LostStep(d)
    <3>1. worker'[c] = worker[c] /\ c # d /\ worker[d].pc # "idle"
      BY <2>1, <2>6 DEF LostStep
    <3>2. worker[c].turn # worker[d].turn
      BY <2>1, <3>1, OneWorker
    <3>. QED  BY <2>1, <2>6, <3>1, <3>2 DEF HandleIsKept, LostStep
  <2>. QED  BY <1>0, <1>2, <2>2, <2>3, <2>4, <2>5, <2>6, WorkerCases
<1>. QED  BY <1>1, <1>2 DEF Next, OtherStep

LEMMA NextPump ==
    ASSUME IInv, ProviderInv, PumpHasWorker, PumpOutcome, Next
    PROVE  PumpHasWorker' /\ PumpOutcome'
<1>0. TypeOK /\ TakenIsNotActive
  BY DEF IInv, ProviderInv
<1>. USE DEF Streaming
<1>1. \A t \in Turn : /\ Ended(t) => Ended(t)'
                      /\ Ended(t) => turn'[t].state = turn[t].state
  BY RowsStay DEF Ended
<1>2. \A t \in Turn : pump[t] = "terminal" /\ provider[t] \in ProviderEnd =>
                         provider'[t] \in ProviderEnd
  <2>1. \A t \in Turn : provider[t] \in ProviderEnd =>
           \A c \in Conv : ~(worker[c].turn = t /\ worker[c].pc = "start")
    BY DEF ProviderInv, StartedOnce, BeforeStart, ProviderEnd
  <2>. QED  BY <2>1, NextMoves, <1>0 DEF Moves, ProviderMoves, ProviderEnd
<1>3. CASE OtherStep
  <2>1. CASE \E t \in Turn : PumpTask(t)
    <3>1. PICK t \in Turn : PumpTask(t)
      BY <2>1
    <3>2. /\ worker' = worker /\ provider' = provider /\ pump[t] = "on" /\ pump'[t] # "on"
          /\ \A u \in Turn \ {t} : pump'[u] = pump[u]
      BY <3>1, <1>0 DEF PumpTask, PumpTerminal, PumpFailure, PumpJournal, PumpStep, TypeOK,
                    runtime
    <3>3. pump'[t] = "terminal" => provider[t] \in ProviderEnd
      BY <3>1, <1>0 DEF PumpTask, PumpTerminal, PumpFailure, PumpJournal, PumpStep, TypeOK
    <3>4. pump'[t] \in {"terminal", "failed"} => turn'[t].state \in Terminal
      <4>1. Outcome(t) \in Terminal
        BY DEF Outcome, Terminal
      <4>2. ASSUME NEW s \in Terminal, NEW r, PumpStep(t, s, r),
                   pump'[t] \in {"terminal", "failed"}
            PROVE  turn'[t].state \in Terminal
        <5>1. Recordable(t)
          BY <4>2, <1>0 DEF PumpStep, TypeOK
        <5>. QED  BY <4>2, <5>1, <1>0, PumpColumns
      <4>. QED
        BY <3>1, <4>1, <4>2, <1>0
           DEF PumpTask, PumpTerminal, PumpFailure, PumpJournal, TypeOK, Terminal
    <3>. QED  BY <1>1, <3>2, <3>3, <3>4 DEF PumpHasWorker, PumpOutcome, Ended
  <2>2. CASE CloseTurns \/ Crash
    BY <2>2 DEF CloseTurns, Crash, StopTasks, PumpHasWorker, PumpOutcome
  <2>3. CASE ~CloseTurns /\ ~Crash /\ ~\E t \in Turn : PumpTask(t)
    <3>1. pump' = pump
      BY <1>3, <2>3
         DEF OtherStep, MonitorStep, MonitorIdle, MonitorBlocks, MonitorStops, Clear, Compact,
               Enqueue, CancelRequest, CancelStep, CancelLookup, CancelClaimInterrupt,
               CancelSendInterrupt, CancelFails, ShutdownInterrupt, ProviderEnds, RuntimeDies, WatchdogReport,
               WatchdogClose, CloseBegin, ForceClose, CloseRuntimes, Boot, Restore, tasks
    <3>2. PumpHasWorker'
      <4>1. CASE \A t \in Turn : pump'[t] = "off"
        BY <4>1 DEF PumpHasWorker
      <4>2. CASE \A c \in Conv : \/ worker'[c] = worker[c]
                                 \/ worker[c].pc = "boot" /\ worker'[c] = Idle
        BY <3>1, <4>2 DEF PumpHasWorker
      <4>. QED  BY <1>3, <4>1, <4>2, <3>1, OtherTasks DEF PumpHasWorker
    <3>. QED  BY <1>1, <1>2, <3>1, <3>2 DEF PumpOutcome
  <2>. QED  BY <2>1, <2>2, <2>3
<1>4. ASSUME NEW d \in Conv, WorkerStep(d)  PROVE PumpHasWorker' /\ PumpOutcome'
  <2>1. CASE ClaimedStep(d)
    <3>. DEFINE t == worker[d].turn
    <3>1. t \in Turn /\ \A u \in Turn \ {t} : pump'[u] = pump[u]
      BY <2>1 DEF ClaimedStep, IInv, WorkerHasTurn
    <3>2. \A u \in Turn \ {t} : pump[u] = "on" =>
             \E c \in Conv : worker'[c].turn = u /\ worker'[c].pc \in Streaming
      BY <2>1 DEF ClaimedStep, PumpHasWorker
    <3>3. pump'[t] = "on" => worker'[d].turn = t /\ worker'[d].pc \in Streaming
      <4>1. CASE pump[t] = "on"
        <5>1. worker[d].pc \in Streaming
          BY <2>1, <3>1, <4>1, OneWorker DEF PumpHasWorker, ClaimedStep
        <5>2. worker[d].pc # "await"
          BY <2>1, <4>1, <5>1 DEF ClaimedStep, Works, Lets, Edges
        <5>. QED  BY <2>1, <4>1, <5>1, <5>2 DEF ClaimedStep, Lets, Edges, Works, IInv, TypeOK, Worker
      <4>2. CASE pump[t] # "on"
        BY <2>1, <4>2 DEF ClaimedStep, Works, Edges, IInv, TypeOK, Worker
      <4>. QED  BY <4>1, <4>2
    <3>4. pump'[t] \in {"terminal", "failed"} => pump'[t] = pump[t]
      BY <2>1 DEF ClaimedStep, Works
    <3>. HIDE DEF t
    <3>. QED  BY <1>1, <1>2, <3>1, <3>2, <3>3, <3>4 DEF PumpHasWorker, PumpOutcome
  <2>3. CASE LostStep(d)
    <3>1. /\ worker[d].turn \in Turn /\ pump'[worker[d].turn] = "lost"
          /\ \A u \in Turn \ {worker[d].turn} : pump'[u] = pump[u]
      BY <2>3 DEF LostStep, IInv, WorkerHasTurn
    <3>2. \A u \in Turn \ {worker[d].turn} : pump[u] = "on" =>
             \E c \in Conv : worker'[c].turn = u /\ worker'[c].pc \in Streaming
      BY <2>3 DEF LostStep, PumpHasWorker
    <3>. QED  BY <1>1, <1>2, <3>1, <3>2 DEF PumpHasWorker, PumpOutcome
  <2>2. CASE ~ClaimedStep(d) /\ ~LostStep(d)
    <3>1. pump' = pump
      BY <1>0, <1>4, <2>2, WorkerCases
         DEF Pick, RefuseBlocked, EarlyStep, Claim, Report, Close, WorkerOnly, tasks
    <3>2. \/ worker[d].pc \notin Streaming /\ \A c \in Conv \ {d} : worker'[c] = worker[c]
          \/ worker' = worker
      BY ZenonT(60), <1>0, <1>4, <2>2, WorkerCases, GotoColumns, ReleaseColumns
         DEF Pick, RefuseBlocked, EarlyStep, Claim, Report, Close, WorkerOnly, tasks, TypeOK,
             At, BeforeClaim, Finish
    <3>. QED  BY <1>1, <1>2, <3>1, <3>2 DEF PumpHasWorker, PumpOutcome
  <2>. QED  BY <2>1, <2>2, <2>3
<1>. QED  BY <1>3, <1>4 DEF Next, OtherStep

\* What a step may do to the interrupt of a turn: nobody but a canceller that
\* looks for the handle asks for one while the worker waits.
LEMMA OthersAsk ==
    ASSUME IInv, OtherStep, phase = "up", phase' = "up", NEW t \in Turn,
           turn[t].state # "absent",
           t \in active, ClaimableInterrupt(t)'
    PROVE  \/ \E u \in Canceller : canceller'[u] = [pc |-> "lookup", turn |-> t]
           \/ /\ ClaimableInterrupt(t)
              /\ \A u \in Canceller :
                    /\ canceller[u].turn = t
                    /\ canceller[u].pc \in {"lookup", "claimInterrupt", "failed"}
                    => /\ canceller'[u].turn = t
                       /\ canceller'[u].pc \in {"lookup", "claimInterrupt", "failed"}
<1>0. TypeOK
  BY DEF IInv
<1>. USE DEF ClaimableInterrupt
<1>1. CASE \E u \in Canceller : CancelRequest(u)
  <2>1. PICK u \in Canceller, v \in Turn :
               /\ turn' = RequestCancel(v, "user")
               /\ canceller' = [canceller EXCEPT ![u] = [pc |-> "lookup", turn |-> v]]
               /\ canceller[u].pc = "ready"
    BY <1>1 DEF CancelRequest
  <2>2. CASE v = t
    BY <1>0, <2>1, <2>2 DEF TypeOK
  <2>3. CASE v # t
    <3>1. turn'[t] = turn[t]
      BY <1>0, <2>1, <2>3, RequestCancelColumns
    <3>. QED  BY <1>0, <2>1, <3>1 DEF TypeOK, CancelTask
  <2>. QED  BY <2>2, <2>3
<1>2. CASE \E u \in Canceller : CancelStep(u)
  <2>1. PICK u \in Canceller : CancelStep(u)
    BY <1>2
  <2>2. CASE CancelLookup(u)
    BY <1>0, <2>2 DEF CancelLookup, Step, rows, TypeOK, CancelTask
  <2>3. CASE CancelClaimInterrupt(u)
    <3>1. /\ canceller[u].pc = "claimInterrupt"
          /\ \A v \in Canceller \ {u} : canceller'[v] = canceller[v]
      BY <1>0, <2>3 DEF CancelClaimInterrupt, Step, TypeOK
    <3>2. turn'[t] = turn[t]
      BY <1>0, <2>3 DEF CancelClaimInterrupt, ClaimInterrupt, TypeOK, Row
    <3>3. canceller[u].turn # t
      BY <1>0, <2>3, <3>2 DEF CancelClaimInterrupt, ClaimInterrupt, TypeOK, Row
    <3>. QED  BY <3>1, <3>2, <3>3
  <2>4. CASE CancelSendInterrupt(u)
    <3>1. canceller[u].pc = "interrupt" /\ \A v \in Canceller \ {u} : canceller'[v] = canceller[v]
      BY <1>0, <2>4 DEF CancelSendInterrupt, Step, TypeOK
    <3>2. turn'[t] = turn[t]
      BY <1>0, <2>4 DEF CancelSendInterrupt, SendInterrupt, TypeOK, Row
    <3>. QED  BY <3>1, <3>2
  <2>5. CASE CancelFails(u)
    <3>1. turn'[t] = turn[t] /\ \A v \in Canceller \ {u} : canceller'[v] = canceller[v]
      BY <1>0, <2>5 DEF CancelFails, Step, rows, TypeOK
    <3>2. canceller'[u].pc = "failed" /\ canceller'[u].turn = canceller[u].turn
      BY <1>0, <2>5 DEF CancelFails, Step, TypeOK, CancelTask
    <3>. QED  BY <3>1, <3>2
  <2>. QED  BY <2>1, <2>2, <2>3, <2>4, <2>5 DEF CancelStep
<1>3. CASE ~(\E u \in Canceller : CancelRequest(u)) /\ ~\E u \in Canceller : CancelStep(u)
  <2>1. canceller' = canceller
    BY <1>3
       DEF OtherStep, MonitorStep, MonitorIdle, MonitorBlocks, MonitorStops, Clear, Compact,
               Enqueue, PumpTask, PumpTerminal, PumpFailure, PumpJournal,
               PumpStep, ShutdownInterrupt, ProviderEnds, RuntimeDies, WatchdogReport,
               WatchdogClose, CloseBegin, ForceClose, CloseTurns, CloseRuntimes, Crash, Boot,
               Restore, tasks
  <2>2. ASSUME NEW X, NEW o, turn' = InterruptAll(X, o)  PROVE turn'[t] = turn[t]
    <3>1. t \notin X
      BY <1>0, <2>2, InterruptAllColumns
    <3>. QED  BY <1>0, <2>2, <3>1, InterruptAllColumns
  <2>3. CASE \E v \in Turn : PumpTask(v)
    <3>1. PICK v \in Turn : PumpTask(v)
      BY <2>3
    <3>2. ASSUME NEW s \in Terminal, NEW r, PumpStep(v, s, r)  PROVE turn'[t] = turn[t]
      BY <1>0, <3>2, PumpColumns DEF Terminal, PumpStep
    <3>3. Outcome(v) \in Terminal /\ "interrupted" \in Terminal
      BY DEF Outcome, Terminal
    <3>4. turn'[t] = turn[t]
      BY <3>1, <3>2, <3>3 DEF PumpTask, PumpTerminal, PumpFailure, PumpJournal, rows
    <3>. QED  BY <2>1, <3>4
  <2>4. CASE \E c \in Conv, s \in Source : Enqueue(c, s)
    <3>1. turn'[t] = turn[t]
      BY <1>0, <2>4 DEF Enqueue, TypeOK
    <3>. QED  BY <2>1, <3>1
  <2>5. CASE WatchdogReport
    BY <2>1, <2>2, <2>5 DEF WatchdogReport, MarkUnhealthy
  <2>6. CASE \/ \E c \in Conv : MonitorStep(c) \/ Clear(c) \/ Compact(c)
             \/ \E v \in Turn, end \in ProviderEnd : ProviderEnds(v, end)
             \/ \E g \in Gen : RuntimeDies(g)
             \/ WatchdogClose
    <3>1. turn' = turn
      BY <2>6
         DEF MonitorStep, MonitorIdle, MonitorBlocks, MonitorStops, Clear, Compact,
             ProviderEnds, RuntimeDies, WatchdogClose, rows
    <3>. QED  BY <2>1, <3>1
  <2>. QED
    BY <1>3, <2>3, <2>4, <2>5, <2>6
       DEF OtherStep, ShutdownInterrupt, CloseBegin, ForceClose, CloseTurns, CloseRuntimes,
           Crash, Boot, Restore
<1>. QED  BY <1>1, <1>2, <1>3

LEMMA NextNoLostCancel ==
    ASSUME IInv, ProviderInv, NoTasksWhenDown, HandleIsKept, NoLostCancel, Next
    PROVE  NoLostCancel'
<1>0. TypeOK /\ TakenIsNotActive
  BY DEF IInv, ProviderInv
<1>1. SUFFICES ASSUME phase' = "up", NEW c \in Conv, worker'[c].pc = "await",
                      ClaimableInterrupt(worker[c].turn)'
               PROVE  \E u \in Canceller :
                         /\ canceller'[u].turn = worker'[c].turn
                         /\ canceller'[u].pc \in {"lookup", "claimInterrupt", "failed"}
  BY DEF NoLostCancel, At, T
<1>. DEFINE t == worker[c].turn
<1>2. phase = "up"
  <2>1. \A e \in Conv : ~WorkerStep(e) \/ phase' = phase
    BY <1>0, WorkerCases
       DEF Pick, RefuseBlocked, EarlyStep, Claim, ClaimedStep, LostStep, Report, Close,
           WorkerOnly, daemon
  <2>2. ~Restore
    BY <1>1 DEF Restore, NoTasksWhenDown, Quiet
  <2>. QED
    BY <1>1, <2>1, <2>2
       DEF Next, MonitorStep, MonitorIdle, MonitorBlocks, MonitorStops, Clear, Compact,
               Enqueue, CancelRequest, CancelStep, CancelLookup, CancelClaimInterrupt,
               CancelSendInterrupt, CancelFails, PumpTask, PumpTerminal, PumpFailure, PumpJournal,
               PumpStep, ShutdownInterrupt, ProviderEnds, RuntimeDies, WatchdogReport,
               WatchdogClose, CloseBegin, ForceClose, CloseTurns, CloseRuntimes, Crash, Boot,
               daemon
<1>3. ASSUME worker'[c] = worker[c], ClaimableInterrupt(t)
      PROVE  \E u \in Canceller : /\ canceller[u].turn = t
                                  /\ canceller[u].pc \in {"lookup", "claimInterrupt", "failed"}
  BY <1>1, <1>2, <1>3 DEF NoLostCancel, At, T, ClaimableInterrupt
<1>4. ASSUME worker'[c] = worker[c]  PROVE t \in Turn /\ t \in active /\ turn[t].state # "absent"
  BY <1>1, <1>4 DEF HandleIsKept, Streaming, IInv, WorkerHasTurn
<1>5. CASE OtherStep
  <2>1. worker'[c] = worker[c]
    BY <1>1, <1>5, OtherTasks DEF Idle
  <2>4. \A v \in Turn : v \in active /\ turn[v].state # "absent" /\ ClaimableInterrupt(v)' =>
           \/ \E u \in Canceller : canceller'[u] = [pc |-> "lookup", turn |-> v]
           \/ /\ ClaimableInterrupt(v)
              /\ \A u \in Canceller :
                    /\ canceller[u].turn = v
                    /\ canceller[u].pc \in {"lookup", "claimInterrupt", "failed"}
                    => /\ canceller'[u].turn = v
                       /\ canceller'[u].pc \in {"lookup", "claimInterrupt", "failed"}
    BY <1>1, <1>2, <1>5, OthersAsk
  <2>5. t \in Turn /\ t \in active /\ turn[t].state # "absent"
    BY <1>4, <2>1
  <2>6. /\ turn'[t].state = "cancelling" /\ turn'[t].ident /\ turn'[t].reason = "requested"
        /\ worker'[c].turn = t
    BY <1>1, <2>1 DEF ClaimableInterrupt
  <2>. HIDE DEF t
  <2>7. CASE \E u \in Canceller : canceller'[u] = [pc |-> "lookup", turn |-> t]
    BY <2>6, <2>7
  <2>8. CASE /\ ClaimableInterrupt(t)
             /\ \A u \in Canceller :
                    /\ canceller[u].turn = t
                    /\ canceller[u].pc \in {"lookup", "claimInterrupt", "failed"}
                    => /\ canceller'[u].turn = t
                       /\ canceller'[u].pc \in {"lookup", "claimInterrupt", "failed"}
    BY <1>3, <2>1, <2>6, <2>8
  <2>. QED  BY <2>4, <2>5, <2>6, <2>7, <2>8 DEF ClaimableInterrupt
<1>6. ASSUME NEW d \in Conv, WorkerStep(d)
      PROVE  \E u \in Canceller : /\ canceller'[u].turn = worker'[c].turn
                                  /\ canceller'[u].pc \in {"lookup", "claimInterrupt", "failed"}
  <2>1. canceller' = canceller
    BY <1>0, <1>6, WorkerCases
       DEF Pick, RefuseBlocked, EarlyStep, Claim, ClaimedStep, LostStep, Report, Close,
           WorkerOnly, tasks
  <2>2. worker'[c] = worker[c] /\ ClaimableInterrupt(t)
    <3>1. CASE ClaimedStep(d)
      <4>1. c # d
        BY <1>1, <3>1 DEF ClaimedStep, Works, ClaimableInterrupt, IInv, TypeOK, Worker
      <4>2. worker'[c] = worker[c] /\ t # worker[d].turn /\ t \in Turn
        BY <1>1, <3>1, <4>1, OneWorker DEF ClaimedStep, IInv, WorkerHasTurn
      <4>. QED  BY <1>1, <3>1, <4>2 DEF ClaimedStep, ClaimableInterrupt
    <3>2. CASE EarlyStep(d)
      <4>1. c # d /\ worker'[c] = worker[c]
        BY <1>1, <3>2 DEF EarlyStep, BeforeClaim
      <4>2. t # worker[d].turn /\ t \in Turn
        BY <1>1, <3>2, <4>1, OneWorker DEF EarlyStep, IInv, WorkerHasTurn, BeforeClaim
      <4>. QED  BY <1>1, <3>2, <4>1, <4>2 DEF EarlyStep, ClaimableInterrupt
    <3>3. CASE Pick(d)
      BY <1>0, <1>1, <3>3 DEF Pick, rows, TypeOK, Idle, ClaimableInterrupt
    <3>4. CASE RefuseBlocked(d)
      <4>1. PICK v \in Turn : turn' = TerminalTurn(v, "interrupted")
        BY <3>4 DEF RefuseBlocked
      <4>2. worker'[c] = worker[c]
        BY <3>4 DEF RefuseBlocked, tasks
      <4>. QED
        BY <1>0, <1>1, <1>4, <4>1, <4>2, TerminalTurnColumns DEF ClaimableInterrupt, SameColumns
    <3>5. CASE Claim(d)
      <4>1. c # d /\ worker'[c] = worker[c] /\ worker[d].pc = "claim"
        BY <1>1, <3>5, GotoColumns DEF Claim, At
      <4>2. t # worker[d].turn /\ t \in Turn
        BY <1>1, <4>1, OneWorker DEF IInv, WorkerHasTurn
      <4>3. turn'[t] = turn[t]
        BY <1>0, <3>5, <4>2 DEF Claim, T, TypeOK
      <4>. QED  BY <1>1, <4>1, <4>3 DEF ClaimableInterrupt
    <3>6. CASE Report(d)
      <4>1. worker'[c] = worker[c]
        BY <1>1, <3>6, GotoColumns DEF Report
      <4>2. turn' = InterruptAll(ActiveOn(G(d)), "runtime")
        BY <3>6 DEF Report, MarkUnhealthy
      <4>. QED  BY <1>0, <1>1, <1>4, <4>1, <4>2, InterruptAllColumns DEF ClaimableInterrupt
    <3>7. CASE Close(d)
      BY <1>0, <1>1, <3>7, ReleaseColumns DEF Close, Finish, rows, ClaimableInterrupt
    <3>8. CASE LostStep(d)
      <4>1. c # d /\ worker'[c] = worker[c]
        BY <1>1, <3>8 DEF LostStep
      <4>2. t # worker[d].turn /\ t \in Turn
        BY <1>1, <3>8, <4>1, OneWorker DEF LostStep, IInv, WorkerHasTurn
      <4>. QED  BY <1>1, <3>8, <4>1, <4>2 DEF LostStep, ClaimableInterrupt
    <3>. QED
      BY <1>0, <1>6, <3>1, <3>2, <3>3, <3>4, <3>5, <3>6, <3>7, <3>8, WorkerCases
  <2>. QED  BY <1>3, <2>1, <2>2
<1>. QED  BY <1>5, <1>6 DEF Next, OtherStep

-----------------------------------------------------------------------------
(* Generations, the slot and its lock. *)

\* A worker that starts or closes an app-server.
Holding == {"boot", "retireClose", "close", "abandonClose"}

\* A generation that is not up yet is loaded nowhere and has no turns.
FreshGeneration ==
    \A g \in Gen :
       lease[g] \in {"absent", "starting"} =>
          slot.gen # g /\ g \notin alive /\ \A t \in Turn : turn[t].gen # g

\* Only the loaded generation has a process, and a worker that starts or closes
\* one has the lock of the slot.
LockIsHeld ==
    /\ alive \subseteq {slot.gen}
    /\ \A c \in Conv :
          worker[c].pc \in Holding =>
             /\ slot.lock = "worker"
             /\ IF worker[c].pc = "boot"
                THEN slot.gen = NoGen /\ lease[worker[c].gen] = "starting"
                ELSE slot.gen = worker[c].gen
    /\ \A c, d \in Conv : worker[c].pc \in Holding /\ worker[d].pc \in Holding => c = d

\* A worker knows the generation of the turn it claimed.
ClaimedGeneration ==
    \A c \in Conv :
       /\ worker[c].pc \in Driving \cup {"abandonReport"} =>
             turn[worker[c].turn].gen = worker[c].gen
       /\ worker[c].pc = "report" =>
             turn[worker[c].turn].gen = worker[c].gen \/ provider[worker[c].turn] = "none"

\* A generation is loaded once, its lock held by who starts or closes it.
GenInv == FreshGeneration /\ LockIsHeld /\ ClaimedGeneration

LEMMA EarlyRuntime ==
    ASSUME IInv, NEW c \in Conv, WorkerStep(c), worker[c].pc \in BeforeClaim, ~Claim(c)
    PROVE  \/ EnsureStart(c) \/ Booted(c) \/ BootFails(c) \/ Retire(c) \/ RetireClose(c)
           \/ /\ UNCHANGED <<lease, slot, alive>>
              /\ worker[c].pc \notin Holding /\ worker'[c].pc \notin Holding
<1>. USE DEF At, WorkerOnly, runtime, rows, Holding
<1>0. /\ worker[c].pc # "idle" /\ worker[c] \in Worker
      /\ AfterEnsure(c) \notin Holding /\ AfterIdle(c) \notin Holding /\ TypeOK
  BY DEF BeforeClaim, AfterEnsure, AfterIdle, IInv, TypeOK
<1>1. \A pc : Goto(c, pc) => worker'[c].pc = pc
  BY GotoColumns
<1>2. Release(c) => worker'[c].pc = "idle"
  BY ReleaseColumns
<1>3. CASE EnsureLoaded(c)
  BY <1>0, <1>3 DEF EnsureLoaded, TypeOK, Worker
<1>4. CASE EnsureRefused(c)
  BY <1>2, <1>4 DEF EnsureRefused, GiveUpEnsure
<1>5. CASE Thread(c)
  <2>1. worker'[c].pc \in {"startThread", "read"}
    BY <1>0, <1>1, <1>5 DEF Thread, TypeOK, Worker
  <2>. QED  BY <1>5, <2>1 DEF Thread
<1>6. CASE StartThread(c) \/ StartThreadRejected(c) \/ StartThreadUnknown(c)
  BY <1>1, <1>2, <1>6 DEF StartThread, StartThreadRejected, StartThreadUnknown
<1>7. CASE ActivateNew(c)
  BY <1>0, <1>7 DEF ActivateNew, TypeOK, Worker
<1>8. CASE Attach(c) \/ AttachFails(c) \/ Unbar(c)
  BY <1>1, <1>2, <1>8 DEF Attach, AttachFails, Unbar
<1>9. CASE ReadIdle(c) \/ ReadReloaded(c) \/ ReadActive(c) \/ ReadSystemError(c)
  BY <1>0, <1>1, <1>9 DEF ReadIdle, ReadReloaded, ReadActive, ReadSystemError
<1>10. CASE ReadMismatch(c) \/ ReadFails(c) \/ Bar(c)
  BY <1>1, <1>2, <1>10 DEF ReadMismatch, ReadFails, Bar, GiveUpRecovery
<1>11. CASE Activate(c) \/ Recover(c)
  BY <1>0, <1>1, <1>2, <1>11 DEF Activate, Recover
<1>12. CASE RetireStale(c)
  <2>1. worker'[c].pc \in {"ensure", "idle"}
    BY <1>0, <1>2, <1>12 DEF RetireStale, GiveUpRecovery, TypeOK, Worker
  <2>. QED  BY <1>12, <2>1 DEF RetireStale
<1>13. CASE ResumeIdle(c) \/ ResumeSystemError(c) \/ ClaimFails(c)
  BY <1>1, <1>2, <1>13 DEF ResumeIdle, ResumeSystemError, ClaimFails
<1>14. CASE EffectFails(c) \/ QueuedFails(c)
  BY <1>2, <1>14 DEF EffectFails, QueuedFails
<1>. QED
  BY <1>0, <1>3, <1>4, <1>5, <1>6, <1>7, <1>8, <1>9, <1>10, <1>11, <1>12, <1>13, <1>14
     DEF InputFails, StartedFails, WatchFails, ReportFails,
         WorkerStep, BeforeClaim, Pick, RefuseBlocked, Load, LoadFails,
         LoadForShutdown, Start, StartMismatch, StartRefused, RuntimeUnavailable,
         Started, MarkRunning, MarkFails, Abandon, Register, Recheck,
         WorkerClaimInterrupt, WorkerSendInterrupt, AwaitDone, AwaitFailed,
         AwaitJournal, Report, ReportStale, Close

\* The generation a row was claimed on is the one it keeps.
LEMMA GenStays ==
    ASSUME IInv, TakenIsNotActive, Next
    PROVE  \A t \in Turn : \/ turn'[t].gen = turn[t].gen
                           \/ turn[t].state = "absent" /\ turn'[t].gen = NoGen
                           \/ \E c \in Conv : /\ worker[c].turn = t /\ worker[c].pc = "claim"
                                              /\ Claim(c) /\ turn'[t].gen = worker[c].gen
<1>0. TypeOK
  BY DEF IInv
<1>1. ASSUME NEW c \in Conv, WorkerStep(c)
      PROVE  \A t \in Turn : \/ turn'[t].gen = turn[t].gen
                             \/ /\ worker[c].turn = t /\ worker[c].pc = "claim"
                                /\ Claim(c) /\ turn'[t].gen = worker[c].gen
  <2>1. CASE Pick(c)
    BY <2>1 DEF Pick, rows
  <2>2. CASE RefuseBlocked(c)
    BY <1>0, <2>2, TerminalTurnColumns DEF RefuseBlocked, SameColumns
  <2>3. CASE EarlyStep(c)
    BY <2>3 DEF EarlyStep
  <2>4. CASE Claim(c)
    BY <1>0, <2>4 DEF Claim, T, G, At, TypeOK, Row
  <2>5. CASE ClaimedStep(c)
    BY <2>5 DEF ClaimedStep, KeepsPlace
  <2>6. CASE Report(c)
    BY <1>0, <2>6, InterruptAllColumns DEF Report, MarkUnhealthy, SameColumns
  <2>7. CASE Close(c)
    BY <2>7 DEF Close, rows
  <2>8. CASE LostStep(c)
    BY <2>8 DEF LostStep, KeepsPlace
  <2>. QED  BY <1>1, <2>1, <2>2, <2>3, <2>4, <2>5, <2>6, <2>7, <2>8, WorkerCases
<1>2. CASE \E c \in Conv, s \in Source : Enqueue(c, s)
  BY <1>0, <1>2 DEF Enqueue, TypeOK, Absent
<1>3. CASE \E u \in Canceller : CancelRequest(u) \/ CancelStep(u)
  BY <1>0, <1>3, RequestCancelColumns, InterruptColumns
     DEF CancelRequest, CancelStep, CancelLookup, CancelClaimInterrupt, CancelSendInterrupt,
         CancelFails, SameColumns, rows
<1>4. CASE \E t \in Turn : PumpTask(t) \/ ShutdownInterrupt(t)
  BY <1>0, <1>4, RequestCancelColumns, PumpColumns
     DEF PumpTask, PumpTerminal, PumpFailure, PumpJournal, ShutdownInterrupt, SameColumns, rows
<1>5. CASE WatchdogReport \/ CloseTurns \/ Boot
  <2>1. \E X, o : turn' = InterruptAll(X, o)
    BY <1>5 DEF WatchdogReport, CloseTurns, Boot, MarkUnhealthy
  <2>. QED  BY <1>0, <2>1, InterruptAllColumns DEF SameColumns
<1>6. CASE Restore
  BY <1>0, <1>6, InterruptAllColumns DEF Restore, SameColumns
<1>7. CASE \/ \E c \in Conv : MonitorStep(c) \/ Clear(c) \/ Compact(c)
           \/ \E t \in Turn, end \in ProviderEnd : ProviderEnds(t, end)
           \/ \E g \in Gen : RuntimeDies(g)
           \/ WatchdogClose \/ CloseBegin \/ ForceClose \/ CloseRuntimes \/ Crash
  BY <1>7
     DEF MonitorStep, MonitorIdle, MonitorBlocks, MonitorStops, Clear, Compact, ProviderEnds,
         RuntimeDies, WatchdogClose, CloseBegin, ForceClose, CloseRuntimes, Crash, rows
<1>. QED  BY <1>1, <1>2, <1>3, <1>4, <1>5, <1>6, <1>7 DEF Next

LEMMA OtherLease ==
    ASSUME IInv, OtherStep
    PROVE  \/ WatchdogReport \/ WatchdogClose \/ ForceClose \/ CloseRuntimes \/ Crash \/ Boot
           \/ \E g \in Gen : RuntimeDies(g)
           \/ UNCHANGED <<lease, slot, alive>>
  BY DEF OtherStep, MonitorStep, MonitorIdle, MonitorBlocks, MonitorStops, Clear, Compact,
         Enqueue, CancelRequest, CancelStep, CancelLookup, CancelClaimInterrupt,
         CancelSendInterrupt, CancelFails, PumpTask, PumpTerminal, PumpFailure,
         PumpJournal, PumpStep, ShutdownInterrupt, ProviderEnds, CloseBegin, CloseTurns,
         Restore, rows, runtime

LEMMA HoldersKeepLock ==
    ASSUME LockIsHeld, slot' = slot, alive' \subseteq alive,
           \A c \in Conv : worker'[c].pc \in Holding =>
              /\ worker'[c].pc = worker[c].pc /\ worker'[c].gen = worker[c].gen
              /\ worker[c].pc = "boot" => lease'[worker[c].gen] = lease[worker[c].gen]
    PROVE  LockIsHeld'
  BY DEF LockIsHeld

\* The lock passes with a step of one task, when no other holds it.
LEMMA LockPasses ==
    ASSUME LockIsHeld, NEW c \in Conv,
           worker[c].pc \in Holding \/ slot.lock # "worker",
           \A d \in Conv \ {c} : worker'[d] = worker[d],
           alive' \subseteq {slot'.gen},
           worker'[c].pc \in Holding =>
              /\ slot'.lock = "worker"
              /\ IF worker'[c].pc = "boot"
                 THEN slot'.gen = NoGen /\ lease'[worker'[c].gen] = "starting"
                 ELSE slot'.gen = worker'[c].gen
    PROVE  LockIsHeld'
<1>1. \A d \in Conv \ {c} : worker'[d].pc \notin Holding
  BY DEF LockIsHeld
<1>. QED  BY <1>1 DEF LockIsHeld

LEMMA NextFresh ==
    ASSUME IInv, TakenIsNotActive, GenInv, Next
    PROVE  FreshGeneration'
<1>0. TypeOK /\ NoGen \notin Gen
  BY DEF IInv, NoGen, Gen
<1>1. ASSUME NEW g \in Gen, lease'[g] \in {"absent", "starting"}
      PROVE  /\ lease[g] \in {"absent", "starting"}
             /\ slot'.gen # slot.gen => slot'.gen # g
             /\ g \notin alive' \ alive
  <2>. USE <1>1
  <2>1. ASSUME NEW c \in Conv, WorkerStep(c)
        PROVE  /\ lease[g] \in {"absent", "starting"}
               /\ slot'.gen # slot.gen => slot'.gen # g
               /\ g \notin alive' \ alive
    <3>1. CASE UNCHANGED <<lease, slot, alive>>
      BY <3>1
    <3>2. CASE EnsureStart(c)
      <4>1. slot'.gen = slot.gen /\ alive' = alive
        BY <1>0, <3>2 DEF EnsureStart, TypeOK, Slot
      <4>2. lease[g] \in {"absent", "starting"}
        BY <1>0, <3>2 DEF EnsureStart, TypeOK
      <4>. QED  BY <4>1, <4>2
    <3>3. CASE Booted(c)
      BY <1>0, <3>3 DEF Booted, TypeOK, G, IInv, WorkerHasTurn, At
    <3>4. CASE BootFails(c)
      BY <1>0, <3>4 DEF BootFails, TypeOK, Slot, G, IInv, WorkerHasTurn, At
    <3>5. CASE Retire(c)
      BY <1>0, <3>5 DEF Retire, TypeOK, Slot, G, Worker
    <3>6. CASE RetireClose(c)
      BY <1>0, <3>6 DEF RetireClose, TypeOK, Slot, G, Worker
    <3>7. CASE Report(c)
      BY <1>0, <3>7 DEF Report, MarkUnhealthy, TypeOK, Slot, G, Worker
    <3>8. CASE Close(c)
      BY <1>0, <3>8 DEF Close, CloseProcess, TypeOK, Slot, rows
    <3>. QED
      BY <2>1, <3>1, <3>2, <3>3, <3>4, <3>5, <3>6, <3>7, <3>8, WorkerCases, EarlyRuntime
         DEF Pick, RefuseBlocked, EarlyStep, Claim, ClaimedStep, LostStep, rows, runtime,
             WorkerOnly
  <2>2. ASSUME OtherStep
        PROVE  /\ lease[g] \in {"absent", "starting"}
               /\ slot'.gen # slot.gen => slot'.gen # g
               /\ g \notin alive' \ alive
    <3>1. CASE WatchdogReport
      BY <1>0, <3>1 DEF WatchdogReport, MarkUnhealthy, TypeOK, Slot
    <3>2. CASE WatchdogClose \/ \E h \in Gen : RuntimeDies(h)
      BY <1>0, <3>2 DEF WatchdogClose, CloseProcess, RuntimeDies, rows
    <3>3. CASE ForceClose \/ CloseRuntimes
      BY <1>0, <3>3 DEF ForceClose, CloseRuntimes, CloseSlot, TypeOK
    <3>4. CASE Crash
      BY <1>0, <3>4 DEF Crash
    <3>5. CASE Boot
      BY <1>0, <3>5 DEF Boot, runtime, TypeOK
    <3>6. CASE UNCHANGED <<lease, slot, alive>>
      BY <3>6
    <3>. QED  BY <2>2, <3>1, <3>2, <3>3, <3>4, <3>5, <3>6, OtherLease
  <2>. QED  BY <2>1, <2>2 DEF Next, OtherStep
<1>2. ASSUME NEW g \in Gen, lease[g] \in {"absent", "starting"}, NEW t \in Turn
      PROVE  slot.gen # g /\ g \notin alive /\ turn[t].gen # g /\ turn'[t].gen # g
  <2>1. slot.gen # g /\ g \notin alive /\ turn[t].gen # g
    BY <1>2 DEF GenInv, FreshGeneration
  <2>2. \A c \in Conv : Claim(c) => lease[worker[c].gen] = "ready"
    BY DEF Claim, CanClaim, G
  <2>. QED  BY <1>0, <1>2, <2>1, <2>2, GenStays
<1>3. ASSUME NEW g \in Gen, lease[g] \in {"absent", "starting"}
      PROVE  slot.gen # g /\ g \notin alive
  BY <1>3 DEF GenInv, FreshGeneration
<1>. QED  BY <1>1, <1>2, <1>3 DEF FreshGeneration

LEMMA NextLock ==
    ASSUME IInv, TakenIsNotActive, GenInv, NoTasksWhenDown, Next
    PROVE  LockIsHeld'
<1>0. TypeOK /\ NoGen \notin Gen /\ LockIsHeld
  BY DEF IInv, NoGen, Gen, GenInv
<1>. USE DEF Holding, At, G
<1>1. ASSUME NEW c \in Conv, WorkerStep(c)  PROVE LockIsHeld'
  <2>1. CASE EnsureStart(c)
    <3>1. /\ worker'[c].pc = "boot" /\ lease'[worker'[c].gen] = "starting"
          /\ \A d \in Conv \ {c} : worker'[d] = worker[d]
      BY <1>0, <2>1 DEF EnsureStart, TypeOK, Worker
    <3>. QED  BY <1>0, <2>1, <3>1, LockPasses DEF EnsureStart, LockIsHeld
  <2>2. CASE Booted(c)
    <3>1. worker'[c].pc \notin Holding /\ \A d \in Conv \ {c} : worker'[d] = worker[d]
      BY <2>2, GotoColumns DEF Booted, AfterEnsure
    <3>2. alive = {}
      BY <1>0, <2>2 DEF Booted, LockIsHeld, TypeOK
    <3>. QED  BY <1>0, <2>2, <3>1, <3>2, LockPasses DEF Booted
  <2>3. CASE BootFails(c)
    <3>1. worker'[c].pc \notin Holding /\ \A d \in Conv \ {c} : worker'[d] = worker[d]
      BY <2>3, ReleaseColumns DEF BootFails, GiveUpEnsure
    <3>2. slot'.gen = slot.gen
      BY <1>0, <2>3 DEF BootFails, TypeOK, Slot
    <3>. QED  BY <1>0, <2>3, <3>1, <3>2, LockPasses DEF BootFails, LockIsHeld
  <2>4. CASE Retire(c)
    <3>1. /\ worker'[c].pc = "retireClose" /\ worker'[c].gen = worker[c].gen
          /\ \A d \in Conv \ {c} : worker'[d] = worker[d]
      BY <2>4, GotoColumns DEF Retire
    <3>2. slot'.gen = slot.gen /\ slot'.lock = "worker"
      BY <1>0, <2>4 DEF Retire, TypeOK, Slot
    <3>. QED  BY <1>0, <2>4, <3>1, <3>2, LockPasses DEF Retire, LockIsHeld
  <2>5. CASE RetireClose(c)
    <3>1. worker'[c].pc \in {"ensure", "idle"} /\ \A d \in Conv \ {c} : worker'[d] = worker[d]
      BY <1>0, <2>5, ReleaseColumns DEF RetireClose, GiveUpRecovery, TypeOK, Worker
    <3>2. alive' = {}
      BY <1>0, <2>5 DEF RetireClose, LockIsHeld
    <3>. QED  BY <1>0, <2>5, <3>1, <3>2, LockPasses DEF RetireClose
  <2>6. CASE Report(c)
    <3>1. /\ worker'[c].pc \in {"close", "abandonClose"} /\ worker'[c].gen = worker[c].gen
          /\ \A d \in Conv \ {c} : worker'[d] = worker[d]
      BY <2>6, GotoColumns DEF Report
    <3>2. slot'.gen = slot.gen /\ slot'.lock = "worker" /\ slot.gen = worker[c].gen
      BY <1>0, <2>6 DEF Report, TypeOK, Slot
    <3>. QED  BY <1>0, <2>6, <3>1, <3>2, LockPasses DEF Report, LockIsHeld
  <2>7. CASE Close(c)
    <3>1. worker'[c].pc = "idle" /\ \A d \in Conv \ {c} : worker'[d] = worker[d]
      BY <2>7, ReleaseColumns DEF Close, Finish
    <3>2. alive' = {}
      BY <1>0, <2>7 DEF Close, CloseProcess, LockIsHeld
    <3>. QED  BY <1>0, <2>7, <3>1, <3>2, LockPasses DEF Close, CloseProcess
  <2>8. ASSUME UNCHANGED <<lease, slot, alive>>, worker[c].pc \notin Holding,
               worker'[c].pc \notin Holding,
               worker' = worker \/ \A d \in Conv \ {c} : worker'[d] = worker[d]
        PROVE  LockIsHeld'
    BY <1>0, <2>8, HoldersKeepLock
  <2>9. CASE EarlyStep(c) /\ WorkerStep(c) /\ ~Claim(c)
    BY <2>1, <2>2, <2>3, <2>4, <2>5, <2>8, <2>9, EarlyRuntime DEF EarlyStep
  <2>10. CASE Pick(c)
    BY <1>0, <2>8, <2>10 DEF Pick, rows, runtime, TypeOK, Idle
  <2>11. CASE RefuseBlocked(c)
    BY <2>8, <2>11 DEF RefuseBlocked, runtime, tasks
  <2>12. CASE Claim(c)
    BY <2>8, <2>12, GotoColumns DEF Claim, runtime, WorkerOnly
  <2>13. CASE ClaimedStep(c)
    BY <2>8, <2>13 DEF ClaimedStep, Edges, BeforeClaim
  <2>14. CASE LostStep(c)
    BY <2>8, <2>14 DEF LostStep, BeforeClaim
  <2>. QED
    BY <1>1, <2>6, <2>7, <2>9, <2>10, <2>11, <2>12, <2>13, <2>14, WorkerCases
<1>2. CASE OtherStep
  <2>1. CASE /\ \A c \in Conv : worker'[c] = Idle
             /\ phase' # "up"
    <3>1. alive' \subseteq {slot'.gen}
      BY <1>0, <1>2, OtherLease
         DEF LockIsHeld, WatchdogReport, WatchdogClose, ForceClose, CloseRuntimes, Crash, Boot,
             RuntimeDies, CloseProcess, CloseSlot, TypeOK, Slot, rows, runtime
    <3>. QED  BY <2>1, <3>1 DEF LockIsHeld, Idle
  <2>2. CASE \A c \in Conv : \/ worker'[c] = worker[c]
                             \/ worker[c].pc = "boot" /\ worker'[c] = Idle
    <3>1. CASE UNCHANGED <<lease, slot, alive>>
      BY <1>0, <2>2, <3>1, HoldersKeepLock DEF Idle
    <3>2. CASE \E g \in Gen : RuntimeDies(g)
      BY <1>0, <2>2, <3>2, HoldersKeepLock DEF RuntimeDies, rows, Idle
    <3>3. CASE WatchdogReport
      <4>1. \A c \in Conv : worker'[c] = worker[c] /\ worker[c].pc \notin Holding
        BY <1>0, <3>3 DEF WatchdogReport, LockIsHeld, tasks
      <4>. QED
        BY <1>0, <3>3, <4>1 DEF WatchdogReport, LockIsHeld, TypeOK, Slot
    <3>4. CASE WatchdogClose
      <4>1. \A c \in Conv : worker'[c] = worker[c] /\ worker[c].pc \notin Holding
        BY <1>0, <3>4 DEF WatchdogClose, LockIsHeld, tasks
      <4>2. alive' = {}
        BY <1>0, <3>4 DEF WatchdogClose, CloseProcess, LockIsHeld
      <4>. QED  BY <4>1, <4>2 DEF LockIsHeld
    <3>5. CASE ForceClose
      <4>1. \A c \in Conv : worker'[c].pc \notin Holding
        BY <1>0, <3>5 DEF ForceClose, LockIsHeld, Idle
      <4>. QED  BY <3>5, <4>1 DEF ForceClose, CloseSlot, LockIsHeld
    <3>6. CASE CloseRuntimes
      <4>1. \A c \in Conv : worker'[c].pc \notin Holding
        BY <3>6 DEF CloseRuntimes, NoTasksWhenDown, Quiet, tasks
      <4>. QED  BY <3>6, <4>1 DEF CloseRuntimes, CloseSlot, LockIsHeld
    <3>7. CASE Crash
      BY <3>7 DEF Crash, StopTasks, LockIsHeld, Idle
    <3>8. CASE Boot
      <4>1. \A c \in Conv : worker'[c].pc \notin Holding
        BY <3>8 DEF Boot, NoTasksWhenDown, Quiet
      <4>. QED  BY <1>0, <3>8, <4>1 DEF Boot, runtime, LockIsHeld
    <3>. QED  BY <1>2, <3>1, <3>2, <3>3, <3>4, <3>5, <3>6, <3>7, <3>8, OtherLease
  <2>. QED  BY <1>2, <2>1, <2>2, OtherTasks
<1>. QED  BY <1>1, <1>2 DEF Next, OtherStep

LEMMA NextClaimed ==
    ASSUME IInv, IInv', ProviderInv, GenInv, Next
    PROVE  ClaimedGeneration'
<1>0. TypeOK /\ TakenIsNotActive
  BY DEF IInv, ProviderInv
<1>. USE DEF Driving
<1>1. SUFFICES ASSUME NEW c \in Conv
               PROVE  /\ worker'[c].pc \in Driving \cup {"abandonReport"} =>
                            turn'[worker'[c].turn].gen = worker'[c].gen
                      /\ worker'[c].pc = "report" =>
                            \/ turn'[worker'[c].turn].gen = worker'[c].gen
                            \/ provider'[worker'[c].turn] = "none"
  BY DEF ClaimedGeneration
<1>. DEFINE t == worker[c].turn
<1>2. CASE worker'[c] = worker[c] /\ worker[c].pc \in Driving \cup {"abandonReport", "report"}
  <2>1. t \in Turn /\ turn[t].state # "absent" /\ worker[c].pc # "idle"
    BY <1>2 DEF IInv, WorkerHasTurn
  <2>2. turn'[t].gen = turn[t].gen
    <3>1. \A d \in Conv : worker[d].turn = t /\ worker[d].pc = "claim" => FALSE
      BY <1>2, <2>1, OneWorker
    <3>. QED  BY <1>0, <2>1, <3>1, GenStays
  <2>3. worker[c].pc = "report" /\ provider[t] = "none" => provider'[t] = "none"
    <3>1. \A d \in Conv : worker[d].turn = t /\ worker[d].pc = "start" => d = c
      BY <2>1, OneWorker
    <3>. QED  BY <1>0, <2>1, <3>1, NextMoves DEF Moves, ProviderMoves
  <2>. QED  BY <1>2, <2>2, <2>3 DEF GenInv, ClaimedGeneration
<1>3. CASE OtherStep
  BY <1>2, <1>3, OtherTasks DEF Idle
<1>4. ASSUME NEW d \in Conv, WorkerStep(d), d # c
      PROVE  worker'[c] = worker[c]
  <2>1. CASE Pick(d) \/ RefuseBlocked(d)
    BY <1>0, <1>4, <2>1 DEF Pick, RefuseBlocked, tasks, TypeOK
  <2>2. CASE EarlyStep(d) \/ ClaimedStep(d) \/ LostStep(d)
    BY <1>4, <2>2 DEF EarlyStep, ClaimedStep, LostStep
  <2>3. CASE Claim(d) \/ Report(d) \/ Close(d)
    BY <1>4, <2>3, GotoColumns, ReleaseColumns DEF Claim, Report, Close, Finish
  <2>. QED  BY <1>0, <1>4, <2>1, <2>2, <2>3, WorkerCases
<1>5. CASE WorkerStep(c)
  <2>1. CASE EarlyStep(c)
    BY <2>1 DEF EarlyStep, BeforeClaim, ProviderInv, StartedOnce, BeforeStart
  <2>2. CASE Claim(c)
    <3>1. worker'[c].pc = "load" /\ worker'[c].turn = t /\ worker'[c].gen = worker[c].gen
      BY <2>2, GotoColumns DEF Claim
    <3>2. t \in Turn
      BY <2>2 DEF Claim, At, IInv, WorkerHasTurn
    <3>. QED  BY <1>0, <2>2, <3>1, <3>2 DEF Claim, T, G, TypeOK, Row
  <2>3. CASE ClaimedStep(c)
    BY <2>3 DEF ClaimedStep, Edges, KeepsPlace, GenInv, ClaimedGeneration, IInv, TypeOK, Worker
  <2>4. CASE Pick(c)
    BY <1>0, <2>4 DEF Pick, TypeOK, Idle
  <2>5. CASE RefuseBlocked(c)
    BY <1>2, <2>5 DEF RefuseBlocked, tasks, At
  <2>6. CASE Report(c)
    BY <2>6, GotoColumns DEF Report
  <2>7. CASE Close(c)
    BY <2>7, ReleaseColumns DEF Close, Finish
  <2>8. CASE LostStep(c)
    BY <2>8 DEF LostStep
  <2>. QED  BY <1>0, <1>5, <2>1, <2>2, <2>3, <2>4, <2>5, <2>6, <2>7, <2>8, WorkerCases
<1>. QED  BY <1>2, <1>3, <1>4, <1>5 DEF Next, OtherStep

-----------------------------------------------------------------------------
(* Who will see to a provider turn whose row has ended. *)

\* The generation of the turn was reported or retired, or its process is gone.
Gone(t) == turn[t].gen \in alive => lease[turn[t].gen] \in {"unhealthy", "stopping"}

LEMMA GoneStays ==
    ASSUME IInv, TakenIsNotActive, GenInv, NoTasksWhenDown, Next,
           NEW t \in Turn, turn'[t].gen = turn[t].gen
    PROVE  /\ turn[t].gen \in alive' => turn[t].gen \in alive
           /\ Gone(t) => Gone(t)'
<1>0. TypeOK
  BY DEF IInv
<1>. USE DEF Gone, TypeOK, At, G
<1>1. ASSUME NEW c \in Conv, WorkerStep(c)
      PROVE  /\ turn[t].gen \in alive' => turn[t].gen \in alive
             /\ Gone(t) => Gone(t)'
  <2>1. CASE UNCHANGED <<lease, slot, alive>>
    BY <2>1
  <2>2. CASE EnsureStart(c)
    <3>1. PICK g \in Gen : lease[g] = "absent" /\ lease' = [lease EXCEPT ![g] = "starting"]
      BY <2>2 DEF EnsureStart
    <3>2. alive' = alive
      BY <2>2 DEF EnsureStart
    <3>. QED  BY <1>0, <3>1, <3>2
  <2>3. CASE Booted(c)
    <3>1. lease[worker[c].gen] = "starting" /\ worker[c].gen \in Gen
      BY <2>3 DEF Booted, GenInv, LockIsHeld, Holding, IInv, WorkerHasTurn
    <3>2. turn[t].gen # worker[c].gen
      BY <3>1 DEF GenInv, FreshGeneration
    <3>. QED  BY <1>0, <2>3, <3>2 DEF Booted
  <2>4. CASE BootFails(c)
    <3>1. lease[worker[c].gen] = "starting" /\ worker[c].gen \in Gen
      BY <2>4 DEF BootFails, GenInv, LockIsHeld, Holding, IInv, WorkerHasTurn
    <3>. QED  BY <1>0, <2>4, <3>1 DEF BootFails
  <2>5. CASE Retire(c)
    BY <1>0, <2>5 DEF Retire
  <2>6. CASE RetireClose(c)
    BY <1>0, <2>6 DEF RetireClose
  <2>7. CASE Report(c)
    BY <1>0, <2>7 DEF Report, MarkUnhealthy
  <2>8. CASE Close(c)
    BY <1>0, <2>8 DEF Close, CloseProcess, rows
  <2>. QED
    BY <1>1, <2>1, <2>2, <2>3, <2>4, <2>5, <2>6, <2>7, <2>8, WorkerCases, EarlyRuntime
       DEF Pick, RefuseBlocked, EarlyStep, Claim, ClaimedStep, LostStep, rows, runtime,
           WorkerOnly
<1>2. CASE OtherStep
  <2>1. CASE WatchdogReport
    BY <1>0, <2>1 DEF WatchdogReport, MarkUnhealthy
  <2>2. CASE WatchdogClose
    BY <1>0, <2>2 DEF WatchdogClose, CloseProcess, rows
  <2>3. CASE \E g \in Gen : RuntimeDies(g)
    BY <1>0, <2>3 DEF RuntimeDies, rows
  <2>4. CASE ForceClose \/ CloseRuntimes \/ Crash
    BY <1>0, <2>4 DEF ForceClose, CloseRuntimes, CloseSlot, Crash
  <2>5. CASE Boot
    BY <1>0, <2>5 DEF Boot, runtime, NoTasksWhenDown
  <2>6. CASE UNCHANGED <<lease, slot, alive>>
    BY <2>6
  <2>. QED  BY <1>2, <2>1, <2>2, <2>3, <2>4, <2>5, <2>6, OtherLease
<1>. QED  BY <1>1, <1>2 DEF Next, OtherStep

\* A row that ends under its worker was ended by a report of its generation, or
\* by its own pump.
EndedUnderWorker ==
    phase = "up" =>
       \A c \in Conv :
          Ended(worker[c].turn) =>
             /\ worker[c].pc \in {"load", "start", "started", "mark"} => Gone(worker[c].turn)
             /\ worker[c].pc \in Streaming =>
                   \/ Gone(worker[c].turn)
                   \/ pump[worker[c].turn] \in {"terminal", "failed"}

\* What ends a row while the daemon is up, besides the worker that has it: a
\* report of its generation, or its pump.
LEMMA EndedByOther ==
    ASSUME IInv, ProviderInv, GenInv, PumpHasWorker, Next, phase = "up", phase' = "up",
           NEW t \in Turn, turn[t].state # "queued", ~Ended(t), Ended(t)',
           \A c \in Conv : worker[c].turn = t /\ worker[c].pc # "idle" => ~WorkerStep(c)
    PROVE  \/ Gone(t)'
           \/ /\ pump[t] = "on" /\ worker' = worker /\ provider' = provider
              /\ \/ pump'[t] = "terminal" /\ provider[t] \in ProviderEnd
                 \/ pump'[t] = "failed"
<1>0. TypeOK /\ TakenIsNotActive
  BY DEF IInv, ProviderInv
<1>1. ASSUME NEW g \in Gen, MarkUnhealthy(g)
      PROVE  Gone(t)'
  <2>1. t \in ActiveOn(g)
    BY <1>0, <1>1, InterruptAllColumns DEF MarkUnhealthy, Ended
  <2>2. turn'[t].gen = g
    BY <1>0, <1>1, <2>1, InterruptAllColumns DEF MarkUnhealthy, ActiveOn, SameColumns
  <2>. QED  BY <1>0, <1>1, <2>2 DEF MarkUnhealthy, Gone, TypeOK
<1>2. ASSUME NEW d \in Conv, WorkerStep(d), worker[d].turn # t \/ worker[d].pc = "idle"
      PROVE  Gone(t)'
  <2>1. turn'[t].state = turn[t].state \/ Report(d)
    <3>1. CASE RefuseBlocked(d)
      BY <1>0, <3>1, TerminalTurnColumns DEF RefuseBlocked, IsNextQueued, QueuedIn
    <3>2. CASE Pick(d) \/ Close(d)
      BY <3>2 DEF Pick, Close, rows
    <3>3. CASE Claim(d)
      BY <1>0, <1>2, <3>3 DEF Claim, T, TypeOK, At
    <3>4. CASE EarlyStep(d) \/ ClaimedStep(d) \/ LostStep(d)
      BY <1>2, <3>4 DEF EarlyStep, ClaimedStep, LostStep, BeforeClaim
    <3>. QED  BY <1>0, <1>2, <3>1, <3>2, <3>3, <3>4, WorkerCases
  <2>2. CASE Report(d)
    <3>1. worker[d].gen \in Gen \/ worker[d].gen = NoGen
      BY <1>0 DEF TypeOK, Worker, Gen, NoGen
    <3>2. turn' = InterruptAll(ActiveOn(worker[d].gen), "runtime")
      BY <2>2 DEF Report, MarkUnhealthy, G
    <3>3. t \in ActiveOn(worker[d].gen)
      BY <1>0, <3>2, InterruptAllColumns DEF Ended
    <3>4. turn'[t].gen = worker[d].gen
      BY <1>0, <3>2, <3>3, InterruptAllColumns DEF ActiveOn, SameColumns
    <3>5. worker[d].gen \in Gen => Gone(t)'
      BY <1>1, <2>2 DEF Report, G
    <3>6. alive' \subseteq Gen /\ NoGen \notin Gen
      BY <1>0, <2>2 DEF Report, TypeOK, Gen, NoGen
    <3>. QED  BY <3>1, <3>4, <3>5, <3>6 DEF Gone
  <2>. QED  BY <2>1, <2>2 DEF Ended
<1>3. CASE WatchdogReport
  <2>1. slot.gen \in Gen
    BY <1>0, <1>3 DEF WatchdogReport, TypeOK, Slot, Gen, NoGen
  <2>. QED  BY <1>1, <1>3, <2>1 DEF WatchdogReport
<1>4. ASSUME NEW u \in Turn, PumpTask(u)
      PROVE  /\ pump[t] = "on" /\ worker' = worker /\ provider' = provider
             /\ \/ pump'[t] = "terminal" /\ provider[t] \in ProviderEnd
                \/ pump'[t] = "failed"
  <2>1. PICK s, r : PumpStep(u, s, r)
                    /\ \/ r = "terminal" /\ provider[u] \in ProviderEnd
                       \/ r = "failed"
    BY <1>4 DEF PumpTask, PumpTerminal, PumpFailure, PumpJournal, rows, Ended
  <2>2. u = t /\ Recordable(t)
    BY <1>0, <2>1, PumpColumns DEF Ended
  <2>3. pump'[t] = r
    BY <1>0, <2>1, <2>2 DEF PumpStep, TypeOK
  <2>. QED
    BY <1>4, <2>1, <2>2, <2>3
       DEF PumpStep, PumpTask, PumpTerminal, PumpFailure, PumpJournal, runtime
<1>5. ~\E u \in Canceller : CancelRequest(u) \/ CancelStep(u)
  <2>1. ASSUME NEW u \in Canceller, CancelRequest(u)  PROVE FALSE
    BY <1>0, <2>1, RequestCancelColumns DEF CancelRequest, Ended, Terminal
  <2>2. ASSUME NEW u \in Canceller, CancelStep(u)  PROVE FALSE
    BY <1>0, <2>2, InterruptColumns
       DEF CancelStep, CancelLookup, CancelClaimInterrupt, CancelSendInterrupt, CancelFails,
           Ended, rows
  <2>. QED  BY <2>1, <2>2
<1>6. ~\E c \in Conv, s \in Source : Enqueue(c, s)
  <2>1. SUFFICES ASSUME NEW c \in Conv, NEW s \in Source, Enqueue(c, s)  PROVE FALSE
    OBVIOUS
  <2>2. PICK n \in Turn : turn' = [turn EXCEPT ![n] = [Absent EXCEPT !.state = "queued",
                                     !.conv = c, !.source = s, !.rev = conv[c].rev]]
    BY <2>1 DEF Enqueue
  <2>3. turn'[t].state \in {turn[t].state, "queued"}
    BY <1>0, <2>2 DEF TypeOK, Absent
  <2>. QED  BY <2>3 DEF Ended, Terminal
<1>7. \/ \E d \in Conv : WorkerStep(d)
      \/ WatchdogReport
      \/ \E u \in Turn : PumpTask(u)
  BY <1>5, <1>6
     DEF Next, MonitorStep, MonitorIdle, MonitorBlocks, MonitorStops, Clear, Compact, ProviderEnds,
         RuntimeDies, WatchdogClose, CloseBegin, ForceClose, CloseTurns, CloseRuntimes, Crash,
         ShutdownInterrupt, Boot, Restore, rows, Ended
<1>. QED  BY <1>2, <1>3, <1>4, <1>7

\* What the tasks of a Turn rely on, apart from the properties themselves.
Known == /\ IInv /\ ProviderInv /\ NoTasksWhenDown
         /\ HandleIsKept /\ PumpHasWorker /\ PumpOutcome /\ GenInv

LEMMA ComesUp ==
    ASSUME IInv, TakenIsNotActive, Next, phase' = "up", phase # "up"
    PROVE  Restore
<1>1. \A e \in Conv : ~WorkerStep(e) \/ phase' = phase
  BY WorkerCases
     DEF Pick, RefuseBlocked, EarlyStep, Claim, ClaimedStep, LostStep, Report, Close,
         WorkerOnly, daemon
<1>. QED
  BY <1>1
     DEF Next, MonitorStep, MonitorIdle, MonitorBlocks, MonitorStops, Clear, Compact,
             Enqueue, CancelRequest, CancelStep, CancelLookup, CancelClaimInterrupt,
             CancelSendInterrupt, CancelFails, PumpTask, PumpTerminal, PumpFailure,
             PumpJournal, PumpStep, ShutdownInterrupt, ProviderEnds, RuntimeDies,
             WatchdogReport, WatchdogClose, CloseBegin, ForceClose, CloseTurns,
             CloseRuntimes, Crash, Boot, daemon

LEMMA OthersWait ==
    ASSUME IInv, TakenIsNotActive, NEW c \in Conv, NEW d \in Conv, d # c, WorkerStep(d)
    PROVE  worker'[c] = worker[c]
<1>0. TypeOK
  BY DEF IInv
<1>1. CASE Pick(d) \/ RefuseBlocked(d)
  BY <1>0, <1>1 DEF Pick, RefuseBlocked, tasks, TypeOK
<1>2. CASE EarlyStep(d) \/ ClaimedStep(d) \/ LostStep(d)
  BY <1>2 DEF EarlyStep, ClaimedStep, LostStep
<1>3. CASE Claim(d) \/ Report(d) \/ Close(d)
  BY <1>3, GotoColumns, ReleaseColumns DEF Claim, Report, Close, Finish
<1>. QED  BY <1>1, <1>2, <1>3, WorkerCases

\* A pump that is off for good stays as it is while its turn has a worker.
LEMMA PumpStays ==
    ASSUME IInv, ProviderInv, Next, phase' = "up", NEW t \in Turn,
           pump[t] \in {"terminal", "failed", "lost"}
    PROVE  \/ pump'[t] = pump[t]
           \/ \E c \in Conv : /\ ClaimedStep(c) \/ LostStep(c)
                              /\ WorkerStep(c) /\ worker[c].turn = t
<1>0. TypeOK /\ TakenIsNotActive
  BY DEF IInv, ProviderInv
<1>1. ASSUME NEW d \in Conv, WorkerStep(d)
      PROVE  \/ pump'[t] = pump[t]
             \/ \E c \in Conv : /\ ClaimedStep(c) \/ LostStep(c)
                                /\ WorkerStep(c) /\ worker[c].turn = t
  <2>1. CASE ClaimedStep(d) \/ LostStep(d)
    <3>1. worker[d].turn # t => pump'[t] = pump[t]
      BY <2>1 DEF ClaimedStep, LostStep
    <3>. QED  BY <1>1, <2>1, <3>1
  <2>. QED
    BY <1>0, <1>1, <2>1, WorkerCases
       DEF Pick, RefuseBlocked, EarlyStep, Claim, Report, Close, WorkerOnly, tasks
<1>2. CASE OtherStep
  <2>1. CASE \E v \in Turn : PumpTask(v)
    BY <1>0, <2>1 DEF PumpTask, PumpTerminal, PumpFailure, PumpJournal, PumpStep, TypeOK
  <2>2. CASE ~\E v \in Turn : PumpTask(v)
    <3>1. pump' = pump
      BY <1>2, <2>2
         DEF OtherStep, MonitorStep, MonitorIdle, MonitorBlocks, MonitorStops, Clear, Compact,
             Enqueue, CancelRequest, CancelStep, CancelLookup, CancelClaimInterrupt,
             CancelSendInterrupt, CancelFails, ShutdownInterrupt, ProviderEnds, RuntimeDies,
             WatchdogReport, WatchdogClose, CloseBegin, ForceClose, CloseTurns, CloseRuntimes, Crash, Boot,
             Restore, tasks
    <3>. QED  BY <3>1
  <2>. QED  BY <2>1, <2>2
<1>. QED  BY <1>1, <1>2 DEF Next, OtherStep

LEMMA NextEndedUnderWorker ==
    ASSUME Known, EndedUnderWorker, Next
    PROVE  EndedUnderWorker'
<1>0. TypeOK /\ TakenIsNotActive /\ IInv /\ ProviderInv /\ GenInv
  BY DEF Known, IInv, ProviderInv
<1>. DEFINE Before == {"load", "start", "started", "mark"}
<1>1. SUFFICES ASSUME phase' = "up", NEW c \in Conv,
                      worker'[c].pc \in Before \cup Streaming,
                      Ended(worker[c].turn)'
               PROVE  /\ worker'[c].pc \in Before => Gone(worker[c].turn)'
                      /\ worker'[c].pc \in Streaming =>
                            \/ Gone(worker[c].turn)'
                            \/ pump'[worker'[c].turn] \in {"terminal", "failed"}
  BY DEF EndedUnderWorker
<1>. DEFINE t == worker[c].turn
<1>2. worker[c].pc # "idle" /\ phase = "up" /\ t \in Turn /\ turn[t].state # "absent"
  <2>1. worker[c].pc # "idle"
    <3>1. CASE OtherStep
      BY <1>0, <1>1, <3>1, OtherTasks DEF Idle, Streaming
    <3>2. CASE WorkerStep(c)
      BY ZenonT(60), <1>0, <1>1, <3>2, WorkerCases
         DEF Pick, RefuseBlocked, EarlyStep, Claim, ClaimedStep, LostStep, Report, Close, At,
             BeforeClaim, tasks, Streaming, Idle, TypeOK
    <3>3. ASSUME NEW d \in Conv, d # c, WorkerStep(d)  PROVE worker[c].pc # "idle"
      BY <1>0, <1>1, <3>3, OthersWait DEF Streaming
    <3>. QED  BY <3>1, <3>2, <3>3 DEF Next, OtherStep
  <2>2. phase = "up"
    BY <1>0, <1>1, <2>1, ComesUp DEF Restore, Known, NoTasksWhenDown, Quiet
  <2>. QED  BY <1>0, <2>1, <2>2 DEF IInv, WorkerHasTurn
<1>3. ASSUME worker'[c].turn = t, Ended(t), turn'[t].gen = turn[t].gen,
             Gone(t)
      PROVE  Gone(worker[c].turn)'
  BY <1>0, <1>2, <1>3, GoneStays DEF Known, Gone
<1>4. CASE worker'[c] = worker[c] /\ ~WorkerStep(c)
  <2>1. turn[t].state # "queued" /\ worker[c].pc \in Before \cup Streaming
    BY <1>0, <1>1, <1>4 DEF IInv, ClaimedIsNotQueued, BeforeClaim, Streaming
  <2>2. turn'[t].gen = turn[t].gen
    <3>1. \A d \in Conv : worker[d].turn = t /\ worker[d].pc = "claim" => FALSE
      BY <1>0, <1>2, <2>1, OneWorker DEF Streaming
    <3>. QED  BY <1>0, <1>2, <2>1, <3>1, GenStays
  <2>3. \A d \in Conv : worker[d].turn = t /\ worker[d].pc # "idle" => ~WorkerStep(d)
    BY <1>0, <1>2, <1>4, OneWorker
  <2>4. CASE Ended(t)
    <3>1. pump[t] \in {"terminal", "failed"} => pump'[t] = pump[t]
      <4>1. \A d \in Conv : ClaimedStep(d) \/ LostStep(d) => worker[d].pc # "idle"
        BY DEF ClaimedStep, LostStep
      <4>2. \A d \in Conv : (ClaimedStep(d) \/ LostStep(d)) /\ worker[d].turn = t => ~WorkerStep(d)
        BY <2>3, <4>1
      <4>. QED  BY <1>0, <1>1, <1>2, <4>2, PumpStays
    <3>. QED
      BY <1>1, <1>2, <1>3, <1>4, <2>1, <2>2, <2>4, <3>1 DEF EndedUnderWorker
  <2>5. CASE ~Ended(t)
    <3>1. worker[c].pc \in Before => pump[t] # "on"
      BY <1>0, <1>2, OneWorker DEF Known, PumpHasWorker, Streaming
    <3>2. ASSUME NEW v \in Turn, v = t
          PROVE  \/ Gone(v)'
                 \/ pump[v] = "on" /\ pump'[v] \in {"terminal", "failed"}
      <4>1. Ended(v)'
        BY <1>1, <1>4, <3>2 DEF Ended
      <4>. QED  BY <1>0, <1>1, <1>2, <2>1, <2>3, <2>5, <3>2, <4>1, EndedByOther DEF Known
    <3>. QED  BY <1>1, <1>2, <1>4, <3>1, <3>2 DEF Gone
  <2>. QED  BY <2>4, <2>5
<1>5. CASE WorkerStep(c)
  <2>1. CASE ClaimedStep(c)
    <3>1. /\ worker'[c].turn = t /\ turn'[t].state = turn[t].state
          /\ turn'[t].gen = turn[t].gen
      <4>1. worker'[c].turn = t /\ worker'[c].pc \in Before \cup Streaming
        BY <1>0, <1>1, <2>1 DEF ClaimedStep, Streaming, TypeOK, Worker
      <4>2. turn'[t].state \in Terminal
        BY <1>1, <4>1 DEF Ended
      <4>. QED  BY <2>1, <4>1, <4>2 DEF ClaimedStep, Works, KeepsPlace, Streaming, Terminal
    <3>2. Ended(t)
      BY <1>1, <3>1 DEF Ended
    <3>3. /\ worker[c].pc \in Before \cup Streaming
          /\ worker'[c].pc \in Before => worker[c].pc \in Before
          /\ pump[t] \in {"terminal", "failed"} => pump'[t] = pump[t] \/ Active(t)
      BY <1>1, <2>1 DEF ClaimedStep, Works, Edges, Streaming
    <3>4. ~Active(t)
      BY <3>2 DEF Ended, Active, Terminal, ActiveState
    <3>. QED  BY <1>2, <1>3, <3>1, <3>2, <3>3, <3>4 DEF EndedUnderWorker
  <2>2. CASE EarlyStep(c)
    BY <1>1, <2>2 DEF EarlyStep, BeforeClaim, Streaming
  <2>3. CASE Claim(c)
    <3>1. worker'[c].turn = t
      BY <1>0, <2>3, GotoColumns DEF Claim
    <3>2. turn'[t].state = "starting"
      BY <1>0, <1>2, <2>3 DEF Claim, T, TypeOK, Row
    <3>. QED  BY <1>1, <3>1, <3>2 DEF Ended, Terminal
  <2>4. CASE Pick(c)
    BY <1>2, <2>4 DEF Pick, At
  <2>5. CASE RefuseBlocked(c)
    BY <1>2, <2>5 DEF RefuseBlocked, At
  <2>6. CASE Report(c) \/ Close(c)
    BY <1>0, <1>1, <2>6, GotoColumns, ReleaseColumns DEF Report, Close, Finish, Streaming
  <2>7. CASE LostStep(c)
    BY <1>1, <2>7 DEF LostStep, Streaming
  <2>. QED  BY <1>0, <1>5, <2>1, <2>2, <2>3, <2>4, <2>5, <2>6, <2>7, WorkerCases
<1>6. CASE OtherStep /\ ~WorkerStep(c)
  <2>1. worker'[c] = worker[c]
    BY <1>0, <1>1, <1>6, OtherTasks DEF Idle, Streaming
  <2>. QED  BY <1>4, <1>6, <2>1
<1>7. ASSUME NEW d \in Conv, d # c, WorkerStep(d), ~WorkerStep(c)
      PROVE  worker'[c] = worker[c] /\ ~WorkerStep(c)
  BY <1>0, <1>7, OthersWait
<1>. QED  BY <1>4, <1>5, <1>6, <1>7 DEF Next, OtherStep

\* The worker of a turn that will interrupt it, or report its generation.
SeesTo(c, t) ==
    /\ worker[c].turn = t
    /\ \/ worker[c].pc \in {"started", "mark", "abandon", "abandonReport", "report"}
       \/ worker[c].pc = "await" /\ pump[t] = "failed"
       \/ worker[c].pc # "await" /\ DrivenBy(c, t)

LEMMA NextNoOrphan ==
    ASSUME Known, EndedUnderWorker, NoOrphanProviderTurn, Next
    PROVE  NoOrphanProviderTurn'
<1>0. TypeOK /\ TakenIsNotActive /\ IInv /\ ProviderInv /\ GenInv
  BY DEF Known, IInv, ProviderInv
<1>. USE DEF Driving
<1>1. SUFFICES ASSUME phase' = "up", NEW t \in Turn, ProviderRuns(t)', Ended(t)',
                      turn'[t].state # "failed", pump'[t] # "lost", ~Gone(t)'
               PROVE  \E c \in Conv : SeesTo(c, t)'
  BY DEF NoOrphanProviderTurn, SeesTo, T, Gone, ProviderRuns
<1>2. phase = "up"
  BY <1>0, <1>1, ComesUp DEF Restore, Known, NoTasksWhenDown, runtime, ProviderRuns
<1>3. turn[t].state \notin {"absent", "queued"}
  <2>1. SUFFICES ASSUME turn[t].state \in {"absent", "queued"}  PROVE FALSE
    OBVIOUS
  <2>2. provider[t] = "none"
    BY <1>0, <2>1 DEF ProviderInv, UnclaimedIsNotStarted
  <2>3. \A c \in Conv : worker[c].turn = t => worker[c].pc # "start"
    BY <1>0, <2>1 DEF IInv, WorkerHasTurn, ClaimedIsNotQueued, BeforeClaim
  <2>. QED  BY <1>0, <1>1, <2>2, <2>3, NextMoves DEF Moves, ProviderMoves, ProviderRuns
<1>4. turn'[t].gen = turn[t].gen
  <2>1. \A c \in Conv : Claim(c) => turn[worker[c].turn].state = "queued"
    BY DEF Claim, CanClaim, T
  <2>. QED  BY <1>0, <1>3, <2>1, GenStays
<1>5. ~Gone(t) /\ turn[t].gen \in alive
  BY <1>0, <1>1, <1>4, GoneStays DEF Known, ProviderRuns
<1>6. \A c \in Conv : ~WorkerStep(c) /\ worker[c].pc # "boot" => worker'[c] = worker[c]
  <2>1. CASE OtherStep
    BY <1>0, <1>1, <2>1, OtherTasks
  <2>2. CASE \E d \in Conv : WorkerStep(d)
    BY <1>0, <2>2, OthersWait
  <2>. QED  BY <2>1, <2>2 DEF Next, OtherStep
<1>7. ASSUME NEW c \in Conv, WorkerStep(c), worker[c].turn = t, worker[c].pc # "idle",
             provider[t] # "none"
      PROVE  ClaimedStep(c) \/ Close(c)
  <2>1. worker[c].pc \notin BeforeClaim
    BY <1>0, <1>7 DEF ProviderInv, StartedOnce, BeforeStart
  <2>2. ~Report(c)
    <3>1. SUFFICES ASSUME Report(c)  PROVE FALSE
      OBVIOUS
    <3>2. turn[t].gen = worker[c].gen
      BY <1>0, <1>7, <3>1 DEF Report, At, GenInv, ClaimedGeneration
    <3>3. lease' = [lease EXCEPT ![turn[t].gen] = "unhealthy"]
      BY <3>1, <3>2 DEF Report, MarkUnhealthy, G
    <3>4. turn[t].gen \in Gen
      BY <1>0, <1>5 DEF TypeOK
    <3>. QED  BY <1>0, <1>1, <1>4, <3>3, <3>4 DEF Gone, TypeOK
  <2>. QED
    BY <1>0, <1>1, <1>7, <2>1, <2>2, WorkerCases
       DEF EarlyStep, Claim, Pick, RefuseBlocked, LostStep, At, BeforeClaim
<1>8. CASE provider[t] \notin {"live", "stopping"}
  <2>1. PICK c \in Conv : /\ worker[c].turn = t /\ worker[c].pc = "start"
                          /\ worker'[c].pc \notin BeforeStart
    BY <1>0, <1>1, <1>8, NextMoves DEF Moves, ProviderMoves, ProviderRuns
  <2>2. WorkerStep(c)
    BY <1>6, <2>1 DEF BeforeStart
  <2>3. ClaimedStep(c)
    BY <1>0, <1>1, <2>1, <2>2, WorkerCases
       DEF EarlyStep, Claim, Pick, RefuseBlocked, Report, Close, LostStep, At, BeforeClaim
  <2>4. ~Ended(t)
    BY <1>2, <1>5, <2>1 DEF EndedUnderWorker
  <2>5. worker'[c].pc \in {"started", "abandon", "report"}
    BY <1>1, <1>8, <2>1, <2>3, <2>4
       DEF ClaimedStep, Works, ProviderRuns
  <2>6. worker'[c].turn = t
    BY <1>0, <2>1, <2>3, <2>5 DEF ClaimedStep, TypeOK, Worker
  <2>. QED  BY <2>5, <2>6 DEF SeesTo
<1>9. CASE provider[t] \in {"live", "stopping"} /\ Ended(t)
  <2>1. turn'[t].state = turn[t].state /\ ProviderRuns(t)
    BY <1>0, <1>5, <1>9, RowsStay DEF ProviderRuns
  <2>6. pump[t] # "lost"
    <3>1. ASSUME NEW d \in Conv, worker[d].turn = t, WorkerStep(d),
                 ClaimedStep(d) \/ LostStep(d), pump[t] = "lost"
          PROVE  pump'[t] = "lost"
      BY <1>9, <3>1
         DEF ClaimedStep, LostStep, Works, Ended, Active, Terminal, ActiveState
    <3>. QED  BY <1>0, <1>1, <3>1, PumpStays
  <2>2. PICK c \in Conv : SeesTo(c, t)
    BY <1>1, <1>2, <1>5, <1>9, <2>1, <2>6 DEF NoOrphanProviderTurn, SeesTo, T, Gone
  <2>3. \/ worker[c].pc \in {"abandon", "abandonReport", "report"}
        \/ worker[c].pc \in Streaming /\ pump[t] = "failed"
    BY <1>2, <1>5, <1>9, <2>2
       DEF EndedUnderWorker, SeesTo, DrivenBy, Streaming, Known, PumpOutcome, ProviderEnd
  <2>4. CASE WorkerStep(c)
    <3>1. ClaimedStep(c)
      BY <1>7, <1>9, <2>2, <2>3, <2>4 DEF SeesTo, Streaming, Close, At
    <3>2. worker'[c].pc # "idle"
      <4>1. SUFFICES ASSUME worker'[c].pc = "idle"  PROVE FALSE
        OBVIOUS
      <4>2. Lets(c)
        BY <3>1, <4>1 DEF ClaimedStep, Edges
      <4>3. worker[c].pc \in {"report", "abandonReport"} /\ slot.gen # worker[c].gen
        BY <2>2, <2>3, <4>2 DEF Lets, SeesTo, Streaming
      <4>4. turn[t].gen = worker[c].gen
        BY <1>0, <1>9, <2>2, <4>3 DEF GenInv, ClaimedGeneration, SeesTo
      <4>. QED  BY <1>0, <1>5, <4>3, <4>4 DEF GenInv, LockIsHeld
    <3>3. worker'[c].turn = t
      BY <1>0, <2>2, <3>1, <3>2 DEF ClaimedStep, TypeOK, Worker, SeesTo
    <3>4. pump[t] = "failed" => pump'[t] = "failed"
      BY <1>9, <2>2, <3>1
         DEF ClaimedStep, Works, SeesTo, Ended, Active, Terminal, ActiveState
    <3>. QED
      BY <2>3, <3>1, <3>2, <3>3, <3>4 DEF ClaimedStep, Edges, SeesTo, DrivenBy, T, Streaming
  <2>5. CASE ~WorkerStep(c)
    <3>1. worker'[c] = worker[c] /\ worker[c].pc # "idle" /\ worker[c].turn = t
      BY <1>6, <2>2, <2>3, <2>5 DEF SeesTo, Streaming
    <3>2. pump[t] = "failed" => pump'[t] = "failed"
      <4>1. \A d \in Conv :
               (ClaimedStep(d) \/ LostStep(d)) /\ WorkerStep(d) => worker[d].turn # t
        BY <1>0, <2>5, <3>1, OneWorker DEF ClaimedStep, LostStep
      <4>. QED  BY <1>0, <1>1, <4>1, PumpStays
    <3>. QED  BY <2>3, <3>1, <3>2 DEF SeesTo, DrivenBy, T, Streaming
  <2>. QED  BY <2>4, <2>5
<1>10. CASE provider[t] \in {"live", "stopping"} /\ ~Ended(t)
  <2>1. CASE \E c \in Conv : WorkerStep(c) /\ worker[c].turn = t /\ worker[c].pc # "idle"
    <3>1. PICK c \in Conv : WorkerStep(c) /\ worker[c].turn = t /\ worker[c].pc # "idle"
      BY <2>1
    <3>2. ClaimedStep(c)
      BY <1>1, <1>7, <1>10, <3>1 DEF Close, rows, Ended
    <3>3. worker[c].pc \notin BeforeStart
      BY <1>0, <1>10, <3>1 DEF ProviderInv, StartedOnce
    <3>4. worker'[c].pc \in {"report", "abandonReport"}
      BY <1>1, <1>10, <3>1, <3>2, <3>3
         DEF ClaimedStep, Works, Ended, Terminal, BeforeStart
    <3>5. worker'[c].turn = t
      BY <1>0, <3>1, <3>2, <3>4 DEF ClaimedStep, TypeOK, Worker
    <3>. QED  BY <3>4, <3>5 DEF SeesTo
  <2>2. CASE \A c \in Conv : worker[c].turn = t /\ worker[c].pc # "idle" => ~WorkerStep(c)
    <3>1. /\ pump[t] = "on" /\ worker' = worker /\ pump'[t] = "failed"
      BY <1>0, <1>1, <1>2, <1>3, <1>10, <2>2, EndedByOther
         DEF Known, ProviderEnd, ProviderRuns
    <3>2. PICK c \in Conv : worker[c].turn = t /\ worker[c].pc \in Streaming
      BY <3>1 DEF Known, PumpHasWorker
    <3>. QED  BY <3>1, <3>2 DEF SeesTo, DrivenBy, T, Streaming
  <2>. QED  BY <2>1, <2>2
<1>. QED  BY <1>8, <1>9, <1>10

-----------------------------------------------------------------------------
(* What a worker knows before its claim: its generation, the revision of the *)
(* thread it reads, and how often it has tried to recover the thread.        *)

\* The worker keeps what it knows.
SameKnowledge(c) ==
    /\ worker'[c].gen = worker[c].gen /\ worker'[c].rev = worker[c].rev
    /\ worker'[c].tries = worker[c].tries /\ worker'[c].barrier = worker[c].barrier

\* A revision of a conversation changes with its activation, if that is
\* committed, that of a queued turn when it is attached to the thread it started.
SameRevisions(c) ==
    /\ \/ worker[c].pc = "activate" /\ ActivateRevision(c, worker[c].rev)
       \/ worker[c].pc = "activateNew" /\ ActivateRevision(c, conv[c].made + 1)
       \/ /\ worker[c].pc \notin {"activate", "activateNew"} \/ worker'[c].pc = "idle"
          /\ \A d \in Conv : conv'[d].rev = conv[d].rev /\ conv'[d].made = conv[d].made
    /\ \A t \in Turn : \/ turn'[t].rev = turn[t].rev
                       \/ /\ worker[c].pc = "attach" /\ t = worker[c].turn
                          /\ turn[t].state = "queued"
                          /\ turn'[t].rev = worker[c].rev

\* What it learns when it goes on.
Learns(c) ==
    LET p == worker[c].pc
        q == worker'[c].pc
        k == worker'[c]
    IN  \/ k = Idle /\ q = "idle"
        \/ /\ SameKnowledge(c)
           /\ \/ <<p, q>> \in {<<"startThread", "activateNew">>, <<"attach", "unbarNew">>,
                               <<"unbarNew", "claim">>, <<"unbar", "claim">>,
                               <<"read", "bar">>, <<"resume", "bar">>, <<"read", "report">>,
                               <<"resume", "retire">>, <<"recover", "retire">>,
                               <<"retire", "retireClose">>, <<"thread", "startThread">>,
                               <<"startThread", "report">>}
              \/ p = "boot" /\ q = AfterEnsure(c)
              \/ p = "read" /\ q = AfterIdle(c) /\ ~ThreadBusy(c, worker[c].rev)
              \/ p = "resume" /\ q = "activate" /\ ~ThreadBusy(c, worker[c].rev)
              \/ p = "read" /\ q = "activate" /\ "reload" \in Env
              \/ p = "read" /\ q = "recover" /\ "systemError" \in Env
              \/ p = "activate" /\ q = IF k.tries = 0 THEN "read" ELSE AfterIdle(c)
        \/ /\ p = "ensure" /\ q \in {"boot", AfterEnsure(c)} /\ k.gen \in Gen
           /\ k.rev = worker[c].rev /\ k.tries = worker[c].tries
        \/ /\ p = "thread" /\ q = "read" /\ k.rev = conv[c].rev
           /\ k.gen = worker[c].gen /\ k.tries = worker[c].tries
        \/ /\ p = "activateNew" /\ q = "attach" /\ k.rev = conv[c].made + 1
           /\ k.gen = worker[c].gen /\ k.tries = worker[c].tries
        \/ /\ p \in {"retire", "retireClose"} /\ q = "ensure" /\ k.tries > 0
           /\ k.gen = worker[c].gen /\ k.rev = worker[c].rev

LEMMA ReleaseIsIdle ==
    ASSUME IInv, NEW c \in Conv, Release(c)
    PROVE  worker'[c] = Idle /\ worker'[c].pc = "idle"
  BY DEF Release, Idle, IInv, TypeOK

LEMMA GotoKnows ==
    ASSUME IInv, NEW c \in Conv, NEW pc, Goto(c, pc)
    PROVE  worker'[c].pc = pc /\ SameKnowledge(c)
  BY DEF Goto, SameKnowledge, IInv, TypeOK, Worker

LEMMA EarlyLearns ==
    ASSUME IInv, NEW c \in Conv, WorkerStep(c), worker[c].pc \in BeforeClaim, ~Claim(c)
    PROVE  Learns(c)
<1>0. TypeOK /\ NoGen \notin Gen /\ worker[c] \in Worker /\ worker[c].pc # "idle"
  BY DEF IInv, TypeOK, NoGen, Gen, BeforeClaim
<1>. USE DEF At
<1>1. \A pc : Goto(c, pc) => worker'[c].pc = pc /\ SameKnowledge(c)
  BY GotoKnows
<1>2. Release(c) => worker'[c] = Idle /\ worker'[c].pc = "idle"
  BY ReleaseIsIdle
<1>3. CASE EnsureLoaded(c)
  <2>1. slot.gen \in Gen
    BY <1>0, <1>3 DEF EnsureLoaded, TypeOK, Slot, Gen, NoGen
  <2>. QED  BY <1>0, <1>3, <2>1 DEF EnsureLoaded, Learns, TypeOK, Worker
<1>4. CASE EnsureStart(c)
  BY <1>0, <1>4 DEF EnsureStart, Learns, TypeOK, Worker
<1>5. CASE Booted(c)
  BY <1>1, <1>5 DEF Booted, Learns
<1>6. CASE BootFails(c) \/ EnsureRefused(c)
  BY <1>2, <1>6 DEF BootFails, EnsureRefused, GiveUpEnsure, Learns
<1>7. CASE Thread(c)
  <2>1. CASE conv[c].rev = NoRev
    BY <1>1, <1>7, <2>1 DEF Thread, Learns
  <2>2. CASE conv[c].rev # NoRev
    BY <1>0, <1>7, <2>2 DEF Thread, Learns, TypeOK, Worker
  <2>. QED  BY <2>1, <2>2
<1>8. CASE StartThread(c) \/ StartThreadRejected(c) \/ StartThreadUnknown(c)
  BY <1>1, <1>2, <1>8 DEF StartThread, StartThreadRejected, StartThreadUnknown, Learns
<1>9. CASE ActivateNew(c)
  BY <1>0, <1>9 DEF ActivateNew, Learns, TypeOK, Worker
<1>10. CASE Attach(c) \/ AttachFails(c) \/ Unbar(c)
  BY <1>1, <1>2, <1>10 DEF Attach, AttachFails, Unbar, Learns
<1>11. CASE ReadIdle(c) \/ ReadReloaded(c)
  BY <1>1, <1>11 DEF ReadIdle, ReadReloaded, Learns
<1>12. CASE ReadActive(c) \/ ReadSystemError(c)
  BY <1>1, <1>12 DEF ReadActive, ReadSystemError, Learns
<1>13. CASE ReadMismatch(c) \/ ReadFails(c) \/ Bar(c)
  BY <1>1, <1>2, <1>13 DEF ReadMismatch, ReadFails, Bar, GiveUpRecovery, Learns
<1>14. CASE Activate(c)
  BY <1>1, <1>14 DEF Activate, Learns, SameKnowledge
<1>15. CASE Recover(c) \/ Retire(c)
  BY <1>1, <1>2, <1>15 DEF Recover, Retire, Learns
<1>16. CASE RetireStale(c)
  <2>1. CASE worker[c].tries = 0
    BY <1>0, <1>16, <2>1 DEF RetireStale, Learns, TypeOK, Worker
  <2>2. CASE worker[c].tries # 0
    BY <1>2, <1>16, <2>2 DEF RetireStale, GiveUpRecovery, Learns
  <2>. QED  BY <2>1, <2>2
<1>17. CASE RetireClose(c)
  <2>1. CASE worker[c].tries < 2
    BY <1>0, <1>17, <2>1 DEF RetireClose, Learns, TypeOK, Worker
  <2>2. CASE ~(worker[c].tries < 2)
    BY <1>2, <1>17, <2>2 DEF RetireClose, GiveUpRecovery, Learns
  <2>. QED  BY <2>1, <2>2
<1>18. CASE ResumeIdle(c) \/ ResumeSystemError(c) \/ ClaimFails(c)
  BY <1>1, <1>2, <1>18 DEF ResumeIdle, ResumeSystemError, ClaimFails, Learns
<1>19. CASE EffectFails(c) \/ QueuedFails(c)
  BY <1>2, <1>19 DEF EffectFails, QueuedFails, Learns
<1>. QED
  BY <1>0, <1>3, <1>4, <1>5, <1>6, <1>7, <1>8, <1>9, <1>10, <1>11, <1>12, <1>13, <1>14, <1>15,
     <1>16, <1>17, <1>18, <1>19
     DEF InputFails, StartedFails, WatchFails, ReportFails,
         WorkerStep, BeforeClaim, Pick, RefuseBlocked, Load, LoadFails,
         LoadForShutdown, Start, StartMismatch, StartRefused, RuntimeUnavailable,
         Started, MarkRunning, MarkFails, Abandon, Register, Recheck,
         WorkerClaimInterrupt, WorkerSendInterrupt, AwaitDone, AwaitFailed,
         AwaitJournal, Report, ReportStale, Close

LEMMA EarlyRevisions ==
    ASSUME IInv, NEW c \in Conv, WorkerStep(c), worker[c].pc \in BeforeClaim, ~Claim(c)
    PROVE  SameRevisions(c)
<1>0. TypeOK /\ worker[c].pc # "idle"
  BY DEF IInv, BeforeClaim
<1>. USE DEF At, SameRevisions, T
<1>1. \A t, s : turn' = TerminalTurn(t, s) => \A u \in Turn : turn'[u].rev = turn[u].rev
  BY <1>0, TerminalTurnColumns DEF SameColumns
<1>2. CASE EnsureLoaded(c) \/ EnsureStart(c) \/ Booted(c)
  BY <1>2 DEF EnsureLoaded, EnsureStart, Booted, rows
<1>3. CASE BootFails(c) \/ EnsureRefused(c)
  BY <1>1, <1>3 DEF BootFails, EnsureRefused, GiveUpEnsure
<1>4. CASE Thread(c) \/ StartThread(c)
  BY <1>0, <1>4 DEF Thread, StartThread, SetBarrier, rows, TypeOK, ConvRow
<1>5. CASE StartThreadRejected(c)
  BY <1>0, <1>1, <1>5 DEF StartThreadRejected, TypeOK, ConvRow
<1>16. CASE StartThreadUnknown(c)
  BY <1>0, <1>1, <1>16 DEF StartThreadUnknown, Fence, TypeOK, ConvRow
<1>6. CASE ActivateNew(c) \/ Activate(c)
  BY <1>6 DEF ActivateNew, Activate
<1>7. CASE Attach(c)
  BY <1>0, <1>7 DEF Attach, Attachable, TypeOK, Row
<1>8. CASE AttachFails(c)
  BY <1>0, <1>1, <1>8 DEF AttachFails, Fence, TypeOK, ConvRow
<1>9. CASE Unbar(c)
  BY <1>0, <1>9 DEF Unbar, TypeOK, ConvRow
<1>10. CASE ReadIdle(c) \/ ReadReloaded(c) \/ ReadActive(c) \/ ReadSystemError(c)
  BY <1>10 DEF ReadIdle, ReadReloaded, ReadActive, ReadSystemError, rows
<1>11. CASE ReadMismatch(c)
  BY <1>0, <1>1, <1>11 DEF ReadMismatch, Fence, TypeOK, ConvRow
<1>12. CASE ReadFails(c)
  BY <1>1, <1>12 DEF ReadFails
<1>13. CASE Bar(c)
  BY <1>0, <1>1, <1>13 DEF Bar, GiveUpRecovery, SetBarrier, TypeOK, ConvRow
<1>14. CASE Recover(c) \/ Retire(c) \/ RetireStale(c) \/ RetireClose(c)
  BY <1>1, <1>14 DEF Recover, Retire, RetireStale, RetireClose, GiveUpRecovery
<1>15. CASE ResumeIdle(c) \/ ResumeSystemError(c) \/ ClaimFails(c)
  BY <1>15 DEF ResumeIdle, ResumeSystemError, ClaimFails, rows
<1>17. CASE EffectFails(c)
  BY <1>0, <1>17, ReleaseIsIdle DEF EffectFails, Fence, TypeOK, ConvRow
<1>18. CASE QueuedFails(c)
  BY <1>18, ReleaseIsIdle DEF QueuedFails, rows
<1>. QED
  BY <1>0, <1>2, <1>3, <1>4, <1>5, <1>6, <1>7, <1>8, <1>9, <1>10, <1>11, <1>12, <1>13, <1>14,
     <1>15, <1>16, <1>17, <1>18
     DEF InputFails, StartedFails, WatchFails, ReportFails,
         WorkerStep, BeforeClaim, Pick, RefuseBlocked, Load, LoadFails,
         LoadForShutdown, Start, StartMismatch, StartRefused, RuntimeUnavailable,
         Started, MarkRunning, MarkFails, Abandon, Register, Recheck,
         WorkerClaimInterrupt, WorkerSendInterrupt, AwaitDone, AwaitFailed,
         AwaitJournal, Report, ReportStale, Close

-----------------------------------------------------------------------------
(* The theorems for every environment. *)

\* What the tasks of a Turn rely on: Known, and what it says of a Turn whose row
\* was ended, or cancelled, under its worker.
SafeInv == Known /\ NoLostCancel /\ EndedUnderWorker /\ NoOrphanProviderTurn

LEMMA InitSafe == Init => SafeInv
<1>. SUFFICES ASSUME Init  PROVE SafeInv
  OBVIOUS
<1>1. IInv /\ ProviderInv
  BY InitInv, InitProvider
<1>2. NoTasksWhenDown /\ HandleIsKept /\ PumpHasWorker /\ PumpOutcome
  BY DEF Init, NoTasksWhenDown, HandleIsKept, PumpHasWorker, PumpOutcome, Quiet, Idle, Streaming
<1>3. GenInv
  BY DEF Init, GenInv, FreshGeneration, LockIsHeld, ClaimedGeneration, Idle, Holding, Driving,
         Absent, Gen, NoGen
<1>4. NoLostCancel /\ EndedUnderWorker
  BY DEF Init, NoLostCancel, EndedUnderWorker, Idle, At, Streaming
<1>5. NoOrphanProviderTurn
  BY DEF Init, NoOrphanProviderTurn, ProviderRuns
<1>. QED  BY <1>1, <1>2, <1>3, <1>4, <1>5 DEF SafeInv, Known

LEMMA NextSafe == SafeInv /\ IInv' /\ [Next]_vars => SafeInv'
<1>. SUFFICES ASSUME SafeInv, IInv', [Next]_vars  PROVE SafeInv'
  OBVIOUS
<1>1. CASE Next
  <2>1. IInv /\ ProviderInv /\ TakenIsNotActive /\ GenInv
    BY DEF SafeInv, Known, ProviderInv
  <2>2. ProviderInv' /\ NoTasksWhenDown' /\ HandleIsKept' /\ PumpHasWorker' /\ PumpOutcome'
    BY <1>1, <2>1, NextProvider, NextQuiet, NextHandle, NextPump DEF SafeInv, Known
  <2>3. GenInv'
    BY <1>1, <2>1, NextFresh, NextLock, NextClaimed DEF GenInv, SafeInv, Known
  <2>4. NoLostCancel'
    BY <1>1, <2>1, NextNoLostCancel DEF SafeInv, Known
  <2>5. EndedUnderWorker' /\ NoOrphanProviderTurn'
    BY <1>1, NextEndedUnderWorker, NextNoOrphan DEF SafeInv
  <2>. QED  BY <2>2, <2>3, <2>4, <2>5 DEF SafeInv, Known
<1>2. CASE UNCHANGED vars
  <2>. USE <1>2 DEF vars, rows, runtime, tasks, daemon
  <2>1. ProviderInv'
    BY NextProvider DEF SafeInv, Known
  <2>2. NoTasksWhenDown' /\ HandleIsKept' /\ PumpHasWorker' /\ PumpOutcome'
    BY DEF SafeInv, Known, NoTasksWhenDown, HandleIsKept, PumpHasWorker, PumpOutcome, Active,
           Ended
  <2>3. GenInv'
    BY DEF SafeInv, Known, GenInv, FreshGeneration, LockIsHeld, ClaimedGeneration
  <2>4. NoLostCancel' /\ EndedUnderWorker'
    BY DEF SafeInv, NoLostCancel, EndedUnderWorker, At, T, ClaimableInterrupt, Ended, Gone
  <2>5. NoOrphanProviderTurn'
    BY DEF SafeInv, NoOrphanProviderTurn, DrivenBy, T, ProviderRuns, Ended
  <2>. QED  BY <2>1, <2>2, <2>3, <2>4, <2>5 DEF SafeInv, Known
<1>. QED  BY <1>1, <1>2

\* The worker, the pump, the cancel interactions, the supervisor and the phases
\* of the daemon keep what each of them relies on in the others.
THEOREM Safe == Spec => []SafeInv
  BY InductiveInvariant, InitSafe, NextSafe, PTL DEF Spec

\* A cancellation that comes before its Turn has a handle is not forgotten while a
\* worker waits for that Turn, unless an error of the database is told to its user.
THEOREM CancelIsNotLost == Spec => []NoLostCancel
<1>1. SafeInv => NoLostCancel
  BY DEF SafeInv
<1>. QED  BY <1>1, Safe, PTL

\* A provider turn whose row has ended is about to be abandoned or reported, unless
\* an error of the database took its worker.
THEOREM NoOrphan == Spec => []NoOrphanProviderTurn
<1>1. SafeInv => NoOrphanProviderTurn
  BY DEF SafeInv
<1>. QED  BY <1>1, Safe, PTL

-----------------------------------------------------------------------------
(* What holds as long as no thread is recovered from a systemError. *)

LEMMA WorkersStep ==
    ASSUME IInv, TakenIsNotActive, Next, NEW c \in Conv
    PROVE  worker'[c] = worker[c] \/ worker'[c] = Idle \/ WorkerStep(c)
<1>1. CASE OtherStep
  BY <1>1, OtherTasks
<1>2. CASE \E d \in Conv : WorkerStep(d)
  BY <1>2, OthersWait
<1>. QED  BY <1>1, <1>2 DEF Next, OtherStep

\* Only the worker that took a queued turn makes it active, with a claim.
LEMMA OnlyClaimStarts ==
    ASSUME IInv, TakenIsNotActive, Next, NEW t \in Turn, ~Active(t), Active(t)'
    PROVE  \E c \in Conv : Claim(c) /\ worker[c].turn = t
<1>1. PICK c \in Conv : /\ worker[c].turn = t /\ worker[c].pc \in BeforeClaim
                        /\ worker'[c].pc = "load"
  BY NextMoves DEF Moves, RowMoves, Active, ActiveState, Terminal
<1>2. WorkerStep(c)
  BY <1>1, WorkersStep DEF BeforeClaim, Idle
<1>3. Learns(c) => worker'[c].pc # "load"
  BY DEF Learns, AfterEnsure, AfterIdle
<1>. QED  BY <1>1, <1>2, <1>3, EarlyLearns

\* A worker knows its generation from ensure on.
WorkerHasGen ==
    \A c \in Conv : worker[c].pc \in BeforeClaim \ {"ensure"} => worker[c].gen \in Gen

\* No worker retires a runtime.
Recovering == {"recover", "retire", "retireClose", "resume"}
\* ... because none is about to recover a thread, nor has one done it.
NoRecovery ==
    \A c \in Conv : worker[c].pc \notin Recovering /\ worker[c].tries = 0

LEMMA NextHasGen ==
    ASSUME IInv, TakenIsNotActive, WorkerHasGen, Next
    PROVE  WorkerHasGen'
<1>1. SUFFICES ASSUME NEW c \in Conv, worker'[c].pc \in BeforeClaim \ {"ensure"}
               PROVE  worker'[c].gen \in Gen
  BY DEF WorkerHasGen
<1>2. CASE worker'[c] = worker[c] \/ worker'[c] = Idle
  BY <1>1, <1>2 DEF WorkerHasGen, Idle, BeforeClaim
<1>3. CASE WorkerStep(c)
  <2>1. CASE worker[c].pc \in BeforeClaim /\ ~Claim(c)
    BY <1>1, <1>3, <2>1, EarlyLearns DEF Learns, SameKnowledge, WorkerHasGen, BeforeClaim
  <2>2. CASE Pick(c)
    BY <1>1, <2>2 DEF Pick, IInv, TypeOK, Idle
  <2>6. CASE RefuseBlocked(c)
    BY <1>1, <2>6 DEF RefuseBlocked, tasks, BeforeClaim, At
  <2>3. CASE Claim(c) \/ Report(c) \/ Close(c)
    BY <1>1, <2>3, GotoColumns, ReleaseColumns DEF Claim, Report, Close, Finish, BeforeClaim
  <2>4. CASE ClaimedStep(c) \/ LostStep(c)
    BY <1>1, <2>4 DEF ClaimedStep, LostStep, Edges, BeforeClaim
  <2>. QED  BY <1>3, <2>1, <2>2, <2>3, <2>4, <2>6, WorkerCases DEF EarlyStep
<1>. QED  BY <1>2, <1>3, WorkersStep

LEMMA NextNoRecovery ==
    ASSUME IInv, TakenIsNotActive, NoRecovery, "systemError" \notin Env, Next
    PROVE  NoRecovery'
<1>. USE DEF Recovering
<1>1. SUFFICES ASSUME NEW c \in Conv
               PROVE  worker'[c].pc \notin Recovering /\ worker'[c].tries = 0
  BY DEF NoRecovery
<1>2. CASE worker'[c] = worker[c] \/ worker'[c] = Idle
  BY <1>2 DEF NoRecovery, Idle
<1>3. CASE WorkerStep(c)
  <2>1. CASE worker[c].pc \in BeforeClaim /\ ~Claim(c)
    BY <1>3, <2>1, EarlyLearns
       DEF Learns, SameKnowledge, NoRecovery, AfterEnsure, AfterIdle, Idle
  <2>2. CASE Pick(c)
    BY <2>2 DEF Pick, IInv, TypeOK, Idle
  <2>3. CASE RefuseBlocked(c)
    BY <2>3 DEF RefuseBlocked, tasks, NoRecovery
  <2>4. CASE Claim(c) \/ Report(c) \/ Close(c)
    BY <2>4, GotoColumns, ReleaseColumns DEF Claim, Report, Close, Finish, NoRecovery
  <2>5. CASE ClaimedStep(c)
    BY <2>5 DEF ClaimedStep, Edges, NoRecovery, Idle, IInv, TypeOK, Worker
  <2>6. CASE LostStep(c)
    BY <2>6 DEF LostStep, Idle
  <2>. QED  BY <1>3, <2>1, <2>2, <2>3, <2>4, <2>5, <2>6, WorkerCases DEF EarlyStep
<1>. QED  BY <1>2, <1>3, WorkersStep

\* ActiveOnReadyLease, with the type of the generation.
ActiveHasLease ==
    phase = "up" =>
       \A t \in Turn : Active(t) => turn[t].gen \in Gen /\ lease[turn[t].gen] = "ready"

\* A lease that is ready stays so while the daemon is up, until it is reported.
LEMMA LeaseStaysReady ==
    ASSUME Known, NoRecovery, Next, phase = "up", phase' = "up",
           NEW t \in Turn, Active(t), turn[t].gen \in Gen, lease[turn[t].gen] = "ready"
    PROVE  Active(t)' => lease'[turn[t].gen] = "ready"
<1>0. TypeOK /\ TakenIsNotActive /\ IInv
  BY DEF Known, IInv, ProviderInv
<1>1. ASSUME NEW g, MarkUnhealthy(g)
      PROVE  Active(t)' => lease'[turn[t].gen] = "ready"
  <2>1. CASE turn[t].gen = g
    BY <1>0, <1>1, <2>1, InterruptAllColumns DEF MarkUnhealthy, ActiveOn, Active, ActiveState
  <2>2. CASE turn[t].gen # g
    BY <1>0, <1>1, <2>2 DEF MarkUnhealthy, TypeOK
  <2>. QED  BY <2>1, <2>2
<1>2. ASSUME NEW c \in Conv, WorkerStep(c)
      PROVE  Active(t)' => lease'[turn[t].gen] = "ready"
  <2>1. CASE lease' = lease
    BY <2>1
  <2>2. CASE EnsureStart(c)
    BY <1>0, <2>2 DEF EnsureStart, TypeOK
  <2>3. CASE Booted(c)
    BY <1>0, <2>3 DEF Booted, TypeOK
  <2>4. CASE BootFails(c)
    <3>1. lease[worker[c].gen] = "starting"
      BY <2>4 DEF BootFails, At, Known, GenInv, LockIsHeld, Holding
    <3>. QED  BY <1>0, <2>4, <3>1 DEF BootFails, TypeOK, G
  <2>5. ~Retire(c) /\ ~RetireClose(c)
    BY DEF Retire, RetireClose, At, NoRecovery, Recovering
  <2>6. CASE Report(c)
    BY <1>1, <2>6 DEF Report
  <2>. QED
    BY <1>0, <1>2, <2>1, <2>2, <2>3, <2>4, <2>5, <2>6, WorkerCases, EarlyRuntime
       DEF Pick, RefuseBlocked, EarlyStep, Claim, ClaimedStep, LostStep, Close, rows
<1>3. CASE OtherStep
  <2>1. CASE WatchdogReport
    BY <1>1, <2>1 DEF WatchdogReport
  <2>2. CASE ~WatchdogReport
    <3>1. lease' = lease
      BY <1>0, <1>3, <2>2, OtherLease
         DEF WatchdogClose, ForceClose, CloseRuntimes, Crash, Boot, RuntimeDies, rows
    <3>. QED  BY <3>1
  <2>. QED  BY <2>1, <2>2
<1>. QED  BY <1>2, <1>3 DEF Next, OtherStep

LEMMA NextActiveHasLease ==
    ASSUME Known, WorkerHasGen, NoRecovery, ActiveHasLease, Next
    PROVE  ActiveHasLease'
<1>0. TypeOK /\ TakenIsNotActive /\ IInv
  BY DEF Known, IInv, ProviderInv
<1>1. SUFFICES ASSUME phase' = "up", NEW t \in Turn, Active(t)'
               PROVE  turn'[t].gen \in Gen /\ lease'[turn'[t].gen] = "ready"
  BY DEF ActiveHasLease
<1>2. CASE ~Active(t)
  <2>1. PICK c \in Conv : Claim(c) /\ worker[c].turn = t
    BY <1>0, <1>1, <1>2, OnlyClaimStarts
  <2>2. turn'[t].gen = worker[c].gen /\ worker[c].gen \in Gen
    BY <1>0, <2>1 DEF Claim, T, G, At, TypeOK, Row, WorkerHasGen, BeforeClaim
  <2>. QED  BY <2>1, <2>2 DEF Claim, CanClaim, G
<1>3. CASE Active(t)
  <2>1. turn'[t].gen = turn[t].gen
    <3>1. \A c \in Conv : worker[c].turn = t => worker[c].pc # "claim"
      BY <1>0, <1>3 DEF TakenIsNotActive, BeforeClaim
    <3>. QED  BY <1>0, <1>3, <3>1, GenStays DEF Active, ActiveState
  <2>2. phase = "up"
    BY <1>0, <1>1, <1>3, ComesUp DEF Restore, Known, NoTasksWhenDown
  <2>. QED  BY <1>1, <1>3, <2>1, <2>2, LeaseStaysReady DEF ActiveHasLease
<1>. QED  BY <1>2, <1>3

LEMMA NextStreamEnd ==
    ASSUME Known, ActiveHasLease, StreamEndEndsTurn, Next
    PROVE  StreamEndEndsTurn'
<1>0. TypeOK /\ TakenIsNotActive /\ IInv
  BY DEF Known, IInv, ProviderInv
<1>1. SUFFICES ASSUME phase' = "up", NEW t \in Turn, pump'[t] = "stale"
               PROVE  Ended(t)
  BY <1>0, RowsStay DEF StreamEndEndsTurn, Ended
<1>2. CASE phase # "up"
  <2>1. pump[t] = "stale" /\ phase = "restoring"
    BY <1>0, <1>1, <1>2, ComesUp DEF Restore
  <2>2. turn[t].state \notin {"absent", "queued"} /\ ~Active(t)
    BY <2>1 DEF Known, ProviderInv, UnclaimedIsNotStarted, NoTasksWhenDown
  <2>. QED  BY <1>0, <2>2 DEF TypeOK, Row, TurnState, Active, Ended
<1>3. CASE phase = "up" /\ pump[t] = "stale"
  BY <1>3 DEF StreamEndEndsTurn
<1>4. CASE phase = "up" /\ pump[t] # "stale"
  <2>1. PICK v \in Turn : PumpTask(v)
    <3>1. ASSUME NEW c \in Conv, WorkerStep(c)  PROVE pump'[t] # "stale"
      BY <1>0, <1>4, <3>1, WorkerCases
         DEF Pick, RefuseBlocked, EarlyStep, Claim, ClaimedStep, LostStep, Works, Report,
             Close, WorkerOnly, tasks
    <3>. QED
      BY <1>1, <1>4, <3>1
         DEF Next, MonitorStep, MonitorIdle, MonitorBlocks, MonitorStops, Clear, Compact,
             Enqueue, CancelRequest, CancelStep, CancelLookup, CancelClaimInterrupt,
             CancelSendInterrupt, CancelFails, ShutdownInterrupt, ProviderEnds, RuntimeDies,
             WatchdogReport, WatchdogClose, CloseBegin, ForceClose, CloseTurns, CloseRuntimes, Crash, StopTasks,
             Boot, Restore, tasks
  <2>2. v = t /\ ~Recordable(t) /\ pump[t] = "on"
    BY <1>0, <1>1, <1>4, <2>1
       DEF PumpTask, PumpTerminal, PumpFailure, PumpJournal, PumpStep, TypeOK
  <2>3. ~Active(t)
    BY <1>4, <2>2 DEF ActiveHasLease, Recordable
  <2>. QED  BY <1>0, <2>2, <2>3 DEF IInv, PumpedIsRunning, Active, ActiveState, Ended
<1>. QED  BY <1>2, <1>3, <1>4

LEMMA NextDriven ==
    ASSUME Known, StreamEndEndsTurn, ActiveTurnIsDriven, Next
    PROVE  ActiveTurnIsDriven'
<1>0. TypeOK /\ TakenIsNotActive /\ IInv
  BY DEF Known, IInv, ProviderInv
<1>. USE DEF Driving
<1>1. SUFFICES ASSUME phase' = "up", ~critical', NEW t \in Turn, Active(t)',
                      pump'[t] # "lost"
               PROVE  \E c \in Conv : worker'[c].turn = t /\ worker'[c].pc \in Driving
  BY DEF ActiveTurnIsDriven, DrivenBy, T
<1>2. CASE ~Active(t)
  <2>1. PICK c \in Conv : Claim(c) /\ worker[c].turn = t
    BY <1>0, <1>1, <1>2, OnlyClaimStarts
  <2>. QED  BY <1>0, <2>1, GotoColumns DEF Claim
<1>3. CASE Active(t) /\ pump[t] = "lost"
  <2>1. PICK c \in Conv : /\ ClaimedStep(c) \/ LostStep(c)
                          /\ WorkerStep(c) /\ worker[c].turn = t
    BY <1>0, <1>1, <1>3, PumpStays DEF Known
  <2>2. ClaimedStep(c) /\ worker'[c].pc = "register"
    BY <1>1, <1>3, <2>1 DEF ClaimedStep, Works, LostStep
  <2>3. worker'[c].turn = t
    BY <1>0, <2>1, <2>2 DEF ClaimedStep, TypeOK, Worker
  <2>. QED  BY <2>2, <2>3
<1>4. CASE Active(t) /\ pump[t] # "lost"
  <2>1. phase = "up"
    BY <1>0, <1>1, <1>4, ComesUp DEF Restore, Known, NoTasksWhenDown
  <2>2. ~critical
    <3>1. ASSUME NEW c \in Conv, WorkerStep(c)  PROVE ~critical
      BY <1>0, <1>1, <3>1, WorkerCases
         DEF Pick, RefuseBlocked, EarlyStep, Claim, ClaimedStep, LostStep, Report, Close,
           WorkerOnly, daemon
    <3>. QED
      BY <1>1, <2>1, <3>1
         DEF Next, MonitorStep, MonitorIdle, MonitorBlocks, MonitorStops, Clear, Compact,
             Enqueue, CancelRequest, CancelStep, CancelLookup, CancelClaimInterrupt,
             CancelSendInterrupt, CancelFails, PumpTask, PumpTerminal, PumpFailure, PumpJournal,
             PumpStep, ShutdownInterrupt, ProviderEnds, RuntimeDies, WatchdogReport,
             WatchdogClose, CloseBegin, ForceClose, CloseTurns, CloseRuntimes, Crash, Boot,
             Restore, daemon
  <2>3. PICK c \in Conv : worker[c].turn = t /\ worker[c].pc \in Driving
    BY <1>4, <2>1, <2>2 DEF ActiveTurnIsDriven, DrivenBy, T
  <2>4. CASE WorkerStep(c)
    <3>5. ~Report(c)
      <4>1. SUFFICES ASSUME Report(c)  PROVE FALSE
        OBVIOUS
      <4>2. worker[c].pc = "abandonReport" /\ turn[t].gen = worker[c].gen
        BY <2>3, <4>1 DEF Report, At, Known, GenInv, ClaimedGeneration
      <4>3. t \in ActiveOn(worker[c].gen)
        BY <1>4, <4>2 DEF ActiveOn, Active
      <4>. QED
        BY <1>0, <1>1, <4>1, <4>3, InterruptAllColumns
           DEF Report, MarkUnhealthy, G, Active, ActiveState
    <3>1. ClaimedStep(c)
      BY <1>0, <1>1, <2>3, <2>4, <3>5, WorkerCases
         DEF EarlyStep, Claim, Pick, RefuseBlocked, LostStep, Close, At, BeforeClaim
    <3>2. worker'[c].pc # "idle"
      <4>1. ~Lets(c)
        BY <1>1, <1>4, <2>1, <2>3
           DEF Lets, Active, ActiveState, Ended, Terminal, Known, PumpOutcome,
               StreamEndEndsTurn
      <4>. QED  BY <3>1, <4>1 DEF ClaimedStep, Edges
    <3>3. worker'[c].pc # "report"
      BY <1>1, <1>4, <2>3, <3>1
         DEF ClaimedStep, Works, Edges, Active, ActiveState, Ended, Terminal, Known, PumpOutcome
    <3>4. worker'[c].turn = t
      BY <1>0, <2>3, <3>1, <3>2 DEF ClaimedStep, TypeOK, Worker
    <3>. QED  BY <2>3, <3>1, <3>2, <3>3, <3>4 DEF ClaimedStep, Edges
  <2>5. CASE ~WorkerStep(c)
    <3>1. worker'[c] = worker[c]
      <4>1. CASE OtherStep
        BY <1>0, <1>1, <2>3, <4>1, OtherTasks
      <4>2. CASE \E d \in Conv : WorkerStep(d)
        BY <1>0, <2>5, <4>2, OthersWait
      <4>. QED  BY <4>1, <4>2 DEF Next, OtherStep
    <3>. QED  BY <2>3, <3>1
  <2>. QED  BY <2>4, <2>5
<1>. QED  BY <1>2, <1>3, <1>4

-----------------------------------------------------------------------------
(* The theorems as long as no thread has to be recovered.  The recovery of   *)
(* one thread (_recover_system_error_thread) retires the runtime they all    *)
(* share and leaves a Turn that runs there active on a lease that is         *)
(* stopped, and then without worker and outcome: with "systemError" TLC      *)
(* refutes each of the three statements.                                     *)

\* An active Turn has a ready lease, a task that will end it (unless an error of
\* the database took it), and no stream that
\* has ended without its knowledge.
LeaseInv == /\ WorkerHasGen /\ NoRecovery /\ ActiveHasLease
            /\ StreamEndEndsTurn /\ ActiveTurnIsDriven

LEMMA InitLease == Init => LeaseInv
  BY DEF Init, LeaseInv, WorkerHasGen, NoRecovery, Recovering, ActiveHasLease, StreamEndEndsTurn,
         ActiveTurnIsDriven, Idle, Absent, Active, ActiveState, BeforeClaim

LEMMA NextLease ==
    ASSUME "systemError" \notin Env
    PROVE  Known /\ LeaseInv /\ [Next]_vars => LeaseInv'
<1>. SUFFICES ASSUME Known, LeaseInv, [Next]_vars  PROVE LeaseInv'
  OBVIOUS
<1>0. IInv /\ TakenIsNotActive
  BY DEF Known, ProviderInv
<1>1. CASE Next
  BY <1>0, <1>1, NextHasGen, NextNoRecovery, NextActiveHasLease, NextStreamEnd, NextDriven
     DEF LeaseInv
<1>2. CASE UNCHANGED vars
  BY <1>2
     DEF vars, rows, runtime, tasks, daemon, LeaseInv, WorkerHasGen, NoRecovery, ActiveHasLease,
         StreamEndEndsTurn, ActiveTurnIsDriven, Active, Ended, DrivenBy, T
<1>. QED  BY <1>1, <1>2

\* Claim, start, pump, reports and the watchdog keep lease, driver and row of an
\* active Turn together.
THEOREM Leased ==
    ASSUME "systemError" \notin Env
    PROVE  Spec => []LeaseInv
<1>1. SafeInv => Known
  BY DEF SafeInv
<1>. QED  BY <1>1, Safe, InitLease, NextLease, PTL DEF Spec

\* While the daemon is up an active Turn runs on a lease that is ready: whoever
\* reports a runtime interrupts its Turns in the same transaction.
THEOREM ActiveHasReadyLease ==
    ASSUME "systemError" \notin Env
    PROVE  Spec => []ActiveOnReadyLease
<1>1. LeaseInv => ActiveOnReadyLease
  BY DEF LeaseInv, ActiveHasLease, ActiveOnReadyLease
<1>. QED  BY <1>1, Leased, PTL

\* While the daemon is up, and no shutdown was asked for, an active Turn that no
\* error of the database took from its worker has that worker, or its pump, which
\* will end it.
THEOREM ActiveHasDriver ==
    ASSUME "systemError" \notin Env
    PROVE  Spec => []ActiveTurnIsDriven
<1>1. LeaseInv => ActiveTurnIsDriven
  BY DEF LeaseInv
<1>. QED  BY <1>1, Leased, PTL

\* A pump that finds the stream over leaves its Turn only when its row has ended.
THEOREM StreamEndIsRecorded ==
    ASSUME "systemError" \notin Env
    PROVE  Spec => []StreamEndEndsTurn
<1>1. LeaseInv => StreamEndEndsTurn
  BY DEF LeaseInv
<1>. QED  BY <1>1, Leased, PTL

-----------------------------------------------------------------------------
(* One turn at a time on a provider thread. *)

\* How a step may change the revision of a conversation, of a turn and the one
\* a worker has read.
RevisionMoves(c) ==
    /\ \/ conv'[c].rev = conv[c].rev /\ conv'[c].made = conv[c].made
       \/ ~Live(c) /\ conv'[c].rev = NoRev /\ conv'[c].made = conv[c].made
       \/ /\ WorkerStep(c) /\ worker[c].pc = "activate"
          /\ ActivateRevision(c, worker[c].rev)
       \/ /\ WorkerStep(c) /\ worker[c].pc = "activateNew"
          /\ ActivateRevision(c, conv[c].made + 1)
    /\ \/ worker'[c].rev = worker[c].rev
       \/ worker'[c].rev = NoRev
       \/ worker'[c].rev = conv[c].rev /\ worker[c].pc = "thread" /\ WorkerStep(c)
       \/ worker'[c].rev = conv[c].made + 1 /\ ActivateRevision(c, conv[c].made + 1)

\* How a step may change the revision of a turn.
TurnRevisionMoves(t) ==
    \/ turn'[t].rev = turn[t].rev /\ turn'[t].conv = turn[t].conv
    \/ /\ turn[t].state = "absent" /\ turn'[t].conv \in Conv
       /\ turn'[t].rev = conv[turn'[t].conv].rev
    \/ /\ turn[t].state = "queued" /\ turn'[t].conv = turn[t].conv /\ turn[t].conv \in Conv
       /\ turn'[t].rev = worker[turn[t].conv].rev

LEMMA OthersRevise ==
    ASSUME IInv, OtherStep
    PROVE  /\ \A c \in Conv :
                 \/ conv'[c].rev = conv[c].rev /\ conv'[c].made = conv[c].made
                 \/ ~Live(c) /\ conv'[c].rev = NoRev /\ conv'[c].made = conv[c].made
           /\ \A t \in Turn : TurnRevisionMoves(t)
<1>0. TypeOK
  BY DEF IInv
<1>1. \A c \in Conv : \/ conv'[c].rev = conv[c].rev /\ conv'[c].made = conv[c].made
                      \/ ~Live(c) /\ conv'[c].rev = NoRev /\ conv'[c].made = conv[c].made
  <2>1. CASE conv' = conv
    BY <2>1
  <2>2. CASE \E c \in Conv : Clear(c)
    BY <1>0, <2>2 DEF Clear, TypeOK, ConvRow
  <2>3. CASE \E c \in Conv : Compact(c)
    BY <1>0, <2>3 DEF Compact, SetBarrier, TypeOK, ConvRow
  <2>4. CASE \E c \in Conv : MonitorIdle(c)
    BY <1>0, <2>4 DEF MonitorIdle, TypeOK, ConvRow
  <2>5. CASE \E c \in Conv : MonitorBlocks(c)
    BY <1>0, <2>5 DEF MonitorBlocks, Fence, TypeOK, ConvRow
  <2>6. CASE CloseTurns \/ Crash
    <3>1. PICK fenced \in SUBSET Conv : StopTasks(fenced)
      BY <2>6 DEF CloseTurns, Crash, Starting
    <3>2. \A c \in Conv : conv'[c] = [conv[c] EXCEPT !.state = "blocked"] \/ conv'[c] = conv[c]
      BY <3>1 DEF StopTasks
    <3>3. \A c \in Conv : conv[c] \in ConvRow
      BY <1>0 DEF TypeOK
    <3>. QED  BY <3>2, <3>3 DEF ConvRow
  <2>. QED
    BY <2>1, <2>2, <2>3, <2>4, <2>5, <2>6
       DEF OtherStep, MonitorStep, Enqueue, CancelRequest, CancelStep, CancelLookup,
           CancelClaimInterrupt, CancelSendInterrupt, CancelFails, PumpTask, PumpTerminal,
           PumpFailure, PumpJournal, PumpStep, ShutdownInterrupt, ProviderEnds, RuntimeDies, WatchdogReport,
           WatchdogClose, CloseBegin, ForceClose, CloseRuntimes, Boot, Restore, rows
<1>2. \A t \in Turn : TurnRevisionMoves(t)
  <2>. USE DEF TurnRevisionMoves, SameColumns
  <2>1. CASE turn' = turn
    BY <2>1
  <2>2. CASE \E c \in Conv, s \in Source : Enqueue(c, s)
    <3>1. PICK c \in Conv, s \in Source, n \in Turn :
                 /\ turn[n].state = "absent"
                 /\ turn' = [turn EXCEPT ![n] = [Absent EXCEPT !.state = "queued",
                                     !.conv = c, !.source = s, !.rev = conv[c].rev]]
      BY <2>2 DEF Enqueue
    <3>2. turn'[n].conv = c /\ turn'[n].rev = conv[c].rev
      BY <1>0, <3>1 DEF TypeOK, Absent
    <3>. QED  BY <1>0, <3>1, <3>2 DEF TypeOK
  <2>3. CASE \E u \in Canceller : CancelRequest(u) \/ CancelStep(u)
    BY <1>0, <2>3, RequestCancelColumns, InterruptColumns
       DEF CancelRequest, CancelStep, CancelLookup, CancelClaimInterrupt, CancelSendInterrupt,
           CancelFails, rows
  <2>4. CASE \E t \in Turn : PumpTask(t) \/ ShutdownInterrupt(t)
    BY <1>0, <2>4, RequestCancelColumns, PumpColumns
       DEF PumpTask, PumpTerminal, PumpFailure, PumpJournal, ShutdownInterrupt, rows
  <2>5. CASE \E X, o : turn' = InterruptAll(X, o)
    BY <1>0, <2>5, InterruptAllColumns
  <2>. QED
    BY <2>1, <2>2, <2>3, <2>4, <2>5
       DEF OtherStep, MonitorStep, MonitorIdle, MonitorBlocks, MonitorStops, Clear, Compact,
           ProviderEnds, RuntimeDies, WatchdogReport, MarkUnhealthy, WatchdogClose, CloseBegin,
           ForceClose, CloseTurns, CloseRuntimes, Crash, Boot, Restore, rows
<1>. QED  BY <1>1, <1>2

LEMMA WorkerRevises ==
    ASSUME IInv, TakenIsNotActive, NEW c \in Conv, WorkerStep(c)
    PROVE  /\ RevisionMoves(c)
           /\ \A d \in Conv \ {c} : /\ conv'[d].rev = conv[d].rev /\ conv'[d].made = conv[d].made
                                    /\ worker'[d] = worker[d]
           /\ \A t \in Turn : TurnRevisionMoves(t)
<1>0. TypeOK
  BY DEF IInv
<1>. USE DEF TurnRevisionMoves, RevisionMoves
<1>1. CASE worker[c].pc \in BeforeClaim /\ ~Claim(c)
  <2>1. Learns(c) /\ SameRevisions(c) /\ EarlyStep(c)
    BY <1>1, EarlyLearns, EarlyRevisions, EarlySteps
  <2>2. worker[c].pc # "idle" /\ turn[worker[c].turn].conv = c
    BY <1>1 DEF IInv, WorkerHasTurn, BeforeClaim
  <2>3. \A t \in Turn : TurnRevisionMoves(t)
    BY <2>1, <2>2 DEF SameRevisions, EarlyStep
  <2>4. \A d \in Conv \ {c} : /\ conv'[d].rev = conv[d].rev /\ conv'[d].made = conv[d].made
                              /\ worker'[d] = worker[d]
    <3>1. \A r : ActivateRevision(c, r) => \A d \in Conv \ {c} : conv'[d] = conv[d]
      BY <1>0 DEF ActivateRevision, TypeOK
    <3>. QED  BY <2>1, <3>1 DEF SameRevisions, EarlyStep
  <2>5. RevisionMoves(c)
    BY <1>1, <2>1 DEF SameRevisions, Learns, SameKnowledge, Idle
  <2>. QED  BY <2>3, <2>4, <2>5
<1>2. CASE Pick(c)
  BY <1>0, <1>2 DEF Pick, TypeOK, rows, Idle
<1>3. CASE RefuseBlocked(c)
  BY <1>0, <1>3, TerminalTurnColumns DEF RefuseBlocked, tasks, SameColumns
<1>4. CASE Claim(c)
  <2>1. \A t \in Turn : turn'[t].rev = turn[t].rev /\ turn'[t].conv = turn[t].conv
    BY <1>0, <1>4 DEF Claim, TypeOK, Row
  <2>. QED  BY <1>4, <2>1, GotoColumns DEF Claim
<1>5. CASE ClaimedStep(c)
  BY <1>0, <1>5 DEF ClaimedStep, KeepsPlace, Idle, TypeOK, Worker
<1>6. CASE Report(c)
  BY <1>0, <1>6, GotoColumns, InterruptAllColumns DEF Report, MarkUnhealthy, SameColumns
<1>7. CASE Close(c)
  BY <1>7, ReleaseColumns DEF Close, Finish, rows
<1>8. CASE LostStep(c)
  <2>1. \A t \in Turn : turn'[t].rev = turn[t].rev /\ turn'[t].conv = turn[t].conv
    BY <1>8 DEF LostStep, KeepsPlace
  <2>. QED  BY <1>8, <2>1 DEF LostStep, Idle
<1>. QED  BY <1>1, <1>2, <1>3, <1>4, <1>5, <1>6, <1>7, <1>8, WorkerCases DEF EarlyStep

\* No row and no worker knows a revision that was not made.
Revisions ==
    /\ \A c \in Conv : conv[c].rev <= conv[c].made /\ worker[c].rev <= conv[c].made
    /\ \A t \in Turn, c \in Conv : turn[t].conv = c => turn[t].rev <= conv[c].made

\* From its read of the thread to turn/start nothing else runs there.  A thread
\* that had to be loaded is read again, one that was recovered is not.
AfterRead == {"unbar", "claim", "load", "start", "attach", "unbarNew"}
HasRead(w) == w.pc \in AfterRead \/ (w.pc = "activate" /\ w.tries # 0)
ThreadIsFree ==
    \A c \in Conv :
       /\ HasRead(worker[c]) => ~ThreadBusy(c, worker[c].rev)
       /\ worker[c].pc \in {"thread", "read"} => worker[c].tries = 0

\* The revision a worker has read is the one its turn will be claimed on.
KnowsRevision(w) ==
    \/ w.pc \in {"read", "bar", "activate", "unbar", "claim", "recover", "retire",
                 "retireClose", "resume", "attach", "unbarNew"}
    \/ w.pc \in {"ensure", "boot"} /\ w.tries > 0

\* A worker that has claimed its turn, or can still claim it, reads its thread.
RevisionKnown ==
    \A c \in Conv :
       /\ worker[c].pc \in {"load", "start"} => turn[worker[c].turn].rev = worker[c].rev
       /\ KnowsRevision(worker[c]) /\ turn[worker[c].turn].state = "queued" =>
             conv[c].rev = worker[c].rev

\* A worker starts a turn on the thread it has found idle, and only there.
ThreadInv == Revisions /\ ThreadIsFree /\ RevisionKnown /\ OneProviderTurn

LEMMA NextRevisionMoves ==
    ASSUME IInv, TakenIsNotActive, Next
    PROVE  /\ \A c \in Conv : RevisionMoves(c)
           /\ \A t \in Turn : TurnRevisionMoves(t)
<1>1. CASE OtherStep
  <2>1. \A c \in Conv : worker'[c].rev = worker[c].rev \/ worker'[c].rev = NoRev
    BY <1>1, OtherTasks DEF Idle
  <2>. QED  BY <1>1, <2>1, OthersRevise DEF RevisionMoves
<1>2. CASE \E c \in Conv : WorkerStep(c)
  BY <1>2, WorkerRevises DEF RevisionMoves
<1>. QED  BY <1>1, <1>2 DEF Next, OtherStep

LEMMA NextRevisions ==
    ASSUME IInv, TakenIsNotActive, Revisions, Next
    PROVE  Revisions'
<1>0. TypeOK /\ MaxRev \in Nat
  BY ConstantsAssumption DEF IInv
<1>1. ASSUME NEW c \in Conv
      PROVE  /\ conv'[c].rev <= conv'[c].made /\ worker'[c].rev <= conv'[c].made
             /\ conv[c].made <= conv'[c].made
  <2>1. /\ conv[c].rev \in Nat /\ conv[c].made \in Nat /\ worker[c].rev \in Nat
        /\ conv[c].rev <= conv[c].made /\ worker[c].rev <= conv[c].made
    BY <1>0 DEF TypeOK, ConvRow, Worker, Revisions
  <2>2. ASSUME NEW r \in Nat, ActivateRevision(c, r)
        PROVE  /\ conv'[c].rev = r
               /\ conv'[c].made = IF r > conv[c].made THEN r ELSE conv[c].made
    BY <1>0, <2>2 DEF ActivateRevision, TypeOK, ConvRow
  <2>3. RevisionMoves(c)
    BY NextRevisionMoves
  <2>4. CASE \E r \in Nat : ActivateRevision(c, r) /\ worker[c].pc \in {"activate", "activateNew"}
    BY <2>1, <2>2, <2>3, <2>4 DEF RevisionMoves, NoRev
  <2>5. CASE ~\E r \in Nat : ActivateRevision(c, r)
    BY <2>1, <2>3, <2>5 DEF RevisionMoves, NoRev
  <2>. QED  BY <2>1, <2>2, <2>3, <2>4, <2>5 DEF RevisionMoves, NoRev
<1>2. ASSUME NEW t \in Turn, NEW c \in Conv, turn'[t].conv = c
      PROVE  turn'[t].rev <= conv'[c].made
  <2>1. /\ turn[t].rev \in Nat /\ conv[c].made \in Nat /\ conv'[c].made \in Nat
        /\ worker[c].rev \in Nat /\ conv[c].rev \in Nat
    BY <1>0, NextInv DEF IInv, TypeOK, Row, ConvRow, Worker
  <2>. QED  BY <1>1, <1>2, <2>1, NextRevisionMoves DEF TurnRevisionMoves, Revisions
<1>. QED  BY <1>1, <1>2 DEF Revisions

\* A provider turn runs after a step if it ran before it, on the same thread, or
\* the worker of its conversation has just started it.
LEMMA RunsFrom ==
    ASSUME Known, Next, NEW t \in Turn, ProviderRuns(t)'
    PROVE  /\ turn'[t].conv = turn[t].conv /\ turn'[t].rev = turn[t].rev
           /\ \/ ProviderRuns(t)
              \/ \E c \in Conv : /\ worker[c].turn = t /\ worker[c].pc = "start"
                                 /\ worker'[c].pc \notin BeforeStart /\ turn[t].conv = c
<1>0. TypeOK /\ TakenIsNotActive /\ IInv
  BY DEF Known, IInv, ProviderInv
<1>1. CASE \E c \in Conv : /\ worker[c].turn = t /\ worker[c].pc = "start"
                           /\ worker'[c].pc \notin BeforeStart
  <2>1. PICK c \in Conv : /\ worker[c].turn = t /\ worker[c].pc = "start"
                          /\ worker'[c].pc \notin BeforeStart
    BY <1>1
  <2>2. turn[t].conv = c /\ turn[t].state \notin {"absent", "queued"}
    BY <1>0, <2>1 DEF IInv, WorkerHasTurn, ClaimedIsNotQueued, BeforeClaim
  <2>3. turn'[t].conv = turn[t].conv /\ turn'[t].rev = turn[t].rev
    BY <1>0, <2>2, NextRevisionMoves DEF TurnRevisionMoves
  <2>. QED  BY <2>1, <2>2, <2>3
<1>2. CASE ~\E c \in Conv : /\ worker[c].turn = t /\ worker[c].pc = "start"
                            /\ worker'[c].pc \notin BeforeStart
  <2>1. provider[t] \in {"live", "stopping"}
    BY <1>0, <1>2, NextMoves DEF Moves, ProviderMoves, ProviderRuns
  <2>2. turn[t].state \notin {"absent", "queued"}
    BY <2>1 DEF Known, ProviderInv, UnclaimedIsNotStarted
  <2>3. turn'[t].conv = turn[t].conv /\ turn'[t].rev = turn[t].rev
    BY <1>0, <2>2, NextRevisionMoves DEF TurnRevisionMoves
  <2>4. turn'[t].gen = turn[t].gen
    <3>1. \A c \in Conv : Claim(c) => turn[worker[c].turn].state = "queued"
      BY DEF Claim, CanClaim, T
    <3>. QED  BY <1>0, <2>2, <3>1, GenStays
  <2>5. turn[t].gen \in alive
    BY <1>0, <2>4, GoneStays DEF Known, ProviderRuns
  <2>. QED  BY <2>1, <2>3, <2>5 DEF ProviderRuns
<1>. QED  BY <1>1, <1>2

LEMMA NextThreadIsFree ==
    ASSUME Known, ThreadInv, Next
    PROVE  ThreadIsFree'
<1>0. TypeOK /\ TakenIsNotActive /\ IInv
  BY DEF Known, IInv, ProviderInv
<1>1. ASSUME NEW c \in Conv, HasRead(worker'[c]), NEW t \in Turn,
             turn'[t].conv = c, turn'[t].rev = worker'[c].rev, ProviderRuns(t)'
      PROVE  FALSE
  <2>1. turn[t].conv = c /\ turn[t].rev = worker'[c].rev /\ ProviderRuns(t)
    <3>1. \A d \in Conv : worker'[d].pc \notin BeforeStart => d # c
      BY <1>1 DEF HasRead, AfterRead, BeforeStart, BeforeClaim
    <3>. QED  BY <1>1, <3>1, RunsFrom
  <2>2. ThreadBusy(c, worker'[c].rev)
    BY <2>1 DEF ThreadBusy
  <2>3. CASE worker'[c] = worker[c] \/ worker'[c] = Idle
    BY <1>1, <2>2, <2>3 DEF ThreadInv, ThreadIsFree, HasRead, AfterRead, Idle
  <2>4. CASE WorkerStep(c)
    <3>1. CASE worker[c].pc \in BeforeClaim /\ ~Claim(c)
      <4>1. Learns(c)
        BY <1>0, <2>4, <3>1, EarlyLearns
      <4>2. CASE worker[c].pc = "activateNew" /\ worker'[c].rev = conv[c].made + 1
        <5>1. turn[t].rev <= conv[c].made /\ turn[t].rev \in Nat /\ conv[c].made \in Nat
          BY <1>0, <2>1, ConstantsAssumption DEF ThreadInv, Revisions, TypeOK, Row, ConvRow
        <5>. QED  BY <2>1, <4>2, <5>1
      <4>3. CASE ~(worker[c].pc = "activateNew" /\ worker'[c].rev = conv[c].made + 1)
        BY <1>1, <2>2, <4>1, <4>3
           DEF Learns, SameKnowledge, ThreadInv, ThreadIsFree, HasRead, AfterRead, AfterIdle,
               AfterEnsure, Idle
      <4>. QED  BY <4>2, <4>3
    <3>2. CASE Pick(c)
      BY <1>0, <1>1, <3>2 DEF Pick, TypeOK, Idle, HasRead, AfterRead
    <3>3. CASE RefuseBlocked(c)
      BY <1>1, <2>2, <3>3 DEF RefuseBlocked, tasks, ThreadInv, ThreadIsFree
    <3>4. CASE Claim(c)
      BY <1>0, <2>2, <3>4, GotoColumns DEF Claim, At, ThreadInv, ThreadIsFree, HasRead, AfterRead
    <3>5. CASE ClaimedStep(c)
      BY <1>0, <1>1, <2>2, <3>5
         DEF ClaimedStep, Edges, HasRead, AfterRead, ThreadInv, ThreadIsFree, TypeOK, Worker
    <3>6. CASE Report(c) \/ Close(c)
      BY <1>0, <1>1, <3>6, GotoColumns, ReleaseColumns
         DEF Report, Close, Finish, HasRead, AfterRead
    <3>7. CASE LostStep(c)
      BY <1>1, <3>7 DEF LostStep, HasRead, AfterRead
    <3>. QED
      BY <1>0, <2>4, <3>1, <3>2, <3>3, <3>4, <3>5, <3>6, <3>7, WorkerCases DEF EarlyStep
  <2>. QED  BY <1>0, <2>3, <2>4, WorkersStep
<1>2. ASSUME NEW c \in Conv, worker'[c].pc \in {"thread", "read"}
      PROVE  worker'[c].tries = 0
  <2>1. CASE worker'[c] = worker[c] \/ worker'[c] = Idle
    BY <1>2, <2>1 DEF ThreadInv, ThreadIsFree, Idle
  <2>2. CASE WorkerStep(c)
    <3>1. CASE worker[c].pc \in BeforeClaim /\ ~Claim(c)
      <4>1. Learns(c)
        BY <1>0, <2>2, <3>1, EarlyLearns
      <4>. QED
        BY <1>2, <4>1
           DEF Learns, SameKnowledge, ThreadInv, ThreadIsFree, AfterIdle, AfterEnsure, Idle
    <3>2. CASE Pick(c)
      BY <1>0, <1>2, <3>2 DEF Pick, TypeOK, Idle
    <3>3. CASE RefuseBlocked(c)
      BY <1>2, <3>3 DEF RefuseBlocked, tasks, At
    <3>4. CASE Claim(c) \/ Report(c) \/ Close(c)
      BY <1>0, <1>2, <3>4, GotoColumns, ReleaseColumns DEF Claim, Report, Close, Finish
    <3>5. CASE ClaimedStep(c) \/ LostStep(c)
      BY <1>2, <3>5 DEF ClaimedStep, LostStep, Edges
    <3>. QED
      BY <1>0, <2>2, <3>1, <3>2, <3>3, <3>4, <3>5, WorkerCases DEF EarlyStep
  <2>. QED  BY <1>0, <2>1, <2>2, WorkersStep
<1>. QED  BY <1>1, <1>2 DEF ThreadIsFree, HasRead, ThreadBusy

LEMMA NextOneProviderTurn ==
    ASSUME Known, ThreadInv, Next
    PROVE  OneProviderTurn'
<1>0. TypeOK /\ TakenIsNotActive /\ IInv
  BY DEF Known, IInv, ProviderInv
<1>1. SUFFICES ASSUME NEW t \in Turn, NEW u \in Turn, ProviderRuns(t)', ProviderRuns(u)',
                      turn'[t].conv = turn'[u].conv, turn'[t].rev = turn'[u].rev, t # u
               PROVE  FALSE
  BY DEF OneProviderTurn
<1>. DEFINE Starts(v, c) == /\ worker[c].turn = v /\ worker[c].pc = "start"
                            /\ turn[v].conv = c
<1>2. /\ turn[t].conv = turn[u].conv /\ turn[t].rev = turn[u].rev
      /\ ProviderRuns(t) \/ \E c \in Conv : Starts(t, c)
      /\ ProviderRuns(u) \/ \E c \in Conv : Starts(u, c)
  <2>1. \A v \in Turn : ProviderRuns(v)' =>
           /\ turn'[v].conv = turn[v].conv /\ turn'[v].rev = turn[v].rev
           /\ ProviderRuns(v) \/ \E c \in Conv : Starts(v, c)
    <3>1. SUFFICES ASSUME NEW v \in Turn, ProviderRuns(v)'
                   PROVE  /\ turn'[v].conv = turn[v].conv /\ turn'[v].rev = turn[v].rev
                          /\ ProviderRuns(v) \/ \E c \in Conv : Starts(v, c)
      OBVIOUS
    <3>. QED  BY <3>1, RunsFrom
  <2>. QED  BY <1>1, <2>1
<1>3. ~(ProviderRuns(t) /\ ProviderRuns(u))
  BY <1>1, <1>2 DEF ThreadInv, OneProviderTurn
<1>4. \A v, w \in Turn, c \in Conv :
         ~(/\ Starts(v, c) /\ ProviderRuns(w)
           /\ turn[v].conv = turn[w].conv /\ turn[v].rev = turn[w].rev)
  <2>1. SUFFICES ASSUME NEW v \in Turn, NEW w \in Turn, NEW c \in Conv,
                        Starts(v, c), ProviderRuns(w),
                        turn[v].conv = turn[w].conv, turn[v].rev = turn[w].rev
                 PROVE  FALSE
    OBVIOUS
  <2>2. turn[v].rev = worker[c].rev /\ ~ThreadBusy(c, worker[c].rev)
    BY <2>1 DEF ThreadInv, ThreadIsFree, RevisionKnown, HasRead, AfterRead
  <2>. QED  BY <2>1, <2>2 DEF ThreadBusy
<1>. HIDE DEF Starts
<1>5. \A v, w \in Turn, c, d \in Conv :
         Starts(v, c) /\ Starts(w, d) /\ turn[v].conv = turn[w].conv => v = w
  BY DEF Starts
<1>. QED  BY <1>1, <1>2, <1>3, <1>4, <1>5

LEMMA NextRevisionKnown ==
    ASSUME Known, ThreadInv, Next
    PROVE  RevisionKnown'
<1>0. TypeOK /\ TakenIsNotActive /\ IInv
  BY DEF Known, IInv, ProviderInv
<1>1. SUFFICES ASSUME NEW c \in Conv
               PROVE  /\ worker'[c].pc \in {"load", "start"} =>
                            turn'[worker'[c].turn].rev = worker'[c].rev
                      /\ KnowsRevision(worker'[c]) /\ turn'[worker'[c].turn].state = "queued" =>
                            conv'[c].rev = worker'[c].rev
  BY DEF RevisionKnown, KnowsRevision
<1>2. CASE worker'[c] = Idle
  BY <1>2 DEF Idle, KnowsRevision
<1>3. CASE worker'[c].pc \in {"load", "start"}
  <2>0. ~KnowsRevision(worker'[c])
    BY <1>3 DEF KnowsRevision
  <2>1. CASE worker[c].pc \in {"load", "start"} /\ worker'[c].turn = worker[c].turn
             /\ worker'[c].rev = worker[c].rev
    <3>1. worker[c].turn \in Turn /\ turn[worker[c].turn].state \notin {"absent", "queued"}
      BY <1>0, <2>1 DEF IInv, WorkerHasTurn, ClaimedIsNotQueued, BeforeClaim
    <3>2. turn'[worker[c].turn].rev = turn[worker[c].turn].rev
      BY <1>0, <3>1, NextRevisionMoves DEF TurnRevisionMoves
    <3>. QED  BY <2>0, <2>1, <3>2 DEF ThreadInv, RevisionKnown
  <2>2. CASE Claim(c)
    <3>0. worker[c].turn \in Turn /\ turn[worker[c].turn] \in Row
      BY <1>0, <2>2 DEF Claim, At, IInv, WorkerHasTurn, TypeOK
    <3>1. /\ turn'[worker[c].turn].rev = turn[worker[c].turn].rev
          /\ worker'[c].rev = worker[c].rev /\ worker'[c].turn = worker[c].turn
      <4>1. worker'[c].rev = worker[c].rev /\ worker'[c].turn = worker[c].turn
        BY <1>0, <2>2, GotoColumns DEF Claim
      <4>2. turn'[worker[c].turn] = [turn[worker[c].turn] EXCEPT !.state = "starting",
                                                               !.gen = worker[c].gen]
        BY <1>0, <2>2, <3>0 DEF Claim, T, G, TypeOK
      <4>. QED  BY <3>0, <4>1, <4>2 DEF Row
    <3>2. /\ turn[worker[c].turn].state = "queued" /\ worker[c].pc = "claim"
          /\ conv[c].rev = turn[worker[c].turn].rev
      BY <2>2 DEF Claim, CanClaim, T, At
    <3>. QED  BY <2>0, <3>1, <3>2 DEF ThreadInv, RevisionKnown, KnowsRevision
  <2>3. CASE WorkerStep(c) /\ ~Claim(c)
    <3>1. worker[c].pc \notin BeforeClaim
      <4>1. Learns(c) => worker'[c].pc \notin {"load", "start"}
        BY DEF Learns, AfterEnsure, AfterIdle
      <4>. QED  BY <1>0, <1>3, <2>3, <4>1, EarlyLearns
    <3>2. CASE ClaimedStep(c)
      BY <1>0, <1>3, <2>1, <3>2 DEF ClaimedStep, Edges, TypeOK, Worker
    <3>3. CASE Pick(c)
      BY <1>0, <1>3, <3>3 DEF Pick, TypeOK, Idle
    <3>4. CASE RefuseBlocked(c)
      BY <1>3, <3>4 DEF RefuseBlocked, tasks, At
    <3>5. CASE Report(c) \/ Close(c)
      BY <1>0, <1>3, <3>5, GotoColumns, ReleaseColumns DEF Report, Close, Finish
    <3>6. CASE LostStep(c)
      BY <1>3, <3>6 DEF LostStep
    <3>. QED  BY <1>0, <2>3, <3>1, <3>2, <3>3, <3>4, <3>5, <3>6, WorkerCases DEF EarlyStep
  <2>. QED  BY <1>0, <1>2, <1>3, <2>1, <2>2, <2>3, WorkersStep
<1>4. CASE KnowsRevision(worker'[c]) /\ turn'[worker'[c].turn].state = "queued"
           /\ worker'[c] # Idle
  <2>1. CASE worker'[c] = worker[c] /\ ~WorkerStep(c)
    <3>1. worker[c].turn \in Turn /\ turn[worker[c].turn].conv = c
          /\ turn[worker[c].turn].state # "absent"
      BY <1>0, <1>4, <2>1 DEF IInv, WorkerHasTurn, KnowsRevision
    <3>2. turn[worker[c].turn].state = "queued"
      BY <1>0, <1>4, <2>1, <3>1, RowsStay
    <3>3. Live(c)
      BY <3>1, <3>2 DEF Live
    <3>4. conv'[c].rev = conv[c].rev
      BY <1>0, <2>1, <3>3, NextRevisionMoves DEF RevisionMoves
    <3>. QED  BY <1>4, <2>1, <3>2, <3>4, <1>3 DEF ThreadInv, RevisionKnown, KnowsRevision
  <2>2. CASE WorkerStep(c)
    <3>1. CASE worker[c].pc \in BeforeClaim /\ ~Claim(c)
      <4>1. Learns(c) /\ SameRevisions(c) /\ EarlyStep(c)
        BY <1>0, <2>2, <3>1, EarlyLearns, EarlyRevisions, EarlySteps
      <4>2. worker'[c].pc # "idle" /\ worker'[c].turn = worker[c].turn
        BY <1>4, <4>1 DEF EarlyStep, KnowsRevision
      <4>3. turn[worker[c].turn].state = "queued"
        BY <1>0, <1>4, <3>1, <4>2, RowsStay DEF IInv, WorkerHasTurn, BeforeClaim
      <4>4. \A r \in 0..MaxRev + 1 : ActivateRevision(c, r) => conv'[c].rev = r
        BY <1>0 DEF ActivateRevision, TypeOK, ConvRow
      <4>5. worker[c].rev \in 0..MaxRev + 1 /\ conv[c].made + 1 \in 0..MaxRev + 1
        BY <1>0, ConstantsAssumption DEF TypeOK, Worker, ConvRow
      <4>6. worker[c].tries \in 0..2
        BY <1>0 DEF TypeOK, Worker
      <4>7. CASE worker[c].pc = "activateNew"
        BY <1>3, <3>1, <4>1, <4>2, <4>4, <4>5, <4>7 DEF Learns, SameRevisions
      <4>8. CASE worker[c].pc = "activate"
        BY <1>3, <3>1, <4>1, <4>2, <4>4, <4>5, <4>8 DEF Learns, SameRevisions, SameKnowledge
      <4>9. CASE worker[c].pc \notin {"activate", "activateNew"}
        <5>1. conv'[c].rev = conv[c].rev
          BY <4>1, <4>9 DEF SameRevisions
        <5>2. worker'[c].rev = conv[c].rev \/ KnowsRevision(worker[c])
          BY <1>4, <4>1, <4>2, <4>6, <4>9
             DEF Learns, KnowsRevision, SameKnowledge, AfterEnsure, AfterIdle
        <5>3. worker'[c].rev = conv[c].rev \/ worker'[c].rev = worker[c].rev
          BY <4>1, <4>2, <4>9 DEF Learns, SameKnowledge
        <5>4. worker'[c].pc \notin {"load", "start"}
          BY <1>4 DEF KnowsRevision
        <5>. QED  BY <4>3, <5>1, <5>2, <5>3, <5>4 DEF ThreadInv, RevisionKnown
      <4>. QED  BY <4>7, <4>8, <4>9
    <3>2. CASE Pick(c)
      BY <1>0, <1>4, <3>2 DEF Pick, TypeOK, Idle, KnowsRevision
    <3>3. CASE RefuseBlocked(c)
      BY <1>0, <1>4, <3>3 DEF RefuseBlocked, tasks, At, KnowsRevision
    <3>4. CASE Claim(c) \/ Report(c) \/ Close(c)
      BY <1>0, <1>4, <3>4, GotoColumns, ReleaseColumns
         DEF Claim, Report, Close, Finish, KnowsRevision
    <3>5. CASE ClaimedStep(c) \/ LostStep(c)
      BY <1>4, <3>5 DEF ClaimedStep, LostStep, Edges, KnowsRevision
    <3>. QED  BY <1>0, <2>2, <3>1, <3>2, <3>3, <3>4, <3>5, WorkerCases DEF EarlyStep
  <2>. QED  BY <1>0, <1>4, <2>1, <2>2, WorkersStep
<1>. QED  BY <1>2, <1>3, <1>4

LEMMA InitThread == Init => ThreadInv
<1>. SUFFICES ASSUME Init  PROVE ThreadInv
  OBVIOUS
<1>1. Revisions
  BY ConstantsAssumption DEF Init, Revisions, Idle, Absent, NoRev
<1>2. ThreadIsFree /\ RevisionKnown
  BY DEF Init, ThreadIsFree, RevisionKnown, KnowsRevision, HasRead, AfterRead, Idle
<1>3. OneProviderTurn
  BY DEF Init, OneProviderTurn, ProviderRuns
<1>. QED  BY <1>1, <1>2, <1>3 DEF ThreadInv

LEMMA NextThread == Known /\ ThreadInv /\ [Next]_vars => ThreadInv'
<1>. SUFFICES ASSUME Known, ThreadInv, [Next]_vars  PROVE ThreadInv'
  OBVIOUS
<1>0. IInv /\ TakenIsNotActive
  BY DEF Known, ProviderInv
<1>1. CASE Next
  BY <1>0, <1>1, NextRevisions, NextThreadIsFree, NextRevisionKnown, NextOneProviderTurn
     DEF ThreadInv
<1>2. CASE UNCHANGED vars
  BY <1>2
     DEF vars, rows, runtime, tasks, daemon, ThreadInv, Revisions, ThreadIsFree, HasRead,
         RevisionKnown, KnowsRevision, OneProviderTurn, ProviderRuns, ThreadBusy
<1>. QED  BY <1>1, <1>2

\* Between the read of a thread and turn/start nothing else starts there, for
\* every environment: a new thread, a resume and a clear in between included.
THEOREM Threads == Spec => []ThreadInv
<1>1. SafeInv => Known
  BY DEF SafeInv
<1>. QED  BY <1>1, Safe, InitThread, NextThread, PTL DEF Spec

\* A provider thread never runs two turns, not even after the row of the first
\* was ended by a lost runtime, a time-out or a restart.
THEOREM ThreadRunsOneTurn == Spec => []OneProviderTurn
<1>1. ThreadInv => OneProviderTurn
  BY DEF ThreadInv
<1>. QED  BY <1>1, Threads, PTL

-----------------------------------------------------------------------------
(* Provider barriers, as long as no resume activates a revision again. *)

\* No resume answers that a revision is loaded again.
NoActivate == \A c \in Conv : worker[c].pc # "activate"

LEMMA NextNoActivate ==
    ASSUME IInv, TakenIsNotActive, NoRecovery, NoActivate, "reload" \notin Env, Next
    PROVE  NoActivate'
<1>1. SUFFICES ASSUME NEW c \in Conv  PROVE worker'[c].pc # "activate"
  BY DEF NoActivate
<1>2. CASE worker'[c] = worker[c] \/ worker'[c] = Idle
  BY <1>2 DEF NoActivate, Idle
<1>3. CASE WorkerStep(c)
  <2>1. CASE worker[c].pc \in BeforeClaim /\ ~Claim(c)
    BY <1>3, <2>1, EarlyLearns
       DEF Learns, NoRecovery, Recovering, AfterEnsure, AfterIdle
  <2>2. CASE Pick(c)
    BY <2>2 DEF Pick, IInv, TypeOK, Idle
  <2>3. CASE RefuseBlocked(c)
    BY <2>3 DEF RefuseBlocked, tasks, NoActivate
  <2>4. CASE Claim(c) \/ Report(c) \/ Close(c)
    BY <2>4, GotoColumns, ReleaseColumns DEF Claim, Report, Close, Finish
  <2>5. CASE ClaimedStep(c) \/ LostStep(c)
    BY <2>5 DEF ClaimedStep, LostStep, Edges
  <2>. QED  BY <1>3, <2>1, <2>2, <2>3, <2>4, <2>5, WorkerCases DEF EarlyStep
<1>. QED  BY <1>2, <1>3, WorkersStep

\* The owner of the barrier of a conversation.
Watched(c) ==
    conv[c].barrier # "none" =>
       c \in monitor \/ conv[c].state = "blocked" \/ c \in Starting

LEMMA StillWatched ==
    ASSUME NEW c \in Conv, Watched(c), conv'[c] = conv[c], c \in monitor => c \in monitor',
           worker'[c].pc = worker[c].pc \/ c \notin Starting
    PROVE  Watched(c)'
  BY DEF Watched, Starting

LEMMA EarlyWatched ==
    ASSUME IInv, TakenIsNotActive, NoActivate, NEW c \in Conv, WorkerStep(c),
           worker[c].pc \in BeforeClaim, ~Claim(c), \A d \in Conv : Watched(d)
    PROVE  \A d \in Conv : Watched(d)'
<1>0. TypeOK /\ worker[c].pc # "idle" /\ \A d \in Conv \ {c} : worker'[d] = worker[d]
  BY EarlySteps DEF EarlyStep, IInv, BeforeClaim
<1>. USE DEF At, runtime, daemon
<1>1. ASSUME conv' = conv, monitor' = monitor, c \notin Starting
      PROVE  \A d \in Conv : Watched(d)'
  BY <1>0, <1>1, StillWatched
<1>2. ASSUME \A d \in Conv \ {c} : conv'[d] = conv[d], monitor \subseteq monitor', Watched(c)'
      PROVE  \A d \in Conv : Watched(d)'
  BY <1>0, <1>2, StillWatched
<1>3. CASE EnsureLoaded(c) \/ EnsureStart(c) \/ Booted(c) \/ BootFails(c) \/ EnsureRefused(c)
  BY <1>1, <1>3 DEF EnsureLoaded, EnsureStart, Booted, BootFails, EnsureRefused, rows, Starting
<1>4. CASE ReadIdle(c) \/ ReadReloaded(c) \/ ReadActive(c) \/ ReadSystemError(c) \/ ReadFails(c)
  BY <1>1, <1>4
     DEF ReadIdle, ReadReloaded, ReadActive, ReadSystemError, ReadFails, rows, WorkerOnly, Starting
<1>5. CASE Recover(c) \/ Retire(c) \/ RetireStale(c) \/ RetireClose(c)
  BY <1>1, <1>5 DEF Recover, Retire, RetireStale, RetireClose, rows, WorkerOnly, Starting
<1>6. CASE ResumeIdle(c) \/ ResumeSystemError(c) \/ ClaimFails(c)
  BY <1>1, <1>6 DEF ResumeIdle, ResumeSystemError, ClaimFails, rows, WorkerOnly, Starting
<1>7. CASE Thread(c)
  <2>1. CASE conv[c].rev = NoRev
    <3>1. worker'[c].pc = "startThread" /\ conv' = SetBarrier(c, "unknown_effect")
      BY <1>7, <2>1, GotoColumns DEF Thread
    <3>. QED
      BY <1>0, <1>2, <1>7, <3>1 DEF Thread, SetBarrier, Watched, Starting, WorkerOnly, TypeOK
  <2>2. CASE conv[c].rev # NoRev
    BY <1>1, <1>7, <2>2 DEF Thread, WorkerOnly, Starting
  <2>. QED  BY <2>1, <2>2
<1>8. CASE StartThread(c) \/ Attach(c)
  <2>1. worker'[c].pc \in {"activateNew", "unbarNew"} /\ conv' = conv /\ monitor' = monitor
    BY <1>8, GotoColumns DEF StartThread, Attach, rows, WorkerOnly
  <2>. QED  BY <1>2, <2>1 DEF Watched, Starting
<1>9. CASE ActivateNew(c)
  <2>1. worker'[c].pc = "attach" /\ monitor' = monitor
    BY <1>0, <1>9 DEF ActivateNew, TypeOK, Worker, WorkerOnly
  <2>. QED
    BY <1>0, <1>2, <1>9, <2>1 DEF ActivateNew, ActivateRevision, TypeOK, Watched, Starting
<1>10. CASE StartThreadRejected(c) \/ Unbar(c)
  BY <1>0, <1>2, <1>10 DEF StartThreadRejected, Unbar, WorkerOnly, TypeOK, ConvRow, Watched
<1>11. CASE StartThreadUnknown(c)
  BY <1>0, <1>2, <1>11 DEF StartThreadUnknown, Fence, WorkerOnly, TypeOK, ConvRow, Watched
<1>12. CASE AttachFails(c) \/ ReadMismatch(c)
  BY <1>0, <1>2, <1>12 DEF AttachFails, ReadMismatch, Fence, WorkerOnly, TypeOK, ConvRow, Watched
<1>13. CASE Bar(c)
  BY <1>0, <1>2, <1>13 DEF Bar, SetBarrier, TypeOK, ConvRow, Watched
<1>14. CASE EffectFails(c)
  BY <1>0, <1>2, <1>14 DEF EffectFails, Fence, WorkerOnly, TypeOK, ConvRow, Watched
<1>15. CASE QueuedFails(c)
  BY <1>1, <1>15 DEF QueuedFails, rows, WorkerOnly, Starting
<1>. QED
  BY <1>0, <1>3, <1>4, <1>5, <1>6, <1>7, <1>8, <1>9, <1>10, <1>11, <1>12, <1>13, <1>14, <1>15
     DEF InputFails, StartedFails, WatchFails, ReportFails, WorkerStep, BeforeClaim, Activate, NoActivate, Pick, RefuseBlocked, Load, LoadFails,
         LoadForShutdown, Start, StartMismatch, StartRefused, RuntimeUnavailable,
         Started, MarkRunning, MarkFails, Abandon, Register, Recheck,
         WorkerClaimInterrupt, WorkerSendInterrupt, AwaitDone, AwaitFailed,
         AwaitJournal, Report, ReportStale, Close

LEMMA NextBarrier ==
    ASSUME IInv, TakenIsNotActive, NoTasksWhenDown, NoActivate, BarrierIsWatched, Next
    PROVE  BarrierIsWatched'
<1>0. TypeOK
  BY DEF IInv
<1>1. SUFFICES ASSUME phase' = "up"  PROVE \A c \in Conv : Watched(c)'
  BY DEF BarrierIsWatched, Watched, Starting
<1>2. CASE phase # "up"
  <2>1. Restore
    BY <1>0, <1>1, <1>2, ComesUp
  <2>. QED  BY <2>1 DEF Restore, Watched
<1>3. CASE phase = "up"
  <2>1. \A c \in Conv : Watched(c)
    BY <1>3 DEF BarrierIsWatched, Watched
  <2>2. ASSUME NEW c \in Conv, WorkerStep(c)  PROVE \A d \in Conv : Watched(d)'
    <3>1. CASE worker[c].pc \in BeforeClaim /\ ~Claim(c)
      BY <2>1, <2>2, <3>1, EarlyWatched
    <3>2. CASE ~(worker[c].pc \in BeforeClaim /\ ~Claim(c))
      <4>1. /\ conv' = conv /\ monitor' = monitor /\ c \notin Starting
            /\ \A d \in Conv \ {c} : worker'[d] = worker[d]
        BY <1>0, <2>2, <3>2, OthersWait, WorkerCases
           DEF Pick, RefuseBlocked, EarlyStep, Claim, ClaimedStep, LostStep, Report, Close,
               At, Starting, BeforeClaim, rows, tasks, runtime, WorkerOnly
      <4>. QED  BY <2>1, <4>1, StillWatched
    <3>. QED  BY <3>1, <3>2
  <2>3. CASE OtherStep
    <3>1. \A c \in Conv : worker'[c].pc = worker[c].pc \/ c \notin Starting
      BY <1>0, <1>1, <2>3, OtherTasks DEF Starting
    <3>2. CASE \E c \in Conv : MonitorStep(c) \/ Clear(c) \/ Compact(c)
      <4>1. PICK c \in Conv : MonitorStep(c) \/ Clear(c) \/ Compact(c)
        BY <3>2
      <4>2. ASSUME Watched(c)', \A d \in Conv \ {c} :
                      conv'[d] = conv[d] /\ (d \in monitor => d \in monitor')
            PROVE  \A d \in Conv : Watched(d)'
        BY <2>1, <3>1, <4>2, StillWatched
      <4>3. CASE MonitorIdle(c)
        BY <1>0, <4>2, <4>3 DEF MonitorIdle, MonitorStops, Watched, TypeOK, ConvRow
      <4>4. CASE MonitorBlocks(c)
        BY <1>0, <4>2, <4>4 DEF MonitorBlocks, MonitorStops, Fence, Watched, TypeOK, ConvRow
      <4>5. CASE Clear(c)
        BY <1>0, <4>2, <4>5 DEF Clear, Watched, TypeOK, ConvRow, tasks
      <4>6. CASE Compact(c)
        BY <1>0, <4>2, <4>6 DEF Compact, SetBarrier, Watched, TypeOK, ConvRow
      <4>. QED  BY <4>1, <4>3, <4>4, <4>5, <4>6 DEF MonitorStep
    <3>3. CASE ~\E c \in Conv : MonitorStep(c) \/ Clear(c) \/ Compact(c)
      <4>1. conv' = conv /\ monitor' = monitor
        BY <1>1, <1>3, <2>3, <3>3
           DEF OtherStep, Enqueue, CancelRequest, CancelStep, CancelLookup,
               CancelClaimInterrupt, CancelSendInterrupt, CancelFails, PumpTask, PumpTerminal,
               PumpFailure, PumpJournal, PumpStep, ShutdownInterrupt, ProviderEnds, RuntimeDies,
               WatchdogReport, WatchdogClose, CloseBegin, ForceClose, CloseTurns,
               CloseRuntimes, Crash, Boot, Restore, rows, tasks
      <4>. QED  BY <2>1, <3>1, <4>1, StillWatched
    <3>. QED  BY <3>2, <3>3
  <2>. QED  BY <2>2, <2>3 DEF Next, OtherStep
<1>. QED  BY <1>2, <1>3

\* A barrier that waits for a thread has its monitor or worker, ...
BarrierInv == NoRecovery /\ NoActivate /\ BarrierIsWatched

LEMMA InitBarrier == Init => BarrierInv
  BY DEF Init, BarrierInv, NoRecovery, NoActivate, BarrierIsWatched, Idle, Recovering

LEMMA NextBarrierInv ==
    ASSUME {"reload", "systemError"} \cap Env = {}
    PROVE  Known /\ BarrierInv /\ [Next]_vars => BarrierInv'
<1>. SUFFICES ASSUME Known, BarrierInv, [Next]_vars  PROVE BarrierInv'
  OBVIOUS
<1>0. IInv /\ TakenIsNotActive /\ NoTasksWhenDown
  BY DEF Known, ProviderInv
<1>1. CASE Next
  BY <1>0, <1>1, NextNoRecovery, NextNoActivate, NextBarrier DEF BarrierInv
<1>2. CASE UNCHANGED vars
  BY <1>2
     DEF vars, rows, tasks, daemon, BarrierInv, NoRecovery, NoActivate, BarrierIsWatched, Starting
<1>. QED  BY <1>1, <1>2

\* A barrier never outlives the monitor or the worker that lifts it: read-idle,
\* compact, clear and the error paths of the start hand it over.  A resume that
\* activates a revision again ("reload", or the one of a recovery) un-fences a
\* Conversation whose thread is barred, and the statement is false with it.
THEOREM BarrierHasOwner ==
    ASSUME {"reload", "systemError"} \cap Env = {}
    PROVE  Spec => []BarrierIsWatched
<1>1. SafeInv => Known
  BY DEF SafeInv
<1>2. BarrierInv => BarrierIsWatched
  BY DEF BarrierInv
<1>. QED  BY <1>1, <1>2, Safe, InitBarrier, NextBarrierInv, PTL DEF Spec
=============================================================================
