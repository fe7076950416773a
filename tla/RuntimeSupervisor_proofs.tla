----------------------- MODULE RuntimeSupervisor_proofs -----------------------
(***************************************************************************)
(* Theorems of RuntimeSupervisor, for any slots, users, capacity, calls,    *)
(* failures and any Env.                                                    *)
(*                                                                         *)
(* What makes the supervisor right is its locks: a start, a close and a     *)
(* report hold the lock of their slot over all their awaits (LocksHeld),    *)
(* so that what they know of the slot stays true (TaskFits).  The invariant *)
(* says so and that a slot has capacity and processes just as its runtime   *)
(* or the task that starts one needs them (SlotFits).                       *)
(*                                                                         *)
(* A step of a task is a TaskMove: it writes only slots whose lock the task *)
(* holds and takes no lock from another task.  MoveFits shows that such a   *)
(* step keeps what the other tasks and slots rely on; then one lemma for    *)
(* each operation shows that it is a TaskMove.  Kept is the rest of the     *)
(* invariant: the bound of the capacity, the order of a shutdown and what   *)
(* was used.                                                                *)
(***************************************************************************)
EXTENDS RuntimeSupervisor, TLAPS, FiniteSetTheorems, SequenceTheorems,
        NaturalsInduction

-----------------------------------------------------------------------------
(* Queues. *)

LEMMA SameInterval == \A m, n \in Nat : 1..m = 1..n => m = n
<1>. SUFFICES ASSUME NEW m \in Nat, NEW n \in Nat, 1..m = 1..n  PROVE m = n
  OBVIOUS
<1>1. CASE m > n
  <2>1. m \in 1..m
    BY <1>1
  <2>. QED  BY <1>1, <2>1
<1>2. CASE n > m
  <2>1. n \in 1..n
    BY <1>2
  <2>. QED  BY <1>2, <2>1
<1>. QED  BY <1>1, <1>2

\* A queue without one of its members: the others keep their order, and so the
\* first one its place.
LEMMA WithoutQueue ==
    ASSUME NEW S, NEW q \in Seq(S), NEW t
    PROVE  /\ Without(q, t) \in Seq(S)
           /\ q # <<>> /\ Head(q) # t =>
                 Without(q, t) # <<>> /\ Head(Without(q, t)) = Head(q)
           /\ \A i \in DOMAIN q : q[i] # t =>
                 \E j \in DOMAIN Without(q, t) : Without(q, t)[j] = q[i]
<1>1. CASE ~\E i \in DOMAIN q : q[i] = t
  BY <1>1 DEF Without
<1>2. CASE \E i \in DOMAIN q : q[i] = t
  <2>. DEFINE i == CHOOSE i \in DOMAIN q : q[i] = t
              w == [j \in 1..(Len(q) - 1) |-> IF j < i THEN q[j] ELSE q[j + 1]]
  <2>1. i \in 1..Len(q) /\ q[i] = t
    BY <1>2
  <2>2. Without(q, t) = w
    BY <1>2 DEF Without
  <2>. HIDE DEF i
  <2>3. \A j \in 1..(Len(q) - 1) : w[j] \in S
    BY <2>1
  <2>4. Len(q) - 1 \in Nat /\ w \in [1..(Len(q) - 1) -> S]
    BY <2>1, <2>3
  <2>5. w \in Seq(S)
    BY <2>4, SeqDef
  <2>8. Len(w) = Len(q) - 1
    <3>1. DOMAIN w = 1..(Len(q) - 1)
      OBVIOUS
    <3>2. DOMAIN w = 1..Len(w) /\ Len(w) \in Nat
      BY <2>5, LenProperties
    <3>. HIDE DEF w
    <3>3. 1..Len(w) = 1..(Len(q) - 1)
      BY <3>1, <3>2
    <3>. QED  BY <2>4, <3>2, <3>3, SameInterval
  <2>6. q # <<>> /\ Head(q) # t => i > 1
    BY <2>1
  <2>7. i > 1 => w # <<>> /\ Head(w) = Head(q)
    <3>1. i > 1 => w[1] = q[1] /\ Len(q) > 1
      BY <2>1
    <3>. HIDE DEF w
    <3>2. w # <<>> => Head(w) = w[1]
      BY <2>5
    <3>3. Len(w) > 0 => w # <<>>
      BY <2>5
    <3>. QED  BY <2>1, <2>8, <3>1, <3>2, <3>3
  <2>9. ASSUME NEW k \in DOMAIN q, q[k] # t  PROVE \E j \in DOMAIN w : w[j] = q[k]
    <3>1. k \in 1..Len(q) /\ k # i /\ DOMAIN w = 1..(Len(q) - 1)
      BY <2>1, <2>9
    <3>2. CASE k < i
      <4>1. k \in 1..(Len(q) - 1) /\ w[k] = q[k]
        BY <2>1, <3>1, <3>2
      <4>. QED  BY <3>1, <4>1
    <3>3. CASE k > i
      <4>1. k - 1 \in 1..(Len(q) - 1) /\ w[k - 1] = q[k]
        BY <2>1, <3>1, <3>3
      <4>. QED  BY <3>1, <4>1
    <3>. QED  BY <2>1, <3>1, <3>2, <3>3
  <2>. QED  BY <2>2, <2>5, <2>6, <2>7, <2>9
<1>. QED  BY <1>1, <1>2

LEMMA AppendQueue ==
    ASSUME NEW S, NEW q \in Seq(S), NEW t \in S
    PROVE  /\ Append(q, t) \in Seq(S) /\ Append(q, t) # <<>>
           /\ q # <<>> => Head(Append(q, t)) = Head(q)
           /\ q = <<>> => Head(Append(q, t)) = t
           /\ DOMAIN q \subseteq DOMAIN Append(q, t)
           /\ \A i \in DOMAIN q : Append(q, t)[i] = q[i]
           /\ \E i \in DOMAIN Append(q, t) : Append(q, t)[i] = t
<1>1. Append(q, t)[Len(q) + 1] = t /\ Len(q) + 1 \in DOMAIN Append(q, t)
  OBVIOUS
<1>. QED  BY <1>1

LEMMA TailQueue ==
    ASSUME NEW S, NEW q \in Seq(S), q # <<>>
    PROVE  /\ Tail(q) \in Seq(S)
           /\ \A i \in DOMAIN q : q[i] # Head(q) =>
                 \E j \in DOMAIN Tail(q) : Tail(q)[j] = q[i]
<1>1. Tail(q) \in Seq(S) /\ DOMAIN Tail(q) = 1..(Len(q) - 1)
      /\ \A j \in 1..(Len(q) - 1) : Tail(q)[j] = q[j + 1]
  BY HeadTailProperties
<1>2. ASSUME NEW i \in DOMAIN q, q[i] # Head(q)
      PROVE  \E j \in DOMAIN Tail(q) : Tail(q)[j] = q[i]
  <2>1. i \in 1..Len(q) /\ i # 1
    BY <1>2
  <2>2. i - 1 \in 1..(Len(q) - 1) /\ i - 1 + 1 = i
    BY <2>1
  <2>. QED  BY <1>1, <2>2
<1>. QED  BY <1>1, <1>2

-----------------------------------------------------------------------------
(* The inductive invariant. *)

UserPc == Pc \ {"scheduled", "visit", "probe", "beat", "done"}
WatcherPc == {"off", "scheduled", "visit", "probe", "beat", "report", "reportClose",
              "stop", "close"}
CloserPc == {"off", "visit", "stop", "close", "done"}

\* Who is where, and who may evict.
Shape(t) ==
    /\ t \in User => /\ task[t].pc \in UserPc
                     /\ ~At(t, "off") => Home(t) \in Slot
    /\ t \notin User => task[t].pc \in IF IsCloser(t) THEN CloserPc ELSE WatcherPc
    /\ t \notin User => Home(t) = t[2]
    /\ At(t, "evict") => IsEvictor(t)
    /\ IsEvictor(t) => /\ t \in User /\ task[t].pc \in {"evict", "stop", "close"}
                       /\ Target(t) # Home(t)

\* The start of a runtime, from the capacity to the ready lease, and a report
\* hold the lock of their slot, an evictor that of its candidate as well.  Who
\* closes a runtime holds the lock of its slot.
Owns(t, s) ==
    \/ (InStartup(t) \/ At(t, "reportClose")) /\ s = Home(t)
    \/ task[t].pc \in {"stop", "close"} /\ s = Target(t)
LocksHeld(t) == \A s \in Slot : Owns(t, s) => Holds(t, s)

\* A start waits in the queue of the capacity, and is the first of it while it
\* evicts and at the gate.
First(t) == startLock # <<>> /\ Head(startLock) = t
Queued(t) == \E i \in DOMAIN startLock : startLock[i] = t
InTurn(t) ==
    /\ At(t, "reserve") => Queued(t)
    /\ At(t, "gate") \/ IsEvictor(t) => First(t)

\* What a task knows of its slot while it holds the lock.
TaskFits(t) ==
    /\ InStartup(t) => ~slot[Home(t)].loaded
    /\ At(t, "create") => slot[Home(t)].reserved /\ process[Home(t)] = {}
    /\ task[t].pc \in {"boot", "mark", "cleanup"} =>
          slot[Home(t)].reserved /\ slot[Home(t)].gen = task[t].gen
    /\ At(t, "reportClose") => slot[Home(t)].loaded /\ slot[Home(t)].gen = task[t].gen

\* Only the newest generation of a slot has a process, and capacity with it; a
\* slot has capacity just when it has a runtime or a task that starts one.
Booting(t, s) == task[t].pc \in {"create", "boot", "mark", "cleanup"} /\ Home(t) = s
SlotFits(s) ==
    /\ process[s] \subseteq {slot[s].gen}
    /\ process[s] # {} => slot[s].reserved
    /\ slot[s].loaded => slot[s].reserved
    /\ slot[s].reserved /\ ~slot[s].loaded => \E t \in Task : Booting(t, s)

InUseBounded == InUse <= MaxActive

\* Once the closers run no runtime is created, and what they closed stays so.
Draining ==
    /\ phase \in {"up", "closing"} => \A s \in Slot : At(Closer(s), "off")
    /\ phase \in {"draining", "closed"} => \A u \in User : At(u, "create") => u \in cancelled
    /\ \A s \in Slot : At(Closer(s), "done") /\ ~closeError => process[s] = {}
    /\ phase = "closed" => \A s \in Slot : At(Closer(s), "done")

\* What is past the TTL was used.
Recent == idle \subseteq Used

\* The lock of a slot is held over every await of a start, a close and a report:
\* whoever writes the slot finds it as it left it.
Locked == \A t \in Task : Shape(t) /\ LocksHeld(t) /\ InTurn(t) /\ TaskFits(t)
IInv == /\ TypeOK /\ Locked
        /\ \A s \in Slot : SlotFits(s)
        /\ InUseBounded /\ Draining /\ Recent

-----------------------------------------------------------------------------
(* What a step of one task does to the others. *)

LocksKept(t) ==
    /\ lock' \in [Slot -> Seq(Task)]
    /\ \A v \in Task \ {t}, s \in Slot : Holds(v, s) => Holds(v, s)'

StartKept(t) ==
    /\ startLock' \in Seq(User)
    /\ \A v \in Task \ {t} : (First(v) => First(v)') /\ (Queued(v) => Queued(v)')

\* The task is at pc, and is otherwise what it was.
Goes(t, pc) ==
    /\ task' \in [Task -> Local]
    /\ \A v \in Task \ {t} : task'[v] = task[v]
    /\ task'[t].pc = pc /\ task'[t].home = task[t].home
    /\ task'[t].gen = task[t].gen /\ task'[t].cands = task[t].cands

LEMMA Tasks ==
    /\ \A s \in Slot : /\ Watcher(s) \in Task \ User /\ Closer(s) \in Task \ User
                       /\ ~IsCloser(Watcher(s)) /\ IsCloser(Closer(s))
                       /\ IsWatcher(Watcher(s)) /\ ~IsWatcher(Closer(s))
                       /\ Watcher(s)[2] = s /\ Closer(s)[2] = s
    /\ \A r, s \in Slot : /\ Watcher(r) # Closer(s)
                          /\ Watcher(r) = Watcher(s) => r = s
                          /\ Closer(r) = Closer(s) => r = s
    /\ \A t \in Task \ User : t[2] \in Slot
    /\ User \subseteq Task
    /\ \A u \in User : ~IsCloser(u) /\ ~IsWatcher(u)
<1>1. \A s \in Slot : /\ Watcher(s) \in Task \ User /\ Closer(s) \in Task \ User
                      /\ IsCloser(Closer(s)) /\ IsWatcher(Watcher(s))
                      /\ Watcher(s)[2] = s /\ Closer(s)[2] = s
  BY ConstantsAssumption DEF Task, Watcher, Closer, IsCloser, IsWatcher
<1>2. \A r, s \in Slot : /\ Watcher(r) # Closer(s)
                         /\ Watcher(r) = Watcher(s) => r = s
                         /\ Closer(r) = Closer(s) => r = s
  BY DEF Watcher, Closer
<1>3. \A s \in Slot : ~IsCloser(Watcher(s)) /\ ~IsWatcher(Closer(s))
  BY <1>2 DEF IsCloser, IsWatcher
<1>4. \A t \in Task \ User : t[2] \in Slot
  BY <1>1 DEF Task
<1>5. \A u \in User : ~IsCloser(u) /\ ~IsWatcher(u)
  BY <1>1 DEF IsCloser, IsWatcher
<1>. QED  BY <1>1, <1>2, <1>3, <1>4, <1>5 DEF Task

LEMMA GotoGoes ==
    ASSUME TypeOK, NEW t \in Task, NEW pc \in Pc, Goto(t, pc)
    PROVE  Goes(t, pc)
  BY DEF TypeOK, Goto, Goes, Local

LEMMA WithoutStart ==
    ASSUME TypeOK, NEW t \in Task, startLock' = Without(startLock, t)
    PROVE  StartKept(t)
<1>1. startLock \in Seq(User)
  BY DEF TypeOK
<1>2. /\ startLock' \in Seq(User)
      /\ startLock # <<>> /\ Head(startLock) # t =>
            startLock' # <<>> /\ Head(startLock') = Head(startLock)
      /\ \A i \in DOMAIN startLock : startLock[i] # t =>
            \E j \in DOMAIN startLock' : startLock'[j] = startLock[i]
  BY <1>1, WithoutQueue
<1>3. ASSUME NEW v \in Task \ {t}
      PROVE  (First(v) => First(v)') /\ (Queued(v) => Queued(v)')
  BY <1>2 DEF First, Queued
<1>. QED  BY <1>2, <1>3 DEF StartKept

LEMMA AppendStart ==
    ASSUME TypeOK, NEW t \in User, startLock' = Append(startLock, t)
    PROVE  StartKept(t) /\ Queued(t)'
<1>1. startLock \in Seq(User)
  BY DEF TypeOK
<1>2. /\ startLock' \in Seq(User) /\ startLock' # <<>>
      /\ startLock # <<>> => Head(startLock') = Head(startLock)
      /\ DOMAIN startLock \subseteq DOMAIN startLock'
      /\ \A i \in DOMAIN startLock : startLock'[i] = startLock[i]
      /\ \E i \in DOMAIN startLock' : startLock'[i] = t
  BY <1>1, AppendQueue
<1>. QED  BY <1>2 DEF StartKept, First, Queued

LEMMA TailStart ==
    ASSUME TypeOK, NEW t \in User, First(t), startLock' = Tail(startLock)
    PROVE  StartKept(t)
<1>1. startLock \in Seq(User) /\ startLock # <<>> /\ Head(startLock) = t
  BY DEF TypeOK, First
<1>2. /\ startLock' \in Seq(User)
      /\ \A i \in DOMAIN startLock : startLock[i] # t =>
            \E j \in DOMAIN startLock' : startLock'[j] = startLock[i]
  BY <1>1, TailQueue
<1>3. ASSUME NEW v \in Task \ {t}
      PROVE  ~First(v) /\ (Queued(v) => Queued(v)')
  BY <1>1, <1>2 DEF First, Queued
<1>. QED  BY <1>2, <1>3 DEF StartKept

LEMMA SameStart ==
    ASSUME TypeOK, startLock' = startLock
    PROVE  /\ \A t \in Task : StartKept(t)
           /\ \A t : (First(t)' <=> First(t)) /\ (Queued(t)' <=> Queued(t))
  BY DEF TypeOK, StartKept, First, Queued

LEMMA WithoutLock ==
    ASSUME TypeOK, NEW t \in Task, lock' = [s \in Slot |-> Without(lock[s], t)]
    PROVE  LocksKept(t)
<1>3. \A s \in Slot : lock[s] \in Seq(Task)
  BY DEF TypeOK
<1>4. \A s \in Slot : lock'[s] = Without(lock[s], t)
  OBVIOUS
<1>5. \A s \in Slot : lock'[s] \in Seq(Task)
  BY <1>3, <1>4, WithoutQueue
<1>6. lock' \in [Slot -> Seq(Task)]
  BY <1>5
<1>7. \A v \in Task \ {t}, s \in Slot : Holds(v, s) => Holds(v, s)'
  BY <1>3, <1>4, WithoutQueue DEF Holds
<1>. QED  BY <1>6, <1>7 DEF LocksKept

LEMMA FaultCounts ==
    ASSUME TypeOK, NEW kind, Fault(kind)
    PROVE  faults' \in 0..MaxFaults
  BY ConstantsAssumption DEF Fault, TypeOK

LEMMA LeaveKeeps ==
    ASSUME TypeOK, NEW t \in Task, Leave(t)
    PROVE  Goes(t, Rest(t)) /\ LocksKept(t) /\ StartKept(t)
<1>1. Rest(t) \in Pc
  BY DEF Rest, Pc
<1>2. Goes(t, Rest(t))
  BY <1>1, GotoGoes DEF Leave
<1>7. LocksKept(t)
  BY WithoutLock DEF Leave
<1>8. StartKept(t)
  BY WithoutStart DEF Leave
<1>. QED  BY <1>2, <1>7, <1>8

LEMMA AppendKeeps ==
    ASSUME TypeOK, NEW t \in Task, NEW s \in Slot,
           lock' = [lock EXCEPT ![s] = Append(@, t)]
    PROVE  /\ lock' \in [Slot -> Seq(Task)]
           /\ \A v \in Task, r \in Slot : Holds(v, r) => Holds(v, r)'
<1>1. /\ lock[s] \in Seq(Task) /\ Append(lock[s], t) \in Seq(Task)
      /\ Append(lock[s], t) # <<>>
      /\ lock[s] # <<>> => Head(Append(lock[s], t)) = Head(lock[s])
  BY AppendQueue DEF TypeOK
<1>2. lock'[s] = Append(lock[s], t) /\ \A r \in Slot \ {s} : lock'[r] = lock[r]
  BY DEF TypeOK
<1>3. lock' \in [Slot -> Seq(Task)]
  BY <1>1, <1>2 DEF TypeOK
<1>. QED  BY <1>1, <1>2, <1>3 DEF Holds

LEMMA TailKeeps ==
    ASSUME TypeOK, NEW t \in Task, NEW s \in Slot, Holds(t, s),
           lock' = [lock EXCEPT ![s] = Tail(@)]
    PROVE  /\ LocksKept(t)
           /\ \A v \in Task, r \in Slot \ {s} : Holds(v, r) => Holds(v, r)'
<1>1. lock[s] \in Seq(Task) /\ Tail(lock[s]) \in Seq(Task)
  BY TailQueue DEF TypeOK, Holds
<1>2. lock'[s] = Tail(lock[s]) /\ \A r \in Slot \ {s} : lock'[r] = lock[r]
  BY DEF TypeOK
<1>3. lock' \in [Slot -> Seq(Task)]
  BY <1>1, <1>2 DEF TypeOK
<1>. QED  BY <1>1, <1>2, <1>3 DEF Holds, LocksKept

\* What a step of a task leaves of a slot it does not hold.
SameSlot(t, s) ==
    /\ slot'[s].gen = slot[s].gen /\ slot'[s].loaded = slot[s].loaded
    /\ slot'[s].reserved = slot[s].reserved
    /\ process'[s] \subseteq process[s]
    /\ Booting(t, s) => Booting(t, s)'

\* A step of a task: it changes the slots it holds, and fits them afterwards.
TaskMove(t) ==
    /\ LocksKept(t) /\ StartKept(t)
    /\ \A v \in Task \ {t} : task'[v] = task[v]
    /\ Shape(t)' /\ LocksHeld(t)' /\ InTurn(t)' /\ TaskFits(t)'
    /\ \A s \in Slot : SameSlot(t, s) \/ (Holds(t, s) /\ SlotFits(s)')

LEMMA OtherFits ==
    ASSUME IInv, NEW t \in Task, TaskMove(t), NEW v \in Task \ {t}
    PROVE  Shape(v)' /\ LocksHeld(v)' /\ InTurn(v)' /\ TaskFits(v)'
<1>0. /\ task'[v] = task[v] /\ Shape(v) /\ LocksHeld(v) /\ InTurn(v) /\ TaskFits(v)
      /\ \A s \in Slot : Holds(v, s) => Holds(v, s)'
  BY DEF IInv, Locked, TaskMove, LocksKept
<1>1. Shape(v)'
  BY <1>0 DEF Shape, IsEvictor, Target, Home, At
<1>2. \A s \in Slot : Owns(v, s)' <=> Owns(v, s)
  BY <1>0 DEF Owns, InStartup, IsEvictor, Target, Home, At
<1>3. LocksHeld(v)'
  BY <1>0, <1>2 DEF LocksHeld
<1>7. InTurn(v)'
  BY <1>0 DEF InTurn, At, IsEvictor, TaskMove, StartKept
<1>4. /\ InStartup(v)' <=> InStartup(v)
      /\ \A pc \in Pc : At(v, pc)' <=> At(v, pc)
      /\ Home(v)' = Home(v) /\ task'[v].pc = task[v].pc /\ task'[v].gen = task[v].gen
  BY <1>0 DEF InStartup, IsEvictor, At, Home
<1>5. CASE ~InStartup(v) /\ ~At(v, "reportClose")
  <2>1. task[v].pc \notin StartupPc /\ ~At(v, "reportClose")
    BY <1>5 DEF InStartup
  <2>. QED  BY <1>1, <1>3, <1>7, <1>4, <1>5, <2>1 DEF TaskFits, StartupPc, At
<1>6. CASE InStartup(v) \/ At(v, "reportClose")
  <2>1. Home(v) \in Slot
    BY <1>0, <1>6, Tasks DEF Shape, InStartup, StartupPc, IsEvictor, At
  <2>2. Holds(v, Home(v))
    BY <1>0, <1>6, <2>1 DEF LocksHeld, Owns
  <2>3. ~Holds(t, Home(v))
    BY <2>2 DEF Holds
  <2>4. SameSlot(t, Home(v))
    BY <2>1, <2>3 DEF TaskMove
  <2>5. /\ slot'[Home(v)].gen = slot[Home(v)].gen
        /\ slot'[Home(v)].loaded = slot[Home(v)].loaded
        /\ slot'[Home(v)].reserved = slot[Home(v)].reserved
        /\ process'[Home(v)] \subseteq process[Home(v)]
    BY <2>4 DEF SameSlot
  <2>6. /\ InStartup(v)' => ~slot'[Home(v)].loaded
        /\ At(v, "create")' => slot'[Home(v)].reserved /\ process'[Home(v)] = {}
        /\ task'[v].pc \in {"boot", "mark", "cleanup"} =>
              slot'[Home(v)].reserved /\ slot'[Home(v)].gen = task'[v].gen
        /\ At(v, "reportClose")' =>
              slot'[Home(v)].loaded /\ slot'[Home(v)].gen = task'[v].gen
    BY <1>0, <1>4, <2>5 DEF TaskFits, At
  <2>. QED  BY <1>1, <1>3, <1>7, <1>4, <2>6 DEF TaskFits
<1>. QED  BY <1>1, <1>3, <1>7, <1>5, <1>6

LEMMA MoveFits ==
    ASSUME IInv, NEW t \in Task, TaskMove(t)
    PROVE  Locked' /\ \A s \in Slot : SlotFits(s)'
<1>1. Locked'
  BY OtherFits DEF Locked, TaskMove
<1>2. ASSUME NEW s \in Slot  PROVE SlotFits(s)'
  <2>1. CASE Holds(t, s) /\ SlotFits(s)'
    BY <2>1
  <2>2. CASE SameSlot(t, s)
    <3>1. SlotFits(s)
      BY DEF IInv
    <3>2. \A v \in Task : Booting(v, s) => Booting(v, s)'
      BY <2>2 DEF SameSlot, TaskMove, Booting, Home
    <3>. QED  BY <2>2, <3>1, <3>2 DEF SlotFits, SameSlot
  <2>. QED  BY <2>1, <2>2 DEF TaskMove
<1>. QED  BY <1>1, <1>2

\* While a task that has not created its runtime holds an unloaded slot, the slot
\* is empty.
LEMMA HeldIsEmpty ==
    ASSUME IInv, NEW t \in Task, NEW s \in Slot, Holds(t, s), ~slot[s].loaded,
           ~Booting(t, s)
    PROVE  ~slot[s].reserved /\ process[s] = {}
<1>1. \A v \in Task : Booting(v, s) => v = t
  BY DEF IInv, Locked, LocksHeld, Owns, InStartup, StartupPc, Booting, Holds
<1>. QED  BY <1>1 DEF IInv, SlotFits

LEMMA StillAt ==
    ASSUME NEW t, NEW s, Booting(t, s), task'[t] = task[t]
    PROVE  Booting(t, s)'
  BY DEF Booting, Home

-----------------------------------------------------------------------------
(* Where a step leaves its task. *)

HoldingPc == StartupPc \cup {"evict", "reportClose", "stop", "close"}

\* The task owns no lock after the step.
LEMMA FreeMove ==
    ASSUME NEW t \in Task, task'[t].cands = <<>>, task'[t].pc \notin HoldingPc,
           t \in User => task'[t].pc \in UserPc
                         /\ (task'[t].pc # "off" => task'[t].home \in Slot),
           t \notin User => /\ task'[t].pc \in IF IsCloser(t) THEN CloserPc ELSE WatcherPc
                            /\ task'[t].home = t[2]
    PROVE  /\ Shape(t)' /\ LocksHeld(t)' /\ InTurn(t)' /\ TaskFits(t)'
           /\ \A s \in Slot : ~Booting(t, s)'
<1>1. IsCloser(t)' <=> IsCloser(t)
  BY DEF IsCloser
<1>2. ~IsEvictor(t)' /\ ~InStartup(t)'
  BY DEF IsEvictor, InStartup, HoldingPc
<1>3. Shape(t)'
  BY <1>1, <1>2 DEF Shape, At, Home, HoldingPc
<1>4. LocksHeld(t)'
  BY <1>2 DEF LocksHeld, Owns, At, HoldingPc
<1>5. TaskFits(t)'
  BY <1>2 DEF TaskFits, At, HoldingPc, StartupPc
<1>6. InTurn(t)'
  BY <1>2 DEF InTurn, At, HoldingPc, StartupPc
<1>. QED  BY <1>3, <1>4, <1>5, <1>6 DEF Booting, HoldingPc, StartupPc

\* The task keeps the locks it has after the step.
LEMMA BusyMove ==
    ASSUME IInv, NEW t \in Task, NEW pc \in Pc, pc # "evict",
           task'[t].pc = pc, task'[t].home = task[t].home, task'[t].cands = task[t].cands,
           \A s \in Slot : Holds(t, s) => Holds(t, s)',
           t \in User => pc \in UserPc /\ Home(t) \in Slot,
           t \notin User => pc \in IF IsCloser(t) THEN CloserPc ELSE WatcherPc,
           IsEvictor(t) => pc \in {"stop", "close"},
           pc \in StartupPc \cup {"reportClose"} => Holds(t, Home(t)),
           pc \in {"stop", "close"} => Holds(t, Target(t)),
           pc = "reserve" => Queued(t)',
           pc = "gate" \/ IsEvictor(t) => First(t)'
    PROVE  /\ Shape(t)' /\ LocksHeld(t)' /\ InTurn(t)'
           /\ Home(t)' = Home(t) /\ Target(t)' = Target(t)
           /\ (InStartup(t)' <=> pc \in StartupPc \/ IsEvictor(t))
           /\ \A q \in Pc : At(t, q)' <=> q = pc
<1>0. Shape(t) /\ LocksHeld(t)
  BY DEF IInv, Locked
<1>1. /\ IsCloser(t)' <=> IsCloser(t)
      /\ IsEvictor(t)' <=> IsEvictor(t)
      /\ Home(t)' = Home(t) /\ Target(t)' = Target(t)
      /\ \A q \in Pc : At(t, q)' <=> q = pc
      /\ task'[t].pc = pc
  BY DEF IsCloser, IsEvictor, Home, Target, At
<1>2. InStartup(t)' <=> pc \in StartupPc \/ IsEvictor(t)
  BY <1>1 DEF InStartup
<1>3. Shape(t)'
  BY <1>0, <1>1 DEF Shape, At
<1>4. ASSUME NEW s \in Slot, Owns(t, s)'  PROVE Holds(t, s)'
  <2>1. CASE (InStartup(t)' \/ At(t, "reportClose")') /\ s = Home(t)'
    <3>1. s = Home(t) /\ (pc \in StartupPc \/ IsEvictor(t) \/ pc = "reportClose")
      BY <1>1, <1>2, <2>1 DEF At
    <3>2. CASE IsEvictor(t)
      BY <1>0, <3>1, <3>2 DEF LocksHeld, Owns, InStartup
    <3>. QED  BY <3>1, <3>2
  <2>2. CASE task'[t].pc \in {"stop", "close"} /\ s = Target(t)'
    BY <1>1, <2>2
  <2>. QED  BY <1>4, <2>1, <2>2 DEF Owns
<1>5. LocksHeld(t)'
  BY <1>4 DEF LocksHeld
<1>6. InTurn(t)'
  BY <1>1 DEF InTurn, At
<1>. QED  BY <1>1, <1>2, <1>3, <1>5, <1>6

\* A step that writes no slot.
LEMMA QuietMove ==
    ASSUME IInv, NEW t \in Task, LocksKept(t), StartKept(t), Shape(t)', LocksHeld(t)', InTurn(t)', TaskFits(t)',
           \A v \in Task \ {t} : task'[v] = task[v],
           slot' = slot, process' = process,
           \A s \in Slot : Booting(t, s) => Booting(t, s)'
    PROVE  TaskMove(t)
  BY DEF TaskMove, SameSlot

\* A step that writes the slot whose lock the task holds.
LEMMA SlotMove ==
    ASSUME IInv, NEW t \in Task, NEW s \in Slot, LocksKept(t), StartKept(t),
           Shape(t)', LocksHeld(t)', InTurn(t)', TaskFits(t)',
           \A v \in Task \ {t} : task'[v] = task[v],
           \A r \in Slot \ {s} : /\ slot'[r] = slot[r] /\ process'[r] = process[r]
                                 /\ Booting(t, r) => Booting(t, r)',
           Holds(t, s), SlotFits(s)'
    PROVE  TaskMove(t)
  BY DEF TaskMove, SameSlot

LEMMA EnsureCalls ==
    ASSUME IInv, sync' \subseteq User, NEW u \in User, NEW s \in Slot, EnsureCall(u, s)
    PROVE  TaskMove(u) /\ TypeOK'
<1>0. TypeOK /\ u \in Task /\ Shape(u) /\ At(u, "off") /\ ~IsEvictor(u)
  BY Tasks DEF IInv, Locked, EnsureCall, Shape, At
<1>1. /\ task' \in [Task -> Local]
      /\ \A v \in Task \ {u} : task'[v] = task[v]
      /\ task'[u].pc = "ensure" /\ task'[u].home = s /\ task'[u].cands = <<>>
  <2>1. task \in [Task -> Local] /\ task[u] \in Local
    BY <1>0 DEF TypeOK
  <2>2. task' = [task EXCEPT ![u] = [@ EXCEPT !.pc = "ensure", !.home = s, !.gen = NoGen]]
    BY DEF EnsureCall
  <2>3. [task[u] EXCEPT !.pc = "ensure", !.home = s, !.gen = NoGen] \in Local
    BY <2>1 DEF Local, Pc
  <2>. QED  BY <1>0, <2>1, <2>2, <2>3 DEF Local, IsEvictor
<1>2. LocksKept(u)
  BY <1>0, AppendKeeps DEF EnsureCall, LocksKept
<1>3. Shape(u)' /\ LocksHeld(u)' /\ InTurn(u)' /\ TaskFits(u)'
  BY <1>0, <1>1, FreeMove DEF HoldingPc, StartupPc, UserPc, Pc
<1>7. StartKept(u)
  BY <1>0, SameStart DEF EnsureCall
<1>4. slot' = slot /\ process' = process /\ \A r \in Slot : ~Booting(u, r)
  BY <1>0 DEF EnsureCall, memory, outside, Booting, At
<1>5. calls' \in [User -> 0..MaxCalls]
  BY <1>0, ConstantsAssumption DEF EnsureCall, TypeOK
<1>6. TypeOK'
  BY <1>0, <1>1, <1>2, <1>5 DEF EnsureCall, TypeOK, memory, outside, LocksKept
<1>. QED  BY <1>0, <1>1, <1>2, <1>3, <1>4, <1>6, <1>7, QuietMove

LEMMA EnsureMoves ==
    ASSUME IInv, sync' \subseteq User, NEW u \in User,
           EnsureLoaded(u) \/ EnsureLeftover(u) \/ EnsureEmpty(u) \/ EnsureRefused(u)
    PROVE  TaskMove(u) /\ TypeOK'
<1>0. /\ TypeOK /\ u \in Task /\ Shape(u) /\ At(u, "ensure") /\ ~IsCloser(u) /\ ~IsWatcher(u)
      /\ Home(u) \in Slot /\ ~IsEvictor(u) /\ Target(u) = Home(u) /\ Holds(u, Home(u))
  BY Tasks
     DEF IInv, Locked, EnsureLoaded, EnsureLeftover, EnsureEmpty, EnsureRefused, MayEnsure,
         HoldsTarget, Shape, At, Target, IsEvictor
<1>1. slot' = slot /\ process' = process /\ \A s \in Slot : ~Booting(u, s)
  BY <1>0
     DEF EnsureLoaded, EnsureLeftover, EnsureEmpty, EnsureRefused, memory, outside, Booting, At
<1>2. CASE EnsureLoaded(u)
  <2>0. StartKept(u)
    BY <1>0, <1>2, SameStart DEF EnsureLoaded
  <2>1. /\ task' \in [Task -> Local] /\ \A v \in Task \ {u} : task'[v] = task[v]
        /\ task'[u].pc = "got" /\ task'[u].home = Home(u) /\ task'[u].cands = <<>>
    <3>1. slot[Home(u)].gen \in Gen \cup {NoGen}
      BY <1>0 DEF TypeOK, Loaded
    <3>2. task \in [Task -> Local] /\ task[u] \in Local /\ task[u].cands = <<>>
      BY <1>0 DEF TypeOK, IsEvictor
    <3>3. task' = [task EXCEPT ![u] = [@ EXCEPT !.pc = "got", !.gen = slot[Home(u)].gen]]
      BY <1>2, <3>2 DEF EnsureLoaded, Local
    <3>. QED  BY <1>0, <3>1, <3>2, <3>3 DEF Local, Home, Pc
  <2>2. LocksKept(u)
    BY <1>0, <1>2, TailKeeps DEF EnsureLoaded
  <2>3. Shape(u)' /\ LocksHeld(u)' /\ InTurn(u)' /\ TaskFits(u)'
    BY <1>0, <2>1, FreeMove DEF HoldingPc, StartupPc, UserPc, Pc
  <2>4. lru' \in Seq(Slot) /\ idle' \subseteq Slot
    BY <1>0, <1>2, WithoutQueue, AppendQueue DEF EnsureLoaded, Touch, TypeOK
  <2>5. TypeOK'
    BY <1>0, <1>2, <2>1, <2>2, <2>4 DEF EnsureLoaded, TypeOK, outside, control, LocksKept
  <2>. QED  BY <1>0, <1>1, <2>0, <2>1, <2>2, <2>3, <2>5, QuietMove
<1>3. CASE EnsureLeftover(u)
  <2>0. StartKept(u)
    BY <1>0, <1>3, SameStart DEF EnsureLeftover
  <2>1. Goes(u, "stop")
    BY <1>0, <1>3, GotoGoes DEF EnsureLeftover, Pc
  <2>2. LocksKept(u) /\ \A s \in Slot : Holds(u, s) => Holds(u, s)'
    BY <1>0, <1>3 DEF EnsureLeftover, LocksKept, TypeOK, Holds
  <2>3. /\ Shape(u)' /\ LocksHeld(u)' /\ InTurn(u)' /\ ~InStartup(u)'
        /\ \A q \in Pc : At(u, q)' <=> q = "stop"
    BY <1>0, <2>1, <2>2, BusyMove DEF Goes, StartupPc, UserPc, Pc
  <2>4. TaskFits(u)'
    BY <2>1, <2>3 DEF TaskFits, Goes, At
  <2>5. TypeOK'
    BY <1>0, <1>3, <2>1 DEF EnsureLeftover, TypeOK, memory, outside, control, Goes
  <2>. QED  BY <1>0, <1>1, <2>0, <2>1, <2>2, <2>3, <2>4, <2>5, QuietMove DEF Goes
<1>4. CASE EnsureEmpty(u)
  <2>1. Goes(u, "reserve")
    BY <1>0, <1>4, GotoGoes DEF EnsureEmpty, Pc
  <2>2. LocksKept(u) /\ \A s \in Slot : Holds(u, s) => Holds(u, s)'
    BY <1>0, <1>4 DEF EnsureEmpty, LocksKept, TypeOK, Holds
  <2>5. StartKept(u) /\ Queued(u)'
    BY <1>0, <1>4, AppendStart DEF EnsureEmpty
  <2>3. /\ Shape(u)' /\ LocksHeld(u)' /\ InTurn(u)' /\ Home(u)' = Home(u)
    BY <1>0, <2>5, <2>1, <2>2, BusyMove DEF Goes, StartupPc, UserPc, Pc
  <2>4. TaskFits(u)'
    BY <1>1, <1>4, <2>1, <2>3 DEF TaskFits, Goes, At, EnsureEmpty
  <2>6. TypeOK'
    BY <1>0, <1>4, <2>1, <2>5 DEF EnsureEmpty, TypeOK, memory, outside, control, Goes, StartKept
  <2>. QED  BY <1>0, <1>1, <2>1, <2>2, <2>3, <2>4, <2>5, <2>6, QuietMove DEF Goes
<1>5. CASE EnsureRefused(u)
  <2>1. Goes(u, "off") /\ LocksKept(u) /\ StartKept(u)
    BY <1>0, <1>5, LeaveKeeps DEF EnsureRefused, Rest
  <2>2. Shape(u)' /\ LocksHeld(u)' /\ InTurn(u)' /\ TaskFits(u)'
    BY <1>0, <2>1, FreeMove DEF HoldingPc, StartupPc, UserPc, Pc, Goes, IsEvictor
  <2>3. TypeOK'
    BY <1>0, <1>5, <2>1 DEF EnsureRefused, TypeOK, memory, outside, control, Goes, LocksKept, StartKept
  <2>. QED  BY <1>0, <1>1, <2>1, <2>2, <2>3, QuietMove DEF Goes
<1>. QED  BY <1>2, <1>3, <1>4, <1>5

-----------------------------------------------------------------------------
(* The start: capacity and its candidates. *)

LEMMA LeastIndex ==
    ASSUME NEW S, S \subseteq Nat, S # {}
    PROVE  \E m \in S : \A n \in S : m <= n
<1>1. IsWellFoundedOn(OpToRel(<, Nat), Nat)
  BY NatLessThanWellFounded
<1>2. PICK m \in S : \A n \in S : ~(<<n, m>> \in OpToRel(<, Nat))
  BY <1>1, WFMin
<1>3. \A n \in S : ~(n < m)
  BY <1>2 DEF OpToRel
<1>. QED  BY <1>3

LEMMA SuffixOfCandidates ==
    ASSUME NEW c \in Seq(Slot), NEW i \in 1..Len(c)
    PROVE  /\ SubSeq(c, i, Len(c)) \in Seq(Slot) /\ SubSeq(c, i, Len(c)) # <<>>
           /\ Head(SubSeq(c, i, Len(c))) = c[i]
<1>1. \A j \in i..Len(c) : c[j] \in Slot
  OBVIOUS
<1>2. SubSeq(c, i, Len(c)) \in Seq(Slot) /\ Len(SubSeq(c, i, Len(c))) = Len(c) - i + 1
  BY <1>1, SubSeqProperties
<1>3. SubSeq(c, i, Len(c)) # <<>>
  <2>1. Len(SubSeq(c, i, Len(c))) # 0
    <3>. DEFINE n == Len(SubSeq(c, i, Len(c)))
    <3>1. Len(c) \in Nat /\ n = Len(c) - i + 1
      BY <1>2
    <3>. HIDE DEF n
    <3>2. n # 0
      BY <3>1
    <3>. QED  BY <3>2 DEF n
  <2>. DEFINE q == SubSeq(c, i, Len(c))
  <2>. HIDE DEF q
  <2>2. q = <<>> => Len(q) = 0
    OBVIOUS
  <2>. QED  BY <2>1, <2>2 DEF q
<1>4. Head(SubSeq(c, i, Len(c))) = c[i]
  BY HeadTailOfSubSeq
<1>. QED  BY <1>2, <1>3, <1>4

LEMMA IdleIsShort ==
    ASSUME Recent, lru \in Seq(Slot), idle \subseteq Slot
    PROVE  Cardinality(idle) <= Len(lru)
<1>1. Len(lru) \in Nat /\ DOMAIN lru = 1..Len(lru)
  OBVIOUS
<1>2. lru \in Surjection(1..Len(lru), Used)
  BY <1>1 DEF Used, Surjection
<1>3. /\ IsFiniteSet(1..Len(lru)) /\ Cardinality(1..Len(lru)) = Len(lru)
  BY <1>1, FS_Interval
<1>4. IsFiniteSet(Used) /\ Cardinality(Used) <= Len(lru)
  BY <1>2, <1>3, FS_Surjection
<1>5. Cardinality(idle) <= Cardinality(Used) /\ IsFiniteSet(idle)
  BY <1>4, FS_Subset DEF Recent
<1>6. Cardinality(idle) \in Nat /\ Cardinality(Used) \in Nat
  BY <1>4, <1>5, FS_CardinalityType
<1>. QED  BY <1>1, <1>4, <1>5, <1>6

\* The start goes on with the first candidate that is not its own slot, or to
\* the gate.
LEMMA NextCandidateMoves ==
    ASSUME IInv, sync' \subseteq User, NEW u \in User,
           \/ At(u, "reserve")
           \/ At(u, "evict") /\ Holds(u, Target(u)),
           First(u),
           NEW c \in Seq(Slot), NextCandidate(u, c),
           UNCHANGED <<memory, outside, startLock, control>>
    PROVE  TaskMove(u) /\ TypeOK'
<1>. DEFINE fit == {i \in DOMAIN c : Candidate(u, c[i])}
            first == CHOOSE i \in fit : \A j \in fit : i <= j
            rest == IF fit = {} THEN <<>> ELSE SubSeq(c, first, Len(c))
<1>0. /\ TypeOK /\ u \in Task /\ Shape(u) /\ LocksHeld(u) /\ TaskFits(u) /\ Home(u) \in Slot
      /\ InStartup(u) /\ Holds(u, Home(u))
      /\ At(u, "evict") => Holds(u, Target(u)) /\ Target(u) # Home(u)
  BY Tasks DEF IInv, Locked, Shape, LocksHeld, Owns, InStartup, StartupPc, At
<1>1. /\ task' = [task EXCEPT ![u].pc = IF rest = <<>> THEN "gate" ELSE "evict",
                              ![u].cands = rest]
      /\ lock' = [s \in Slot |->
                     LET q == IF At(u, "evict") /\ s = Target(u)
                              THEN Tail(lock[s]) ELSE lock[s]
                     IN IF rest # <<>> /\ s = Head(rest) THEN Append(q, u) ELSE q]
  BY DEF NextCandidate
<1>2. /\ rest \in Seq(Slot)
      /\ rest # <<>> => Head(rest) \in Slot /\ Head(rest) # Home(u)
  <2>1. CASE fit = {}
    BY <2>1
  <2>2. CASE fit # {}
    <3>1. fit \subseteq Nat
      OBVIOUS
    <3>2. first \in fit
      BY <2>2, <3>1, LeastIndex
    <3>3. first \in 1..Len(c) /\ c[first] # Home(u)
      BY <3>2 DEF Candidate
    <3>4. rest = SubSeq(c, first, Len(c))
      BY <2>2
    <3>. HIDE DEF first, rest
    <3>5. /\ SubSeq(c, first, Len(c)) \in Seq(Slot)
          /\ Head(SubSeq(c, first, Len(c))) = c[first] /\ c[first] \in Slot
      BY <3>3, SuffixOfCandidates
    <3>. QED  BY <3>3, <3>4, <3>5
  <2>. QED  BY <2>1, <2>2
<1>. HIDE DEF rest
<1>3. /\ task' \in [Task -> Local] /\ \A v \in Task \ {u} : task'[v] = task[v]
      /\ task'[u].pc = IF rest = <<>> THEN "gate" ELSE "evict"
      /\ task'[u].home = Home(u) /\ task'[u].cands = rest
  <2>1. task \in [Task -> Local] /\ task[u] \in Local
    BY <1>0 DEF TypeOK
  <2>2. task' = [task EXCEPT ![u] = [@ EXCEPT !.pc = IF rest = <<>> THEN "gate" ELSE "evict",
                                              !.cands = rest]]
    BY <1>1, <2>1 DEF Local
  <2>. QED  BY <1>0, <1>2, <2>1, <2>2 DEF Local, Pc, Home
<1>4. \A s \in Slot :
         /\ lock'[s] \in Seq(Task)
         /\ \A v \in Task : Holds(v, s) /\ (v # u \/ s = Home(u)) => Holds(v, s)'
  <2>. SUFFICES ASSUME NEW s \in Slot
                PROVE  /\ lock'[s] \in Seq(Task)
                       /\ \A v \in Task : Holds(v, s) /\ (v # u \/ s = Home(u)) => Holds(v, s)'
    OBVIOUS
  <2>. DEFINE q == IF At(u, "evict") /\ s = Target(u) THEN Tail(lock[s]) ELSE lock[s]
  <2>1. lock[s] \in Seq(Task)
    BY <1>0 DEF TypeOK
  <2>2. q \in Seq(Task) /\ \A v \in Task : Holds(v, s) /\ (v # u \/ s = Home(u)) =>
                              q = lock[s]
    <3>1. CASE At(u, "evict") /\ s = Target(u)
      <4>1. Holds(u, s) /\ s # Home(u)
        BY <1>0, <3>1 DEF At
      <4>. QED  BY <2>1, <3>1, <4>1, TailQueue DEF Holds
    <3>. QED  BY <2>1, <3>1
  <2>3. lock'[s] = IF rest # <<>> /\ s = Head(rest) THEN Append(q, u) ELSE q
    BY <1>1
  <2>. HIDE DEF q
  <2>4. /\ Append(q, u) \in Seq(Task) /\ Append(q, u) # <<>>
        /\ q # <<>> => Head(Append(q, u)) = Head(q)
    BY <1>0, <2>2, AppendQueue
  <2>. QED  BY <2>2, <2>3, <2>4 DEF Holds
<1>5. LocksKept(u) /\ Holds(u, Home(u))'
  <2>1. lock' \in [Slot -> Seq(Task)]
    BY <1>1, <1>4
  <2>. QED  BY <1>0, <1>3, <1>4, <2>1 DEF LocksKept, Holds, Home
<1>6. slot' = slot /\ process' = process /\ \A s \in Slot : ~Booting(u, s)
  BY DEF memory, outside, Booting, At
<1>7. Shape(u)'
  BY <1>0, <1>2, <1>3, Tasks DEF Shape, At, Home, Target, IsEvictor, UserPc, Pc
<1>8. LocksHeld(u)'
  BY <1>3, <1>5 DEF LocksHeld, Owns, At, Home
<1>9. TaskFits(u)'
  BY <1>0, <1>3, <1>6 DEF TaskFits, At, Home
<1>11. StartKept(u) /\ InTurn(u)'
  BY <1>0, <1>3, SameStart DEF InTurn, At
<1>10. TypeOK'
  BY <1>0, <1>3, <1>5 DEF TypeOK, memory, outside, control, LocksKept
<1>. QED  BY <1>0, <1>3, <1>5, <1>6, <1>7, <1>8, <1>9, <1>10, <1>11, QuietMove

LEMMA ReserveMoves ==
    ASSUME IInv, sync' \subseteq User, NEW u \in User, Reserve(u) \/ EvictSkips(u)
    PROVE  TaskMove(u) /\ TypeOK'
<1>0. TypeOK /\ u \in Task /\ task[u].cands \in Seq(Slot)
  BY Tasks DEF IInv, TypeOK, Local
<1>1. CASE Reserve(u)
  <2>1. Cardinality(idle) \in Int
    <3>1. IsFiniteSet(idle)
      BY <1>0, ConstantsAssumption, FS_Subset DEF TypeOK
    <3>. QED  BY <3>1, FS_CardinalityType
  <2>2. Candidates \in Seq(Slot)
    <3>1. Cardinality(idle) <= Len(lru)
      BY <1>0, IdleIsShort DEF TypeOK, IInv
    <3>2. \A i \in 1..Cardinality(idle) : lru[i] \in Slot
      BY <1>0, <2>1, <3>1 DEF TypeOK
    <3>. QED  BY <2>1, <3>2, SubSeqProperties DEF Candidates
  <2>3. <<>> \in Seq(Slot)
    OBVIOUS
  <2>4. First(u)
    <3>1. startLock # <<>>
      BY <1>0, <1>1 DEF IInv, Locked, InTurn, Queued, Reserve
    <3>. QED  BY <1>1, <3>1 DEF First, Reserve
  <2>. QED  BY <1>1, <2>2, <2>3, <2>4, NextCandidateMoves DEF Reserve
<1>2. CASE EvictSkips(u)
  <2>1. task[u].cands # <<>>
    BY <1>0, <1>2 DEF IInv, Locked, Shape, EvictSkips, IsEvictor
  <2>2. First(u)
    BY <1>0, <2>1 DEF IInv, Locked, InTurn, IsEvictor
  <2>. QED  BY <1>0, <1>2, <2>1, <2>2, TailQueue, NextCandidateMoves DEF EvictSkips, HoldsTarget
<1>. QED  BY <1>1, <1>2

-----------------------------------------------------------------------------
(* The start: from the capacity to the ready lease. *)

LEMMA Unloads ==
    ASSUME TypeOK, NEW s \in Slot, NEW b \in BOOLEAN, Unload(s, b)
    PROVE  /\ slot' \in [Slot -> Loaded] /\ slot'[s].gen = slot[s].gen
           /\ ~slot'[s].loaded /\ ~slot'[s].reserved
           /\ \A r \in Slot \ {s} : slot'[r] = slot[r]
<1>1. slot \in [Slot -> Loaded] /\ slot[s] \in Loaded
  BY DEF TypeOK
<1>. PICK c \in BOOLEAN : c = (slot[s].backoff \/ b)
  OBVIOUS
<1>2. slot' = [slot EXCEPT ![s].loaded = FALSE, ![s].ready = FALSE,
                           ![s].reserved = FALSE, ![s].backoff = c]
  BY Zenon DEF Unload
<1>3. slot' = [slot EXCEPT ![s] = [@ EXCEPT !.loaded = FALSE, !.ready = FALSE,
                                            !.reserved = FALSE, !.backoff = c]]
  BY <1>1, <1>2 DEF Loaded
<1>4. [slot[s] EXCEPT !.loaded = FALSE, !.ready = FALSE,
                      !.reserved = FALSE, !.backoff = c] \in Loaded
  BY <1>1 DEF Loaded
<1>. QED  BY <1>1, <1>3, <1>4 DEF Loaded

LEMMA KeepsSlot ==
    ASSUME TypeOK, NEW s \in Slot, Keep(s)
    PROVE  /\ slot' \in [Slot -> Loaded] /\ slot'[s].gen = slot[s].gen
           /\ slot'[s].loaded /\ slot'[s].reserved = slot[s].reserved
           /\ ~slot'[s].ready
           /\ \A r \in Slot \ {s} : slot'[r] = slot[r]
<1>1. slot \in [Slot -> Loaded] /\ slot[s] \in Loaded
  BY DEF TypeOK
<1>2. slot' = [slot EXCEPT ![s] = [@ EXCEPT !.loaded = TRUE, !.ready = FALSE,
                                  !.backoff = TRUE]]
  BY <1>1 DEF Keep, Loaded
<1>3. [slot[s] EXCEPT !.loaded = TRUE, !.ready = FALSE, !.backoff = TRUE] \in Loaded
  BY <1>1 DEF Loaded
<1>. QED  BY <1>1, <1>2, <1>3 DEF Loaded

\* A task in a start holds the lock of its slot, which has no runtime.
LEMMA Starter ==
    ASSUME IInv, NEW u \in User, InStartup(u)
    PROVE  /\ TypeOK /\ u \in Task /\ Shape(u) /\ LocksHeld(u) /\ InTurn(u) /\ TaskFits(u)
           /\ Home(u) \in Slot /\ Holds(u, Home(u)) /\ ~slot[Home(u)].loaded
           /\ ~IsCloser(u) /\ ~IsWatcher(u)
           /\ IsEvictor(u) <=> task[u].pc \in {"evict", "stop", "close"}
<1>1. TypeOK /\ u \in Task /\ Shape(u) /\ LocksHeld(u) /\ InTurn(u) /\ TaskFits(u)
  BY Tasks DEF IInv, Locked
<1>2. Home(u) \in Slot
  BY <1>1 DEF Shape, InStartup, StartupPc, At
<1>3. Holds(u, Home(u)) /\ ~slot[Home(u)].loaded
  BY <1>1, <1>2 DEF LocksHeld, Owns, TaskFits
<1>4. IsEvictor(u) <=> task[u].pc \in {"evict", "stop", "close"}
  BY <1>1 DEF Shape, InStartup, StartupPc
<1>. QED  BY <1>1, <1>2, <1>3, <1>4, Tasks

LEMMA EvictMoves ==
    ASSUME IInv, sync' \subseteq User, NEW u \in User, Evict(u)
    PROVE  TaskMove(u) /\ TypeOK'
<1>0. At(u, "evict") /\ InStartup(u) /\ IsEvictor(u) /\ Holds(u, Target(u))
  BY Tasks DEF Evict, InStartup, At, IInv, Locked, Shape, HoldsTarget
<1>1. Goes(u, "stop") /\ LocksKept(u) /\ \A s \in Slot : Holds(u, s) => Holds(u, s)'
  BY <1>0, Starter, GotoGoes DEF Evict, LocksKept, TypeOK, Holds, Pc
<1>6. StartKept(u) /\ First(u) /\ First(u)'
  BY <1>0, Starter, SameStart DEF Evict, InTurn
<1>2. slot' = slot /\ process' = process /\ \A s \in Slot : ~Booting(u, s)
  BY <1>0 DEF Evict, memory, outside, Booting, At
<1>3. Shape(u)' /\ LocksHeld(u)' /\ InTurn(u)' /\ Home(u)' = Home(u)
  BY <1>0, <1>1, <1>6, Starter, BusyMove DEF Goes, StartupPc, UserPc, Pc
<1>4. TaskFits(u)'
  BY <1>0, <1>1, <1>2, <1>3, Starter DEF Goes, TaskFits, At
<1>5. TypeOK'
  BY <1>0, <1>1, Starter DEF Evict, TypeOK, memory, outside, control, Goes
<1>. QED  BY <1>0, <1>1, <1>2, <1>3, <1>4, <1>5, <1>6, Starter, QuietMove DEF Goes

LEMMA PassGateMoves ==
    ASSUME IInv, sync' \subseteq User, NEW u \in User, PassGate(u)
    PROVE  TaskMove(u) /\ TypeOK'
<1>0. At(u, "gate") /\ InStartup(u)
  BY DEF PassGate, InStartup, At, StartupPc
<1>. PICK s \in Slot : s = Home(u)
  BY <1>0, Starter
<1>1. /\ TypeOK /\ u \in Task /\ s \in Slot /\ Holds(u, s) /\ ~slot[s].loaded
      /\ ~IsEvictor(u)
  BY <1>0, Starter DEF At
<1>2. process[s] = {}
  BY <1>0, <1>1, HeldIsEmpty DEF Booting, At
<1>3. Goes(u, "create") /\ LocksKept(u) /\ \A r \in Slot : Holds(u, r) => Holds(u, r)'
  BY <1>1, GotoGoes DEF PassGate, LocksKept, TypeOK, Holds, Pc
<1>4. /\ slot' \in [Slot -> Loaded] /\ \A r \in Slot \ {s} : slot'[r] = slot[r]
      /\ ~slot'[s].loaded /\ slot'[s].reserved /\ slot'[s].gen = slot[s].gen
  <2>1. slot \in [Slot -> Loaded] /\ slot[s] \in Loaded
    BY <1>1 DEF TypeOK
  <2>2. slot' = [slot EXCEPT ![s] = [@ EXCEPT !.reserved = TRUE]]
    BY <2>1 DEF PassGate, Loaded
  <2>. QED  BY <1>1, <2>1, <2>2 DEF Loaded
<1>5. process' = process /\ \A r \in Slot : ~Booting(u, r)
  BY <1>0 DEF PassGate, outside, Booting, At
<1>6. Shape(u)' /\ LocksHeld(u)' /\ InTurn(u)' /\ Home(u)' = s
  BY <1>1, <1>3, BusyMove DEF Goes, StartupPc, UserPc, Pc
<1>7. TaskFits(u)'
  BY <1>2, <1>3, <1>4, <1>5, <1>6 DEF Goes, TaskFits, At
<1>8. Booting(u, s)'
  BY <1>3, <1>6 DEF Goes, Booting
<1>9. SlotFits(s)'
  BY <1>1, <1>2, <1>4, <1>5, <1>8 DEF SlotFits
<1>10. StartKept(u)
  BY <1>0, <1>1, Starter, TailStart DEF PassGate, InTurn
<1>11. TypeOK'
  BY <1>1, <1>3, <1>4, <1>10 DEF PassGate, TypeOK, outside, control, Goes, StartKept
<1>. QED  BY <1>1, <1>3, <1>4, <1>5, <1>6, <1>7, <1>9, <1>10, <1>11, SlotMove DEF Goes

\* A runtime that is not published: its slot has the generation of the task.
LEMMA Boots ==
    ASSUME IInv, NEW u \in User, task[u].pc \in {"create", "boot", "mark", "cleanup"}
    PROVE  /\ InStartup(u) /\ ~IsEvictor(u) /\ slot[Home(u)].reserved
           /\ process[Home(u)] \subseteq {slot[Home(u)].gen}
           /\ At(u, "create") => process[Home(u)] = {}
           /\ ~At(u, "create") => slot[Home(u)].gen = task[u].gen
<1>1. InStartup(u)
  BY DEF InStartup, StartupPc
<1>2. SlotFits(Home(u)) /\ TaskFits(u)
  BY <1>1, Starter DEF IInv
<1>. QED  BY <1>1, <1>2, Starter DEF SlotFits, TaskFits, At

LEMMA StartAbortedMoves ==
    ASSUME IInv, sync' \subseteq User, NEW u \in User, StartAborted(u)
    PROVE  TaskMove(u) /\ TypeOK'
<1>0. task[u].pc \in {"reserve", "evict", "gate", "create"} /\ InStartup(u)
  <2>1. task[u].pc \in {"reserve", "evict", "gate", "create"}
    BY DEF StartAborted, Abortable, At
  <2>2. At(u, "evict") => IsEvictor(u)
    BY Tasks DEF IInv, Locked, Shape
  <2>. QED  BY <2>1, <2>2 DEF InStartup, StartupPc, At
<1>. PICK s \in Slot : s = Home(u)
  BY <1>0, Starter
<1>1. TypeOK /\ u \in Task /\ Holds(u, s) /\ ~slot[s].loaded
  BY <1>0, Starter
<1>2. process[s] = {}
  <2>1. CASE At(u, "create")
    BY <2>1, Boots DEF At
  <2>2. CASE ~At(u, "create")
    BY <1>0, <1>1, <2>2, HeldIsEmpty DEF Booting, At
  <2>. QED  BY <2>1, <2>2
<1>3. /\ task' \in [Task -> Local] /\ \A v \in Task \ {u} : task'[v] = task[v]
      /\ task'[u].pc = "off" /\ task'[u].home = s /\ task'[u].cands = <<>>
  <2>1. task \in [Task -> Local] /\ task[u] \in Local
    BY <1>1 DEF TypeOK
  <2>2. task' = [task EXCEPT ![u] = [@ EXCEPT !.pc = "off", !.cands = <<>>]]
    BY <2>1 DEF StartAborted, Local
  <2>3. <<>> \in Seq(Slot)
    OBVIOUS
  <2>4. [task[u] EXCEPT !.pc = "off", !.cands = <<>>] \in Local
    BY <2>1, <2>3 DEF Local, Pc
  <2>. QED  BY <1>1, <2>1, <2>2, <2>4 DEF Local, Home
<1>4. LocksKept(u)
  BY <1>1, WithoutLock DEF StartAborted
<1>5. StartKept(u)
  BY <1>1, WithoutStart DEF StartAborted
<1>6. /\ slot' \in [Slot -> Loaded] /\ ~slot'[s].loaded /\ ~slot'[s].reserved
      /\ \A r \in Slot \ {s} : slot'[r] = slot[r]
  BY <1>1, Unloads DEF StartAborted
<1>7. Shape(u)' /\ LocksHeld(u)' /\ InTurn(u)' /\ TaskFits(u)'
  BY <1>1, <1>3, FreeMove DEF HoldingPc, StartupPc, UserPc, Pc
<1>8. process' = process /\ \A r \in Slot \ {s} : ~Booting(u, r)
  BY DEF StartAborted, outside, Booting
<1>9. SlotFits(s)'
  BY <1>2, <1>6, <1>8 DEF SlotFits
<1>10. TypeOK'
  BY <1>1, <1>3, <1>4, <1>5, <1>6
     DEF StartAborted, TypeOK, outside, control, LocksKept, StartKept
<1>. QED  BY <1>1, <1>3, <1>4, <1>5, <1>6, <1>7, <1>8, <1>9, <1>10, SlotMove

LEMMA CreateMoves ==
    ASSUME IInv, sync' \subseteq User, NEW u \in User, Create(u)
    PROVE  TaskMove(u) /\ TypeOK'
<1>0. At(u, "create") /\ InStartup(u) /\ ~IsEvictor(u)
  BY Boots DEF Create, At
<1>. PICK s \in Slot : s = Home(u)
  BY <1>0, Starter
<1>. DEFINE g == slot[s].gen + 1
<1>1. /\ TypeOK /\ u \in Task /\ Shape(u) /\ Holds(u, s) /\ ~slot[s].loaded
      /\ slot[s].reserved /\ process[s] = {}
  BY <1>0, Starter, Boots DEF At
<1>2. g \in Gen
  <2>1. slot[s].gen \in Gen \cup {NoGen}
    BY <1>1 DEF TypeOK, Loaded
  <2>. QED  BY <2>1 DEF Gen, NoGen
<1>. HIDE DEF g
<1>3. /\ slot' = [slot EXCEPT ![s].gen = g]
      /\ lease' = [lease EXCEPT ![s] = "starting"]
      /\ process' = [process EXCEPT ![s] = @ \cup {g}]
      /\ task' = [task EXCEPT ![u].pc = "boot", ![u].gen = g]
  BY DEF Create, g
<1>4. /\ task' \in [Task -> Local] /\ \A v \in Task \ {u} : task'[v] = task[v]
      /\ task'[u].pc = "boot" /\ task'[u].home = task[u].home
      /\ task'[u].cands = task[u].cands /\ task'[u].gen = g
  <2>1. task \in [Task -> Local] /\ task[u] \in Local
    BY <1>1 DEF TypeOK
  <2>2. task' = [task EXCEPT ![u] = [@ EXCEPT !.pc = "boot", !.gen = g]]
    BY <1>3, <2>1 DEF Local
  <2>. QED  BY <1>1, <1>2, <2>1, <2>2 DEF Local, Pc
<1>5. /\ slot' \in [Slot -> Loaded] /\ slot'[s].gen = g
      /\ ~slot'[s].loaded /\ slot'[s].reserved
      /\ \A r \in Slot \ {s} : slot'[r] = slot[r]
  <2>1. slot \in [Slot -> Loaded] /\ slot[s] \in Loaded
    BY <1>1 DEF TypeOK
  <2>2. slot' = [slot EXCEPT ![s] = [@ EXCEPT !.gen = g]]
    BY <1>3, <2>1 DEF Loaded
  <2>. QED  BY <1>1, <1>2, <2>1, <2>2 DEF Loaded
<1>6. /\ process' \in [Slot -> SUBSET Gen] /\ process'[s] = {g}
      /\ \A r \in Slot \ {s} : process'[r] = process[r]
      /\ lease' \in [Slot -> LeaseState]
  BY <1>1, <1>2, <1>3 DEF TypeOK, LeaseState
<1>7. StartKept(u) /\ LocksKept(u) /\ \A r \in Slot : Holds(u, r) => Holds(u, r)'
  BY <1>1, SameStart DEF Create, LocksKept, TypeOK, Holds
<1>8. Shape(u)' /\ LocksHeld(u)' /\ InTurn(u)' /\ Home(u)' = s
  BY <1>0, <1>1, <1>4, <1>7, BusyMove DEF StartupPc, UserPc, Pc
<1>9. TaskFits(u)'
  BY <1>4, <1>5, <1>8 DEF TaskFits, At
<1>10. Booting(u, s)' /\ \A r \in Slot \ {s} : ~Booting(u, r)
  BY <1>4, <1>8 DEF Booting
<1>11. SlotFits(s)'
  BY <1>1, <1>5, <1>6, <1>10 DEF SlotFits
<1>12. TypeOK'
  BY <1>1, <1>4, <1>5, <1>6 DEF Create, TypeOK, control
<1>. QED  BY <1>1, <1>4, <1>5, <1>6, <1>7, <1>8, <1>9, <1>10, <1>11, <1>12, SlotMove

LEMMA BootMoves ==
    ASSUME IInv, sync' \subseteq User, NEW u \in User,
           Booted(u) \/ BootFails(u) \/ StartCancelled(u)
    PROVE  TaskMove(u) /\ TypeOK'
<1>0. task[u].pc \in {"boot", "mark"} /\ InStartup(u) /\ ~IsEvictor(u)
  BY Boots DEF Booted, BootFails, StartCancelled, At
<1>. PICK s \in Slot : s = Home(u)
  BY <1>0, Starter
<1>1. /\ TypeOK /\ u \in Task /\ Shape(u) /\ Holds(u, s) /\ ~slot[s].loaded
      /\ slot[s].reserved /\ slot[s].gen = task[u].gen
  BY <1>0, Starter, Boots DEF At
<1>2. PICK pc \in {"mark", "cleanup"} : Goes(u, pc)
  BY <1>1, GotoGoes DEF Booted, BootFails, StartCancelled, Pc
<1>3. slot' = slot /\ process' = process /\ lock' = lock /\ startLock' = startLock
  BY DEF Booted, BootFails, StartCancelled, memory, outside
<1>4. StartKept(u) /\ LocksKept(u) /\ \A r \in Slot : Holds(u, r) => Holds(u, r)'
  BY <1>1, <1>3, SameStart DEF LocksKept, TypeOK, Holds
<1>5. Shape(u)' /\ LocksHeld(u)' /\ InTurn(u)' /\ Home(u)' = s
  BY <1>0, <1>1, <1>2, <1>4, BusyMove DEF StartupPc, UserPc, Pc, Goes
<1>6. TaskFits(u)'
  BY <1>1, <1>2, <1>3, <1>5 DEF TaskFits, At, Goes
<1>7. \A r \in Slot : Booting(u, r) => Booting(u, r)'
  BY <1>2, <1>5 DEF Booting, Goes
<1>8. lease' \in [Slot -> LeaseState] /\ faults' \in 0..MaxFaults
  BY <1>1, ConstantsAssumption
     DEF Booted, BootFails, StartCancelled, TypeOK, LeaseState, outside, control
<1>9. TypeOK'
  BY <1>1, <1>2, <1>8
     DEF Booted, BootFails, StartCancelled, TypeOK, memory, outside, control, Goes
<1>. QED  BY <1>1, <1>2, <1>3, <1>4, <1>5, <1>6, <1>7, <1>9, QuietMove DEF Goes

LEMMA MarkReadyMoves ==
    ASSUME IInv, sync' \subseteq User, NEW u \in User, MarkReady(u)
    PROVE  TaskMove(u) /\ TypeOK'
<1>0. At(u, "mark") /\ InStartup(u) /\ ~IsEvictor(u)
  BY Boots DEF MarkReady, At
<1>. PICK s \in Slot : s = Home(u)
  BY <1>0, Starter
<1>1. /\ TypeOK /\ u \in Task /\ Shape(u) /\ Holds(u, s)
      /\ slot[s].reserved /\ process[s] \subseteq {slot[s].gen}
      /\ Target(u) = s
  BY <1>0, Starter, Boots DEF At, Target, IsEvictor
<1>2. /\ slot' \in [Slot -> Loaded] /\ slot'[s].gen = slot[s].gen
      /\ slot'[s].loaded /\ slot'[s].reserved
      /\ \A r \in Slot \ {s} : slot'[r] = slot[r]
  <2>1. slot \in [Slot -> Loaded] /\ slot[s] \in Loaded
    BY <1>1 DEF TypeOK
  <2>2. slot' = [slot EXCEPT ![s] = [@ EXCEPT !.loaded = TRUE, !.ready = TRUE]]
    BY <2>1 DEF MarkReady, Loaded
  <2>. QED  BY <1>1, <2>1, <2>2 DEF Loaded
<1>3. lease' \in [Slot -> LeaseState] /\ process' = process /\ StartKept(u)
  BY <1>1, SameStart DEF MarkReady, TypeOK, LeaseState
<1>4. lru' \in Seq(Slot) /\ idle' \subseteq Slot
  BY <1>1, WithoutQueue, AppendQueue DEF MarkReady, Touch, TypeOK
<1>5. SlotFits(s)'
  BY <1>1, <1>2, <1>3 DEF SlotFits
<1>6. \A r \in Slot \ {s} : ~Booting(u, r)
  BY DEF Booting
<1>7. CASE Closing
  <2>1. Goes(u, "stop") /\ lock' = lock
    BY <1>1, <1>7, GotoGoes DEF MarkReady, Pc
  <2>2. LocksKept(u) /\ \A r \in Slot : Holds(u, r) => Holds(u, r)'
    BY <1>1, <2>1 DEF LocksKept, TypeOK, Holds
  <2>3. /\ Shape(u)' /\ LocksHeld(u)' /\ InTurn(u)' /\ ~InStartup(u)'
    BY <1>0, <1>1, <2>1, <2>2, BusyMove DEF Goes, StartupPc, UserPc, Pc
  <2>4. TaskFits(u)'
    BY <2>1, <2>3 DEF TaskFits, Goes, At
  <2>5. TypeOK'
    BY <1>1, <1>2, <1>3, <1>4, <2>1 DEF MarkReady, TypeOK, control, Goes
  <2>. QED  BY <1>1, <1>2, <1>3, <1>5, <1>6, <2>1, <2>2, <2>3, <2>4, <2>5, SlotMove DEF Goes
<1>8. CASE ~Closing
  <2>1. Goes(u, "got") /\ LocksKept(u)
    BY <1>1, <1>8, GotoGoes, TailKeeps DEF MarkReady, Pc
  <2>2. Shape(u)' /\ LocksHeld(u)' /\ InTurn(u)' /\ TaskFits(u)'
    BY <1>0, <1>1, <2>1, FreeMove
       DEF HoldingPc, StartupPc, UserPc, Pc, Goes, IsEvictor, Home
  <2>3. TypeOK'
    BY <1>1, <1>2, <1>3, <1>4, <2>1 DEF MarkReady, TypeOK, control, Goes, LocksKept
  <2>. QED  BY <1>1, <1>2, <1>3, <1>5, <1>6, <2>1, <2>2, <2>3, SlotMove DEF Goes
<1>. QED  BY <1>7, <1>8

LEMMA CleanupMoves ==
    ASSUME IInv, sync' \subseteq User, NEW u \in User, Cleanup(u) \/ CleanupFails(u)
    PROVE  TaskMove(u) /\ TypeOK'
<1>0. At(u, "cleanup") /\ InStartup(u) /\ ~IsEvictor(u)
  BY Boots DEF Cleanup, CleanupFails, At
<1>. PICK s \in Slot : s = Home(u)
  BY <1>0, Starter
<1>1. /\ TypeOK /\ u \in Task /\ Holds(u, s) /\ ~IsCloser(u)
      /\ slot[s].reserved /\ process[s] \subseteq {slot[s].gen}
      /\ slot[s].gen = task[u].gen
  BY <1>0, Starter, Boots DEF At
<1>2. Goes(u, "off") /\ LocksKept(u) /\ StartKept(u)
  BY <1>1, LeaveKeeps DEF Cleanup, CleanupFails, Rest
<1>3. Shape(u)' /\ LocksHeld(u)' /\ InTurn(u)' /\ TaskFits(u)'
  BY <1>0, <1>1, <1>2, FreeMove
     DEF HoldingPc, StartupPc, UserPc, Pc, Goes, IsEvictor, Home
<1>4. lease' \in [Slot -> LeaseState]
  BY <1>1 DEF Cleanup, CleanupFails, FailedStart, TypeOK, LeaseState
<1>5. \A r \in Slot \ {s} : ~Booting(u, r)
  BY DEF Booting
<1>6. CASE Cleanup(u)
  <2>1. /\ slot' \in [Slot -> Loaded] /\ ~slot'[s].loaded /\ ~slot'[s].reserved
        /\ \A r \in Slot \ {s} : slot'[r] = slot[r]
    BY <1>1, <1>6, Unloads DEF Cleanup
  <2>2. /\ process' \in [Slot -> SUBSET Gen] /\ process'[s] = {}
        /\ \A r \in Slot \ {s} : process'[r] = process[r]
    BY <1>1, <1>6 DEF Cleanup, TypeOK
  <2>3. SlotFits(s)'
    BY <2>1, <2>2 DEF SlotFits
  <2>4. TypeOK'
    BY <1>1, <1>2, <1>4, <1>6, <2>1, <2>2
       DEF Cleanup, TypeOK, control, Goes, LocksKept, StartKept
  <2>. QED  BY <1>1, <1>2, <1>3, <1>5, <2>1, <2>2, <2>3, <2>4, SlotMove DEF Goes
<1>7. CASE CleanupFails(u)
  <2>1. /\ slot' \in [Slot -> Loaded] /\ slot'[s].loaded /\ slot'[s].reserved
        /\ slot'[s].gen = slot[s].gen
        /\ \A r \in Slot \ {s} : slot'[r] = slot[r]
    BY <1>1, <1>7, KeepsSlot DEF CleanupFails
  <2>2. process' = process
    BY <1>7 DEF CleanupFails
  <2>3. SlotFits(s)'
    BY <1>1, <2>1, <2>2 DEF SlotFits
  <2>4. faults' \in 0..MaxFaults
    BY <1>1, <1>7, FaultCounts DEF CleanupFails
  <2>5. TypeOK'
    BY <1>1, <1>2, <1>4, <1>7, <2>1, <2>4
       DEF CleanupFails, TypeOK, Goes, LocksKept, StartKept
  <2>. QED  BY <1>1, <1>2, <1>3, <1>5, <2>1, <2>2, <2>3, <2>5, SlotMove DEF Goes
<1>. QED  BY <1>6, <1>7

-----------------------------------------------------------------------------
(* What a task does with its runtime. *)

\* A step to a pc without a lock that writes no slot.
LEMMA IdleMove ==
    ASSUME IInv, NEW t \in Task, NEW pc \in Pc \ HoldingPc, Goes(t, pc), LocksKept(t),
           StartKept(t), slot' = slot, process' = process, ~InStartup(t),
           t \in User => pc \in UserPc /\ (pc # "off" => Home(t) \in Slot),
           t \notin User => pc \in IF IsCloser(t) THEN CloserPc ELSE WatcherPc
    PROVE  TaskMove(t)
<1>1. Shape(t) /\ task[t].cands = <<>>
  BY DEF IInv, Locked, InStartup, IsEvictor
<1>2. Shape(t)' /\ LocksHeld(t)' /\ InTurn(t)' /\ TaskFits(t)'
  BY <1>1, FreeMove DEF Goes, Shape, Home
<1>3. \A s \in Slot : ~Booting(t, s)
  BY DEF Booting, InStartup, StartupPc
<1>. QED  BY <1>2, <1>3, QuietMove DEF Goes

LEMMA WaitKeeps ==
    ASSUME TypeOK, NEW t \in Task, NEW s \in Slot, NEW pc \in Pc, WaitFor(t, s, pc)
    PROVE  Goes(t, pc) /\ LocksKept(t)
  BY AppendKeeps, GotoGoes DEF WaitFor, LocksKept

LEMMA UseMoves ==
    ASSUME IInv, sync' \subseteq User, NEW u \in User,
           Claim(u) \/ ClaimFails(u) \/ EndWork(u) \/ UserReports(u) \/ UserRetires(u)
    PROVE  TaskMove(u) /\ TypeOK'
<1>0. /\ task[u].pc \in {"got", "work"} /\ ~InStartup(u)
      /\ TypeOK /\ u \in Task /\ Shape(u) /\ Home(u) \in Slot
  BY Tasks
     DEF Claim, ClaimFails, EndWork, UserReports, UserRetires, At, IInv, Locked, Shape,
         InStartup, StartupPc
<1>1. PICK pc \in {"work", "off", "report", "retire"} : Goes(u, pc) /\ LocksKept(u)
  <2>. USE DEF Pc
  <2>1. lock' = lock => LocksKept(u)
    BY <1>0 DEF LocksKept, TypeOK, Holds
  <2>2. CASE Claim(u)
    BY <1>0, <2>1, <2>2, GotoGoes DEF Claim
  <2>3. CASE ClaimFails(u)
    BY <1>0, <2>1, <2>3, GotoGoes DEF ClaimFails
  <2>4. CASE EndWork(u)
    BY <1>0, <2>1, <2>4, GotoGoes DEF EndWork
  <2>5. CASE UserReports(u)
    BY <1>0, <2>5, WaitKeeps DEF UserReports
  <2>6. CASE UserRetires(u)
    BY <1>0, <2>6, WaitKeeps DEF UserRetires
  <2>. QED  BY <2>2, <2>3, <2>4, <2>5, <2>6
<1>2. slot' = slot /\ process' = process /\ startLock' = startLock
  BY DEF Claim, ClaimFails, EndWork, UserReports, UserRetires, memory, outside
<1>3. TaskMove(u)
  BY <1>0, <1>1, <1>2, SameStart, IdleMove DEF HoldingPc, StartupPc, UserPc, Pc
<1>4. live' \subseteq User
  BY <1>0 DEF Claim, ClaimFails, EndWork, UserReports, UserRetires, TypeOK, outside
<1>5. TypeOK'
  BY <1>0, <1>1, <1>4
     DEF Claim, ClaimFails, EndWork, UserReports, UserRetires, TypeOK, memory, outside, control,
         Goes, LocksKept
<1>. QED  BY <1>3, <1>5

LEMMA RetireMoves ==
    ASSUME IInv, sync' \subseteq User, NEW u \in User, Retire(u)
    PROVE  TaskMove(u) /\ TypeOK'
<1>0. /\ At(u, "retire") /\ ~InStartup(u) /\ ~IsEvictor(u)
      /\ TypeOK /\ u \in Task /\ Shape(u) /\ Home(u) \in Slot /\ Holds(u, Target(u))
  BY Tasks
     DEF Retire, At, IInv, Locked, Shape, InStartup, StartupPc, HoldsTarget
<1>1. Goes(u, "stop")
  BY <1>0, GotoGoes DEF Retire, Pc
<1>2. slot' = slot /\ process' = process /\ lock' = lock /\ startLock' = startLock
  BY DEF Retire, memory, outside
<1>3. LocksKept(u) /\ StartKept(u) /\ \A s \in Slot : Holds(u, s) => Holds(u, s)'
  BY <1>0, <1>2, SameStart DEF LocksKept, TypeOK, Holds
<1>4. Shape(u)' /\ LocksHeld(u)' /\ InTurn(u)' /\ ~InStartup(u)'
  BY <1>0, <1>1, <1>3, BusyMove DEF Goes, StartupPc, UserPc, Pc
<1>5. TaskFits(u)'
  BY <1>1, <1>4 DEF TaskFits, Goes, At
<1>6. \A s \in Slot : ~Booting(u, s)
  BY <1>0 DEF Booting, At
<1>7. TypeOK'
  BY <1>0, <1>1 DEF Retire, TypeOK, memory, outside, control, Goes
<1>. QED  BY <1>0, <1>1, <1>2, <1>3, <1>4, <1>5, <1>6, <1>7, QuietMove DEF Goes

\* Who reports is a user or a watcher.
LEMMA Reporter ==
    ASSUME IInv, NEW t \in Task, task[t].pc \in {"retire", "report", "reportClose"}
    PROVE  /\ TypeOK /\ Shape(t) /\ LocksHeld(t) /\ TaskFits(t)
           /\ Home(t) \in Slot /\ Target(t) = Home(t) /\ ~IsCloser(t)
           /\ ~IsEvictor(t) /\ ~InStartup(t) /\ Rest(t) = "off"
           /\ \A s \in Slot : ~Booting(t, s)
<1>1. TypeOK /\ Shape(t) /\ LocksHeld(t) /\ TaskFits(t)
  BY DEF IInv, Locked
<1>2. Home(t) \in Slot /\ ~IsEvictor(t) /\ ~IsCloser(t)
  BY <1>1, Tasks DEF Shape, At, CloserPc
<1>. QED  BY <1>1, <1>2 DEF Target, IsEvictor, InStartup, StartupPc, Rest, Booting

LEMMA StaleMoves ==
    ASSUME IInv, sync' \subseteq User, NEW t \in Task, StaleCall(t)
    PROVE  TaskMove(t) /\ TypeOK'
<1>0. TypeOK /\ ~InStartup(t) /\ Rest(t) = "off"
  BY Reporter DEF StaleCall, At
<1>1. Goes(t, "off") /\ LocksKept(t) /\ StartKept(t)
  BY <1>0, LeaveKeeps DEF StaleCall
<1>2. slot' = slot /\ process' = process
  BY DEF StaleCall, memory, outside
<1>3. TaskMove(t)
  <2>1. ~IsCloser(t)
    BY Reporter DEF StaleCall, At
  <2>. QED  BY <1>0, <1>1, <1>2, <2>1, IdleMove
               DEF HoldingPc, StartupPc, UserPc, WatcherPc, Pc
<1>4. TypeOK'
  BY <1>0, <1>1
     DEF StaleCall, TypeOK, memory, outside, control, Goes, LocksKept, StartKept
<1>. QED  BY <1>3, <1>4

LEMMA ReportMoves ==
    ASSUME IInv, sync' \subseteq User, NEW t \in Task, Report(t)
    PROVE  TaskMove(t) /\ TypeOK'
<1>0. At(t, "report") /\ Holds(t, Home(t)) /\ ~IsStale(t)
  BY Reporter DEF Report, At, HoldsTarget
<1>1. Goes(t, "reportClose")
  BY <1>0, Reporter, GotoGoes DEF Report, Pc, At
<1>2. slot' = slot /\ process' = process /\ lock' = lock /\ startLock' = startLock
  BY DEF Report, memory
<1>3. LocksKept(t) /\ StartKept(t) /\ \A s \in Slot : Holds(t, s) => Holds(t, s)'
  BY <1>0, <1>2, Reporter, SameStart DEF LocksKept, TypeOK, Holds, At
<1>4. Shape(t)' /\ LocksHeld(t)' /\ InTurn(t)' /\ ~InStartup(t)' /\ Home(t)' = Home(t)
  BY <1>0, <1>1, <1>3, Reporter, BusyMove
     DEF Goes, StartupPc, UserPc, WatcherPc, Pc, At
<1>5. TaskFits(t)'
  BY <1>0, <1>1, <1>2, <1>4 DEF TaskFits, Goes, At, IsStale
<1>6. lease' \in [Slot -> LeaseState] /\ live' \subseteq User
  BY <1>0, Reporter DEF Report, TypeOK, LeaseState, At
<1>7. TypeOK'
  BY <1>0, <1>1, <1>6, Reporter DEF Report, TypeOK, memory, control, Goes, At
<1>. QED  BY <1>0, <1>1, <1>2, <1>3, <1>4, <1>5, <1>7, Reporter, QuietMove DEF Goes, At

LEMMA ReportCloseMoves ==
    ASSUME IInv, sync' \subseteq User, NEW t \in Task,
           ReportCloses(t) \/ ReportCloseFails(t)
    PROVE  TaskMove(t) /\ TypeOK'
<1>0. At(t, "reportClose")
  BY DEF ReportCloses, ReportCloseFails
<1>. PICK s \in Slot : s = Home(t)
  BY <1>0, Reporter DEF At
<1>1. /\ TypeOK /\ Holds(t, s) /\ slot[s].loaded /\ slot[s].gen = task[t].gen
      /\ ~IsCloser(t) /\ ~IsEvictor(t) /\ Rest(t) = "off" /\ Shape(t)
      /\ \A r \in Slot : ~Booting(t, r)
  BY <1>0, Reporter DEF At, LocksHeld, Owns, TaskFits
<1>2. SlotFits(s)
  BY DEF IInv
<1>3. Goes(t, "off") /\ LocksKept(t) /\ StartKept(t)
  BY <1>1, LeaveKeeps DEF ReportCloses, ReportCloseFails
<1>4. Shape(t)' /\ LocksHeld(t)' /\ InTurn(t)' /\ TaskFits(t)'
  BY <1>1, <1>3, FreeMove
     DEF Goes, HoldingPc, StartupPc, UserPc, WatcherPc, Pc, Shape, Home, IsEvictor
<1>5. CASE ReportCloses(t)
  <2>1. /\ slot' \in [Slot -> Loaded] /\ ~slot'[s].loaded /\ ~slot'[s].reserved
        /\ \A r \in Slot \ {s} : slot'[r] = slot[r]
    BY <1>1, <1>5, Unloads DEF ReportCloses
  <2>2. /\ process' \in [Slot -> SUBSET Gen] /\ process'[s] = {}
        /\ \A r \in Slot \ {s} : process'[r] = process[r]
    BY <1>1, <1>2, <1>5 DEF ReportCloses, TypeOK, SlotFits
  <2>3. SlotFits(s)'
    BY <2>1, <2>2 DEF SlotFits
  <2>4. TypeOK'
    BY <1>1, <1>3, <1>5, <2>1, <2>2
       DEF ReportCloses, TypeOK, control, Goes, LocksKept, StartKept
  <2>. QED  BY <1>1, <1>3, <1>4, <2>1, <2>2, <2>3, <2>4, SlotMove DEF Goes
<1>6. CASE ReportCloseFails(t)
  <2>1. /\ slot' \in [Slot -> Loaded] /\ slot'[s].loaded
        /\ slot'[s].gen = slot[s].gen /\ slot'[s].reserved = slot[s].reserved
        /\ \A r \in Slot \ {s} : slot'[r] = slot[r]
    BY <1>1, <1>6, KeepsSlot DEF ReportCloseFails
  <2>2. process' = process
    BY <1>6 DEF ReportCloseFails
  <2>3. SlotFits(s)'
    BY <1>1, <1>2, <2>1, <2>2 DEF SlotFits
  <2>4. faults' \in 0..MaxFaults /\ lease' \in [Slot -> LeaseState]
    BY <1>1, <1>6, FaultCounts DEF ReportCloseFails, TypeOK, LeaseState
  <2>5. TypeOK'
    BY <1>1, <1>3, <1>6, <2>1, <2>4
       DEF ReportCloseFails, TypeOK, Goes, LocksKept, StartKept
  <2>. QED  BY <1>1, <1>3, <1>4, <2>1, <2>2, <2>3, <2>5, SlotMove DEF Goes
<1>. QED  BY <1>5, <1>6

-----------------------------------------------------------------------------
(* _close_ready_slot *)

\* Who closes a runtime holds the lock of its slot, and an evictor that of the
\* slot it starts as well.
LEMMA CloseHolder ==
    ASSUME IInv, NEW t \in Task, task[t].pc \in {"stop", "close"}
    PROVE  /\ TypeOK /\ Shape(t) /\ LocksHeld(t) /\ TaskFits(t)
           /\ Home(t) \in Slot /\ Target(t) \in Slot /\ Holds(t, Target(t))
           /\ InStartup(t) <=> IsEvictor(t)
           /\ IsEvictor(t) => /\ Target(t) # Home(t) /\ First(t) /\ t \in User
                              /\ Holds(t, Home(t)) /\ ~slot[Home(t)].loaded
           /\ ~IsEvictor(t) => Target(t) = Home(t)
           /\ \A s \in Slot : ~Booting(t, s)
<1>1. TypeOK /\ Shape(t) /\ LocksHeld(t) /\ TaskFits(t) /\ InTurn(t)
  BY DEF IInv, Locked
<1>2. Home(t) \in Slot
  BY <1>1, Tasks DEF Shape, At
<1>3. InStartup(t) <=> IsEvictor(t)
  BY DEF InStartup, StartupPc
<1>4. IsEvictor(t) => /\ Target(t) # Home(t) /\ First(t) /\ t \in User
                      /\ Holds(t, Home(t)) /\ ~slot[Home(t)].loaded
  BY <1>1, <1>2, <1>3 DEF Shape, InTurn, LocksHeld, Owns, TaskFits
<1>5. ~IsEvictor(t) => Target(t) = Home(t)
  BY DEF IsEvictor, Target
<1>6. Target(t) \in Slot
  <2>1. task[t].cands \in Seq(Slot)
    BY <1>1 DEF TypeOK, Local
  <2>2. IsEvictor(t) => Head(task[t].cands) \in Slot
    BY <2>1 DEF IsEvictor
  <2>. QED  BY <1>2, <1>5, <2>2 DEF Target, IsEvictor
<1>7. Holds(t, Target(t))
  BY <1>1, <1>6 DEF LocksHeld, Owns
<1>. QED  BY <1>1, <1>2, <1>3, <1>4, <1>5, <1>6, <1>7 DEF Booting

LEMMA MarkStoppingMoves ==
    ASSUME IInv, sync' \subseteq User, NEW t \in Task, MarkStopping(t)
    PROVE  TaskMove(t) /\ TypeOK'
<1>0. task[t].pc = "stop"
  BY DEF MarkStopping, At
<1>1. Goes(t, "close")
  BY <1>0, CloseHolder, GotoGoes DEF MarkStopping, Pc
<1>2. slot' = slot /\ process' = process /\ lock' = lock /\ startLock' = startLock
  BY DEF MarkStopping, memory
<1>3. LocksKept(t) /\ StartKept(t) /\ \A s \in Slot : Holds(t, s) => Holds(t, s)'
  BY <1>0, <1>2, CloseHolder, SameStart DEF LocksKept, TypeOK, Holds
<1>4. IsEvictor(t) => First(t)'
  BY <1>0, <1>2, CloseHolder, SameStart
<1>5. /\ Shape(t)' /\ LocksHeld(t)' /\ InTurn(t)' /\ Home(t)' = Home(t)
      /\ InStartup(t)' <=> IsEvictor(t)
  BY <1>0, <1>1, <1>3, <1>4, CloseHolder, BusyMove
     DEF Goes, StartupPc, UserPc, WatcherPc, CloserPc, Pc, Shape
<1>6. TaskFits(t)'
  BY <1>0, <1>1, <1>2, <1>5, CloseHolder DEF TaskFits, Goes, At
<1>7. lease' \in [Slot -> LeaseState]
  BY <1>0, CloseHolder DEF MarkStopping, TypeOK, LeaseState
<1>8. TypeOK'
  BY <1>0, <1>1, <1>7, CloseHolder DEF MarkStopping, TypeOK, memory, control, Goes
<1>. QED  BY <1>0, <1>1, <1>2, <1>3, <1>5, <1>6, <1>8, CloseHolder, QuietMove DEF Goes

LEMMA ClosedMoves ==
    ASSUME IInv, sync' \subseteq User, NEW t \in Task, Closed(t)
    PROVE  TaskMove(t) /\ TypeOK'
<1>0. task[t].pc = "close"
  BY DEF Closed, At
<1>. PICK s \in Slot : s = Target(t)
  BY <1>0, CloseHolder
<1>1. TypeOK /\ Holds(t, s) /\ SlotFits(s) /\ Shape(t) /\ LocksHeld(t)
  BY <1>0, CloseHolder DEF IInv
<1>2. /\ slot' \in [Slot -> Loaded] /\ ~slot'[s].loaded /\ ~slot'[s].reserved
      /\ \A r \in Slot \ {s} : slot'[r] = slot[r]
  BY <1>1, Unloads DEF Closed
<1>3. /\ process' \in [Slot -> SUBSET Gen] /\ process'[s] = {}
      /\ \A r \in Slot \ {s} : process'[r] = process[r]
  BY <1>1 DEF Closed, TypeOK, SlotFits
<1>4. SlotFits(s)'
  BY <1>2, <1>3 DEF SlotFits
<1>5. /\ lease' \in [Slot -> LeaseState] /\ lru' \in Seq(Slot) /\ idle' \subseteq Slot
  BY <1>1, WithoutQueue DEF Closed, TypeOK, LeaseState
<1>6. \A r \in Slot : ~Booting(t, r)
  BY <1>0, CloseHolder
<1>7. TypeOK /\ LocksKept(t) /\ StartKept(t) /\ task' \in [Task -> Local] => TypeOK'
  BY <1>2, <1>3, <1>5 DEF Closed, TypeOK, control, LocksKept, StartKept
<1>8. CASE /\ IsEvictor(t)
           /\ task' = [task EXCEPT ![t].pc = "gate", ![t].cands = <<>>]
           /\ lock' = [lock EXCEPT ![s] = Tail(@)]
           /\ startLock' = startLock
  <2>1. /\ task' \in [Task -> Local] /\ \A v \in Task \ {t} : task'[v] = task[v]
        /\ task'[t].pc = "gate" /\ task'[t].home = Home(t) /\ task'[t].cands = <<>>
    <3>1. task \in [Task -> Local] /\ task[t] \in Local
      BY <1>1 DEF TypeOK
    <3>2. task' = [task EXCEPT ![t] = [@ EXCEPT !.pc = "gate", !.cands = <<>>]]
      BY <1>8, <3>1 DEF Local
    <3>3. <<>> \in Seq(Slot)
      OBVIOUS
    <3>4. [task[t] EXCEPT !.pc = "gate", !.cands = <<>>] \in Local
      BY <3>1, <3>3 DEF Local, Pc
    <3>. QED  BY <3>1, <3>2, <3>4 DEF Local, Home
  <2>2. /\ LocksKept(t) /\ Holds(t, Home(t))'
    <3>1. LocksKept(t) /\ \A v \in Task, r \in Slot \ {s} : Holds(v, r) => Holds(v, r)'
      BY <1>1, <1>8, TailKeeps
    <3>2. Home(t) # s /\ Holds(t, Home(t)) /\ Home(t) \in Slot /\ Home(t)' = Home(t)
      BY <1>0, <1>8, <2>1, CloseHolder DEF Home
    <3>. QED  BY <3>1, <3>2 DEF Holds
  <2>3. StartKept(t) /\ First(t)'
    BY <1>0, <1>1, <1>8, SameStart, CloseHolder
  <2>4. t \in User /\ Home(t) \in Slot /\ ~slot'[Home(t)].loaded /\ ~IsCloser(t)
    BY <1>0, <1>2, <1>8, CloseHolder, Tasks
  <2>5. Shape(t)'
    BY <1>8, <2>1, <2>4 DEF Shape, At, Home, IsEvictor, UserPc, Pc
  <2>6. LocksHeld(t)'
    BY <2>1, <2>2 DEF LocksHeld, Owns, At, Home
  <2>7. InTurn(t)' /\ TaskFits(t)'
    BY <2>1, <2>3, <2>4 DEF InTurn, TaskFits, At, Home
  <2>. QED  BY <1>1, <1>2, <1>3, <1>4, <1>6, <1>7, <2>1, <2>2, <2>3, <2>5, <2>6, <2>7, SlotMove
<1>9. CASE /\ ~IsEvictor(t) /\ t \in User
           /\ startLock' = Append(startLock, t)
           /\ Goto(t, "reserve") /\ lock' = lock
  <2>1. Goes(t, "reserve")
    BY <1>1, <1>9, GotoGoes DEF Pc
  <2>2. LocksKept(t) /\ \A r \in Slot : Holds(t, r) => Holds(t, r)'
    BY <1>1, <1>9 DEF LocksKept, TypeOK, Holds
  <2>3. StartKept(t) /\ Queued(t)'
    BY <1>1, <1>9, AppendStart
  <2>4. Home(t) = s
    BY <1>0, <1>9, CloseHolder
  <2>5. Shape(t)' /\ LocksHeld(t)' /\ InTurn(t)' /\ Home(t)' = s
    BY <1>1, <1>9, <2>1, <2>2, <2>3, <2>4, BusyMove DEF Goes, StartupPc, UserPc, Pc
  <2>6. TaskFits(t)'
    BY <1>2, <2>1, <2>5 DEF TaskFits, Goes, At
  <2>. QED  BY <1>1, <1>2, <1>3, <1>4, <1>6, <1>7, <2>1, <2>2, <2>3, <2>5, <2>6, SlotMove
            DEF Goes
<1>10. CASE ~IsEvictor(t) /\ Leave(t)
  <2>1. Goes(t, Rest(t)) /\ LocksKept(t) /\ StartKept(t)
    BY <1>1, <1>10, LeaveKeeps
  <2>2. Shape(t)' /\ LocksHeld(t)' /\ InTurn(t)' /\ TaskFits(t)'
    BY <1>0, <1>1, <1>10, <2>1, FreeMove, Tasks, CloseHolder
       DEF Goes, Rest, HoldingPc, StartupPc, UserPc, WatcherPc, CloserPc, Pc, Shape, Home,
           IsEvictor
  <2>. QED  BY <1>1, <1>2, <1>3, <1>4, <1>6, <1>7, <2>1, <2>2, SlotMove DEF Goes
<1>11. AfterClose(t)
  BY DEF Closed
<1>. QED  BY <1>8, <1>9, <1>10, <1>11 DEF AfterClose

LEMMA CloseFailsMoves ==
    ASSUME IInv, sync' \subseteq User, NEW t \in Task, CloseFails(t)
    PROVE  TaskMove(t) /\ TypeOK'
<1>0. task[t].pc \in {"stop", "close"}
  BY DEF CloseFails, At
<1>1. TypeOK /\ Shape(t) /\ Home(t) \in Slot /\ Target(t) \in Slot
  BY <1>0, CloseHolder
<1>2. /\ slot' \in [Slot -> Loaded]
      /\ \A s \in Slot : /\ slot'[s].gen = slot[s].gen /\ slot'[s].loaded = slot[s].loaded
                         /\ slot'[s].reserved = slot[s].reserved
  <2>1. slot' = slot \/ slot' = [slot EXCEPT ![Home(t)].backoff = TRUE]
    BY DEF CloseFails
  <2>2. slot \in [Slot -> Loaded] /\ slot[Home(t)] \in Loaded
    BY <1>1 DEF TypeOK
  <2>3. CASE slot' = [slot EXCEPT ![Home(t)].backoff = TRUE]
    BY <1>1, <2>2, <2>3 DEF Loaded
  <2>. QED  BY <2>1, <2>2, <2>3
<1>3. process' = process
  BY DEF CloseFails
<1>4. LocksKept(t) /\ StartKept(t)
  BY <1>1, WithoutLock, WithoutStart DEF CloseFails
<1>5. /\ task' \in [Task -> Local] /\ \A v \in Task \ {t} : task'[v] = task[v]
      /\ task'[t].pc = Rest(t) /\ task'[t].home = Home(t) /\ task'[t].cands = <<>>
  <2>1. task \in [Task -> Local] /\ task[t] \in Local
    BY <1>1 DEF TypeOK
  <2>2. task' = [task EXCEPT ![t] = [@ EXCEPT !.cands = <<>>, !.pc = Rest(t)]]
    BY <2>1 DEF CloseFails, Local
  <2>3. <<>> \in Seq(Slot)
    OBVIOUS
  <2>4. [task[t] EXCEPT !.cands = <<>>, !.pc = Rest(t)] \in Local
    BY <2>1, <2>3 DEF Local, Pc, Rest
  <2>. QED  BY <2>1, <2>2, <2>4 DEF Local, Home
<1>6. Shape(t)' /\ LocksHeld(t)' /\ InTurn(t)' /\ TaskFits(t)'
  BY <1>1, <1>5, FreeMove, Tasks
     DEF Rest, HoldingPc, StartupPc, UserPc, WatcherPc, CloserPc, Pc, Shape, Home
<1>7. TaskMove(t)
  <2>1. \A s \in Slot : ~Booting(t, s)
    BY <1>0, CloseHolder
  <2>. QED  BY <1>2, <1>3, <1>4, <1>5, <1>6, <2>1 DEF TaskMove, SameSlot
<1>8. lease' \in [Slot -> LeaseState]
  <2>1. \A pc : CutShort(Target(t), pc) \subseteq LeaseState
    BY <1>1 DEF CutShort, TypeOK, LeaseState
  <2>. QED  BY <1>1, <2>1 DEF CloseFails, TypeOK, LeaseState
<1>9. faults' \in 0..MaxFaults
  BY <1>1, FaultCounts DEF CloseFails, TypeOK
<1>10. pass' \in BOOLEAN /\ closeError' \in BOOLEAN
  BY DEF CloseFails
<1>11. TypeOK'
  BY <1>1, <1>2, <1>4, <1>5, <1>8, <1>9, <1>10
     DEF CloseFails, TypeOK, LocksKept, StartKept
<1>. QED  BY <1>7, <1>11

-----------------------------------------------------------------------------
(* The watchdog and the closers. *)

LEMMA WatcherIs ==
    ASSUME IInv, NEW s \in Slot, NEW t, t = Watcher(s)
    PROVE  /\ TypeOK /\ t \in Task /\ t \notin User /\ ~IsCloser(t)
           /\ Shape(t) /\ LocksHeld(t) /\ Home(t) = s /\ ~IsEvictor(t) /\ ~InStartup(t)
           /\ Target(t) = s /\ Rest(t) = "off" /\ \A r \in Slot : ~Booting(t, r)
<1>1. TypeOK /\ t \in Task /\ t \notin User /\ ~IsCloser(t) /\ t[2] = s
  BY Tasks DEF IInv
<1>2. Shape(t) /\ LocksHeld(t)
  BY <1>1 DEF IInv, Locked
<1>3. Home(t) = s /\ task[t].pc \in WatcherPc /\ ~IsEvictor(t)
  BY <1>1, <1>2 DEF Shape
<1>. QED  BY <1>1, <1>2, <1>3
          DEF InStartup, StartupPc, WatcherPc, Target, IsEvictor, Rest, Booting

LEMMA CloserIs ==
    ASSUME IInv, NEW s \in Slot, NEW t, t = Closer(s)
    PROVE  /\ TypeOK /\ t \in Task /\ t \notin User /\ IsCloser(t)
           /\ Shape(t) /\ LocksHeld(t) /\ Home(t) = s /\ ~IsEvictor(t) /\ ~InStartup(t)
           /\ Target(t) = s /\ Rest(t) = "done" /\ \A r \in Slot : ~Booting(t, r)
<1>1. TypeOK /\ t \in Task /\ t \notin User /\ IsCloser(t) /\ t[2] = s
  BY Tasks DEF IInv
<1>2. Shape(t) /\ LocksHeld(t)
  BY <1>1 DEF IInv, Locked
<1>3. Home(t) = s /\ task[t].pc \in CloserPc /\ ~IsEvictor(t)
  BY <1>1, <1>2 DEF Shape
<1>. QED  BY <1>1, <1>2, <1>3
          DEF InStartup, StartupPc, CloserPc, Target, IsEvictor, Rest, Booting

\* Who finds a runtime in the slot it visits goes on to close it.
LEMMA StopMove ==
    ASSUME IInv, NEW t \in Task, t \notin User, NEW s \in Slot, Home(t) = s,
           Target(t) = s, ~IsEvictor(t), Holds(t, s), Goto(t, "stop"),
           UNCHANGED <<memory, outside, lock, startLock>>
    PROVE  TaskMove(t) /\ Goes(t, "stop")
<1>0. TypeOK /\ Shape(t)
  BY DEF IInv, Locked
<1>1. Goes(t, "stop")
  BY <1>0, GotoGoes DEF Pc
<1>2. LocksKept(t) /\ StartKept(t) /\ \A r \in Slot : Holds(t, r) => Holds(t, r)'
  BY <1>0, SameStart DEF LocksKept, TypeOK, Holds
<1>3. Shape(t)' /\ LocksHeld(t)' /\ InTurn(t)' /\ ~InStartup(t)'
  BY <1>1, <1>2, BusyMove DEF Goes, StartupPc, WatcherPc, CloserPc, Pc
<1>4. TaskFits(t)'
  BY <1>1, <1>3 DEF TaskFits, Goes, At
<1>5. \A r \in Slot : ~Booting(t, r)
  BY <1>0, Tasks DEF Shape, Booting, WatcherPc, CloserPc
<1>. QED  BY <1>1, <1>2, <1>3, <1>4, <1>5, QuietMove DEF Goes, memory, outside

LEMMA WatcherMoves ==
    ASSUME IInv, sync' \subseteq User, NEW s \in Slot, NEW w, w = Watcher(s),
           \/ Arrive(s, w) \/ VisitEvicts(s, w) \/ VisitLeaves(s, w) \/ VisitProbes(s, w)
           \/ Probe(s, w) \/ Heartbeat(s, w)
    PROVE  TaskMove(w) /\ TypeOK'
<1>0. /\ TypeOK /\ w \in Task /\ w \notin User /\ Home(w) = s /\ ~InStartup(w)
      /\ Target(w) = s /\ ~IsCloser(w) /\ ~IsEvictor(w) /\ Rest(w) = "off"
      /\ task[w].cands = <<>> /\ \A r \in Slot : ~Booting(w, r)
  BY WatcherIs DEF IsEvictor
<1>1. /\ lock' = lock => LocksKept(w)
      /\ startLock' = startLock => StartKept(w)
  BY <1>0, SameStart DEF LocksKept, TypeOK, Holds
<1>2. ASSUME NEW pc \in WatcherPc \ HoldingPc, Goes(w, pc), LocksKept(w), StartKept(w),
             slot' = slot, process' = process
      PROVE  TaskMove(w)
  BY <1>0, <1>2, IdleMove DEF WatcherPc, Pc
<1>3. CASE Arrive(s, w)
  <2>1. (Goes(w, "off") \/ Goes(w, "visit")) /\ LocksKept(w)
    BY <1>0, <1>1, <1>3, GotoGoes, WaitKeeps DEF Arrive, Pc
  <2>2. slot' = slot /\ process' = process /\ StartKept(w)
    BY <1>1, <1>3 DEF Arrive, memory, outside
  <2>3. TaskMove(w)
    BY <1>2, <2>1, <2>2 DEF WatcherPc, HoldingPc, StartupPc
  <2>. QED  BY <1>0, <1>3, <2>1, <2>2, <2>3
            DEF Arrive, TypeOK, memory, outside, control, Goes, LocksKept
<1>4. CASE VisitEvicts(s, w)
  <2>1. TaskMove(w) /\ Goes(w, "stop")
    BY <1>0, <1>4, StopMove DEF VisitEvicts, Visits
  <2>. QED  BY <1>0, <1>4, <2>1
            DEF VisitEvicts, TypeOK, memory, outside, control, Goes
<1>5. CASE VisitLeaves(s, w)
  <2>1. Goes(w, "off") /\ LocksKept(w) /\ StartKept(w)
    BY <1>0, <1>5, LeaveKeeps DEF VisitLeaves
  <2>2. TaskMove(w)
    BY <1>2, <1>5, <2>1
       DEF VisitLeaves, memory, outside, WatcherPc, HoldingPc, StartupPc
  <2>. QED  BY <1>0, <1>5, <2>1, <2>2
            DEF VisitLeaves, TypeOK, memory, outside, control, Goes, LocksKept, StartKept
<1>6. CASE VisitProbes(s, w)
  <2>1. /\ task' \in [Task -> Local] /\ \A v \in Task \ {w} : task'[v] = task[v]
        /\ task'[w].pc = "probe" /\ task'[w].home = s /\ task'[w].cands = <<>>
    <3>1. slot[s].gen \in Gen \cup {NoGen}
      BY <1>0 DEF TypeOK, Loaded
    <3>2. task \in [Task -> Local] /\ task[w] \in Local
      BY <1>0 DEF TypeOK
    <3>3. task' = [task EXCEPT ![w] = [@ EXCEPT !.pc = "probe", !.gen = slot[s].gen]]
      BY <1>6, <3>2 DEF VisitProbes, Local
    <3>. QED  BY <1>0, <3>1, <3>2, <3>3 DEF Local, Home, Pc
  <2>2. LocksKept(w) /\ StartKept(w)
    BY <1>0, <1>1, <1>6, TailKeeps DEF VisitProbes, Visits
  <2>3. Shape(w)' /\ LocksHeld(w)' /\ InTurn(w)' /\ TaskFits(w)'
    BY <1>0, <2>1, FreeMove, WatcherIs
       DEF HoldingPc, StartupPc, WatcherPc, Shape, Home
  <2>4. TaskMove(w)
    BY <1>0, <1>6, <2>1, <2>2, <2>3, QuietMove DEF VisitProbes, memory, outside
  <2>. QED  BY <1>0, <1>6, <2>1, <2>2, <2>4
            DEF VisitProbes, TypeOK, memory, outside, control, LocksKept
<1>7. CASE Probe(s, w)
  <2>1. PICK pc \in {"beat", "report"} : Goes(w, pc) /\ LocksKept(w)
    BY <1>0, <1>7, WaitKeeps DEF Probe, Pc
  <2>2. slot' = slot /\ process' = process /\ StartKept(w)
    BY <1>1, <1>7 DEF Probe, memory, outside
  <2>3. TaskMove(w)
    BY <1>2, <2>1, <2>2 DEF WatcherPc, HoldingPc, StartupPc
  <2>4. faults' \in 0..MaxFaults
    BY <1>0, <1>7, FaultCounts DEF Probe, TypeOK
  <2>. QED  BY <1>0, <1>7, <2>1, <2>2, <2>3, <2>4
            DEF Probe, TypeOK, memory, outside, control, Goes, LocksKept
<1>8. CASE Heartbeat(s, w)
  <2>1. PICK pc \in {"off", "report"} : Goes(w, pc) /\ LocksKept(w) /\ StartKept(w)
    <3>1. CASE Leave(w)
      BY <1>0, <3>1, LeaveKeeps
    <3>2. CASE /\ lock' = [lock EXCEPT ![s] = Append(Tail(@), w)]
               /\ Goto(w, "report") /\ startLock' = startLock
      <4>1. Holds(w, s) /\ lock[s] \in Seq(Task) /\ lock[s] # <<>>
        BY <1>0, <1>8 DEF Heartbeat, Holds, TypeOK
      <4>2. Append(Tail(lock[s]), w) \in Seq(Task)
        BY <1>0, <4>1, TailQueue, AppendQueue
      <4>3. lock' \in [Slot -> Seq(Task)]
        BY <1>0, <3>2, <4>2 DEF TypeOK
      <4>4. \A r \in Slot \ {s} : lock'[r] = lock[r]
        BY <1>0, <3>2 DEF TypeOK
      <4>5. LocksKept(w)
        BY <4>1, <4>3, <4>4 DEF LocksKept, Holds
      <4>. QED  BY <1>0, <1>1, <3>2, <4>5, GotoGoes DEF Pc
    <3>. QED  BY <1>8, <3>1, <3>2 DEF Heartbeat
  <2>2. TaskMove(w)
    BY <1>2, <1>8, <2>1
       DEF Heartbeat, memory, outside, WatcherPc, HoldingPc, StartupPc
  <2>. QED  BY <1>0, <1>8, <2>1, <2>2
            DEF Heartbeat, TypeOK, memory, outside, control, Goes, LocksKept, StartKept
<1>. QED  BY <1>3, <1>4, <1>5, <1>6, <1>7, <1>8

LEMMA WatcherCancelledMoves ==
    ASSUME IInv, sync' \subseteq User, NEW s \in Slot, WatcherCancelled(s)
    PROVE  TaskMove(Watcher(s)) /\ TypeOK'
<1>. PICK w : w = Watcher(s)
  OBVIOUS
<1>0. /\ TypeOK /\ w \in Task /\ w \notin User /\ Home(w) = s /\ ~InStartup(w)
      /\ ~IsCloser(w) /\ ~IsEvictor(w) /\ Rest(w) = "off" /\ Shape(w)
      /\ task[w].cands = <<>> /\ \A r \in Slot : ~Booting(w, r)
  BY WatcherIs DEF IsEvictor
<1>1. Goes(w, "off") /\ LocksKept(w) /\ StartKept(w)
  BY <1>0, LeaveKeeps DEF WatcherCancelled
<1>2. /\ slot' \in [Slot -> Loaded]
      /\ \A r \in Slot : /\ slot'[r].gen = slot[r].gen /\ slot'[r].loaded = slot[r].loaded
                         /\ slot'[r].reserved = slot[r].reserved
  <2>1. slot' = slot \/ slot' = [slot EXCEPT ![s].ready = FALSE, ![s].backoff = TRUE]
    BY DEF WatcherCancelled
  <2>2. slot \in [Slot -> Loaded] /\ slot[s] \in Loaded
    BY <1>0 DEF TypeOK
  <2>3. CASE slot' = [slot EXCEPT ![s].ready = FALSE, ![s].backoff = TRUE]
    <3>1. slot' = [slot EXCEPT ![s] = [@ EXCEPT !.ready = FALSE, !.backoff = TRUE]]
      BY <2>2, <2>3 DEF Loaded
    <3>. QED  BY <2>2, <3>1 DEF Loaded
  <2>. QED  BY <2>1, <2>2, <2>3
<1>3. process' = process
  BY DEF WatcherCancelled
<1>4. Shape(w)' /\ LocksHeld(w)' /\ InTurn(w)' /\ TaskFits(w)'
  BY <1>0, <1>1, FreeMove DEF Goes, HoldingPc, StartupPc, WatcherPc, Shape, Home
<1>5. TaskMove(w)
  BY <1>0, <1>1, <1>2, <1>3, <1>4 DEF TaskMove, SameSlot, Goes
<1>6. lease' \in [Slot -> LeaseState] /\ live' \subseteq User
  <2>1. \A pc : CutShort(s, pc) \subseteq LeaseState
    BY <1>0 DEF CutShort, TypeOK, LeaseState
  <2>. QED  BY <1>0, <2>1 DEF WatcherCancelled, TypeOK, LeaseState
<1>7. TypeOK'
  BY <1>0, <1>1, <1>2, <1>6
     DEF WatcherCancelled, TypeOK, control, Goes, LocksKept, StartKept
<1>. QED  BY <1>5, <1>7

LEMMA CloserMoves ==
    ASSUME IInv, sync' \subseteq User, NEW s \in Slot, CloserVisits(s) \/ CloserGivesUp(s)
    PROVE  TaskMove(Closer(s)) /\ TypeOK'
<1>. PICK t : t = Closer(s)
  OBVIOUS
<1>0. /\ TypeOK /\ t \in Task /\ t \notin User /\ Home(t) = s /\ ~InStartup(t)
      /\ Target(t) = s /\ IsCloser(t) /\ ~IsEvictor(t) /\ Rest(t) = "done" /\ Shape(t)
      /\ task[t].cands = <<>> /\ \A r \in Slot : ~Booting(t, r)
  BY CloserIs DEF IsEvictor
<1>1. ASSUME Leave(t)
      PROVE  /\ Goes(t, "done") /\ LocksKept(t) /\ StartKept(t)
             /\ Shape(t)' /\ LocksHeld(t)' /\ InTurn(t)' /\ TaskFits(t)'
  <2>1. Goes(t, "done") /\ LocksKept(t) /\ StartKept(t)
    BY <1>0, <1>1, LeaveKeeps
  <2>. QED  BY <1>0, <2>1, FreeMove DEF Goes, HoldingPc, StartupPc, CloserPc, Shape, Home
<1>2. CASE CloserVisits(s) /\ slot[s].loaded
  <2>1. Goto(t, "stop") /\ slot' = slot /\ lock' = lock /\ startLock' = startLock
    BY <1>2 DEF CloserVisits
  <2>2. TaskMove(t) /\ Goes(t, "stop")
    BY <1>0, <1>2, <2>1, StopMove DEF CloserVisits, memory, outside
  <2>. QED  BY <1>0, <1>2, <2>1, <2>2
            DEF CloserVisits, TypeOK, outside, control, Goes
<1>3. CASE CloserVisits(s) /\ ~slot[s].loaded
  <2>1. Unload(s, FALSE) /\ Leave(t) /\ Holds(t, s)
    BY <1>3 DEF CloserVisits
  <2>2. process[s] = {}
    BY <1>0, <1>3, <2>1, HeldIsEmpty
  <2>3. /\ slot' \in [Slot -> Loaded] /\ ~slot'[s].loaded /\ ~slot'[s].reserved
        /\ \A r \in Slot \ {s} : slot'[r] = slot[r]
    BY <1>0, <2>1, Unloads
  <2>4. process' = process
    BY <1>3 DEF CloserVisits, outside
  <2>5. SlotFits(s)'
    BY <2>2, <2>3, <2>4 DEF SlotFits
  <2>6. TaskMove(t)
    BY <1>0, <1>1, <2>1, <2>3, <2>4, <2>5, SlotMove DEF Goes
  <2>. QED  BY <1>0, <1>1, <1>3, <2>1, <2>3, <2>6
            DEF CloserVisits, TypeOK, outside, control, Goes, LocksKept, StartKept
<1>4. CASE CloserGivesUp(s)
  <2>1. slot' = slot /\ process' = process /\ Leave(t)
    BY <1>4 DEF CloserGivesUp, memory
  <2>2. TaskMove(t)
    BY <1>0, <1>1, <2>1, QuietMove DEF Goes
  <2>3. lease' \in [Slot -> LeaseState] /\ faults' \in 0..MaxFaults
    BY <1>0, <1>4, FaultCounts DEF CloserGivesUp, TypeOK, LeaseState
  <2>. QED  BY <1>0, <1>1, <1>4, <2>1, <2>2, <2>3
            DEF CloserGivesUp, TypeOK, memory, Goes, LocksKept, StartKept
<1>. QED  BY <1>2, <1>3, <1>4

-----------------------------------------------------------------------------
(* Capacity, shutdown and the TTL. *)

\* A step of a task creates a runtime only as a start that was not cancelled, and
\* a closer is done when the slot has no runtime or with an error.
Drains(t) ==
    /\ phase' = phase /\ cancelled' = cancelled /\ (closeError => closeError')
    /\ \A s \in Slot : process'[s] \subseteq process[s]
                       \/ (t \in User /\ At(t, "create") /\ t \notin cancelled)
    /\ At(t, "create")' => t \in User /\ (At(t, "create") \/ ~Closing)
    /\ IsCloser(t) => /\ ~At(t, "off") /\ ~At(t, "done")
                      /\ At(t, "done")' => closeError' \/ process'[Home(t)] = {}

LEMMA DrainsKeeps ==
    ASSUME IInv, NEW t \in Task, TaskMove(t), Drains(t)
    PROVE  Draining'
<1>0. /\ Draining /\ \A v \in Task \ {t} : task'[v] = task[v]
      /\ \A v \in Task \ {t}, pc \in Pc : At(v, pc)' <=> At(v, pc)
      /\ phase' = phase /\ cancelled' = cancelled
  BY DEF IInv, TaskMove, At, Drains
<1>1. ASSUME phase' \in {"up", "closing"}, NEW s \in Slot  PROVE At(Closer(s), "off")'
  <2>1. At(Closer(s), "off") /\ Closer(s) \in Task /\ IsCloser(Closer(s))
    BY <1>0, <1>1, Tasks DEF Draining
  <2>. QED  BY <1>0, <2>1 DEF Drains, Pc
<1>2. ASSUME phase' \in {"draining", "closed"}, NEW u \in User, At(u, "create")'
      PROVE  u \in cancelled'
  <2>1. At(u, "create")
    BY <1>0, <1>2, Tasks DEF Drains, Pc, Closing
  <2>. QED  BY <1>0, <1>2, <2>1 DEF Draining
<1>3. ASSUME NEW s \in Slot, At(Closer(s), "done")', ~closeError'
      PROVE  process'[s] = {}
  <2>. PICK c : c = Closer(s)
    OBVIOUS
  <2>0. c \in Task /\ IsCloser(c) /\ Home(c) = s /\ c \notin User
    BY CloserIs
  <2>1. CASE c = t
    BY <1>3, <2>0, <2>1 DEF Drains
  <2>2. CASE c # t
    <3>1. At(c, "done") /\ ~closeError
      BY <1>0, <1>3, <2>0, <2>2 DEF Drains, Pc
    <3>2. process[s] = {}
      BY <1>0, <3>1 DEF Draining
    <3>3. phase \notin {"up", "closing"}
      BY <1>0, <3>1 DEF Draining, At
    <3>4. phase \in {"draining", "closed"}
      BY <3>3 DEF IInv, TypeOK
    <3>5. t \in User /\ At(t, "create") => t \in cancelled
      BY <1>0, <3>4 DEF Draining
    <3>. QED  BY <3>2, <3>5 DEF Drains
  <2>. QED  BY <2>1, <2>2
<1>4. ASSUME phase' = "closed", NEW s \in Slot  PROVE At(Closer(s), "done")'
  <2>1. At(Closer(s), "done") /\ Closer(s) \in Task /\ IsCloser(Closer(s))
    BY <1>0, <1>4, Tasks DEF Draining
  <2>. QED  BY <1>0, <2>1 DEF Drains, Pc
<1>. QED  BY <1>1, <1>2, <1>3, <1>4 DEF Draining

\* Capacity grows only at the gate.
Reserved == {s \in Slot : slot[s].reserved}

LEMMA NoMoreInUse ==
    ASSUME InUseBounded, \A s \in Slot : slot'[s].reserved => slot[s].reserved
    PROVE  InUseBounded'
<1>1. Reserved' \subseteq Reserved /\ IsFiniteSet(Reserved)
  BY ConstantsAssumption, FS_Subset DEF Reserved
<1>2. /\ Cardinality(Reserved') <= Cardinality(Reserved) /\ IsFiniteSet(Reserved')
  BY <1>1, FS_Subset
<1>3. Cardinality(Reserved') \in Nat /\ Cardinality(Reserved) \in Nat
  BY <1>1, <1>2, FS_CardinalityType
<1>4. InUse = Cardinality(Reserved) /\ InUse' = Cardinality(Reserved')
  BY DEF InUse, Reserved
<1>. QED  BY <1>2, <1>3, <1>4, ConstantsAssumption DEF InUseBounded

LEMMA GateCounts ==
    ASSUME IInv, NEW u \in User, PassGate(u)
    PROVE  InUseBounded'
<1>0. At(u, "gate") /\ InStartup(u) /\ InUse < MaxActive
  BY DEF PassGate, InStartup, At, StartupPc
<1>. PICK s \in Slot : s = Home(u)
  BY <1>0, Starter
<1>1. slot' = [slot EXCEPT ![s].reserved = TRUE] /\ slot \in [Slot -> Loaded]
  BY DEF PassGate, IInv, TypeOK
<1>2. Reserved' \subseteq Reserved \cup {s}
  <2>1. \A r \in Slot \ {s} : slot'[r] = slot[r]
    BY <1>1
  <2>. QED  BY <2>1 DEF Reserved
<1>3. IsFiniteSet(Reserved)
  BY ConstantsAssumption, FS_Subset DEF Reserved
<1>4. /\ IsFiniteSet(Reserved \cup {s})
      /\ Cardinality(Reserved \cup {s}) <= Cardinality(Reserved) + 1
  <2>1. PICK R : R = Reserved
    OBVIOUS
  <2>2. /\ IsFiniteSet(R \cup {s})
        /\ Cardinality(R \cup {s}) = IF s \in R THEN Cardinality(R) ELSE Cardinality(R) + 1
    BY <1>3, <2>1, FS_AddElement
  <2>3. Cardinality(R) \in Nat
    BY <1>3, <2>1, FS_CardinalityType
  <2>4. Cardinality(R \cup {s}) <= Cardinality(R) + 1
    BY <2>2, <2>3
  <2>. QED  BY <2>1, <2>2, <2>4
<1>5. IsFiniteSet(Reserved') /\ Cardinality(Reserved') <= Cardinality(Reserved \cup {s})
  BY <1>2, <1>4, FS_Subset
<1>6. /\ Cardinality(Reserved') \in Nat /\ Cardinality(Reserved) \in Nat
      /\ Cardinality(Reserved \cup {s}) \in Nat
  BY <1>3, <1>4, <1>5, FS_CardinalityType
<1>7. InUse = Cardinality(Reserved) /\ InUse' = Cardinality(Reserved')
  BY DEF InUse, Reserved
<1>. QED  BY <1>0, <1>4, <1>5, <1>6, <1>7, ConstantsAssumption DEF InUseBounded

LEMMA TouchRecent ==
    ASSUME IInv, NEW s \in Slot, Touch(s)
    PROVE  Recent'
<1>. DEFINE q == Without(lru, s)
<1>1. lru \in Seq(Slot) /\ idle \subseteq Used
  BY DEF IInv, TypeOK, Recent
<1>2. /\ q \in Seq(Slot)
      /\ \A i \in DOMAIN lru : lru[i] # s => \E j \in DOMAIN q : q[j] = lru[i]
  BY <1>1, WithoutQueue
<1>. HIDE DEF q
<1>3. lru' = Append(q, s) /\ idle' = idle \ {s}
  BY DEF Touch, q
<1>4. DOMAIN q \subseteq DOMAIN lru' /\ \A j \in DOMAIN q : lru'[j] = q[j]
  BY <1>2, <1>3, AppendQueue
<1>. QED  BY <1>1, <1>2, <1>3, <1>4 DEF Recent, Used

LEMMA ForgetRecent ==
    ASSUME IInv, NEW s \in Slot, lru' = Without(lru, s), idle' = idle \ {s}
    PROVE  Recent'
<1>1. lru \in Seq(Slot) /\ idle \subseteq Used
  BY DEF IInv, TypeOK, Recent
<1>2. \A i \in DOMAIN lru : lru[i] # s => \E j \in DOMAIN lru' : lru'[j] = lru[i]
  BY <1>1, WithoutQueue
<1>. QED  BY <1>1, <1>2 DEF Recent, Used

LEMMA SameRecent ==
    ASSUME IInv, lru' = lru, idle' = idle
    PROVE  Recent'
  BY DEF IInv, Recent, Used

\* What every step of a task leaves of them.
Kept(t) == Drains(t) /\ InUseBounded' /\ Recent'

LEMMA QuietKept ==
    ASSUME IInv, NEW t \in Task, UNCHANGED <<memory, process, phase, cancelled>>,
           closeError => closeError', task'[t].pc # "create",
           ~IsCloser(t)
    PROVE  Kept(t)
<1>1. InUseBounded' /\ Recent'
  BY NoMoreInUse, SameRecent DEF memory, IInv
<1>. QED  BY <1>1 DEF Kept, Drains, memory, At

LEMMA StarterFreed ==
    ASSUME IInv, NEW u \in User, Abortable(u), Unload(Home(u), TRUE)
    PROVE  \A s \in Slot : slot'[s].reserved => slot[s].reserved
<1>1. TypeOK /\ Home(u) \in Slot
  BY Tasks DEF IInv, Locked, Shape, Abortable, At
<1>. QED  BY <1>1, Unloads

LEMMA StartLedger ==
    ASSUME IInv, TypeOK', NEW u \in User, StartStep(u) \/ \E s \in Slot : EnsureCall(u, s)
    PROVE  Kept(u)
<1>0. /\ u \in Task /\ ~IsCloser(u) /\ ~IsWatcher(u) /\ TypeOK /\ InUseBounded
      /\ task \in [Task -> Local] /\ task[u] \in Local /\ slot \in [Slot -> Loaded]
      /\ process \in [Slot -> SUBSET Gen]
  BY Tasks DEF IInv, TypeOK
<1>. USE DEF memory, outside, control
<1>1. CASE \E s \in Slot : EnsureCall(u, s)
  <2>. PICK s \in Slot : EnsureCall(u, s)
    BY <1>1
  <2>1. task'[u].pc = "ensure"
    <3>1. task'[u] = [task[u] EXCEPT !.pc = "ensure", !.home = s, !.gen = NoGen]
      BY <1>0 DEF EnsureCall
    <3>. QED  BY <1>0, <3>1 DEF Local
  <2>. QED  BY <1>0, <2>1, QuietKept DEF EnsureCall
<1>2. CASE EnsureLeftover(u)
  <2>1. task'[u].pc = "stop"
    BY <1>0, <1>2 DEF EnsureLeftover, Goto, Local
  <2>. QED  BY <1>0, <1>2, <2>1, QuietKept DEF EnsureLeftover
<1>3. CASE EnsureEmpty(u)
  <2>1. task'[u].pc = "reserve"
    BY <1>0, <1>3 DEF EnsureEmpty, Goto, Local
  <2>. QED  BY <1>0, <1>3, <2>1, QuietKept DEF EnsureEmpty
<1>4. CASE Evict(u)
  <2>1. task'[u].pc = "stop"
    BY <1>0, <1>4 DEF Evict, Goto, Local
  <2>. QED  BY <1>0, <1>4, <2>1, QuietKept DEF Evict
<1>5. CASE Booted(u)
  <2>1. task'[u].pc = "mark"
    BY <1>0, <1>5 DEF Booted, Goto, Local
  <2>. QED  BY <1>0, <1>5, <2>1, QuietKept DEF Booted
<1>6. CASE BootFails(u)
  <2>1. task'[u].pc = "cleanup"
    BY <1>0, <1>6 DEF BootFails, Goto, Local
  <2>. QED  BY <1>0, <1>6, <2>1, QuietKept DEF BootFails
<1>7. CASE StartCancelled(u)
  <2>1. task'[u].pc = "cleanup"
    BY <1>0, <1>7 DEF StartCancelled, Goto, Local
  <2>. QED  BY <1>0, <1>7, <2>1, QuietKept DEF StartCancelled
<1>8. CASE EnsureRefused(u)
  <2>1. task'[u].pc = "off"
    BY <1>0, <1>8 DEF EnsureRefused, Leave, Rest, Goto, Local
  <2>. QED  BY <1>0, <1>8, <2>1, QuietKept DEF EnsureRefused
<1>9. CASE Reserve(u) \/ EvictSkips(u)
  <2>1. task'[u].pc \in {"gate", "evict"}
    <3>1. PICK c : NextCandidate(u, c)
      BY <1>9 DEF Reserve, EvictSkips
    <3>2. \E r : task' = [task EXCEPT ![u].pc = IF r = <<>> THEN "gate" ELSE "evict",
                                    ![u].cands = r]
      BY <3>1, Zenon DEF NextCandidate
    <3>. QED  BY <1>0, <3>2 DEF Local
  <2>. QED  BY <1>0, <1>9, <2>1, QuietKept DEF Reserve, EvictSkips
<1>10. CASE EnsureLoaded(u)
  <2>1. task'[u].pc = "got"
    BY <1>0, <1>10 DEF EnsureLoaded, Local
  <2>2. Recent'
    <3>1. Home(u) \in Slot
      BY <1>0, <1>10 DEF IInv, Locked, Shape, EnsureLoaded, MayEnsure, At
    <3>. QED  BY <1>10, <3>1, TouchRecent DEF EnsureLoaded
  <2>3. InUseBounded'
    BY <1>0, <1>10, NoMoreInUse DEF EnsureLoaded
  <2>. QED  BY <1>0, <1>10, <2>1, <2>2, <2>3 DEF EnsureLoaded, Kept, Drains, At
<1>11. CASE PassGate(u)
  <2>1. ~Closing
    BY <1>11 DEF PassGate
  <2>2. Recent' /\ InUseBounded'
    BY <1>11, SameRecent, GateCounts DEF PassGate
  <2>. QED  BY <1>0, <1>11, <2>1, <2>2 DEF PassGate, Kept, Drains
<1>12. CASE StartAborted(u)
  <2>1. task'[u].pc = "off"
    BY <1>0, <1>12 DEF StartAborted, Local
  <2>2. Recent'
    BY <1>12, SameRecent DEF StartAborted
  <2>3. InUseBounded'
    BY <1>0, <1>12, StarterFreed, NoMoreInUse DEF StartAborted
  <2>. QED  BY <1>0, <1>12, <2>1, <2>2, <2>3 DEF StartAborted, Kept, Drains, At
<1>13. CASE Create(u)
  <2>1. task'[u].pc = "boot"
    BY <1>0, <1>13 DEF Create, Local
  <2>2. Recent'
    BY <1>13, SameRecent DEF Create
  <2>3. InUseBounded'
    <3>1. \A s \in Slot : slot'[s].reserved = slot[s].reserved
      BY <1>0, <1>13 DEF Create, Loaded
    <3>. QED  BY <1>0, <3>1, NoMoreInUse
  <2>. QED  BY <1>0, <1>13, <2>1, <2>2, <2>3 DEF Create, Kept, Drains, At
<1>14. CASE MarkReady(u)
  <2>1. task'[u].pc \in {"stop", "got"}
    BY <1>0, <1>14 DEF MarkReady, Goto, Local
  <2>2. Recent'
    <3>1. Home(u) \in Slot
      BY <1>0, <1>14 DEF IInv, Locked, Shape, MarkReady, At
    <3>. QED  BY <1>14, <3>1, TouchRecent DEF MarkReady
  <2>3. InUseBounded'
    <3>1. \A s \in Slot : slot'[s].reserved = slot[s].reserved
      BY <1>0, <1>14 DEF MarkReady, Loaded
    <3>. QED  BY <1>0, <3>1, NoMoreInUse
  <2>. QED  BY <1>0, <1>14, <2>1, <2>2, <2>3 DEF MarkReady, Kept, Drains, At
<1>15. CASE Cleanup(u) \/ CleanupFails(u)
  <2>1. task'[u].pc = "off"
    BY <1>0, <1>15 DEF Cleanup, CleanupFails, Leave, Rest, Goto, Local
  <2>2. Recent'
    BY <1>15, SameRecent DEF Cleanup, CleanupFails
  <2>3. InUseBounded'
    <3>1. \A s \in Slot : slot'[s].reserved => slot[s].reserved
      <4>1. Home(u) \in Slot
        BY <1>0, <1>15 DEF IInv, Locked, Shape, Cleanup, CleanupFails, At
      <4>. QED  BY <1>0, <1>15, <4>1, Unloads, KeepsSlot DEF Cleanup, CleanupFails
    <3>. QED  BY <1>0, <3>1, NoMoreInUse
  <2>4. \A s \in Slot : process'[s] \subseteq process[s]
    BY <1>0, <1>15 DEF Cleanup, CleanupFails
  <2>5. phase' = phase /\ cancelled' = cancelled /\ closeError' = closeError
    BY <1>15 DEF Cleanup, CleanupFails
  <2>. QED  BY <1>0, <2>1, <2>2, <2>3, <2>4, <2>5 DEF Kept, Drains, At
<1>. QED  BY <1>1, <1>2, <1>3, <1>4, <1>5, <1>6, <1>7, <1>8, <1>9, <1>10, <1>11, <1>12, <1>13, <1>14, <1>15 DEF StartStep

LEMMA UseKept ==
    ASSUME IInv, TypeOK', NEW u \in User, UseStep(u)
    PROVE  Kept(u)
<1>0. u \in Task /\ ~IsCloser(u) /\ TypeOK /\ task \in [Task -> Local] /\ task[u] \in Local
  BY Tasks DEF IInv, TypeOK
<1>1. task'[u].pc # "create"
  BY <1>0 DEF UseStep, Claim, ClaimFails, EndWork, UserReports, UserRetires, Retire, WaitFor,
              Goto, Local
<1>. QED  BY <1>0, <1>1, QuietKept
          DEF UseStep, Claim, ClaimFails, EndWork, UserReports, UserRetires, Retire,
              memory, outside, control

LEMMA ReportKept ==
    ASSUME IInv, TypeOK', NEW t \in Task, ReportStep(t)
    PROVE  Kept(t)
<1>0. /\ task[t].pc \in {"retire", "report", "reportClose"}
      /\ TypeOK /\ task \in [Task -> Local] /\ task[t] \in Local
  BY DEF IInv, TypeOK, ReportStep, StaleCall, Report, ReportCloses, ReportCloseFails, At
<1>. PICK s \in Slot : s = Home(t)
  BY <1>0, Reporter
<1>1. ~IsCloser(t)
  BY <1>0, Reporter
<1>2. task'[t].pc # "create"
  BY <1>0 DEF ReportStep, StaleCall, Report, ReportCloses, ReportCloseFails, Leave, Goto, Rest,
              Local
<1>3. CASE StaleCall(t) \/ Report(t)
  BY <1>0, <1>1, <1>2, <1>3, QuietKept DEF StaleCall, Report, memory, outside, control
<1>4. CASE ReportCloses(t) \/ ReportCloseFails(t)
  <2>1. Recent'
    BY <1>4, SameRecent DEF ReportCloses, ReportCloseFails
  <2>2. InUseBounded'
    <3>1. \A r \in Slot : slot'[r].reserved => slot[r].reserved
      BY <1>0, <1>4, Unloads, KeepsSlot DEF ReportCloses, ReportCloseFails
    <3>. QED  BY <3>1, NoMoreInUse DEF IInv
  <2>3. \A r \in Slot : process'[r] \subseteq process[r]
    BY <1>0, <1>4 DEF ReportCloses, ReportCloseFails, TypeOK
  <2>4. phase' = phase /\ cancelled' = cancelled /\ closeError' = closeError
    BY <1>4 DEF ReportCloses, ReportCloseFails, control
  <2>. QED  BY <1>1, <1>2, <2>1, <2>2, <2>3, <2>4 DEF Kept, Drains, At
<1>. QED  BY <1>3, <1>4 DEF ReportStep

LEMMA CloseKept ==
    ASSUME IInv, TypeOK', NEW t \in Task, CloseStep(t)
    PROVE  Kept(t)
<1>0. /\ task[t].pc \in {"stop", "close"}
      /\ TypeOK /\ task \in [Task -> Local] /\ task[t] \in Local
  BY DEF IInv, TypeOK, CloseStep, MarkStopping, Closed, CloseFails, At
<1>. PICK s \in Slot : s = Target(t)
  BY <1>0, CloseHolder
<1>1. Home(t) \in Slot /\ ~At(t, "off") /\ ~At(t, "done") /\ SlotFits(s)
  BY <1>0, CloseHolder DEF At, IInv
<1>2. IsCloser(t) => Home(t) = s
  BY <1>0, CloseHolder, Tasks
<1>3. task'[t].pc # "create" /\ (task'[t].pc = "done" => IsCloser(t))
  <2>1. CASE MarkStopping(t)
    BY <1>0, <2>1 DEF MarkStopping, Goto, Local
  <2>2. CASE CloseFails(t)
    BY <1>0, <2>2 DEF CloseFails, Local, Rest
  <2>3. CASE Closed(t)
    <3>1. AfterClose(t)
      BY <2>3 DEF Closed
    <3>. QED  BY <1>0, <3>1 DEF AfterClose, Goto, Leave, Rest, Local
  <2>. QED  BY <2>1, <2>2, <2>3 DEF CloseStep
<1>4. CASE MarkStopping(t)
  <2>1. Recent' /\ InUseBounded'
    BY <1>4, SameRecent, NoMoreInUse DEF MarkStopping, memory, IInv
  <2>2. task'[t].pc = "close"
    BY <1>0, <1>4 DEF MarkStopping, Goto, Local
  <2>. QED  BY <1>1, <1>4, <2>1, <2>2 DEF MarkStopping, Kept, Drains, At, memory, control
<1>5. CASE CloseFails(t)
  <2>1. Recent'
    BY <1>5, SameRecent DEF CloseFails
  <2>2. InUseBounded'
    <3>1. slot' = slot \/ slot' = [slot EXCEPT ![Home(t)].backoff = TRUE]
      BY <1>5 DEF CloseFails
    <3>2. slot \in [Slot -> Loaded] /\ slot[Home(t)] \in Loaded
      BY <1>0, <1>1 DEF TypeOK
    <3>3. \A r \in Slot : slot'[r].reserved = slot[r].reserved
      BY <1>1, <3>1, <3>2 DEF Loaded
    <3>. QED  BY <3>3, NoMoreInUse DEF IInv
  <2>3. phase' = phase /\ cancelled' = cancelled /\ process' = process
    BY <1>5 DEF CloseFails
  <2>4. (closeError => closeError') /\ (IsCloser(t) => closeError')
    BY <1>5 DEF CloseFails
  <2>. QED  BY <1>1, <1>3, <2>1, <2>2, <2>3, <2>4 DEF Kept, Drains, At
<1>6. CASE Closed(t)
  <2>1. Recent'
    BY <1>6, ForgetRecent DEF Closed
  <2>2. InUseBounded'
    <3>1. \A r \in Slot : slot'[r].reserved => slot[r].reserved
      BY <1>0, <1>6, Unloads DEF Closed
    <3>. QED  BY <3>1, NoMoreInUse DEF IInv
  <2>3. process' = [process EXCEPT ![s] = @ \ {slot[s].gen}]
    BY <1>6 DEF Closed
  <2>4. process'[s] = {} /\ \A r \in Slot : process'[r] \subseteq process[r]
    BY <1>0, <1>1, <2>3 DEF TypeOK, SlotFits
  <2>5. phase' = phase /\ cancelled' = cancelled /\ closeError' = closeError
    BY <1>6 DEF Closed, control
  <2>. QED  BY <1>1, <1>2, <1>3, <2>1, <2>2, <2>4, <2>5 DEF Kept, Drains, At
<1>. QED  BY <1>4, <1>5, <1>6 DEF CloseStep

LEMMA WatchKept ==
    ASSUME IInv, TypeOK', NEW s \in Slot, WatcherCancelled(s) \/ WatcherStep(s)
    PROVE  Kept(Watcher(s))
<1>. PICK w : w = Watcher(s)
  OBVIOUS
<1>0. /\ TypeOK /\ w \in Task /\ w \notin User /\ ~IsCloser(w) /\ Rest(w) = "off"
      /\ task \in [Task -> Local] /\ task[w] \in Local
  BY WatcherIs DEF TypeOK
<1>1. CASE WatcherStep(s)
  <2>1. task'[w].pc # "create"
    <3>1. CASE VisitProbes(s, w)
      BY <1>0, <3>1 DEF VisitProbes, Local
    <3>2. CASE Probe(s, w)
      BY <1>0, <3>2 DEF Probe, WaitFor, Goto, Local
    <3>3. CASE Arrive(s, w) \/ VisitEvicts(s, w) \/ VisitLeaves(s, w) \/ Heartbeat(s, w)
      BY <1>0, <3>3
         DEF Arrive, VisitEvicts, VisitLeaves, Heartbeat, Goto, WaitFor, Leave, Local
    <3>. QED  BY <1>0, <1>1, <3>1, <3>2, <3>3 DEF WatcherStep
  <2>. QED  BY <1>0, <1>1, <2>1, QuietKept
            DEF WatcherStep, Arrive, VisitEvicts, VisitLeaves, VisitProbes, Probe,
                Heartbeat, memory, outside, control
<1>2. CASE WatcherCancelled(s)
  <2>1. task'[w].pc = "off"
    BY <1>0, <1>2 DEF WatcherCancelled, Leave, Goto, Local
  <2>2. Recent'
    BY <1>2, SameRecent DEF WatcherCancelled
  <2>3. InUseBounded'
    <3>1. slot' = slot \/ slot' = [slot EXCEPT ![s].ready = FALSE, ![s].backoff = TRUE]
      BY <1>2 DEF WatcherCancelled
    <3>2. slot \in [Slot -> Loaded] /\ slot[s] \in Loaded
      BY <1>0 DEF TypeOK
    <3>3. CASE slot' = [slot EXCEPT ![s].ready = FALSE, ![s].backoff = TRUE]
      <4>1. slot' = [slot EXCEPT ![s] = [@ EXCEPT !.ready = FALSE, !.backoff = TRUE]]
        BY <3>2, <3>3 DEF Loaded
      <4>2. \A r \in Slot : slot'[r].reserved = slot[r].reserved
        BY <3>2, <4>1 DEF Loaded
      <4>. QED  BY <4>2, NoMoreInUse DEF IInv
    <3>. QED  BY <3>1, <3>3, NoMoreInUse DEF IInv
  <2>4. process' = process /\ phase' = phase /\ cancelled' = cancelled
        /\ closeError' = closeError
    BY <1>2 DEF WatcherCancelled, control
  <2>. QED  BY <1>0, <2>1, <2>2, <2>3, <2>4 DEF Kept, Drains, At
<1>. QED  BY <1>1, <1>2

LEMMA ShutKept ==
    ASSUME IInv, TypeOK', NEW s \in Slot, CloserVisits(s) \/ CloserGivesUp(s)
    PROVE  Kept(Closer(s))
<1>. PICK t : t = Closer(s)
  OBVIOUS
<1>0. /\ TypeOK /\ t \in Task /\ t \notin User /\ Rest(t) = "done" /\ Home(t) = s
      /\ task \in [Task -> Local] /\ task[t] \in Local
      /\ ~Booting(t, s) /\ At(t, "visit")
  BY CloserIs DEF TypeOK, CloserVisits, CloserGivesUp
<1>1. task'[t].pc \in {"stop", "done"}
  <2>1. Goto(t, "stop") \/ Goto(t, "done")
    BY <1>0 DEF CloserVisits, CloserGivesUp, Leave
  <2>. QED  BY <1>0, <2>1 DEF Goto, Local
<1>2. Recent' /\ process' = process /\ phase' = phase /\ cancelled' = cancelled
  BY SameRecent DEF CloserVisits, CloserGivesUp, memory, outside, control
<1>3. InUseBounded'
  <2>1. \A r \in Slot : slot'[r].reserved => slot[r].reserved
    BY <1>0, Unloads DEF CloserVisits, CloserGivesUp, memory
  <2>. QED  BY <2>1, NoMoreInUse DEF IInv
<1>4. (closeError => closeError') /\ (task'[t].pc = "done" => closeError' \/ process'[s] = {})
  <2>1. CASE CloserGivesUp(s)
    BY <2>1 DEF CloserGivesUp
  <2>2. CASE CloserVisits(s)
    <3>1. closeError' = closeError
      BY <2>2 DEF CloserVisits, control
    <3>2. CASE slot[s].loaded
      BY <1>0, <2>2, <3>1, <3>2 DEF CloserVisits, Goto, Local
    <3>3. CASE ~slot[s].loaded
      <4>1. Holds(t, s)
        BY <2>2 DEF CloserVisits
      <4>2. process[s] = {}
        BY <1>0, <3>3, <4>1, HeldIsEmpty
      <4>. QED  BY <1>2, <3>1, <4>2
    <3>. QED  BY <3>2, <3>3
  <2>. QED  BY <2>1, <2>2
<1>. QED  BY <1>0, <1>1, <1>2, <1>3, <1>4 DEF Kept, Drains, At

-----------------------------------------------------------------------------
(* The steps of no single task. *)

\* A watcher or closer that was off is sent on its way.
Sent(v) ==
    /\ v \notin User /\ At(v, "off")
    /\ task'[v].cands = task[v].cands /\ task'[v].home = task[v].home
    /\ task'[v].pc = IF IsCloser(v) THEN "visit" ELSE "scheduled"

LEMMA RestFits ==
    ASSUME IInv, \A v \in Task : task'[v] = task[v] \/ Sent(v),
           \A v \in Task, s \in Slot : Holds(v, s) => Holds(v, s)',
           startLock' = startLock,
           \A s \in Slot : /\ slot'[s].gen = slot[s].gen
                           /\ slot'[s].loaded = slot[s].loaded
                           /\ slot'[s].reserved = slot[s].reserved
                           /\ process'[s] \subseteq process[s]
    PROVE  Locked' /\ \A s \in Slot : SlotFits(s)'
<1>1. ASSUME NEW v \in Task
      PROVE  Shape(v)' /\ LocksHeld(v)' /\ InTurn(v)' /\ TaskFits(v)'
  <2>0. Shape(v) /\ LocksHeld(v) /\ InTurn(v) /\ TaskFits(v) /\ TypeOK
    BY DEF IInv, Locked
  <2>1. CASE Sent(v)
    <3>1. ~IsEvictor(v)
      BY <2>0, <2>1 DEF Shape, Sent, At
    <3>. QED  BY <2>0, <2>1, <3>1, FreeMove
              DEF Sent, Shape, IsEvictor, Home, HoldingPc, StartupPc, CloserPc, WatcherPc
  <2>2. CASE task'[v] = task[v]
    <3>1. /\ Shape(v)' <=> Shape(v)
          /\ \A s \in Slot : Owns(v, s)' <=> Owns(v, s)
      BY <2>2 DEF Shape, Owns, InStartup, IsEvictor, Target, Home, At, IsCloser
    <3>2. LocksHeld(v)'
      BY <2>0, <3>1 DEF LocksHeld
    <3>3. InTurn(v)'
      BY <2>0, <2>2, SameStart DEF InTurn, At, IsEvictor
    <3>4. TaskFits(v)'
      <4>1. CASE InStartup(v) \/ At(v, "reportClose")
        <5>1. Home(v) \in Slot
          BY <2>0, <4>1, Tasks DEF Shape, InStartup, StartupPc, At
        <5>2. /\ Home(v)' = Home(v) /\ (InStartup(v)' <=> InStartup(v))
              /\ task'[v].pc = task[v].pc /\ task'[v].gen = task[v].gen
          BY <2>2 DEF Home, InStartup, IsEvictor
        <5>. QED  BY <2>0, <2>2, <5>1, <5>2 DEF TaskFits, At
      <4>2. CASE ~InStartup(v) /\ ~At(v, "reportClose")
        BY <2>2, <4>2 DEF TaskFits, At, InStartup, IsEvictor, StartupPc
      <4>. QED  BY <4>1, <4>2
    <3>. QED  BY <2>0, <3>1, <3>2, <3>3, <3>4
  <2>. QED  BY <2>1, <2>2
<1>2. ASSUME NEW s \in Slot  PROVE SlotFits(s)'
  <2>1. SlotFits(s)
    BY DEF IInv
  <2>2. \A v \in Task : Booting(v, s) => Booting(v, s)'
    BY DEF Sent, Booting, Home, At
  <2>. QED  BY <2>1, <2>2 DEF SlotFits
<1>. QED  BY <1>1, <1>2 DEF Locked

LEMMA StartPassKeeps ==
    ASSUME IInv, sync' \subseteq User, StartPass
    PROVE  IInv'
<1>0. TypeOK /\ Draining /\ ~Closing /\ phase = "up"
  BY DEF IInv, StartPass, Closing
<1>1. \A v \in Task : task'[v] = IF IsWatcher(v) /\ At(v, "off")
                                 THEN [task[v] EXCEPT !.pc = "scheduled"] ELSE task[v]
  BY DEF StartPass
<1>2. \A v \in Task : task'[v] = task[v] \/ Sent(v)
  <2>1. \A v \in Task : IsWatcher(v) => v \notin User /\ ~IsCloser(v)
    BY Tasks DEF IsWatcher
  <2>. QED  BY <1>0, <1>1, <2>1 DEF Sent, TypeOK, Local
<1>3. /\ slot' = slot /\ process' = process /\ lock' = lock /\ startLock' = startLock
      /\ lru' = lru /\ idle' = idle /\ phase' = phase /\ closeError' = closeError
  BY DEF StartPass, memory, outside
<1>4. Locked' /\ \A s \in Slot : SlotFits(s)'
  BY <1>2, <1>3, RestFits DEF Holds
<1>5. TypeOK'
  <2>1. ASSUME NEW v \in Task  PROVE task'[v] \in Local
    <3>1. task[v] \in Local /\ "scheduled" \in Pc
      BY <1>0 DEF TypeOK, Pc
    <3>2. [task[v] EXCEPT !.pc = "scheduled"] \in Local
      BY <3>1 DEF Local
    <3>. QED  BY <1>1, <3>1, <3>2
  <2>2. task' \in [Task -> Local]
    BY <2>1 DEF StartPass
  <2>. QED  BY <1>0, <2>2 DEF StartPass, TypeOK, memory, outside
<1>6. InUseBounded' /\ Recent'
  BY <1>3, NoMoreInUse, SameRecent DEF IInv
<1>7. \A s \in Slot : At(Closer(s), "off")'
  BY <1>0, <1>1, Tasks DEF Draining, At
<1>8. Draining'
  BY <1>0, <1>3, <1>7 DEF Draining, At
<1>. QED  BY <1>4, <1>5, <1>6, <1>8 DEF IInv

LEMMA CloseSlotsKeeps ==
    ASSUME IInv, sync' \subseteq User, CloseSlots
    PROVE  IInv'
<1>0. TypeOK /\ Draining /\ phase = "closing" /\ \A s \in Slot : At(Closer(s), "off")
  BY DEF IInv, CloseSlots, Draining
<1>1. \A v \in Task : task'[v] = IF v \in {Closer(s) : s \in Slot}
                                 THEN [task[v] EXCEPT !.pc = "visit"] ELSE task[v]
  BY DEF CloseSlots
<1>11. \A v \in Task : ~IsCloser(v) => task'[v] = task[v]
  BY <1>1 DEF IsCloser
<1>12. ASSUME NEW s \in Slot
       PROVE  /\ Closer(s) \in Task /\ Closer(s) \notin User /\ IsCloser(Closer(s))
              /\ At(Closer(s), "off") /\ task'[Closer(s)].pc = "visit"
              /\ task'[Closer(s)] = [task[Closer(s)] EXCEPT !.pc = "visit"]
              /\ task'[Closer(s)] \in Local
  <2>. PICK c : c = Closer(s)
    OBVIOUS
  <2>1. c \in Task /\ c \notin User /\ IsCloser(c) /\ At(c, "off")
    BY <1>0, Tasks
  <2>2. task[c] \in Local
    BY <1>0, <2>1 DEF TypeOK
  <2>3. task'[c] = [task[c] EXCEPT !.pc = "visit"]
    BY <1>1, <2>1
  <2>. QED  BY <2>1, <2>2, <2>3 DEF Local, Pc
<1>2. \A v \in Task : task'[v] = task[v] \/ Sent(v)
  <2>1. ASSUME NEW s \in Slot  PROVE Sent(Closer(s))
    <3>1. task[Closer(s)] \in Local
      BY <1>0, <1>12 DEF TypeOK
    <3>. QED  BY <1>12, <3>1 DEF Sent, Local
  <2>. QED  BY <1>11, <2>1 DEF IsCloser
<1>3. /\ slot' = slot /\ process' = process /\ startLock' = startLock
      /\ lru' = lru /\ idle' = idle /\ phase' = "draining" /\ closeError' = closeError
      /\ cancelled' = {u \in User : InStartup(u)}
      /\ lock' = [s \in Slot |-> Append(lock[s], Closer(s))]
  BY DEF CloseSlots, memory, outside
<1>4. /\ lock' \in [Slot -> Seq(Task)]
      /\ \A v \in Task, s \in Slot : Holds(v, s) => Holds(v, s)'
  <2>1. \A s \in Slot : /\ lock'[s] \in Seq(Task) /\ lock'[s] # <<>>
                        /\ lock[s] # <<>> => Head(lock'[s]) = Head(lock[s])
    BY <1>0, <1>3, Tasks, AppendQueue DEF TypeOK
  <2>. QED  BY <1>3, <2>1 DEF Holds
<1>5. Locked' /\ \A s \in Slot : SlotFits(s)'
  BY <1>2, <1>3, <1>4, RestFits
<1>6. TypeOK'
  <2>1. \A v \in Task : task'[v] \in Local
    BY <1>0, <1>11, <1>12 DEF TypeOK, IsCloser
  <2>2. task' \in [Task -> Local]
    BY <2>1 DEF CloseSlots
  <2>. QED  BY <1>0, <1>3, <1>4, <2>2 DEF CloseSlots, TypeOK, memory, outside
<1>7. InUseBounded' /\ Recent'
  BY <1>3, NoMoreInUse, SameRecent DEF IInv
<1>8. \A s \in Slot : ~At(Closer(s), "done")'
  BY <1>12 DEF At
<1>9. \A u \in User : At(u, "create")' => u \in cancelled'
  <2>1. \A u \in User : task'[u] = task[u]
    BY <1>11, Tasks
  <2>. QED  BY <1>3, <2>1 DEF At, InStartup, StartupPc
<1>10. Draining'
  BY <1>3, <1>8, <1>9 DEF Draining, At
<1>. QED  BY <1>5, <1>6, <1>7, <1>10 DEF IInv

LEMMA OtherStepsKeep ==
    ASSUME IInv, sync' \subseteq User,
           \/ \E s \in Slot : RuntimeDies(s) \/ TtlPasses(s) \/ BackoffEnds(s)
           \/ EndPass \/ CloseBegin \/ CloseEnd
    PROVE  IInv'
<1>0. TypeOK /\ Draining
  BY DEF IInv
<1>1. task' = task /\ lock' = lock /\ startLock' = startLock /\ lru' = lru
      /\ closeError' = closeError /\ cancelled' = cancelled
  BY DEF RuntimeDies, TtlPasses, BackoffEnds, EndPass, CloseBegin, CloseEnd, memory, outside,
         control
<1>2. /\ slot' \in [Slot -> Loaded]
      /\ \A s \in Slot : /\ slot'[s].gen = slot[s].gen /\ slot'[s].loaded = slot[s].loaded
                         /\ slot'[s].reserved = slot[s].reserved
  <2>1. slot' = slot \/ \E s \in Slot : slot' = [slot EXCEPT ![s].backoff = FALSE]
    BY DEF RuntimeDies, TtlPasses, BackoffEnds, EndPass, CloseBegin, CloseEnd, memory
  <2>2. slot \in [Slot -> Loaded]
    BY <1>0 DEF TypeOK
  <2>3. ASSUME NEW s \in Slot, slot' = [slot EXCEPT ![s].backoff = FALSE]
        PROVE  /\ slot' \in [Slot -> Loaded]
               /\ \A r \in Slot : /\ slot'[r].gen = slot[r].gen
                                  /\ slot'[r].loaded = slot[r].loaded
                                  /\ slot'[r].reserved = slot[r].reserved
    BY <2>2, <2>3 DEF Loaded
  <2>. QED  BY <2>1, <2>2, <2>3
<1>3. /\ process' \in [Slot -> SUBSET Gen]
      /\ \A s \in Slot : process'[s] \subseteq process[s]
  BY <1>0 DEF RuntimeDies, TtlPasses, BackoffEnds, EndPass, CloseBegin, CloseEnd, outside,
              TypeOK
<1>4. /\ idle' \subseteq Slot /\ Recent'
      /\ faults' \in 0..MaxFaults /\ phase' \in {"up", "closing", "draining", "closed"}
      /\ pass' \in BOOLEAN
  <2>1. CASE \E s \in Slot : RuntimeDies(s)
    BY <1>0, <1>1, <2>1, SameRecent, FaultCounts DEF RuntimeDies, memory, TypeOK
  <2>2. CASE \E s \in Slot : TtlPasses(s)
    BY <1>0, <1>1, <2>2 DEF TtlPasses, control, TypeOK, Recent, Used, IInv
  <2>3. CASE \/ \E s \in Slot : BackoffEnds(s)
             \/ EndPass \/ CloseBegin \/ CloseEnd
    BY <1>0, <1>1, <2>3, SameRecent
       DEF BackoffEnds, EndPass, CloseBegin, CloseEnd, memory, control, TypeOK
  <2>. QED  BY <2>1, <2>2, <2>3
<1>5. Locked' /\ \A s \in Slot : SlotFits(s)'
  BY <1>1, <1>2, <1>3, RestFits DEF Holds
<1>6. lease' = lease /\ live' = live /\ calls' = calls
  BY DEF RuntimeDies, TtlPasses, BackoffEnds, EndPass, CloseBegin, CloseEnd, outside, control
<1>7. TypeOK'
  BY <1>0, <1>1, <1>2, <1>3, <1>4, <1>6 DEF TypeOK
<1>8. InUseBounded'
  BY <1>2, NoMoreInUse DEF IInv
<1>9. Draining'
  <2>1. \/ phase' = phase
        \/ phase = "up" /\ phase' = "closing"
        \/ phase = "draining" /\ phase' = "closed" /\ \A s \in Slot : At(Closer(s), "done")
    BY DEF RuntimeDies, TtlPasses, BackoffEnds, EndPass, CloseBegin, CloseEnd, control
  <2>2. /\ phase' \in {"up", "closing"} => phase \in {"up", "closing"}
        /\ phase' \in {"draining", "closed"} => phase \in {"draining", "closed"}
        /\ phase' = "closed" => phase = "closed" \/ \A s \in Slot : At(Closer(s), "done")
    BY <1>0, <2>1 DEF TypeOK
  <2>3. \A t, pc : At(t, pc)' <=> At(t, pc)
    BY <1>1 DEF At
  <2>. QED  BY <1>0, <1>1, <1>3, <2>2, <2>3 DEF Draining
<1>. QED  BY <1>4, <1>5, <1>7, <1>8, <1>9 DEF IInv

-----------------------------------------------------------------------------
(* The theorems. *)

LEMMA TaskKeeps ==
    ASSUME IInv, NEW t \in Task, TaskMove(t), TypeOK', Kept(t)
    PROVE  IInv'
  BY MoveFits, DrainsKeeps DEF Kept, IInv

LEMMA InitHolds ==
    ASSUME Init
    PROVE  IInv
<1>. DEFINE n == Cardinality(Lost)
<1>0. n \in Nat /\ ExistsBijection(1..n, Lost)
  <2>1. IsFiniteSet(Lost)
    BY ConstantsAssumption, FS_Subset
  <2>. QED  BY <2>1, FS_CardinalityType
<1>1. InitLru \in [1..n -> Lost] /\ InitLru \in Injection(1..n, Lost)
  <2>. HIDE DEF n
  <2>1. PICK q : q \in Injection(1..n, Lost)
    BY <1>0 DEF ExistsBijection, Bijection
  <2>2. q \in [1..n -> Lost] /\ \A i, j \in 1..n : q[i] = q[j] => i = j
    BY <2>1 DEF Injection, IsInjective
  <2>3. \A f \in [1..n -> Lost] : DOMAIN f = 1..n
    OBVIOUS
  <2>4. \E f \in [1..n -> Lost] : \A i, j \in DOMAIN f : f[i] = f[j] => i = j
    BY <2>2, <2>3
  <2>5. /\ InitLru \in [1..n -> Lost]
        /\ \A i, j \in DOMAIN InitLru : InitLru[i] = InitLru[j] => i = j
    BY <2>4 DEF InitLru, n
  <2>6. \A i, j \in 1..n : InitLru[i] = InitLru[j] => i = j
    BY <2>3, <2>5
  <2>. QED  BY <2>3, <2>5, <2>6 DEF Injection, IsInjective
<1>2. lru \in Seq(Slot) /\ idle \subseteq Slot /\ Recent
  <2>. HIDE DEF n
  <2>1. lru = InitLru /\ idle = Lost /\ DOMAIN InitLru = 1..n
    BY <1>1 DEF Init
  <2>2. IsFiniteSet(1..n) /\ Cardinality(1..n) = n
    BY <1>0, FS_Interval
  <2>3. IsFiniteSet(Lost) /\ n = Cardinality(Lost)
    BY ConstantsAssumption, FS_Subset DEF n
  <2>4. InitLru \in Surjection(1..n, Lost)
    BY <1>1, <2>2, <2>3, FS_Injection
  <2>5. \A s \in Lost : \E i \in DOMAIN InitLru : InitLru[i] = s
    BY <2>1, <2>4 DEF Surjection
  <2>6. InitLru \in [1..n -> Slot]
    BY <1>1, ConstantsAssumption
  <2>7. InitLru \in Seq(Slot)
    BY <1>0, <2>6, SeqDef
  <2>. QED  BY <2>1, <2>5, <2>7, ConstantsAssumption DEF Recent, Used
<1>3. ASSUME NEW t \in Task
      PROVE  /\ task[t] \in Local /\ task[t].pc = "off" /\ task[t].cands = <<>>
             /\ t \notin User => Home(t) = t[2]
  <2>1. task[t] = [pc |-> "off", gen |-> NoGen, cands |-> <<>>,
                   home |-> IF t \in User THEN NoSlot ELSE t[2]]
    BY DEF Init
  <2>2. <<>> \in Seq(Slot)
    OBVIOUS
  <2>. QED  BY <2>1, <2>2, Tasks DEF Local, Pc, Home
<1>4. TypeOK
  <2>1. task \in [Task -> Local]
    BY <1>3 DEF Init
  <2>2. /\ slot \in [Slot -> Loaded] /\ lease \in [Slot -> LeaseState]
        /\ process \in [Slot -> SUBSET Gen]
    BY DEF Init, Loaded, LeaseState
  <2>3. lock \in [Slot -> Seq(Task)] /\ startLock \in Seq(User)
    BY DEF Init
  <2>4. /\ live \subseteq User /\ calls \in [User -> 0..MaxCalls] /\ pass \in BOOLEAN
        /\ phase \in {"up", "closing", "draining", "closed"} /\ cancelled \subseteq User
        /\ closeError \in BOOLEAN /\ faults \in 0..MaxFaults /\ sync \subseteq User
    <3>1. 0 \in 0..MaxCalls /\ 0 \in 0..MaxFaults
      BY ConstantsAssumption
    <3>. QED  BY <3>1 DEF Init
  <2>. QED  BY <1>2, <2>1, <2>2, <2>3, <2>4 DEF TypeOK
<1>5. ASSUME NEW t \in Task
      PROVE  Shape(t) /\ LocksHeld(t) /\ InTurn(t) /\ TaskFits(t)
  <2>1. ~IsEvictor(t) /\ ~InStartup(t) /\ task[t].pc = "off"
    BY <1>3 DEF IsEvictor, InStartup, StartupPc
  <2>2. Shape(t)
    BY <1>3, <2>1 DEF Shape, At, UserPc, WatcherPc, CloserPc, Pc
  <2>. QED  BY <2>1, <2>2 DEF LocksHeld, Owns, InTurn, TaskFits, At
<1>6. \A s \in Slot : SlotFits(s)
  BY DEF Init, SlotFits
<1>7. InUseBounded
  <2>1. {s \in Slot : slot[s].reserved} = {}
    BY DEF Init
  <2>2. InUse = 0
    BY <2>1, FS_EmptySet DEF InUse
  <2>. QED  BY <2>2, ConstantsAssumption DEF InUseBounded
<1>8. Draining
  <2>1. \A s \in Slot : At(Closer(s), "off")
    BY <1>3, Tasks DEF At
  <2>. QED  BY <2>1 DEF Draining, Init, At
<1>. QED  BY <1>2, <1>4, <1>5, <1>6, <1>7, <1>8 DEF IInv, Locked

LEMMA NextKeeps ==
    ASSUME IInv, [Next]_vars
    PROVE  IInv'
<1>1. CASE UNCHANGED vars
  <2>. USE DEF vars, memory, outside, control
  <2>1. \A t, pc : At(t, pc)' <=> At(t, pc)
    BY <1>1 DEF At
  <2>2. \A t, s : Holds(t, s)' <=> Holds(t, s)
    BY <1>1 DEF Holds
  <2>3. Locked' /\ \A s \in Slot : SlotFits(s)'
    BY <1>1, <2>2, RestFits
  <2>4. TypeOK' /\ Recent' /\ InUseBounded'
    BY <1>1, SameRecent, NoMoreInUse DEF IInv, TypeOK
  <2>5. Draining'
    BY <1>1, <2>1 DEF IInv, Draining
  <2>. QED  BY <2>3, <2>4, <2>5 DEF IInv
<1>2. ASSUME NEW u \in User, UserMoves(u) \/ UserCalls(u)  PROVE IInv'
  <2>1. sync' \subseteq User /\ u \in Task
    BY <1>2, Tasks DEF UserMoves, UserCalls, Suspends
  <2>2. CASE \E s \in Slot : EnsureCall(u, s)
    <3>1. TaskMove(u) /\ TypeOK'
      BY <2>1, <2>2, EnsureCalls
    <3>. QED  BY <2>1, <2>2, <3>1, StartLedger, TaskKeeps
  <2>3. CASE StartStep(u)
    <3>1. TaskMove(u) /\ TypeOK'
      BY <2>1, <2>3, EnsureMoves, ReserveMoves, EvictMoves, PassGateMoves, StartAbortedMoves,
         CreateMoves, BootMoves, MarkReadyMoves, CleanupMoves DEF StartStep
    <3>. QED  BY <2>1, <2>3, <3>1, StartLedger, TaskKeeps
  <2>4. CASE UseStep(u)
    <3>1. TaskMove(u) /\ TypeOK'
      BY <2>1, <2>4, UseMoves, RetireMoves DEF UseStep
    <3>. QED  BY <2>1, <2>4, <3>1, UseKept, TaskKeeps
  <2>5. CASE CloseStep(u)
    <3>1. TaskMove(u) /\ TypeOK'
      BY <2>1, <2>5, MarkStoppingMoves, ClosedMoves, CloseFailsMoves DEF CloseStep
    <3>. QED  BY <2>1, <2>5, <3>1, CloseKept, TaskKeeps
  <2>6. CASE ReportStep(u)
    <3>1. TaskMove(u) /\ TypeOK'
      BY <2>1, <2>6, StaleMoves, ReportMoves, ReportCloseMoves DEF ReportStep
    <3>. QED  BY <2>1, <2>6, <3>1, ReportKept, TaskKeeps
  <2>. QED  BY <1>2, <2>2, <2>3, <2>4, <2>5, <2>6 DEF UserMoves, UserCalls, UserStep
<1>3. ASSUME Yielded, NEW s \in Slot, WatchStep(s) \/ ShutStep(s)  PROVE IInv'
  <2>1. sync' \subseteq User
    BY <1>3 DEF Yielded
  <2>. PICK w \in Task : w = Watcher(s)
    BY Tasks
  <2>. PICK c \in Task : c = Closer(s)
    BY Tasks
  <2>2. CASE WatcherCancelled(s)
    <3>1. TaskMove(w) /\ TypeOK'
      BY <2>1, <2>2, WatcherCancelledMoves
    <3>. QED  BY <2>2, <3>1, WatchKept, TaskKeeps
  <2>3. CASE WatcherStep(s)
    <3>1. TaskMove(w) /\ TypeOK'
      BY <2>1, <2>3, WatcherMoves DEF WatcherStep
    <3>. QED  BY <2>3, <3>1, WatchKept, TaskKeeps
  <2>4. CASE CloserVisits(s) \/ CloserGivesUp(s)
    <3>1. TaskMove(c) /\ TypeOK'
      BY <2>1, <2>4, CloserMoves
    <3>. QED  BY <2>4, <3>1, ShutKept, TaskKeeps
  <2>5. ASSUME NEW t \in Task, CloseStep(t)  PROVE IInv'
    <3>1. TaskMove(t) /\ TypeOK'
      BY <2>1, <2>5, MarkStoppingMoves, ClosedMoves, CloseFailsMoves DEF CloseStep
    <3>. QED  BY <2>5, <3>1, CloseKept, TaskKeeps
  <2>6. CASE ReportStep(w)
    <3>1. TaskMove(w) /\ TypeOK'
      BY <2>1, <2>6, StaleMoves, ReportMoves, ReportCloseMoves DEF ReportStep
    <3>. QED  BY <2>6, <3>1, ReportKept, TaskKeeps
  <2>. QED  BY <1>3, <2>2, <2>3, <2>4, <2>5, <2>6 DEF WatchStep, ShutStep
<1>4. CASE Yielded /\ \/ \E s \in Slot : RuntimeDies(s) \/ TtlPasses(s) \/ BackoffEnds(s)
                      \/ StartPass \/ EndPass \/ CloseBegin \/ CloseSlots \/ CloseEnd
  <2>1. sync' \subseteq User
    BY <1>4 DEF Yielded
  <2>. QED  BY <1>4, <2>1, StartPassKeeps, CloseSlotsKeeps, OtherStepsKeep
<1>. QED  BY <1>1, <1>2, <1>3, <1>4 DEF Next

\* The locks, slots, tasks and counters fit together after any number of steps.
THEOREM InductiveInvariant == Spec => []IInv
<1>1. Init => IInv
  BY InitHolds
<1>2. IInv /\ [Next]_vars => IInv'
  BY NextKeeps
<1>. QED  BY <1>1, <1>2, PTL DEF Spec

\* Every variable keeps its type.
THEOREM TypeCorrect == Spec => []TypeOK
<1>1. IInv => TypeOK
  BY DEF IInv
<1>. QED  BY <1>1, InductiveInvariant, PTL

LEMMA OneIsBounded ==
    ASSUME IInv, NEW s \in Slot
    PROVE  IsFiniteSet(process[s]) /\ Cardinality(process[s]) <= 1
<1>1. process[s] \subseteq {slot[s].gen}
  BY DEF IInv, SlotFits
<1>2. IsFiniteSet({slot[s].gen}) /\ Cardinality({slot[s].gen}) = 1
  BY FS_Singleton
<1>. QED  BY <1>1, <1>2, FS_Subset

\* However starts, closes and reports fail or overlap, a slot never has two running
\* app-servers: ensure creates one only when the lock it holds shows that the last
\* one was closed.
THEOREM OneAppServerHolds == Spec => []OneAppServer
<1>1. IInv => OneAppServer
  BY OneIsBounded DEF OneAppServer
<1>. QED  BY <1>1, InductiveInvariant, PTL

LEMMA AppServersFit ==
    ASSUME IInv
    PROVE  AppServersBounded
<1>1. IsFiniteSet(Reserved)
  BY ConstantsAssumption, FS_Subset DEF Reserved
<1>. DEFINE pair == [s \in Reserved |-> <<s, slot[s].gen>>]
<1>2. AppServers \subseteq {pair[s] : s \in Reserved}
  BY DEF AppServers, IInv, SlotFits, Reserved
<1>3. /\ IsFiniteSet({pair[s] : s \in Reserved})
      /\ Cardinality({pair[s] : s \in Reserved}) <= Cardinality(Reserved)
  <2>1. pair \in Surjection(Reserved, {pair[s] : s \in Reserved})
    BY DEF Surjection
  <2>. HIDE DEF pair
  <2>. QED  BY <1>1, <2>1, FS_Surjection
<1>4. IsFiniteSet(AppServers) /\ Cardinality(AppServers) <= Cardinality({pair[s] : s \in Reserved})
  BY <1>2, <1>3, FS_Subset
<1>5. /\ Cardinality(AppServers) \in Nat /\ Cardinality(Reserved) \in Nat
      /\ Cardinality({pair[s] : s \in Reserved}) \in Nat
  BY <1>1, <1>3, <1>4, FS_CardinalityType
<1>6. InUse = Cardinality(Reserved) /\ InUse <= MaxActive
  BY DEF InUse, Reserved, IInv, InUseBounded
<1>. QED  BY <1>3, <1>4, <1>5, <1>6, ConstantsAssumption DEF AppServersBounded

\* At most max_active_runtimes app-servers run at a time, the starting ones and those
\* that did not close included: capacity is taken before a start and given back after
\* a close.
THEOREM AppServersAreBounded == Spec => []AppServersBounded
<1>1. IInv => AppServersBounded
  BY AppServersFit
<1>. QED  BY <1>1, InductiveInvariant, PTL

\* When close() ends without an error, no app-server runs, whatever the starts, reports
\* and evictions it met were doing.
THEOREM ShutdownIsClean == Spec => []CleanShutdown
<1>1. IInv => CleanShutdown
  BY DEF IInv, Draining, CleanShutdown, AppServers
<1>. QED  BY <1>1, InductiveInvariant, PTL

\* A slot whose lock is free holds capacity just when it has a runtime: no way a start,
\* a close or a report ends or is cancelled leaks capacity or frees it early.
THEOREM CapacityFollows == Spec => []CapacityFits
<1>1. ASSUME IInv  PROVE CapacityFits
  <2>1. ASSUME NEW s \in Slot, lock[s] = <<>>
        PROVE  slot[s].reserved = slot[s].loaded
    <3>1. \A t \in Task : ~Booting(t, s)
      <4>1. ASSUME NEW t \in Task, Booting(t, s)  PROVE FALSE
        <5>1. Owns(t, s)
          BY <4>1 DEF Booting, Owns, InStartup, StartupPc
        <5>2. Holds(t, s)
          BY <1>1, <5>1 DEF IInv, Locked, LocksHeld
        <5>. QED  BY <2>1, <5>2 DEF Holds
      <4>. QED  BY <4>1
    <3>2. slot[s].reserved \in BOOLEAN /\ slot[s].loaded \in BOOLEAN
      BY <1>1 DEF IInv, TypeOK, Loaded
    <3>3. (slot[s].loaded => slot[s].reserved) /\ (slot[s].reserved => slot[s].loaded)
      BY <1>1, <3>1 DEF IInv, SlotFits
    <3>. QED  BY <3>2, <3>3
  <2>. QED  BY <2>1 DEF CapacityFits
<1>. QED  BY <1>1, InductiveInvariant, PTL

-----------------------------------------------------------------------------
(* Live work without capacity pressure. *)

\* Every slot may have its runtime, and no recovery retires one.
Roomy == Cardinality(Slot) <= MaxActive /\ "retire" \notin Env

NoEviction == \A t \in Task : ~IsEvictor(t) /\ ~At(t, "retire")

\* The row and the memory agree on who may claim.
LeaseFits(s) ==
    /\ slot[s].loaded /\ ~slot[s].ready => lease[s] # "ready"
    /\ ~Closing /\ lease[s] = "ready" => slot[s].loaded

Reported == \A t \in Task : At(t, "reportClose") => lease[Home(t)] # "ready"

\* Who closes a runtime closes an idle one, or one that nobody can claim; who got
\* a runtime finds it in use until it claims.
ClosesUnused(t) ==
    task[t].pc \in {"stop", "close"} =>
       /\ \A u \in live : Home(u) # Home(t)
       /\ t \notin User => Home(t) \in idle
       /\ t \in User => ~slot[Home(t)].ready
Spared ==
    /\ LiveWorkSpared /\ cancelled = {}
    /\ \A u \in live : task[u].pc \in {"work", "report"}
    /\ \A u \in User : At(u, "got") => Home(u) \notin idle
    /\ \A t \in Task : ClosesUnused(t)

LiveInv ==
    /\ IInv /\ NoEviction /\ Reported
    /\ \A s \in Slot : LeaseFits(s)
    /\ ~Closing => Spared

\* A step of a task on its slot h: what it must leave there.
Spares(t, h) ==
    /\ task'[t].cands = <<>> /\ task'[t].pc # "retire"
    /\ \A s \in Slot \ {h} : /\ slot'[s] = slot[s] /\ lease'[s] = lease[s]
                             /\ s \in idle' <=> s \in idle
    /\ LeaseFits(h)'
    /\ h \in idle' => h \in idle
    /\ \/ lease'[h] = "ready" /\ lease[h] # "ready"
       \/ h \in idle /\ h \notin idle'
       \/ slot'[h].ready /\ ~slot[h].ready
       => Holds(t, h)
    /\ task'[t].pc = "reportClose" => task'[t].home = h /\ lease'[h] # "ready"
    /\ live' \subseteq live \cup {t} /\ phase' = phase

SparesLive(t, h) ==
    /\ cancelled' = {}
    /\ \A u \in live' : Home(u)' = h => /\ slot'[h].gen = task'[u].gen /\ slot'[h].loaded
                                        /\ lease'[h] = "ready"
    /\ t \in live' => /\ task'[t].pc \in {"work", "report"} /\ task'[t].home = h
                      /\ t \in live => task[t].home = h
                      /\ t \notin live => /\ At(t, "got") /\ Home(t) = h
                                          /\ lease[h] = "ready"
    /\ task'[t].pc = "got" => task'[t].home = h /\ h \notin idle'
    /\ task'[t].pc \in {"stop", "close"} => task'[t].home = h /\ ClosesUnused(t)'

LEMMA SparesKeeps ==
    ASSUME LiveInv, IInv', NEW t \in Task, NEW h \in Slot, Spares(t, h),
           \A v \in Task \ {t} : task'[v] = task[v],
           ~Closing => SparesLive(t, h)
    PROVE  LiveInv'
<1>0. IInv /\ TypeOK /\ TypeOK' /\ NoEviction /\ Reported /\ \A s \in Slot : LeaseFits(s)
  BY DEF LiveInv, IInv
<1>1. NoEviction'
  BY <1>0 DEF NoEviction, Spares, IsEvictor, At
<1>2. \A s \in Slot : LeaseFits(s)'
  BY <1>0 DEF LeaseFits, Spares, Closing
<1>3. ASSUME NEW v \in Task, task[v].pc \in {"stop", "close", "reportClose"}
      PROVE  Home(v) \in Slot /\ Holds(v, Home(v))
  <2>1. CASE task[v].pc = "reportClose"
    BY <1>0, <2>1, Reporter DEF LocksHeld, Owns, At
  <2>2. CASE task[v].pc \in {"stop", "close"}
    BY <1>0, <2>2, CloseHolder DEF NoEviction
  <2>. QED  BY <1>3, <2>1, <2>2
<1>4. ASSUME NEW v \in Task, At(v, "reportClose")'  PROVE lease'[Home(v)'] # "ready"
  <2>1. CASE v = t
    BY <1>4, <2>1 DEF Spares, At, Home
  <2>2. CASE v # t
    <3>1. At(v, "reportClose") /\ Home(v)' = Home(v) /\ lease[Home(v)] # "ready"
      BY <1>0, <1>4, <2>2 DEF At, Home, Reported
    <3>2. Home(v) \in Slot /\ ~Holds(t, Home(v))
      BY <1>3, <2>2, <3>1 DEF At, Holds
    <3>. QED  BY <3>1, <3>2 DEF Spares
  <2>. QED  BY <2>1, <2>2
<1>5. Reported'
  BY <1>4 DEF Reported
<1>6. ASSUME ~Closing'  PROVE Spared'
  <2>0. ~Closing /\ Spared /\ SparesLive(t, h)
    BY <1>6 DEF LiveInv, Spares, Closing
  <2>1. ASSUME NEW u \in live'
        PROVE  /\ slot'[Home(u)'].gen = task'[u].gen /\ slot'[Home(u)'].loaded
               /\ lease'[Home(u)'] = "ready" /\ task'[u].pc \in {"work", "report"}
    <3>1. CASE u = t
      BY <2>0, <2>1, <3>1 DEF SparesLive, Home
    <3>2. CASE u # t
      <4>1. /\ u \in live /\ u \in Task /\ task'[u] = task[u] /\ Home(u)' = Home(u)
        BY <1>0, <2>1, <3>2, Tasks DEF Spares, Home, TypeOK
      <4>2. /\ slot[Home(u)].gen = task[u].gen /\ slot[Home(u)].loaded
            /\ lease[Home(u)] = "ready" /\ task[u].pc \in {"work", "report"}
        BY <2>0, <4>1 DEF Spared, LiveWorkSpared
      <4>3. Home(u) \in Slot
        BY <1>0, <4>1, <4>2 DEF IInv, Locked, Shape, At, TypeOK
      <4>. QED  BY <2>0, <2>1, <4>1, <4>2, <4>3 DEF SparesLive, Spares
    <3>. QED  BY <3>1, <3>2
  <2>2. LiveWorkSpared'
    BY <2>1 DEF LiveWorkSpared
  <2>3. ASSUME NEW u \in User, At(u, "got")'  PROVE Home(u)' \notin idle'
    <3>1. CASE u = t
      BY <2>0, <2>3, <3>1 DEF SparesLive, At, Home
    <3>2. CASE u # t
      <4>1. At(u, "got") /\ Home(u)' = Home(u)
        BY <2>3, <3>2, Tasks DEF At, Home
      <4>2. Home(u) \notin idle
        BY <2>0, <4>1 DEF Spared
      <4>. QED  BY <1>0, <4>1, <4>2 DEF Spares, TypeOK
    <3>. QED  BY <3>1, <3>2
  <2>4. ASSUME NEW v \in Task  PROVE ClosesUnused(v)'
    <3>1. CASE v = t
      BY <2>0, <3>1 DEF SparesLive, ClosesUnused
    <3>2. CASE v # t /\ task'[v].pc \in {"stop", "close"}
      <4>1. task'[v] = task[v] /\ Home(v)' = Home(v) /\ task[v].pc \in {"stop", "close"}
        BY <3>2 DEF Home
      <4>2. ClosesUnused(v)
        BY <2>0 DEF Spared
      <4>3. Home(v) \in Slot /\ ~Holds(t, Home(v))
        BY <1>3, <3>2, <4>1 DEF Holds
      <4>4. v \notin User => Home(v) \in idle'
        BY <4>1, <4>2, <4>3 DEF ClosesUnused, Spares
      <4>5. v \in User => ~slot'[Home(v)].ready
        <5>. USE DEF Spares
        <5>1. v \in User => ~slot[Home(v)].ready
          BY <4>1, <4>2 DEF ClosesUnused
        <5>. QED  BY <4>3, <5>1
      <4>6. ASSUME NEW u \in live', Home(u)' = Home(v)  PROVE FALSE
        <5>1. u # t => u \in live /\ Home(u)' = Home(u)
          BY <1>0, <4>6, Tasks DEF Spares, Home, TypeOK
        <5>2. u = t
          BY <4>1, <4>2, <4>6, <5>1 DEF ClosesUnused
        <5>3. Home(t)' = h /\ Home(v) = h
          BY <2>0, <4>6, <5>2 DEF SparesLive, Home
        <5>4. CASE t \in live
          <6>1. Home(t) = h
            BY <2>0, <4>6, <5>2, <5>4 DEF SparesLive, Home
          <6>. QED  BY <4>1, <4>2, <5>3, <5>4, <6>1 DEF ClosesUnused
        <5>5. CASE t \notin live
          <6>1. At(t, "got") /\ Home(t) = h /\ lease[h] = "ready" /\ t \in User
            BY <1>0, <2>0, <4>6, <5>2, <5>5 DEF SparesLive, TypeOK
          <6>2. slot[h].loaded /\ slot[h].ready /\ h \notin idle
            BY <1>0, <2>0, <6>1 DEF LeaseFits, Spared
          <6>. QED  BY <4>1, <4>2, <5>3, <6>2 DEF ClosesUnused
        <5>. QED  BY <5>4, <5>5
      <4>. QED  BY <4>1, <4>4, <4>5, <4>6 DEF ClosesUnused
    <3>. QED  BY <3>1, <3>2 DEF ClosesUnused
  <2>5. cancelled' = {}
    BY <2>0 DEF SparesLive
  <2>. QED  BY <2>1, <2>2, <2>3, <2>4, <2>5 DEF Spared
<1>. QED  BY <1>1, <1>2, <1>5, <1>6 DEF LiveInv

LEMMA LiveFacts ==
    ASSUME LiveInv
    PROVE  /\ IInv /\ TypeOK /\ NoEviction /\ Reported /\ \A s \in Slot : LeaseFits(s)
           /\ task \in [Task -> Local] /\ lease \in [Slot -> LeaseState]
           /\ slot \in [Slot -> Loaded]
           /\ \A t \in Task : task[t] \in Local /\ task[t].cands = <<>>
           /\ ~Closing => Spared
  BY DEF LiveInv, IInv, TypeOK, NoEviction, IsEvictor

\* Where the lease is not ready, no Turn is active.
LEMMA NoneLive ==
    ASSUME LiveInv, ~Closing, NEW h \in Slot, lease[h] # "ready" \/ ~slot[h].loaded
    PROVE  \A u \in live : Home(u) # h
  BY DEF LiveInv, Spared, LiveWorkSpared

\* What happens away from the slot h.
OnlyAt(h) ==
    \A s \in Slot \ {h} : /\ slot'[s] = slot[s] /\ lease'[s] = lease[s]
                          /\ s \in idle' <=> s \in idle

\* A step of the holder of a lock, where no Turn is active afterwards.
LEMMA HolderSpares ==
    ASSUME LiveInv, IInv', NEW t \in Task, NEW h \in Slot, TaskMove(t), Holds(t, h),
           OnlyAt(h), h \in idle' => h \in idle, LeaseFits(h)',
           task'[t].cands = <<>>, task'[t].pc # "retire",
           task'[t].pc = "reportClose" => task'[t].home = h /\ lease'[h] # "ready",
           live' \subseteq live, phase' = phase,
           ~Closing =>
              /\ cancelled' = {} /\ t \notin live' /\ \A u \in live' : Home(u) # h
              /\ task'[t].pc = "got" => task'[t].home = h /\ h \notin idle'
              /\ task'[t].pc \in {"stop", "close"} =>
                    /\ task'[t].home = h
                    /\ t \notin User => h \in idle'
                    /\ t \in User => ~slot'[h].ready
    PROVE  LiveInv'
<1>0. /\ \A v \in Task \ {t} : task'[v] = task[v]
      /\ \A v \in Task \ {t} : Home(v)' = Home(v)
      /\ live \subseteq Task
  <2>1. live \subseteq Task
    BY LiveFacts, Tasks DEF TypeOK
  <2>. QED  BY <2>1 DEF TaskMove, Home
<1>1. Spares(t, h)
  BY DEF Spares, OnlyAt
<1>2. ASSUME ~Closing  PROVE SparesLive(t, h)
  <2>1. \A u \in live' : Home(u)' # h
    BY <1>0, <1>2
  <2>2. task'[t].pc \in {"stop", "close"} => task'[t].home = h /\ ClosesUnused(t)'
    BY <1>2, <2>1 DEF ClosesUnused, Home
  <2>. QED  BY <1>2, <2>1, <2>2 DEF SparesLive
<1>. QED  BY <1>0, <1>1, <1>2, SparesKeeps

\* A step that leaves the rows and the runtimes alone.
LEMMA QuietSpares ==
    ASSUME LiveInv, IInv', NEW t \in Task, NEW h \in Slot, TaskMove(t),
           OnlyAt(h), h \in idle' <=> h \in idle, lease'[h] = lease[h],
           /\ slot'[h].gen = slot[h].gen /\ slot'[h].loaded = slot[h].loaded
           /\ slot'[h].ready = slot[h].ready,
           task'[t].cands = <<>>,
           task'[t].pc \notin {"retire", "reportClose", "got", "stop", "close"},
           live' \subseteq live, phase' = phase,
           ~Closing =>
              /\ cancelled' = {}
              /\ t \in live' => /\ task'[t].pc \in {"work", "report"} /\ Home(t) = h
                                /\ task'[t].home = h /\ task'[t].gen = task[t].gen
    PROVE  LiveInv'
<1>0. /\ \A v \in Task \ {t} : task'[v] = task[v]
      /\ \A v \in Task \ {t} : Home(v)' = Home(v)
      /\ live \subseteq Task
  <2>1. live \subseteq Task
    BY LiveFacts, Tasks DEF TypeOK
  <2>. QED  BY <2>1 DEF TaskMove, Home
<1>1. Spares(t, h)
  <2>1. LeaseFits(h)
    BY DEF LiveInv
  <2>2. LeaseFits(h)'
    BY <2>1 DEF LeaseFits, Closing
  <2>. QED  BY <2>2 DEF Spares, OnlyAt
<1>2. ASSUME ~Closing  PROVE SparesLive(t, h)
  <2>1. ASSUME NEW u \in live', Home(u)' = h
        PROVE  /\ slot'[h].gen = task'[u].gen /\ slot'[h].loaded
               /\ lease'[h] = "ready"
    <3>1. u \in live /\ u \in Task /\ Home(u) = h /\ task'[u].gen = task[u].gen
      BY <1>0, <1>2, <2>1
    <3>2. slot[h].gen = task[u].gen /\ slot[h].loaded /\ lease[h] = "ready"
      BY <1>2, <3>1 DEF LiveInv, Spared, LiveWorkSpared
    <3>. QED  BY <3>1, <3>2
  <2>. QED  BY <1>2, <2>1 DEF SparesLive, Home
<1>. QED  BY <1>0, <1>1, <1>2, SparesKeeps

\* What a start finds in its slot: no runtime, and so no Turn and no row to claim by.
LEMMA StartsAlone ==
    ASSUME LiveInv, NEW u \in User, InStartup(u)
    PROVE  /\ u \in Task /\ Home(u) \in Slot /\ Holds(u, Home(u)) /\ ~slot[Home(u)].loaded
           /\ ~Closing => /\ lease[Home(u)] # "ready" /\ u \notin live
                          /\ \A v \in live : Home(v) # Home(u)
<1>1. IInv
  BY DEF LiveInv
<1>2. /\ u \in Task /\ Home(u) \in Slot /\ Holds(u, Home(u)) /\ ~slot[Home(u)].loaded
  BY <1>1, Starter
<1>3. ~Closing => lease[Home(u)] # "ready"
  BY <1>2, LiveFacts DEF LeaseFits
<1>4. ~Closing => \A v \in live : Home(v) # Home(u)
  BY <1>2, NoneLive
<1>. QED  BY <1>2, <1>3, <1>4

\* A step of a start that does not publish its runtime.
LEMMA StartSpares ==
    ASSUME LiveInv, IInv', NEW u \in User, InStartup(u), TaskMove(u),
           \A s \in Slot \ {Home(u)} : slot'[s] = slot[s] /\ lease'[s] = lease[s],
           slot'[Home(u)].loaded => lease'[Home(u)] # "ready",
           ~Closing => lease'[Home(u)] # "ready",
           idle' = idle, live' = live, phase' = phase, cancelled' = cancelled,
           task'[u].cands = <<>>,
           task'[u].pc \in {"reserve", "gate", "create", "boot", "mark", "cleanup", "off"}
    PROVE  LiveInv'
<1>. PICK h \in Slot : h = Home(u)
  BY StartsAlone
<1>1. u \in Task /\ Holds(u, h)
  BY StartsAlone
<1>2. LeaseFits(h)'
  BY DEF LeaseFits, Closing
<1>3. ~Closing => /\ cancelled' = {} /\ u \notin live' /\ \A v \in live' : Home(v) # h
  BY StartsAlone, LiveFacts DEF Spared
<1>. QED  BY <1>1, <1>2, <1>3, HolderSpares DEF OnlyAt

LEMMA ReserveSpares ==
    ASSUME LiveInv, IInv', Roomy, NEW u \in User, TaskMove(u), Reserve(u)
    PROVE  LiveInv'
<1>0. At(u, "reserve") /\ InStartup(u) /\ TypeOK /\ task[u] \in Local /\ task \in [Task -> Local]
      /\ IInv
  BY LiveFacts, Tasks DEF Reserve, At, InStartup, StartupPc
<1>. PICK h \in Slot : h = Home(u)
  BY <1>0, StartsAlone
<1>1. ~slot[h].reserved
  BY <1>0, StartsAlone, HeldIsEmpty DEF Booting, At
<1>2. InUse < MaxActive
  <2>1. IsFiniteSet(Slot) /\ Reserved \subseteq Slot \ {h} /\ IsFiniteSet(Slot \ {h})
    BY <1>1, ConstantsAssumption, FS_Subset DEF Reserved
  <2>2. Cardinality(Slot \ {h}) = Cardinality(Slot) - 1
    BY <2>1, FS_RemoveElement
  <2>3. Cardinality(Reserved) <= Cardinality(Slot \ {h})
    BY <2>1, FS_Subset
  <2>4. /\ Cardinality(Reserved) \in Nat /\ Cardinality(Slot) \in Nat
        /\ Cardinality(Slot \ {h}) \in Nat
    BY <2>1, FS_Subset, FS_CardinalityType
  <2>5. InUse = Cardinality(Reserved)
    BY DEF InUse, Reserved
  <2>. QED  BY <2>2, <2>3, <2>4, <2>5, ConstantsAssumption DEF Roomy
<1>3. task'[u].pc = "gate" /\ task'[u].cands = <<>>
  <2>1. NextCandidate(u, <<>>)
    BY <1>2 DEF Reserve
  <2>2. {i \in DOMAIN <<>> : Candidate(u, <<>>[i])} = {}
    OBVIOUS
  <2>3. task' = [task EXCEPT ![u].pc = "gate", ![u].cands = <<>>]
    BY <2>1, <2>2 DEF NextCandidate
  <2>4. task' = [task EXCEPT ![u] = [@ EXCEPT !.pc = "gate", !.cands = <<>>]]
    BY <1>0, <2>3 DEF Local
  <2>. QED  BY <1>0, <2>4, Tasks DEF Local
<1>4. slot' = slot /\ lease' = lease /\ idle' = idle /\ live' = live /\ phase' = phase
      /\ cancelled' = cancelled
  BY DEF Reserve, memory, outside, control
<1>. QED  BY <1>0, <1>3, <1>4, StartsAlone, StartSpares

LEMMA BootSpares ==
    ASSUME LiveInv, IInv', NEW u \in User, TaskMove(u),
           \/ PassGate(u) \/ StartAborted(u) \/ Create(u) \/ Booted(u) \/ BootFails(u)
           \/ StartCancelled(u) \/ Cleanup(u) \/ CleanupFails(u)
    PROVE  LiveInv'
<1>0. /\ InStartup(u) /\ TypeOK /\ u \in Task /\ task[u] \in Local /\ task[u].cands = <<>>
      /\ task \in [Task -> Local] /\ slot \in [Slot -> Loaded]
      /\ lease \in [Slot -> LeaseState] /\ Rest(u) = "off"
  <2>1. /\ u \in Task /\ Rest(u) = "off" /\ ~At(u, "evict")
    BY LiveFacts, Tasks DEF Rest, IInv, Locked, Shape, IsEvictor
  <2>2. InStartup(u)
    BY <2>1 DEF PassGate, StartAborted, Abortable, Create, Booted, BootFails, StartCancelled,
                Cleanup, CleanupFails, At, InStartup, StartupPc
  <2>. QED  BY <2>1, <2>2, LiveFacts
<1>. PICK h \in Slot : h = Home(u)
  BY <1>0, StartsAlone
<1>1. ~slot[h].loaded /\ Holds(u, h) /\ (~Closing => lease[h] # "ready")
  BY <1>0, StartsAlone
<1>2. idle' = idle /\ live' = live /\ phase' = phase /\ cancelled' = cancelled
  BY DEF PassGate, StartAborted, Create, Booted, BootFails, StartCancelled, Cleanup,
         CleanupFails, memory, outside, control
<1>3. CASE PassGate(u)
  <2>1. task'[u].pc = "create" /\ task'[u].cands = <<>>
    BY <1>0, <1>3 DEF PassGate, Goto, Local
  <2>2. lease' = lease /\ slot' = [slot EXCEPT ![h].reserved = TRUE]
    BY <1>3 DEF PassGate, outside
  <2>3. slot' = [slot EXCEPT ![h] = [@ EXCEPT !.reserved = TRUE]]
    BY <1>0, <2>2 DEF Loaded
  <2>4. /\ \A s \in Slot \ {h} : slot'[s] = slot[s] /\ lease'[s] = lease[s]
        /\ ~slot'[h].loaded
    BY <1>0, <1>1, <2>2, <2>3 DEF Loaded
  <2>. QED  BY <1>0, <1>1, <1>2, <2>1, <2>2, <2>4, StartSpares
<1>4. CASE StartAborted(u)
  <2>1. task'[u].pc = "off" /\ task'[u].cands = <<>>
    <3>1. task' = [task EXCEPT ![u] = [@ EXCEPT !.pc = "off", !.cands = <<>>]]
      BY <1>0, <1>4 DEF StartAborted, Local
    <3>. QED  BY <1>0, <3>1 DEF Local
  <2>2. lease' = lease /\ Unload(h, TRUE)
    BY <1>4 DEF StartAborted, outside
  <2>3. ~slot'[h].loaded /\ \A s \in Slot \ {h} : slot'[s] = slot[s]
    BY <1>0, <2>2, Unloads
  <2>. QED  BY <1>0, <1>1, <1>2, <2>1, <2>2, <2>3, StartSpares
<1>5. CASE Create(u)
  <2>. PICK g : g = slot[h].gen + 1
    OBVIOUS
  <2>1. task'[u].pc = "boot" /\ task'[u].cands = <<>>
    <3>1. task' = [task EXCEPT ![u] = [@ EXCEPT !.pc = "boot", !.gen = g]]
      BY <1>0, <1>5 DEF Create, Local
    <3>. QED  BY <1>0, <3>1 DEF Local
  <2>2. lease' = [lease EXCEPT ![h] = "starting"] /\ slot' = [slot EXCEPT ![h].gen = g]
    BY <1>5 DEF Create
  <2>3. \A s \in Slot \ {h} : slot'[s] = slot[s] /\ lease'[s] = lease[s]
    BY <1>0, <2>2
  <2>. QED  BY <1>0, <1>1, <1>2, <2>1, <2>2, <2>3, StartSpares
<1>6. CASE Booted(u) \/ BootFails(u) \/ StartCancelled(u)
  <2>1. task'[u].pc \in {"mark", "cleanup"} /\ task'[u].cands = <<>>
    BY <1>0, <1>6 DEF Booted, BootFails, StartCancelled, Goto, Local
  <2>2. slot' = slot /\ \A s \in Slot \ {h} : lease'[s] = lease[s]
    BY <1>0, <1>6 DEF Booted, BootFails, StartCancelled, memory, outside
  <2>3. ~Closing => lease' = lease
    BY <1>6, LiveFacts DEF Booted, BootFails, StartCancelled, outside, Spared
  <2>. QED  BY <1>0, <1>1, <1>2, <2>1, <2>2, <2>3, StartSpares
<1>7. CASE Cleanup(u)
  <2>1. task'[u].pc = "off" /\ task'[u].cands = <<>>
    BY <1>0, <1>7 DEF Cleanup, Leave, Goto, Local
  <2>2. FailedStart(h) /\ Unload(h, TRUE)
    BY <1>7 DEF Cleanup
  <2>3. ~slot'[h].loaded /\ \A s \in Slot \ {h} : slot'[s] = slot[s]
    BY <1>0, <2>2, Unloads
  <2>4. /\ lease[h] # "ready" => lease'[h] # "ready"
        /\ \A s \in Slot \ {h} : lease'[s] = lease[s]
    BY <1>0, <2>2 DEF FailedStart
  <2>. QED  BY <1>0, <1>1, <1>2, <2>1, <2>3, <2>4, StartSpares
<1>8. CASE CleanupFails(u)
  <2>1. task'[u].pc = "off" /\ task'[u].cands = <<>>
    BY <1>0, <1>8 DEF CleanupFails, Leave, Goto, Local
  <2>2. lease' = [lease EXCEPT ![h] = "failed"] /\ Keep(h)
    BY <1>8 DEF CleanupFails
  <2>3. \A s \in Slot \ {h} : slot'[s] = slot[s]
    BY <1>0, <2>2, KeepsSlot
  <2>4. lease'[h] # "ready" /\ \A s \in Slot \ {h} : lease'[s] = lease[s]
    BY <1>0, <2>2
  <2>. QED  BY <1>0, <1>1, <1>2, <2>1, <2>3, <2>4, StartSpares
<1>. QED  BY <1>3, <1>4, <1>5, <1>6, <1>7, <1>8

LEMMA MarkReadySpares ==
    ASSUME LiveInv, IInv', NEW u \in User, TaskMove(u), MarkReady(u)
    PROVE  LiveInv'
<1>0. /\ InStartup(u) /\ TypeOK /\ u \in Task /\ task[u] \in Local /\ task[u].cands = <<>>
      /\ task \in [Task -> Local] /\ slot \in [Slot -> Loaded]
      /\ lease \in [Slot -> LeaseState] /\ IInv
  BY LiveFacts, Tasks DEF MarkReady, At, InStartup, StartupPc
<1>. PICK h \in Slot : h = Home(u)
  BY <1>0, StartsAlone
<1>1. /\ Holds(u, h)
      /\ ~Closing => u \notin live /\ \A v \in live : Home(v) # h
  BY <1>0, StartsAlone
<1>2. /\ task'[u].pc \in {"stop", "got"} /\ task'[u].cands = <<>> /\ task'[u].home = h
      /\ ~Closing => task'[u].pc = "got"
  BY <1>0 DEF MarkReady, Goto, Home, Local
<1>3. /\ lease'[h] = "ready" /\ slot'[h].loaded /\ slot'[h].ready
      /\ \A s \in Slot \ {h} : slot'[s] = slot[s] /\ lease'[s] = lease[s]
  <2>1. slot[h] \in Loaded
    BY <1>0
  <2>2. slot' = [slot EXCEPT ![h] = [@ EXCEPT !.loaded = TRUE, !.ready = TRUE]]
    BY <1>0, <2>1 DEF MarkReady, Loaded
  <2>3. lease' = [lease EXCEPT ![h] = "ready"]
    BY DEF MarkReady
  <2>. QED  BY <1>0, <2>1, <2>2, <2>3 DEF Loaded
<1>4. idle' = idle \ {h} /\ live' = live /\ phase' = phase /\ cancelled' = cancelled
  BY DEF MarkReady, Touch, control
<1>5. LeaseFits(h)'
  BY <1>3 DEF LeaseFits
<1>6. ~Closing => cancelled' = {}
  BY <1>4, LiveFacts DEF Spared
<1>. QED  BY <1>0, <1>1, <1>2, <1>3, <1>4, <1>5, <1>6, HolderSpares DEF OnlyAt

LEMMA EnsureSpares ==
    ASSUME LiveInv, IInv', NEW u \in User, TaskMove(u),
           \/ EnsureLoaded(u) \/ EnsureLeftover(u) \/ EnsureEmpty(u) \/ EnsureRefused(u)
    PROVE  LiveInv'
<1>0. /\ At(u, "ensure") /\ TypeOK /\ u \in Task /\ task[u] \in Local /\ task[u].cands = <<>>
      /\ task \in [Task -> Local] /\ Rest(u) = "off" /\ IInv /\ HoldsTarget(u)
  BY LiveFacts, Tasks DEF EnsureLoaded, EnsureLeftover, EnsureEmpty, EnsureRefused, MayEnsure,
     Rest
<1>. PICK h \in Slot : h = Home(u)
  BY <1>0 DEF IInv, Locked, Shape, At
<1>1. /\ Holds(u, h)
      /\ ~Closing => u \notin live
  BY <1>0, LiveFacts DEF HoldsTarget, Target, Spared, At
<1>2. /\ slot' = slot /\ lease' = lease /\ live' = live /\ phase' = phase
      /\ cancelled' = cancelled /\ idle' \subseteq idle
      /\ \A s \in Slot \ {h} : s \in idle' <=> s \in idle
      /\ ~Closing => cancelled' = {}
  BY LiveFacts DEF EnsureLoaded, EnsureLeftover, EnsureEmpty, EnsureRefused, Touch,
     memory, outside, control, Spared
<1>3. LeaseFits(h) /\ LeaseFits(h)'
  BY <1>2, LiveFacts DEF LeaseFits, Closing
<1>4. CASE EnsureLoaded(u)
  <2>1. task'[u].pc = "got" /\ task'[u].cands = <<>> /\ task'[u].home = h /\ h \notin idle'
    <3>1. task' = [task EXCEPT ![u] = [@ EXCEPT !.pc = "got", !.gen = slot[h].gen]]
      BY <1>0, <1>4 DEF EnsureLoaded, Local
    <3>. QED  BY <1>0, <1>4, <3>1 DEF EnsureLoaded, Touch, Home, Local
  <2>2. Spares(u, h)
    BY <1>1, <1>2, <1>3, <2>1 DEF Spares
  <2>3. ASSUME ~Closing  PROVE SparesLive(u, h)
    <3>1. ASSUME NEW v \in live', Home(v)' = h
          PROVE  slot'[h].gen = task'[v].gen /\ slot'[h].loaded /\ lease'[h] = "ready"
      <4>1. v \in live /\ v \in Task /\ v # u /\ task'[v] = task[v] /\ Home(v) = h
        BY <1>0, <1>1, <1>2, <2>3, <3>1, Tasks DEF TypeOK, TaskMove, Home
      <4>. QED  BY <1>2, <2>3, <4>1, LiveFacts DEF Spared, LiveWorkSpared
    <3>. QED  BY <1>1, <1>2, <2>1, <2>3, <3>1 DEF SparesLive
  <2>. QED  BY <1>0, <2>2, <2>3, SparesKeeps DEF TaskMove
<1>5. CASE EnsureLeftover(u)
  <2>1. task'[u].pc = "stop" /\ task'[u].cands = <<>> /\ task'[u].home = h
    BY <1>0, <1>5 DEF EnsureLeftover, Goto, Home, Local
  <2>2. ~slot[h].ready /\ slot[h].loaded
    BY <1>5 DEF EnsureLeftover
  <2>3. ~Closing => \A v \in live' : Home(v) # h
    BY <1>2, <1>3, <2>2, NoneLive DEF LeaseFits
  <2>. QED  BY <1>0, <1>1, <1>2, <1>3, <2>1, <2>2, <2>3, HolderSpares DEF OnlyAt
<1>6. CASE EnsureEmpty(u) \/ EnsureRefused(u)
  <2>1. task'[u].pc \in {"reserve", "off"} /\ task'[u].cands = <<>>
    BY <1>0, <1>6 DEF EnsureEmpty, EnsureRefused, Leave, Goto, Local
  <2>2. idle' = idle
    BY <1>6 DEF EnsureEmpty, EnsureRefused, memory
  <2>. QED  BY <1>0, <1>1, <1>2, <2>1, <2>2, QuietSpares DEF OnlyAt
<1>. QED  BY <1>4, <1>5, <1>6

LEMMA CallSpares ==
    ASSUME LiveInv, IInv', NEW u \in User, NEW s \in Slot, TaskMove(u), EnsureCall(u, s)
    PROVE  LiveInv'
<1>0. /\ At(u, "off") /\ u \in Task /\ task[u] \in Local /\ task[u].cands = <<>>
      /\ task \in [Task -> Local]
  BY LiveFacts, Tasks DEF EnsureCall
<1>1. task'[u].pc = "ensure" /\ task'[u].cands = <<>>
  <2>1. task' = [task EXCEPT ![u] = [@ EXCEPT !.pc = "ensure", !.home = s, !.gen = NoGen]]
    BY DEF EnsureCall
  <2>2. [task[u] EXCEPT !.pc = "ensure", !.home = s, !.gen = NoGen].pc = "ensure"
        /\ [task[u] EXCEPT !.pc = "ensure", !.home = s, !.gen = NoGen].cands = <<>>
    BY <1>0 DEF Local
  <2>. QED  BY <1>0, <2>1, <2>2
<1>2. /\ slot' = slot /\ lease' = lease /\ live' = live /\ phase' = phase
      /\ idle' = idle
      /\ ~Closing => cancelled' = {} /\ u \notin live
  BY <1>0, LiveFacts DEF EnsureCall, memory, outside, Spared, At
<1>. QED  BY <1>0, <1>1, <1>2, QuietSpares DEF OnlyAt

LEMMA UseSpares ==
    ASSUME LiveInv, IInv', Roomy, NEW u \in User, TaskMove(u), UseStep(u)
    PROVE  LiveInv'
<1>0. /\ TypeOK /\ u \in Task /\ task[u] \in Local /\ task[u].cands = <<>>
      /\ task \in [Task -> Local] /\ IInv
  BY LiveFacts, Tasks
<1>1. ~UserRetires(u) /\ ~Retire(u)
  BY <1>0, LiveFacts DEF Roomy, UserRetires, Retire, NoEviction
<1>2. Home(u) \in Slot
  <2>1. ~At(u, "off")
    BY <1>1 DEF UseStep, Claim, ClaimFails, EndWork, UserReports, At
  <2>. QED  BY <1>0, <2>1 DEF IInv, Locked, Shape
<1>. PICK h \in Slot : h = Home(u)
  BY <1>2
<1>3. /\ slot' = slot /\ lease' = lease /\ idle' = idle /\ phase' = phase
      /\ ~Closing => cancelled' = {}
  BY <1>1, LiveFacts
     DEF UseStep, Claim, ClaimFails, EndWork, UserReports, memory, outside, control, Spared
<1>4. CASE Claim(u)
  <2>0. At(u, "got") /\ slot[h].gen = task[u].gen /\ lease[h] = "ready" /\ live' = live \cup {u}
    BY <1>4 DEF Claim
  <2>1. /\ task'[u].pc = "work" /\ task'[u].cands = <<>> /\ task'[u].home = h
        /\ task'[u].gen = task[u].gen
    BY <1>0, <1>4 DEF Claim, Goto, Home, Local
  <2>2. LeaseFits(h) /\ LeaseFits(h)'
    BY <1>3, LiveFacts DEF LeaseFits, Closing
  <2>3. Spares(u, h)
    BY <1>3, <2>0, <2>1, <2>2 DEF Spares
  <2>4. ASSUME ~Closing  PROVE SparesLive(u, h)
    <3>1. ASSUME NEW v \in live', Home(v)' = h
          PROVE  slot'[h].gen = task'[v].gen /\ slot'[h].loaded /\ lease'[h] = "ready"
      <4>1. CASE v = u
        BY <1>3, <2>0, <2>1, <2>2, <2>4, <4>1 DEF LeaseFits
      <4>2. CASE v # u
        <5>1. v \in live /\ v \in Task /\ task'[v] = task[v] /\ Home(v) = h
          BY <1>0, <2>0, <3>1, <4>2, Tasks DEF TypeOK, TaskMove, Home
        <5>. QED  BY <1>3, <2>4, <5>1, LiveFacts DEF Spared, LiveWorkSpared
      <4>. QED  BY <4>1, <4>2
    <3>. QED  BY <1>3, <2>0, <2>1, <2>4, <3>1 DEF SparesLive, Home
  <2>. QED  BY <1>0, <2>3, <2>4, SparesKeeps DEF TaskMove
<1>5. CASE ClaimFails(u) \/ EndWork(u) \/ UserReports(u)
  <2>1. /\ task'[u].pc \in {"off", "report"} /\ task'[u].cands = <<>> /\ task'[u].home = h
        /\ task'[u].gen = task[u].gen
    BY <1>0, <1>5 DEF ClaimFails, EndWork, UserReports, WaitFor, Goto, Home, Local
  <2>2. live' \subseteq live
    BY <1>5 DEF ClaimFails, EndWork, UserReports, outside
  <2>3. ~Closing /\ u \in live' => task'[u].pc = "report"
    <3>1. ~Closing => (At(u, "got") => u \notin live)
      BY LiveFacts DEF Spared, At
    <3>2. CASE ClaimFails(u)
      BY <2>2, <3>1, <3>2 DEF ClaimFails
    <3>3. CASE EndWork(u)
      BY <3>3 DEF EndWork
    <3>4. CASE UserReports(u)
      BY <1>0, <3>4 DEF UserReports, WaitFor, Goto, Local
    <3>. QED  BY <1>5, <3>2, <3>3, <3>4
  <2>. QED  BY <1>0, <1>3, <2>1, <2>2, <2>3, QuietSpares DEF OnlyAt
<1>. QED  BY <1>1, <1>4, <1>5 DEF UseStep

LEMMA ReportSpares ==
    ASSUME LiveInv, IInv', NEW t \in Task, TaskMove(t), ReportStep(t)
    PROVE  LiveInv'
<1>0. /\ task[t].pc \in {"report", "reportClose"}
      /\ TypeOK /\ task[t] \in Local /\ task[t].cands = <<>>
      /\ task \in [Task -> Local] /\ IInv /\ slot \in [Slot -> Loaded]
      /\ lease \in [Slot -> LeaseState]
  BY LiveFacts DEF ReportStep, StaleCall, Report, ReportCloses, ReportCloseFails, NoEviction, At
<1>. PICK h \in Slot : h = Home(t)
  BY <1>0, Reporter
<1>1. Target(t) = h /\ Rest(t) = "off" /\ LocksHeld(t)
  BY <1>0, Reporter
<1>2. phase' = phase /\ idle' = idle /\ (~Closing => cancelled' = {})
  BY LiveFacts DEF ReportStep, StaleCall, Report, ReportCloses, ReportCloseFails,
     memory, control, Spared
<1>3. CASE StaleCall(t)
  <2>1. /\ task'[t].pc = "off" /\ task'[t].cands = <<>>
    BY <1>0, <1>1, <1>3 DEF StaleCall, Leave, Goto, Local
  <2>2. slot' = slot /\ lease' = lease /\ live' = live
    BY <1>3 DEF StaleCall, memory, outside
  <2>3. ~Closing => t \notin live
    BY <1>3, LiveFacts DEF Spared, LiveWorkSpared, StaleCall, IsStale
  <2>. QED  BY <1>0, <1>2, <2>1, <2>2, <2>3, QuietSpares DEF OnlyAt
<1>4. CASE Report(t)
  <2>1. /\ task'[t].pc = "reportClose" /\ task'[t].cands = <<>> /\ task'[t].home = h
    BY <1>0, <1>4 DEF Report, Goto, Home, Local
  <2>2. /\ slot' = slot /\ lease' = [lease EXCEPT ![h] = "unhealthy"]
        /\ live' = live \ TurnsOf(t) /\ Holds(t, h) /\ slot[h].gen = task[t].gen
    BY <1>1, <1>4 DEF Report, memory, HoldsTarget, IsStale
  <2>3. lease'[h] = "unhealthy" /\ \A s \in Slot \ {h} : lease'[s] = lease[s]
    BY <1>0, <2>2
  <2>4. ~Closing => \A u \in live' : Home(u) # h
    BY <2>2, LiveFacts DEF Spared, LiveWorkSpared, TurnsOf
  <2>5. LeaseFits(h)'
    BY <2>3 DEF LeaseFits
  <2>. QED  BY <1>0, <1>2, <2>1, <2>2, <2>3, <2>4, <2>5, HolderSpares DEF OnlyAt
<1>5. CASE ReportCloses(t) \/ ReportCloseFails(t)
  <2>0. At(t, "reportClose") /\ Holds(t, h) /\ lease[h] # "ready"
    BY <1>1, <1>5, LiveFacts DEF ReportCloses, ReportCloseFails, LocksHeld, Owns, Reported
  <2>1. task'[t].pc = "off" /\ task'[t].cands = <<>>
    <3>1. Goto(t, "off")
      BY <1>1, <1>5 DEF ReportCloses, ReportCloseFails, Leave
    <3>. QED  BY <1>0, <3>1 DEF Goto, Local
  <2>2. live' = live
    BY <1>5 DEF ReportCloses, ReportCloseFails
  <2>3. ~Closing => t \notin live /\ \A u \in live' : Home(u) # h
    BY <2>0, <2>2, NoneLive, LiveFacts DEF Spared, At
  <2>4. /\ \A s \in Slot \ {h} : slot'[s] = slot[s] /\ lease'[s] = lease[s]
        /\ lease'[h] # "ready"
    <3>1. CASE ReportCloses(t)
      <4>1. Unload(h, TRUE) /\ lease' = lease
        BY <3>1 DEF ReportCloses
      <4>. QED  BY <1>0, <2>0, <4>1, Unloads
    <3>2. CASE ReportCloseFails(t)
      <4>1. Keep(h) /\ lease' = [lease EXCEPT ![h] = "failed"]
        BY <3>2 DEF ReportCloseFails
      <4>. QED  BY <1>0, <4>1, KeepsSlot
    <3>. QED  BY <1>5, <3>1, <3>2
  <2>5. LeaseFits(h)'
    BY <2>4 DEF LeaseFits
  <2>. QED  BY <1>0, <1>2, <2>0, <2>1, <2>2, <2>3, <2>4, <2>5, HolderSpares DEF OnlyAt
<1>. QED  BY <1>3, <1>4, <1>5 DEF ReportStep

LEMMA CloseSpares ==
    ASSUME LiveInv, IInv', NEW t \in Task, TaskMove(t), CloseStep(t)
    PROVE  LiveInv'
<1>0. /\ task[t].pc \in {"stop", "close"}
      /\ TypeOK /\ task[t] \in Local /\ task[t].cands = <<>>
      /\ task \in [Task -> Local] /\ IInv /\ slot \in [Slot -> Loaded]
      /\ lease \in [Slot -> LeaseState] /\ ~IsEvictor(t)
  BY LiveFacts DEF CloseStep, MarkStopping, Closed, CloseFails, Cancelled, At, NoEviction
<1>. PICK h \in Slot : h = Home(t)
  BY <1>0, CloseHolder
<1>1. Target(t) = h /\ Holds(t, h)
  BY <1>0, CloseHolder
<1>2. /\ phase' = phase /\ live' = live
      /\ ~Closing => /\ cancelled' = {} /\ t \notin live' /\ ClosesUnused(t)
                     /\ \A u \in live' : Home(u) # h
  <2>1. ~Closing => ClosesUnused(t) /\ \A u \in live : Home(u) # h
    BY <1>0, LiveFacts DEF Spared, ClosesUnused
  <2>. QED  BY <2>1, LiveFacts DEF CloseStep, MarkStopping, Closed, CloseFails, control, Spared
<1>3. CASE MarkStopping(t)
  <2>1. task'[t].pc = "close" /\ task'[t].cands = <<>> /\ task'[t].home = h
    BY <1>0, <1>3 DEF MarkStopping, Goto, Home, Local
  <2>2. /\ slot' = slot /\ idle' = idle /\ lease'[h] # "ready"
        /\ \A s \in Slot \ {h} : lease'[s] = lease[s]
    BY <1>0, <1>1, <1>3 DEF MarkStopping, memory
  <2>3. LeaseFits(h)'
    BY <2>2 DEF LeaseFits
  <2>4. ~Closing => /\ t \notin User => h \in idle'
                    /\ t \in User => ~slot'[h].ready
    BY <1>0, <1>2, <2>2 DEF ClosesUnused
  <2>. QED  BY <1>1, <1>2, <2>1, <2>2, <2>3, <2>4, HolderSpares DEF OnlyAt
<1>4. CASE Closed(t)
  <2>1. task'[t].pc \in {"reserve", "off", "done"} /\ task'[t].cands = <<>>
    <3>1. AfterClose(t)
      BY <1>4 DEF Closed
    <3>. QED  BY <1>0, <3>1 DEF AfterClose, Goto, Leave, Rest, Local
  <2>2. /\ Unload(h, FALSE) /\ idle' = idle \ {h} /\ lease' = [lease EXCEPT ![h] = "stopped"]
    BY <1>1, <1>4 DEF Closed
  <2>3. /\ \A s \in Slot \ {h} : slot'[s] = slot[s] /\ lease'[s] = lease[s]
        /\ lease'[h] # "ready"
    BY <1>0, <2>2, Unloads
  <2>4. LeaseFits(h)'
    BY <2>3 DEF LeaseFits
  <2>. QED  BY <1>1, <1>2, <2>1, <2>2, <2>3, <2>4, HolderSpares DEF OnlyAt
<1>5. CASE CloseFails(t)
  <2>1. task'[t].pc \in {"off", "done"} /\ task'[t].cands = <<>>
    <3>1. task' = [task EXCEPT ![t] = [@ EXCEPT !.cands = <<>>, !.pc = Rest(t)]]
      BY <1>0, <1>5 DEF CloseFails, Local
    <3>. QED  BY <1>0, <3>1 DEF Rest, Local
  <2>2. slot' = slot /\ idle' = idle
    BY <1>0, <1>5 DEF CloseFails
  <2>3. lease'[h] # "ready" /\ \A s \in Slot \ {h} : lease'[s] = lease[s]
    <3>1. ~Cancelled(t)
      BY <1>0 DEF Cancelled
    <3>2. \/ lease' = [lease EXCEPT ![h] = "failed"]
          \/ /\ lease' = lease
             /\ lease[h] = "unhealthy"
      BY <1>1, <1>5, <3>1 DEF CloseFails
    <3>. QED  BY <1>0, <3>2
  <2>4. LeaseFits(h)'
    BY <2>3 DEF LeaseFits
  <2>. QED  BY <1>1, <1>2, <2>1, <2>2, <2>3, <2>4, HolderSpares DEF OnlyAt
<1>. QED  BY <1>3, <1>4, <1>5 DEF CloseStep

LEMMA WatchSpares ==
    ASSUME LiveInv, IInv', NEW s \in Slot, NEW w, w = Watcher(s), TaskMove(w),
           \/ Arrive(s, w) \/ VisitEvicts(s, w) \/ VisitLeaves(s, w) \/ VisitProbes(s, w)
           \/ Probe(s, w) \/ Heartbeat(s, w)
    PROVE  LiveInv'
<1>0. /\ IInv /\ TypeOK /\ w \in Task /\ w \notin User /\ Home(w) = s /\ Rest(w) = "off"
      /\ task \in [Task -> Local] /\ task[w] \in Local /\ task[w].cands = <<>>
      /\ w \notin live
  <2>1. w \in Task /\ w \notin User /\ Home(w) = s /\ Rest(w) = "off" /\ TypeOK
    BY LiveFacts, WatcherIs
  <2>. QED  BY <2>1, LiveFacts DEF TypeOK
<1>1. /\ slot' = slot /\ idle' = idle /\ lease' = lease /\ live' = live /\ phase' = phase
      /\ cancelled' = cancelled
  BY DEF Arrive, VisitEvicts, VisitLeaves, VisitProbes, Probe, Heartbeat, memory, outside,
         control
<1>2. ~Closing => cancelled' = {}
  BY <1>1, LiveFacts DEF Spared
<1>3. CASE VisitEvicts(s, w)
  <2>1. task'[w].pc = "stop" /\ task'[w].home = s /\ task'[w].cands = <<>>
    BY <1>0, <1>3 DEF VisitEvicts, Goto, Home, Local
  <2>2. Holds(w, s) /\ s \in idle /\ ~HasLiveWork(s)
    BY <1>3 DEF VisitEvicts, Visits, Evictable
  <2>3. ~Closing => \A u \in live' : Home(u) # s
    BY <1>1, <2>2, LiveFacts DEF Spared, LiveWorkSpared, HasLiveWork
  <2>4. LeaseFits(s)'
    BY <1>1, LiveFacts DEF LeaseFits, Closing
  <2>. QED  BY <1>0, <1>1, <1>2, <2>1, <2>2, <2>3, <2>4, HolderSpares DEF OnlyAt
<1>4. CASE Arrive(s, w) \/ VisitLeaves(s, w) \/ VisitProbes(s, w) \/ Probe(s, w) \/ Heartbeat(s, w)
  <2>1. task'[w].pc \in {"off", "visit", "probe", "beat", "report"} /\ task'[w].cands = <<>>
    <3>1. CASE VisitProbes(s, w)
      <4>1. task' = [task EXCEPT ![w] = [@ EXCEPT !.pc = "probe", !.gen = slot[s].gen]]
        BY <1>0, <3>1 DEF VisitProbes, Local
      <4>. QED  BY <1>0, <4>1 DEF Local
    <3>2. CASE Arrive(s, w) \/ VisitLeaves(s, w) \/ Probe(s, w) \/ Heartbeat(s, w)
      <4>1. PICK pc \in {"off", "visit", "beat", "report"} : Goto(w, pc)
        BY <1>0, <3>2 DEF Arrive, VisitLeaves, Probe, Heartbeat, WaitFor, Leave
      <4>. QED  BY <1>0, <4>1 DEF Goto, Local
    <3>. QED  BY <1>4, <3>1, <3>2
  <2>. QED  BY <1>0, <1>1, <1>2, <2>1, QuietSpares DEF OnlyAt
<1>. QED  BY <1>3, <1>4

\* Once the supervisor closes, only the row and the memory have to agree.
LEMMA ClosingSpares ==
    ASSUME LiveInv, IInv', NEW t \in Task, NEW h \in Slot, TaskMove(t), Closing,
           OnlyAt(h), h \in idle' <=> h \in idle, LeaseFits(h)',
           lease'[h] = "ready" => lease[h] = "ready",
           slot'[h].ready => slot[h].ready,
           task'[t].cands = <<>>, task'[t].pc \notin {"retire", "reportClose"},
           live' \subseteq live, phase' = phase
    PROVE  LiveInv'
<1>1. Spares(t, h)
  BY DEF Spares, OnlyAt
<1>. QED  BY <1>1, SparesKeeps DEF TaskMove

LEMMA CancelledSpares ==
    ASSUME LiveInv, IInv', NEW s \in Slot, TaskMove(Watcher(s)), WatcherCancelled(s)
    PROVE  LiveInv'
<1>. PICK w : w = Watcher(s)
  OBVIOUS
<1>0. /\ IInv /\ TypeOK /\ w \in Task /\ Home(w) = s /\ Rest(w) = "off"
      /\ task \in [Task -> Local] /\ task[w] \in Local /\ task[w].cands = <<>>
      /\ slot \in [Slot -> Loaded] /\ lease \in [Slot -> LeaseState]
  <2>1. w \in Task /\ Home(w) = s /\ Rest(w) = "off"
    BY LiveFacts, WatcherIs
  <2>. QED  BY <2>1, LiveFacts
<1>1. /\ Closing /\ phase' = phase /\ idle' = idle /\ live' \subseteq live
      /\ task[w].pc = "reportClose" => lease[s] # "ready"
  BY <1>0, LiveFacts DEF WatcherCancelled, control, Reported, At
<1>2. task'[w].pc = "off" /\ task'[w].cands = <<>>
  BY <1>0 DEF WatcherCancelled, Leave, Goto, Local
<1>3. PICK l \in {"ready", "stopping", "unhealthy", "failed", lease[s]} :
            /\ lease' = [lease EXCEPT ![s] = l]
            /\ l = "ready" => lease[s] = "ready" /\ task[w].pc # "reportClose"
  <2>1. CASE \E l \in CutShort(s, task[w].pc) : lease' = [lease EXCEPT ![s] = l]
    BY <1>1, <2>1 DEF CutShort
  <2>2. CASE lease' = [lease EXCEPT ![s] = "unhealthy"]
    BY <2>2
  <2>. QED  BY <2>1, <2>2 DEF WatcherCancelled
<1>4. /\ lease'[s] = l /\ \A r \in Slot \ {s} : lease'[r] = lease[r]
  BY <1>0, <1>3
<1>5. /\ \A r \in Slot \ {s} : slot'[r] = slot[r]
      /\ slot'[s].ready => slot[s].ready
      /\ slot'[s].loaded = slot[s].loaded
      /\ task[w].pc # "reportClose" => slot' = slot
  <2>1. CASE task[w].pc = "reportClose"
    <3>1. slot' = [slot EXCEPT ![s].ready = FALSE, ![s].backoff = TRUE]
      BY <2>1 DEF WatcherCancelled
    <3>2. slot' = [slot EXCEPT ![s] = [@ EXCEPT !.ready = FALSE, !.backoff = TRUE]]
      BY <1>0, <3>1 DEF Loaded
    <3>. QED  BY <1>0, <2>1, <3>2 DEF Loaded
  <2>2. CASE task[w].pc # "reportClose"
    BY <2>2 DEF WatcherCancelled
  <2>. QED  BY <2>1, <2>2
<1>6. LeaseFits(s)'
  BY <1>1, <1>3, <1>4, <1>5, LiveFacts DEF LeaseFits, Closing
<1>. QED  BY <1>0, <1>1, <1>2, <1>3, <1>4, <1>5, <1>6, ClosingSpares DEF OnlyAt

LEMMA CloserSpares ==
    ASSUME LiveInv, IInv', NEW s \in Slot, TaskMove(Closer(s)),
           CloserVisits(s) \/ CloserGivesUp(s)
    PROVE  LiveInv'
<1>. PICK c : c = Closer(s)
  OBVIOUS
<1>0. /\ IInv /\ TypeOK /\ c \in Task /\ Rest(c) = "done"
      /\ task \in [Task -> Local] /\ task[c] \in Local /\ task[c].cands = <<>>
      /\ slot \in [Slot -> Loaded] /\ lease \in [Slot -> LeaseState]
  <2>1. c \in Task /\ Rest(c) = "done"
    BY LiveFacts, CloserIs
  <2>. QED  BY <2>1, LiveFacts
<1>1. Closing
  BY <1>0 DEF CloserVisits, CloserGivesUp, At, IInv, Draining, Closing
<1>2. phase' = phase /\ idle' = idle /\ live' = live
  BY DEF CloserVisits, CloserGivesUp, outside, control, memory
<1>3. task'[c].pc \in {"stop", "done"} /\ task'[c].cands = <<>>
  <2>1. PICK pc \in {"stop", "done"} : Goto(c, pc)
    BY <1>0 DEF CloserVisits, CloserGivesUp, Leave
  <2>. QED  BY <1>0, <2>1 DEF Goto, Local
<1>4. CASE CloserVisits(s)
  <2>1. lease' = lease
    BY <1>4 DEF CloserVisits, outside
  <2>2. CASE slot' = slot
    <3>1. LeaseFits(s)'
      BY <1>1, <1>2, <2>1, <2>2, LiveFacts DEF LeaseFits, Closing
    <3>. QED  BY <1>0, <1>1, <1>2, <1>3, <2>1, <2>2, <3>1, ClosingSpares DEF OnlyAt
  <2>3. CASE Unload(s, FALSE)
    <3>1. \A r \in Slot \ {s} : slot'[r] = slot[r]
      BY <1>0, <2>3, Unloads
    <3>2. ~slot'[s].loaded /\ ~slot'[s].ready
      <4>1. slot'[s].ready = FALSE
        BY <1>0, <2>3 DEF Unload, Loaded
      <4>. QED  BY <1>0, <2>3, <4>1, Unloads
    <3>3. LeaseFits(s)'
      BY <1>1, <1>2, <3>2 DEF LeaseFits, Closing
    <3>. QED  BY <1>0, <1>1, <1>2, <1>3, <2>1, <3>1, <3>2, <3>3, ClosingSpares DEF OnlyAt
  <2>. QED  BY <1>4, <2>2, <2>3 DEF CloserVisits
<1>5. CASE CloserGivesUp(s)
  <2>1. /\ slot' = slot
        /\ lease' = [lease EXCEPT ![s] = IF slot[s].ready THEN "failed" ELSE @]
    BY <1>5 DEF CloserGivesUp, memory
  <2>2. /\ \A r \in Slot \ {s} : lease'[r] = lease[r]
        /\ lease'[s] \in {"failed", lease[s]}
    BY <1>0, <2>1
  <2>3. LeaseFits(s)'
    BY <1>1, <1>2, <2>1, <2>2, LiveFacts DEF LeaseFits, Closing
  <2>. QED  BY <1>0, <1>1, <1>2, <1>3, <2>1, <2>2, <2>3, ClosingSpares DEF OnlyAt
<1>. QED  BY <1>4, <1>5

\* What is no step of a task leaves the Turns their runtimes.
LEMMA RestSpares ==
    ASSUME LiveInv, IInv',
           \A t \in Task : \/ task'[t] = task[t]
                           \/ /\ t \notin User /\ task'[t].cands = <<>>
                              /\ task'[t].pc \notin {"retire", "reportClose", "stop", "close"},
           \A s \in Slot : /\ slot'[s].gen = slot[s].gen /\ slot'[s].loaded = slot[s].loaded
                           /\ slot'[s].ready = slot[s].ready,
           lease' = lease, live' = live,
           ~Closing' => ~Closing /\ cancelled' = cancelled,
           idle \subseteq idle',
           \A u \in User : At(u, "got") /\ Home(u) \in idle' => Home(u) \in idle
    PROVE  LiveInv'
<1>0. /\ TypeOK /\ NoEviction /\ Reported /\ \A s \in Slot : LeaseFits(s)
      /\ User \subseteq Task /\ live \subseteq User
  BY LiveFacts, Tasks DEF TypeOK
<1>1. \A u \in User : task'[u] = task[u] /\ Home(u)' = Home(u)
  BY <1>0 DEF Home
<1>2. NoEviction' /\ Reported'
  BY <1>0 DEF NoEviction, Reported, IsEvictor, At, Home
<1>3. \A s \in Slot : LeaseFits(s)'
  BY <1>0 DEF LeaseFits
<1>4. ASSUME ~Closing'  PROVE Spared'
  <2>0. Spared
    BY <1>4 DEF LiveInv
  <2>1. ASSUME NEW u \in live'
        PROVE  /\ slot'[Home(u)'].gen = task'[u].gen /\ slot'[Home(u)'].loaded
               /\ lease'[Home(u)'] = "ready" /\ task'[u].pc \in {"work", "report"}
    <3>1. /\ slot[Home(u)].gen = task[u].gen /\ slot[Home(u)].loaded
          /\ lease[Home(u)] = "ready" /\ task[u].pc \in {"work", "report"}
      BY <1>4, <2>0, <2>1 DEF Spared, LiveWorkSpared
    <3>2. u \in User /\ Home(u) \in Slot
      BY <1>0, <2>1, <3>1 DEF LiveInv, IInv, Locked, Shape, At
    <3>. QED  BY <1>1, <3>1, <3>2
  <2>2. LiveWorkSpared' /\ cancelled' = {}
    BY <1>4, <2>0, <2>1 DEF LiveWorkSpared, Spared
  <2>3. \A u \in User : At(u, "got")' => Home(u)' \notin idle'
    BY <1>1, <2>0 DEF Spared, At
  <2>4. ASSUME NEW t \in Task  PROVE ClosesUnused(t)'
    <3>1. CASE task'[t] = task[t] /\ task[t].pc \in {"stop", "close"}
      <4>1. Home(t)' = Home(t) /\ Home(t) \in Slot
        BY <3>1, CloseHolder DEF Home, LiveInv
      <4>2. ClosesUnused(t)
        BY <2>0 DEF Spared
      <4>3. \A u \in live' : Home(u)' # Home(t)'
        BY <1>0, <1>1, <3>1, <4>1, <4>2 DEF ClosesUnused
      <4>4. t \notin User => Home(t)' \in idle'
        BY <3>1, <4>1, <4>2 DEF ClosesUnused
      <4>5. t \in User => ~slot'[Home(t)'].ready
        BY <3>1, <4>1, <4>2 DEF ClosesUnused
      <4>. QED  BY <4>3, <4>4, <4>5 DEF ClosesUnused
    <3>2. CASE task'[t].pc \notin {"stop", "close"}
      BY <3>2 DEF ClosesUnused
    <3>. QED  BY <3>1, <3>2
  <2>. QED  BY <2>1, <2>2, <2>3, <2>4 DEF Spared
<1>. QED  BY <1>2, <1>3, <1>4 DEF LiveInv

LEMMA OtherStepsSpare ==
    ASSUME LiveInv, IInv',
           \/ UNCHANGED vars
           \/ \E s \in Slot : RuntimeDies(s) \/ TtlPasses(s) \/ BackoffEnds(s)
           \/ StartPass \/ EndPass \/ CloseBegin \/ CloseSlots \/ CloseEnd
    PROVE  LiveInv'
<1>0. /\ IInv /\ TypeOK /\ slot \in [Slot -> Loaded] /\ task \in [Task -> Local]
      /\ \A t \in Task : task[t] \in Local /\ task[t].cands = <<>>
  BY LiveFacts
<1>1. lease' = lease /\ live' = live
  BY DEF RuntimeDies, TtlPasses, BackoffEnds, StartPass, EndPass, CloseBegin, CloseSlots,
         CloseEnd, outside, vars
<1>2. \A s \in Slot : /\ slot'[s].gen = slot[s].gen /\ slot'[s].loaded = slot[s].loaded
                      /\ slot'[s].ready = slot[s].ready
  <2>1. slot' = slot \/ \E s \in Slot : slot' = [slot EXCEPT ![s].backoff = FALSE]
    BY DEF RuntimeDies, TtlPasses, BackoffEnds, StartPass, EndPass, CloseBegin, CloseSlots,
           CloseEnd, memory, vars
  <2>2. ASSUME NEW r \in Slot, slot' = [slot EXCEPT ![r].backoff = FALSE]
        PROVE  \A s \in Slot : /\ slot'[s].gen = slot[s].gen /\ slot'[s].loaded = slot[s].loaded
                               /\ slot'[s].ready = slot[s].ready
    <3>1. slot' = [slot EXCEPT ![r] = [@ EXCEPT !.backoff = FALSE]]
      BY <1>0, <2>2 DEF Loaded
    <3>. QED  BY <1>0, <3>1 DEF Loaded
  <2>. QED  BY <2>1, <2>2
<1>3. ~Closing' => ~Closing /\ cancelled' = cancelled
  BY DEF RuntimeDies, TtlPasses, BackoffEnds, StartPass, EndPass, CloseBegin, CloseSlots,
         CloseEnd, control, vars, Closing
<1>4. ASSUME NEW t \in Task
      PROVE  \/ task'[t] = task[t]
             \/ /\ t \notin User /\ task'[t].cands = <<>>
                /\ task'[t].pc \notin {"retire", "reportClose", "stop", "close"}
  <2>1. CASE StartPass
    <3>1. IsWatcher(t) => t \notin User
      BY Tasks DEF IsWatcher
    <3>2. task'[t] = task[t] \/ (IsWatcher(t) /\ task'[t] = [task[t] EXCEPT !.pc = "scheduled"])
      BY <2>1 DEF StartPass
    <3>. QED  BY <1>0, <3>1, <3>2 DEF Local
  <2>2. CASE CloseSlots
    <3>1. t \in {Closer(s) : s \in Slot} => t \notin User
      BY Tasks
    <3>2. \/ task'[t] = task[t]
          \/ /\ t \in {Closer(s) : s \in Slot}
             /\ task'[t] = [task[t] EXCEPT !.pc = "visit"]
      BY <2>2 DEF CloseSlots
    <3>. QED  BY <1>0, <3>1, <3>2 DEF Local
  <2>3. CASE \/ UNCHANGED vars
             \/ \E s \in Slot : RuntimeDies(s) \/ TtlPasses(s) \/ BackoffEnds(s)
             \/ EndPass \/ CloseBegin \/ CloseEnd
    BY <2>3 DEF RuntimeDies, TtlPasses, BackoffEnds, EndPass, CloseBegin, CloseEnd, vars
  <2>. QED  BY <2>1, <2>2, <2>3
<1>5. /\ idle \subseteq idle'
      /\ \A u \in User : At(u, "got") /\ Home(u) \in idle' => Home(u) \in idle
  <2>1. CASE idle' = idle
    BY <2>1
  <2>2. CASE \E s \in Slot : TtlPasses(s)
    BY <2>2 DEF TtlPasses
  <2>. QED  BY <2>1, <2>2
            DEF RuntimeDies, BackoffEnds, StartPass, EndPass, CloseBegin, CloseSlots,
                CloseEnd, memory, vars
<1>. QED  BY <1>1, <1>2, <1>3, <1>4, <1>5, RestSpares

LEMMA InitSpares ==
    ASSUME Init
    PROVE  LiveInv
<1>1. IInv
  BY InitHolds
<1>2. \A t \in Task : task[t].pc = "off" /\ task[t].cands = <<>>
  BY DEF Init
<1>3. NoEviction /\ Reported
  BY <1>2 DEF NoEviction, Reported, IsEvictor, At
<1>4. \A s \in Slot : LeaseFits(s)
  BY DEF Init, LeaseFits
<1>5. Spared
  <2>1. User \subseteq Task
    BY Tasks
  <2>. QED  BY <1>2, <2>1 DEF Init, Spared, LiveWorkSpared, ClosesUnused, At
<1>. QED  BY <1>1, <1>3, <1>4, <1>5 DEF LiveInv

LEMMA NextSpares ==
    ASSUME LiveInv, Roomy, [Next]_vars
    PROVE  LiveInv'
<1>0. IInv /\ IInv'
  BY NextKeeps DEF LiveInv
<1>1. ASSUME NEW u \in User, UserMoves(u) \/ UserCalls(u)  PROVE LiveInv'
  <2>1. sync' \subseteq User /\ u \in Task
    BY <1>1, Tasks DEF UserMoves, UserCalls, Suspends
  <2>2. ASSUME NEW s \in Slot, EnsureCall(u, s)  PROVE LiveInv'
    <3>1. TaskMove(u)
      BY <1>0, <2>1, <2>2, EnsureCalls
    <3>. QED  BY <1>0, <2>2, <3>1, CallSpares
  <2>3. CASE StartStep(u)
    <3>0. ~EvictSkips(u) /\ ~Evict(u)
      <4>1. ~At(u, "evict")
        BY <1>0, <2>1, LiveFacts DEF IInv, Locked, Shape, NoEviction
      <4>. QED  BY <4>1 DEF EvictSkips, Evict
    <3>1. TaskMove(u)
      BY <1>0, <2>1, <2>3, EnsureMoves, ReserveMoves, EvictMoves, PassGateMoves,
         StartAbortedMoves, CreateMoves, BootMoves, MarkReadyMoves, CleanupMoves DEF StartStep
    <3>. QED  BY <1>0, <2>3, <3>0, <3>1, EnsureSpares, ReserveSpares, BootSpares,
                 MarkReadySpares DEF StartStep
  <2>4. CASE UseStep(u)
    <3>1. TaskMove(u)
      BY <1>0, <2>1, <2>4, UseMoves, RetireMoves DEF UseStep
    <3>. QED  BY <1>0, <2>4, <3>1, UseSpares
  <2>5. CASE CloseStep(u)
    <3>1. TaskMove(u)
      BY <1>0, <2>1, <2>5, MarkStoppingMoves, ClosedMoves, CloseFailsMoves DEF CloseStep
    <3>. QED  BY <1>0, <2>1, <2>5, <3>1, CloseSpares
  <2>6. CASE ReportStep(u)
    <3>1. TaskMove(u)
      BY <1>0, <2>1, <2>6, StaleMoves, ReportMoves, ReportCloseMoves DEF ReportStep
    <3>. QED  BY <1>0, <2>1, <2>6, <3>1, ReportSpares
  <2>. QED  BY <1>1, <2>2, <2>3, <2>4, <2>5, <2>6 DEF UserMoves, UserCalls, UserStep
<1>2. ASSUME Yielded, NEW s \in Slot, WatchStep(s) \/ ShutStep(s)  PROVE LiveInv'
  <2>1. sync' \subseteq User
    BY <1>0, <1>2 DEF Yielded, IInv, TypeOK
  <2>. PICK w \in Task : w = Watcher(s)
    BY Tasks
  <2>. PICK c \in Task : c = Closer(s)
    BY Tasks
  <2>2. CASE WatcherCancelled(s)
    <3>1. TaskMove(w)
      BY <1>0, <2>1, <2>2, WatcherCancelledMoves
    <3>. QED  BY <1>0, <2>2, <3>1, CancelledSpares
  <2>3. CASE WatcherStep(s)
    <3>1. TaskMove(w)
      BY <1>0, <2>1, <2>3, WatcherMoves DEF WatcherStep
    <3>. QED  BY <1>0, <2>3, <3>1, WatchSpares DEF WatcherStep
  <2>4. CASE CloserVisits(s) \/ CloserGivesUp(s)
    <3>1. TaskMove(c)
      BY <1>0, <2>1, <2>4, CloserMoves
    <3>. QED  BY <1>0, <2>4, <3>1, CloserSpares
  <2>5. ASSUME NEW t \in Task, CloseStep(t)  PROVE LiveInv'
    <3>1. TaskMove(t)
      BY <1>0, <2>1, <2>5, MarkStoppingMoves, ClosedMoves, CloseFailsMoves DEF CloseStep
    <3>. QED  BY <1>0, <2>5, <3>1, CloseSpares
  <2>6. CASE ReportStep(w)
    <3>1. TaskMove(w)
      BY <1>0, <2>1, <2>6, StaleMoves, ReportMoves, ReportCloseMoves DEF ReportStep
    <3>. QED  BY <1>0, <2>6, <3>1, ReportSpares
  <2>. QED  BY <1>2, <2>2, <2>3, <2>4, <2>5, <2>6 DEF WatchStep, ShutStep
<1>. QED  BY <1>0, <1>1, <1>2, OtherStepsSpare DEF Next

\* Where max_active_runtimes covers every Project and no recovery retires a runtime,
\* an active Turn keeps its runtime until it ends or is reported: the watchdog closes
\* a slot only when it is past the TTL, and whoever got the runtime claims before
\* that.  An eviction for capacity has no such guarantee: see the README.
THEOREM LiveWorkIsSpared ==
    ASSUME Cardinality(Slot) <= MaxActive, "retire" \notin Env
    PROVE  Spec => []LiveWorkSpared
<1>1. Init => LiveInv
  BY InitSpares
<1>2. LiveInv /\ [Next]_vars => LiveInv'
  BY NextSpares DEF Roomy
<1>3. LiveInv => LiveWorkSpared
  BY DEF LiveInv, LiveWorkSpared, Spared
<1>. QED  BY <1>1, <1>2, <1>3, PTL DEF Spec
=============================================================================
