---------------------------- MODULE Intake_proofs ----------------------------
(***************************************************************************)
(* That a scan of the history and the live events leave no message out,    *)
(* for every number of messages and every size of a page.                  *)
(*                                                                         *)
(* The checkpoint alone is not inductive: it comes to a message by what    *)
(* the scan has put behind its cursor (Passed), which in turn holds only   *)
(* because a page that leaves a message out is full of earlier ones        *)
(* (FirstPage), so that what is beyond the cursor is still in the page, or *)
(* behind a full one, or deleted (Left). A message between the cursor and  *)
(* its claim is in the hands of the handler (Claimed), which works for the *)
(* scan only while the scan goes over a page (OneHandler).                 *)
(***************************************************************************)
EXTENDS Intake, FiniteSetTheorems, WellFoundedInduction, TLAPS

\* A message that has an event was posted.
Came == \A m \in Msg : event[m] # "none" => m <= posted

\* A checkpoint that was never written has no scan.
Opened == ckpt.st = "none" => ~ckpt.open

\* The scan has given the message to its handler, which has not claimed it yet.
Claimed(n) ==
    LET h == task["handler"]
    IN  h.by = "scan" /\ h.pc = "claim" /\ h.m = n

\* Up to its cursor the scan has dealt with every message; what comes after it is
\* in the page, behind a full page, or deleted.
Passed == \A n \in Msg : ckpt.base < n /\ n <= scan.cur => Dealt(n) \/ Claimed(n)
Left(n) ==
    \/ n \in scan.page \/ world[n] = "gone"
    \/ scan.full /\ \A p \in scan.page : p < n
ScanFits ==
    /\ scan.pc \in {"page", "each"} => Passed
    /\ scan.pc = "each" => /\ \A p \in scan.page : scan.cur < p /\ p <= scan.bar
                           /\ \A n \in Msg : scan.cur < n /\ n <= scan.bar => Left(n)
    /\ scan.pc = "drain" => ~ckpt.open /\ ckpt.bar = 0

\* The handler works for the scan while it goes over a page, and for the buffer
\* only after that.
OneHandler ==
    LET h == task["handler"]
    IN  /\ h.by = "scan" => scan.pc = "each"
        /\ h.by = "drain" => scan.pc = "drain"
        /\ scan.pc = "page" => h.pc = "none"
        /\ scan.pc = "each" => h.pc = "none" \/ h.by = "scan"
        /\ h.pc = "none" => h.by = "none"

IInv == TypeOK /\ Came /\ Opened /\ NoneSkipped /\ ScanFits /\ OneHandler

-----------------------------------------------------------------------------
(* The pages of the history. *)

LEMMA LeastOf ==
    ASSUME NEW T, T \subseteq Nat, T # {}
    PROVE  \E x \in T : \A y \in T : x <= y
<1>. DEFINE R == OpToRel(<, Nat)
<1>1. IsWellFoundedOn(R, Nat)
  BY NatLessThanWellFounded
<1>2. \A x, y \in Nat : <<y, x>> \in R <=> y < x
  BY DEF OpToRel
<1>. HIDE DEF R
<1>3. \E x \in T : \A y \in T : ~(<<y, x>> \in R)
  BY <1>1, WFMin
<1>4. \A x, y \in Nat : ~(y < x) => x <= y
  OBVIOUS
<1>. QED  BY <1>2, <1>3, <1>4

LEMMA GreatestOf ==
    ASSUME NEW n \in Nat, NEW T, T \subseteq 0..n, T # {}
    PROVE  \E x \in T : \A y \in T : y <= x
<1>. DEFINE U == {n - i : i \in T}
<1>1. U \subseteq Nat /\ U # {}
  <2>1. \A i \in T : n - i \in Nat
    OBVIOUS
  <2>. QED  BY <2>1
<1>2. PICK x \in U : \A y \in U : x <= y
  BY <1>1, LeastOf
<1>3. PICK i \in T : x = n - i
  OBVIOUS
<1>4. ASSUME NEW j \in T  PROVE j <= i
  <2>1. n - i <= n - j
    BY <1>2, <1>3
  <2>. QED  BY <2>1
<1>. QED  BY <1>4

\* A page that leaves a message out is full, of earlier messages.
LEMMA FirstPage ==
    ASSUME NEW H, H \subseteq Msg, NEW n \in H
    PROVE  \/ n \in FirstOf(H)
           \/ Cardinality(FirstOf(H)) = PageSize /\ \A p \in FirstOf(H) : p < n
<1>. DEFINE Below(m) == {k \in H : k < m}
            F == FirstOf(H)
<1>0. /\ N \in Nat /\ PageSize \in Nat \ {0} /\ IsFiniteSet(Msg)
      /\ Msg \subseteq Nat
  BY IntakeAssumption, FS_Interval DEF Msg
<1>1. IsFiniteSet(H)
  BY <1>0, FS_Subset
<1>2. \A m \in H : /\ IsFiniteSet(Below(m)) /\ Cardinality(Below(m)) \in Nat
                   /\ m \in F <=> Cardinality(Below(m)) < PageSize
  <2>1. ASSUME NEW m \in H  PROVE IsFiniteSet(Below(m)) /\ Cardinality(Below(m)) \in Nat
    <3>1. IsFiniteSet(Below(m))
      BY <1>1, FS_Subset
    <3>. QED  BY <3>1, FS_CardinalityType
  <2>. QED  BY <2>1 DEF FirstOf
<1>3. ASSUME NEW a \in H, NEW b \in H, a <= b
      PROVE  Cardinality(Below(a)) <= Cardinality(Below(b))
  <2>1. Below(a) \subseteq Below(b)
    <3>1. \A k \in H : k < a => k < b
      BY <1>0, <1>3
    <3>. QED  BY <3>1
  <2>. QED  BY <1>2, <2>1, FS_Subset
<1>4. F \subseteq H
  BY DEF FirstOf
<1>. HIDE DEF Below, F
<1>5. CASE n \notin F
  <2>. DEFINE Out == {m \in H : m \notin F}
  <2>1. PICK e \in Out : \A m \in Out : e <= m
    <3>1. Out \subseteq Nat /\ Out # {}
      BY <1>0, <1>5
    <3>. HIDE DEF Out
    <3>. QED  BY <3>1, LeastOf
  <2>2. e \in H /\ PageSize <= Cardinality(Below(e)) /\ e <= n
    <3>1. e \in H /\ e \notin F /\ e <= n
      BY <1>5, <2>1
    <3>. QED  BY <1>0, <1>2, <3>1
  <2>3. \A p \in F : p < e
    <3>1. ASSUME NEW p \in F, e <= p  PROVE FALSE
      <4>1. Cardinality(Below(p)) < PageSize /\ Cardinality(Below(e)) <= Cardinality(Below(p))
        BY <1>2, <1>3, <1>4, <2>2, <3>1
      <4>. QED  BY <1>0, <1>2, <1>4, <2>2, <4>1
    <3>. QED  BY <1>0, <1>4, <2>2, <3>1
  <2>4. F = Below(e)
    <3>1. F \subseteq Below(e)
      BY <1>4, <2>3 DEF Below
    <3>2. ASSUME NEW k \in Below(e)  PROVE k \in F
      <4>1. k \in H /\ k < e
        BY DEF Below
      <4>. QED  BY <1>0, <2>1, <2>2, <4>1
    <3>. QED  BY <3>1, <3>2
  <2>5. PICK p \in F : \A k \in F : k <= p
    <3>1. F # {}
      <4>1. Cardinality(F) # 0
        BY <1>0, <2>2, <2>4
      <4>. QED  BY <4>1, FS_EmptySet
    <3>2. F \subseteq 0..N
      BY <1>0, <1>4 DEF Msg
    <3>. QED  BY <1>0, <3>1, <3>2, GreatestOf
  <2>6. F = Below(p) \cup {p}
    <3>1. \A k \in F : k \in H /\ (k < p \/ k = p)
      BY <1>0, <1>4, <2>5
    <3>2. \A k \in H : k < p => k < e
      BY <1>0, <1>4, <2>2, <2>3, <2>5
    <3>3. F \subseteq Below(p) \cup {p}
      BY <3>1 DEF Below
    <3>4. Below(p) \subseteq F
      BY <2>4, <3>2 DEF Below
    <3>. QED  BY <3>3, <3>4
  <2>0. p \in H
    BY <1>4
  <2>7. Cardinality(F) <= Cardinality(Below(p)) + 1
    <3>1. IsFiniteSet(Below(p)) /\ Cardinality(Below(p)) \in Nat
      BY <1>2, <2>0
    <3>2. Cardinality(Below(p) \cup {p}) = IF p \in Below(p) THEN Cardinality(Below(p))
                                           ELSE Cardinality(Below(p)) + 1
      BY <3>1, FS_AddElement
    <3>. QED  BY <2>6, <3>1, <3>2
  <2>8. Cardinality(Below(p)) < PageSize
    BY <1>2, <2>0
  <2>9. Cardinality(F) = PageSize
    <3>1. Cardinality(F) \in Nat /\ PageSize <= Cardinality(F)
      BY <1>2, <2>2, <2>4
    <3>2. Cardinality(Below(p)) \in Nat
      BY <1>2, <2>0
    <3>. QED  BY <1>0, <2>7, <2>8, <3>1, <3>2
  <2>10. \A k \in F : k < n
    BY <1>0, <1>4, <2>2, <2>3
  <2>. QED  BY <2>9, <2>10 DEF F
<1>. QED  BY <1>5 DEF F

-----------------------------------------------------------------------------
(* What a step leaves of the messages that were dealt with. *)

RowType == [st : {"none"} \cup Pending \cup Closed, kind : {"live", "backfill"}, old : BOOLEAN,
            edited : BOOLEAN]
Local == [m : 0..N, pc : {"none", "claim", "read", "enqueue", "reject"},
          by : {"none", "live", "scan", "drain", "preflight"}]

Grows ==
    /\ \A n \in Msg : row[n].st # "none" => row'[n].st # "none"
    /\ told \subseteq told'
    /\ \A n \in Msg : n <= posted /\ world[n] = "gone" => world'[n] = "gone"

LEMMA DealtStays ==
    ASSUME Grows, NEW n \in Msg, n <= posted, Dealt(n)
    PROVE  Dealt(n)'
  BY DEF Grows, Dealt

LEMMA Bounds ==
    ASSUME TypeOK
    PROVE  /\ N \in Nat /\ Msg \subseteq Nat /\ posted \in Nat /\ posted <= N /\ seen \in Nat /\ seen <= posted
           /\ ckpt.base \in Nat /\ ckpt.last \in Nat /\ ckpt.bar \in Nat /\ ckpt.after \in Nat
           /\ ckpt.base <= posted /\ ckpt.last <= posted /\ ckpt.bar <= posted
           /\ ckpt.after <= posted
           /\ scan.bar \in Nat /\ scan.cur \in Nat /\ scan.bar <= posted /\ scan.cur <= posted
           /\ scan.page \subseteq Nat
           /\ \A p \in scan.page : p \in Msg /\ p <= posted
           /\ row \in [Msg -> RowType] /\ task \in [Who -> Local]
           /\ \A m \in Msg : row[m] \in RowType
           /\ task["handler"] \in Local
<1>1. N \in Nat
  BY IntakeAssumption
<1>2. /\ ckpt \in [st : {"none", "idle", "scanning", "retry", "blocked"}, open : BOOLEAN,
                   base : 0..posted, last : 0..posted, bar : 0..posted, after : 0..posted]
      /\ scan \in [pc : {"off", "discover", "start", "page", "each", "drain"}, full : BOOLEAN,
                   bar : 0..posted, cur : 0..posted, page : SUBSET (1..posted)]
      /\ posted \in 0..N /\ seen \in 0..posted
  BY DEF TypeOK
<1>3. row \in [Msg -> RowType] /\ task \in [Who -> Local]
  BY DEF TypeOK, RowType, Local
<1>4. /\ ckpt.base \in 0..posted /\ ckpt.last \in 0..posted /\ ckpt.bar \in 0..posted
      /\ ckpt.after \in 0..posted /\ scan.bar \in 0..posted /\ scan.cur \in 0..posted
      /\ scan.page \in SUBSET (1..posted)
  BY <1>2
<1>. QED  BY <1>1, <1>2, <1>3, <1>4 DEF Msg, Who

\* A step that leaves the checkpoint and the scan alone.
LEMMA QuietStep ==
    ASSUME IInv, TypeOK', Came', Grows, ckpt' = ckpt, scan' = scan, posted <= posted',
           \A n \in Msg : Claimed(n) => Claimed(n)' \/ Dealt(n)',
           \/ task'["handler"] = task["handler"]
           \/ task'["handler"] = Idle
           \/ /\ task["handler"].pc # "none" /\ task'["handler"].pc # "none"
              /\ task'["handler"].by = task["handler"].by
    PROVE  IInv'
<1>0. TypeOK
  BY DEF IInv
<1>1. ASSUME NEW n \in Msg, ckpt.base < n, n <= (IF ckpt.open THEN ckpt.after ELSE ckpt.last)
      PROVE  Dealt(n)'
  <2>1. n <= posted
    BY <1>0, <1>1, Bounds
  <2>2. Dealt(n)
    BY <1>1 DEF IInv, NoneSkipped
  <2>. QED  BY <2>1, <2>2, DealtStays
<1>2. NoneSkipped'
  BY <1>1 DEF NoneSkipped
<1>3. ASSUME scan.pc \in {"page", "each"}  PROVE Passed'
  <2>1. ASSUME NEW n \in Msg, ckpt.base < n, n <= scan.cur  PROVE Dealt(n)' \/ Claimed(n)'
    <3>1. n <= posted
      BY <1>0, <2>1, Bounds
    <3>2. Dealt(n) \/ Claimed(n)
      BY <1>3, <2>1 DEF IInv, ScanFits, Passed
    <3>. QED  BY <3>1, <3>2, DealtStays
  <2>. QED  BY <2>1 DEF Passed
<1>4. ASSUME NEW n \in Msg, n <= scan.bar, Left(n)  PROVE Left(n)'
  <2>1. n <= posted
    BY <1>0, <1>4, Bounds
  <2>. QED  BY <1>4, <2>1 DEF Left, Grows
<1>5. ScanFits'
  BY <1>3, <1>4 DEF IInv, ScanFits
<1>6. OneHandler'
  BY DEF IInv, OneHandler, Idle
<1>7. Opened'
  BY DEF IInv, Opened
<1>. QED  BY <1>2, <1>5, <1>6, <1>7 DEF IInv

-----------------------------------------------------------------------------
(* The tasks. *)

LEMMA StopTypes ==
    ASSUME TypeOK, NEW w \in Who, Stop(w)
    PROVE  /\ task' \in [Who -> Local] /\ task'[w] = Idle
           /\ \A v \in Who \ {w} : task'[v] = task[v]
<1>1. Idle \in Local
  BY Bounds DEF Idle, Local
<1>. QED  BY <1>1, Bounds DEF Stop

LEMMA GotoTypes ==
    ASSUME TypeOK, NEW w \in Who, NEW pc \in {"enqueue", "reject"}, Goto(w, pc)
    PROVE  /\ task' \in [Who -> Local]
           /\ task'[w].pc = pc /\ task'[w].by = task[w].by /\ task'[w].m = task[w].m
           /\ \A v \in Who \ {w} : task'[v] = task[v]
<1>1. task \in [Who -> Local] /\ task[w] \in Local
  BY Bounds
<1>2. task' = [task EXCEPT ![w] = [@ EXCEPT !.pc = pc]]
  BY <1>1 DEF Goto, Local
<1>. QED  BY <1>1, <1>2 DEF Local

\* A task goes on with its message or stops; what its claim was for is dealt with.
LEMMA Works ==
    ASSUME TypeOK, NEW w \in Who, NEW m \in Msg, task[w].pc # "none", task[w].m = m,
           Stop(w) \/ Goto(w, "enqueue") \/ Goto(w, "reject"),
           w = "handler" /\ task[w].pc = "claim" => Dealt(m)'
    PROVE  /\ task' \in [Who -> Local]
           /\ \A n \in Msg : Claimed(n) => Claimed(n)' \/ Dealt(n)'
           /\ \/ task'["handler"] = task["handler"]
              \/ task'["handler"] = Idle
              \/ /\ task["handler"].pc # "none" /\ task'["handler"].pc # "none"
                 /\ task'["handler"].by = task["handler"].by
<1>1. /\ task' \in [Who -> Local] /\ \A v \in Who \ {w} : task'[v] = task[v]
      /\ \/ task'[w] = Idle
         \/ task'[w].pc # "none" /\ task'[w].by = task[w].by
  BY StopTypes, GotoTypes
<1>2. CASE w = "handler"
  BY <1>1, <1>2 DEF Claimed
<1>3. CASE w # "handler"
  BY <1>1, <1>3 DEF Claimed, Who
<1>. QED  BY <1>1, <1>2, <1>3

-----------------------------------------------------------------------------
(* The rows. *)

LEMMA RowTypes ==
    ASSUME TypeOK, NEW m \in Msg, NEW r \in RowType, r.st # "none",
           row' = [row EXCEPT ![m] = r]
    PROVE  /\ row' \in [Msg -> RowType] /\ row'[m] = r
           /\ \A n \in Msg : row[n].st # "none" => row'[n].st # "none"
  BY Bounds

LEMMA Closes ==
    ASSUME TypeOK, NEW m \in Msg, NEW st \in Closed, row' = Close(m, st)
    PROVE  /\ row' \in [Msg -> RowType] /\ row'[m].st = st
           /\ \A n \in Msg : row[n].st # "none" => row'[n].st # "none"
           /\ \A n \in Msg \ {m} : row'[n] = row[n]
<1>1. [NoRow EXCEPT !.st = st] \in RowType /\ st # "none"
      /\ [NoRow EXCEPT !.st = st].st = st
  BY DEF NoRow, RowType, Closed
<1>2. row' = [row EXCEPT ![m] = [NoRow EXCEPT !.st = st]]
  BY DEF Close
<1>. QED  BY <1>1, <1>2, RowTypes, Bounds

LEMMA Rejects ==
    ASSUME TypeOK, NEW m \in Msg, row' = Rejected(m)
    PROVE  /\ row' \in [Msg -> RowType]
           /\ \A n \in Msg : row[n].st # "none" => row'[n].st # "none"
           /\ \A n \in Msg : row[n].st \in Closed => row'[n].st = row[n].st
<1>1. CASE row[m].st \in Pending
  <2>1. row' = Close(m, "rejected")
    BY <1>1 DEF Rejected
  <2>2. row[m].st \notin Closed
    BY <1>1 DEF Pending, Closed
  <2>. QED  BY <2>1, <2>2, Closes DEF Closed
<1>2. CASE row[m].st \notin Pending
  BY <1>2, Bounds DEF Rejected
<1>. QED  BY <1>1, <1>2

-----------------------------------------------------------------------------
(* The handler, the preflight and the outbox. *)

LEMMA SameCame ==
    ASSUME Came, posted' = posted, event' = event
    PROVE  Came'
  BY DEF Came

LEMMA ClaimKeeps ==
    ASSUME IInv, NEW m \in Msg,
           \/ RefuseEmpty(m) \/ AlreadyAccepted(m) \/ ClaimIngress(m) \/ RequestThread(m)
           \/ ClaimFails(m)
    PROVE  IInv'
<1>0. TypeOK /\ Came /\ "handler" \in Who
  BY DEF IInv, Who
<1>1. /\ task["handler"].pc = "claim" /\ task["handler"].m = m
      /\ Stop("handler") \/ Goto("handler", "enqueue")
  BY DEF RefuseEmpty, AlreadyAccepted, ClaimIngress, RequestThread, ClaimFails, Busy
<1>2. Came' /\ ckpt' = ckpt /\ scan' = scan /\ posted' = posted
  BY <1>0, SameCame
     DEF RefuseEmpty, AlreadyAccepted, ClaimIngress, RequestThread, ClaimFails, discord, db
<1>3. /\ row' \in [Msg -> RowType] /\ told' \subseteq Msg /\ out' \in [Msg -> {"none", "pending", "made", "over"}]
      /\ faults' \in Nat /\ Grows /\ Dealt(m)'
  <2>1. CASE RefuseEmpty(m) \/ AlreadyAccepted(m) \/ ClaimFails(m)
    <3>1. row' = row /\ out' = out /\ world' = world
      BY <2>1 DEF RefuseEmpty, AlreadyAccepted, ClaimFails, db, discord
    <3>2. told' \in {told, told \cup {m}} /\ (row[m].st # "none" \/ m \in told')
      BY <2>1 DEF RefuseEmpty, AlreadyAccepted, ClaimFails
    <3>3. faults' \in Nat
      BY <1>0, <2>1 DEF RefuseEmpty, AlreadyAccepted, ClaimFails, Fault, TypeOK
    <3>. QED  BY <1>0, <3>1, <3>2, <3>3, Bounds DEF TypeOK, Grows, Dealt
  <2>2. CASE ClaimIngress(m) \/ RequestThread(m)
    <3>1. PICK st \in Pending : NewRow(m, st)
      BY <2>2 DEF ClaimIngress, RequestThread, Pending
    <3>. DEFINE r == [st |-> st, kind |-> Kind(task["handler"].by), old |-> FALSE,
                      edited |-> FALSE]
    <3>2. r \in RowType /\ r.st # "none" /\ row' = [row EXCEPT ![m] = r]
      BY <3>1 DEF NewRow, Kind, RowType, Pending
    <3>. HIDE DEF r
    <3>3. /\ row' \in [Msg -> RowType] /\ row'[m].st # "none"
          /\ \A n \in Msg : row[n].st # "none" => row'[n].st # "none"
      BY <1>0, <3>2, RowTypes
    <3>4. world' = world /\ told' = told /\ faults' = faults
      BY <2>2 DEF ClaimIngress, RequestThread, discord
    <3>5. out' \in [Msg -> {"none", "pending", "made", "over"}]
      BY <1>0, <2>2 DEF ClaimIngress, RequestThread, TypeOK
    <3>. QED  BY <1>0, <3>3, <3>4, <3>5 DEF TypeOK, Grows, Dealt
  <2>. QED  BY <2>1, <2>2
<1>4. /\ task' \in [Who -> Local]
      /\ \A n \in Msg : Claimed(n) => Claimed(n)' \/ Dealt(n)'
      /\ \/ task'["handler"] = task["handler"]
         \/ task'["handler"] = Idle
         \/ /\ task["handler"].pc # "none" /\ task'["handler"].pc # "none"
            /\ task'["handler"].by = task["handler"].by
  BY <1>0, <1>1, <1>3, Works
<1>5. TypeOK'
  <2>1. /\ scope' = scope /\ gateway' = gateway /\ seen' = seen /\ scanning' = scanning
        /\ world' = world /\ event' = event /\ due' = due
    BY DEF RefuseEmpty, AlreadyAccepted, ClaimIngress, RequestThread, ClaimFails, discord
  <2>. QED  BY <1>0, <1>2, <1>3, <1>4, <2>1 DEF TypeOK, RowType, Local
<1>6. posted <= posted'
  BY <1>0, <1>2, Bounds
<1>. QED  BY <1>0, <1>2, <1>3, <1>4, <1>5, <1>6, QuietStep

LEMMA PreflightKeeps ==
    ASSUME IInv, NEW m \in Msg, NEW w \in Who,
           ReadIngress(w, m) \/ InputRefused(w, m) \/ EnqueueTurn(w, m) \/ RejectIngress(w, m)
    PROVE  IInv'
<1>0. TypeOK /\ Came
  BY DEF IInv
<1>1. /\ task[w].pc \in {"read", "enqueue", "reject"} /\ task[w].m = m
      /\ Stop(w) \/ Goto(w, "enqueue") \/ Goto(w, "reject")
  BY DEF ReadIngress, InputRefused, EnqueueTurn, RejectIngress, Busy
<1>2. /\ Came' /\ ckpt' = ckpt /\ scan' = scan /\ posted' = posted /\ scope' = scope
      /\ gateway' = gateway /\ seen' = seen /\ scanning' = scanning
      /\ world' = world /\ event' = event /\ due' = due /\ told' = told /\ out' = out
  BY <1>0, SameCame DEF ReadIngress, InputRefused, EnqueueTurn, RejectIngress, discord, db
<1>3. /\ row' \in [Msg -> RowType]
      /\ \A n \in Msg : row[n].st # "none" => row'[n].st # "none"
  <2>1. row' = row \/ row' = Close(m, "ready") \/ row' = Rejected(m)
    BY DEF ReadIngress, InputRefused, EnqueueTurn, RejectIngress, db
  <2>. QED  BY <1>0, <2>1, Bounds, Closes, Rejects DEF Closed
<1>4. /\ task' \in [Who -> Local]
      /\ \A n \in Msg : Claimed(n) => Claimed(n)' \/ Dealt(n)'
      /\ \/ task'["handler"] = task["handler"]
         \/ task'["handler"] = Idle
         \/ /\ task["handler"].pc # "none" /\ task'["handler"].pc # "none"
            /\ task'["handler"].by = task["handler"].by
  BY <1>0, <1>1, Works
<1>5. faults' \in Nat
  BY <1>0 DEF ReadIngress, InputRefused, EnqueueTurn, RejectIngress, Fault, TypeOK
<1>6. TypeOK'
  BY <1>0, <1>2, <1>3, <1>4, <1>5 DEF TypeOK, RowType, Local
<1>7. Grows /\ posted <= posted'
  BY <1>0, <1>2, <1>3, Bounds DEF Grows
<1>. QED  BY <1>2, <1>4, <1>6, <1>7, QuietStep

LEMMA StartPreflightKeeps ==
    ASSUME IInv, NEW m \in Msg, StartPreflight(m)
    PROVE  IInv'
<1>0. TypeOK /\ Came /\ "preflight" \in Who /\ "handler" \in Who
  BY DEF IInv, Who
<1>. DEFINE l == [m |-> m, pc |-> "read", by |-> "preflight"]
<1>1. l \in Local
  BY DEF Local, Msg
<1>. HIDE DEF l
<1>2. task' = [task EXCEPT !["preflight"] = l]
  BY DEF StartPreflight, l
<1>3. task' \in [Who -> Local] /\ task'["handler"] = task["handler"]
  BY <1>0, <1>1, <1>2, Bounds
<1>4. /\ Came' /\ due' \subseteq Msg
      /\ UNCHANGED <<discord, event, db, scanning, scan, told, faults>>
  BY <1>0, SameCame DEF StartPreflight, discord, TypeOK
<1>5. TypeOK' /\ posted <= posted'
  BY <1>0, <1>3, <1>4, Bounds DEF TypeOK, discord, db, Local
<1>6. Grows /\ ckpt' = ckpt /\ scan' = scan
  BY <1>4 DEF Grows, discord, db
<1>. QED  BY <1>3, <1>4, <1>5, <1>6, QuietStep DEF Claimed

LEMMA OutboxKeeps ==
    ASSUME IInv, NEW m \in Msg,
           Deliver(m) \/ FailThreadCreation(m) \/ Acknowledge(m) \/ Edit(m)
    PROVE  IInv'
<1>0. TypeOK /\ Came
  BY DEF IInv
<1>1. /\ Came' /\ ckpt' = ckpt /\ scan' = scan /\ task' = task /\ posted' = posted
      /\ scope' = scope /\ gateway' = gateway /\ seen' = seen /\ scanning' = scanning
      /\ world' = world /\ event' = event /\ told' = told
  BY <1>0, SameCame DEF Deliver, FailThreadCreation, Acknowledge, Edit, discord
<1>2. /\ row' \in [Msg -> RowType]
      /\ \A n \in Msg : row[n].st # "none" => row'[n].st # "none"
  <2>1. CASE row' = row
    BY <1>0, <2>1, Bounds
  <2>2. CASE FailThreadCreation(m)
    BY <1>0, <2>2, Rejects DEF FailThreadCreation
  <2>3. CASE row' = [row EXCEPT ![m].st = "pending_preflight"]
    <3>1. row' = [row EXCEPT ![m] = [@ EXCEPT !.st = "pending_preflight"]]
      BY <1>0, <2>3, Bounds DEF RowType
    <3>2. [row[m] EXCEPT !.st = "pending_preflight"] \in RowType
      BY <1>0, Bounds DEF RowType, Pending
    <3>3. [row[m] EXCEPT !.st = "pending_preflight"].st # "none"
      BY <1>0, Bounds DEF RowType
    <3>. QED  BY <1>0, <3>1, <3>2, <3>3, RowTypes
  <2>4. CASE Edit(m)
    <3>1. row' = [row EXCEPT ![m] = [@ EXCEPT !.edited = TRUE]] /\ row[m].st # "none"
      BY <1>0, <2>4, Bounds DEF Edit, RowType, Pending
    <3>2. [row[m] EXCEPT !.edited = TRUE] \in RowType
      BY <1>0, Bounds DEF RowType
    <3>3. [row[m] EXCEPT !.edited = TRUE].st # "none"
      BY <1>0, <3>1, Bounds DEF RowType
    <3>. QED  BY <1>0, <3>1, <3>2, <3>3, RowTypes
  <2>. QED  BY <2>1, <2>2, <2>3, <2>4 DEF Deliver, Acknowledge
<1>3. /\ out' \in [Msg -> {"none", "pending", "made", "over"}]
      /\ due' \subseteq Msg /\ faults' \in Nat
  BY <1>0 DEF Deliver, FailThreadCreation, Acknowledge, Acked, Edit, Fault, TypeOK
<1>4. TypeOK' /\ posted <= posted'
  BY <1>0, <1>1, <1>2, <1>3, Bounds DEF TypeOK, RowType
<1>5. Grows
  BY <1>1, <1>2 DEF Grows
<1>. QED  BY <1>1, <1>4, <1>5, QuietStep DEF Claimed

-----------------------------------------------------------------------------
(* Discord, the live events and a restart. *)

EventType == {"none", "sent", "arrived", "buffered", "draining", "queued", "over"}

LEMMA WorldKeeps ==
    ASSUME IInv,
           \/ \E st \in {"good", "empty"} : Post(st)
           \/ \E m \in Msg : Remove(m)
           \/ Disconnect \/ Resume \/ Ready
    PROVE  IInv'
<1>0. TypeOK /\ Came
  BY DEF IInv
<1>1. /\ ckpt' = ckpt /\ scan' = scan /\ task' = task /\ scope' = scope /\ row' = row
      /\ out' = out /\ scanning' = scanning /\ told' = told
  BY DEF Post, Remove, Disconnect, Resume, Ready, discord, db
<1>2. posted' \in 0..N /\ posted <= posted' /\ faults' \in Nat
  BY <1>0, Bounds DEF Post, Remove, Disconnect, Resume, Ready, TypeOK, Fault
<1>3. seen' \in 0..posted'
  <2>1. seen' = seen \/ (seen' = posted /\ posted' = posted)
    BY DEF Post, Remove, Disconnect, Resume, Ready
  <2>. QED  BY <1>0, <1>2, <2>1, Bounds
<1>4. /\ world' \in [Msg -> {"good", "empty", "gone"}]
      /\ \A n \in Msg : n <= posted /\ world[n] = "gone" => world'[n] = "gone"
  <2>1. ASSUME NEW st \in {"good", "empty"}, Post(st)
        PROVE  /\ world' \in [Msg -> {"good", "empty", "gone"}]
               /\ \A n \in Msg : n <= posted => world'[n] = world[n]
    <3>1. world' = [world EXCEPT ![posted + 1] = st] /\ world \in [Msg -> {"good", "empty", "gone"}]
      BY <1>0, <2>1 DEF Post, TypeOK
    <3>2. \A n \in Msg : n <= posted => n # posted + 1
      BY <1>0, Bounds
    <3>. QED  BY <3>1, <3>2
  <2>2. ASSUME NEW m \in Msg, Remove(m)
        PROVE  /\ world' \in [Msg -> {"good", "empty", "gone"}]
               /\ \A n \in Msg : world[n] = "gone" => world'[n] = "gone"
    BY <1>0, <2>2 DEF Remove, TypeOK
  <2>. QED  BY <1>0, <2>1, <2>2 DEF Disconnect, Resume, Ready, TypeOK
<1>5. event' \in [Msg -> EventType] /\ Came'
  <2>1. CASE \E st \in {"good", "empty"} : Post(st)
    <3>1. /\ event' = [event EXCEPT ![posted + 1] = "sent"] /\ posted' = posted + 1
          /\ event \in [Msg -> EventType]
      BY <1>0, <2>1 DEF Post, TypeOK, EventType
    <3>2. \A n \in Msg : event'[n] = event[n] \/ n = posted + 1
      BY <3>1
    <3>3. event' \in [Msg -> EventType]
      BY <3>1 DEF EventType
    <3>4. \A n \in Msg : n <= posted \/ n = posted + 1 => n <= posted'
      BY <1>0, <3>1, Bounds
    <3>. QED  BY <1>0, <3>2, <3>3, <3>4 DEF Came
  <2>2. CASE Ready
    <3>1. event' = Missed({"sent"}) /\ posted' = posted /\ event \in [Msg -> EventType]
      BY <1>0, <2>2 DEF Ready, TypeOK, EventType
    <3>. QED  BY <1>0, <3>1 DEF Missed, EventType, Came
  <2>3. CASE (\E m \in Msg : Remove(m)) \/ Disconnect \/ Resume
    BY <1>0, <2>3 DEF Remove, Disconnect, Resume, TypeOK, EventType, Came
  <2>. QED  BY <2>1, <2>2, <2>3
<1>6. gateway' \in {"up", "down", "new"} /\ due' \subseteq Msg
  BY <1>0 DEF Post, Remove, Disconnect, Resume, Ready, TypeOK, PendingPreflights
<1>7. TypeOK'
  <2>1. 0..posted \subseteq 0..posted' /\ SUBSET (1..posted) \subseteq SUBSET (1..posted')
    BY <1>0, <1>2, Bounds
  <2>2. /\ ckpt' \in [st : {"none", "idle", "scanning", "retry", "blocked"}, open : BOOLEAN,
                      base : 0..posted', last : 0..posted', bar : 0..posted', after : 0..posted']
        /\ scan' \in [pc : {"off", "discover", "start", "page", "each", "drain"}, full : BOOLEAN,
                      bar : 0..posted', cur : 0..posted', page : SUBSET (1..posted')]
    BY <1>0, <1>1, <2>1 DEF TypeOK
  <2>. QED  BY <1>0, <1>1, <1>2, <1>3, <1>4, <1>5, <1>6, <2>2 DEF TypeOK, EventType
<1>8. Grows
  BY <1>1, <1>4 DEF Grows
<1>. QED  BY <1>1, <1>2, <1>5, <1>7, <1>8, QuietStep DEF Claimed

LEMMA LiveKeeps ==
    ASSUME IInv, NEW m \in Msg, Dispatch(m) \/ ProcessLive(m)
    PROVE  IInv'
<1>0. TypeOK /\ Came
  BY DEF IInv
<1>1. /\ ckpt' = ckpt /\ scan' = scan /\ task' = task /\ row' = row /\ told' = told
      /\ world' = world /\ posted' = posted
      /\ UNCHANGED <<scope, gateway, out, scanning, due, faults>>
  BY DEF Dispatch, ProcessLive, discord, db
<1>2. event[m] # "none" /\ m <= posted
  <2>1. m \in At("sent") \/ m \in At("arrived")
    BY DEF Dispatch, ProcessLive, Least
  <2>. QED  BY <1>0, <2>1 DEF At, Came
<1>3. event' \in [Msg -> EventType] /\ Came'
  <2>1. PICK st \in {"arrived", "buffered", "queued"} : event' = [event EXCEPT ![m] = st]
    BY DEF Dispatch, ProcessLive, Waiting
  <2>2. event \in [Msg -> EventType]
    BY <1>0 DEF TypeOK, EventType
  <2>3. \A n \in Msg : event'[n] = event[n] \/ n = m
    BY <2>1, <2>2
  <2>. QED  BY <1>0, <1>1, <1>2, <2>1, <2>2, <2>3 DEF EventType, Came
<1>4. seen' \in 0..posted
  <2>1. seen' = seen \/ seen' = m
    BY DEF Dispatch, ProcessLive, Larger, discord
  <2>2. m \in Nat
    BY <1>0, Bounds
  <2>. QED  BY <1>0, <1>2, <2>1, <2>2, Bounds
<1>5. TypeOK'
  BY <1>0, <1>1, <1>3, <1>4 DEF TypeOK, EventType
<1>6. Grows /\ posted <= posted'
  BY <1>0, <1>1, Bounds DEF Grows
<1>. QED  BY <1>1, <1>3, <1>5, <1>6, QuietStep DEF Claimed

\* No scan goes over a page after the step.
LEMMA AwayStep ==
    ASSUME IInv, TypeOK', Came', Grows, scan'.pc \in {"off", "discover", "start"},
           ckpt' = ckpt \/ (ckpt'.st # "none" /\ ckpt' = [ckpt EXCEPT !.st = ckpt'.st]),
           \/ task'["handler"] = Idle
           \/ task'["handler"].by = "live" /\ task'["handler"].pc # "none"
           \/ /\ task'["handler"] = task["handler"]
              /\ scan.pc \in {"off", "discover", "start"} \/ task["handler"].pc = "none"
    PROVE  IInv'
<1>0. TypeOK
  BY DEF IInv
<1>1. /\ ckpt'.base = ckpt.base /\ ckpt'.open = ckpt.open
      /\ ckpt'.last = ckpt.last /\ ckpt'.after = ckpt.after
      /\ ckpt'.st # "none" \/ ckpt'.st = ckpt.st
  BY <1>0 DEF TypeOK
<1>2. ASSUME NEW n \in Msg, ckpt.base < n, n <= (IF ckpt.open THEN ckpt.after ELSE ckpt.last)
      PROVE  Dealt(n)'
  <2>1. n <= posted
    BY <1>0, <1>2, Bounds
  <2>2. Dealt(n)
    BY <1>2 DEF IInv, NoneSkipped
  <2>. QED  BY <2>1, <2>2, DealtStays
<1>3. NoneSkipped'
  BY <1>1, <1>2 DEF NoneSkipped
<1>4. ScanFits' /\ OneHandler' /\ Opened'
  BY <1>1 DEF ScanFits, OneHandler, Idle, Opened, IInv
<1>. QED  BY <1>3, <1>4 DEF IInv

LEMMA TakeLiveKeeps ==
    ASSUME IInv, NEW m \in Msg, TakeLive(m)
    PROVE  IInv'
<1>0. TypeOK /\ Came /\ "handler" \in Who
  BY DEF IInv, Who
<1>. DEFINE l == [m |-> m, pc |-> "claim", by |-> "live"]
<1>1. l \in Local /\ l.by = "live" /\ l.pc # "none"
  BY DEF Local, Msg
<1>. HIDE DEF l
<1>2. task' = [task EXCEPT !["handler"] = l]
  BY DEF TakeLive, Handle, l
<1>3. task' \in [Who -> Local] /\ task'["handler"] = l
  BY <1>0, <1>1, <1>2, Bounds
<1>4. UNCHANGED <<discord, db, scanning, scan, due, told, faults>>
  BY DEF TakeLive
<1>5. event' \in [Msg -> EventType] /\ Came'
  <2>1. event' = [event EXCEPT ![m] = "over"] /\ event \in [Msg -> EventType] /\ event[m] # "none"
    BY <1>0 DEF TakeLive, TypeOK, EventType, Least, At
  <2>2. \A n \in Msg : event'[n] = event[n] \/ n = m
    BY <2>1
  <2>. QED  BY <1>0, <1>4, <2>1, <2>2 DEF EventType, Came, discord
<1>6. TypeOK'
  BY <1>0, <1>3, <1>4, <1>5 DEF TypeOK, EventType, discord, db, Local
<1>7. Grows /\ ckpt' = ckpt /\ scan'.pc \in {"off", "discover", "start"}
  <2>1. scan.pc \in {"off", "discover", "start"}
    BY DEF TakeLive, LockFree
  <2>. QED  BY <1>4, <2>1 DEF Grows, discord, db
<1>. QED  BY <1>1, <1>3, <1>5, <1>6, <1>7, AwayStep

-----------------------------------------------------------------------------
(* The scan. *)

ScanType == [pc : {"off", "discover", "start", "page", "each", "drain"}, full : BOOLEAN,
             bar : 0..posted, cur : 0..posted, page : SUBSET (1..posted)]
CkptType == [st : {"none", "idle", "scanning", "retry", "blocked"}, open : BOOLEAN,
             base : 0..posted, last : 0..posted, bar : 0..posted, after : 0..posted]

LEMMA NoScanTypes ==
    ASSUME TypeOK, NEW pc \in {"off", "discover", "start", "page", "each", "drain"}
    PROVE  /\ [NoScan EXCEPT !.pc = pc] \in ScanType
           /\ [NoScan EXCEPT !.pc = pc].pc = pc
           /\ NoScan \in ScanType /\ NoScan.pc = "off"
<1>1. 0 \in 0..posted /\ {} \in SUBSET (1..posted)
  BY Bounds
<1>. QED  BY <1>1 DEF NoScan, ScanType

LEMMA ScanToTypes ==
    ASSUME TypeOK, NEW pc \in {"off", "discover", "start", "page", "each", "drain"}, ScanTo(pc)
    PROVE  /\ scan' \in ScanType /\ scan'.pc = pc /\ scan'.full = scan.full
           /\ scan'.bar = scan.bar /\ scan'.cur = scan.cur /\ scan'.page = scan.page
<1>1. scan \in ScanType
  BY DEF TypeOK, ScanType
<1>. QED  BY <1>1 DEF ScanTo, ScanType

LEMMA MissedFits ==
    ASSUME IInv, NEW S, "none" \notin S, event' \in {event, Missed(S)}, posted' = posted
    PROVE  Came' /\ event' \in [Msg -> EventType]
<1>1. event \in [Msg -> EventType] /\ Came
  BY DEF IInv, TypeOK, EventType
<1>2. \A n \in Msg : event'[n] = event[n] \/ event[n] # "none"
  BY <1>1 DEF Missed
<1>3. event' \in [Msg -> EventType]
  BY <1>1 DEF Missed, EventType
<1>. QED  BY <1>1, <1>2, <1>3 DEF Came

LEMMA AwayKeeps ==
    ASSUME IInv, Trigger \/ Discover \/ BlockedScan \/ ScanFails \/ ScanForbidden
    PROVE  IInv'
<1>0. TypeOK /\ Came /\ "handler" \in Who /\ OneHandler
  BY DEF IInv, Who
<1>1. /\ UNCHANGED <<discord, row, out, due, told>>
      /\ task' = task \/ Stop("handler")
  BY DEF Trigger, Discover, BlockedScan, ScanFails, ScanForbidden, db
<1>2. scan' \in ScanType /\ scan'.pc \in {"off", "discover", "start"}
  <2>1. CASE Trigger
    BY <1>0, <2>1, ScanToTypes DEF Trigger
  <2>2. CASE Discover
    BY <1>0, <2>2, ScanToTypes, NoScanTypes DEF Discover
  <2>3. CASE BlockedScan \/ ScanForbidden
    BY <1>0, <2>3, NoScanTypes DEF BlockedScan, ScanForbidden, ReleaseBuffered
  <2>4. CASE ScanFails
    BY <1>0, <2>4, NoScanTypes DEF ScanFails, NextTry
  <2>. QED  BY <2>1, <2>2, <2>3, <2>4
<1>3. /\ ckpt' = ckpt \/ (ckpt'.st # "none" /\ ckpt' = [ckpt EXCEPT !.st = ckpt'.st])
      /\ ckpt' \in CkptType
  <2>1. ckpt \in CkptType
    BY <1>0 DEF TypeOK, CkptType
  <2>2. ckpt' = ckpt \/ \E st \in {"retry", "blocked"} : ckpt' = [ckpt EXCEPT !.st = st]
    BY DEF Trigger, Discover, BlockedScan, ScanFails, ScanForbidden, db
  <2>. QED  BY <2>1, <2>2 DEF CkptType
<1>4. Came' /\ event' \in [Msg -> EventType]
  <2>1. event' \in {event, Missed({"buffered", "draining"})}
    BY DEF Trigger, Discover, BlockedScan, ScanFails, ScanForbidden, ReleaseBuffered, Released
  <2>. QED  BY <1>1, <2>1, MissedFits DEF discord
<1>5. /\ task' \in [Who -> Local]
      /\ \/ task'["handler"] = Idle
         \/ /\ task'["handler"] = task["handler"]
            /\ scan.pc \in {"off", "discover", "start"} \/ task["handler"].pc = "none"
  <2>1. CASE Stop("handler")
    BY <1>0, <2>1, StopTypes
  <2>2. CASE task' = task
    <3>1. scan.pc \in {"off", "discover", "start", "page"} \/ ScanFails
      BY DEF Trigger, Discover, BlockedScan, ScanForbidden
    <3>2. CASE ScanFails
      BY <1>0, <3>2, StopTypes DEF ScanFails
    <3>. QED  BY <1>0, <2>2, <3>1, <3>2, Bounds DEF OneHandler
  <2>. QED  BY <1>1, <2>1, <2>2
<1>6. faults' \in Nat /\ scanning' \in BOOLEAN
  <2>1. faults \in Nat /\ scanning \in BOOLEAN
    BY <1>0 DEF TypeOK
  <2>2. faults' = faults \/ faults' = faults + 1
    BY DEF Trigger, Discover, BlockedScan, ScanFails, ScanForbidden, Fault
  <2>3. scanning' = scanning \/ scanning' \in BOOLEAN
    BY DEF Trigger, Discover, BlockedScan, ScanFails, ScanForbidden, ReleaseBuffered
  <2>. QED  BY <2>1, <2>2, <2>3
<1>7. TypeOK'
  BY <1>0, <1>1, <1>2, <1>3, <1>4, <1>5, <1>6
     DEF TypeOK, discord, ScanType, CkptType, EventType, Local
<1>8. Grows
  BY <1>1 DEF Grows, discord
<1>. QED  BY <1>2, <1>3, <1>4, <1>5, <1>7, <1>8, AwayStep

LEMMA CrashKeeps ==
    ASSUME IInv, Crash
    PROVE  IInv'
<1>0. TypeOK /\ Came /\ "handler" \in Who
  BY DEF IInv, Who
<1>1. /\ UNCHANGED <<scope, posted, world, seen, ckpt, told>> /\ scan' = NoScan
      /\ gateway' = "new" /\ scanning' = FALSE /\ due' = {}
  BY DEF Crash
<1>2. row' \in [Msg -> RowType] /\ \A m \in Msg : row[m].st # "none" => row'[m].st # "none"
  <2>1. ASSUME NEW m \in Msg
        PROVE  Recovered(m) \in RowType /\ (row[m].st # "none" => Recovered(m).st # "none")
    <3>1. row[m] \in RowType
      BY <1>0, Bounds
    <3>2. [NoRow EXCEPT !.st = "rejected"] \in RowType
      BY DEF NoRow, RowType, Closed
    <3>3. [NoRow EXCEPT !.st = "rejected"].st # "none"
      BY DEF NoRow
    <3>4. \A b \in BOOLEAN : /\ [row[m] EXCEPT !.old = b] \in RowType
                             /\ [row[m] EXCEPT !.old = b].st = row[m].st
      BY <3>1 DEF RowType
    <3>5. (row[m].st \in Pending) \in BOOLEAN
      OBVIOUS
    <3>. QED  BY <3>2, <3>3, <3>4, <3>5 DEF Recovered
  <2>2. row' = [m \in Msg |-> Recovered(m)]
    BY DEF Crash
  <2>. QED  BY <2>1, <2>2
<1>3. /\ task' = [w \in Who |-> Idle] /\ task' \in [Who -> Local] /\ task'["handler"] = Idle
  <2>1. Idle \in Local
    BY <1>0, Bounds DEF Idle, Local
  <2>. QED  BY <1>0, <2>1 DEF Crash
<1>4. Came' /\ event' \in [Msg -> EventType]
  BY <1>1, MissedFits DEF Crash
<1>5. faults' \in Nat /\ out' \in [Msg -> {"none", "pending", "made", "over"}]
  BY <1>0 DEF Crash, Fault, TypeOK
<1>6. scan' \in ScanType /\ scan'.pc = "off"
  BY <1>0, <1>1, NoScanTypes
<1>7. TypeOK'
  BY <1>0, <1>1, <1>2, <1>3, <1>4, <1>5, <1>6
     DEF TypeOK, EventType, ScanType, Local, RowType
<1>8. Grows
  BY <1>1, <1>2 DEF Grows
<1>. QED  BY <1>1, <1>3, <1>4, <1>6, <1>7, <1>8, AwayStep

\* The step is none of Discord, of a row or of an event.
Within == /\ UNCHANGED <<discord, row, out, due, told>>
          /\ Came' /\ event' \in [Msg -> EventType] /\ faults' \in Nat /\ scanning' \in BOOLEAN

LEMMA WithinTypes ==
    ASSUME IInv, Within, scan' \in ScanType, ckpt' \in CkptType, task' \in [Who -> Local]
    PROVE  /\ TypeOK' /\ Grows
           /\ \A n \in Msg : Dealt(n)' <=> Dealt(n)
           /\ posted' = posted /\ world' = world
<1>1. TypeOK
  BY DEF IInv
<1>2. TypeOK' /\ Grows
  BY <1>1 DEF Within, TypeOK, discord, ScanType, CkptType, EventType, Local, Grows
<1>. QED  BY <1>2 DEF Within, discord, Dealt

LEMMA BaselineFits ==
    ASSUME TypeOK
    PROVE  Baseline(seen) \in 0..posted
<1>. DEFINE S == KnownIds \cup {0}
<1>1. N \in Nat /\ S \subseteq 0..N /\ S # {}
  BY Bounds DEF KnownIds, Msg
<1>2. \E x \in S : \A y \in S : y <= x
  <2>. HIDE DEF S
  <2>. QED  BY <1>1, GreatestOf
<1>3. \A x, y \in S : x >= y <=> y <= x
  <2>1. \A x, y \in Nat : x >= y <=> y <= x
    OBVIOUS
  <2>2. S \subseteq Nat
    BY <1>1
  <2>. QED  BY <2>1, <2>2
<1>4. \E x \in S : \A y \in S : x >= y
  BY <1>2, <1>3
<1>5. Max(S) \in S
  <2>. HIDE DEF S
  <2>. QED  BY <1>4 DEF Max
<1>6. Max(S) \in Nat
  BY <1>1, <1>5
<1>7. Baseline(seen) = IF seen < Max(S) THEN seen ELSE Max(S)
  BY DEF Baseline, Smaller
<1>. HIDE DEF S
<1>8. seen \in Nat /\ posted \in Nat /\ seen <= posted
  BY Bounds
<1>. QED  BY <1>6, <1>7, <1>8

LEMMA BeginKeeps ==
    ASSUME IInv, BeginScan
    PROVE  IInv'
<1>0. /\ TypeOK /\ Came /\ OneHandler /\ Opened /\ NoneSkipped /\ ckpt \in CkptType
      /\ task["handler"].pc = "none"
  BY DEF IInv, TypeOK, CkptType, BeginScan
<1>. DEFINE c == Ensured
            b == Baseline(seen)
<1>1. b \in 0..posted
  BY <1>0, BaselineFits
<1>2. /\ c \in CkptType /\ c.st # "none"
      /\ \/ ckpt.st # "none" /\ c = ckpt
         \/ /\ ckpt.st = "none" /\ c.base = b /\ c.last = b /\ ~c.open
  <2>. HIDE DEF b
  <2>1. CASE ckpt.st # "none"
    BY <1>0, <2>1 DEF Ensured
  <2>2. CASE ckpt.st = "none"
    <3>1. c = [ckpt EXCEPT !.st = "idle", !.base = b, !.last = b]
      BY <2>2 DEF Ensured, b
    <3>2. ~ckpt.open
      BY <1>0, <2>2 DEF Opened
    <3>. HIDE DEF c
    <3>. QED  BY <1>0, <1>1, <2>2, <3>1, <3>2 DEF CkptType
  <2>. QED  BY <2>1, <2>2
<1>. HIDE DEF c, b
<1>3. ckpt' = Begun(c) /\ scan' = [NoScan EXCEPT !.pc = "page", !.bar = Begun(c).bar, !.cur = Begun(c).after]
  BY DEF BeginScan, c
<1>4. /\ ckpt' \in CkptType /\ ckpt'.st = "scanning" /\ ckpt'.open /\ ckpt'.base = c.base
      /\ ckpt'.after = IF c.open THEN c.after ELSE c.last
  <2>1. c.last \in 0..posted /\ c.after \in 0..posted
    BY <1>2 DEF CkptType
  <2>2. CASE c.open
    <3>1. ckpt' = [c EXCEPT !.st = "scanning"]
      BY <1>3, <2>2 DEF Begun
    <3>. QED  BY <1>2, <2>2, <3>1 DEF CkptType
  <2>3. CASE ~c.open
    <3>1. PICK l \in 0..posted : l = Larger(seen, c.last)
      BY <1>0, <2>1, Bounds DEF Larger
    <3>2. ckpt' = [c EXCEPT !.st = "scanning", !.open = TRUE, !.after = c.last, !.bar = l]
      BY <1>3, <2>3, <3>1 DEF Begun
    <3>. QED  BY <1>2, <2>1, <2>3, <3>2 DEF CkptType
  <2>. QED  BY <2>2, <2>3
<1>5. /\ scan' \in ScanType /\ scan'.pc = "page" /\ scan'.cur = ckpt'.after
  <2>1. ckpt'.bar \in 0..posted /\ ckpt'.after \in 0..posted
    BY <1>4 DEF CkptType
  <2>2. scan' = [NoScan EXCEPT !.pc = "page", !.bar = ckpt'.bar, !.cur = ckpt'.after]
    BY <1>3
  <2>3. {} \in SUBSET (1..posted)
    OBVIOUS
  <2>. QED  BY <2>1, <2>2, <2>3 DEF NoScan, ScanType
<1>6. Within /\ task' = task
  <2>1. Came'
    BY <1>0, SameCame DEF BeginScan, discord
  <2>. QED  BY <1>0, <2>1 DEF BeginScan, Within, TypeOK, EventType
<1>7. TypeOK' /\ \A n \in Msg : Dealt(n)' <=> Dealt(n)
  BY <1>0, <1>4, <1>5, <1>6, WithinTypes, Bounds
<1>8. ASSUME NEW n \in Msg, ckpt'.base < n, n <= ckpt'.after  PROVE Dealt(n)'
  <2>1. CASE ckpt.st # "none"
    <3>1. ckpt.base < n /\ n <= IF ckpt.open THEN ckpt.after ELSE ckpt.last
      BY <1>2, <1>4, <1>8, <2>1
    <3>. QED  BY <1>0, <1>7, <3>1 DEF NoneSkipped
  <2>2. CASE ckpt.st = "none"
    <3>1. b < n /\ n <= b
      BY <1>2, <1>4, <1>8, <2>2
    <3>2. b \in Nat /\ n \in Nat
      BY <1>0, <1>1, Bounds
    <3>. QED  BY <3>1, <3>2
  <2>. QED  BY <2>1, <2>2
<1>9. NoneSkipped' /\ ScanFits' /\ Opened'
  BY <1>4, <1>5, <1>8 DEF NoneSkipped, ScanFits, Passed, Opened
<1>10. OneHandler'
  BY <1>0, <1>5, <1>6 DEF OneHandler
<1>. QED  BY <1>6, <1>7, <1>9, <1>10 DEF IInv, Within

LEMMA PageKeeps ==
    ASSUME IInv, Page
    PROVE  IInv'
<1>0. /\ TypeOK /\ Came /\ OneHandler /\ ScanFits /\ scan \in ScanType /\ ckpt \in CkptType
      /\ task["handler"].pc = "none" /\ scan.pc = "page"
  <2>1. TypeOK /\ Came /\ OneHandler /\ ScanFits /\ scan.pc = "page"
    BY DEF IInv, Page
  <2>. QED  BY <2>1 DEF TypeOK, ScanType, CkptType, OneHandler
<1>. DEFINE F == FirstOf(History)
<1>1. History \subseteq Msg /\ F \subseteq History
  BY DEF History, FirstOf
<1>2. F \in SUBSET (1..posted)
  BY <1>0, <1>1, Bounds DEF History, Msg
<1>3. \A n \in History : n \in F \/ (Cardinality(F) = PageSize /\ \A p \in F : p < n)
  BY <1>1, FirstPage
<1>4. PICK full \in BOOLEAN : full = (Cardinality(F) = PageSize)
  OBVIOUS
<1>5. scan' = [scan EXCEPT !.pc = "each", !.page = F, !.full = full]
  BY <1>4 DEF Page
<1>. HIDE DEF F
<1>6. /\ scan' \in ScanType /\ scan'.pc = "each" /\ scan'.page = F /\ scan'.full = full
      /\ scan'.bar = scan.bar /\ scan'.cur = scan.cur
  BY <1>0, <1>2, <1>5 DEF ScanType
<1>7. Within /\ task' = task /\ ckpt' = ckpt
  <2>1. Came'
    BY <1>0, SameCame DEF Page, discord
  <2>. QED  BY <1>0, <2>1 DEF Page, Within, TypeOK, EventType, db
<1>8. TypeOK' /\ world' = world /\ \A n \in Msg : Dealt(n)' <=> Dealt(n)
  BY <1>0, <1>6, <1>7, WithinTypes, Bounds
<1>9. NoneSkipped' /\ Opened'
  BY <1>7, <1>8 DEF IInv, NoneSkipped, Opened
<1>10. Passed'
  BY <1>0, <1>6, <1>7, <1>8 DEF ScanFits, Passed, Claimed
<1>11. \A p \in scan'.page : scan'.cur < p /\ p <= scan'.bar
  BY <1>1, <1>6 DEF History
<1>12. ASSUME NEW n \in Msg, scan.cur < n, n <= scan.bar  PROVE Left(n)'
  <2>1. n <= posted
    BY <1>0, <1>12, Bounds
  <2>2. n \in History \/ world[n] = "gone"
    BY <1>12, <2>1 DEF History
  <2>. QED  BY <1>3, <1>4, <1>6, <1>8, <2>2 DEF Left
<1>13. ScanFits'
  BY <1>6, <1>10, <1>11, <1>12 DEF ScanFits
<1>14. OneHandler'
  BY <1>0, <1>6, <1>7 DEF OneHandler
<1>. QED  BY <1>7, <1>8, <1>9, <1>13, <1>14 DEF IInv, Within

LEMMA EachKeeps ==
    ASSUME IInv, NEW m \in Msg, Each(m)
    PROVE  IInv'
<1>0. /\ TypeOK /\ Came /\ OneHandler /\ ScanFits /\ scan \in ScanType /\ ckpt \in CkptType
      /\ task["handler"].pc = "none" /\ scan.pc = "each" /\ "handler" \in Who
  <2>1. TypeOK /\ Came /\ OneHandler /\ ScanFits /\ scan.pc = "each" /\ task["handler"].pc = "none"
    BY DEF IInv, Each
  <2>. QED  BY <2>1 DEF TypeOK, ScanType, CkptType, Who
<1>a. \A n \in Msg : n \in Nat
  BY <1>0, Bounds
<1>b. scan.cur \in Nat /\ scan.bar \in Nat
  BY <1>0, Bounds
<1>1. m \in scan.page /\ m \in Nat /\ m <= posted /\ \A p \in scan.page : m <= p
  BY <1>0, Bounds DEF Each, Least
<1>2. /\ scan' \in ScanType /\ scan'.pc = "each" /\ scan'.page = scan.page \ {m} /\ scan'.cur = m
      /\ scan'.full = scan.full /\ scan'.bar = scan.bar
  <2>1. PICK P \in SUBSET (1..posted) : P = scan.page \ {m}
    BY <1>0 DEF ScanType
  <2>2. m \in 0..posted
    BY <1>0, <1>1, Bounds
  <2>3. scan' = [scan EXCEPT !.page = P, !.cur = m]
    BY <2>1 DEF Each
  <2>. QED  BY <1>0, <2>1, <2>2, <2>3 DEF ScanType
<1>3. /\ task' \in [Who -> Local]
      /\ \/ row[m].st # "none" /\ task' = task
         \/ /\ task'["handler"].m = m /\ task'["handler"].by = "scan"
            /\ \/ task'["handler"].pc = "claim"
               \/ task'["handler"].pc = "read" /\ row[m].st # "none"
  <2>1. CASE UNCHANGED task /\ row[m].st # "none"
    BY <1>0, <2>1, Bounds
  <2>2. ASSUME NEW pc \in {"claim", "read"}, Handle(m, pc, "scan"),
               pc = "read" => row[m].st # "none"
        PROVE  /\ task' \in [Who -> Local]
               /\ task'["handler"].m = m /\ task'["handler"].by = "scan"
               /\ \/ task'["handler"].pc = "claim"
                  \/ task'["handler"].pc = "read" /\ row[m].st # "none"
    <3>. DEFINE l == [m |-> m, pc |-> pc, by |-> "scan"]
    <3>1. l \in Local /\ l.m = m /\ l.pc = pc /\ l.by = "scan"
      BY DEF Local, Msg
    <3>2. task' = [task EXCEPT !["handler"] = l]
      BY <2>2 DEF Handle
    <3>. HIDE DEF l
    <3>3. task' \in [Who -> Local] /\ task'["handler"] = l
      BY <1>0, <3>1, <3>2, Bounds
    <3>. QED  BY <2>2, <3>1, <3>3
  <2>3. m \in PendingPreflights => row[m].st # "none"
    BY DEF PendingPreflights
  <2>4. \/ UNCHANGED task /\ row[m].st # "none"
        \/ Handle(m, "claim", "scan")
        \/ Handle(m, "read", "scan") /\ row[m].st # "none"
    BY <2>3 DEF Each
  <2>. QED  BY <2>1, <2>2, <2>4
<1>4. Within /\ ckpt' = ckpt /\ row' = row
  <2>1. Came'
    BY <1>0, SameCame DEF Each, discord
  <2>. QED  BY <1>0, <2>1 DEF Each, Within, TypeOK, EventType, db
<1>5. TypeOK' /\ world' = world /\ \A n \in Msg : Dealt(n)' <=> Dealt(n)
  BY <1>0, <1>2, <1>3, <1>4, WithinTypes
<1>6. NoneSkipped' /\ Opened'
  BY <1>4, <1>5 DEF IInv, NoneSkipped, Opened
<1>7. ASSUME NEW n \in Msg, ckpt.base < n, n <= m  PROVE Dealt(n)' \/ Claimed(n)'
  <2>0. n \in Nat /\ m \in Nat /\ scan.cur \in Nat /\ scan.bar \in Nat /\ n <= m
    BY <1>a, <1>b, <1>1, <1>7
  <2>1. CASE n <= scan.cur
    <3>1. Dealt(n) \/ Claimed(n)
      BY <1>0, <1>7, <2>1 DEF ScanFits, Passed
    <3>2. ~Claimed(n)
      BY <1>0 DEF Claimed
    <3>. QED  BY <1>5, <3>1, <3>2
  <2>2. CASE n = m
    <3>1. Claimed(m)' \/ row[m].st # "none"
      BY <1>3 DEF Claimed
    <3>. QED  BY <1>5, <2>2, <3>1 DEF Dealt
  <2>3. CASE scan.cur < n /\ n < m
    <3>0. m <= scan.bar
      BY <1>0, <1>1 DEF ScanFits
    <3>1. n <= scan.bar
      BY <2>0, <2>3, <3>0
    <3>2. Left(n)
      BY <1>0, <2>3, <3>1 DEF ScanFits
    <3>3. n \notin scan.page /\ ~(m < n)
      BY <1>a, <1>1, <2>3
    <3>4. world[n] = "gone"
      BY <1>1, <3>2, <3>3 DEF Left
    <3>. QED  BY <1>5, <3>4 DEF Dealt
  <2>4. n <= scan.cur \/ n = m \/ (scan.cur < n /\ n < m)
    BY <2>0
  <2>. QED  BY <2>1, <2>2, <2>3, <2>4
<1>8. Passed'
  BY <1>2, <1>4, <1>7 DEF Passed
<1>9. \A p \in scan'.page : scan'.cur < p /\ p <= scan'.bar
  <2>1. \A p \in scan.page \ {m} : p \in Nat /\ m <= p /\ p # m /\ p <= scan.bar
    BY <1>0, <1>1, Bounds DEF ScanFits
  <2>. QED  BY <1>1, <1>2, <2>1
<1>10. ASSUME NEW n \in Msg, m < n, n <= scan.bar  PROVE Left(n)'
  <2>1. scan.cur < m
    BY <1>0, <1>1 DEF ScanFits
  <2>2. scan.cur < n
    BY <1>a, <1>b, <1>1, <1>10, <2>1
  <2>3. Left(n)
    BY <1>0, <1>10, <2>2 DEF ScanFits
  <2>4. n # m
    BY <1>a, <1>1, <1>10
  <2>. QED  BY <1>2, <1>5, <2>3, <2>4 DEF Left
<1>11. ScanFits'
  BY <1>2, <1>8, <1>9, <1>10 DEF ScanFits
<1>12. OneHandler'
  BY <1>0, <1>2, <1>3 DEF OneHandler
<1>. QED  BY <1>4, <1>5, <1>6, <1>11, <1>12 DEF IInv, Within

LEMMA RecordKeeps ==
    ASSUME IInv, RecordProgress
    PROVE  IInv'
<1>0. /\ TypeOK /\ Came /\ OneHandler /\ ScanFits /\ NoneSkipped /\ scan \in ScanType
      /\ ckpt \in CkptType /\ task["handler"].pc = "none" /\ scan.pc = "each"
  <2>1. /\ TypeOK /\ Came /\ OneHandler /\ ScanFits /\ NoneSkipped /\ scan.pc = "each"
        /\ task["handler"].pc = "none"
    BY DEF IInv, RecordProgress, PageDone
  <2>. QED  BY <2>1 DEF TypeOK, ScanType, CkptType
<1>1. /\ scan' \in ScanType /\ scan'.pc = "page" /\ scan'.cur = scan.cur
  BY <1>0, ScanToTypes DEF RecordProgress
<1>2. /\ ckpt' \in CkptType /\ ckpt'.st = ckpt.st /\ ckpt'.base = ckpt.base /\ ckpt'.last = ckpt.last
      /\ ckpt'.open = ckpt.open /\ ckpt'.after = scan.cur
  BY <1>0 DEF RecordProgress, CkptType, ScanType
<1>3. Within /\ task' = task
  <2>1. Came'
    BY <1>0, SameCame DEF RecordProgress, discord
  <2>. QED  BY <1>0, <2>1 DEF RecordProgress, Within, TypeOK, EventType
<1>4. TypeOK' /\ \A n \in Msg : Dealt(n)' <=> Dealt(n)
  BY <1>0, <1>1, <1>2, <1>3, WithinTypes, Bounds
<1>5. \A n \in Msg : ckpt.base < n /\ n <= scan.cur => Dealt(n)
  BY <1>0 DEF ScanFits, Passed, Claimed
<1>6. NoneSkipped'
  BY <1>0, <1>2, <1>4, <1>5 DEF NoneSkipped
<1>7. ScanFits' /\ Opened'
  BY <1>1, <1>2, <1>4, <1>5 DEF IInv, ScanFits, Passed, Opened
<1>8. OneHandler'
  BY <1>0, <1>1, <1>3 DEF OneHandler
<1>. QED  BY <1>3, <1>4, <1>6, <1>7, <1>8 DEF IInv, Within

LEMMA CompleteKeeps ==
    ASSUME IInv, Complete
    PROVE  IInv'
<1>0. /\ TypeOK /\ Came /\ OneHandler /\ ScanFits /\ scan \in ScanType /\ ckpt \in CkptType
      /\ task["handler"].pc = "none" /\ scan.pc \in {"page", "each"}
  <2>1. TypeOK /\ Came /\ OneHandler /\ ScanFits /\ scan.pc \in {"page", "each"}
    BY DEF IInv, Complete, PageDone
  <2>2. task["handler"].pc = "none"
    BY <2>1 DEF Complete, PageDone, OneHandler
  <2>. QED  BY <2>1, <2>2 DEF TypeOK, ScanType, CkptType
<1>1. scan' \in ScanType /\ scan'.pc = "drain"
  BY <1>0, NoScanTypes DEF Complete
<1>2. /\ ckpt' \in CkptType /\ ckpt'.st = "idle" /\ ckpt'.base = ckpt.base /\ ckpt'.last = scan.bar
      /\ ~ckpt'.open /\ ckpt'.bar = 0
  <2>1. ckpt' = [ckpt EXCEPT !.st = "idle", !.open = FALSE, !.last = scan.bar, !.after = 0, !.bar = 0]
    BY DEF Complete, ScannedTo
  <2>2. scan.bar \in 0..posted /\ 0 \in 0..posted
    BY <1>0, Bounds
  <2>. QED  BY <1>0, <2>1, <2>2 DEF CkptType
<1>3. Within /\ task' = task
  <2>1. Came'
    BY <1>0, SameCame DEF Complete, discord
  <2>. QED  BY <1>0, <2>1 DEF Complete, Within, TypeOK, EventType
<1>4. TypeOK' /\ \A n \in Msg : Dealt(n)' <=> Dealt(n)
  BY <1>0, <1>1, <1>2, <1>3, WithinTypes, Bounds
<1>5. ASSUME NEW n \in Msg, ckpt.base < n, n <= scan.bar  PROVE Dealt(n)
  <2>1. CASE n <= scan.cur
    BY <1>0, <1>5, <2>1 DEF ScanFits, Passed, Claimed
  <2>2. CASE scan.cur < n
    <3>1. CASE PageDone /\ ~scan.full
      <4>1. Left(n) /\ scan.page = {}
        BY <1>5, <2>2, <3>1, <1>0 DEF ScanFits, PageDone
      <4>. QED  BY <3>1, <4>1 DEF Left, Dealt
    <3>2. CASE History = {}
      <4>1. n <= posted
        BY <1>0, <1>5, Bounds
      <4>2. world[n] = "gone"
        BY <1>5, <2>2, <3>2, <4>1 DEF History
      <4>. QED  BY <4>2 DEF Dealt
    <3>. QED  BY <3>1, <3>2 DEF Complete
  <2>3. n <= scan.cur \/ scan.cur < n
    BY <1>0, Bounds
  <2>. QED  BY <2>1, <2>2, <2>3
<1>6. NoneSkipped' /\ ScanFits' /\ Opened'
  BY <1>1, <1>2, <1>4, <1>5 DEF NoneSkipped, ScanFits, Opened
<1>7. OneHandler'
  BY <1>0, <1>1, <1>3 DEF OneHandler
<1>. QED  BY <1>3, <1>4, <1>6, <1>7 DEF IInv, Within

LEMMA TakeBufferKeeps ==
    ASSUME IInv, TakeBuffer
    PROVE  IInv'
<1>0. TypeOK /\ Came /\ OneHandler /\ task["handler"].pc = "none" /\ scan \in ScanType
  BY DEF IInv, TakeBuffer, TypeOK, ScanType
<1>1. UNCHANGED <<discord, row, out, ckpt, task, due, told, faults>>
  BY DEF TakeBuffer, db
<1>2. /\ \/ scan' = NoScan /\ scan'.pc = "off"
         \/ scan' = scan
      /\ scan' \in ScanType /\ scanning' \in BOOLEAN
  <2>1. \/ scanning' = FALSE /\ scan' = NoScan
        \/ scanning' = scanning /\ scan' = scan
    BY DEF TakeBuffer
  <2>2. NoScan \in ScanType /\ NoScan.pc = "off" /\ scanning \in BOOLEAN
    BY <1>0, NoScanTypes DEF TypeOK
  <2>3. posted' = posted
    BY <1>1 DEF discord
  <2>. QED  BY <1>0, <2>1, <2>2, <2>3
<1>3. event' \in [Msg -> EventType] /\ Came'
  <2>1. event \in [Msg -> EventType]
    BY <1>0 DEF TypeOK, EventType
  <2>2. \A n \in Msg : event'[n] = event[n] \/ event[n] # "none"
    BY <2>1 DEF TakeBuffer
  <2>3. event' \in [Msg -> EventType]
    BY <2>1 DEF TakeBuffer, EventType
  <2>. QED  BY <1>0, <1>1, <2>1, <2>2, <2>3 DEF Came, discord
<1>4. TypeOK' /\ Grows /\ posted <= posted'
  BY <1>0, <1>1, <1>2, <1>3, Bounds DEF TypeOK, discord, ScanType, EventType, Grows
<1>5. CASE scan' = scan
  BY <1>1, <1>3, <1>4, <1>5, QuietStep DEF Claimed
<1>6. CASE scan'.pc = "off"
  BY <1>0, <1>1, <1>3, <1>4, <1>6, AwayStep
<1>. QED  BY <1>2, <1>5, <1>6

LEMMA DrainKeeps ==
    ASSUME IInv, NEW m \in Msg, Drain(m)
    PROVE  IInv'
<1>0. /\ TypeOK /\ Came /\ ScanFits /\ scan.pc = "drain" /\ "handler" \in Who
  BY DEF IInv, Drain, MayDrain, Who
<1>. DEFINE l == [m |-> m, pc |-> "claim", by |-> "drain"]
<1>1. l \in Local /\ l.by = "drain" /\ l.pc = "claim"
  BY DEF Local, Msg
<1>2. task' = [task EXCEPT !["handler"] = l]
  BY DEF Drain, Handle
<1>. HIDE DEF l
<1>3. task' \in [Who -> Local] /\ task'["handler"] = l
  BY <1>0, <1>1, <1>2, Bounds
<1>4. UNCHANGED <<discord, db, scanning, scan, due, told, faults>>
  BY DEF Drain
<1>5. event' \in [Msg -> EventType] /\ Came'
  <2>1. event' = [event EXCEPT ![m] = "over"] /\ event \in [Msg -> EventType] /\ event[m] # "none"
    BY <1>0 DEF Drain, TypeOK, EventType, Least, At
  <2>2. \A n \in Msg : event'[n] = event[n] \/ n = m
    BY <2>1
  <2>. QED  BY <1>0, <1>4, <2>1, <2>2 DEF EventType, Came, discord
<1>6. TypeOK'
  BY <1>0, <1>3, <1>4, <1>5 DEF TypeOK, EventType, discord, db, Local
<1>7. NoneSkipped' /\ Opened'
  BY <1>4 DEF IInv, NoneSkipped, Opened, Dealt, discord, db
<1>8. ScanFits' /\ OneHandler'
  BY <1>0, <1>1, <1>3, <1>4 DEF ScanFits, OneHandler, db
<1>. QED  BY <1>5, <1>6, <1>7, <1>8 DEF IInv

-----------------------------------------------------------------------------
(* The behaviours. *)

LEMMA InitHolds ==
    ASSUME Init
    PROVE  IInv
<1>1. /\ N \in Nat /\ Scopes \subseteq {"thread", "parent"}
  BY IntakeAssumption
<1>2. posted = 0 /\ 0 \in 0..posted /\ 0 \in 0..N /\ {} \in SUBSET (1..posted)
  BY <1>1 DEF Init
<1>3. Idle \in Local /\ NoRow \in RowType
  BY <1>2 DEF Idle, Local, NoRow, RowType
<1>4. row \in [Msg -> RowType] /\ task \in [Who -> Local] /\ task["handler"] = Idle
  BY <1>3 DEF Init, Who
<1>5. scan \in ScanType /\ scan.pc = "off" /\ ckpt \in CkptType
  BY <1>2 DEF Init, NoScan, ScanType, CkptType
<1>6. TypeOK
  BY <1>1, <1>2, <1>4, <1>5 DEF Init, TypeOK, ScanType, CkptType, Local, RowType
<1>7. Came
  BY DEF Init, Came
<1>8. NoneSkipped
  <2>1. ckpt.base = 0 /\ ckpt.last = 0 /\ ~ckpt.open /\ ckpt.st = "none"
    BY DEF Init
  <2>2. \A n \in Msg : ~(0 < n /\ n <= 0)
    BY <1>1 DEF Msg
  <2>. QED  BY <2>1, <2>2 DEF NoneSkipped
<1>9. Opened /\ ScanFits /\ OneHandler
  BY <1>4, <1>5 DEF Init, Opened, ScanFits, OneHandler, Idle
<1>. QED  BY <1>6, <1>7, <1>8, <1>9 DEF IInv

LEMMA NextKeeps ==
    ASSUME IInv, [Next]_vars
    PROVE  IInv'
<1>1. CASE UNCHANGED vars
  <2>1. IInv <=> IInv'
    BY <1>1 DEF vars, IInv, TypeOK, Came, Opened, NoneSkipped, ScanFits, OneHandler, Passed, Left,
                Claimed, Dealt
  <2>. QED  BY <2>1
<1>2. ASSUME NEW st \in {"good", "empty"}, Post(st)  PROVE IInv'
  BY <1>2, WorldKeeps
<1>3. ASSUME NEW m \in Msg, Edit(m) \/ Back(m)  PROVE IInv'
  BY <1>3, OutboxKeeps, StartPreflightKeeps DEF Back
<1>4. ASSUME NEW m \in Msg, Remove(m)  PROVE IInv'
  BY <1>4, WorldKeeps
<1>5. ASSUME NEW m \in Msg, ClaimFails(m) \/ Handler(m)  PROVE IInv'
  BY <1>5, ClaimKeeps, PreflightKeeps DEF Handler
<1>6. ASSUME NEW m \in Msg, NEW w \in Who, InputRefused(w, m)  PROVE IInv'
  BY <1>6, PreflightKeeps
<1>7. ASSUME NEW m \in Msg, Live(m)  PROVE IInv'
  BY <1>7, LiveKeeps, TakeLiveKeeps DEF Live
<1>8. CASE Disconnect \/ Resume \/ Ready
  BY <1>8, WorldKeeps
<1>9. CASE Scan
  BY <1>9, AwayKeeps, BeginKeeps, PageKeeps, RecordKeeps, CompleteKeeps, TakeBufferKeeps,
     EachKeeps, DrainKeeps DEF Scan
<1>10. CASE ScanFails \/ ScanForbidden
  BY <1>10, AwayKeeps
<1>11. CASE Crash
  BY <1>11, CrashKeeps
<1>. QED  BY <1>1, <1>2, <1>3, <1>4, <1>5, <1>6, <1>7, <1>8, <1>9, <1>10, <1>11 DEF Next

\* Whatever Turn or refusal an input came to, a step leaves it at that.
LEMMA VerdictKept ==
    ASSUME IInv, [Next]_vars, NEW m \in Msg, row[m].st \in Closed
    PROVE  row'[m].st = row[m].st
<1>0. TypeOK /\ row[m].st \notin Pending /\ row[m].st # "none"
  BY DEF IInv, Pending, Closed
<1>1. CASE row' = row
  BY <1>1
<1>2. ASSUME NEW n \in Msg, NEW st \in Pending, NewRow(n, st), row[n].st = "none"
      PROVE  row'[m].st = row[m].st
  <2>1. n # m
    BY <1>0, <1>2
  <2>. QED  BY <1>0, <1>2, <2>1, Bounds DEF NewRow
<1>3. ASSUME NEW n \in Msg, NEW w \in Who, EnqueueTurn(w, n)  PROVE row'[m].st = row[m].st
  <2>1. CASE row[n].st \in Pending /\ row' = Close(n, "ready")
    <3>1. n # m
      BY <1>0, <2>1
    <3>. QED  BY <1>0, <2>1, <3>1, Closes DEF Closed
  <2>. QED  BY <1>3, <2>1 DEF EnqueueTurn
<1>4. ASSUME NEW n \in Msg, row' = Rejected(n)  PROVE row'[m].st = row[m].st
  BY <1>0, <1>4, Rejects
<1>5. ASSUME NEW n \in Msg, Edit(n) \/ Deliver(n)  PROVE row'[m].st = row[m].st
  <2>1. row' = row \/ (n # m /\ \A k \in Msg \ {n} : row'[k] = row[k])
    BY <1>0, <1>5, Bounds DEF Edit, Deliver, Pending, Closed
  <2>. QED  BY <2>1
<1>6. CASE Crash
  <2>1. row' = [n \in Msg |-> Recovered(n)]
    BY <1>6 DEF Crash
  <2>2. PICK b \in BOOLEAN : Recovered(m) = [row[m] EXCEPT !.old = b]
    <3>1. (row[m].st \in Pending) \in BOOLEAN /\ row[m].st # "pending_preflight"
      BY <1>0 DEF Pending
    <3>. QED  BY <3>1 DEF Recovered
  <2>3. row[m] \in RowType
    BY <1>0, Bounds
  <2>. QED  BY <2>1, <2>2, <2>3 DEF RowType
<1>7. CASE \E st \in {"good", "empty"} : Post(st)
  BY <1>1, <1>7 DEF Post, db
<1>8. ASSUME NEW n \in Msg, Handler(n)  PROVE row'[m].st = row[m].st
  <2>1. CASE ClaimIngress(n) \/ RequestThread(n)
    BY <1>2, <2>1 DEF ClaimIngress, RequestThread, Pending
  <2>2. CASE RefuseEmpty(n) \/ AlreadyAccepted(n) \/ \E w \in Who : ReadIngress(w, n)
    BY <1>1, <2>2 DEF RefuseEmpty, AlreadyAccepted, ReadIngress, db
  <2>3. CASE \E w \in Who : RejectIngress(w, n)
    BY <1>4, <2>3 DEF RejectIngress
  <2>. QED  BY <1>3, <1>8, <2>1, <2>2, <2>3 DEF Handler
<1>9. ASSUME NEW n \in Msg, Back(n)  PROVE row'[m].st = row[m].st
  BY <1>1, <1>4, <1>5, <1>9 DEF Back, StartPreflight, Acknowledge, FailThreadCreation, db
<1>10. ASSUME NEW n \in Msg,
             Remove(n) \/ ClaimFails(n) \/ Live(n) \/ \E w \in Who : InputRefused(w, n)
      PROVE  row'[m].st = row[m].st
  BY <1>1, <1>10 DEF Remove, ClaimFails, Live, Dispatch, ProcessLive, TakeLive, InputRefused, db
<1>11. CASE Disconnect \/ Resume \/ Ready \/ Scan \/ ScanFails \/ ScanForbidden
  <2>1. row' = row
    BY <1>11 DEF Disconnect, Resume, Ready, Scan, ScanFails, ScanForbidden, Trigger, Discover,
       BlockedScan, BeginScan, Page, RecordProgress, Complete, TakeBuffer, Each, Drain, db
  <2>. QED  BY <2>1
<1>12. CASE UNCHANGED vars
  BY <1>12 DEF vars
<1>. QED  BY <1>5, <1>6, <1>7, <1>8, <1>9, <1>10, <1>11, <1>12 DEF Next

\* The invariant: where the scan, its checkpoint and the handler stand.
THEOREM InductiveInvariant == Spec => []IInv
<1>1. Init => IInv
  BY InitHolds
<1>2. IInv /\ [Next]_vars => IInv'
  BY NextKeeps
<1>. QED  BY <1>1, <1>2, PTL DEF Spec

\* Each variable holds what the code keeps in it.
THEOREM TypeCorrect == Spec => []TypeOK
<1>1. IInv => TypeOK
  BY DEF IInv
<1>. QED  BY <1>1, InductiveInvariant, PTL

\* The checkpoint of a channel (ingress_repository.py, update and complete) never passes a
\* message that was neither claimed nor refused to its author nor deleted, however
\* live events, pages, failures and restarts come between.
THEOREM NoneIsSkipped == Spec => []NoneSkipped
<1>1. IInv => NoneSkipped
  BY DEF IInv
<1>. QED  BY <1>1, InductiveInvariant, PTL

\* A message out of the buffer of a scan (_drain_buffered) is handled only when
\* every earlier one the scan was to read has been dealt with.
THEOREM BufferStaysInOrder == Spec => []BufferedInOrder
<1>1. ASSUME IInv  PROVE BufferedInOrder
  <2>1. CASE task["handler"].by = "drain"
    <3>1. scan.pc = "drain" /\ ~ckpt.open /\ ckpt.bar = 0
      BY <1>1, <2>1 DEF IInv, OneHandler, ScanFits
    <3>2. Larger(ckpt.last, ckpt.bar) = ckpt.last
      BY <1>1, <3>1, Bounds DEF IInv, Larger
    <3>3. \A n \in Msg : ckpt.base < n /\ n <= ckpt.last => Dealt(n)
      BY <1>1, <3>1 DEF IInv, NoneSkipped
    <3>. QED  BY <3>2, <3>3 DEF BufferedInOrder
  <2>2. CASE task["handler"].by # "drain"
    BY <2>2 DEF BufferedInOrder
  <2>. QED  BY <2>1, <2>2
<1>. QED  BY <1>1, InductiveInvariant, PTL

\* A refused message gets no Turn later, and no second preflight takes a Turn
\* back (enqueue_turn, reject_ingress and recover_startup look at the row first).
THEOREM VerdictsStand == Spec => VerdictStands
<1>1. IInv /\ [Next]_vars => [\A m \in Msg : row[m].st \in Closed => row'[m].st = row[m].st]_vars
  BY VerdictKept
<1>. QED  BY <1>1, InductiveInvariant, PTL DEF Spec, VerdictStands
==============================================================================
