---------------------------- MODULE Artifacts_proofs ---------------------------
(***************************************************************************)
(* Proofs about Artifacts: types, and that neither retention nor a rival   *)
(* takes a file from a Turn that waits for it or from an answer that shows *)
(* it, for any number of Turns, calls and failures.                        *)
(***************************************************************************)
EXTENDS Artifacts, TLAPS

Over == {"ended", "gone"}

\* What holds of the files of one Turn. A file in hand is not a day old; what
\* retention is about to unlink belongs to a Turn that is over, and what its
\* sweep does not know of is not a day old.
Kept(t) ==
    /\ intake[t] # "done" => turn[t] = "none"
    /\ turn[t] = "none" => t \notin tree /\ work[t] = "idle"
    /\ final[t] # "none" => turn[t] \in Over
    /\ t \in tree => work[t] = "done"
    /\ t \in memory /\ turn[t] \in Live => t \in attachment /\ <<"input", t>> \in files
    /\ t \in tree /\ turn[t] \in Live => <<"tree", t>> \in files
    /\ intake[t] = "stored" => <<"input", t>> \notin aged
    /\ work[t] = "copied" => <<"tree", t>> \in files \ aged
    /\ worker.at = "unlink" =>
          /\ <<"input", t>> \in worker.picked => turn[t] \in Over
          /\ <<"tree", t>> \in worker.picked => turn[t] \in Over /\ work[t] = "done"
    /\ worker.at = "delete" /\ {<<"input", t>>, <<"tree", t>>} \cap worker.unlinked # {}
          => turn[t] \in Over
    /\ worker.at = "sweep" =>
          /\ t \in attachment /\ <<"input", t>> \in aged => <<"input", t>> \in worker.picked
          /\ t \in tree /\ <<"tree", t>> \in aged => <<"tree", t>> \in worker.picked

\* What holds of the image of one call.
Published(c) ==
    /\ call[c] = "committed" => <<"image", c>> \in files \ aged
    /\ c \in late \/ image = c => call[c] = "answered"
    /\ worker.at = "unlink" /\ <<"image", c>> \in worker.picked
          => call[c] = "answered" /\ final[Author] = "settled"
    /\ image = c /\ c \notin torn /\ final[Author] # "settled" => <<"image", c>> \in files
    /\ worker.at = "sweep" /\ image = c /\ c \notin torn /\ <<"image", c>> \in aged
          => <<"image", c>> \in worker.picked

IInv ==
    /\ TypeOK
    /\ \A t \in Turns : Kept(t)
    /\ \A c \in Calls : Published(c)

-----------------------------------------------------------------------------
(***************************************************************************)
(* Every action keeps the three parts.                                     *)
(***************************************************************************)

\* A final answer that is settled stays so: only a Turn that is not over ends.
LEMMA SettledStays ==
    ASSUME IInv, NEW u \in Turns, turn[u] \in Live, Ended(u)
    PROVE  final[Author] = "settled" => final'[Author] = "settled"
<1>1. SUFFICES ASSUME final[Author] = "settled" PROVE final'[Author] = "settled"
  OBVIOUS
<1>2. turn[Author] \in Over
  BY <1>1, ArtifactsAssumption DEF IInv, Kept
<1>3. u # Author
  BY <1>2 DEF Over, Live
<1>. QED BY <1>1, <1>3, ArtifactsAssumption DEF IInv, TypeOK, Ended

\* What a Turn does leaves the images alone.
LEMMA ImagesAlone ==
    ASSUME IInv, UNCHANGED <<publishing, worker>>,
           \A c \in Calls : <<"image", c>> \in files => <<"image", c>> \in files',
           \A c \in Calls : <<"image", c>> \in aged' => <<"image", c>> \in aged,
           final[Author] = "settled" => final'[Author] = "settled"
    PROVE  \A c \in Calls : Published(c)'
BY DEF IInv, Published, publishing


LEMMA BeginDownloadKeeps == ASSUME IInv, NEW u \in Turns, BeginDownload(u) PROVE IInv'
<1>1. TypeOK'
  BY DEF IInv, TypeOK, File, Live, NoCall, BeginDownload, Put, publishing, clock
<1>2. ASSUME NEW p \in Turns PROVE Kept(p)'
  BY DEF IInv, TypeOK, Kept, Over, Live, BeginDownload, Put, publishing, clock
<1>3. ASSUME NEW c \in Calls PROVE Published(c)'
  BY ArtifactsAssumption DEF IInv, TypeOK, Kept, Published, Over, Live, NoCall, BeginDownload,
       Put, publishing, clock
<1>. QED BY <1>1, <1>2, <1>3 DEF IInv

LEMMA StoreInputKeeps == ASSUME IInv, NEW u \in Turns, StoreInput(u) PROVE IInv'
<1>1. TypeOK'
  BY DEF IInv, TypeOK, File, Live, NoCall, StoreInput, Rename, publishing, clock
<1>2. ASSUME NEW p \in Turns PROVE Kept(p)'
  BY DEF IInv, TypeOK, Kept, Over, Live, StoreInput, Rename, publishing, clock
<1>3. ASSUME NEW c \in Calls PROVE Published(c)'
  BY ArtifactsAssumption DEF IInv, TypeOK, Kept, Published, Over, Live, NoCall, StoreInput,
       Rename, publishing, clock
<1>. QED BY <1>1, <1>2, <1>3 DEF IInv

LEMMA DownloadFailsKeeps == ASSUME IInv, NEW u \in Turns, DownloadFails(u) PROVE IInv'
<1>1. TypeOK'
  BY ArtifactsAssumption DEF IInv, TypeOK, File, Live, NoCall, DownloadFails, Fault, Remove,
       publishing, clock
<1>2. ASSUME NEW p \in Turns PROVE Kept(p)'
  BY DEF IInv, TypeOK, Kept, Over, Live, DownloadFails, Fault, Remove, publishing, clock
<1>3. ASSUME NEW c \in Calls PROVE Published(c)'
  BY ArtifactsAssumption DEF IInv, TypeOK, Kept, Published, Over, Live, NoCall, DownloadFails,
       Fault, Remove, publishing, clock
<1>. QED BY <1>1, <1>2, <1>3 DEF IInv

LEMMA EnqueueKeeps == ASSUME IInv, NEW u \in Turns, Enqueue(u) PROVE IInv'
<1>1. TypeOK'
  BY DEF IInv, TypeOK, File, Live, NoCall, Enqueue, publishing, disk, clock
<1>2. ASSUME NEW p \in Turns PROVE Kept(p)'
  BY DEF IInv, TypeOK, Kept, Over, Live, Enqueue, publishing, disk, clock
<1>3. ASSUME NEW c \in Calls PROVE Published(c)'
  BY ArtifactsAssumption DEF IInv, TypeOK, Kept, Published, Over, Live, NoCall, Enqueue,
       publishing, disk, clock
<1>. QED BY <1>1, <1>2, <1>3 DEF IInv

LEMMA EnqueueRefusedKeeps == ASSUME IInv, NEW u \in Turns, EnqueueRefused(u) PROVE IInv'
<1>1. TypeOK'
  BY ArtifactsAssumption DEF IInv, TypeOK, File, Live, NoCall, EnqueueRefused, Fault, Remove,
       publishing, clock
<1>2. ASSUME NEW p \in Turns PROVE Kept(p)'
  BY DEF IInv, TypeOK, Kept, Over, Live, EnqueueRefused, Fault, Remove, publishing, clock
<1>3. ASSUME NEW c \in Calls PROVE Published(c)'
  BY ArtifactsAssumption DEF IInv, TypeOK, Kept, Published, Over, Live, NoCall, EnqueueRefused,
       Fault, Remove, publishing, clock
<1>. QED BY <1>1, <1>2, <1>3 DEF IInv

LEMMA ClaimKeeps == ASSUME IInv, NEW u \in Turns, Claim(u) PROVE IInv'
<1>1. TypeOK'
  BY DEF IInv, TypeOK, File, Live, NoCall, Claim, Loadable, Ended, publishing, disk, clock
<1>2. ASSUME NEW p \in Turns PROVE Kept(p)'
  BY DEF IInv, TypeOK, Kept, Over, Live, Claim, Loadable, Ended, publishing, disk, clock
<1>3. ASSUME NEW c \in Calls PROVE Published(c)'
  <2>1. CASE Loadable(u)
    BY <2>1, ImagesAlone DEF Claim, disk
  <2>2. CASE ~Loadable(u)
    BY <2>2, SettledStays, ImagesAlone DEF Claim, disk, Live
  <2>. QED BY <2>1, <2>2
<1>. QED BY <1>1, <1>2, <1>3 DEF IInv

LEMMA CreateTreeKeeps == ASSUME IInv, NEW u \in Turns, CreateTree(u) PROVE IInv'
<1>1. TypeOK'
  BY DEF IInv, TypeOK, File, Live, NoCall, CreateTree, Put, publishing, clock
<1>2. ASSUME NEW p \in Turns PROVE Kept(p)'
  BY DEF IInv, TypeOK, Kept, Over, Live, CreateTree, Put, publishing, clock
<1>3. ASSUME NEW c \in Calls PROVE Published(c)'
  BY ArtifactsAssumption DEF IInv, TypeOK, Kept, Published, Over, Live, NoCall, CreateTree, Put,
       publishing, clock
<1>. QED BY <1>1, <1>2, <1>3 DEF IInv

LEMMA CreateTreeFailsKeeps == ASSUME IInv, NEW u \in Turns, CreateTreeFails(u) PROVE IInv'
<1>1. TypeOK'
  BY ArtifactsAssumption DEF IInv, TypeOK, File, Live, NoCall, CreateTreeFails, Fault, Ended,
       publishing, disk, clock
<1>2. ASSUME NEW p \in Turns PROVE Kept(p)'
  BY DEF IInv, TypeOK, Kept, Over, Live, CreateTreeFails, Fault, Ended, publishing, disk, clock
<1>3. ASSUME NEW c \in Calls PROVE Published(c)'
  BY SettledStays, ImagesAlone DEF CreateTreeFails, disk, Live
<1>. QED BY <1>1, <1>2, <1>3 DEF IInv

LEMMA RegisterTreeKeeps == ASSUME IInv, NEW u \in Turns, RegisterTree(u) PROVE IInv'
<1>1. TypeOK'
  BY DEF IInv, TypeOK, File, Live, NoCall, RegisterTree, disk, Remove, publishing, clock
<1>2. ASSUME NEW p \in Turns PROVE Kept(p)'
  <2>1. CASE u \in attachment
    BY <2>1 DEF IInv, TypeOK, Kept, Over, Live, RegisterTree, disk
  <2>2. CASE u \notin attachment
    BY <2>2 DEF IInv, TypeOK, Kept, Over, Live, RegisterTree, Remove
  <2>. QED BY <2>1, <2>2
<1>3. ASSUME NEW c \in Calls PROVE Published(c)'
  BY ArtifactsAssumption DEF IInv, TypeOK, Kept, Published, Over, Live, NoCall, RegisterTree,
       disk, Remove, publishing, clock
<1>. QED BY <1>1, <1>2, <1>3 DEF IInv

LEMMA VerifyFailsKeeps == ASSUME IInv, NEW u \in Turns, VerifyFails(u) PROVE IInv'
<1>1. TypeOK'
  BY ArtifactsAssumption DEF IInv, TypeOK, File, Live, NoCall, VerifyFails, Fault, Remove,
       Ended, publishing, clock
<1>2. ASSUME NEW p \in Turns PROVE Kept(p)'
  BY DEF IInv, TypeOK, Kept, Over, Live, VerifyFails, Fault, Remove, Ended, publishing, clock
<1>3. ASSUME NEW c \in Calls PROVE Published(c)'
  BY SettledStays, ImagesAlone DEF VerifyFails, Remove, Live
<1>. QED BY <1>1, <1>2, <1>3 DEF IInv

LEMMA StartTurnKeeps == ASSUME IInv, NEW u \in Turns, StartTurn(u) PROVE IInv'
<1>1. TypeOK'
  BY DEF IInv, TypeOK, File, Live, NoCall, StartTurn, publishing, disk, clock
<1>2. ASSUME NEW p \in Turns PROVE Kept(p)'
  BY DEF IInv, TypeOK, Kept, Over, Live, StartTurn, publishing, disk, clock
<1>3. ASSUME NEW c \in Calls PROVE Published(c)'
  BY ArtifactsAssumption DEF IInv, TypeOK, Kept, Published, Over, Live, NoCall, StartTurn,
       publishing, disk, clock
<1>. QED BY <1>1, <1>2, <1>3 DEF IInv

LEMMA EndTurnKeeps == ASSUME IInv, NEW u \in Turns, EndTurn(u) PROVE IInv'
<1>1. TypeOK'
  BY DEF IInv, TypeOK, File, Live, NoCall, EndTurn, Ended, publishing, disk, clock
<1>2. ASSUME NEW p \in Turns PROVE Kept(p)'
  BY DEF IInv, TypeOK, Kept, Over, Live, EndTurn, Ended, publishing, disk, clock
<1>3. ASSUME NEW c \in Calls PROVE Published(c)'
  BY SettledStays, ImagesAlone DEF EndTurn, disk
<1>. QED BY <1>1, <1>2, <1>3 DEF IInv

LEMMA DeliverKeeps == ASSUME IInv, NEW u \in Turns, Deliver(u) PROVE IInv'
<1>1. TypeOK'
  BY DEF IInv, TypeOK, File, Live, NoCall, Deliver, publishing, disk, clock
<1>2. ASSUME NEW p \in Turns PROVE Kept(p)'
  BY DEF IInv, TypeOK, Kept, Over, Live, Deliver, publishing, disk, clock
<1>3. ASSUME NEW c \in Calls PROVE Published(c)'
  BY ArtifactsAssumption DEF IInv, TypeOK, Kept, Published, Over, Live, NoCall, Deliver,
       publishing, disk, clock
<1>. QED BY <1>1, <1>2, <1>3 DEF IInv

LEMMA PreflightKeeps == ASSUME IInv, NEW d \in Calls, Preflight(d) PROVE IInv'
<1>1. TypeOK'
  BY DEF IInv, TypeOK, File, Live, NoCall, Preflight, Authorized, Put, disk, turns, clock
<1>2. ASSUME NEW p \in Turns PROVE Kept(p)'
  BY DEF IInv, TypeOK, Kept, Over, Live, Preflight, NoCall, Authorized, Put, disk, turns, clock
<1>3. ASSUME NEW c \in Calls PROVE Published(c)'
  BY ArtifactsAssumption DEF IInv, TypeOK, Kept, Published, Over, Live, NoCall, Preflight,
       Authorized, Put, disk, turns, clock
<1>. QED BY <1>1, <1>2, <1>3 DEF IInv

LEMMA CommitImageKeeps == ASSUME IInv, NEW d \in Calls, CommitImage(d) PROVE IInv'
<1>1. TypeOK'
  BY DEF IInv, TypeOK, File, Live, NoCall, CommitImage, Rename, turns, clock
<1>2. ASSUME NEW p \in Turns PROVE Kept(p)'
  BY DEF IInv, TypeOK, Kept, Over, Live, CommitImage, Rename, turns, clock
<1>3. ASSUME NEW c \in Calls PROVE Published(c)'
  BY ArtifactsAssumption DEF IInv, TypeOK, Kept, Published, Over, Live, NoCall, CommitImage,
       Rename, turns, clock
<1>. QED BY <1>1, <1>2, <1>3 DEF IInv

LEMMA ImageFailsKeeps == ASSUME IInv, NEW d \in Calls, ImageFails(d) PROVE IInv'
<1>1. TypeOK'
  BY ArtifactsAssumption DEF IInv, TypeOK, File, Live, NoCall, ImageFails, Fault, Remove, turns,
       clock
<1>2. ASSUME NEW p \in Turns PROVE Kept(p)'
  BY DEF IInv, TypeOK, Kept, Over, Live, ImageFails, Fault, NoCall, Remove, turns, clock
<1>3. ASSUME NEW c \in Calls PROVE Published(c)'
  BY ArtifactsAssumption DEF IInv, TypeOK, Kept, Published, Over, Live, NoCall, ImageFails,
       Fault, Remove, turns, clock
<1>. QED BY <1>1, <1>2, <1>3 DEF IInv

LEMMA CompleteImageKeeps == ASSUME IInv, NEW d \in Calls, CompleteImage(d) PROVE IInv'
<1>1. TypeOK'
  BY DEF IInv, TypeOK, File, Live, NoCall, CompleteImage, Outcome, Authorized, KeptOnlyIf, disk,
       Remove, turns, clock
<1>2. ASSUME NEW p \in Turns PROVE Kept(p)'
  BY DEF IInv, TypeOK, Kept, Over, Live, CompleteImage, Outcome, NoCall, Authorized, KeptOnlyIf,
       disk, Remove, turns, clock
<1>3. ASSUME NEW c \in Calls PROVE Published(c)'
  BY ArtifactsAssumption DEF IInv, TypeOK, Kept, Published, Over, Live, NoCall, CompleteImage,
       Outcome, Authorized, KeptOnlyIf, disk, Remove, turns, clock
<1>. QED BY <1>1, <1>2, <1>3 DEF IInv

LEMMA CallTimesOutKeeps == ASSUME IInv, NEW d \in Calls, CallTimesOut(d) PROVE IInv'
<1>1. TypeOK'
  BY ArtifactsAssumption DEF IInv, TypeOK, File, Live, NoCall, CallTimesOut, Fault, Remove,
       turns, clock
<1>2. ASSUME NEW p \in Turns PROVE Kept(p)'
  BY DEF IInv, TypeOK, Kept, Over, Live, CallTimesOut, Fault, Remove, turns, clock
<1>3. ASSUME NEW c \in Calls PROVE Published(c)'
  BY ArtifactsAssumption DEF IInv, TypeOK, Kept, Published, Over, Live, NoCall, CallTimesOut,
       Fault, Remove, turns, clock
<1>. QED BY <1>1, <1>2, <1>3 DEF IInv

LEMMA LateCompleteKeeps == ASSUME IInv, NEW d \in Calls, LateComplete(d) PROVE IInv'
<1>1. TypeOK'
  BY DEF IInv, TypeOK, File, Live, NoCall, LateComplete, Outcome, Authorized, turns, disk, clock
<1>2. ASSUME NEW p \in Turns PROVE Kept(p)'
  BY DEF IInv, TypeOK, Kept, Over, Live, LateComplete, Outcome, NoCall, Authorized, turns, disk,
       clock
<1>3. ASSUME NEW c \in Calls PROVE Published(c)'
  BY ArtifactsAssumption DEF IInv, TypeOK, Kept, Published, Over, Live, NoCall, LateComplete,
       Outcome, Authorized, turns, disk, clock
<1>. QED BY <1>1, <1>2, <1>3 DEF IInv

LEMMA DayPassesKeeps == ASSUME IInv, DayPasses, worker.at = "idle",
           UNCHANGED <<turns, publishing, worker, faults>>
    PROVE IInv'
<1>1. TypeOK'
  BY DEF IInv, TypeOK, File, Live, NoCall, DayPasses, InHand, clock, turns, publishing
<1>2. ASSUME NEW p \in Turns PROVE Kept(p)'
  BY DEF IInv, TypeOK, Kept, Over, Live, DayPasses, InHand, clock, turns, publishing
<1>3. ASSUME NEW c \in Calls PROVE Published(c)'
  BY ArtifactsAssumption DEF IInv, TypeOK, Kept, Published, Over, Live, NoCall, DayPasses,
       InHand, clock, turns, publishing
<1>. QED BY <1>1, <1>2, <1>3 DEF IInv

LEMMA DeadlinePassesKeeps == ASSUME IInv, DeadlinePasses, worker.at = "idle",
           UNCHANGED <<turns, publishing, worker, faults>>
    PROVE IInv'
<1>1. TypeOK'
  BY DEF IInv, TypeOK, File, Live, NoCall, DeadlinePasses, Registered, disk, turns, publishing
<1>2. ASSUME NEW p \in Turns PROVE Kept(p)'
  BY DEF IInv, TypeOK, Kept, Over, Live, DeadlinePasses, Registered, disk, turns, publishing
<1>3. ASSUME NEW c \in Calls PROVE Published(c)'
  BY ArtifactsAssumption DEF IInv, TypeOK, Kept, Published, Over, Live, NoCall, DeadlinePasses,
       Registered, disk, turns, publishing
<1>. QED BY <1>1, <1>2, <1>3 DEF IInv

LEMMA GrowsOldKeeps == ASSUME IInv, GrowsOld, worker.at = "idle",
           UNCHANGED <<turns, publishing, worker, faults>>
    PROVE IInv'
<1>1. TypeOK'
  BY DEF IInv, TypeOK, File, Live, NoCall, GrowsOld, Terminal, disk, turns, publishing
<1>2. ASSUME NEW p \in Turns PROVE Kept(p)'
  BY DEF IInv, TypeOK, Kept, Over, Live, GrowsOld, Terminal, disk, turns, publishing
<1>3. ASSUME NEW c \in Calls PROVE Published(c)'
  BY ArtifactsAssumption DEF IInv, TypeOK, Kept, Published, Over, Live, NoCall, GrowsOld,
       Terminal, disk, turns, publishing
<1>. QED BY <1>1, <1>2, <1>3 DEF IInv

LEMMA RestartKeeps == ASSUME IInv, Restart PROVE IInv'
<1>1. TypeOK'
  BY ArtifactsAssumption DEF IInv, TypeOK, File, Live, NoCall, Restart, Fault, Rest, disk, clock
<1>2. ASSUME NEW p \in Turns PROVE Kept(p)'
  BY DEF IInv, TypeOK, Kept, Over, Live, Restart, Fault, Rest, disk, clock
<1>3. ASSUME NEW c \in Calls PROVE Published(c)'
  BY ArtifactsAssumption DEF IInv, TypeOK, Kept, Published, Over, Live, NoCall, Restart, Fault,
       Rest, disk, clock
<1>. QED BY <1>1, <1>2, <1>3 DEF IInv

LEMMA PickKeeps == ASSUME IInv, Pick PROVE IInv'
<1>1. TypeOK'
  <2>1. InputsDue \cup TreesDue \cup ImagesDue \subseteq File
    BY DEF InputsDue, TreesDue, ImagesDue, File, IInv, TypeOK
  <2>. QED BY <2>1 DEF IInv, TypeOK, Pick, Rest, turns, publishing, disk, clock
<1>2. ASSUME NEW p \in Turns PROVE Kept(p)'
  BY DEF IInv, TypeOK, Kept, Over, Live, Pick, Rest, InputsDue, Terminal, TreesDue, ImagesDue,
       turns, publishing, disk, clock
<1>3. ASSUME NEW c \in Calls PROVE Published(c)'
  BY ArtifactsAssumption DEF IInv, TypeOK, Kept, Published, Over, Live, NoCall, Pick, Rest,
       InputsDue, Terminal, TreesDue, ImagesDue, turns, publishing, disk, clock
<1>. QED BY <1>1, <1>2, <1>3 DEF IInv

LEMMA UnlinkKeeps == ASSUME IInv, Unlink PROVE IInv'
<1>1. TypeOK'
  <2>1. PICK stuck \in SUBSET (worker.picked \cap files) :
          /\ IF stuck = {} THEN UNCHANGED faults ELSE Fault("unlink")
          /\ Remove(worker.picked \ stuck)
          /\ worker' = [worker EXCEPT !.at = "delete", !.picked = {},
                                      !.unlinked = Unlinked(worker.picked, stuck)]
    BY DEF Unlink
  <2>2. faults' \in 0..MaxFaults
    BY <2>1, ArtifactsAssumption DEF IInv, TypeOK, Fault
  <2>3. worker' \in [at : {"delete"}, picked : SUBSET File, unlinked : SUBSET File]
    BY <2>1 DEF IInv, TypeOK, Unlinked
  <2>. QED BY <2>1, <2>2, <2>3 DEF IInv, TypeOK, Unlink, Remove, turns, publishing, clock
<1>2. ASSUME NEW p \in Turns PROVE Kept(p)'
  BY DEF IInv, TypeOK, Kept, Over, Live, Unlink, Fault, Remove, Unlinked, turns, publishing,
       clock
<1>3. ASSUME NEW c \in Calls PROVE Published(c)'
  BY ArtifactsAssumption DEF IInv, TypeOK, Kept, Published, Over, Live, NoCall, Unlink, Fault,
       Remove, Unlinked, turns, publishing, clock
<1>. QED BY <1>1, <1>2, <1>3 DEF IInv

LEMMA DeleteRowsKeeps == ASSUME IInv, DeleteRows PROVE IInv'
<1>1. TypeOK'
  BY DEF IInv, TypeOK, File, Live, NoCall, DeleteRows, Unlinks, Registered, Rest, turns, disk,
       clock
<1>2. ASSUME NEW p \in Turns PROVE Kept(p)'
  BY DEF IInv, TypeOK, Kept, Over, Live, DeleteRows, Unlinks, Registered, NoCall, Rest, turns,
       disk, clock
<1>3. ASSUME NEW c \in Calls PROVE Published(c)'
  BY ArtifactsAssumption DEF IInv, TypeOK, Kept, Published, Over, Live, NoCall, DeleteRows,
       Unlinks, Registered, Rest, turns, disk, clock
<1>. QED BY <1>1, <1>2, <1>3 DEF IInv

LEMMA DeleteTurnsKeeps == ASSUME IInv, DeleteTurns PROVE IInv'
<1>1. TypeOK'
  BY DEF IInv, TypeOK, File, Live, NoCall, DeleteTurns, turns, Deletable, Terminal, Rest, disk,
       clock
<1>2. ASSUME NEW p \in Turns PROVE Kept(p)'
  BY DEF IInv, TypeOK, Kept, Over, Live, DeleteTurns, turns, Deletable, Terminal, NoCall, Rest,
       disk, clock
<1>3. ASSUME NEW c \in Calls PROVE Published(c)'
  BY ArtifactsAssumption DEF IInv, TypeOK, Kept, Published, Over, Live, NoCall, DeleteTurns,
       turns, Deletable, Terminal, Rest, disk, clock
<1>. QED BY <1>1, <1>2, <1>3 DEF IInv

LEMMA ReadReferencesKeeps == ASSUME IInv, ReadReferences PROVE IInv'
<1>1. TypeOK'
  <2>1. Referenced \subseteq File
    BY DEF Referenced, Registered, File, IInv, TypeOK
  <2>. QED BY <2>1 DEF IInv, TypeOK, ReadReferences, Rest, turns, publishing, disk, clock
<1>2. ASSUME NEW p \in Turns PROVE Kept(p)'
  BY DEF IInv, TypeOK, Kept, Over, Live, ReadReferences, Rest, Referenced, Registered, turns,
       publishing, disk, clock
<1>3. ASSUME NEW c \in Calls PROVE Published(c)'
  BY ArtifactsAssumption DEF IInv, TypeOK, Kept, Published, Over, Live, NoCall, ReadReferences,
       Rest, Referenced, Registered, turns, publishing, disk, clock
<1>. QED BY <1>1, <1>2, <1>3 DEF IInv

LEMMA SweepKeeps == ASSUME IInv, Sweep PROVE IInv'
<1>1. TypeOK'
  BY ArtifactsAssumption DEF IInv, TypeOK, File, Live, NoCall, Sweep, Orphans, Fault, Remove,
       Rest, turns, publishing, clock
<1>2. ASSUME NEW p \in Turns PROVE Kept(p)'
  BY DEF IInv, TypeOK, Kept, Over, Live, Sweep, Orphans, Fault, Remove, Rest, turns, publishing,
       clock
<1>3. ASSUME NEW c \in Calls PROVE Published(c)'
  BY ArtifactsAssumption DEF IInv, TypeOK, Kept, Published, Over, Live, NoCall, Sweep, Orphans,
       Fault, Remove, Rest, turns, publishing, clock
<1>. QED BY <1>1, <1>2, <1>3 DEF IInv

LEMMA RunFailsKeeps == ASSUME IInv, RunFails PROVE IInv'
<1>1. TypeOK'
  BY ArtifactsAssumption DEF IInv, TypeOK, File, Live, NoCall, RunFails, Fault, Rest, turns,
       publishing, disk, clock
<1>2. ASSUME NEW p \in Turns PROVE Kept(p)'
  BY DEF IInv, TypeOK, Kept, Over, Live, RunFails, Fault, Rest, turns, publishing, disk, clock
<1>3. ASSUME NEW c \in Calls PROVE Published(c)'
  BY ArtifactsAssumption DEF IInv, TypeOK, Kept, Published, Over, Live, NoCall, RunFails, Fault,
       Rest, turns, publishing, disk, clock
<1>. QED BY <1>1, <1>2, <1>3 DEF IInv

-----------------------------------------------------------------------------
(***************************************************************************)
(* The theorems.                                                           *)
(***************************************************************************)

LEMMA InitSound == Init => IInv
BY ArtifactsAssumption DEF Init, IInv, TypeOK, Kept, Published, Live, Over, NoCall, Rest

LEMMA StepKeeps == ASSUME IInv, [Next]_vars PROVE IInv'
<1>1. CASE UNCHANGED vars
  BY <1>1 DEF vars, turns, publishing, disk, clock, IInv, TypeOK, Kept, Published, Registered
<1>2. CASE \E u \in Turns :
              \/ BeginDownload(u) \/ StoreInput(u) \/ DownloadFails(u)
              \/ Enqueue(u) \/ EnqueueRefused(u) \/ Claim(u)
              \/ CreateTree(u) \/ CreateTreeFails(u) \/ RegisterTree(u)
              \/ VerifyFails(u) \/ StartTurn(u) \/ EndTurn(u) \/ Deliver(u)
  BY <1>2, BeginDownloadKeeps, StoreInputKeeps, DownloadFailsKeeps, EnqueueKeeps,
     EnqueueRefusedKeeps, ClaimKeeps, CreateTreeKeeps, CreateTreeFailsKeeps, RegisterTreeKeeps,
     VerifyFailsKeeps, StartTurnKeeps, EndTurnKeeps, DeliverKeeps
<1>3. CASE \E d \in Calls :
              \/ Preflight(d) \/ CommitImage(d) \/ ImageFails(d)
              \/ CompleteImage(d) \/ CallTimesOut(d) \/ LateComplete(d)
  BY <1>3, PreflightKeeps, CommitImageKeeps, ImageFailsKeeps, CompleteImageKeeps,
     CallTimesOutKeeps, LateCompleteKeeps
<1>4. CASE TimePasses
  BY <1>4, DayPassesKeeps, DeadlinePassesKeeps, GrowsOldKeeps DEF TimePasses
<1>5. CASE \/ Restart \/ Pick \/ Unlink \/ DeleteRows \/ DeleteTurns \/ ReadReferences
           \/ Sweep \/ RunFails
  BY <1>5, RestartKeeps, PickKeeps, UnlinkKeeps, DeleteRowsKeeps, DeleteTurnsKeeps,
     ReadReferencesKeeps, SweepKeeps, RunFailsKeeps
<1>. QED BY <1>1, <1>2, <1>3, <1>4, <1>5 DEF Next

\* IInv is inductive: it holds at the start and every step of Spec keeps it.
THEOREM InductiveInvariant == Spec => []IInv
<1>1. Init => IInv
  BY InitSound
<1>2. IInv /\ [Next]_vars => IInv'
  BY StepKeeps
<1>. QED BY <1>1, <1>2, PTL DEF Spec

\* Every variable keeps to its type, for all Turns, calls and failures.
THEOREM TypeCorrect == Spec => []TypeOK
<1>1. IInv => TypeOK
  BY DEF IInv
<1>. QED BY <1>1, InductiveInvariant, PTL

\* A Turn that waits or runs has its input, and what was made of it, on disk
\* (service.py, repository.retention_candidates, the sweep of retention.py).
THEOREM InputStays == Spec => []InputKept
<1>1. IInv => InputKept
  BY DEF IInv, Kept, InputKept
<1>. QED BY <1>1, InductiveInvariant, PTL

\* The image that the call's row names is on disk until its final answer is
\* settled, whichever delivery registered it (outbound_images.py).
THEOREM ImageStays == Spec => []ImageKept
<1>1. IInv => ImageKept
  BY DEF IInv, Published, ImageKept, Registered
<1>. QED BY <1>1, InductiveInvariant, PTL

-----------------------------------------------------------------------------
(***************************************************************************)
(* The rows outlive their files.                                           *)
(***************************************************************************)
\* What retention has unlinked stays unlinked until its row is deleted: only a
\* message without a row writes an input.
Emptied ==
    \A t \in Turns :
       /\ t \in attachment => intake[t] = "done"
       /\ worker.at = "unlink" /\ <<"input", t>> \in worker.picked => t \in attachment
       /\ worker.at = "delete" /\ <<"input", t>> \in worker.unlinked
             => t \in attachment /\ <<"input", t>> \notin files

\* Steps that write no input, and leave the rows and retention alone.
LEMMA ElsewhereEmptied ==
    ASSUME Emptied, UNCHANGED <<attachment, worker>>,
           \A t \in Turns : intake[t] = "done" => intake'[t] = "done",
           \A t \in Turns : <<"input", t>> \in files' => <<"input", t>> \in files
    PROVE  Emptied'
BY DEF Emptied

LEMMA TurnsEmptied ==
    ASSUME IInv, Emptied, NEW u \in Turns,
           \/ BeginDownload(u) \/ StoreInput(u) \/ DownloadFails(u)
           \/ Enqueue(u) \/ EnqueueRefused(u) \/ Claim(u)
           \/ CreateTree(u) \/ CreateTreeFails(u) \/ RegisterTree(u)
           \/ VerifyFails(u) \/ StartTurn(u) \/ EndTurn(u) \/ Deliver(u)
    PROVE  Emptied'
<1>0. intake \in [Turns -> {"idle", "downloading", "stored", "done"}]
  BY DEF IInv, TypeOK
<1>1. CASE BeginDownload(u) \/ DownloadFails(u) \/ EnqueueRefused(u)
  BY <1>0, <1>1, ElsewhereEmptied DEF BeginDownload, DownloadFails, EnqueueRefused, Put, Remove
<1>2. CASE StoreInput(u)
  <2>1. u \notin attachment
    BY <1>2 DEF StoreInput, Emptied
  <2>2. /\ UNCHANGED <<attachment, worker>> /\ intake' = [intake EXCEPT ![u] = "stored"]
        /\ files' \subseteq files \cup {<<"input", u>>}
    BY <1>2 DEF StoreInput, Rename
  <2>. QED BY <1>0, <2>1, <2>2 DEF Emptied
<1>3. CASE Enqueue(u)
  BY <1>0, <1>3 DEF Enqueue, Emptied, disk
<1>4. CASE CreateTree(u) \/ CreateTreeFails(u) \/ RegisterTree(u) \/ Claim(u)
  BY <1>4, ElsewhereEmptied DEF CreateTree, CreateTreeFails, RegisterTree, Claim, Put, Remove, disk
<1>5. CASE VerifyFails(u) \/ StartTurn(u) \/ EndTurn(u) \/ Deliver(u)
  BY <1>5, ElsewhereEmptied DEF VerifyFails, StartTurn, EndTurn, Deliver, Put, Remove, disk
<1>. QED BY <1>1, <1>2, <1>3, <1>4, <1>5

LEMMA CallsEmptied ==
    ASSUME Emptied, NEW d \in Calls,
           \/ Preflight(d) \/ CommitImage(d) \/ ImageFails(d)
           \/ CompleteImage(d) \/ CallTimesOut(d) \/ LateComplete(d)
    PROVE  Emptied'
<1>1. CASE Preflight(d) \/ CommitImage(d) \/ ImageFails(d)
  BY <1>1, ElsewhereEmptied DEF Preflight, CommitImage, ImageFails, Put, Remove, Rename, disk, turns
<1>2. CASE CompleteImage(d) \/ CallTimesOut(d) \/ LateComplete(d)
  BY <1>2, ElsewhereEmptied
     DEF CompleteImage, CallTimesOut, LateComplete, KeptOnlyIf, Remove, disk, turns
<1>. QED BY <1>1, <1>2

LEMMA RetentionEmptied ==
    ASSUME IInv, Emptied, Retention
    PROVE  Emptied'
<1>1. CASE Pick
  BY <1>1 DEF Pick, Emptied, Rest, InputsDue, TreesDue, ImagesDue, turns, disk
<1>2. CASE Unlink
  <2>1. PICK stuck \in SUBSET (worker.picked \cap files) :
          /\ Remove(worker.picked \ stuck)
          /\ worker' = [worker EXCEPT !.at = "delete", !.picked = {},
                                      !.unlinked = Unlinked(worker.picked, stuck)]
    BY <1>2 DEF Unlink
  <2>2. /\ worker.at = "unlink" /\ UNCHANGED <<attachment, intake>>
        /\ files' = files \ (worker.picked \ stuck)
    BY <1>2, <2>1 DEF Unlink, Remove, turns
  <2>3. worker'.at = "delete" /\ worker'.unlinked = worker.picked \ stuck
    BY <2>1 DEF Unlinked, IInv, TypeOK
  <2>. QED BY <2>2, <2>3 DEF Emptied
<1>3. CASE DeleteRows
  BY <1>3 DEF DeleteRows, Emptied, Rest
<1>4. CASE DeleteTurns \/ ReadReferences \/ Sweep
  <2>1. CASE DeleteTurns
    <3>1. worker'.at = "refs" /\ UNCHANGED <<attachment, intake>>
      BY <2>1 DEF DeleteTurns, Rest
    <3>. QED BY <3>1 DEF Emptied
  <2>2. CASE ReadReferences
    <3>1. worker'.at = "sweep" /\ UNCHANGED <<attachment, intake>>
      BY <2>2 DEF ReadReferences, Rest, turns
    <3>. QED BY <3>1 DEF Emptied
  <2>3. CASE Sweep
    <3>1. worker' = Rest /\ UNCHANGED <<attachment, intake>>
      BY <2>3 DEF Sweep, turns
    <3>2. worker'.at = "idle"
      BY <3>1 DEF Rest
    <3>. QED BY <3>1, <3>2 DEF Emptied
  <2>. QED BY <1>4, <2>1, <2>2, <2>3
<1>. QED BY <1>1, <1>2, <1>3, <1>4 DEF Retention

LEMMA OthersEmptied ==
    ASSUME IInv, Emptied, TimePasses \/ Restart \/ RunFails \/ UNCHANGED vars
    PROVE  Emptied'
<1>1. CASE TimePasses
  BY <1>1, ElsewhereEmptied DEF TimePasses, DayPasses, DeadlinePasses, GrowsOld, turns, disk
<1>2. CASE Restart \/ RunFails
  <2>1. /\ worker'.at = "idle" /\ UNCHANGED attachment
        /\ \A t \in Turns : intake[t] = "done" => intake'[t] = "done"
    BY <1>2 DEF Restart, RunFails, Rest, turns
  <2>. QED BY <2>1 DEF Emptied
<1>3. CASE UNCHANGED vars
  BY <1>3, ElsewhereEmptied DEF vars, turns, disk
<1>. QED BY <1>1, <1>2, <1>3

\* No row of an attachment is deleted while its file is there, whatever is locked,
\* fails or crashes between the two transactions of a run (retention.py).
THEOREM RowsOutlive == Spec => RowsOutliveFiles
<1>1. Init => Emptied
  BY DEF Init, Emptied, Rest
<1>2. IInv /\ Emptied /\ [Next]_vars => Emptied'
  BY TurnsEmptied, CallsEmptied, RetentionEmptied, OthersEmptied DEF Next, Retention
<1>3. Emptied /\ [Next]_vars => [\A t \in attachment \ attachment' : <<"input", t>> \notin files]_vars
  <2>. SUFFICES ASSUME Emptied, Next, NEW t \in attachment \ attachment'
                PROVE  <<"input", t>> \notin files
    OBVIOUS
  <2>1. DeleteRows
    BY DEF Next, BeginDownload, StoreInput, DownloadFails, Enqueue, EnqueueRefused, Claim, CreateTree,
           CreateTreeFails, RegisterTree, VerifyFails, StartTurn, EndTurn, Deliver, Preflight,
           CommitImage, ImageFails, CompleteImage, CallTimesOut, LateComplete, TimePasses, Restart,
           Pick, Unlink, DeleteTurns, ReadReferences, Sweep, RunFails, turns
  <2>. QED BY <2>1 DEF DeleteRows, Unlinks, Emptied
<1>. QED BY <1>1, <1>2, <1>3, InductiveInvariant, PTL DEF Spec, RowsOutliveFiles
================================================================================
