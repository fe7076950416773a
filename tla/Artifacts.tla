------------------------------- MODULE Artifacts -------------------------------
(***************************************************************************)
(* Artifacts: the private files codexD keeps and the rows that name them.  *)
(* A message's attachments are downloaded into a quarantine, moved to the  *)
(* input directory and named by a row when the Turn is queued; a file is   *)
(* copied into a tree of its own when the Turn is claimed; an image that   *)
(* the model publishes is staged, normalized and registered for the final  *)
(* answer. Retention removes all of them when their time is over: it picks *)
(* rows in one transaction, unlinks outside of it, deletes the rows in     *)
(* another, and sweeps old files that no row names.                        *)
(*                                                                         *)
(* Every Turn has one attachment, of kind input_file. The image calls are  *)
(* deliveries of one tool call, of the Turn Author. Render plans, which no *)
(* code of the repository writes any more, are left out.                   *)
(***************************************************************************)
EXTENDS Naturals, FiniteSets

CONSTANTS
    Turns,      \* Turns whose messages have an attachment
    Author,     \* the Turn whose model publishes an image
    Calls,      \* deliveries of the tool call, each with its own handler
    MaxFaults,  \* how many of the failures happen
    Env         \* the failures that may happen

ASSUME ArtifactsAssumption ==
    /\ IsFiniteSet(Turns) /\ Author \in Turns /\ IsFiniteSet(Calls)
    /\ Turns \cap Calls = {} /\ {"none", "rejected"} \cap Calls = {} /\ MaxFaults \in Nat

(***************************************************************************)
(* Members of Env:                                                         *)
(*   "crash"     the process dies between two steps and starts again       *)
(*   "download"  an attachment is not accepted, or its Turn is refused     *)
(*   "archive"   an attachment is not fit to be materialized               *)
(*   "tamper"    a materialized tree is changed before it is verified      *)
(*   "image"     a published image is not safe to deliver                  *)
(*   "timeout"   a tool call is answered by its timeout                    *)
(*   "unlink"    retention cannot remove a file: it is locked, or an error *)
(*   "storage"   a run of retention ends at an error of the store          *)
(***************************************************************************)

NoCall == "none"
Live == {"queued", "starting", "running"}
Terminal == {"ended"}

VARIABLES
    turn,       \* state of each Turn's row; "gone" once retention deleted it
    intake,     \* the message handler: "idle", "downloading", "stored", "done"
    memory,     \* Turns whose volatile input this process holds
    files,      \* the files there are: <<kind, owner>>
    aged,       \* those that have not changed for 24 hours
    attachment, \* attachments: Turns with a row
    tree,       \* materialized_attachments: Turns with a row
    image,      \* outbound_image_invocations: the call whose file it names
    expired,    \* what is past its retention_until: Turns, and Author's image
    final,      \* the outbox row of the final answer
    old,        \* Turns that ended before the cutoffs of retention
    work,       \* the thread that materializes a Turn's file
    call,       \* the handler of each delivery of the tool call
    late,       \* calls cancelled while their transaction was in its thread
    torn,       \* rows registered after their file was taken back
    worker,     \* the retention worker: at, what it picked, what it unlinked
    faults

turns == <<turn, intake, memory, attachment, tree, final, work>>
publishing == <<image, call, late, torn>>
disk == <<files, aged>>
clock == <<expired, old>>
vars == <<turns, publishing, disk, clock, worker, faults>>

Rest == [at |-> "idle", picked |-> {}, unlinked |-> {}]

File == ({"quarantine", "input", "tree"} \X Turns) \cup ({"staging", "image"} \X Calls)

TypeOK ==
    /\ turn \in [Turns -> Live \cup {"none", "ended", "gone"}]
    /\ intake \in [Turns -> {"idle", "downloading", "stored", "done"}]
    /\ memory \subseteq Turns /\ attachment \subseteq Turns /\ tree \subseteq Turns
    /\ files \subseteq File /\ aged \subseteq files
    /\ image \in Calls \cup {NoCall, "rejected"}
    /\ expired \subseteq Turns \cup {"image"}
    /\ final \in [Turns -> {"none", "pending", "settled"}]
    /\ old \subseteq Turns
    /\ work \in [Turns -> {"idle", "copied", "done"}]
    /\ call \in [Calls -> {"idle", "staging", "committed", "answered"}]
    /\ late \subseteq Calls /\ torn \subseteq Calls
    /\ worker \in [at : {"idle", "unlink", "delete", "turns", "refs", "sweep"},
                    picked : SUBSET File, unlinked : SUBSET File]
    /\ faults \in 0..MaxFaults

Init ==
    /\ turn = [t \in Turns |-> "none"] /\ intake = [t \in Turns |-> "idle"]
    /\ memory = {} /\ files = {} /\ aged = {}
    /\ attachment = {} /\ tree = {} /\ image = NoCall
    /\ expired = {} /\ final = [t \in Turns |-> "none"]
    /\ old = {}
    /\ work = [t \in Turns |-> "idle"] /\ call = [c \in Calls |-> "idle"]
    /\ late = {} /\ torn = {} /\ worker = Rest /\ faults = 0

Fault(event) == event \in Env /\ faults < MaxFaults /\ faults' = faults + 1

Put(f) == files' = files \cup {f} /\ aged' = aged \ {f}
Remove(gone) == files' = files \ gone /\ aged' = aged \ gone
Rename(from, to) == /\ files' = (files \ {from}) \cup {to}
                    /\ aged' = aged \ {from, to}

Registered == image \in Calls

-----------------------------------------------------------------------------
(***************************************************************************)
(* From the message to a queued Turn                                       *)
(***************************************************************************)

\* An attachment is streamed into the quarantine.
BeginDownload(t) ==
    /\ intake[t] = "idle"
    /\ intake' = [intake EXCEPT ![t] = "downloading"]
    /\ Put(<<"quarantine", t>>)
    /\ UNCHANGED <<turn, memory, attachment, tree, final, work, publishing, clock, worker, faults>>

\* It is classified and moved to the input directory under a fresh name.
StoreInput(t) ==
    /\ intake[t] = "downloading"
    /\ intake' = [intake EXCEPT ![t] = "stored"]
    /\ Rename(<<"quarantine", t>>, <<"input", t>>)
    /\ UNCHANGED <<turn, memory, attachment, tree, final, work, publishing, clock, worker, faults>>

\* A download that fails takes back what the message has stored.
DownloadFails(t) ==
    /\ intake[t] = "downloading"
    /\ Fault("download")
    /\ intake' = [intake EXCEPT ![t] = "done"]
    /\ Remove({<<"quarantine", t>>})
    /\ UNCHANGED <<turn, memory, attachment, tree, final, work, publishing, clock, worker>>

\* The Turn is queued, its attachment's row with it, if the file is as stored.
Enqueue(t) ==
    /\ intake[t] = "stored" /\ <<"input", t>> \in files
    /\ intake' = [intake EXCEPT ![t] = "done"]
    /\ turn' = [turn EXCEPT ![t] = "queued"]
    /\ attachment' = attachment \cup {t}
    /\ memory' = memory \cup {t}
    /\ UNCHANGED <<tree, final, work, publishing, disk, clock, worker, faults>>

\* The Turn is refused: the ingress is rejected and the file taken back.
EnqueueRefused(t) ==
    /\ intake[t] = "stored"
    /\ IF <<"input", t>> \in files THEN Fault("download") ELSE UNCHANGED faults
    /\ intake' = [intake EXCEPT ![t] = "done"]
    /\ Remove({<<"input", t>>})
    /\ UNCHANGED <<turn, memory, attachment, tree, final, work, publishing, clock, worker>>

-----------------------------------------------------------------------------
(***************************************************************************)
(* A Turn runs                                                             *)
(***************************************************************************)

\* The end of a Turn queues its final answer in the same transaction.
Ended(t) == /\ turn' = [turn EXCEPT ![t] = "ended"]
            /\ final' = [final EXCEPT ![t] = "pending"]

\* load_turn_input: the stored file is there and is the one that was queued.
Loadable(t) == t \in memory /\ t \in attachment /\ <<"input", t>> \in files

Claim(t) ==
    /\ turn[t] = "queued"
    /\ IF Loadable(t)
       THEN turn' = [turn EXCEPT ![t] = "starting"] /\ UNCHANGED final
       ELSE Ended(t)
    /\ UNCHANGED <<intake, memory, attachment, tree, work, publishing, disk, clock, worker, faults>>

\* The file is copied, or the archive extracted, into a new tree.
CreateTree(t) ==
    /\ turn[t] = "starting" /\ work[t] = "idle" /\ <<"input", t>> \in files
    /\ work' = [work EXCEPT ![t] = "copied"]
    /\ Put(<<"tree", t>>)
    /\ UNCHANGED <<turn, intake, memory, attachment, tree, final, publishing, clock, worker, faults>>

\* An unsafe archive or a changed source fails the Turn; the staging is removed.
CreateTreeFails(t) ==
    /\ turn[t] = "starting" /\ work[t] = "idle"
    /\ IF <<"input", t>> \in files THEN Fault("archive") ELSE UNCHANGED faults
    /\ work' = [work EXCEPT ![t] = "done"]
    /\ Ended(t)
    /\ UNCHANGED <<intake, memory, attachment, tree, publishing, disk, clock, worker>>

\* Registering needs the attachment's row; without it the tree is removed.
RegisterTree(t) ==
    /\ work[t] = "copied"
    /\ work' = [work EXCEPT ![t] = "done"]
    /\ IF t \in attachment
       THEN tree' = tree \cup {t} /\ UNCHANGED disk
       ELSE Remove({<<"tree", t>>}) /\ UNCHANGED tree
    /\ UNCHANGED <<turn, intake, memory, attachment, final, publishing, clock, worker, faults>>

\* A tree that is not what its manifest says is removed, its row after it.
VerifyFails(t) ==
    /\ turn[t] = "starting" /\ t \in tree
    /\ Fault("tamper")
    /\ tree' = tree \ {t}
    /\ Remove({<<"tree", t>>})
    /\ Ended(t)
    /\ UNCHANGED <<intake, memory, attachment, work, publishing, clock, worker>>

StartTurn(t) ==
    /\ turn[t] = "starting" /\ work[t] = "done"
    /\ turn' = [turn EXCEPT ![t] = "running"]
    /\ memory' = memory \ {t}
    /\ UNCHANGED <<intake, attachment, tree, final, work, publishing, disk, clock, worker, faults>>

\* A Turn ends by itself, by a cancel or with its runtime, at any time; the
\* thread that materializes its file is not stopped by it.
EndTurn(t) ==
    /\ turn[t] \in Live
    /\ Ended(t)
    /\ UNCHANGED <<intake, memory, attachment, tree, work, publishing, disk, clock, worker, faults>>

\* The outbox settles the final answer, with the registered images that are
\* still what was registered.
Deliver(t) ==
    /\ final[t] = "pending"
    /\ final' = [final EXCEPT ![t] = "settled"]
    /\ UNCHANGED <<turn, intake, memory, attachment, tree, work, publishing, disk, clock,
                   worker, faults>>

-----------------------------------------------------------------------------
(***************************************************************************)
(* The model publishes an image                                            *)
(***************************************************************************)

Authorized == turn[Author] \in {"starting", "running"}

\* The first transaction of a call: an earlier outcome of the same call, a
\* refusal, or leave to stage the image.
Preflight(c) ==
    /\ call[c] = "idle" /\ turn[Author] \in {"starting", "running", "ended"}
    /\ IF image = NoCall /\ Authorized
       THEN /\ call' = [call EXCEPT ![c] = "staging"]
            /\ Put(<<"staging", c>>) /\ UNCHANGED image
       ELSE /\ call' = [call EXCEPT ![c] = "answered"]
            /\ image' = IF image = NoCall THEN "rejected" ELSE image
            /\ UNCHANGED disk
    /\ UNCHANGED <<turns, late, torn, clock, worker, faults>>

\* The normalized image takes its final name.
CommitImage(c) ==
    /\ call[c] = "staging"
    /\ call' = [call EXCEPT ![c] = "committed"]
    /\ Rename(<<"staging", c>>, <<"image", c>>)
    /\ UNCHANGED <<turns, image, late, torn, clock, worker, faults>>

\* An unsafe image is recorded as the outcome of the call, unless it has one.
ImageFails(c) ==
    /\ call[c] = "staging"
    /\ Fault("image")
    /\ call' = [call EXCEPT ![c] = "answered"]
    /\ image' = IF image = NoCall /\ turn[Author] # "gone" THEN "rejected" ELSE image
    /\ Remove({<<"staging", c>>})
    /\ UNCHANGED <<turns, late, torn, clock, worker>>

\* The outcome that complete() records for a call, if it has none yet.
Outcome(c) == IF image # NoCall \/ turn[Author] = "gone" THEN image
              ELSE IF Authorized THEN c ELSE "rejected"

\* The image of a call that did not get the row is taken back.
KeptOnlyIf(mine, c) == IF mine THEN UNCHANGED disk ELSE Remove({<<"image", c>>})

CompleteImage(c) ==
    /\ call[c] = "committed" /\ c \notin late
    /\ call' = [call EXCEPT ![c] = "answered"]
    /\ image' = Outcome(c)
    /\ KeptOnlyIf(Outcome(c) = c, c)
    /\ UNCHANGED <<turns, late, torn, clock, worker, faults>>

\* The request gives up after ten seconds and cancels its handler, which
\* takes back its files; a transaction already in its thread goes on.
CallTimesOut(c) ==
    /\ call[c] \in {"staging", "committed"}
    /\ Fault("timeout")
    /\ call' = [call EXCEPT ![c] = "answered"]
    /\ Remove({<<"staging", c>>, <<"image", c>>})
    /\ \/ UNCHANGED late
       \/ call[c] = "committed" /\ late' = late \cup {c}
    /\ UNCHANGED <<turns, image, torn, clock, worker>>

LateComplete(c) ==
    /\ c \in late
    /\ late' = late \ {c}
    /\ image' = Outcome(c)
    /\ torn' = IF Outcome(c) = c THEN torn \cup {c} ELSE torn
    /\ UNCHANGED <<turns, call, disk, clock, worker, faults>>

-----------------------------------------------------------------------------
(***************************************************************************)
(* Time passes, and the process may die                                    *)
(***************************************************************************)

\* Files a task has just made and no row names yet. None of these tasks takes
\* a day: their downloads, copies and calls have time limits.
InHand == {<<"quarantine", t>> : t \in {u \in Turns : intake[u] = "downloading"}}
          \cup {<<"input", t>> : t \in {u \in Turns : intake[u] = "stored"}}
          \cup {<<"tree", t>> : t \in {u \in Turns : work[u] = "copied"}}
          \cup {<<"staging", c>> : c \in {d \in Calls : call[d] = "staging"}}
          \cup {<<"image", c>> : c \in {d \in Calls : call[d] = "committed"}}

\* A day passes for every file that is there, days for what has a deadline and
\* for a Turn that is over. A run of retention compares all of them with the
\* time it began at, so that none passes within it.
DayPasses ==
    /\ aged # files \ InHand
    /\ aged' = files \ InHand
    /\ UNCHANGED <<files, clock>>

DeadlinePasses ==
    /\ \E x \in (attachment \cup (IF Registered THEN {"image"} ELSE {})) \ expired :
           expired' = expired \cup {x}
    /\ UNCHANGED <<disk, old>>

GrowsOld ==
    /\ \E t \in Turns \ old : turn[t] \in Terminal /\ old' = old \cup {t}
    /\ UNCHANGED <<disk, expired>>

TimePasses ==
    /\ worker.at = "idle"
    /\ \/ DayPasses
       \/ DeadlinePasses
       \/ GrowsOld
    /\ UNCHANGED <<turns, publishing, worker, faults>>

\* A restart ends the Turns that had a provider; nobody claims the files of
\* the tasks that were cut off.
Restart ==
    /\ Fault("crash")
    /\ turn' = [t \in Turns |-> IF turn[t] \in {"starting", "running"} THEN "ended" ELSE turn[t]]
    /\ final' = [t \in Turns |-> IF turn[t] \in {"starting", "running"} THEN "pending" ELSE final[t]]
    /\ intake' = [t \in Turns |-> IF intake[t] = "idle" THEN "idle" ELSE "done"]
    /\ memory' = {}
    /\ work' = [t \in Turns |-> IF work[t] = "copied" THEN "done" ELSE work[t]]
    /\ call' = [c \in Calls |-> IF call[c] = "idle" THEN "idle" ELSE "answered"]
    /\ late' = {}
    /\ worker' = Rest
    /\ UNCHANGED <<attachment, tree, image, torn, disk, clock>>

-----------------------------------------------------------------------------
(***************************************************************************)
(* Retention                                                               *)
(***************************************************************************)

InputsDueAnyhow == {<<"input", t>> : t \in {u \in attachment \cap expired : u \notin tree}}

\* An input may go when its Turn is over and nothing is materialized from it.
InputsDue == {<<"input", t>> : t \in {u \in attachment \cap expired :
                                        turn[u] \in Terminal /\ u \notin tree}}

TreesDueAfterInputs == {<<"tree", t>> : t \in {u \in (tree \cap expired) \ attachment :
                                                  turn[u] \in Terminal}}

\* A tree has the deadline of the file it is made from.
TreesDue == {<<"tree", t>> : t \in {u \in tree \cap expired : turn[u] \in Terminal}}

ImagesDueUnsent == {<<"image", c>> : c \in {d \in Calls : /\ image = d /\ "image" \in expired
                                                          /\ turn[Author] \in Terminal}}

\* An image may go when its Turn is over and the final answer is settled.
ImagesDue == {<<"image", c>> : c \in {d \in Calls : /\ image = d /\ "image" \in expired
                                                    /\ turn[Author] \in Terminal
                                                    /\ final[Author] = "settled"}}

\* The first transaction picks the rows. It also compacts the Turns that are
\* old, of which the model keeps only that they are (old).
Pick ==
    /\ worker.at = "idle"
    /\ worker' = [Rest EXCEPT !.at = "unlink", !.picked = InputsDue \cup TreesDue \cup ImagesDue]
    /\ UNCHANGED <<turns, publishing, disk, clock, faults>>

\* A file is removed unless it is locked or cannot be; one that is not there
\* counts as removed.
Unlinked(picked, stuck) == picked \ stuck

Unlink ==
    /\ worker.at = "unlink"
    /\ \E stuck \in SUBSET (worker.picked \cap files) :
        /\ IF stuck = {} THEN UNCHANGED faults ELSE Fault("unlink")
        /\ Remove(worker.picked \ stuck)
        /\ worker' = [worker EXCEPT !.at = "delete", !.picked = {},
                                    !.unlinked = Unlinked(worker.picked, stuck)]
    /\ UNCHANGED <<turns, publishing, clock>>

Unlinks(kind) == {t \in Turns : <<kind, t>> \in worker.unlinked}

\* The second transaction deletes the rows whose files are gone; what was
\* materialized from a deleted attachment goes with it.
DeleteRows ==
    /\ worker.at = "delete"
    /\ attachment' = attachment \ Unlinks("input")
    /\ tree' = (tree \ Unlinks("tree")) \ Unlinks("input")
    /\ image' = IF Registered /\ <<"image", image>> \in worker.unlinked THEN NoCall ELSE image
    /\ worker' = [Rest EXCEPT !.at = "turns"]
    /\ UNCHANGED <<turn, intake, memory, final, work, call, late, torn, disk, clock, faults>>

\* A compacted Turn is deleted once nothing of it is left to keep.
Deletable(t) == /\ turn[t] \in Terminal /\ t \in old
                /\ t \notin attachment /\ final[t] = "settled"

DeleteTurns ==
    /\ worker.at = "turns"
    /\ LET deleted == {t \in Turns : Deletable(t)} IN
        /\ turn' = [t \in Turns |-> IF t \in deleted THEN "gone" ELSE turn[t]]
        /\ tree' = tree \ deleted
        /\ image' = IF Author \in deleted THEN NoCall ELSE image
    /\ worker' = [Rest EXCEPT !.at = "refs"]
    /\ UNCHANGED <<intake, memory, attachment, final, work, call, late, torn, disk, clock, faults>>

\* The files that rows name, read before the directories are.
Referenced == ({"input"} \X attachment) \cup ({"tree"} \X tree)
              \cup (IF Registered THEN {<<"image", image>>} ELSE {})

ReadReferences ==
    /\ worker.at = "refs"
    /\ worker' = [Rest EXCEPT !.at = "sweep", !.picked = Referenced]
    /\ UNCHANGED <<turns, publishing, disk, clock, faults>>

\* Files a day old that no row named are orphans.
Orphans == aged \ worker.picked

Sweep ==
    /\ worker.at = "sweep"
    /\ \E stuck \in SUBSET Orphans :
        /\ IF stuck = {} THEN UNCHANGED faults ELSE Fault("unlink")
        /\ Remove(Orphans \ stuck)
    /\ worker' = Rest
    /\ UNCHANGED <<turns, publishing, clock>>

\* An error of the store ends the run; the next one starts over.
RunFails ==
    /\ worker.at # "idle"
    /\ Fault("storage")
    /\ worker' = Rest
    /\ UNCHANGED <<turns, publishing, disk, clock>>

Retention == Pick \/ Unlink \/ DeleteRows \/ DeleteTurns \/ ReadReferences \/ Sweep

-----------------------------------------------------------------------------

CallStep(c) == CommitImage(c) \/ CompleteImage(c) \/ LateComplete(c)

Next ==
    \/ \E t \in Turns : \/ BeginDownload(t) \/ StoreInput(t) \/ DownloadFails(t)
                        \/ Enqueue(t) \/ EnqueueRefused(t) \/ Claim(t)
                        \/ CreateTree(t) \/ CreateTreeFails(t) \/ RegisterTree(t)
                        \/ VerifyFails(t) \/ StartTurn(t) \/ EndTurn(t) \/ Deliver(t)
    \/ \E c \in Calls : \/ Preflight(c) \/ CommitImage(c) \/ ImageFails(c)
                        \/ CompleteImage(c) \/ CallTimesOut(c) \/ LateComplete(c)
    \/ TimePasses \/ Restart
    \/ Pick \/ Unlink \/ DeleteRows \/ DeleteTurns \/ ReadReferences \/ Sweep \/ RunFails

Spec == Init /\ [][Next]_vars

\* Tasks go on, Turns end, time passes, and retention runs every minute.
FairSpec ==
    /\ Spec
    /\ \A t \in Turns : WF_vars(StoreInput(t) \/ Enqueue(t) \/ EnqueueRefused(t))
    /\ \A t \in Turns : WF_vars(EndTurn(t) \/ Deliver(t)) /\ WF_vars(RegisterTree(t))
    /\ \A c \in Calls : WF_vars(CallStep(c))
    /\ SF_vars(TimePasses) /\ WF_vars(Retention)

-----------------------------------------------------------------------------

\* A Turn that can still run in this process has its attachment on disk, and
\* one that runs has what was materialized from it: neither the sweep nor the
\* deadline of a file takes it from a Turn that waits.
InputKept == \A t \in Turns :
    /\ t \in memory /\ turn[t] \in Live => <<"input", t>> \in files
    /\ t \in tree /\ turn[t] \in Live => <<"tree", t>> \in files

\* A registered image is on disk until the final answer that carries it is
\* settled, whatever other deliveries of the call did, unless the call timed
\* out between its transaction and its answer.
ImageKept == Registered /\ image \notin torn /\ final[Author] # "settled"
             => <<"image", image>> \in files

\* The row of an attachment outlives its file: a crash or a failed unlink
\* between the two never leaves a file that only the sweep could find.
RowsOutliveFiles == [][\A t \in attachment \ attachment' : <<"input", t>> \notin files]_vars

\* Retention converges: when every Turn is over and time has passed, no file
\* is left, whoever was cut off between a file and its row, and no Turn.
NothingStays == <>[](files = {} /\ \A t \in Turns : turn[t] \in {"none", "gone"})
=============================================================================
