------------------------------ MODULE TurnOrder ------------------------------
(***************************************************************************)
(* What codexD promises of the Turns of its Conversations, whatever its     *)
(* tasks and runtimes do: a Turn is queued once, started at most once, in   *)
(* the order of arrival and alone in its Conversation, and ends once.       *)
(***************************************************************************)
EXTENDS Integers

CONSTANTS Turn, Conv, NoConv

VARIABLES
    state,  \* of a turn; turns are numbered in the order of arrival
    of      \* the conversation of a turn

vars == <<state, of>>

Active == {"starting", "running", "cancelling"}
Terminal == {"completed", "failed", "cancelled", "interrupted"}

\* _TRANSITIONS, without the start of a queued turn.
Transitions ==
    {<<"queued", "cancelled">>, <<"queued", "interrupted">>}
    \cup {"starting"} \X {"running", "cancelling", "failed", "interrupted"}
    \cup {"running"} \X {"cancelling", "completed", "failed", "interrupted"}
    \cup {"cancelling"} \X Terminal

\* A row has a state of the schema and belongs to a Conversation that exists.
TypeOK ==
    /\ state \in [Turn -> {"absent", "queued"} \cup Active \cup Terminal]
    /\ of \in [Turn -> Conv \cup {NoConv}]

Init ==
    /\ state = [t \in Turn |-> "absent"]
    /\ of = [t \in Turn |-> NoConv]

Arrive(t, c) ==
    /\ state[t] = "absent"
    /\ \A u \in Turn : u > t => state[u] = "absent"
    /\ state' = [state EXCEPT ![t] = "queued"]
    /\ of' = [of EXCEPT ![t] = c]

\* First in the queue of its conversation, which has no active turn.
Start(t) ==
    /\ state[t] = "queued"
    /\ \A u \in Turn \ {t} :
          of[u] = of[t] => /\ state[u] \notin Active
                           /\ u < t => state[u] # "queued"
    /\ state' = [state EXCEPT ![t] = "starting"]
    /\ UNCHANGED of

Move(t, s) ==
    /\ <<state[t], s>> \in Transitions
    /\ state' = [state EXCEPT ![t] = s]
    /\ UNCHANGED of

\* A runtime or the daemon is lost, and its turns with it.
Lose(T) ==
    /\ \A t \in T : state[t] \in {"queued"} \cup Active
    /\ state' = [t \in Turn |-> IF t \in T THEN "interrupted" ELSE state[t]]
    /\ UNCHANGED of

Next ==
    \/ \E t \in Turn, c \in Conv : Arrive(t, c)
    \/ \E t \in Turn : Start(t) \/ \E s \in Active \cup Terminal : Move(t, s)
    \/ \E T \in SUBSET Turn : Lose(T)

Spec == Init /\ [][Next]_vars

\* A Conversation never has two active Turns (the index
\* one_active_turn_per_conversation and the mailbox).
OneActive ==
    \A t, u \in Turn :
       of[t] = of[u] /\ state[t] \in Active /\ state[u] \in Active => t = u

\* A Turn ends once and is never opened again: whoever comes late with another
\* outcome finds the row closed (terminal_turn, record and the bulk updates).
KeepsOutcomes == \A t \in Turn : state[t] \in Terminal => state'[t] = state[t]
EndsOnce == [][KeepsOutcomes]_vars
=============================================================================
