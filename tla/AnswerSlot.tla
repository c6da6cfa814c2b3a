----------------------------- MODULE AnswerSlot -----------------------------
(***************************************************************************)
(* What the slot of a digest interpretation promises its readers: it is    *)
(* opened on request only, an open slot is answered or failed once, a      *)
(* stored answer stays until the next request, no answer is shown twice,   *)
(* and none is followed by that of an earlier run, unless the queue had    *)
(* given that run's job to another and it went on all the same.            *)
(***************************************************************************)
EXTENDS Naturals

VARIABLES
  open,    \* whether somebody waits for an answer
  answer,  \* the run whose answer is shown, 0 for none
  shown,   \* the runs whose answers were ever shown
  lost     \* the runs that lost their job and went on

slot == <<open, answer, shown, lost>>

Init == open = FALSE /\ answer = 0 /\ shown = {} /\ lost = {}

Ask == ~open /\ open' = TRUE /\ answer' = 0 /\ UNCHANGED <<shown, lost>>

InTurn(run) == \A earlier \in shown : earlier < run

Answer ==
  /\ open /\ open' = FALSE
  /\ answer' \notin shown \cup {0}
  /\ InTurn(answer') \/ answer' \in lost
  /\ shown' = shown \cup {answer'}
  /\ UNCHANGED lost

Fail == open /\ open' = FALSE /\ UNCHANGED <<answer, shown, lost>>

Lose == lost \subseteq lost' /\ UNCHANGED <<open, answer, shown>>

Next == Ask \/ Answer \/ Fail \/ Lose

Spec == Init /\ [][Next]_slot
=============================================================================
