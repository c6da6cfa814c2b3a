-------------------------- MODULE MCMonitoringScan --------------------------
(* Instances of MonitoringScan for TLC. *)
EXTENDS MonitoringScan, TLC

CONSTANTS a, b, blank

(* A page without content. *)
OnlyBlank == {blank} \cap Contents

NoPages == {}

(* b has lost the prices that a shows. *)
PricesVanish == {<<a, b>>}

(* a is b in another layout. *)
LayoutChanges == {<<b, a>>}

(* Slots are interchangeable, and so are the scheduler's jobs. *)
Interchangeable == Permutations(Workers) \cup Permutations(ScheduledTasks)

(* Redeliveries of one click.  What is scheduled, and where the page is    *)
(* seen from, follows a click whose first run went well, and is undisturbed. *)
ClickIsDone ==
  /\ \A t \in ManualTasks : task[t].state = "completed" /\ task[t].runs = 1
  /\ \A w \in Workers : worker[w].pc = "idle"

RedeliveryNext ==
  /\ Next
  /\ vantage' # vantage => ClickIsDone
  /\ \A t \in ScheduledTasks :
       /\ task'[t].runs <= 1 /\ task'[t].stalls = 0
       /\ task'[t].state # task[t].state => ClickIsDone \/ task[t].state # "absent"

RedeliverySpec == Init /\ [][RedeliveryNext]_vars /\ \A r \in Rows : WF_vars(Sweep(r))
=============================================================================
