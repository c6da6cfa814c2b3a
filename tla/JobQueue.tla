---------------------------- MODULE JobQueue -----------------------------
(***************************************************************************)
(* BullMQ's record of one job: a lock owned by the slot that runs it and a *)
(* bounded number of stalls.                                               *)
(***************************************************************************)
EXTENDS Naturals

CONSTANTS
  None,      \* no slot
  MaxStalls  \* maxStalledCount of BullMQ (1 by default)

QueueJob(Slots) ==
  [state: {"absent", "waiting", "active", "completed", "failed"},
   lock: Slots \cup {None}, stalls: 0..MaxStalls]

NoJob == [state |-> "absent", lock |-> None, stalls |-> 0]

Ended(job) == job.state \in {"completed", "failed"}

(* add() with an id that exists is a no-op.                                *)
Added(job) == IF job.state = "absent" THEN [job EXCEPT !.state = "waiting"] ELSE job

TakenBy(job, w) == [job EXCEPT !.state = "active", !.lock = w]

(* A slot reports its outcome; BullMQ ignores one that lost the lock.      *)
Reported(job, w, outcome) ==
  IF job.lock = w THEN [job EXCEPT !.state = outcome, !.lock = None] ELSE job

(* A lock that expired gives the job back, or fails it once too often.     *)
Stalled(job) ==
  IF job.stalls < MaxStalls
    THEN [state |-> "waiting", lock |-> None, stalls |-> job.stalls + 1]
    ELSE [job EXCEPT !.state = "failed", !.lock = None]
=============================================================================
