----------------------------- MODULE AiAnalysis -----------------------------
(***************************************************************************)
(* The AI analysis of one change event: POST requests that find or create  *)
(* its row and enqueue its job under the row's id, BullMQ (one attempt,    *)
(* stalls), the worker that pays a provider for an answer, the 'failed'    *)
(* handler and the sweeper.                                                *)
(***************************************************************************)
EXTENDS JobQueue

CONSTANTS
  Requests,   \* clicks on "Analyze", one POST each
  Workers,    \* processor slots of the AI queue
  LocksHold   \* whether a live run always renews its lock in time

ASSUME ConstantsOK ==
  /\ None \notin Workers
  /\ MaxStalls \in Nat
  /\ LocksHold \in BOOLEAN

VARIABLES
  status,    \* AiAnalysis.status, ABSENT before the row exists
  result,    \* the run whose answer the row holds, 0 for none
  request,   \* program counter of each POST
  job,       \* the BullMQ job whose id is the row's
  runs,      \* number of runs started so far (names the runs)
  worker,    \* local state of each slot
  handlers   \* <<run, pc>> of each run of the 'failed' handler

rowVars == <<status, result>>
vars == <<rowVars, request, job, runs, worker, handlers>>

Statuses == {"ABSENT", "PENDING", "RUNNING", "COMPLETED", "FAILED"}
Run == [pc: {"idle", "read", "prepare", "call", "store", "giveup", "ack", "failing"},
        run: Nat, found: Statuses, tries: 0..2]
Idle == [pc |-> "idle", run |-> 0, found |-> "ABSENT", tries |-> 0]
Job == [state: {"absent", "waiting", "active", "completed", "failed"},
        lock: Workers \cup {None}, stalls: 0..MaxStalls]

(* Mutant: a failure overwrites whatever the row says.                     *)
AlwaysOpen(s) == s # "ABSENT"

(* The WHERE clause of markAiAnalysisCompleted and markAiAnalysisFailed.   *)
Open(s) == s \in {"PENDING", "RUNNING"}

(* markAiAnalysisFailed.                                                   *)
MarkFailed == status' = (IF Open(status) THEN "FAILED" ELSE status) /\ UNCHANGED result

Init ==
  /\ status = "ABSENT"
  /\ result = 0
  /\ request = [r \in Requests |-> "idle"]
  /\ job = NoJob
  /\ runs = 0
  /\ worker = [w \in Workers |-> Idle]
  /\ handlers = {}

-----------------------------------------------------------------------------
(* POST /analysis.  getOrCreatePendingAiAnalysis returns an existing row   *)
(* as it is; only PENDING and FAILED rows go on to the queue.              *)
Find(r) ==
  /\ request[r] \in {"idle", "find"}
  /\ request' = [request EXCEPT ![r] =
       CASE status = "ABSENT" -> "create"
         [] status \in {"COMPLETED", "RUNNING"} -> "done"
         [] OTHER -> "lookup"]
  /\ UNCHANGED <<rowVars, job, runs, worker, handlers>>

(* A create that lost the race finds the winner's row.                     *)
Create(r) ==
  /\ request[r] = "create"
  /\ IF status = "ABSENT"
       THEN status' = "PENDING" /\ request' = [request EXCEPT ![r] = "lookup"]
       ELSE status' = status /\ request' = [request EXCEPT ![r] = "find"]
  /\ UNCHANGED <<result, job, runs, worker, handlers>>

(* addJobReplacingTerminal, one call to Redis at a time.                   *)
Lookup(r) ==
  /\ request[r] = "lookup"
  /\ request' = [request EXCEPT ![r] =
       IF job.state \in {"completed", "failed"} THEN "remove" ELSE "add"]
  /\ UNCHANGED <<rowVars, job, runs, worker, handlers>>

(* By now the job under this id may be another request's: one that waits   *)
(* is removed all the same, one that is active is locked and remove throws. *)
Remove(r) ==
  /\ request[r] = "remove"
  /\ IF job.state = "active"
       THEN job' = job /\ request' = [request EXCEPT ![r] = "orphan"]
       ELSE job' = NoJob /\ request' = [request EXCEPT ![r] = "add"]
  /\ UNCHANGED <<rowVars, runs, worker, handlers>>

(* add() with an id that exists is a no-op.                                *)
JobAfterAdd == IF job.state = "absent" THEN [job EXCEPT !.state = "waiting"] ELSE job

Add(r) ==
  /\ request[r] = "add"
  /\ job' = JobAfterAdd
  /\ request' = [request EXCEPT ![r] = "done"]
  /\ UNCHANGED <<rowVars, runs, worker, handlers>>

(* Redis fails; an add may have been applied before its reply was lost.    *)
EnqueueFails(r) ==
  /\ request[r] \in {"lookup", "remove", "add"}
  /\ job' \in {job} \cup (IF request[r] = "add" THEN {JobAfterAdd} ELSE {})
  /\ request' = [request EXCEPT ![r] = "orphan"]
  /\ UNCHANGED <<rowVars, runs, worker, handlers>>

MarkOrphan(r) ==
  /\ request[r] = "orphan"
  /\ request' = [request EXCEPT ![r] = "done"]
  /\ MarkFailed \/ UNCHANGED rowVars
  /\ UNCHANGED <<job, runs, worker, handlers>>

-----------------------------------------------------------------------------
Take(w) ==
  /\ worker[w].pc = "idle"
  /\ job.state = "waiting"
  /\ job' = [job EXCEPT !.state = "active", !.lock = w]
  /\ runs' = runs + 1
  /\ worker' = [worker EXCEPT ![w] =
       [pc |-> "read", run |-> runs + 1, found |-> "ABSENT", tries |-> 0]]
  /\ UNCHANGED <<rowVars, request, handlers>>

(* Mutant: the early return for a COMPLETED row is dropped.                *)
NeverAnswered(s) == FALSE

Answered(s) == s = "COMPLETED"

Read(w) ==
  /\ worker[w].pc = "read"
  /\ worker' = [worker EXCEPT ![w].pc = IF Answered(status) THEN "ack" ELSE "prepare",
                             ![w].found = status]
  /\ UNCHANGED <<rowVars, request, job, runs, handlers>>

(* The change event is gone, unverified or of an unsupported type.         *)
Refuse(w) ==
  /\ worker[w].pc = "prepare"
  /\ MarkFailed
  /\ worker' = [worker EXCEPT ![w].pc = "ack"]
  /\ UNCHANGED <<request, job, runs, handlers>>

(* markAiAnalysisRunning acts on a PENDING row only; the run goes on       *)
(* whatever it finds.                                                      *)
MarkRunning(w) ==
  /\ worker[w].pc = "prepare"
  /\ status' = IF status = "PENDING" THEN "RUNNING" ELSE status
  /\ worker' = [worker EXCEPT ![w].pc = "call"]
  /\ UNCHANGED <<result, request, job, runs, handlers>>

(* analyzeChangeWithRetry retries a transient failure once.                *)
MayRetry(w) == worker[w].tries = 0

(* One paid request to the provider; it answers, is refused or invalid, or *)
(* fails transiently.                                                      *)
Call(w) ==
  /\ worker[w].pc = "call"
  /\ \E next \in {"store", "giveup"} \cup (IF MayRetry(w) THEN {"call"} ELSE {}) :
       worker' = [worker EXCEPT ![w].pc = next, ![w].tries = @ + 1]
  /\ UNCHANGED <<rowVars, request, job, runs, handlers>>

(* markAiAnalysisCompleted; an update that matches no row is no error.     *)
Store(w) ==
  /\ worker[w].pc = "store"
  /\ IF Open(status)
       THEN status' = "COMPLETED" /\ result' = worker[w].run
       ELSE UNCHANGED rowVars
  /\ worker' = [worker EXCEPT ![w].pc = "ack"]
  /\ UNCHANGED <<request, job, runs, handlers>>

(* The database or the provider throws.  A failing resolveProvider or      *)
(* provider call tries to mark the row before it rethrows, a failing read  *)
(* or markAiAnalysisRunning does not.                                      *)
Throw(w) ==
  /\ worker[w].pc \in {"read", "prepare", "call", "store", "giveup"}
  /\ worker[w].pc = "call" => worker[w].tries = 0
  /\ \/ worker[w].pc \in {"prepare", "store", "giveup"} /\ MarkFailed
     \/ UNCHANGED rowVars
  /\ worker' = [worker EXCEPT ![w].pc = "failing"]
  /\ UNCHANGED <<request, job, runs, handlers>>

-----------------------------------------------------------------------------
(* BullMQ: one attempt per job.                                            *)
Ack(w) ==
  /\ worker[w].pc = "ack"
  /\ job' = IF job.lock = w THEN [job EXCEPT !.state = "completed", !.lock = None] ELSE job
  /\ worker' = [worker EXCEPT ![w] = Idle]
  /\ UNCHANGED <<rowVars, request, runs, handlers>>

Nack(w) ==
  /\ worker[w].pc = "failing"
  /\ IF job.lock = w
       THEN /\ job' = [job EXCEPT !.state = "failed", !.lock = None]
            /\ handlers' = handlers \cup {<<runs, "read">>}
       ELSE UNCHANGED <<job, handlers>>
  /\ worker' = [worker EXCEPT ![w] = Idle]
  /\ UNCHANGED <<rowVars, request, runs>>

Crash(w) ==
  /\ worker[w].pc # "idle"
  /\ worker' = [worker EXCEPT ![w] = Idle]
  /\ UNCHANGED <<rowVars, request, job, runs, handlers>>

(* The lock expires: its run died, or lives on without renewing it.        *)
Stall ==
  /\ job.state = "active"
  /\ LocksHold => worker[job.lock].pc = "idle"
  /\ IF job.stalls < MaxStalls
       THEN /\ job' = [state |-> "waiting", lock |-> None, stalls |-> job.stalls + 1]
            /\ UNCHANGED handlers
       ELSE /\ job' = [job EXCEPT !.state = "failed", !.lock = None]
            /\ handlers' = handlers \cup {<<runs, "read">>}
  /\ UNCHANGED <<rowVars, request, runs, worker>>

HandlerRead(h) ==
  /\ h[2] = "read"
  /\ handlers' = (handlers \ {h}) \cup (IF Open(status) THEN {<<h[1], "mark">>} ELSE {})
  /\ UNCHANGED <<rowVars, request, job, runs, worker>>

HandlerMark(h) ==
  /\ h[2] = "mark"
  /\ MarkFailed
  /\ handlers' = handlers \ {h}
  /\ UNCHANGED <<request, job, runs, worker>>

HandlerLost(h) ==
  /\ handlers' = handlers \ {h}
  /\ UNCHANGED <<rowVars, request, job, runs, worker>>

(* Mutant: PENDING rows are not swept.                                     *)
StuckRunning == status = "RUNNING"

Stuck == status \in {"PENDING", "RUNNING"}

(* sweepStuckJobs.                                                         *)
Sweep ==
  /\ Stuck
  /\ status' = "FAILED"
  /\ UNCHANGED <<result, request, job, runs, worker, handlers>>

-----------------------------------------------------------------------------
RequestStep(r) ==
  \/ Find(r) \/ Create(r) \/ Lookup(r) \/ Remove(r) \/ Add(r)
  \/ EnqueueFails(r) \/ MarkOrphan(r)

WorkerStep(w) ==
  \/ Take(w) \/ Read(w) \/ Refuse(w) \/ MarkRunning(w) \/ Call(w) \/ Store(w)
  \/ Throw(w) \/ Ack(w) \/ Nack(w) \/ Crash(w)

HandlerStep(h) == HandlerRead(h) \/ HandlerMark(h) \/ HandlerLost(h)

Next ==
  \/ \E r \in Requests : RequestStep(r)
  \/ \E w \in Workers : WorkerStep(w)
  \/ Stall
  \/ \E h \in handlers : HandlerStep(h)
  \/ Sweep

Spec == Init /\ [][Next]_vars

(* The scheduler process keeps ticking; nothing else is assumed.           *)
FairSpec == Spec /\ WF_vars(Sweep)
-----------------------------------------------------------------------------
(* Types; a run asks the provider at most twice.                           *)
TypeOK ==
  /\ status \in Statuses
  /\ result \in Nat
  /\ request \in [Requests -> {"idle", "find", "create", "lookup", "remove", "add", "orphan", "done"}]
  /\ job \in Job
  /\ runs \in Nat
  /\ worker \in [Workers -> Run]
  /\ handlers \subseteq Nat \X {"read", "mark"}

(* Stragglers, late handlers, racing requests and the sweeper never        *)
(* rewrite a terminal row or its result: "it can never overwrite a         *)
(* completed analysis with a second, possibly different, paid-for result". *)
Row == INSTANCE AnalysisRow
ImplementsRow == Row!Spec

(* "A duplicate BullMQ delivery, a worker retry, or two near-simultaneous  *)
(* trigger requests must never result in a second paid provider call for a *)
(* ChangeEvent that already has a completed analysis."                     *)
NoCallForCompleted ==
  [][\A w \in Workers : worker'[w].tries > worker[w].tries => status # "COMPLETED"]_vars

(* An analysis does not stay PENDING or RUNNING forever.                   *)
RowSettles == <>[](status \notin {"PENDING", "RUNNING"})
=============================================================================
