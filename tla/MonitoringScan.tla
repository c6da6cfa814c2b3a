--------------------------- MODULE MonitoringScan ---------------------------
(***************************************************************************)
(* Scans of one monitored URL: the API's "Scan now", the scheduler, BullMQ *)
(* (at-least-once delivery, retries, stalls), the workers that run         *)
(* runMonitoringJob step by step, the transaction that persists a scan,    *)
(* the worker's 'failed' handler and the sweeper of stuck rows.            *)
(*                                                                         *)
(* A page's text, hashes and entities are one value of Contents, which is  *)
(* also the validator (ETag / Last-Modified) the site sends with it.  A    *)
(* vantage is what makes two scans comparable: the extractor version and   *)
(* the organization's market locale.                                       *)
(***************************************************************************)
EXTENDS Integers, Sequences

CONSTANTS
  ManualTasks,      \* BullMQ jobs added by the scan route, one per click
  ScheduledTasks,   \* BullMQ jobs added by the scheduler, one per bucket
  Workers,          \* concurrent processor slots of all worker processes
  Contents,         \* what a page can show
  Vantages,         \* extractor version and market locale of a scan
  Blank,            \* contents that are fetched but never trusted
  Suspect,          \* <<prior, content>>: prices vanished, not trusted
  Replaced,         \* <<prior, content>>: another layout, a new baseline
  None,
  MaxAttempts,      \* `attempts` of the queue (3 in the code)
  MaxStalls,        \* maxStalledCount of BullMQ (1 by default)
  MaxEdits          \* bound: changes of the page or of the vantage

ASSUME ConstantsOK ==
  /\ ManualTasks \cap ScheduledTasks = {}
  /\ None \notin Contents \cup Workers \cup ManualTasks \cup ScheduledTasks
  /\ Blank \subseteq Contents
  /\ Suspect \subseteq Contents \X Contents
  /\ Replaced \subseteq Contents \X Contents
  /\ Suspect \cap Replaced = {}
  /\ MaxAttempts \in Nat \ {0}
  /\ MaxStalls \in Nat
  /\ MaxEdits \in Nat

VARIABLES
  page,        \* page[v]: what the site serves to vantage v
  vantage,     \* the vantage of a scan that fetches now
  edits,       \* number of ChangePage and ChangeVantage steps so far
  jobs,        \* MonitoringJob.status of every row
  usage,       \* rows that have their UsageRecord
  snapshots,   \* committed Snapshot rows of the URL, in the order of commit
  validators,  \* MonitoredUrl.etag / lastModifiedHeader
  failures,    \* MonitoredUrl.consecutiveFailureCount
  task,        \* BullMQ's view of every job
  worker,      \* local state of each run of runMonitoringJob
  handlers     \* runs of the worker's 'failed' event handler

urlVars == <<snapshots, validators, failures>>
pageVars == <<page, vantage, edits>>
vars == <<pageVars, jobs, usage, urlVars, task, worker, handlers>>

Tasks == ManualTasks \cup ScheduledTasks
MaxRuns == MaxAttempts + MaxStalls

(* A manual scan has one row for all its runs; a scheduled one has a row   *)
(* for each run.                                                           *)
Rows == (ManualTasks \X {0}) \cup (ScheduledTasks \X (1..MaxRuns))
RowOf(t, run) == IF t \in ManualTasks THEN <<t, 0>> ELSE <<t, run>>

Terminal == {"COMPLETED", "FAILED"}
JobStatus == {"ABSENT", "PENDING", "RUNNING"} \cup Terminal
VerificationState == {"NO_CHANGE", "CHANGED", "FAILED_TO_VERIFY"}

NoFetch == [kind |-> "none", content |-> None, offersValidators |-> FALSE]
Fetched == [kind: {"none", "page", "error", "notModified"},
            content: Contents \cup {None}, offersValidators: BOOLEAN]

Idle == [pc |-> "idle", task |-> None, row |-> None, sent |-> None,
         prior |-> 0, vantage |-> None, fetched |-> NoFetch, at |-> 0]

Snapshot == [row: Rows, content: Contents \cup {None}, vantage: Vantages,
             state: VerificationState, errored: BOOLEAN, prev: Nat, at: Nat]

Verified(s) == s.state # "FAILED_TO_VERIFY"

(* A run that only has to report its end to BullMQ.                        *)
Ending(w, pc) == [worker EXCEPT ![w] = [Idle EXCEPT !.pc = pc, !.task = worker[w].task]]

(* Mutant: the ordering by fetchedAt is dropped.                           *)
IsAnyVerified(p) ==
  /\ p # 0 => Verified(snapshots[p])
  /\ p = 0 => \A i \in 1..Len(snapshots) : ~Verified(snapshots[i])

(* getLatestVerifiedSnapshot: p is the newest snapshot by fetchedAt, of    *)
(* those committed, that is not FAILED_TO_VERIFY; 0 when there is none.    *)
IsLatestVerified(p) ==
  /\ p # 0 => Verified(snapshots[p])
  /\ \A i \in 1..Len(snapshots) :
       Verified(snapshots[i]) => p # 0 /\ snapshots[i].at <= snapshots[p].at

-----------------------------------------------------------------------------
(* The snapshot and the fetch were taken from the same vantage.            *)
Comparable(prior, v) == prior # 0 /\ snapshots[prior].vantage = v

(* Mutant: describeExtractionFailure is not asked about errorMessage.      *)
CompareIgnoringErrors(prior, v, fetched) ==
  IF ~Comparable(prior, v) \/ snapshots[prior].content = fetched.content
    THEN "NO_CHANGE"
    ELSE "CHANGED"

(* compareSnapshots: the verdict on a fetch against the prior snapshot.    *)
Compare(prior, v, fetched) ==
  LET edit == <<snapshots[prior].content, fetched.content>>
  IN  IF fetched.kind = "error" \/ fetched.content \in Blank THEN "FAILED_TO_VERIFY"
      ELSE IF ~Comparable(prior, v) \/ edit \in Replaced THEN "NO_CHANGE"
      ELSE IF edit \in Suspect THEN "FAILED_TO_VERIFY"
      ELSE IF edit[1] = edit[2] THEN "NO_CHANGE"
      ELSE "CHANGED"

(* The extractor's answers.  A conditional request whose validator still   *)
(* matches is answered 304; any request can fail (an HTTP error, a         *)
(* timeout, a robots refusal), which the extractor returns and never       *)
(* throws.                                                                 *)
Answers(v, sent) ==
  [kind: {"error"}, content: {None}, offersValidators: {FALSE}]
  \cup IF sent = page[v]
         THEN {[kind |-> "notModified", content |-> None, offersValidators |-> FALSE]}
         ELSE [kind: {"page"}, content: {page[v]}, offersValidators: BOOLEAN]

(* useConditional: never for "Scan now", only over a comparable verified   *)
(* snapshot.  Whether the validators are still fresh (conditionalMaxAgeMs) *)
(* depends on time and is left open.                                       *)
MaySendValidators(w, v) ==
  /\ worker[w].task \in ScheduledTasks
  /\ Comparable(worker[w].prior, v)
  /\ worker[w].sent # None

-----------------------------------------------------------------------------
Init ==
  /\ page \in [Vantages -> Contents]
  /\ vantage \in Vantages
  /\ edits = 0
  /\ jobs = [r \in Rows |-> "ABSENT"]
  /\ usage = {}
  /\ snapshots = <<>>
  /\ validators = None
  /\ failures = 0
  /\ task = [t \in Tasks |-> [state |-> "absent", attempts |-> 0, stalls |-> 0,
                              runs |-> 0, lock |-> None]]
  /\ worker = [w \in Workers |-> Idle]
  /\ handlers = {}

(* The monitored site publishes another page.                              *)
ChangePage(v, c) ==
  /\ edits < MaxEdits
  /\ page[v] # c
  /\ page' = [page EXCEPT ![v] = c]
  /\ edits' = edits + 1
  /\ UNCHANGED <<vantage, jobs, usage, urlVars, task, worker, handlers>>

(* The customer changes the market, or a new extractor version is deployed. *)
ChangeVantage(v) ==
  /\ edits < MaxEdits
  /\ vantage # v
  /\ vantage' = v
  /\ edits' = edits + 1
  /\ UNCHANGED <<page, jobs, usage, urlVars, task, worker, handlers>>

-----------------------------------------------------------------------------
(* POST /scan creates the PENDING row, then adds the job to the queue.     *)
RequestScan(t) ==
  /\ t \in ManualTasks
  /\ task[t].state = "absent"
  /\ jobs' = [jobs EXCEPT ![RowOf(t, 0)] = "PENDING"]
  /\ task' = [task EXCEPT ![t].state = "adding"]
  /\ UNCHANGED <<pageVars, usage, urlVars, worker, handlers>>

Enqueue(t) ==
  /\ task[t].state = "adding"
  /\ task' = [task EXCEPT ![t].state = "waiting"]
  /\ UNCHANGED <<pageVars, jobs, usage, urlVars, worker, handlers>>

(* queue.add() throws, perhaps after Redis took the job (the reply was     *)
(* lost); marking the row FAILED is best effort.                           *)
EnqueueFails(t) ==
  /\ task[t].state = "adding"
  /\ \E state \in {"lost", "waiting"} : task' = [task EXCEPT ![t].state = state]
  /\ \E status \in {"FAILED", jobs[RowOf(t, 0)]} :
       jobs' = [jobs EXCEPT ![RowOf(t, 0)] = status]
  /\ UNCHANGED <<pageVars, usage, urlVars, worker, handlers>>

(* The scheduler's tick adds a job for a due URL.  No row exists yet.      *)
ScheduleScan(t) ==
  /\ t \in ScheduledTasks
  /\ task[t].state = "absent"
  /\ task' = [task EXCEPT ![t].state = "waiting"]
  /\ UNCHANGED <<pageVars, jobs, usage, urlVars, worker, handlers>>

-----------------------------------------------------------------------------
(* A slot takes the job and runMonitoringJob reads the MonitoredUrl row,   *)
(* its validators with it.                                                 *)
Take(w, t) ==
  /\ worker[w].pc = "idle"
  /\ task[t].state = "waiting"
  /\ task' = [task EXCEPT ![t].state = "active", ![t].lock = w, ![t].runs = @ + 1]
  /\ worker' = [worker EXCEPT ![w] =
                  [Idle EXCEPT !.pc = "begin", !.task = t, !.sent = validators,
                               !.row = RowOf(t, task[t].runs + 1)]]
  /\ UNCHANGED <<pageVars, jobs, usage, urlVars, handlers>>

(* markMonitoringJobRunning, whatever the row's status, or                 *)
(* createRunningMonitoringJob.                                             *)
Begin(w) ==
  /\ worker[w].pc = "begin"
  /\ jobs' = [jobs EXCEPT ![worker[w].row] = "RUNNING"]
  /\ worker' = [worker EXCEPT ![w].pc = "prior"]
  /\ UNCHANGED <<pageVars, usage, urlVars, task, handlers>>

ReadPrior(w) ==
  /\ worker[w].pc = "prior"
  /\ \E p \in 0..Len(snapshots) :
       /\ IsLatestVerified(p)
       /\ worker' = [worker EXCEPT ![w].pc = "fetch", ![w].prior = p]
  /\ UNCHANGED <<pageVars, jobs, usage, urlVars, task, handlers>>

Fetch(w) ==
  /\ worker[w].pc = "fetch"
  /\ \E conditional \in {FALSE, MaySendValidators(w, vantage)} :
       \E answer \in Answers(vantage, IF conditional THEN worker[w].sent ELSE None) :
         worker' = [worker EXCEPT ![w].pc = "persist", ![w].vantage = vantage,
                                  ![w].fetched = answer]
  /\ UNCHANGED <<pageVars, jobs, usage, urlVars, task, handlers>>

(* Mutant: the constraints are missing.                                   *)
AlwaysUnrecorded(r) == TRUE

(* The unique constraints on Snapshot.monitoringJobId and                  *)
(* UsageRecord.monitoringJobId: a second outcome of a row is refused.      *)
Unrecorded(r) == r \notin usage

(* persistNotModifiedResult: a success without a snapshot.                 *)
PersistNotModified(w) ==
  /\ worker[w].pc = "persist"
  /\ worker[w].fetched.kind = "notModified"
  /\ Unrecorded(worker[w].row)
  /\ jobs' = [jobs EXCEPT ![worker[w].row] = "COMPLETED"]
  /\ usage' = usage \cup {worker[w].row}
  /\ failures' = 0
  /\ worker' = Ending(w, "ack")
  /\ UNCHANGED <<pageVars, snapshots, validators, task, handlers>>

(* Mutant: the streak is not reset by a success.                           *)
StreakNeverReset(errored) == IF errored THEN failures + 1 ELSE failures

StreakAfter(errored) == IF errored THEN failures + 1 ELSE 0

(* Mutant: an unverified scan leaves the old validators in place.          *)
ValidatorsNotCleared(fetched, state) ==
  IF state # "FAILED_TO_VERIFY" /\ fetched.offersValidators
    THEN fetched.content
    ELSE validators

(* The validators persistMonitoringResult leaves on the MonitoredUrl row.  *)
KeptValidators(fetched, state) ==
  IF state # "FAILED_TO_VERIFY" /\ fetched.offersValidators
    THEN fetched.content
    ELSE None

(* The fetchedAt of the snapshots committed or created, as ranks.          *)
FetchTimes ==
  {0} \cup {snapshots[i].at : i \in 1..Len(snapshots)} \cup {worker[w].at : w \in Workers}

(* persistMonitoringResult opens a READ COMMITTED transaction and creates  *)
(* the snapshot, which takes the present time as its fetchedAt.  Nobody    *)
(* sees it yet; a row that is not Unrecorded throws (Throw).               *)
OpenResult(w) ==
  /\ worker[w].pc = "persist"
  /\ worker[w].fetched.kind # "notModified"
  /\ Unrecorded(worker[w].row)
  /\ \E last \in FetchTimes :
       /\ \A at \in FetchTimes : at <= last
       /\ worker' = [worker EXCEPT ![w].pc = "commit", ![w].at = last + 1]
  /\ UNCHANGED <<pageVars, jobs, usage, urlVars, task, handlers>>

(* The job's row, the usage record and, last, the URL's row, which stays   *)
(* locked until the commit: transactions that overlap commit in the order  *)
(* of these writes, which need not be that of their snapshots.             *)
CommitResult(w) ==
  LET fetched == worker[w].fetched
      state == Compare(worker[w].prior, worker[w].vantage, fetched)
      errored == fetched.kind = "error"
  IN  /\ worker[w].pc = "commit"
      /\ Unrecorded(worker[w].row)
      /\ snapshots' = Append(snapshots,
                        [row |-> worker[w].row, content |-> fetched.content,
                         vantage |-> worker[w].vantage, state |-> state,
                         errored |-> errored, prev |-> worker[w].prior,
                         at |-> worker[w].at])
      /\ jobs' = [jobs EXCEPT ![worker[w].row] = IF errored THEN "FAILED" ELSE "COMPLETED"]
      /\ usage' = usage \cup {worker[w].row}
      /\ validators' = KeptValidators(fetched, state)
      /\ failures' = StreakAfter(errored)
      /\ worker' = Ending(w, "ack")
      /\ UNCHANGED <<pageVars, task, handlers>>

(* Anything between reading the row and the commit throws, and the open    *)
(* transaction is rolled back.  Once there is a row, the catch block tries *)
(* to mark it FAILED.                                                      *)
Throw(w) ==
  /\ worker[w].pc \in {"begin", "prior", "fetch", "persist", "commit"}
  /\ worker' = Ending(w, "failing")
  /\ \/ jobs' = jobs
     \/ /\ worker[w].pc # "begin"
        /\ jobs' = [jobs EXCEPT ![worker[w].row] = "FAILED"]
  /\ UNCHANGED <<pageVars, usage, urlVars, task, handlers>>

-----------------------------------------------------------------------------
(* BullMQ.  A slot that lost its lock can no longer move the job.          *)
Ack(w) ==
  LET t == worker[w].task
  IN  /\ worker[w].pc = "ack"
      /\ task' = IF task[t].lock = w
                   THEN [task EXCEPT ![t].state = "completed", ![t].lock = None]
                   ELSE task
      /\ worker' = [worker EXCEPT ![w] = Idle]
      /\ UNCHANGED <<pageVars, jobs, usage, urlVars, handlers>>

(* The 'failed' handler does nothing for a job without monitoringJobId.    *)
Notify(t) == handlers \cup (IF t \in ManualTasks THEN {[task |-> t, pc |-> "read"]} ELSE {})

LastAttempt(t) == task[t].attempts + 1 >= MaxAttempts

Nack(w) ==
  LET t == worker[w].task
  IN  /\ worker[w].pc = "failing"
      /\ IF task[t].lock = w
           THEN /\ task' = [task EXCEPT ![t].state = IF LastAttempt(t) THEN "failed" ELSE "waiting",
                                        ![t].attempts = @ + 1, ![t].lock = None]
                /\ handlers' = Notify(t)
           ELSE UNCHANGED <<task, handlers>>
      /\ worker' = [worker EXCEPT ![w] = Idle]
      /\ UNCHANGED <<pageVars, jobs, usage, urlVars>>

(* The lock of an active job expires: its process died, or is too busy to  *)
(* renew it and goes on running the scan.                                  *)
Stall(t) ==
  /\ task[t].state = "active"
  /\ IF task[t].stalls < MaxStalls
       THEN /\ task' = [task EXCEPT ![t].state = "waiting", ![t].stalls = @ + 1, ![t].lock = None]
            /\ UNCHANGED handlers
       ELSE /\ task' = [task EXCEPT ![t].state = "failed", ![t].lock = None]
            /\ handlers' = Notify(t)
  /\ UNCHANGED <<pageVars, jobs, usage, urlVars, worker>>

Crash(w) ==
  /\ worker[w].pc # "idle"
  /\ worker' = [worker EXCEPT ![w] = Idle]
  /\ UNCHANGED <<pageVars, jobs, usage, urlVars, task, handlers>>

-----------------------------------------------------------------------------
(* The 'failed' handler reads the row, then marks it FAILED unless what it *)
(* read was terminal.                                                      *)
HandlerRead(h) ==
  /\ h.pc = "read"
  /\ handlers' = (handlers \ {h}) \cup
                 (IF jobs[RowOf(h.task, 0)] \in Terminal THEN {} ELSE {[h EXCEPT !.pc = "mark"]})
  /\ UNCHANGED <<pageVars, jobs, usage, urlVars, task, worker>>

HandlerMark(h) ==
  /\ h.pc = "mark"
  /\ jobs' = [jobs EXCEPT ![RowOf(h.task, 0)] = "FAILED"]
  /\ handlers' = handlers \ {h}
  /\ UNCHANGED <<pageVars, usage, urlVars, task, worker>>

(* The process dies, or the database refuses: the handler only logs.       *)
HandlerLost(h) ==
  /\ handlers' = handlers \ {h}
  /\ UNCHANGED <<pageVars, jobs, usage, urlVars, task, worker>>

(* Mutant: only rows that never started are swept.                         *)
NeverStarted(r) == jobs[r] = "PENDING"

Stuck(r) == jobs[r] \in {"PENDING", "RUNNING"}

(* sweepStuckJobs: a row PENDING or RUNNING for too long is FAILED.        *)
Sweep(r) ==
  /\ Stuck(r)
  /\ jobs' = [jobs EXCEPT ![r] = "FAILED"]
  /\ UNCHANGED <<pageVars, usage, urlVars, task, worker, handlers>>

-----------------------------------------------------------------------------
WorkerStep(w) ==
  \/ \E t \in Tasks : Take(w, t)
  \/ Begin(w) \/ ReadPrior(w) \/ Fetch(w)
  \/ PersistNotModified(w) \/ OpenResult(w) \/ CommitResult(w)
  \/ Throw(w) \/ Ack(w) \/ Nack(w) \/ Crash(w)

HandlerStep == \E h \in handlers : HandlerRead(h) \/ HandlerMark(h) \/ HandlerLost(h)

Next ==
  \/ \E v \in Vantages, c \in Contents : ChangePage(v, c)
  \/ \E v \in Vantages : ChangeVantage(v)
  \/ \E t \in Tasks : RequestScan(t) \/ Enqueue(t) \/ EnqueueFails(t) \/ ScheduleScan(t) \/ Stall(t)
  \/ \E w \in Workers : WorkerStep(w)
  \/ HandlerStep
  \/ \E r \in Rows : Sweep(r)

Spec == Init /\ [][Next]_vars

(* The scheduler process keeps ticking; nothing is assumed of workers.     *)
FairSpec == Spec /\ \A r \in Rows : WF_vars(Sweep(r))
-----------------------------------------------------------------------------
QueueJob == [state: {"absent", "adding", "lost", "waiting", "active", "completed", "failed"},
             attempts: 0..MaxAttempts, stalls: 0..MaxStalls,
             runs: 0..MaxRuns, lock: Workers \cup {None}]

Run == [pc: {"idle", "begin", "prior", "fetch", "persist", "commit", "ack", "failing"},
        task: Tasks \cup {None}, row: Rows \cup {None},
        sent: Contents \cup {None}, prior: Nat,
        vantage: Vantages \cup {None}, fetched: Fetched, at: Nat]

(* Types of all variables.                                                 *)
TypeOK ==
  /\ page \in [Vantages -> Contents]
  /\ vantage \in Vantages
  /\ edits \in 0..MaxEdits
  /\ jobs \in [Rows -> JobStatus]
  /\ usage \subseteq Rows
  /\ snapshots \in Seq(Snapshot)
  /\ validators \in Contents \cup {None}
  /\ failures \in Nat
  /\ task \in [Tasks -> QueueJob]
  /\ worker \in [Workers -> Run]
  /\ handlers \subseteq [task: ManualTasks, pc: {"read", "mark"}]

(* What the proofs need of BullMQ's bookkeeping: a job that can still run  *)
(* has an attempt left, and its runs are paid for by failures and stalls.  *)
TaskInv ==
  \A t \in Tasks :
    LET k == task[t]
    IN  /\ k.state # "active" => k.lock = None
        /\ k.state \in {"absent", "adding", "waiting", "active"} => k.attempts < MaxAttempts
        /\ k.state \in {"absent", "adding", "waiting"} => k.runs <= k.attempts + k.stalls
        /\ k.state = "active" => k.runs <= k.attempts + k.stalls + 1

(* What each step of a run has already established.                        *)
RunInv ==
  \A w \in Workers :
    LET k == worker[w]
    IN  /\ k.pc # "idle" => k.task \in Tasks
        /\ k.pc \in {"begin", "prior", "fetch", "persist", "commit"} => k.row \in Rows
        /\ k.pc \in {"persist", "commit"} =>
             /\ k.vantage \in Vantages
             /\ k.fetched.kind # "none"
             /\ k.fetched.kind = "page" => k.fetched.content \in Contents
             /\ k.fetched.kind = "error" => /\ k.fetched.content = None
                                            /\ k.fetched.offersValidators = FALSE
        /\ k.pc = "commit" => k.fetched.kind # "notModified"

(* The validators on the URL's row are those of the snapshot committed     *)
(* last, and it is verified: persistMonitoringResult writes or clears them *)
(* in the transaction of the snapshot.                                     *)
ValidatorsFromLastCommit ==
  validators # None =>
    /\ snapshots # <<>>
    /\ Verified(snapshots[Len(snapshots)])
    /\ snapshots[Len(snapshots)].content = validators

(* "A transient failure can never silently become the new previous state": *)
(* whatever snapshot a scan in progress or a recorded snapshot was         *)
(* compared with is an earlier, verified one.                              *)
PriorIsVerified ==
  /\ \A i \in 1..Len(snapshots) :
       LET p == snapshots[i].prev IN p < i /\ (p # 0 => Verified(snapshots[p]))
  /\ \A w \in Workers :
       LET p == worker[w].prior IN p <= Len(snapshots) /\ (p # 0 => Verified(snapshots[p]))

(* The failure streak counts the fetch failures committed last.            *)
StreakFromLastCommits ==
  /\ failures <= Len(snapshots)
  /\ \A i \in (Len(snapshots) - failures + 1)..Len(snapshots) : snapshots[i].errored

(* fetchedAt agrees with the order of commit.                              *)
InOrder == \A i, j \in 1..Len(snapshots) : i < j => snapshots[i].at < snapshots[j].at

(* What a reader of the page's history, which is sorted by fetchedAt, sees *)
(* first.                                                                  *)
Newest(i) == \A j \in 1..Len(snapshots) : snapshots[j].at <= snapshots[i].at

(* Under redelivery, retry and sweeping, a job row has at most one         *)
(* snapshot, a snapshot is always paid for by a usage record, and a row    *)
(* that says COMPLETED has recorded its outcome.                           *)
OutcomeRecordedOnce ==
  /\ \A i, j \in 1..Len(snapshots) : snapshots[i].row = snapshots[j].row => i = j
  /\ \A i \in 1..Len(snapshots) : snapshots[i].row \in usage
  /\ \A r \in Rows : jobs[r] = "COMPLETED" => r \in usage

(* Overlapping runs, crashes and retries leave a history as ScanLedger     *)
(* promises it.                                                            *)
Ledger == INSTANCE ScanLedger
ImplementsLedger == Ledger!Spec

(* No row stays PENDING or RUNNING: the enqueue may be lost, the worker    *)
(* may die without its 'failed' handler, the sweeper ends the row.         *)
RowsSettle == <>[](\A r \in Rows : jobs[r] \notin {"PENDING", "RUNNING"})

(* When scans of the URL do not overlap, a page that differs from the last *)
(* verified one is reported exactly once: two verified snapshots that      *)
(* follow one another by fetchedAt and are comparable differ iff the       *)
(* second one is CHANGED.                                                  *)
EveryChangeReportedOnce ==
  \A i, j \in 1..Len(snapshots) :
    (/\ snapshots[i].at < snapshots[j].at
     /\ Verified(snapshots[i]) /\ Verified(snapshots[j])
     /\ \A k \in 1..Len(snapshots) :
          snapshots[i].at < snapshots[k].at /\ snapshots[k].at < snapshots[j].at
            => ~Verified(snapshots[k])
     /\ snapshots[i].vantage = snapshots[j].vantage
     /\ <<snapshots[i].content, snapshots[j].content>> \notin Replaced)
    => (snapshots[j].state = "CHANGED" <=> snapshots[i].content # snapshots[j].content)

RecordsNotModified(w) ==
  /\ worker[w].pc = "persist" /\ worker'[w].pc = "ack"
  /\ worker[w].fetched.kind = "notModified"

(* The snapshot a recorded 304 confirms is the newest one, is verified and *)
(* carries the validators that were sent.                                  *)
ConfirmsLatest(w) ==
  \E i \in 1..Len(snapshots) :
    Newest(i) /\ Verified(snapshots[i]) /\ snapshots[i].content = worker[w].sent

(* "A retried or duplicated write fails loudly instead of showing the      *)
(* customer the same change twice": no two CHANGED snapshots report the    *)
(* same difference from the same previous snapshot.                        *)
ChangeShownOnce ==
  \A i, j \in 1..Len(snapshots) :
    (/\ snapshots[i].state = "CHANGED" /\ snapshots[j].state = "CHANGED"
     /\ snapshots[i].prev = snapshots[j].prev
     /\ snapshots[i].content = snapshots[j].content) => i = j
=============================================================================
