------------------------ MODULE MonitoringScanProofs ------------------------
(***************************************************************************)
(* Proofs about MonitoringScan for any sets of jobs, slots, contents and   *)
(* vantages and any retry limits.  The typing invariant needs TaskInv      *)
(* (BullMQ's attempts and stalls bound the runs of a job) and RunInv (what *)
(* each step of a run has established); the history invariants follow from *)
(* it, and so does the refinement of ScanLedger.                           *)
(***************************************************************************)
EXTENDS MCScanOverlap, TLAPS

TypeInv == TypeOK /\ TaskInv /\ RunInv

-----------------------------------------------------------------------------
(* Types of the operators the actions are built from.                      *)
LEMMA RowOfType ==
  ASSUME NEW t \in Tasks, NEW run \in Nat,
         t \in ScheduledTasks => run \in 1..MaxRuns
  PROVE  RowOf(t, run) \in Rows
BY DEF RowOf, Rows, Tasks

LEMMA CompareType ==
  ASSUME NEW p, NEW v, NEW f
  PROVE  Compare(p, v, f) \in VerificationState
BY DEF Compare, VerificationState

LEMMA AnswersType ==
  ASSUME TypeOK, NEW v \in Vantages, NEW sent, NEW ans \in Answers(v, sent)
  PROVE  /\ ans \in Fetched
         /\ ans.kind # "none"
         /\ ans.kind = "page" => ans.content \in Contents
         /\ ans.kind = "error" => ans.content = None /\ ans.offersValidators = FALSE
<1>1. page[v] \in Contents
  BY DEF TypeOK
<1>2. CASE ans \in [kind: {"error"}, content: {None}, offersValidators: {FALSE}]
  BY <1>2 DEF Fetched
<1>3. CASE ans = [kind |-> "notModified", content |-> None, offersValidators |-> FALSE]
  BY <1>3 DEF Fetched
<1>4. CASE ans \in [kind: {"page"}, content: {page[v]}, offersValidators: BOOLEAN]
  BY <1>1, <1>4 DEF Fetched
<1>5. QED
  BY <1>2, <1>3, <1>4 DEF Answers

LEMMA RunsType ==
  ASSUME TypeOK, NEW w \in Workers, NEW r \in Run
  PROVE  [worker EXCEPT ![w] = r] \in [Workers -> Run]
BY DEF TypeOK

LEMMA IdleType == Idle \in Run
BY DEF Idle, Run, NoFetch, Fetched

LEMMA EndingType ==
  ASSUME TypeOK, NEW w \in Workers, NEW pc \in {"ack", "failing"}
  PROVE  Ending(w, pc) \in [Workers -> Run]
<1>1. [Idle EXCEPT !.pc = pc, !.task = worker[w].task] \in Run
  BY IdleType DEF TypeOK, Run
<1>2. QED
  BY <1>1, RunsType DEF Ending

(* A run that has ended, or is ending, has only its job left.              *)
LEMMA EndingRunInv ==
  ASSUME TypeOK, RunInv, NEW w \in Workers, NEW pc \in {"ack", "failing"},
         worker[w].pc # "idle", worker' = Ending(w, pc)
  PROVE  RunInv'
<1>1. worker[w].task \in Tasks
  BY DEF RunInv
<1>2. /\ worker'[w].pc = pc /\ worker'[w].task = worker[w].task
      /\ \A u \in Workers \ {w} : worker'[u] = worker[u]
  BY DEF Ending, TypeOK, Idle
<1>3. QED
  BY <1>1, <1>2 DEF RunInv

LEMMA IdleRunInv ==
  ASSUME TypeOK, RunInv, NEW w \in Workers, worker' = [worker EXCEPT ![w] = Idle]
  PROVE  RunInv' /\ worker' \in [Workers -> Run]
<1>1. /\ worker'[w].pc = "idle"
      /\ \A u \in Workers \ {w} : worker'[u] = worker[u]
  BY DEF TypeOK, Idle
<1>2. RunInv'
  BY <1>1 DEF RunInv
<1>3. QED
  BY <1>2, IdleType, RunsType

LEMMA TasksType ==
  ASSUME TypeOK, NEW t \in Tasks, NEW k \in QueueJob
  PROVE  [task EXCEPT ![t] = k] \in [Tasks -> QueueJob]
BY DEF TypeOK

(* Only job t changes: TaskInv need only be shown for its new value k.     *)
TaskInvOf(k) ==
  /\ k.state # "active" => k.lock = None
  /\ k.state \in {"absent", "adding", "waiting", "active"} => k.attempts < MaxAttempts
  /\ k.state \in {"absent", "adding", "waiting"} => k.runs <= k.attempts + k.stalls
  /\ k.state = "active" => k.runs <= k.attempts + k.stalls + 1

LEMMA TaskStep ==
  ASSUME TypeOK, TaskInv, NEW t \in Tasks, NEW k \in QueueJob, TaskInvOf(k),
         task' = [task EXCEPT ![t] = k]
  PROVE  TaskInv' /\ task' \in [Tasks -> QueueJob]
<1>1. /\ task'[t] = k
      /\ \A u \in Tasks \ {t} : task'[u] = task[u]
  BY DEF TypeOK
<1>2. TaskInv'
  BY <1>1 DEF TaskInv, TaskInvOf
<1>3. QED
  BY <1>2, TasksType

-----------------------------------------------------------------------------
LEMMA TypeInit == Init => TypeInv
<1> SUFFICES ASSUME Init PROVE TypeInv
  OBVIOUS
<1>1. \A t \in Tasks : task[t] \in QueueJob
  BY ConstantsOK DEF Init, QueueJob, MaxRuns
<1>2. task \in [Tasks -> QueueJob]
  BY <1>1 DEF Init
<1>3. worker \in [Workers -> Run]
  BY IdleType DEF Init
<1>4. TypeOK
  BY <1>2, <1>3, ConstantsOK DEF Init, TypeOK, JobStatus
<1>5. TaskInv
  BY ConstantsOK DEF Init, TaskInv
<1>6. RunInv
  BY DEF Init, RunInv, Idle
<1>7. QED
  BY <1>4, <1>5, <1>6 DEF TypeInv

LEMMA TypeEnvironment ==
  ASSUME TypeInv,
         \/ \E v \in Vantages, c \in Contents : ChangePage(v, c)
         \/ \E v \in Vantages : ChangeVantage(v)
  PROVE  TypeInv'
<1>1. TypeOK'
  BY ConstantsOK DEF ChangePage, ChangeVantage, TypeInv, TypeOK, urlVars
<1>2. TaskInv' /\ RunInv'
  BY DEF ChangePage, ChangeVantage, TypeInv, TaskInv, RunInv
<1>3. QED
  BY <1>1, <1>2 DEF TypeInv

LEMMA TypeQueueing ==
  ASSUME TypeInv, NEW t \in Tasks,
         RequestScan(t) \/ Enqueue(t) \/ EnqueueFails(t) \/ ScheduleScan(t)
  PROVE  TypeInv'
<1>1. PICK s \in {"adding", "waiting", "lost"} : task' = [task EXCEPT ![t].state = s]
  BY DEF RequestScan, Enqueue, EnqueueFails, ScheduleScan
<1>2. task[t].state \in {"absent", "adding"}
  BY DEF RequestScan, Enqueue, EnqueueFails, ScheduleScan
<1>3. task[t] \in QueueJob
  BY DEF TypeInv, TypeOK
<1>4. /\ [task[t] EXCEPT !.state = s] \in QueueJob
      /\ TaskInvOf([task[t] EXCEPT !.state = s])
  BY <1>2, <1>3 DEF QueueJob, TypeInv, TaskInv, TaskInvOf
<1>5. TaskInv' /\ task' \in [Tasks -> QueueJob]
  BY <1>1, <1>4, TaskStep DEF TypeInv
<1>6. jobs' \in [Rows -> JobStatus]
  BY DEF RequestScan, Enqueue, EnqueueFails, ScheduleScan, TypeInv, TypeOK, JobStatus, Terminal
<1>7. UNCHANGED <<pageVars, usage, urlVars, worker, handlers>>
  BY DEF RequestScan, Enqueue, EnqueueFails, ScheduleScan
<1>8. TypeOK' /\ RunInv'
  BY <1>5, <1>6, <1>7 DEF TypeInv, TypeOK, RunInv, pageVars, urlVars
<1>9. QED
  BY <1>5, <1>8 DEF TypeInv

(* The slot gets a row of the job's own: its runs never exceed MaxRuns.    *)
LEMMA TypeTake ==
  ASSUME TypeInv, NEW w \in Workers, NEW t \in Tasks, Take(w, t)
  PROVE  TypeInv'
<1> DEFINE k == [task[t] EXCEPT !.state = "active", !.lock = w, !.runs = @ + 1]
           r == [Idle EXCEPT !.pc = "begin", !.task = t, !.sent = validators,
                             !.row = RowOf(t, task[t].runs + 1)]
<1>1. task[t] \in QueueJob /\ task[t].state = "waiting"
  BY DEF TypeInv, TypeOK, Take
<1>2. /\ task[t].attempts < MaxAttempts
      /\ task[t].runs <= task[t].attempts + task[t].stalls
  BY <1>1 DEF TypeInv, TaskInv
<1>3. task[t].runs + 1 \in 1..MaxRuns
  BY <1>1, <1>2, ConstantsOK DEF QueueJob, MaxRuns
<1>4. k \in QueueJob /\ TaskInvOf(k)
  <2>1. task[t].runs + 1 \in 0..MaxRuns
    BY <1>1, <1>3 DEF QueueJob
  <2>2. k \in QueueJob
    BY <1>1, <2>1 DEF QueueJob
  <2>3. /\ k.state = "active" /\ k.runs = task[t].runs + 1
        /\ k.attempts = task[t].attempts /\ k.stalls = task[t].stalls
    BY <1>1 DEF QueueJob
  <2>4. task[t].runs \in Int /\ task[t].attempts \in Int /\ task[t].stalls \in Int
    BY <1>1 DEF QueueJob
  <2>5. QED
    BY <1>2, <2>2, <2>3, <2>4 DEF TaskInvOf
<1>5. task' = [task EXCEPT ![t] = k]
  BY DEF Take
<1>6. TaskInv' /\ task' \in [Tasks -> QueueJob]
  BY <1>4, <1>5, TaskStep DEF TypeInv
<1>7. RowOf(t, task[t].runs + 1) \in Rows
  BY <1>3, RowOfType
<1>8. r \in Run
  BY <1>7, IdleType DEF Run, TypeInv, TypeOK
<1>9. worker' = [worker EXCEPT ![w] = r]
  BY DEF Take
<1>10. worker' \in [Workers -> Run]
  BY <1>8, <1>9, RunsType DEF TypeInv
<1>11. TypeOK'
  BY <1>6, <1>10 DEF Take, TypeInv, TypeOK, pageVars, urlVars
<1>12. /\ worker'[w] = r
       /\ \A u \in Workers \ {w} : worker'[u] = worker[u]
  BY <1>9 DEF TypeInv, TypeOK
<1>13. r.pc = "begin" /\ r.task = t /\ r.row = RowOf(t, task[t].runs + 1)
  BY DEF Idle
<1>14. /\ worker'[w].pc = "begin" /\ worker'[w].task \in Tasks /\ worker'[w].row \in Rows
       /\ \A u \in Workers \ {w} : worker'[u] = worker[u]
  BY <1>7, <1>12, <1>13
<1>15. RunInv'
  <2> HIDE DEF r, k
  <2>1. QED
    BY <1>14 DEF RunInv, TypeInv
<1>16. QED
  BY <1>6, <1>11, <1>15 DEF TypeInv

(* The steps that only move a run to its next pc.                          *)
LEMMA TypeBegin ==
  ASSUME TypeInv, NEW w \in Workers, Begin(w)
  PROVE  TypeInv'
<1>1. worker[w] \in Run /\ worker[w].pc = "begin"
  BY DEF TypeInv, TypeOK, Begin
<1>2. worker[w].row \in Rows /\ worker[w].task \in Tasks
  BY <1>1 DEF TypeInv, RunInv
<1>3. [worker[w] EXCEPT !.pc = "prior"] \in Run
  BY <1>1 DEF Run
<1>4. worker' = [worker EXCEPT ![w] = [worker[w] EXCEPT !.pc = "prior"]]
  BY DEF Begin
<1>5. worker' \in [Workers -> Run]
  BY <1>3, <1>4, RunsType DEF TypeInv
<1>6. jobs' \in [Rows -> JobStatus]
  BY <1>2 DEF Begin, TypeInv, TypeOK, JobStatus
<1>7. TypeOK'
  BY <1>5, <1>6 DEF Begin, TypeInv, TypeOK, pageVars, urlVars
<1>8. /\ worker'[w].pc = "prior" /\ worker'[w].row = worker[w].row
      /\ worker'[w].task = worker[w].task
      /\ \A u \in Workers \ {w} : worker'[u] = worker[u]
  BY <1>1, <1>4 DEF TypeInv, TypeOK, Run
<1>9. RunInv'
  BY <1>2, <1>8 DEF TypeInv, RunInv
<1>10. TaskInv'
  BY DEF Begin, TypeInv, TaskInv
<1>11. QED
  BY <1>7, <1>9, <1>10 DEF TypeInv

LEMMA TypeReadPrior ==
  ASSUME TypeInv, NEW w \in Workers, ReadPrior(w)
  PROVE  TypeInv'
<1>1. PICK p \in 0..Len(snapshots) :
        worker' = [worker EXCEPT ![w] = [worker[w] EXCEPT !.pc = "fetch", !.prior = p]]
  BY DEF ReadPrior
<1>2. worker[w] \in Run /\ worker[w].pc = "prior"
  BY DEF TypeInv, TypeOK, ReadPrior
<1>3. worker[w].row \in Rows /\ worker[w].task \in Tasks
  BY <1>2 DEF TypeInv, RunInv
<1>4. p \in Nat
  OBVIOUS
<1>5. [worker[w] EXCEPT !.pc = "fetch", !.prior = p] \in Run
  BY <1>2, <1>4 DEF Run
<1>6. worker' \in [Workers -> Run]
  BY <1>1, <1>5, RunsType DEF TypeInv
<1>7. TypeOK'
  BY <1>6 DEF ReadPrior, TypeInv, TypeOK, pageVars, urlVars
<1>8. /\ worker'[w].pc = "fetch" /\ worker'[w].row = worker[w].row
      /\ worker'[w].task = worker[w].task
      /\ \A u \in Workers \ {w} : worker'[u] = worker[u]
  BY <1>1, <1>2 DEF TypeInv, TypeOK, Run
<1>9. RunInv'
  BY <1>3, <1>8 DEF TypeInv, RunInv
<1>10. TaskInv'
  BY DEF ReadPrior, TypeInv, TaskInv
<1>11. QED
  BY <1>7, <1>9, <1>10 DEF TypeInv

LEMMA TypeFetch ==
  ASSUME TypeInv, NEW w \in Workers, Fetch(w)
  PROVE  TypeInv'
<1>1. PICK conditional \in {FALSE, MaySendValidators(w, vantage)} :
        \E ans \in Answers(vantage, IF conditional THEN worker[w].sent ELSE None) :
          worker' = [worker EXCEPT ![w].pc = "persist", ![w].vantage = vantage,
                                   ![w].fetched = ans]
  BY DEF Fetch
<1>2. PICK ans \in Answers(vantage, IF conditional THEN worker[w].sent ELSE None) :
        worker' = [worker EXCEPT ![w] = [worker[w] EXCEPT !.pc = "persist",
                                           !.vantage = vantage, !.fetched = ans]]
  BY <1>1
<1>3. vantage \in Vantages
  BY DEF TypeInv, TypeOK
<1>4. /\ ans \in Fetched
      /\ ans.kind # "none"
      /\ ans.kind = "page" => ans.content \in Contents
      /\ ans.kind = "error" => ans.content = None /\ ans.offersValidators = FALSE
  BY <1>3, AnswersType DEF TypeInv
<1>5. worker[w] \in Run /\ worker[w].pc = "fetch"
  BY DEF TypeInv, TypeOK, Fetch
<1>6. worker[w].row \in Rows /\ worker[w].task \in Tasks
  BY <1>5 DEF TypeInv, RunInv
<1>7. [worker[w] EXCEPT !.pc = "persist", !.vantage = vantage, !.fetched = ans] \in Run
  BY <1>3, <1>4, <1>5 DEF Run
<1>8. worker' \in [Workers -> Run]
  BY <1>2, <1>7, RunsType DEF TypeInv
<1>9. TypeOK'
  BY <1>8 DEF Fetch, TypeInv, TypeOK, pageVars, urlVars
<1>10. /\ worker'[w].pc = "persist" /\ worker'[w].row = worker[w].row
       /\ worker'[w].task = worker[w].task
       /\ worker'[w].vantage = vantage /\ worker'[w].fetched = ans
       /\ \A u \in Workers \ {w} : worker'[u] = worker[u]
  BY <1>2, <1>5 DEF TypeInv, TypeOK, Run
<1>11. RunInv'
  BY <1>3, <1>4, <1>6, <1>10 DEF TypeInv, RunInv
<1>12. TaskInv'
  BY DEF Fetch, TypeInv, TaskInv
<1>13. QED
  BY <1>9, <1>11, <1>12 DEF TypeInv

(* The transaction is opened: its snapshot is dated after all others.      *)
LEMMA OpenFacts ==
  ASSUME TypeInv, NEW w \in Workers, OpenResult(w)
  PROVE  \E at \in Nat :
           /\ worker' = [worker EXCEPT ![w] = [worker[w] EXCEPT !.pc = "commit", !.at = at]]
           /\ \A i \in 1..Len(snapshots) : snapshots[i].at < at
<1>1. PICK last \in FetchTimes :
        /\ \A at \in FetchTimes : at <= last
        /\ worker' = [worker EXCEPT ![w].pc = "commit", ![w].at = last + 1]
  BY DEF OpenResult
<1>2. \A i \in 1..Len(snapshots) : snapshots[i].at \in Nat
  <2>1. \A i \in 1..Len(snapshots) : snapshots[i] \in Snapshot
    BY DEF TypeInv, TypeOK
  <2>2. QED
    BY <2>1 DEF Snapshot
<1>3. \A u \in Workers : worker[u].at \in Nat
  BY DEF TypeInv, TypeOK, Run
<1>4. last \in Nat
  BY <1>2, <1>3 DEF FetchTimes
<1>5. \A i \in 1..Len(snapshots) : snapshots[i].at < last + 1
  <2>1. \A i \in 1..Len(snapshots) : snapshots[i].at <= last
    BY <1>1 DEF FetchTimes
  <2>2. QED
    BY <1>2, <1>4, <2>1
<1>6. worker' = [worker EXCEPT ![w] = [worker[w] EXCEPT !.pc = "commit", !.at = last + 1]]
  BY <1>1
<1>7. last + 1 \in Nat
  BY <1>4
<1>8. QED
  BY <1>5, <1>6, <1>7

LEMMA TypeOpen ==
  ASSUME TypeInv, NEW w \in Workers, OpenResult(w)
  PROVE  TypeInv'
<1>1. PICK at \in Nat : worker' = [worker EXCEPT ![w] = [worker[w] EXCEPT !.pc = "commit", !.at = at]]
  BY OpenFacts
<1> DEFINE k == [worker[w] EXCEPT !.pc = "commit", !.at = at]
<1>2. worker[w] \in Run /\ worker[w].pc = "persist" /\ worker[w].fetched.kind # "notModified"
  BY DEF TypeInv, TypeOK, OpenResult
<1>3. k \in Run
  BY <1>2 DEF Run
<1>4. worker' \in [Workers -> Run]
  BY <1>1, <1>3, RunsType DEF TypeInv
<1>5. TypeOK'
  BY <1>4 DEF OpenResult, TypeInv, TypeOK, pageVars, urlVars
<1>6. /\ k.pc = "commit" /\ k.task = worker[w].task /\ k.row = worker[w].row
      /\ k.vantage = worker[w].vantage /\ k.fetched = worker[w].fetched
  BY <1>2 DEF Run
<1>7. worker'[w] = k /\ \A u \in Workers \ {w} : worker'[u] = worker[u]
  BY <1>1 DEF TypeInv, TypeOK
<1> HIDE DEF k
<1>8. RunInv'
  BY <1>2, <1>6, <1>7 DEF TypeInv, RunInv
<1>9. TaskInv'
  BY DEF OpenResult, TypeInv, TaskInv
<1>10. QED
  BY <1>5, <1>8, <1>9 DEF TypeInv

(* The snapshot a committing run appends.                                  *)
NewSnapshot(w) ==
  LET f == worker[w].fetched
  IN  [row |-> worker[w].row, content |-> f.content, vantage |-> worker[w].vantage,
       state |-> Compare(worker[w].prior, worker[w].vantage, f),
       errored |-> f.kind = "error", prev |-> worker[w].prior,
       at |-> worker[w].at]

(* What is known of it, and of the rest of the URL's row, once recorded.   *)
LEMMA CommitFacts ==
  ASSUME TypeInv, NEW w \in Workers, CommitResult(w)
  PROVE  /\ NewSnapshot(w) \in Snapshot
         /\ NewSnapshot(w).row = worker[w].row /\ worker[w].row \in Rows
         /\ NewSnapshot(w).prev = worker[w].prior
         /\ NewSnapshot(w).at = worker[w].at
         /\ NewSnapshot(w).errored => ~Verified(NewSnapshot(w))
         /\ snapshots' = Append(snapshots, NewSnapshot(w))
         /\ Unrecorded(worker[w].row)
         /\ usage' = usage \cup {worker[w].row}
         /\ worker' = Ending(w, "ack")
         /\ validators' # None =>
              Verified(NewSnapshot(w)) /\ validators' = NewSnapshot(w).content
         /\ validators' \in Contents \cup {None}
         /\ failures' = IF NewSnapshot(w).errored THEN failures + 1 ELSE 0
<1> DEFINE f == worker[w].fetched
           st == Compare(worker[w].prior, worker[w].vantage, f)
<1>1. worker[w] \in Run /\ worker[w].pc = "commit"
  BY DEF TypeInv, TypeOK, CommitResult
<1>2. worker[w].row \in Rows /\ worker[w].vantage \in Vantages
  BY <1>1 DEF TypeInv, RunInv
<1>3. f.content \in Contents \cup {None} /\ worker[w].prior \in Nat /\ worker[w].at \in Nat
  BY <1>1 DEF Run, Fetched
<1>4. st \in VerificationState
  BY CompareType
<1>5. NewSnapshot(w) \in Snapshot
  BY <1>2, <1>3, <1>4 DEF NewSnapshot, Snapshot
<1>6. NewSnapshot(w).errored => ~Verified(NewSnapshot(w))
  BY DEF NewSnapshot, Verified, Compare
<1>7. /\ NewSnapshot(w).row = worker[w].row /\ NewSnapshot(w).prev = worker[w].prior
      /\ NewSnapshot(w).state = st /\ NewSnapshot(w).content = f.content
      /\ NewSnapshot(w).errored = (f.kind = "error")
      /\ NewSnapshot(w).at = worker[w].at
  BY DEF NewSnapshot
<1>8. /\ snapshots' = Append(snapshots, NewSnapshot(w))
      /\ Unrecorded(worker[w].row)
      /\ usage' = usage \cup {worker[w].row}
      /\ worker' = Ending(w, "ack")
      /\ validators' = KeptValidators(f, st)
      /\ failures' = StreakAfter(f.kind = "error")
  BY DEF CommitResult, NewSnapshot
<1>9. validators' # None => Verified(NewSnapshot(w)) /\ validators' = NewSnapshot(w).content
  BY <1>7, <1>8 DEF KeptValidators, Verified
<1>10. validators' \in Contents \cup {None}
  BY <1>3, <1>8 DEF KeptValidators
<1>11. failures' = IF NewSnapshot(w).errored THEN failures + 1 ELSE 0
  BY <1>7, <1>8 DEF StreakAfter
<1>12. QED
  BY <1>2, <1>5, <1>6, <1>7, <1>8, <1>9, <1>10, <1>11

LEMMA TypeCommitResult ==
  ASSUME TypeInv, NEW w \in Workers, CommitResult(w)
  PROVE  TypeInv'
<1>1. worker' \in [Workers -> Run]
  BY CommitFacts, EndingType DEF TypeInv
<1>2. snapshots' \in Seq(Snapshot)
  BY CommitFacts DEF TypeInv, TypeOK
<1>3. jobs' \in [Rows -> JobStatus]
  BY DEF CommitResult, TypeInv, TypeOK, JobStatus, Terminal
<1>4. failures' \in Nat /\ usage' \subseteq Rows /\ validators' \in Contents \cup {None}
  BY CommitFacts DEF TypeInv, TypeOK
<1>5. UNCHANGED <<page, vantage, edits, task, handlers>>
  BY DEF CommitResult, pageVars
<1>6. TypeOK'
  BY <1>1, <1>2, <1>3, <1>4, <1>5 DEF TypeInv, TypeOK
<1>7. worker[w].pc # "idle"
  BY DEF CommitResult
<1>8. RunInv'
  BY <1>7, CommitFacts, EndingRunInv DEF TypeInv
<1>9. TaskInv'
  BY <1>5 DEF TypeInv, TaskInv
<1>10. QED
  BY <1>6, <1>8, <1>9 DEF TypeInv

LEMMA TypePersistNotModified ==
  ASSUME TypeInv, NEW w \in Workers, PersistNotModified(w)
  PROVE  TypeInv'
<1>1. worker' = Ending(w, "ack") /\ worker[w].pc = "persist"
  BY DEF PersistNotModified
<1>2. worker' \in [Workers -> Run]
  BY <1>1, EndingType DEF TypeInv
<1>3. jobs' \in [Rows -> JobStatus]
  BY DEF PersistNotModified, TypeInv, TypeOK, JobStatus, Terminal
<1>4. worker[w].row \in Rows
  BY <1>1 DEF TypeInv, RunInv
<1>5. failures' \in Nat /\ usage' \subseteq Rows
  BY <1>4 DEF PersistNotModified, TypeInv, TypeOK
<1>6. UNCHANGED <<page, vantage, edits, snapshots, validators, task, handlers>>
  BY DEF PersistNotModified, pageVars
<1>7. TypeOK'
  BY <1>2, <1>3, <1>5, <1>6 DEF TypeInv, TypeOK
<1>8. RunInv'
  BY <1>1, EndingRunInv DEF TypeInv
<1>9. TaskInv'
  BY <1>6 DEF TypeInv, TaskInv
<1>10. QED
  BY <1>7, <1>8, <1>9 DEF TypeInv

LEMMA TypeThrow ==
  ASSUME TypeInv, NEW w \in Workers, Throw(w)
  PROVE  TypeInv'
<1>1. worker' = Ending(w, "failing") /\ worker[w].pc # "idle"
  BY DEF Throw
<1>2. worker' \in [Workers -> Run]
  BY <1>1, EndingType DEF TypeInv
<1>3. jobs' \in [Rows -> JobStatus]
  BY DEF Throw, TypeInv, TypeOK, JobStatus, Terminal
<1>4. TypeOK'
  BY <1>2, <1>3 DEF Throw, TypeInv, TypeOK, pageVars, urlVars
<1>5. RunInv'
  BY <1>1, EndingRunInv DEF TypeInv
<1>6. TaskInv'
  BY DEF Throw, TypeInv, TaskInv
<1>7. QED
  BY <1>4, <1>5, <1>6 DEF TypeInv

LEMMA NotifyType ==
  ASSUME TypeInv, NEW t \in Tasks
  PROVE  Notify(t) \subseteq [task: ManualTasks, pc: {"read", "mark"}]
BY DEF Notify, TypeInv, TypeOK

(* The end of a run: the slot is idle and the job, if the slot still holds *)
(* its lock, is completed, failed or waiting again with an attempt less.   *)
LEMMA TypeAck ==
  ASSUME TypeInv, NEW w \in Workers, Ack(w)
  PROVE  TypeInv'
<1> DEFINE t == worker[w].task
           k == [task[t] EXCEPT !.state = "completed", !.lock = None]
<1>1. t \in Tasks
  BY DEF Ack, TypeInv, RunInv
<1>2. RunInv' /\ worker' \in [Workers -> Run]
  BY IdleRunInv DEF Ack, TypeInv
<1>3. TaskInv' /\ task' \in [Tasks -> QueueJob]
  <2>1. CASE task' = task
    BY <2>1 DEF TypeInv, TypeOK, TaskInv
  <2>2. CASE task' = [task EXCEPT ![t] = k]
    <3>1. task[t] \in QueueJob
      BY <1>1 DEF TypeInv, TypeOK
    <3>2. k \in QueueJob
      BY <3>1 DEF QueueJob
    <3>3. k.state = "completed" /\ k.lock = None
      BY <3>1 DEF QueueJob
    <3>4. TaskInvOf(k)
      BY <3>3 DEF TaskInvOf
    <3>5. QED
      BY <1>1, <2>2, <3>2, <3>4, TaskStep DEF TypeInv
  <2>3. QED
    BY <2>1, <2>2 DEF Ack
<1>4. TypeOK'
  BY <1>2, <1>3 DEF Ack, TypeInv, TypeOK, pageVars, urlVars
<1>5. QED
  BY <1>2, <1>3, <1>4 DEF TypeInv

LEMMA TypeNack ==
  ASSUME TypeInv, NEW w \in Workers, Nack(w)
  PROVE  TypeInv'
<1> DEFINE t == worker[w].task
           k == [task[t] EXCEPT !.state = IF LastAttempt(t) THEN "failed" ELSE "waiting",
                                !.attempts = @ + 1, !.lock = None]
<1>1. t \in Tasks /\ task[t] \in QueueJob
  BY DEF Nack, TypeInv, TypeOK, RunInv
<1>2. RunInv' /\ worker' \in [Workers -> Run]
  BY IdleRunInv DEF Nack, TypeInv
<1>3. CASE task[t].lock = w
  <2>1. w # None
    BY ConstantsOK
  <2>2. task[t].state = "active"
    BY <1>1, <1>3, <2>1 DEF TypeInv, TaskInv
  <2>3. task[t].attempts < MaxAttempts /\ task[t].runs <= task[t].attempts + task[t].stalls + 1
    BY <1>1, <2>2 DEF TypeInv, TaskInv
  <2>4. task[t].attempts + 1 \in 0..MaxAttempts
    BY <1>1, <2>3, ConstantsOK DEF QueueJob
  <2>5. k \in QueueJob
    BY <1>1, <2>4 DEF QueueJob
  <2>6. /\ k.lock = None /\ k.runs = task[t].runs /\ k.stalls = task[t].stalls
        /\ k.attempts = task[t].attempts + 1
        /\ k.state = IF LastAttempt(t) THEN "failed" ELSE "waiting"
    BY <1>1 DEF QueueJob
  <2>7. task[t].runs \in Int /\ task[t].attempts \in Int /\ task[t].stalls \in Int
    BY <1>1 DEF QueueJob
  <2>8. TaskInvOf(k)
    BY <2>3, <2>6, <2>7, ConstantsOK DEF TaskInvOf, LastAttempt
  <2>9. task' = [task EXCEPT ![t] = k] /\ handlers' = Notify(t)
    BY <1>3 DEF Nack
  <2>10. TaskInv' /\ task' \in [Tasks -> QueueJob]
    BY <1>1, <2>5, <2>8, <2>9, TaskStep DEF TypeInv
  <2>11. handlers' \subseteq [task: ManualTasks, pc: {"read", "mark"}]
    BY <1>1, <2>9, NotifyType
  <2>12. TypeOK'
    BY <1>2, <2>10, <2>11 DEF Nack, TypeInv, TypeOK, pageVars, urlVars
  <2>13. QED
    BY <1>2, <2>10, <2>12 DEF TypeInv
<1>4. CASE task[t].lock # w
  <2>1. UNCHANGED <<task, handlers>>
    BY <1>4 DEF Nack
  <2>2. TypeOK'
    BY <1>2, <2>1 DEF Nack, TypeInv, TypeOK, pageVars, urlVars
  <2>3. QED
    BY <1>2, <2>1, <2>2 DEF TypeInv, TaskInv
<1>5. QED
  BY <1>3, <1>4

LEMMA TypeCrash ==
  ASSUME TypeInv, NEW w \in Workers, Crash(w)
  PROVE  TypeInv'
<1>1. RunInv' /\ worker' \in [Workers -> Run]
  BY IdleRunInv DEF Crash, TypeInv
<1>2. TypeOK' /\ TaskInv'
  BY <1>1 DEF Crash, TypeInv, TypeOK, TaskInv, pageVars, urlVars
<1>3. QED
  BY <1>1, <1>2 DEF TypeInv

(* A stall gives a run back to the queue, and MaxStalls bounds them.       *)
LEMMA TypeStall ==
  ASSUME TypeInv, NEW t \in Tasks, Stall(t)
  PROVE  TypeInv'
<1>1. task[t] \in QueueJob /\ task[t].state = "active"
  BY DEF Stall, TypeInv, TypeOK
<1>2. task[t].attempts < MaxAttempts /\ task[t].runs <= task[t].attempts + task[t].stalls + 1
  BY <1>1 DEF TypeInv, TaskInv
<1>3. task[t].runs \in Int /\ task[t].attempts \in Int /\ task[t].stalls \in 0..MaxStalls
  BY <1>1 DEF QueueJob
<1>4. \E k \in QueueJob : TaskInvOf(k) /\ task' = [task EXCEPT ![t] = k]
  <2>1. CASE task[t].stalls < MaxStalls
    <3> DEFINE k == [task[t] EXCEPT !.state = "waiting", !.stalls = @ + 1, !.lock = None]
    <3>1. task[t].stalls + 1 \in 0..MaxStalls
      BY <1>3, <2>1, ConstantsOK
    <3>2. k \in QueueJob
      BY <1>1, <3>1 DEF QueueJob
    <3>3. /\ k.state = "waiting" /\ k.lock = None /\ k.stalls = task[t].stalls + 1
          /\ k.runs = task[t].runs /\ k.attempts = task[t].attempts
      BY <1>1 DEF QueueJob
    <3>4. TaskInvOf(k)
      BY <1>2, <1>3, <3>3 DEF TaskInvOf
    <3>5. task' = [task EXCEPT ![t] = k]
      BY <2>1 DEF Stall
    <3>6. QED
      BY <3>2, <3>4, <3>5
  <2>2. CASE ~(task[t].stalls < MaxStalls)
    <3> DEFINE k == [task[t] EXCEPT !.state = "failed", !.lock = None]
    <3>1. k \in QueueJob
      BY <1>1 DEF QueueJob
    <3>2. k.state = "failed" /\ k.lock = None
      BY <1>1 DEF QueueJob
    <3>3. TaskInvOf(k)
      BY <3>2 DEF TaskInvOf
    <3>4. task' = [task EXCEPT ![t] = k]
      BY <2>2 DEF Stall
    <3>5. QED
      BY <3>1, <3>3, <3>4
  <2>3. QED
    BY <2>1, <2>2
<1>5. TaskInv' /\ task' \in [Tasks -> QueueJob]
  BY <1>4, TaskStep DEF TypeInv
<1>6. handlers' \subseteq [task: ManualTasks, pc: {"read", "mark"}]
  BY NotifyType DEF Stall, TypeInv, TypeOK
<1>7. TypeOK' /\ RunInv'
  BY <1>5, <1>6 DEF Stall, TypeInv, TypeOK, RunInv, pageVars, urlVars
<1>8. QED
  BY <1>5, <1>7 DEF TypeInv

LEMMA TypeHandler ==
  ASSUME TypeInv, HandlerStep
  PROVE  TypeInv'
<1>1. PICK h \in handlers : HandlerRead(h) \/ HandlerMark(h) \/ HandlerLost(h)
  BY DEF HandlerStep
<1>2. h \in [task: ManualTasks, pc: {"read", "mark"}]
  BY DEF TypeInv, TypeOK
<1>3. [h EXCEPT !.pc = "mark"] \in [task: ManualTasks, pc: {"read", "mark"}]
  BY <1>2
<1>4. handlers' \subseteq [task: ManualTasks, pc: {"read", "mark"}]
  BY <1>1, <1>3 DEF HandlerRead, HandlerMark, HandlerLost, TypeInv, TypeOK
<1>5. jobs' \in [Rows -> JobStatus]
  BY <1>1 DEF HandlerRead, HandlerMark, HandlerLost, TypeInv, TypeOK, JobStatus, Terminal
<1>6. UNCHANGED <<pageVars, usage, urlVars, task, worker>>
  BY <1>1 DEF HandlerRead, HandlerMark, HandlerLost
<1>7. TypeOK' /\ TaskInv' /\ RunInv'
  BY <1>4, <1>5, <1>6 DEF TypeInv, TypeOK, TaskInv, RunInv, pageVars, urlVars
<1>8. QED
  BY <1>7 DEF TypeInv

LEMMA TypeSweep ==
  ASSUME TypeInv, NEW r \in Rows, Sweep(r)
  PROVE  TypeInv'
<1>1. jobs' \in [Rows -> JobStatus]
  BY DEF Sweep, TypeInv, TypeOK, JobStatus, Terminal
<1>2. TypeOK' /\ TaskInv' /\ RunInv'
  BY <1>1 DEF Sweep, TypeInv, TypeOK, TaskInv, RunInv, pageVars, urlVars
<1>3. QED
  BY <1>2 DEF TypeInv

LEMMA TypeStutter ==
  ASSUME TypeInv, UNCHANGED vars
  PROVE  TypeInv'
BY DEF TypeInv, TypeOK, TaskInv, RunInv, vars, pageVars, urlVars

-----------------------------------------------------------------------------
LEMMA TypeNext ==
  ASSUME TypeInv, [Next]_vars
  PROVE  TypeInv'
<1>1. CASE \/ \E v \in Vantages, c \in Contents : ChangePage(v, c)
           \/ \E v \in Vantages : ChangeVantage(v)
  BY <1>1, TypeEnvironment
<1>2. ASSUME NEW t \in Tasks,
             RequestScan(t) \/ Enqueue(t) \/ EnqueueFails(t) \/ ScheduleScan(t)
      PROVE  TypeInv'
  BY <1>2, TypeQueueing
<1>3. ASSUME NEW t \in Tasks, Stall(t)
      PROVE  TypeInv'
  BY <1>3, TypeStall
<1>4. ASSUME NEW w \in Workers, WorkerStep(w)
      PROVE  TypeInv'
  BY <1>4, TypeTake, TypeBegin, TypeReadPrior, TypeFetch, TypePersistNotModified,
     TypeOpen, TypeCommitResult, TypeThrow, TypeAck, TypeNack, TypeCrash DEF WorkerStep
<1>5. CASE HandlerStep
  BY <1>5, TypeHandler
<1>6. ASSUME NEW r \in Rows, Sweep(r)
      PROVE  TypeInv'
  BY <1>6, TypeSweep
<1>7. CASE UNCHANGED vars
  BY <1>7, TypeStutter
<1>8. QED
  BY <1>1, <1>2, <1>3, <1>4, <1>5, <1>6, <1>7 DEF Next

LEMMA TypeInvariant == Spec => []TypeInv
<1>1. Init => TypeInv
  BY TypeInit
<1>2. TypeInv /\ [Next]_vars => TypeInv'
  BY TypeNext
<1>3. QED
  BY <1>1, <1>2, PTL DEF Spec

(* Every variable keeps its type, the run of a job its row, whatever jobs, *)
(* slots and retry limits there are.                                       *)
THEOREM TypeCorrect == Spec => []TypeOK
<1>1. TypeInv => TypeOK
  BY DEF TypeInv
<1>2. QED
  BY <1>1, TypeInvariant, PTL

-----------------------------------------------------------------------------
(* The history of the URL is written by the two committing steps only.     *)
LEMMA HistorySteps ==
  ASSUME [Next]_vars
  PROVE  \/ \E w \in Workers : CommitResult(w) \/ PersistNotModified(w)
         \/ UNCHANGED <<snapshots, validators, failures, usage>>
<1> USE DEF urlVars
<1>1. ASSUME NEW v \in Vantages, NEW c \in Contents, ChangePage(v, c)
      PROVE  UNCHANGED <<snapshots, validators, failures, usage>>
  BY <1>1 DEF ChangePage
<1>2. ASSUME NEW v \in Vantages, ChangeVantage(v)
      PROVE  UNCHANGED <<snapshots, validators, failures, usage>>
  BY <1>2 DEF ChangeVantage
<1>3. ASSUME NEW t \in Tasks,
             RequestScan(t) \/ Enqueue(t) \/ EnqueueFails(t) \/ ScheduleScan(t) \/ Stall(t)
      PROVE  UNCHANGED <<snapshots, validators, failures, usage>>
  BY <1>3 DEF RequestScan, Enqueue, EnqueueFails, ScheduleScan, Stall
<1>4. ASSUME NEW w \in Workers, NEW t \in Tasks, Take(w, t)
      PROVE  UNCHANGED <<snapshots, validators, failures, usage>>
  BY <1>4 DEF Take
<1>5. ASSUME NEW w \in Workers,
             \/ Begin(w) \/ ReadPrior(w) \/ Fetch(w) \/ OpenResult(w)
             \/ Throw(w) \/ Ack(w) \/ Nack(w) \/ Crash(w)
      PROVE  UNCHANGED <<snapshots, validators, failures, usage>>
  BY <1>5 DEF Begin, ReadPrior, Fetch, OpenResult, Throw, Ack, Nack, Crash
<1>6. ASSUME HandlerStep
      PROVE  UNCHANGED <<snapshots, validators, failures, usage>>
  BY <1>6 DEF HandlerStep, HandlerRead, HandlerMark, HandlerLost
<1>7. ASSUME NEW r \in Rows, Sweep(r)
      PROVE  UNCHANGED <<snapshots, validators, failures, usage>>
  BY <1>7 DEF Sweep
<1>8. CASE UNCHANGED vars
  BY <1>8 DEF vars
<1>9. QED
  BY <1>1, <1>2, <1>3, <1>4, <1>5, <1>6, <1>7, <1>8 DEF Next, WorkerStep

(* The prior snapshot a run holds was chosen by its ReadPrior.             *)
LEMMA PriorSteps ==
  ASSUME TypeInv, [Next]_vars, NEW w \in Workers
  PROVE  worker'[w].prior \in {0, worker[w].prior} \/ ReadPrior(w)
<1> USE DEF TypeInv, TypeOK
<1>1. ASSUME NEW u \in Workers, NEW t \in Tasks, Take(u, t)
      PROVE  worker'[w].prior \in {0, worker[w].prior}
  BY <1>1 DEF Take, Idle
<1>2. ASSUME NEW u \in Workers, Begin(u) \/ Fetch(u) \/ OpenResult(u)
      PROVE  worker'[w].prior \in {0, worker[w].prior}
  <2>1. PICK k \in Run : worker' = [worker EXCEPT ![u] = k] /\ k.prior = worker[u].prior
    <3>1. worker[u] \in Run
      OBVIOUS
    <3>2. CASE Begin(u)
      <4>1. worker' = [worker EXCEPT ![u] = [worker[u] EXCEPT !.pc = "prior"]]
        BY <3>2 DEF Begin
      <4>2. [worker[u] EXCEPT !.pc = "prior"] \in Run
        BY <3>1 DEF Run
      <4>3. [worker[u] EXCEPT !.pc = "prior"].prior = worker[u].prior
        BY <3>1 DEF Run
      <4>4. QED
        BY <4>1, <4>2, <4>3
    <3>3. CASE Fetch(u)
      <4>1. PICK conditional \in {FALSE, MaySendValidators(u, vantage)} :
              \E ans \in Answers(vantage, IF conditional THEN worker[u].sent ELSE None) :
                worker' = [worker EXCEPT ![u].pc = "persist", ![u].vantage = vantage,
                                         ![u].fetched = ans]
        BY <3>3 DEF Fetch
      <4>2. PICK ans \in Answers(vantage, IF conditional THEN worker[u].sent ELSE None) :
              worker' = [worker EXCEPT ![u] = [worker[u] EXCEPT !.pc = "persist",
                                                 !.vantage = vantage, !.fetched = ans]]
        BY <4>1
      <4> DEFINE k == [worker[u] EXCEPT !.pc = "persist", !.vantage = vantage, !.fetched = ans]
      <4>3. ans \in Fetched
        BY AnswersType
      <4>4. k \in Run
        BY <3>1, <4>3 DEF Run
      <4>5. k.prior = worker[u].prior
        BY <3>1 DEF Run
      <4>6. QED
        BY <4>2, <4>4, <4>5
    <3>4. CASE OpenResult(u)
      <4>1. PICK at \in Nat :
              worker' = [worker EXCEPT ![u] = [worker[u] EXCEPT !.pc = "commit", !.at = at]]
        BY <3>4, OpenFacts
      <4> DEFINE k == [worker[u] EXCEPT !.pc = "commit", !.at = at]
      <4>2. k \in Run /\ k.prior = worker[u].prior
        BY <3>1 DEF Run
      <4>3. QED
        BY <4>1, <4>2
    <3>5. QED
      BY <1>2, <3>2, <3>3, <3>4
  <2>2. QED
    BY <2>1
<1>3. ASSUME NEW u \in Workers, ReadPrior(u)
      PROVE  worker'[w].prior \in {0, worker[w].prior} \/ ReadPrior(w)
  BY <1>3 DEF ReadPrior
<1>4. ASSUME NEW u \in Workers, PersistNotModified(u) \/ CommitResult(u) \/ Throw(u)
      PROVE  worker'[w].prior \in {0, worker[w].prior}
  <2>1. PICK pc \in {"ack", "failing"} : worker' = Ending(u, pc)
    BY <1>4 DEF PersistNotModified, CommitResult, Throw
  <2>2. QED
    BY <2>1 DEF Ending, Idle
<1>5. ASSUME NEW u \in Workers, Ack(u) \/ Nack(u) \/ Crash(u)
      PROVE  worker'[w].prior \in {0, worker[w].prior}
  BY <1>5 DEF Ack, Nack, Crash, Idle
<1>6. ASSUME NEW t \in Tasks,
             RequestScan(t) \/ Enqueue(t) \/ EnqueueFails(t) \/ ScheduleScan(t) \/ Stall(t)
      PROVE  worker' = worker
  BY <1>6 DEF RequestScan, Enqueue, EnqueueFails, ScheduleScan, Stall
<1>7. ASSUME \/ \E v \in Vantages, c \in Contents : ChangePage(v, c)
             \/ \E v \in Vantages : ChangeVantage(v)
             \/ HandlerStep
             \/ \E r \in Rows : Sweep(r)
             \/ UNCHANGED vars
      PROVE  worker' = worker
  BY <1>7 DEF ChangePage, ChangeVantage, HandlerStep, HandlerRead, HandlerMark, HandlerLost,
              Sweep, vars
<1>8. QED
  <2>1. worker' = worker \/ \E u \in Workers : WorkerStep(u)
    BY <1>6, <1>7 DEF Next
  <2>2. QED
    BY <2>1, <1>1, <1>2, <1>3, <1>4, <1>5 DEF WorkerStep

(* Appending keeps the old entries and adds the new one at the end.        *)
LEMMA AppendFacts ==
  ASSUME TypeInv, NEW w \in Workers, CommitResult(w)
  PROVE  /\ Len(snapshots) \in Nat /\ Len(snapshots') = Len(snapshots) + 1
         /\ snapshots'[Len(snapshots) + 1] = NewSnapshot(w)
         /\ \A i \in 1..Len(snapshots) : snapshots'[i] = snapshots[i]
BY CommitFacts, SMTT(20) DEF TypeInv, TypeOK

-----------------------------------------------------------------------------
(* Whatever a scan in progress or a recorded snapshot was compared with is *)
(* an earlier verified snapshot: ReadPrior chose it so, the history only   *)
(* grows and no snapshot is ever rewritten.                                *)
LEMMA PriorStep ==
  ASSUME TypeInv, PriorIsVerified, [Next]_vars
  PROVE  PriorIsVerified'
<1>1. CASE \E w \in Workers : CommitResult(w)
  <2>1. PICK w \in Workers : CommitResult(w)
    BY <1>1
  <2>2. /\ Len(snapshots) \in Nat /\ Len(snapshots') = Len(snapshots) + 1
        /\ snapshots'[Len(snapshots) + 1] = NewSnapshot(w)
        /\ \A i \in 1..Len(snapshots) : snapshots'[i] = snapshots[i]
    BY <2>1, AppendFacts
  <2>3. /\ worker[w].prior \in Nat /\ worker[w].prior <= Len(snapshots)
        /\ worker[w].prior # 0 => Verified(snapshots[worker[w].prior])
    BY DEF PriorIsVerified, TypeInv, TypeOK, Run
  <2>4. NewSnapshot(w).prev = worker[w].prior
    BY <2>1, CommitFacts
  <2>5. \A i \in 1..Len(snapshots) : snapshots[i].prev \in Nat
    <3>1. \A i \in 1..Len(snapshots) : snapshots[i] \in Snapshot
      BY DEF TypeInv, TypeOK
    <3>2. QED
      BY <3>1 DEF Snapshot
  <2>6. ASSUME NEW i \in 1..Len(snapshots')
        PROVE  LET p == snapshots'[i].prev
               IN  p < i /\ (p # 0 => Verified(snapshots'[p]))
    <3>1. CASE i = Len(snapshots) + 1
      BY <2>2, <2>3, <2>4, <3>1 DEF Verified
    <3>2. CASE i \in 1..Len(snapshots)
      <4>1. snapshots[i].prev < i /\ (snapshots[i].prev # 0 => Verified(snapshots[snapshots[i].prev]))
        BY <3>2 DEF PriorIsVerified
      <4>2. snapshots'[i] = snapshots[i] /\ snapshots[i].prev \in Nat
        BY <2>2, <2>5, <3>2
      <4>3. snapshots[i].prev # 0 => snapshots[i].prev \in 1..Len(snapshots)
        BY <2>2, <3>2, <4>1, <4>2
      <4>4. QED
        BY <2>2, <4>1, <4>2, <4>3 DEF Verified
    <3>3. QED
      BY <2>2, <3>1, <3>2
  <2>7. ASSUME NEW u \in Workers
        PROVE  LET p == worker'[u].prior
               IN  p <= Len(snapshots') /\ (p # 0 => Verified(snapshots'[p]))
    <3>1. worker'[u].prior \in {0, worker[u].prior}
      <4>1. worker' = Ending(w, "ack")
        BY <2>1, CommitFacts
      <4>2. QED
        BY <4>1 DEF Ending, Idle, TypeInv, TypeOK
    <3>2. /\ worker[u].prior \in Nat /\ worker[u].prior <= Len(snapshots)
          /\ worker[u].prior # 0 => Verified(snapshots[worker[u].prior])
      BY DEF PriorIsVerified, TypeInv, TypeOK, Run
    <3>3. QED
      BY <2>2, <3>1, <3>2 DEF Verified
  <2>8. QED
    BY <2>6, <2>7 DEF PriorIsVerified, Verified
<1>2. CASE snapshots' = snapshots
  <2>1. ASSUME NEW u \in Workers
        PROVE  LET p == worker'[u].prior
               IN  p <= Len(snapshots) /\ (p # 0 => Verified(snapshots[p]))
    <3>1. CASE worker'[u].prior \in {0, worker[u].prior}
      <4>1. Len(snapshots) \in Nat
        BY DEF TypeInv, TypeOK
      <4>2. QED
        BY <3>1, <4>1 DEF PriorIsVerified
    <3>2. CASE ReadPrior(u)
      <4>1. PICK p \in 0..Len(snapshots) :
              /\ IsLatestVerified(p)
              /\ worker' = [worker EXCEPT ![u] = [worker[u] EXCEPT !.pc = "fetch", !.prior = p]]
        BY <3>2 DEF ReadPrior
      <4>2. worker'[u].prior = p
        BY <4>1 DEF TypeInv, TypeOK, Run
      <4>3. QED
        BY <4>1, <4>2 DEF IsLatestVerified, TypeInv, TypeOK
    <3>3. QED
      BY <3>1, <3>2, PriorSteps
  <2>2. QED
    BY <1>2, <2>1 DEF PriorIsVerified, Verified
<1>3. QED
  BY <1>1, <1>2, HistorySteps DEF PersistNotModified

(* A fetch failure never becomes the state a later scan is compared with.  *)
THEOREM PriorCorrect == Spec => []PriorIsVerified
<1>1. Init => PriorIsVerified
  BY DEF Init, PriorIsVerified, Idle
<1>2. TypeInv /\ PriorIsVerified /\ [Next]_vars => PriorIsVerified'
  BY PriorStep
<1>3. QED
  BY <1>1, <1>2, TypeInvariant, PTL DEF Spec

-----------------------------------------------------------------------------
LEMMA ValidatorsStep ==
  ASSUME TypeInv, ValidatorsFromLastCommit, [Next]_vars
  PROVE  ValidatorsFromLastCommit'
<1>1. CASE \E w \in Workers : CommitResult(w)
  <2>1. PICK w \in Workers : CommitResult(w)
    BY <1>1
  <2>2. /\ Len(snapshots) \in Nat /\ Len(snapshots') = Len(snapshots) + 1
        /\ snapshots'[Len(snapshots')] = NewSnapshot(w)
    BY <2>1, AppendFacts
  <2>3. validators' # None => Verified(NewSnapshot(w)) /\ validators' = NewSnapshot(w).content
    BY <2>1, CommitFacts
  <2>4. snapshots' # <<>>
    BY <2>2
  <2>5. QED
    BY <2>2, <2>3, <2>4 DEF ValidatorsFromLastCommit, Verified
<1>2. CASE UNCHANGED <<snapshots, validators>>
  BY <1>2 DEF ValidatorsFromLastCommit, Verified
<1>3. QED
  BY <1>1, <1>2, HistorySteps DEF PersistNotModified

(* The validators on the URL's row are those of the snapshot committed     *)
(* last, and it is verified, however the scans of the URL overlap.         *)
LEMMA ValidatorsCommitted == Spec => []ValidatorsFromLastCommit
<1>1. Init => ValidatorsFromLastCommit
  BY DEF Init, ValidatorsFromLastCommit
<1>2. TypeInv /\ ValidatorsFromLastCommit /\ [Next]_vars => ValidatorsFromLastCommit'
  BY ValidatorsStep
<1>3. QED
  BY <1>1, <1>2, TypeInvariant, PTL DEF Spec

-----------------------------------------------------------------------------
LEMMA StreakStep ==
  ASSUME TypeInv, StreakFromLastCommits, [Next]_vars
  PROVE  StreakFromLastCommits'
<1>1. Len(snapshots) \in Nat /\ failures \in Nat
  BY DEF TypeInv, TypeOK
<1>2. CASE \E w \in Workers : CommitResult(w)
  <2>1. PICK w \in Workers : CommitResult(w)
    BY <1>2
  <2>2. /\ Len(snapshots') = Len(snapshots) + 1
        /\ snapshots'[Len(snapshots) + 1] = NewSnapshot(w)
        /\ \A i \in 1..Len(snapshots) : snapshots'[i] = snapshots[i]
    BY <2>1, AppendFacts
  <2>3. failures' = IF NewSnapshot(w).errored THEN failures + 1 ELSE 0
    BY <2>1, CommitFacts
  <2>4. CASE NewSnapshot(w).errored
    BY <1>1, <2>2, <2>3, <2>4 DEF StreakFromLastCommits
  <2>5. CASE ~NewSnapshot(w).errored
    BY <1>1, <2>2, <2>3, <2>5 DEF StreakFromLastCommits
  <2>6. QED
    BY <2>4, <2>5
<1>3. CASE \E w \in Workers : PersistNotModified(w)
  <2>1. failures' = 0 /\ snapshots' = snapshots
    BY <1>3 DEF PersistNotModified
  <2>2. QED
    BY <1>1, <2>1 DEF StreakFromLastCommits
<1>4. CASE UNCHANGED <<snapshots, failures>>
  BY <1>4 DEF StreakFromLastCommits
<1>5. QED
  BY <1>2, <1>3, <1>4, HistorySteps

(* The streak that backs a source off and disables it counts the fetch     *)
(* failures committed last.                                                *)
LEMMA StreakCommitted == Spec => []StreakFromLastCommits
<1>1. Init => StreakFromLastCommits
  BY DEF Init, StreakFromLastCommits
<1>2. TypeInv /\ StreakFromLastCommits /\ [Next]_vars => StreakFromLastCommits'
  BY StreakStep
<1>3. QED
  BY <1>1, <1>2, TypeInvariant, PTL DEF Spec

-----------------------------------------------------------------------------
(* A row becomes COMPLETED only together with its usage record.            *)
LEMMA CompletedSteps ==
  ASSUME TypeInv, [Next]_vars, NEW r \in Rows, jobs'[r] = "COMPLETED"
  PROVE  jobs[r] = "COMPLETED" \/ r \in usage'
<1> USE DEF TypeInv, TypeOK
<1>1. ASSUME NEW t \in Tasks,
             RequestScan(t) \/ Enqueue(t) \/ EnqueueFails(t) \/ ScheduleScan(t) \/ Stall(t)
      PROVE  jobs[r] = "COMPLETED"
  <2>1. ASSUME EnqueueFails(t) PROVE jobs[r] = "COMPLETED"
    BY <2>1 DEF EnqueueFails
  <2>2. QED
    BY <1>1, <2>1 DEF RequestScan, Enqueue, ScheduleScan, Stall
<1>2. ASSUME NEW w \in Workers, PersistNotModified(w) \/ CommitResult(w)
      PROVE  jobs[r] = "COMPLETED" \/ r \in usage'
  BY <1>2, SMTT(20) DEF PersistNotModified, CommitResult
<1>3. ASSUME NEW w \in Workers,
             \/ \E t \in Tasks : Take(w, t)
             \/ Begin(w) \/ ReadPrior(w) \/ Fetch(w) \/ OpenResult(w) \/ Throw(w)
             \/ Ack(w) \/ Nack(w) \/ Crash(w)
      PROVE  jobs[r] = "COMPLETED"
  BY <1>3 DEF Take, Begin, ReadPrior, Fetch, OpenResult, Throw, Ack, Nack, Crash
<1>4. ASSUME HandlerStep
      PROVE  jobs[r] = "COMPLETED"
  BY <1>4 DEF HandlerStep, HandlerRead, HandlerMark, HandlerLost
<1>5. ASSUME NEW q \in Rows, Sweep(q)
      PROVE  jobs[r] = "COMPLETED"
  BY <1>5 DEF Sweep
<1>6. ASSUME \/ \E v \in Vantages, c \in Contents : ChangePage(v, c)
             \/ \E v \in Vantages : ChangeVantage(v)
             \/ UNCHANGED vars
      PROVE  jobs[r] = "COMPLETED"
  BY <1>6 DEF ChangePage, ChangeVantage, vars
<1>7. QED
  BY <1>1, <1>2, <1>3, <1>4, <1>5, <1>6 DEF Next, WorkerStep

LEMMA OutcomeStep ==
  ASSUME TypeInv, OutcomeRecordedOnce, [Next]_vars
  PROVE  OutcomeRecordedOnce'
<1>1. usage \subseteq usage'
  BY HistorySteps DEF CommitResult, PersistNotModified
<1>2. \A r \in Rows : jobs'[r] = "COMPLETED" => r \in usage'
  BY <1>1, CompletedSteps DEF OutcomeRecordedOnce
<1>3. CASE \E w \in Workers : CommitResult(w)
  <2>1. PICK w \in Workers : CommitResult(w)
    BY <1>3
  <2>2. /\ Len(snapshots) \in Nat /\ Len(snapshots') = Len(snapshots) + 1
        /\ snapshots'[Len(snapshots) + 1] = NewSnapshot(w)
        /\ \A i \in 1..Len(snapshots) : snapshots'[i] = snapshots[i]
    BY <2>1, AppendFacts
  <2>3. /\ NewSnapshot(w).row = worker[w].row
        /\ worker[w].row \notin usage
        /\ usage' = usage \cup {worker[w].row}
    BY <2>1, CommitFacts DEF Unrecorded
  <2>4. /\ \A i, j \in 1..Len(snapshots) : snapshots[i].row = snapshots[j].row => i = j
        /\ \A i \in 1..Len(snapshots) : snapshots[i].row \in usage
    BY DEF OutcomeRecordedOnce
  <2>5. \A i \in 1..Len(snapshots') : i \in 1..Len(snapshots) \/ i = Len(snapshots) + 1
    BY <2>2
  <2>6. \A i, j \in 1..Len(snapshots') : snapshots'[i].row = snapshots'[j].row => i = j
    BY <2>2, <2>3, <2>4, <2>5
  <2>7. \A i \in 1..Len(snapshots') : snapshots'[i].row \in usage'
    BY <2>2, <2>3, <2>4, <2>5
  <2>8. QED
    BY <1>2, <2>6, <2>7 DEF OutcomeRecordedOnce
<1>4. CASE snapshots' = snapshots
  BY <1>1, <1>2, <1>4 DEF OutcomeRecordedOnce
<1>5. QED
  BY <1>3, <1>4, HistorySteps DEF PersistNotModified

(* Redelivered, retried and swept jobs record one outcome per row, paid    *)
(* for by one usage record.                                                *)
THEOREM OutcomeCorrect == Spec => []OutcomeRecordedOnce
<1>1. Init => OutcomeRecordedOnce
  BY DEF Init, OutcomeRecordedOnce
<1>2. TypeInv /\ OutcomeRecordedOnce /\ [Next]_vars => OutcomeRecordedOnce'
  BY OutcomeStep
<1>3. QED
  BY <1>1, <1>2, TypeInvariant, PTL DEF Spec

-----------------------------------------------------------------------------
(* What persistMonitoringResult appends is admissible: its row has no      *)
(* outcome yet, what it was compared with is verified and comparable.      *)
LEMMA RecordStep ==
  ASSUME TypeInv, PriorIsVerified, OutcomeRecordedOnce, NEW w \in Workers, CommitResult(w)
  PROVE  Ledger!Record
<1> DEFINE e == NewSnapshot(w)
<1>1. /\ Len(snapshots) \in Nat /\ Len(snapshots') = Len(snapshots) + 1
      /\ snapshots'[Len(snapshots) + 1] = e
  BY AppendFacts
<1>2. /\ e \in Snapshot
      /\ e.row = worker[w].row
      /\ e.prev = worker[w].prior
      /\ e.errored => ~Verified(e)
      /\ snapshots' = Append(snapshots, e)
      /\ Unrecorded(worker[w].row)
      /\ validators' # None => Verified(e) /\ validators' = e.content
      /\ failures' = IF e.errored THEN failures + 1 ELSE 0
  BY CommitFacts
<1>3. e \in Ledger!Entry
  BY <1>2 DEF Ledger!Entry, Snapshot, VerificationState
<1>4. /\ worker[w].prior \in 0..Len(snapshots)
      /\ worker[w].prior # 0 => Verified(snapshots[worker[w].prior])
  <2>1. worker[w].prior \in Nat
    BY DEF TypeInv, TypeOK, Run
  <2>2. QED
    BY <1>1, <2>1 DEF PriorIsVerified
<1>5. \A i \in 1..Len(snapshots) : snapshots[i].row # e.row
  BY <1>2 DEF OutcomeRecordedOnce, Unrecorded
<1>6. e.state = "CHANGED" => /\ e.prev # 0
                             /\ snapshots[e.prev].vantage = e.vantage
                             /\ snapshots[e.prev].content # e.content
  BY DEF NewSnapshot, Compare, Comparable
<1> HIDE DEF e
<1>7. Ledger!Admissible(e)
  BY <1>2, <1>4, <1>5, <1>6 DEF Ledger!Admissible, Ledger!IsVerified, Verified
<1>8. validators' \in {None} \cup (IF Ledger!IsVerified(e) THEN {e.content} ELSE {})
  BY <1>2 DEF Ledger!IsVerified, Verified
<1>9. QED
  BY <1>1, <1>2, <1>3, <1>7, <1>8 DEF Ledger!Record

LEMMA LedgerStep ==
  ASSUME TypeInv, PriorIsVerified, OutcomeRecordedOnce, [Next]_vars
  PROVE  [Ledger!Next]_(Ledger!ledger)
<1>1. ASSUME NEW w \in Workers, CommitResult(w)
      PROVE  Ledger!Next
  BY <1>1, RecordStep DEF Ledger!Next
<1>2. ASSUME NEW w \in Workers, PersistNotModified(w)
      PROVE  Ledger!Next
  BY <1>2 DEF PersistNotModified, Ledger!Next, Ledger!Confirm
<1>3. CASE UNCHANGED <<snapshots, validators, failures>>
  BY <1>3 DEF Ledger!ledger
<1>4. QED
  BY <1>1, <1>2, <1>3, HistorySteps

(* Workers, retries, stalls, sweeps and handlers together write nothing    *)
(* into the history of a URL that ScanLedger does not allow.               *)
THEOREM LedgerImplemented == Spec => ImplementsLedger
<1>1. Init => Ledger!Init
  BY DEF Init, Ledger!Init
<1>2. TypeInv /\ PriorIsVerified /\ OutcomeRecordedOnce /\ [Next]_vars
        => [Ledger!Next]_(Ledger!ledger)
  BY LedgerStep
<1>3. QED
  BY <1>1, <1>2, TypeInvariant, PriorCorrect, OutcomeCorrect, PTL
     DEF Spec, ImplementsLedger, Ledger!Spec

-----------------------------------------------------------------------------
(* Scans that do not overlap.  What a run read is still so when it writes: *)
(* it holds the validators of the row and, once it looked, the newest      *)
(* verified snapshot; it was answered 304 only if it sent validators, and  *)
(* the snapshot it has created is dated after the committed ones.          *)
RunKnows(w) ==
  LET k == worker[w]
  IN  /\ k.pc \in {"begin", "prior", "fetch", "persist"} => k.sent = validators
      /\ k.pc \in {"fetch", "persist", "commit"} => IsLatestVerified(k.prior)
      /\ k.pc = "persist" /\ k.fetched.kind = "notModified" => k.sent # None
      /\ k.pc = "commit" => \A i \in 1..Len(snapshots) : snapshots[i].at < k.at

FollowsLatest(h, j) == \A k \in (h[j].prev + 1)..(j - 1) : ~Verified(h[k])

SerialInv ==
  /\ \A u, w \in Busy : u = w
  /\ \A w \in Workers : RunKnows(w)
  /\ \A j \in 1..Len(snapshots) : FollowsLatest(snapshots, j)
  /\ InOrder

(* The verdict on a verified snapshot, whatever it was compared with.      *)
Judged(h, j) ==
  LET p == h[j].prev
  IN  Verified(h[j]) /\ p # 0 /\ h[p].vantage = h[j].vantage /\ <<h[p].content, h[j].content>> \notin Replaced
      => (h[j].state = "CHANGED" <=> h[p].content # h[j].content)

AllJudged == \A j \in 1..Len(snapshots) : Judged(snapshots, j)

(* What a recorded snapshot leaves of the ones before it.                  *)
LEMMA GrowthFacts ==
  ASSUME TypeInv, PriorIsVerified, NEW w \in Workers, CommitResult(w)
  PROVE  \E n \in Nat :
           /\ n = Len(snapshots) /\ Len(snapshots') = n + 1 /\ snapshots'[n + 1] = NewSnapshot(w)
           /\ worker[w].prior \in 0..n
           /\ \A i \in 1..n : snapshots'[i] = snapshots[i] /\ snapshots[i].prev \in 0..(i - 1)
<1>1. PICK n \in Nat : n = Len(snapshots)
  BY AppendFacts
<1>2. ASSUME NEW i \in 1..n
      PROVE  snapshots[i].prev \in 0..(i - 1)
  <2>1. snapshots[i] \in Snapshot /\ snapshots[i].prev < i
    BY <1>1 DEF PriorIsVerified, TypeInv, TypeOK
  <2>2. snapshots[i].prev \in Nat
    BY <2>1 DEF Snapshot
  <2>3. QED
    BY <2>1, <2>2
<1>3. worker[w].prior \in 0..n
  BY <1>1 DEF PriorIsVerified, TypeInv, TypeOK, Run
<1>4. QED
  BY <1>1, <1>2, <1>3, AppendFacts

LEMMA JudgedStep ==
  ASSUME TypeInv, PriorIsVerified, AllJudged, [Next]_vars
  PROVE  AllJudged'
<1>1. CASE \E w \in Workers : CommitResult(w)
  <2>1. PICK w \in Workers : CommitResult(w)
    BY <1>1
  <2>2. PICK n \in Nat :
           /\ n = Len(snapshots) /\ Len(snapshots') = n + 1 /\ snapshots'[n + 1] = NewSnapshot(w)
           /\ worker[w].prior \in 0..n
           /\ \A i \in 1..n : snapshots'[i] = snapshots[i] /\ snapshots[i].prev \in 0..(i - 1)
    BY <2>1, GrowthFacts
  <2> DEFINE e == NewSnapshot(w)
             p == worker[w].prior
             f == worker[w].fetched
             v == worker[w].vantage
  <2>3. /\ e.prev = p /\ e.vantage = v /\ e.content = f.content /\ e.state = Compare(p, v, f)
    BY DEF NewSnapshot
  <2>4. Verified(e) /\ p # 0 /\ snapshots[p].vantage = v /\ <<snapshots[p].content, f.content>> \notin Replaced
          => (e.state = "CHANGED" <=> snapshots[p].content # f.content)
    <3> HIDE DEF e, p, f, v
    <3>1. QED
      BY <2>3 DEF Compare, Comparable, Verified
  <2>5. Judged(snapshots', n + 1)
    <3>1. p # 0 => snapshots'[p] = snapshots[p]
      BY <2>2
    <3>2. snapshots'[n + 1] = e
      BY <2>2
    <3> HIDE DEF e, p, f, v
    <3>3. QED
      BY <2>3, <2>4, <3>1, <3>2 DEF Judged
  <2>6. ASSUME NEW j \in 1..n
        PROVE  Judged(snapshots', j)
    <3>1. snapshots'[j] = snapshots[j] /\ Judged(snapshots, j)
      BY <2>2 DEF AllJudged
    <3>2. snapshots[j].prev # 0 => snapshots'[snapshots[j].prev] = snapshots[snapshots[j].prev]
      BY <2>2
    <3>3. QED
      BY <3>1, <3>2 DEF Judged
  <2>7. \A j \in 1..Len(snapshots') : Judged(snapshots', j)
    BY <2>2, <2>5, <2>6
  <2>8. QED
    BY <2>7 DEF AllJudged, Judged, Verified
<1>2. CASE snapshots' = snapshots
  BY <1>2 DEF AllJudged, Judged, Verified
<1>3. QED
  BY <1>1, <1>2, HistorySteps DEF PersistNotModified

(* A run that has ended, or is ending, knows nothing.                      *)
Ended(k) == k.pc \in {"idle", "ack", "failing"}

LEMMA EndedRun ==
  ASSUME TypeInv, NEW w \in Workers, NEW pc \in {"ack", "failing"},
         worker' = Ending(w, pc) \/ worker' = [worker EXCEPT ![w] = Idle]
  PROVE  Ended(worker'[w]) /\ \A u \in Workers \ {w} : worker'[u] = worker[u]
<1> DEFINE k == [Idle EXCEPT !.pc = pc, !.task = worker[w].task]
<1>1. k.pc = pc /\ Idle.pc = "idle"
  BY DEF Idle
<1> HIDE DEF k
<1>2. CASE worker' = [worker EXCEPT ![w] = k]
  BY <1>1, <1>2 DEF Ended, TypeInv, TypeOK
<1>3. CASE worker' = [worker EXCEPT ![w] = Idle]
  BY <1>1, <1>3 DEF Ended, TypeInv, TypeOK
<1>4. QED
  BY <1>2, <1>3 DEF Ending, k

(* What a step of a slot, other than its end, establishes for its run.     *)
LEMMA TakeReads ==
  ASSUME TypeInv, NEW w \in Workers, NEW t \in Tasks, Take(w, t)
  PROVE  /\ worker[w].pc = "idle" /\ UNCHANGED urlVars
         /\ worker'[w].pc = "begin" /\ worker'[w].sent = validators
         /\ \A u \in Workers \ {w} : worker'[u] = worker[u]
<1>1. /\ worker[w].pc = "idle" /\ UNCHANGED urlVars
      /\ worker' = [worker EXCEPT ![w] =
           [Idle EXCEPT !.pc = "begin", !.task = t, !.sent = validators, !.row = RowOf(t, task[t].runs + 1)]]
  BY DEF Take
<1>2. QED
  BY <1>1 DEF Idle, TypeInv, TypeOK

LEMMA BeginKeeps ==
  ASSUME TypeInv, NEW w \in Workers, Begin(w)
  PROVE  /\ worker[w].pc = "begin" /\ UNCHANGED urlVars
         /\ worker'[w].pc = "prior" /\ worker'[w].sent = worker[w].sent
         /\ \A u \in Workers \ {w} : worker'[u] = worker[u]
<1>1. /\ worker[w].pc = "begin" /\ UNCHANGED urlVars
      /\ worker' = [worker EXCEPT ![w] = [worker[w] EXCEPT !.pc = "prior"]]
  BY DEF Begin
<1>2. worker[w] \in Run
  BY DEF TypeInv, TypeOK
<1>3. [worker[w] EXCEPT !.pc = "prior"].pc = "prior" /\ [worker[w] EXCEPT !.pc = "prior"].sent = worker[w].sent
  BY <1>2 DEF Run
<1>4. QED
  BY <1>1, <1>3 DEF TypeInv, TypeOK

LEMMA PriorIsRead ==
  ASSUME TypeInv, NEW w \in Workers, ReadPrior(w)
  PROVE  /\ worker[w].pc = "prior" /\ UNCHANGED urlVars
         /\ worker'[w].pc = "fetch" /\ worker'[w].sent = worker[w].sent
         /\ IsLatestVerified(worker'[w].prior)
         /\ \A u \in Workers \ {w} : worker'[u] = worker[u]
<1>1. worker[w].pc = "prior" /\ UNCHANGED urlVars
  BY DEF ReadPrior
<1>2. PICK p \in 0..Len(snapshots) :
        /\ IsLatestVerified(p)
        /\ worker' = [worker EXCEPT ![w] = [worker[w] EXCEPT !.pc = "fetch", !.prior = p]]
  BY DEF ReadPrior
<1> DEFINE k == [worker[w] EXCEPT !.pc = "fetch", !.prior = p]
<1>3. worker[w] \in Run
  BY DEF TypeInv, TypeOK
<1>4. k.pc = "fetch" /\ k.sent = worker[w].sent /\ k.prior = p
  BY <1>3 DEF Run
<1>5. worker'[w] = k /\ \A u \in Workers \ {w} : worker'[u] = worker[u]
  BY <1>2 DEF TypeInv, TypeOK
<1> HIDE DEF k
<1>6. worker'[w].prior = p
  BY <1>4, <1>5
<1>7. QED
  BY <1>1, <1>2, <1>4, <1>5, <1>6

(* A 304 answers the validators that were sent.                            *)
LEMMA FetchIsAnswered ==
  ASSUME TypeInv, NEW w \in Workers, Fetch(w)
  PROVE  /\ worker[w].pc = "fetch" /\ UNCHANGED urlVars
         /\ worker'[w].pc = "persist" /\ worker'[w].sent = worker[w].sent /\ worker'[w].prior = worker[w].prior
         /\ worker'[w].fetched.kind = "notModified" => worker[w].sent # None
         /\ \A u \in Workers \ {w} : worker'[u] = worker[u]
<1>1. worker[w].pc = "fetch" /\ UNCHANGED urlVars
  BY DEF Fetch
<1>2. PICK conditional \in {FALSE, MaySendValidators(w, vantage)} :
        \E ans \in Answers(vantage, IF conditional THEN worker[w].sent ELSE None) :
          worker' = [worker EXCEPT ![w].pc = "persist", ![w].vantage = vantage, ![w].fetched = ans]
  BY DEF Fetch
<1>3. PICK ans \in Answers(vantage, IF conditional THEN worker[w].sent ELSE None) :
        worker' = [worker EXCEPT ![w] = [worker[w] EXCEPT !.pc = "persist", !.vantage = vantage, !.fetched = ans]]
  BY <1>2
<1>4. page[vantage] \in Contents
  BY DEF TypeInv, TypeOK
<1>5. ans.kind = "notModified" => worker[w].sent # None
  <2>1. SUFFICES ASSUME ans.kind = "notModified" PROVE worker[w].sent # None
    OBVIOUS
  <2>2. (IF conditional THEN worker[w].sent ELSE None) = page[vantage]
    BY <2>1 DEF Answers
  <2>3. QED
    BY <1>4, <2>2, ConstantsOK
<1> DEFINE k == [worker[w] EXCEPT !.pc = "persist", !.vantage = vantage, !.fetched = ans]
<1>6. worker[w] \in Run
  BY DEF TypeInv, TypeOK
<1>7. k.pc = "persist" /\ k.sent = worker[w].sent /\ k.prior = worker[w].prior /\ k.fetched = ans
  BY <1>6 DEF Run
<1>8. worker'[w] = k /\ \A u \in Workers \ {w} : worker'[u] = worker[u]
  BY <1>3 DEF TypeInv, TypeOK
<1> HIDE DEF k
<1>9. QED
  BY <1>1, <1>5, <1>7, <1>8

LEMMA OpenDates ==
  ASSUME TypeInv, NEW w \in Workers, OpenResult(w)
  PROVE  /\ worker[w].pc = "persist" /\ UNCHANGED urlVars
         /\ worker'[w].pc = "commit" /\ worker'[w].prior = worker[w].prior
         /\ \A i \in 1..Len(snapshots) : snapshots[i].at < worker'[w].at
         /\ \A u \in Workers \ {w} : worker'[u] = worker[u]
<1>1. worker[w].pc = "persist" /\ UNCHANGED urlVars
  BY DEF OpenResult
<1>2. PICK at \in Nat :
        /\ worker' = [worker EXCEPT ![w] = [worker[w] EXCEPT !.pc = "commit", !.at = at]]
        /\ \A i \in 1..Len(snapshots) : snapshots[i].at < at
  BY OpenFacts
<1> DEFINE k == [worker[w] EXCEPT !.pc = "commit", !.at = at]
<1>3. worker[w] \in Run
  BY DEF TypeInv, TypeOK
<1>4. k.pc = "commit" /\ k.prior = worker[w].prior /\ k.at = at
  BY <1>3 DEF Run
<1>5. worker'[w] = k /\ \A u \in Workers \ {w} : worker'[u] = worker[u]
  BY <1>2 DEF TypeInv, TypeOK
<1> HIDE DEF k
<1>6. QED
  BY <1>1, <1>2, <1>4, <1>5

(* One step of the only busy slot.                                         *)
LEMMA SlotStep ==
  ASSUME TypeInv, SerialInv, NEW w \in Workers, WorkerStep(w)
  PROVE  RunKnows(w)' /\ (\A u \in Workers \ {w} : worker'[u] = worker[u])
         /\ (worker[w].pc = "idle" => worker'[w].pc # "idle")
<1>1. RunKnows(w)
  BY DEF SerialInv
<1>2. CASE \E t \in Tasks : Take(w, t)
  <2>1. PICK t \in Tasks : Take(w, t)
    BY <1>2
  <2>2. QED
    BY <2>1, TakeReads DEF RunKnows, urlVars
<1>3. CASE Begin(w)
  BY <1>1, <1>3, BeginKeeps DEF RunKnows, urlVars
<1>4. CASE ReadPrior(w)
  BY <1>1, <1>4, PriorIsRead DEF RunKnows, urlVars, IsLatestVerified, Verified
<1>5. CASE Fetch(w)
  BY <1>1, <1>5, FetchIsAnswered, SMTT(20) DEF RunKnows, urlVars, IsLatestVerified, Verified
<1>6. CASE OpenResult(w)
  BY <1>1, <1>6, OpenDates, SMTT(20) DEF RunKnows, urlVars, IsLatestVerified, Verified
<1>7. CASE PersistNotModified(w) \/ CommitResult(w) \/ Throw(w) \/ Ack(w) \/ Nack(w) \/ Crash(w)
  <2>1. \E pc \in {"ack", "failing"} : worker' = Ending(w, pc) \/ worker' = [worker EXCEPT ![w] = Idle]
    BY <1>7 DEF PersistNotModified, CommitResult, Throw, Ack, Nack, Crash
  <2>2. Ended(worker'[w]) /\ \A u \in Workers \ {w} : worker'[u] = worker[u]
    BY <2>1, EndedRun, SMTT(20)
  <2>3. worker[w].pc # "idle"
    BY <1>7 DEF PersistNotModified, CommitResult, Throw, Ack, Nack, Crash
  <2>4. QED
    BY <2>2, <2>3 DEF Ended, RunKnows
<1>8. QED
  BY <1>2, <1>3, <1>4, <1>5, <1>6, <1>7 DEF WorkerStep

(* The steps of everything else leave the runs alone.                      *)
LEMMA OtherSteps ==
  ASSUME [Next]_vars
  PROVE  (\E w \in Workers : WorkerStep(w)) \/ (worker' = worker /\ UNCHANGED urlVars)
<1>1. ASSUME NEW t \in Tasks, RequestScan(t) \/ Enqueue(t) \/ EnqueueFails(t) \/ ScheduleScan(t) \/ Stall(t)
      PROVE  worker' = worker /\ UNCHANGED urlVars
  BY <1>1 DEF RequestScan, Enqueue, EnqueueFails, ScheduleScan, Stall
<1>2. ASSUME \/ \E v \in Vantages, c \in Contents : ChangePage(v, c)
             \/ \E v \in Vantages : ChangeVantage(v)
             \/ HandlerStep
             \/ \E r \in Rows : Sweep(r)
             \/ UNCHANGED vars
      PROVE  worker' = worker /\ UNCHANGED urlVars
  BY <1>2 DEF ChangePage, ChangeVantage, HandlerStep, HandlerRead, HandlerMark, HandlerLost, Sweep, vars
<1>3. QED
  BY <1>1, <1>2 DEF Next

(* While the dates agree with the order of commit, no verified snapshot    *)
(* was committed after the newest one by date.                             *)
LEMMA LatestIsLast ==
  ASSUME TypeInv, InOrder, NEW p \in Nat, p <= Len(snapshots), IsLatestVerified(p)
  PROVE  \A k \in (p + 1)..Len(snapshots) : ~Verified(snapshots[k])
<1>1. Len(snapshots) \in Nat /\ \A i \in 1..Len(snapshots) : snapshots[i].at \in Nat
  <2>1. Len(snapshots) \in Nat /\ \A i \in 1..Len(snapshots) : snapshots[i] \in Snapshot
    BY DEF TypeInv, TypeOK
  <2>2. QED
    BY <2>1 DEF Snapshot
<1>2. ASSUME NEW k \in (p + 1)..Len(snapshots), Verified(snapshots[k])
      PROVE  FALSE
  <2>1. k \in 1..Len(snapshots) /\ p < k
    BY <1>1
  <2>2. p # 0 /\ snapshots[k].at <= snapshots[p].at
    BY <1>2, <2>1 DEF IsLatestVerified
  <2>3. p \in 1..Len(snapshots)
    BY <1>1, <2>2
  <2>4. snapshots[p].at < snapshots[k].at
    BY <2>1, <2>3 DEF InOrder
  <2>5. QED
    BY <1>1, <2>1, <2>2, <2>3, <2>4
<1>3. QED
  BY <1>2

LEMMA SerialStep ==
  ASSUME TypeInv, PriorIsVerified, SerialInv, [Next]_vars, \A u, w \in Busy' : u = w
  PROVE  SerialInv'
<1>1. CASE worker' = worker /\ UNCHANGED urlVars
  BY <1>1 DEF SerialInv, RunKnows, FollowsLatest, InOrder, IsLatestVerified, Verified, Busy, urlVars
<1>2. CASE \E w \in Workers : WorkerStep(w)
  <2>1. PICK w \in Workers : WorkerStep(w)
    BY <1>2
  <2>2. RunKnows(w)' /\ (\A u \in Workers \ {w} : worker'[u] = worker[u]) /\ (worker[w].pc = "idle" => worker'[w].pc # "idle")
    BY <2>1, SlotStep
  <2>3. ASSUME NEW u \in Workers \ {w}
        PROVE  RunKnows(u)'
    <3>1. worker'[u].pc = "idle"
      BY <2>2, SMTT(20) DEF SerialInv, Busy
    <3>2. QED
      BY <3>1 DEF RunKnows
  <2>4. \A j \in 1..Len(snapshots') : FollowsLatest(snapshots', j)
    <3>1. CASE CommitResult(w)
      <4>1. PICK n \in Nat :
               /\ n = Len(snapshots) /\ Len(snapshots') = n + 1 /\ snapshots'[n + 1] = NewSnapshot(w)
               /\ worker[w].prior \in 0..n
               /\ \A i \in 1..n : snapshots'[i] = snapshots[i] /\ snapshots[i].prev \in 0..(i - 1)
        BY <3>1, GrowthFacts
      <4>2. IsLatestVerified(worker[w].prior)
        BY <3>1 DEF SerialInv, RunKnows, CommitResult
      <4>3. NewSnapshot(w).prev = worker[w].prior
        BY DEF NewSnapshot
      <4>4. FollowsLatest(snapshots', n + 1)
        BY <4>1, <4>2, <4>3, LatestIsLast DEF FollowsLatest, SerialInv, Verified
      <4>5. ASSUME NEW j \in 1..n
            PROVE  FollowsLatest(snapshots', j)
        BY <4>1 DEF SerialInv, FollowsLatest, Verified
      <4>6. QED
        BY <4>1, <4>4, <4>5
    <3>2. CASE snapshots' = snapshots
      BY <3>2 DEF SerialInv, FollowsLatest
    <3>3. QED
      BY <2>1, <3>1, <3>2 DEF WorkerStep, Take, Begin, ReadPrior, Fetch, PersistNotModified, OpenResult, Throw, Ack, Nack, Crash, urlVars
  <2>5. InOrder'
    <3>1. CASE CommitResult(w)
      <4>1. PICK n \in Nat :
               /\ n = Len(snapshots) /\ Len(snapshots') = n + 1 /\ snapshots'[n + 1] = NewSnapshot(w)
               /\ \A i \in 1..n : snapshots'[i] = snapshots[i]
        BY <3>1, GrowthFacts
      <4>2. \A i \in 1..n : snapshots[i].at < NewSnapshot(w).at
        BY <3>1, <4>1, CommitFacts DEF SerialInv, RunKnows, CommitResult
      <4>3. \A i, j \in 1..n : i < j => snapshots[i].at < snapshots[j].at
        BY <4>1 DEF SerialInv, InOrder
      <4>4. ASSUME NEW i \in 1..(n + 1), NEW j \in 1..(n + 1), i < j
            PROVE  snapshots'[i].at < snapshots'[j].at
        <5>1. i \in 1..n /\ (j \in 1..n \/ j = n + 1)
          BY <4>4
        <5>2. QED
          BY <4>1, <4>2, <4>3, <4>4, <5>1
      <4>5. QED
        BY <4>1, <4>4 DEF InOrder
    <3>2. CASE snapshots' = snapshots
      BY <3>2 DEF SerialInv, InOrder
    <3>3. QED
      BY <2>1, <3>1, <3>2 DEF WorkerStep, Take, Begin, ReadPrior, Fetch, PersistNotModified, OpenResult, Throw, Ack, Nack, Crash, urlVars
  <2>6. QED
    BY <2>2, <2>3, <2>4, <2>5 DEF SerialInv, FollowsLatest, Verified
<1>3. QED
  BY <1>1, <1>2, OtherSteps

(* Two successive verified snapshots: the later was compared with the      *)
(* earlier one.                                                            *)
LEMMA SerialReports ==
  ASSUME TypeInv, PriorIsVerified, SerialInv, AllJudged
  PROVE  EveryChangeReportedOnce
<1> SUFFICES ASSUME NEW i \in 1..Len(snapshots), NEW j \in 1..Len(snapshots), snapshots[i].at < snapshots[j].at,
                    Verified(snapshots[i]), Verified(snapshots[j]),
                    \A k \in 1..Len(snapshots) :
                      snapshots[i].at < snapshots[k].at /\ snapshots[k].at < snapshots[j].at => ~Verified(snapshots[k]),
                    snapshots[i].vantage = snapshots[j].vantage,
                    <<snapshots[i].content, snapshots[j].content>> \notin Replaced
             PROVE  snapshots[j].state = "CHANGED" <=> snapshots[i].content # snapshots[j].content
  BY DEF EveryChangeReportedOnce
<1>a. Len(snapshots) \in Nat /\ \A k \in 1..Len(snapshots) : snapshots[k].at \in Nat
  <2>1. Len(snapshots) \in Nat /\ \A k \in 1..Len(snapshots) : snapshots[k] \in Snapshot
    BY DEF TypeInv, TypeOK
  <2>2. QED
    BY <2>1 DEF Snapshot
<1>b. \A m, k \in 1..Len(snapshots) : m < k => snapshots[m].at < snapshots[k].at
  BY DEF SerialInv, InOrder
<1>c. i < j
  BY <1>a, <1>b
<1>d. \A k \in (i + 1)..(j - 1) : ~Verified(snapshots[k])
  BY <1>a, <1>b
<1> DEFINE p == snapshots[j].prev
<1>1. p \in Nat /\ p < j /\ (p # 0 => Verified(snapshots[p])) /\ i \in Nat /\ j \in Nat
  <2>1. snapshots[j] \in Snapshot /\ Len(snapshots) \in Nat
    BY DEF TypeInv, TypeOK
  <2>2. QED
    BY <2>1 DEF PriorIsVerified, Snapshot
<1>2. \A k \in (p + 1)..(j - 1) : ~Verified(snapshots[k])
  BY DEF SerialInv, FollowsLatest
<1> HIDE DEF p
<1>3. p = i
  BY <1>1, <1>2, <1>c, <1>d
<1>4. QED
  BY <1>1, <1>3 DEF AllJudged, Judged, p

-----------------------------------------------------------------------------
(* The lanes: both are behaviours of Spec.                                 *)
LaneInv ==
  /\ TypeInv /\ PriorIsVerified /\ ValidatorsFromLastCommit /\ StreakFromLastCommits /\ AllJudged
  /\ lane = "serial" => SerialInv

LEMMA LaneInitially == LaneInit => LaneInv
<1> SUFFICES ASSUME LaneInit PROVE LaneInv
  OBVIOUS
<1>1. Init /\ TypeInv
  BY TypeInit DEF LaneInit
<1>2. snapshots = <<>> /\ validators = None /\ \A w \in Workers : worker[w] = Idle
  BY <1>1 DEF Init
<1>3. PriorIsVerified /\ ValidatorsFromLastCommit /\ StreakFromLastCommits /\ AllJudged
  BY <1>1, <1>2 DEF Init, PriorIsVerified, ValidatorsFromLastCommit, StreakFromLastCommits, AllJudged, Idle
<1>4. SerialInv
  BY <1>2 DEF SerialInv, RunKnows, Busy, InOrder, Idle
<1>5. QED
  BY <1>1, <1>3, <1>4 DEF LaneInv

LEMMA LaneStep == LaneInv /\ [LaneNext]_<<vars, lane>> => LaneInv'
<1> SUFFICES ASSUME LaneInv, [LaneNext]_<<vars, lane>> PROVE LaneInv'
  OBVIOUS
<1>1. [Next]_vars /\ lane' = lane
  BY DEF LaneNext
<1>2. TypeInv' /\ PriorIsVerified' /\ ValidatorsFromLastCommit' /\ StreakFromLastCommits' /\ AllJudged'
  BY <1>1, TypeNext, PriorStep, ValidatorsStep, StreakStep, JudgedStep DEF LaneInv
<1>3. ASSUME lane = "serial"
      PROVE  SerialInv'
  <2>1. \A u, w \in Busy' : u = w
    <3>1. CASE LaneNext
      BY <1>3, <3>1 DEF LaneNext
    <3>2. CASE UNCHANGED <<vars, lane>>
      BY <1>3, <3>2 DEF LaneInv, SerialInv, Busy, vars
    <3>3. QED
      BY <3>1, <3>2
  <2>2. QED
    BY <1>1, <1>3, <2>1, SerialStep DEF LaneInv
<1>4. QED
  BY <1>1, <1>2, <1>3 DEF LaneInv

(* While the scans of a URL do not overlap, every comparable difference    *)
(* between two successive verified snapshots is reported exactly once,     *)
(* whatever runs fail, crash, stall or are retried and swept.              *)
THEOREM SerialCorrect == LaneSpec => []ReportedOnceWhenSerial
<1>1. LaneInv => ReportedOnceWhenSerial
  BY SerialReports DEF LaneInv, ReportedOnceWhenSerial
<1>2. QED
  BY <1>1, LaneInitially, LaneStep, PTL DEF LaneSpec

(* While the dates agree with the order of commit, the snapshot committed  *)
(* last is the newest.                                                     *)
LEMMA LastIsNewest ==
  ASSUME TypeInv, InOrder, snapshots # <<>>
  PROVE  Len(snapshots) \in 1..Len(snapshots) /\ Newest(Len(snapshots))
<1>1. Len(snapshots) \in Nat /\ \A k \in 1..Len(snapshots) : snapshots[k] \in Snapshot
  BY DEF TypeInv, TypeOK
<1>2. \A k \in 1..Len(snapshots) : snapshots[k].at \in Nat
  BY <1>1 DEF Snapshot
<1>3. Len(snapshots) \in 1..Len(snapshots)
  <2>1. Len(snapshots) # 0
    BY DEF TypeInv, TypeOK
  <2>2. QED
    BY <1>1, <2>1
<1>4. ASSUME NEW j \in 1..Len(snapshots)
      PROVE  snapshots[j].at <= snapshots[Len(snapshots)].at
  <2>1. j = Len(snapshots) \/ j < Len(snapshots)
    BY <1>1
  <2>2. QED
    BY <1>2, <1>3, <2>1 DEF InOrder
<1>5. QED
  BY <1>3, <1>4 DEF Newest

(* Under any overlap, redelivery and crash the validators on the URL's row *)
(* are those of the snapshot committed last, which is verified, and while  *)
(* scans do not overlap it is the newest one by date.                      *)
THEOREM ValidatorsCorrect == LaneSpec => []ValidatorsMatchLatest
<1>1. ASSUME LaneInv, lane = "serial", validators # None
      PROVE  Newest(Len(snapshots))
  BY <1>1, LastIsNewest DEF LaneInv, SerialInv, ValidatorsFromLastCommit
<1>2. LaneInv => ValidatorsMatchLatest
  BY <1>1 DEF LaneInv, ValidatorsMatchLatest
<1>3. QED
  BY <1>2, LaneInitially, LaneStep, PTL DEF LaneSpec

(* Likewise the failure streak counts the failures committed last, and     *)
(* while scans do not overlap they are the newest snapshots by date.       *)
THEOREM StreakCorrect == LaneSpec => []StreakIsRecorded
<1>1. ASSUME LaneInv, lane = "serial",
             NEW i \in 1..(Len(snapshots) - failures), NEW j \in (Len(snapshots) - failures + 1)..Len(snapshots)
      PROVE  snapshots[i].at < snapshots[j].at
  <2>1. Len(snapshots) \in Nat /\ failures \in Nat /\ failures <= Len(snapshots)
    BY <1>1 DEF LaneInv, TypeInv, TypeOK, StreakFromLastCommits
  <2>2. i \in 1..Len(snapshots) /\ j \in 1..Len(snapshots) /\ i < j
    BY <1>1, <2>1
  <2>3. QED
    BY <1>1, <2>2 DEF LaneInv, SerialInv, InOrder
<1>2. LaneInv => StreakIsRecorded
  BY <1>1 DEF LaneInv, StreakIsRecorded
<1>3. QED
  BY <1>2, LaneInitially, LaneStep, PTL DEF LaneSpec

(* A 304 that such a scan records confirms the newest snapshot, which is   *)
(* verified and carries the validators that were sent.                     *)
THEOREM ConfirmsCorrect == LaneSpec => NotModifiedAnswersLatest
<1>1. ASSUME LaneInv, lane = "serial", NEW w \in Workers, RecordsNotModified(w)
      PROVE  ConfirmsLatest(w)
  <2>1. worker[w].sent = validators /\ validators # None
    BY <1>1 DEF LaneInv, SerialInv, RunKnows, RecordsNotModified
  <2>2. /\ snapshots # <<>>
        /\ Verified(snapshots[Len(snapshots)])
        /\ snapshots[Len(snapshots)].content = validators
    BY <1>1, <2>1 DEF LaneInv, ValidatorsFromLastCommit
  <2>3. Len(snapshots) \in 1..Len(snapshots) /\ Newest(Len(snapshots))
    BY <1>1, <2>2, LastIsNewest DEF LaneInv, SerialInv
  <2>4. QED
    BY <2>1, <2>2, <2>3 DEF ConfirmsLatest
<1>2. LaneInv => [lane = "serial" => \A w \in Workers : RecordsNotModified(w) => ConfirmsLatest(w)]_vars
  BY <1>1
<1>3. QED
  BY <1>2, LaneInitially, LaneStep, PTL DEF LaneSpec, NotModifiedAnswersLatest
=============================================================================
