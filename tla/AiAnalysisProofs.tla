-------------------------- MODULE AiAnalysisProofs --------------------------
(***************************************************************************)
(* Proofs about AiAnalysis for any number of requests, slots and stalls.   *)
(* Types and the refinement of AnalysisRow need RunInv (what each step of  *)
(* a run has established); paying once needs, while locks hold, that the   *)
(* lock names the only live run.                                           *)
(***************************************************************************)
EXTENDS AiAnalysis, TLAPS

RunInv ==
  \A w \in Workers :
    /\ worker[w].pc # "idle" => worker[w].run # 0
    /\ worker[w].pc \in {"read", "prepare"} => worker[w].tries = 0
    /\ worker[w].pc = "call" => worker[w].tries <= 1

TypeInv == TypeOK /\ RunInv

(* The lock names the only live run.                                       *)
SoleRun ==
  \A w \in Workers :
    worker[w].pc # "idle" => job.state = "active" /\ job.lock = w

(* A run that may still pay works on a row without an answer.              *)
StillOpen ==
  \A w \in Workers :
    worker[w].pc \in {"prepare", "call", "store", "giveup"} => status # "COMPLETED"

-----------------------------------------------------------------------------
LEMMA MarkFailedType ==
  ASSUME TypeOK, MarkFailed
  PROVE  status' \in Statuses /\ result' \in Nat
BY DEF TypeOK, MarkFailed, Open, Statuses

LEMMA WorkerType ==
  ASSUME TypeInv, NEW w \in Workers, NEW r \in Run,
         worker' = [worker EXCEPT ![w] = r],
         r.pc # "idle" => r.run # 0,
         r.pc \in {"read", "prepare"} => r.tries = 0,
         r.pc = "call" => r.tries <= 1
  PROVE  worker' \in [Workers -> Run] /\ RunInv'
<1>1. worker'[w] = r /\ \A u \in Workers \ {w} : worker'[u] = worker[u]
  BY DEF TypeInv, TypeOK
<1>2. QED
  BY <1>1 DEF TypeInv, TypeOK, RunInv

LEMMA IdleType ==
  ASSUME TypeInv, NEW w \in Workers, worker' = [worker EXCEPT ![w] = Idle]
  PROVE  worker' \in [Workers -> Run] /\ RunInv'
<1>1. Idle \in Run /\ Idle.pc = "idle"
  BY DEF Idle, Run, Statuses
<1>2. QED
  BY <1>1, WorkerType

(* A step of a run to pc that keeps its number and its tries.              *)
LEMMA MoveType ==
  ASSUME TypeInv, NEW w \in Workers, worker[w].pc # "idle",
         NEW pc \in {"prepare", "call", "store", "giveup", "ack", "failing"},
         pc \in {"prepare", "call"} => worker[w].pc \in {"read", "prepare"},
         worker' = [worker EXCEPT ![w].pc = pc]
  PROVE  worker' \in [Workers -> Run] /\ RunInv'
<1> DEFINE r == [worker[w] EXCEPT !.pc = pc]
<1>1. r \in Run /\ r.pc = pc /\ r.run = worker[w].run /\ r.tries = worker[w].tries
  BY DEF TypeInv, TypeOK, Run
<1>2. worker' = [worker EXCEPT ![w] = r]
  BY DEF TypeInv, TypeOK
<1>3. worker[w].run # 0 /\ (pc \in {"prepare", "call"} => worker[w].tries = 0)
  BY DEF TypeInv, RunInv
<1>4. /\ r.pc # "idle" => r.run # 0
      /\ r.pc \in {"read", "prepare"} => r.tries = 0
      /\ r.pc = "call" => r.tries <= 1
  BY <1>1, <1>3
<1> HIDE DEF r
<1>5. QED
  BY <1>1, <1>2, <1>4, WorkerType

LEMMA RequestType ==
  ASSUME TypeInv, NEW r \in Requests, RequestStep(r)
  PROVE  TypeInv'
<1> USE DEF TypeInv, TypeOK, RunInv, rowVars
<1>1. CASE Find(r)
  BY <1>1 DEF Find
<1>2. CASE Create(r)
  BY <1>2 DEF Create, Statuses
<1>3. CASE Lookup(r)
  BY <1>3 DEF Lookup
<1>4. CASE Remove(r)
  <2>1. NoJob \in Job
    BY ConstantsOK DEF NoJob, Job
  <2>2. QED
    BY <1>4, <2>1 DEF Remove
<1>5. JobAfterAdd \in Job
  BY DEF JobAfterAdd, Job
<1>6. CASE Add(r)
  BY <1>5, <1>6 DEF Add
<1>7. CASE EnqueueFails(r)
  BY <1>5, <1>7 DEF EnqueueFails
<1>8. CASE MarkOrphan(r)
  <2>1. status' \in Statuses /\ result' \in Nat
    BY <1>8, MarkFailedType DEF MarkOrphan, rowVars
  <2>2. QED
    BY <1>8, <2>1 DEF MarkOrphan
<1>9. QED
  BY <1>1, <1>2, <1>3, <1>4, <1>6, <1>7, <1>8 DEF RequestStep

LEMMA WorkerStepType ==
  ASSUME TypeInv, NEW w \in Workers, WorkerStep(w)
  PROVE  TypeInv'
<1>w. worker[w] \in Run
  BY DEF TypeInv, TypeOK
<1>1. CASE Take(w)
  <2> DEFINE r == [pc |-> "read", run |-> runs + 1, found |-> "ABSENT", tries |-> 0]
  <2>1. runs \in Nat /\ runs + 1 \in Nat /\ runs + 1 # 0
    BY DEF TypeInv, TypeOK
  <2>2. r \in Run /\ r.pc = "read" /\ r.run = runs + 1 /\ r.tries = 0
    BY <2>1 DEF Run, Statuses
  <2>3. worker' = [worker EXCEPT ![w] = r]
    BY <1>1 DEF Take
  <2> HIDE DEF r
  <2>4. worker' \in [Workers -> Run] /\ RunInv'
    BY <2>1, <2>2, <2>3, WorkerType
  <2>5. job' \in Job
    BY <1>1 DEF Take, TypeInv, TypeOK, Job
  <2>6. QED
    BY <1>1, <2>1, <2>4, <2>5 DEF Take, TypeInv, TypeOK, rowVars
<1>2. CASE Read(w)
  <2> DEFINE next == IF Answered(status) THEN "ack" ELSE "prepare"
             r == [worker[w] EXCEPT !.pc = next, !.found = status]
  <2>1. /\ r \in Run /\ r.pc \in {"ack", "prepare"}
        /\ r.run = worker[w].run /\ r.tries = worker[w].tries
    BY DEF TypeInv, TypeOK, Run
  <2>2. worker' = [worker EXCEPT ![w] = r]
    BY <1>2 DEF Read, TypeInv, TypeOK
  <2>3. worker[w].run # 0 /\ worker[w].tries = 0
    BY <1>2 DEF Read, TypeInv, RunInv
  <2> HIDE DEF r
  <2>4. worker' \in [Workers -> Run] /\ RunInv'
    BY <2>1, <2>2, <2>3, WorkerType
  <2>5. QED
    BY <1>2, <2>4 DEF Read, TypeInv, TypeOK, rowVars
<1>3. CASE Refuse(w)
  <2>1. worker' \in [Workers -> Run] /\ RunInv'
    BY <1>3, MoveType DEF Refuse
  <2>2. status' \in Statuses /\ result' \in Nat
    BY <1>3, MarkFailedType DEF Refuse, TypeInv
  <2>3. QED
    BY <1>3, <2>1, <2>2 DEF Refuse, TypeInv, TypeOK
<1>4. CASE MarkRunning(w)
  <2>1. worker' \in [Workers -> Run] /\ RunInv'
    BY <1>4, MoveType DEF MarkRunning
  <2>2. status' \in Statuses
    BY <1>4 DEF MarkRunning, TypeInv, TypeOK, Statuses
  <2>3. QED
    BY <1>4, <2>1, <2>2 DEF MarkRunning, TypeInv, TypeOK
<1>5. CASE Call(w)
  <2>1. worker[w].pc = "call" /\ worker[w].tries \in {0, 1} /\ worker[w].run # 0
    BY <1>5, <1>w DEF Call, TypeInv, RunInv, Run
  <2>2. PICK next \in {"store", "giveup"} \cup (IF MayRetry(w) THEN {"call"} ELSE {}) :
          worker' = [worker EXCEPT ![w].pc = next, ![w].tries = @ + 1]
    BY <1>5 DEF Call
  <2> DEFINE r == [worker[w] EXCEPT !.pc = next, !.tries = worker[w].tries + 1]
  <2>3. worker' = [worker EXCEPT ![w] = r]
    BY <2>2 DEF TypeInv, TypeOK
  <2>4. /\ r \in Run /\ r.pc = next
        /\ r.run = worker[w].run /\ r.tries = worker[w].tries + 1
    <3>1. worker[w].tries + 1 \in 0..2
      BY <2>1
    <3>2. next \in {"store", "giveup", "call"}
      BY <2>2
    <3>3. QED
      BY <1>w, <3>1, <3>2 DEF Run
  <2>5. next = "call" => worker[w].tries = 0
    BY <2>2 DEF MayRetry
  <2>6. /\ r.pc # "idle" => r.run # 0
        /\ r.pc \in {"read", "prepare"} => r.tries = 0
        /\ r.pc = "call" => r.tries <= 1
    BY <2>1, <2>2, <2>4, <2>5
  <2> HIDE DEF r
  <2>7. worker' \in [Workers -> Run] /\ RunInv'
    BY <2>3, <2>4, <2>6, WorkerType
  <2>8. QED
    BY <1>5, <2>7 DEF Call, TypeInv, TypeOK, rowVars
<1>6. CASE Store(w)
  <2>1. worker' \in [Workers -> Run] /\ RunInv'
    BY <1>6, MoveType DEF Store
  <2>2. status' \in Statuses /\ result' \in Nat
    BY <1>6, <1>w DEF Store, TypeInv, TypeOK, rowVars, Statuses, Run
  <2>3. QED
    BY <1>6, <2>1, <2>2 DEF Store, TypeInv, TypeOK
<1>7. CASE Throw(w)
  <2>1. worker' \in [Workers -> Run] /\ RunInv'
    BY <1>7, MoveType DEF Throw
  <2>2. status' \in Statuses /\ result' \in Nat
    BY <1>7, MarkFailedType DEF Throw, TypeInv, TypeOK, rowVars
  <2>3. QED
    BY <1>7, <2>1, <2>2 DEF Throw, TypeInv, TypeOK
<1>8. CASE Ack(w)
  <2>1. worker' \in [Workers -> Run] /\ RunInv'
    BY <1>8, IdleType DEF Ack
  <2>2. job' \in Job
    BY <1>8 DEF Ack, TypeInv, TypeOK, Job
  <2>3. QED
    BY <1>8, <2>1, <2>2 DEF Ack, TypeInv, TypeOK, rowVars
<1>9. CASE Nack(w)
  <2>1. worker' \in [Workers -> Run] /\ RunInv'
    BY <1>9, IdleType DEF Nack
  <2>2. job' \in Job
    BY <1>9 DEF Nack, TypeInv, TypeOK, Job
  <2>3. handlers' \subseteq Nat \X {"read", "mark"}
    BY <1>9 DEF Nack, TypeInv, TypeOK
  <2>4. QED
    BY <1>9, <2>1, <2>2, <2>3 DEF Nack, TypeInv, TypeOK, rowVars
<1>10. CASE Crash(w)
  <2>1. worker' \in [Workers -> Run] /\ RunInv'
    BY <1>10, IdleType DEF Crash
  <2>2. QED
    BY <1>10, <2>1 DEF Crash, TypeInv, TypeOK, rowVars
<1>11. QED
  BY <1>1, <1>2, <1>3, <1>4, <1>5, <1>6, <1>7, <1>8, <1>9, <1>10 DEF WorkerStep

LEMMA HandlerType ==
  ASSUME TypeInv, NEW h \in handlers, HandlerStep(h)
  PROVE  TypeInv'
<1>1. h \in Nat \X {"read", "mark"}
  BY DEF TypeInv, TypeOK
<1>2. CASE HandlerRead(h)
  BY <1>1, <1>2 DEF HandlerRead, TypeInv, TypeOK, RunInv, rowVars
<1>3. CASE HandlerMark(h)
  <2>1. status' \in Statuses /\ result' \in Nat
    BY <1>3, MarkFailedType DEF HandlerMark, TypeInv
  <2>2. QED
    BY <1>3, <2>1 DEF HandlerMark, TypeInv, TypeOK, RunInv
<1>4. CASE HandlerLost(h)
  BY <1>4 DEF HandlerLost, TypeInv, TypeOK, RunInv, rowVars
<1>5. QED
  BY <1>2, <1>3, <1>4 DEF HandlerStep

LEMMA StallType ==
  ASSUME TypeInv, Stall
  PROVE  TypeInv'
<1>1. job' \in Job
  <2>1. job \in Job /\ (job.stalls < MaxStalls => job.stalls + 1 \in 0..MaxStalls)
    BY ConstantsOK DEF TypeInv, TypeOK, Job
  <2>2. job' \in {[state |-> "waiting", lock |-> None, stalls |-> job.stalls + 1],
                  [job EXCEPT !.state = "failed", !.lock = None]}
    BY DEF Stall
  <2>3. [job EXCEPT !.state = "failed", !.lock = None] \in Job
    BY <2>1 DEF Job
  <2>4. job.stalls < MaxStalls =>
          [state |-> "waiting", lock |-> None, stalls |-> job.stalls + 1] \in Job
    BY <2>1 DEF Job
  <2>5. QED
    BY <2>2, <2>3, <2>4 DEF Stall
<1>2. handlers' \subseteq Nat \X {"read", "mark"}
  BY DEF Stall, TypeInv, TypeOK
<1>3. QED
  BY <1>1, <1>2 DEF Stall, TypeInv, TypeOK, RunInv, rowVars

LEMMA TypeInvariant == Spec => []TypeInv
<1>1. Init => TypeInv
  BY ConstantsOK DEF Init, TypeInv, TypeOK, RunInv, Statuses, Job, NoJob, Run, Idle
<1>2. TypeInv /\ [Next]_vars => TypeInv'
  <2> SUFFICES ASSUME TypeInv, [Next]_vars PROVE TypeInv'
    OBVIOUS
  <2>1. CASE Sweep
    BY <2>1 DEF Sweep, TypeInv, TypeOK, RunInv, Statuses
  <2>2. CASE UNCHANGED vars
    BY <2>2 DEF vars, rowVars, TypeInv, TypeOK, RunInv
  <2>3. QED
    BY <2>1, <2>2, RequestType, WorkerStepType, HandlerType, StallType DEF Next
<1>3. QED
  BY <1>1, <1>2, PTL DEF Spec

(* Types hold for any number of requests, slots and stalls; in particular  *)
(* a run asks the provider at most twice (analyzeChangeWithRetry).         *)
THEOREM TypeCorrect == Spec => []TypeOK
<1>1. TypeInv => TypeOK
  BY DEF TypeInv
<1>2. QED
  BY <1>1, TypeInvariant, PTL

-----------------------------------------------------------------------------
LEMMA FailStep ==
  ASSUME MarkFailed
  PROVE  Row!Fail \/ UNCHANGED rowVars
BY DEF MarkFailed, Open, Row!Fail, rowVars

LEMMA RowStep ==
  ASSUME TypeInv, [Next]_vars
  PROVE  Row!Next \/ UNCHANGED rowVars
<1>1. ASSUME NEW r \in Requests, RequestStep(r)
      PROVE  Row!Next \/ UNCHANGED rowVars
  <2>1. CASE Create(r)
    BY <2>1 DEF Create, Row!Next, Row!Create, rowVars
  <2>2. CASE MarkOrphan(r)
    BY <2>2, FailStep DEF MarkOrphan, Row!Next
  <2>3. QED
    BY <1>1, <2>1, <2>2 DEF RequestStep, Find, Lookup, Remove, Add, EnqueueFails
<1>2. ASSUME NEW w \in Workers, WorkerStep(w)
      PROVE  Row!Next \/ UNCHANGED rowVars
  <2>1. CASE Refuse(w)
    BY <2>1, FailStep DEF Refuse, Row!Next
  <2>2. CASE MarkRunning(w)
    BY <2>2 DEF MarkRunning, Row!Next, Row!Start, rowVars
  <2>3. CASE Store(w)
    <3>1. worker[w].run \in Nat \ {0}
      BY <2>3 DEF Store, TypeInv, TypeOK, RunInv, Run
    <3>2. QED
      BY <2>3, <3>1 DEF Store, Open, Row!Next, Row!Complete, rowVars
  <2>4. CASE Throw(w)
    BY <2>4, FailStep DEF Throw, Row!Next
  <2>5. QED
    BY <1>2, <2>1, <2>2, <2>3, <2>4 DEF WorkerStep, Take, Read, Call, Ack, Nack, Crash
<1>3. ASSUME NEW h \in handlers, HandlerStep(h)
      PROVE  Row!Next \/ UNCHANGED rowVars
  <2>1. CASE HandlerMark(h)
    BY <2>1, FailStep DEF HandlerMark, Row!Next
  <2>2. QED
    BY <1>3, <2>1 DEF HandlerStep, HandlerRead, HandlerLost
<1>4. CASE Stall
  BY <1>4 DEF Stall
<1>5. CASE Sweep
  BY <1>5 DEF Sweep, Stuck, Row!Next, Row!Fail
<1>6. CASE UNCHANGED vars
  BY <1>6 DEF vars
<1>7. QED
  BY <1>1, <1>2, <1>3, <1>4, <1>5, <1>6 DEF Next

(* However requests, stragglers, late handlers and sweeps interleave, the  *)
(* row only moves forward and its terminal state is never rewritten.       *)
THEOREM RowImplemented == Spec => ImplementsRow
<1>1. Init => Row!Init
  BY DEF Init, Row!Init
<1>2. TypeInv /\ [Next]_vars => [Row!Next]_rowVars
  BY RowStep
<1>3. QED
  BY <1>1, <1>2, TypeInvariant, PTL DEF Spec, ImplementsRow, Row!Spec, rowVars

-----------------------------------------------------------------------------
LEMMA SoleRunStep ==
  ASSUME LocksHold, TypeInv, SoleRun, [Next]_vars
  PROVE  SoleRun'
<1>1. ASSUME NEW r \in Requests, RequestStep(r)
      PROVE  SoleRun'
  <2>1. worker' = worker
    BY <1>1 DEF RequestStep, Find, Create, Lookup, Remove, Add, EnqueueFails, MarkOrphan
  <2>2. job.state = "active" => job' = job
    BY <1>1 DEF RequestStep, Find, Create, Lookup, Remove, Add, EnqueueFails, MarkOrphan,
                JobAfterAdd
  <2>3. QED
    BY <2>1, <2>2 DEF SoleRun
<1>2. ASSUME NEW w \in Workers, WorkerStep(w)
      PROVE  SoleRun'
  <2>1. worker \in [Workers -> Run] /\ \A u \in Workers \ {w} : worker'[u] = worker[u]
    BY <1>2 DEF WorkerStep, Take, Read, Refuse, MarkRunning, Call, Store, Throw, Ack, Nack,
                Crash, TypeInv, TypeOK
  <2>2. CASE Take(w)
    <3>1. \A u \in Workers : worker[u].pc = "idle"
      BY <2>2 DEF Take, SoleRun
    <3>2. job'.state = "active" /\ job'.lock = w
      BY <2>2 DEF Take, TypeInv, TypeOK, Job
    <3>3. QED
      BY <2>1, <3>1, <3>2 DEF SoleRun
  <2>3. CASE Ack(w) \/ Nack(w) \/ Crash(w)
    <3>1. worker'[w].pc = "idle" /\ worker[w].pc # "idle"
      BY <2>1, <2>3 DEF Ack, Nack, Crash, Idle
    <3>2. \A u \in Workers : worker'[u].pc = "idle"
      BY <2>1, <3>1 DEF SoleRun
    <3>3. QED
      BY <3>2 DEF SoleRun
  <2>4. CASE Read(w) \/ Refuse(w) \/ MarkRunning(w) \/ Call(w) \/ Store(w) \/ Throw(w)
    <3>1. worker[w].pc # "idle" /\ job' = job
      BY <2>4 DEF Read, Refuse, MarkRunning, Call, Store, Throw
    <3>2. QED
      BY <2>1, <3>1 DEF SoleRun
  <2>5. QED
    BY <1>2, <2>2, <2>3, <2>4 DEF WorkerStep
<1>3. CASE Stall
  <2>1. job.state = "active" /\ worker[job.lock].pc = "idle" /\ worker' = worker
    BY <1>3 DEF Stall
  <2>2. \A u \in Workers : worker[u].pc = "idle"
    BY <2>1 DEF SoleRun
  <2>3. QED
    BY <2>1, <2>2 DEF SoleRun
<1>4. ASSUME NEW h \in handlers, HandlerStep(h)
      PROVE  SoleRun'
  BY <1>4 DEF HandlerStep, HandlerRead, HandlerMark, HandlerLost, SoleRun
<1>5. CASE Sweep \/ UNCHANGED vars
  BY <1>5 DEF Sweep, vars, SoleRun
<1>6. QED
  BY <1>1, <1>2, <1>3, <1>4, <1>5 DEF Next

LEMMA StillOpenStep ==
  ASSUME TypeInv, SoleRun, StillOpen, [Next]_vars
  PROVE  StillOpen'
<1>1. CASE \E w \in Workers : Store(w)
  <2>1. PICK w \in Workers : Store(w)
    BY <1>1
  <2>2. worker'[w].pc = "ack" /\ \A u \in Workers \ {w} : worker'[u] = worker[u]
    BY <2>1 DEF Store, TypeInv, TypeOK
  <2>3. \A u \in Workers \ {w} : worker[u].pc = "idle"
    BY <2>1 DEF Store, SoleRun
  <2>4. QED
    BY <2>2, <2>3 DEF StillOpen
<1>2. ASSUME ~\E w \in Workers : Store(w)
      PROVE  status' = "COMPLETED" => status = "COMPLETED"
  BY <1>2 DEF Next, RequestStep, WorkerStep, HandlerStep, Find, Create, Lookup, Remove, Add,
     EnqueueFails, MarkOrphan, Take, Read, Refuse, MarkRunning, Call, Throw, Ack, Nack, Crash,
     Stall, HandlerRead, HandlerMark, HandlerLost, Sweep, MarkFailed, vars, rowVars
<1>3. ASSUME NEW w \in Workers,
             worker'[w].pc \in {"prepare", "call", "store", "giveup"},
             worker[w].pc \notin {"prepare", "call", "store", "giveup"}
      PROVE  status' # "COMPLETED"
  <2>1. PICK v \in Workers : WorkerStep(v)
    BY <1>3 DEF Next, RequestStep, HandlerStep, Find, Create, Lookup, Remove, Add,
       EnqueueFails, MarkOrphan, Stall, HandlerRead, HandlerMark, HandlerLost, Sweep, vars
  <2>2. worker \in [Workers -> Run] /\ \A u \in Workers \ {v} : worker'[u] = worker[u]
    BY <2>1 DEF WorkerStep, Take, Read, Refuse, MarkRunning, Call, Store, Throw, Ack, Nack,
                Crash, TypeInv, TypeOK
  <2>3. v = w
    BY <1>3, <2>2
  <2>4. Read(w)
    <3>1. CASE Take(w) \/ Ack(w) \/ Nack(w) \/ Crash(w)
      <4>1. worker'[w].pc \in {"read", "idle"}
        BY <2>2, <3>1 DEF Take, Ack, Nack, Crash, Idle
      <4>2. QED
        BY <1>3, <4>1
    <3>2. CASE Refuse(w) \/ MarkRunning(w) \/ Call(w) \/ Store(w)
      BY <1>3, <3>2 DEF Refuse, MarkRunning, Call, Store
    <3>3. CASE Throw(w)
      BY <1>3, <2>2, <3>3 DEF Throw
    <3>4. QED
      BY <2>1, <2>3, <3>1, <3>2, <3>3 DEF WorkerStep
  <2>5. QED
    BY <1>3, <2>2, <2>4 DEF Read, Answered, rowVars
<1>4. QED
  BY <1>1, <1>2, <1>3 DEF StillOpen

(* While live runs keep their locks, no provider is paid for a change      *)
(* event that already has a completed analysis, whatever is redelivered,   *)
(* retried or requested twice.                                             *)
THEOREM PaidOnce ==
  ASSUME LocksHold
  PROVE  Spec => NoCallForCompleted
<1>1. Init => SoleRun /\ StillOpen
  BY DEF Init, SoleRun, StillOpen, Idle
<1>2. TypeInv /\ SoleRun /\ StillOpen /\ [Next]_vars => SoleRun' /\ StillOpen'
  BY SoleRunStep, StillOpenStep
<1>3. ASSUME TypeInv, StillOpen, [Next]_vars
      PROVE  [\A w \in Workers : worker'[w].tries > worker[w].tries
                => status # "COMPLETED"]_vars
  <2> SUFFICES ASSUME NEW w \in Workers, Next, worker'[w].tries > worker[w].tries
               PROVE  status # "COMPLETED"
    BY <1>3
  <2>1. worker \in [Workers -> Run] /\ worker[w].tries \in Nat
    BY <1>3 DEF TypeInv, TypeOK, Run
  <2>2. worker'[w] # worker[w]
    BY <2>1
  <2>3. PICK v \in Workers : WorkerStep(v)
    BY <2>2 DEF Next, RequestStep, HandlerStep, Find, Create, Lookup, Remove, Add,
       EnqueueFails, MarkOrphan, Stall, HandlerRead, HandlerMark, HandlerLost, Sweep
  <2>4. CASE Call(v)
    <3>1. v = w
      BY <2>1, <2>2, <2>4 DEF Call
    <3>2. QED
      BY <1>3, <2>4, <3>1 DEF Call, StillOpen
  <2>5. CASE ~Call(v)
    <3>1. v = w
      BY <2>1, <2>2, <2>3, <2>5 DEF WorkerStep, Take, Read, Refuse, MarkRunning, Store, Throw,
                                    Ack, Nack, Crash
    <3>2. CASE Take(w) \/ Ack(w) \/ Nack(w) \/ Crash(w)
      <4>1. worker'[w].tries = 0
        BY <2>1, <3>2 DEF Take, Ack, Nack, Crash, Idle
      <4>2. QED
        BY <2>1, <4>1
    <3>3. CASE Read(w) \/ Refuse(w) \/ MarkRunning(w) \/ Store(w) \/ Throw(w)
      <4>1. CASE Read(w)
        BY <2>1, <4>1 DEF Read, Run
      <4>2. CASE Refuse(w) \/ MarkRunning(w) \/ Store(w) \/ Throw(w)
        <5>1. \E pc \in {"call", "ack", "failing"} : worker' = [worker EXCEPT ![w].pc = pc]
          BY <4>2 DEF Refuse, MarkRunning, Store, Throw
        <5>2. worker'[w].tries = worker[w].tries
          BY <2>1, <5>1 DEF Run
        <5>3. QED
          BY <2>1, <5>2
      <4>3. QED
        BY <3>3, <4>1, <4>2
    <3>4. QED
      BY <2>3, <2>5, <3>1, <3>2, <3>3 DEF WorkerStep
  <2>6. QED
    BY <2>4, <2>5
<1>4. QED
  BY <1>1, <1>2, <1>3, TypeInvariant, PTL DEF Spec, NoCallForCompleted
=============================================================================
