----------------------------- MODULE JobsProofs -----------------------------
(***************************************************************************)
(* Proofs about the jobs beside the scans and the panels that follow them, *)
(* for any number of requests, reports, checks, slots, stalls, attempts,   *)
(* polls and faults.                                                       *)
(***************************************************************************)
EXTENDS MCJobs, AiAnalysisProofs, FiniteSetTheorems, TLAPS

-----------------------------------------------------------------------------
(* The digest slot.  Both properties rest on one fact: a live run either   *)
(* has lost its lock or is the latest and holds it (HolderIsLatest).  Hence *)
(* a run that may still store an answer has shown none (NotYetShown), and  *)
(* one that holds its lock can have been forestalled only by a run that    *)
(* had lost its own (DigestStillOpen).                                     *)
DigestTries ==
  \A w \in DigestSlots :
    /\ dWorker[w].pc \in {"read", "prepare", "bundle"} => dWorker[w].tries = 0
    /\ dWorker[w].pc = "call" => dWorker[w].tries <= 1

DigestTypeInv == DigestTypeOK /\ DigestTries

Live(w) == dWorker[w].pc # "idle"
Undecided == {"read", "prepare", "bundle", "call", "store", "giveup"}

(* No two slots have the same run; the lock names the latest.              *)
HolderIsLatest ==
  /\ dJob.state = "active" => dJob.lock \in DigestSlots
  /\ \A w \in DigestSlots : Live(w) =>
       /\ dWorker[w].run \in 1..dRuns
       /\ dWorker[w].run \in dLost \/ (dJob.state = "active" /\ dJob.lock = w /\ dWorker[w].run = dRuns)
       /\ \A u \in DigestSlots \ {w} : Live(u) => dWorker[u].run # dWorker[w].run

NotYetShown ==
  \A w \in DigestSlots : dWorker[w].pc \in Undecided => dWorker[w].run \notin dShown

(* A run that may still pay and holds its lock works on a row without an   *)
(* answer, or with that of a run that had lost its own.                    *)
Unanswered == dStatus # "COMPLETED" \/ dAnswer \in dLost
DigestStillOpen ==
  \A w \in DigestSlots :
    dWorker[w].pc \in Undecided \ {"read"} => dWorker[w].run \in dLost \/ Unanswered

RunsInv == DigestTypeInv /\ HolderIsLatest /\ NotYetShown /\ DigestStillOpen

-----------------------------------------------------------------------------
LEMMA DigestFailedType ==
  ASSUME DigestTypeOK, DigestFailed \/ UNCHANGED dRow
  PROVE  /\ dStatus' \in {"ABSENT", "PENDING", "RUNNING", "COMPLETED", "FAILED"}
         /\ dStatus' = "COMPLETED" => dStatus = "COMPLETED"
         /\ dShown' = dShown /\ dAnswer' = dAnswer
BY DEF DigestTypeOK, DigestFailed, DigestOpen, dRow

LEMMA GotoType ==
  ASSUME DigestTypeOK, NEW r \in Asks, NEW pc, DigestGoto(r, pc),
         pc \in {"idle", "create", "reset", "reread", "lookup", "remove", "add", "orphan", "done"}
  PROVE  dAsk' \in [Asks -> {"idle", "create", "reset", "reread", "lookup", "remove", "add", "orphan", "done"}]
BY DEF DigestTypeOK, DigestGoto

LEMMA JobType ==
  ASSUME NEW d \in QueueJob(DigestSlots)
  PROVE  /\ NoJob \in QueueJob(DigestSlots)
         /\ Added(d) \in QueueJob(DigestSlots)
         /\ \A w \in DigestSlots : TakenBy(d, w) \in QueueJob(DigestSlots)
         /\ \A w, outcome : outcome \in {"completed", "failed"} =>
              Reported(d, w, outcome) \in QueueJob(DigestSlots)
         /\ Stalled(d) \in QueueJob(DigestSlots)
<1>1. NoJob \in QueueJob(DigestSlots)
  BY DigestConstants DEF NoJob, QueueJob
<1>2. Added(d) \in QueueJob(DigestSlots)
  BY DEF Added, QueueJob
<1>3. \A w \in DigestSlots : TakenBy(d, w) \in QueueJob(DigestSlots)
  BY DEF TakenBy, QueueJob
<1>4. \A w, outcome : outcome \in {"completed", "failed"} =>
        Reported(d, w, outcome) \in QueueJob(DigestSlots)
  BY DEF Reported, QueueJob
<1>5. Stalled(d) \in QueueJob(DigestSlots)
  <2>1. d.stalls \in 0..MaxStalls /\ MaxStalls \in Nat
    BY DigestConstants DEF QueueJob
  <2>2. CASE d.stalls < MaxStalls
    <3>1. d.stalls + 1 \in 0..MaxStalls
      BY <2>1, <2>2
    <3>2. QED
      BY <2>2, <3>1 DEF Stalled, QueueJob
  <2>3. CASE ~(d.stalls < MaxStalls)
    BY <2>3 DEF Stalled, QueueJob
  <2>4. QED
    BY <2>2, <2>3
<1>6. QED
  BY <1>1, <1>2, <1>3, <1>4, <1>5

(* An add neither disturbs an active job nor makes one.                    *)
LEMMA AddKeepsActive ==
  ASSUME NEW d \in QueueJob(DigestSlots), "active" \in {d.state, Added(d).state}
  PROVE  Added(d) = d
BY DEF Added, QueueJob

LEMMA DigestIdleType == DigestIdle \in DigestRun /\ DigestIdle.pc = "idle"
BY DEF DigestIdle, DigestRun

LEMMA HandlersType ==
  ASSUME DigestTypeOK, NEW d
  PROVE  DigestHandlers(d) \subseteq Nat \X {"read", "mark"}
BY DEF DigestTypeOK, DigestHandlers
-----------------------------------------------------------------------------
(* A request moves neither a run nor an active job, and completes nothing. *)
LEMMA AskStep ==
  ASSUME RunsInv, NEW r \in Asks, DigestAsk(r)
  PROVE  /\ DigestTypeOK'
         /\ "active" \in {dJob.state, dJob'.state} => dJob' = dJob
         /\ dStatus' = "COMPLETED" => dStatus = "COMPLETED" /\ dAnswer' = dAnswer
         /\ UNCHANGED <<dShown, dRuns, dWorker, dLost>>
<1> USE DEF RunsInv, DigestTypeInv
<1>1. CASE DigestFind(r)
  <2>1. DigestGoto(r, dAsk'[r]) /\ dAsk'[r] \in {"create", "reset", "lookup", "done"}
    BY <1>1 DEF DigestFind, DigestGoto, AfterSlot, DigestTypeOK
  <2>2. QED
    BY <1>1, <2>1, GotoType DEF DigestFind, DigestTypeOK, dRow
<1>2. CASE DigestCreate(r)
  <2>1. DigestGoto(r, dAsk'[r]) /\ dAsk'[r] \in {"lookup", "done"}
    BY <1>2 DEF DigestCreate, DigestGoto, AfterSlot, DigestTypeOK
  <2>2. QED
    BY <1>2, <2>1, GotoType DEF DigestCreate, DigestTypeOK
<1>3. CASE DigestReset(r)
  BY <1>3, GotoType DEF DigestReset, DigestTypeOK
<1>4. CASE DigestReread(r)
  BY <1>4, GotoType DEF DigestReread, AfterSlot, DigestTypeOK, dRow
<1>5. CASE DigestLookup(r)
  BY <1>5, GotoType DEF DigestLookup, DigestTypeOK, dRow
<1>6. CASE DigestRemove(r)
  <2>1. CASE dJob.state = "active"
    BY <1>6, <2>1, GotoType DEF DigestRemove, Removed, DigestTypeOK, dRow
  <2>2. CASE dJob.state # "active"
    BY <1>6, <2>2, GotoType, JobType DEF DigestRemove, Removed, NoJob, DigestTypeOK, dRow
  <2>3. QED
    BY <2>1, <2>2
<1>7. CASE DigestAdd(r)
  BY <1>7, GotoType, JobType, AddKeepsActive DEF DigestAdd, DigestTypeOK, dRow
<1>8. CASE DigestEnqueueFails(r)
  <2>1. dJob' = dJob \/ dJob' = Added(dJob)
    BY <1>8 DEF DigestEnqueueFails
  <2>2. QED
    BY <1>8, <2>1, GotoType, JobType, AddKeepsActive DEF DigestEnqueueFails, DigestTypeOK, dRow
<1>9. CASE DigestOrphan(r)
  BY <1>9, GotoType, DigestFailedType DEF DigestOrphan, DigestTypeOK
<1>10. QED
  BY <1>1, <1>2, <1>3, <1>4, <1>5, <1>6, <1>7, <1>8, <1>9 DEF DigestAsk

(* What a step of a run w to r keeps: the run is its own, or starts while  *)
(* no other is live.                                                       *)
LEMMA RunMoves ==
  ASSUME RunsInv, NEW w \in DigestSlots, NEW r \in DigestRun,
         dWorker' = [dWorker EXCEPT ![w] = r],
         r.pc \in {"read", "prepare", "bundle"} => r.tries = 0,
         r.pc = "call" => r.tries <= 1
  PROVE  /\ dWorker' \in [DigestSlots -> DigestRun] /\ DigestTries'
         /\ dWorker'[w] = r
         /\ \A u \in DigestSlots \ {w} : dWorker'[u] = dWorker[u]
<1>1. dWorker'[w] = r /\ \A u \in DigestSlots \ {w} : dWorker'[u] = dWorker[u]
  BY DEF RunsInv, DigestTypeInv, DigestTypeOK
<1>2. QED
  BY <1>1 DEF RunsInv, DigestTypeInv, DigestTypeOK, DigestTries

(* A live run keeps its lock and its number; only its own answer changes   *)
(* what is shown.                                                          *)
OwnRowOnly(w) ==
  /\ dShown' \subseteq dShown \cup {dWorker[w].run}
  /\ dStatus' = "COMPLETED" => (dStatus = "COMPLETED" /\ dAnswer' = dAnswer) \/ dAnswer' = dWorker[w].run

LEMMA LiveMove ==
  ASSUME RunsInv, NEW w \in DigestSlots, Live(w),
         NEW r \in DigestRun, r.pc # "idle", r.run = dWorker[w].run,
         r.pc \in {"read", "prepare", "bundle"} => r.tries = 0,
         r.pc = "call" => r.tries <= 1,
         r.pc \in Undecided => dWorker[w].pc \in Undecided /\ dShown' = dShown,
         r.pc \in Undecided \ {"read"} => dWorker[w].run \in dLost \/ Unanswered',
         OwnRowOnly(w),
         dWorker' = [dWorker EXCEPT ![w] = r],
         UNCHANGED <<dJob, dRuns, dLost>>
  PROVE  /\ dWorker' \in [DigestSlots -> DigestRun] /\ DigestTries' /\ HolderIsLatest' /\ NotYetShown'
         /\ DigestStillOpen'
<1>1. /\ dWorker' \in [DigestSlots -> DigestRun] /\ DigestTries'
      /\ dWorker'[w] = r
      /\ \A u \in DigestSlots \ {w} : dWorker'[u] = dWorker[u]
  BY RunMoves
<1>2. \A u \in DigestSlots : dWorker'[u].run = dWorker[u].run /\ (Live(u)' <=> Live(u))
  BY <1>1 DEF Live
<1>3. HolderIsLatest'
  BY <1>2 DEF RunsInv, HolderIsLatest
<1>4. \A u \in DigestSlots \ {w} : Live(u) => dWorker[u].run # dWorker[w].run
  BY DEF RunsInv, HolderIsLatest
<1>5. NotYetShown'
  <2>1. ASSUME NEW u \in DigestSlots \ {w}, dWorker'[u].pc \in Undecided
        PROVE  dWorker'[u].run \notin dShown'
    <3>1. dWorker[u].run \notin dShown /\ Live(u)
      BY <1>1, <2>1 DEF RunsInv, NotYetShown, Undecided, Live
    <3>2. QED
      BY <1>1, <1>4, <2>1, <3>1 DEF OwnRowOnly
  <2>2. dWorker'[w].pc \in Undecided => dWorker'[w].run \notin dShown'
    BY <1>1 DEF RunsInv, NotYetShown
  <2>3. QED
    BY <2>1, <2>2 DEF NotYetShown
<1>6. DigestStillOpen'
  <2>1. ASSUME NEW u \in DigestSlots \ {w}, dWorker'[u].pc \in Undecided \ {"read"}, dWorker'[u].run \notin dLost'
        PROVE  Unanswered'
    <3>1. Unanswered /\ Live(u) /\ dWorker[u].run \notin dLost
      BY <1>1, <2>1 DEF RunsInv, DigestStillOpen, Undecided, Live
    <3>2. dWorker[w].run \in dLost
      BY <3>1 DEF RunsInv, HolderIsLatest
    <3>3. QED
      BY <3>1, <3>2 DEF Unanswered, OwnRowOnly
  <2>2. dWorker'[w].pc \in Undecided \ {"read"} => dWorker'[w].run \in dLost' \/ Unanswered'
    BY <1>1
  <2>3. QED
    BY <2>1, <2>2 DEF DigestStillOpen
<1>7. QED
  BY <1>1, <1>3, <1>5, <1>6

(* ... so does one that only moves to pc.                                  *)
LEMMA PcMove ==
  ASSUME RunsInv, NEW w \in DigestSlots, Live(w),
         NEW pc \in {"prepare", "bundle", "call", "store", "giveup", "ack", "failing"},
         pc \in {"prepare", "bundle", "call"} => dWorker[w].tries = 0,
         pc \in Undecided => dWorker[w].pc \in Undecided /\ dShown' = dShown,
         pc \in Undecided => dWorker[w].run \in dLost \/ Unanswered',
         OwnRowOnly(w),
         dWorker' = [dWorker EXCEPT ![w].pc = pc],
         UNCHANGED <<dJob, dRuns, dLost>>
  PROVE  /\ dWorker' \in [DigestSlots -> DigestRun] /\ DigestTries' /\ HolderIsLatest' /\ NotYetShown'
         /\ DigestStillOpen'
<1> DEFINE r == [dWorker[w] EXCEPT !.pc = pc]
<1>1. dWorker[w] \in DigestRun
  BY DEF RunsInv, DigestTypeInv, DigestTypeOK
<1>2. r \in DigestRun /\ r.pc = pc /\ r.run = dWorker[w].run /\ r.tries = dWorker[w].tries
  BY <1>1 DEF DigestRun
<1>3. dWorker' = [dWorker EXCEPT ![w] = r]
  OBVIOUS
<1> HIDE DEF r
<1>4. /\ r.pc # "idle"
      /\ r.pc \in {"read", "prepare", "bundle"} => r.tries = 0
      /\ r.pc = "call" => r.tries <= 1
  BY <1>2
<1>5. /\ r.pc \in Undecided => dWorker[w].pc \in Undecided /\ dShown' = dShown
      /\ r.pc \in Undecided \ {"read"} => dWorker[w].run \in dLost \/ Unanswered'
  BY <1>2
<1>6. QED
  BY <1>2, <1>3, <1>4, <1>5, LiveMove

(* A slot that falls idle leaves no run behind.                            *)
LEMMA IdleMove ==
  ASSUME RunsInv, NEW w \in DigestSlots, Live(w),
         \A u \in DigestSlots \ {w} : Live(u) => dWorker[u].run \in dLost \/ dJob' = dJob,
         dJob'.state = "active" => dJob' = dJob,
         dWorker' = [dWorker EXCEPT ![w] = DigestIdle], UNCHANGED <<dRow, dRuns, dLost>>
  PROVE  /\ dWorker' \in [DigestSlots -> DigestRun] /\ DigestTries' /\ HolderIsLatest' /\ NotYetShown'
         /\ DigestStillOpen'
<1>1. /\ dWorker' \in [DigestSlots -> DigestRun] /\ DigestTries'
      /\ dWorker'[w] = DigestIdle
      /\ \A u \in DigestSlots \ {w} : dWorker'[u] = dWorker[u]
  BY DigestIdleType, RunMoves
<1>2. \A u \in DigestSlots : Live(u)' => u # w /\ Live(u) /\ dWorker'[u] = dWorker[u]
  BY <1>1, DigestIdleType DEF Live
<1>3. HolderIsLatest'
  BY <1>2 DEF RunsInv, HolderIsLatest
<1>4. NotYetShown' /\ DigestStillOpen'
  BY <1>1, DigestIdleType DEF RunsInv, NotYetShown, DigestStillOpen, Undecided, Unanswered, dRow
<1>5. QED
  BY <1>1, <1>3, <1>4

LEMMA WorkStep ==
  ASSUME RunsInv, NEW w \in DigestSlots, DigestWork(w)
  PROVE  RunsInv'
<1> USE DEF RunsInv, DigestTypeInv
<1>0. /\ dWorker[w] \in DigestRun /\ dRuns \in Nat /\ dShown \subseteq 1..dRuns /\ dLost \subseteq 1..dRuns
      /\ Live(w) => dWorker[w].run \in 1..dRuns
  BY DEF DigestTypeOK, HolderIsLatest
<1>1. CASE DigestTake(w)
  <2> DEFINE r == [pc |-> "read", run |-> dRuns + 1, tries |-> 0]
  <2>1. r \in DigestRun /\ r.pc = "read" /\ r.run = dRuns + 1 /\ r.tries = 0
    BY <1>0 DEF DigestRun
  <2>2. dWorker' = [dWorker EXCEPT ![w] = r]
    BY <1>1 DEF DigestTake
  <2> HIDE DEF r
  <2>3. /\ dWorker' \in [DigestSlots -> DigestRun] /\ DigestTries'
        /\ dWorker'[w] = r
        /\ \A u \in DigestSlots \ {w} : dWorker'[u] = dWorker[u]
    BY <2>1, <2>2, RunMoves
  <2>4. \A u \in DigestSlots : Live(u) => dWorker[u].run \in dLost /\ dWorker[u].run \in 1..dRuns
    BY <1>1 DEF DigestTake, HolderIsLatest
  <2>5. dJob' \in QueueJob(DigestSlots) /\ dJob'.state = "active" /\ dJob'.lock = w
    <3>1. dJob' = TakenBy(dJob, w) /\ dJob \in QueueJob(DigestSlots)
      BY <1>1 DEF DigestTake, DigestTypeOK
    <3>2. TakenBy(dJob, w) \in QueueJob(DigestSlots)
      BY <3>1, JobType
    <3>3. QED
      BY <3>1, <3>2 DEF TakenBy, QueueJob
  <2>6. dRuns' = dRuns + 1 /\ UNCHANGED <<dStatus, dAnswer, dShown, dAsk, dHandlers, dLost>>
    BY <1>1 DEF DigestTake, dRow
  <2>7. dRuns + 1 \in Nat /\ \A n \in 1..dRuns : n \in 1..(dRuns + 1) /\ n # dRuns + 1
    BY <1>0
  <2>8. DigestTypeOK'
    BY <1>0, <2>3, <2>5, <2>6, <2>7 DEF DigestTypeOK
  <2>9. HolderIsLatest'
    <3>1. ASSUME NEW u \in DigestSlots \ {w}, Live(u)'
          PROVE  /\ dWorker'[u].run \in 1..dRuns' /\ dWorker'[u].run \in dLost' /\ dWorker'[u].run # dRuns + 1
                 /\ Live(u) /\ dWorker'[u] = dWorker[u]
      BY <2>3, <2>4, <2>6, <2>7, <3>1 DEF Live
    <3>2. dWorker'[w].run = dRuns + 1 /\ dRuns + 1 \in 1..dRuns'
      BY <1>0, <2>1, <2>3, <2>6
    <3>3. ASSUME NEW u \in DigestSlots, NEW v \in DigestSlots \ {u}, Live(u)', Live(v)'
          PROVE  dWorker'[v].run # dWorker'[u].run
      BY <3>1, <3>2, <3>3 DEF HolderIsLatest
    <3>4. QED
      BY <2>5, <2>6, <3>1, <3>2, <3>3 DEF HolderIsLatest
  <2>10. NotYetShown'
    <3>1. dRuns + 1 \notin dShown
      BY <1>0, <2>7
    <3>2. QED
      BY <2>1, <2>3, <2>6, <3>1 DEF NotYetShown
  <2>11. DigestStillOpen'
    BY <2>1, <2>3, <2>6 DEF DigestStillOpen, Unanswered
  <2>12. QED
    BY <2>3, <2>8, <2>9, <2>10, <2>11
<1>2. CASE DigestRead(w)
  <2>1. dWorker[w].pc = "read" /\ dWorker[w].tries = 0 /\ dWorker' = [dWorker EXCEPT ![w].pc = AfterRead]
    BY <1>2 DEF DigestRead, DigestTries
  <2>2. AfterRead \in {"ack", "prepare"} /\ (AfterRead = "prepare" => dStatus # "COMPLETED")
    BY DEF AfterRead
  <2>3. UNCHANGED <<dRow, dAsk, dJob, dRuns, dHandlers, dLost>>
    BY <1>2 DEF DigestRead
  <2>4. OwnRowOnly(w) /\ Live(w) /\ dShown' = dShown /\ dWorker[w].pc \in Undecided
    BY <2>1, <2>3 DEF OwnRowOnly, Live, Undecided, dRow
  <2>5. AfterRead \in Undecided => Unanswered'
    BY <2>2, <2>3 DEF Unanswered, Undecided, dRow
  <2>6. dWorker' \in [DigestSlots -> DigestRun] /\ DigestTries' /\ HolderIsLatest' /\ NotYetShown' /\ DigestStillOpen'
    BY <2>1, <2>2, <2>3, <2>4, <2>5, PcMove
  <2>7. QED
    BY <2>3, <2>6 DEF DigestTypeOK, dRow
<1>3. CASE DigestStart(w)
  <2>1. dWorker[w].pc = "prepare" /\ dWorker[w].tries = 0 /\ dWorker' = [dWorker EXCEPT ![w].pc = "bundle"]
    BY <1>3 DEF DigestStart, DigestTries
  <2>2. /\ dStatus' \in {"ABSENT", "PENDING", "RUNNING", "COMPLETED", "FAILED"}
        /\ dStatus' = "COMPLETED" => dStatus = "COMPLETED"
        /\ UNCHANGED <<dAnswer, dShown, dAsk, dJob, dRuns, dHandlers, dLost>>
    BY <1>3, <2>1 DEF DigestStart, DigestTypeOK
  <2>3. OwnRowOnly(w) /\ Live(w) /\ dWorker[w].pc \in Undecided
    BY <2>1, <2>2 DEF OwnRowOnly, Live, Undecided
  <2>4. dWorker[w].run \in dLost \/ Unanswered'
    BY <2>1, <2>2 DEF DigestStillOpen, Undecided, Unanswered
  <2>5. dWorker' \in [DigestSlots -> DigestRun] /\ DigestTries' /\ HolderIsLatest' /\ NotYetShown' /\ DigestStillOpen'
    BY <2>1, <2>2, <2>3, <2>4, PcMove
  <2>6. QED
    BY <2>2, <2>5 DEF DigestTypeOK
<1>4. CASE DigestBundle(w)
  <2>1. PICK pc \in {"call", "store"} : dWorker' = [dWorker EXCEPT ![w].pc = pc]
    BY <1>4 DEF DigestBundle
  <2>2. /\ dWorker[w].pc = "bundle" /\ dWorker[w].tries = 0
        /\ UNCHANGED <<dRow, dAsk, dJob, dRuns, dHandlers, dLost>>
    BY <1>4 DEF DigestBundle, DigestTries
  <2>3. OwnRowOnly(w) /\ Live(w) /\ dWorker[w].pc \in Undecided /\ dShown' = dShown
    BY <2>2 DEF OwnRowOnly, Live, Undecided, dRow
  <2>4. dWorker[w].run \in dLost \/ Unanswered'
    BY <2>2 DEF DigestStillOpen, Undecided, Unanswered, dRow
  <2>5. dWorker' \in [DigestSlots -> DigestRun] /\ DigestTries' /\ HolderIsLatest' /\ NotYetShown' /\ DigestStillOpen'
    BY <2>1, <2>2, <2>3, <2>4, PcMove
  <2>6. QED
    BY <2>2, <2>5 DEF DigestTypeOK, dRow
<1>5. CASE DigestCall(w)
  <2>1. PICK pc \in {"store", "giveup"} \cup (IF DigestMayRetry(w) THEN {"call"} ELSE {}) :
          dWorker' = [dWorker EXCEPT ![w].pc = pc, ![w].tries = @ + 1]
    BY <1>5 DEF DigestCall
  <2>2. dWorker[w].pc = "call" /\ UNCHANGED <<dRow, dAsk, dJob, dRuns, dHandlers, dLost>>
    BY <1>5 DEF DigestCall
  <2>3. dWorker[w].tries + 1 \in 0..2 /\ (pc = "call" => dWorker[w].tries + 1 <= 1)
    BY <1>0, <2>1, <2>2 DEF DigestMayRetry, DigestTries, DigestRun
  <2> DEFINE r == [dWorker[w] EXCEPT !.pc = pc, !.tries = @ + 1]
  <2>4. pc \in {"store", "giveup", "call"}
    BY <2>1
  <2>5. r \in DigestRun /\ r.pc = pc /\ r.run = dWorker[w].run /\ r.tries = dWorker[w].tries + 1
    BY <1>0, <2>3, <2>4 DEF DigestRun
  <2>6. dWorker' = [dWorker EXCEPT ![w] = r]
    BY <2>1
  <2>7. OwnRowOnly(w) /\ Live(w) /\ dWorker[w].pc \in Undecided /\ dShown' = dShown
    BY <2>2 DEF OwnRowOnly, Live, Undecided, dRow
  <2>8. dWorker[w].run \in dLost \/ Unanswered'
    BY <2>2 DEF DigestStillOpen, Undecided, Unanswered, dRow
  <2> HIDE DEF r
  <2>9. /\ r.pc # "idle"
        /\ r.pc \in {"read", "prepare", "bundle"} => r.tries = 0
        /\ r.pc = "call" => r.tries <= 1
    BY <2>3, <2>4, <2>5
  <2>10. dWorker' \in [DigestSlots -> DigestRun] /\ DigestTries' /\ HolderIsLatest' /\ NotYetShown' /\ DigestStillOpen'
    BY <2>2, <2>5, <2>6, <2>7, <2>8, <2>9, LiveMove
  <2>11. QED
    BY <2>2, <2>10 DEF DigestTypeOK, dRow
<1>6. CASE DigestStore(w)
  <2>1. /\ dWorker[w].pc = "store" /\ dWorker' = [dWorker EXCEPT ![w].pc = "ack"]
        /\ UNCHANGED <<dAsk, dJob, dRuns, dHandlers, dLost>> /\ Live(w)
    BY <1>6 DEF DigestStore, Live
  <2>2. OwnRowOnly(w)
    BY <1>6 DEF DigestStore, DigestCompleted, dRow, OwnRowOnly
  <2>3. /\ dStatus' \in {"ABSENT", "PENDING", "RUNNING", "COMPLETED", "FAILED"}
        /\ dAnswer' \in Nat /\ dShown' \subseteq 1..dRuns
    BY <1>0, <1>6, <2>1 DEF DigestStore, DigestCompleted, DigestTypeOK, dRow
  <2>4. dWorker' \in [DigestSlots -> DigestRun] /\ DigestTries' /\ HolderIsLatest' /\ NotYetShown' /\ DigestStillOpen'
    BY <2>1, <2>2, PcMove DEF Undecided
  <2>5. QED
    BY <2>1, <2>3, <2>4 DEF DigestTypeOK
<1>7. CASE DigestThrow(w)
  <2>1. PICK pc \in {"ack", "failing"} : dWorker' = [dWorker EXCEPT ![w].pc = pc]
    BY <1>7 DEF DigestThrow
  <2>2. Live(w) /\ (DigestFailed \/ UNCHANGED dRow) /\ UNCHANGED <<dAsk, dJob, dRuns, dHandlers, dLost>>
    BY <1>7 DEF DigestThrow, Live
  <2>3. /\ dStatus' \in {"ABSENT", "PENDING", "RUNNING", "COMPLETED", "FAILED"}
        /\ dStatus' = "COMPLETED" => dStatus = "COMPLETED"
        /\ dShown' = dShown /\ dAnswer' = dAnswer
    BY <2>2, DigestFailedType
  <2>4. OwnRowOnly(w)
    BY <2>3 DEF OwnRowOnly
  <2>5. dWorker' \in [DigestSlots -> DigestRun] /\ DigestTries' /\ HolderIsLatest' /\ NotYetShown' /\ DigestStillOpen'
    BY <2>1, <2>2, <2>4, PcMove DEF Undecided
  <2>6. QED
    BY <2>2, <2>3, <2>5 DEF DigestTypeOK
<1>8. CASE DigestReport(w)
  <2>1. /\ Live(w) /\ dWorker' = [dWorker EXCEPT ![w] = DigestIdle]
        /\ dHandlers' = DigestHandlers(dJob') /\ UNCHANGED <<dRow, dAsk, dRuns, dLost>>
    BY <1>8 DEF DigestReport, Live
  <2>2. dJob' \in QueueJob(DigestSlots)
    BY <1>8, JobType DEF DigestReport, DigestTypeOK
  <2>3. (dJob.lock # w => dJob' = dJob) /\ (dJob'.state = "active" => dJob' = dJob)
    BY <1>8 DEF DigestReport, Reported, DigestTypeOK, QueueJob
  <2>4. \A u \in DigestSlots \ {w} : Live(u) => dWorker[u].run \in dLost \/ dJob' = dJob
    BY <2>3 DEF HolderIsLatest
  <2>5. QED
    BY <2>1, <2>2, <2>4, <2>3, IdleMove, HandlersType DEF DigestTypeOK, dRow
<1>9. CASE DigestCrash(w)
  <2>1. Live(w) /\ dJob' = dJob
    BY <1>9 DEF DigestCrash, Live
  <2>2. QED
    BY <1>9, <2>1, IdleMove DEF DigestCrash, DigestTypeOK, dRow
<1>10. QED
  BY <1>1, <1>2, <1>3, <1>4, <1>5, <1>6, <1>7, <1>8, <1>9 DEF DigestWork

(* A stall makes the holder a run that lost its lock; a handler and a      *)
(* sweep store no answer.                                                  *)
LEMMA OtherStep ==
  ASSUME RunsInv, DigestStall \/ (\E h \in dHandlers : DigestHandle(h)) \/ DigestSweep
  PROVE  RunsInv'
<1> USE DEF RunsInv, DigestTypeInv
<1>1. CASE DigestStall
  <2>1. dJob' \in QueueJob(DigestSlots) /\ dHandlers' \subseteq Nat \X {"read", "mark"}
    BY <1>1, JobType, HandlersType DEF DigestStall, DigestTypeOK
  <2>2. dLost \subseteq dLost' /\ UNCHANGED <<dRow, dAsk, dRuns, dWorker>> /\ dJob.state = "active"
    BY <1>1 DEF DigestStall
  <2>3. \A w \in DigestSlots : dJob.lock = w /\ Live(w) => dLost' = dLost \cup {dWorker[w].run}
    BY <1>1 DEF DigestStall, Live
  <2>4. dLost' \subseteq 1..dRuns
    <3>1. dJob.lock \in DigestSlots /\ dLost \subseteq 1..dRuns
      BY <2>2 DEF DigestTypeOK, HolderIsLatest
    <3>2. Live(dJob.lock) => dWorker[dJob.lock].run \in 1..dRuns
      BY <3>1 DEF HolderIsLatest
    <3>3. dLost' \subseteq dLost \cup (IF Live(dJob.lock) THEN {dWorker[dJob.lock].run} ELSE {})
      BY <1>1 DEF DigestStall, Live
    <3>4. QED
      BY <3>1, <3>2, <3>3
  <2>5. HolderIsLatest'
    <3>1. \A w \in DigestSlots : Live(w)' <=> Live(w)
      BY <2>2 DEF Live
    <3>2. \A w \in DigestSlots : Live(w) => dWorker[w].run \in dLost'
      BY <2>2, <2>3 DEF HolderIsLatest
    <3>3. dJob'.state # "active"
      BY <1>1 DEF DigestStall, Stalled
    <3>4. QED
      BY <2>2, <3>1, <3>2, <3>3 DEF HolderIsLatest
  <2>6. NotYetShown' /\ DigestTries'
    BY <2>2 DEF NotYetShown, DigestTries, dRow
  <2>7. DigestStillOpen'
    BY <2>2 DEF DigestStillOpen, Unanswered, dRow
  <2>8. QED
    BY <2>1, <2>2, <2>4, <2>5, <2>6, <2>7 DEF DigestTypeOK, dRow
<1>2. ASSUME NEW h \in dHandlers, DigestHandle(h)
      PROVE  RunsInv'
  <2>1. (DigestFailed \/ UNCHANGED dRow) /\ UNCHANGED <<dAsk, dJob, dRuns, dWorker, dLost>>
    BY <1>2 DEF DigestHandle
  <2>2. dHandlers' \subseteq Nat \X {"read", "mark"}
    BY <1>2 DEF DigestHandle, DigestTypeOK
  <2>3. /\ dStatus' \in {"ABSENT", "PENDING", "RUNNING", "COMPLETED", "FAILED"}
        /\ dStatus' = "COMPLETED" => dStatus = "COMPLETED"
        /\ dShown' = dShown /\ dAnswer' = dAnswer
    BY <2>1, DigestFailedType
  <2>4. DigestTypeOK' /\ DigestTries'
    BY <2>1, <2>2, <2>3 DEF DigestTypeOK, DigestTries
  <2>5. HolderIsLatest' /\ NotYetShown'
    BY <2>1, <2>3 DEF HolderIsLatest, NotYetShown, Live
  <2>6. DigestStillOpen'
    BY <2>1, <2>3 DEF DigestStillOpen, Unanswered
  <2>7. QED
    BY <2>4, <2>5, <2>6
<1>3. CASE DigestSweep
  BY <1>3 DEF DigestSweep, DigestTypeOK, HolderIsLatest, NotYetShown, DigestStillOpen, DigestTries, Unanswered, Live
<1>4. QED
  BY <1>1, <1>2, <1>3

LEMMA RunsInvariant == DigestSpec => []RunsInv
<1>1. DigestInit => RunsInv
  <2> SUFFICES ASSUME DigestInit PROVE RunsInv
    OBVIOUS
  <2>1. \A w \in DigestSlots : dWorker[w] = DigestIdle
    BY DEF DigestInit
  <2>2. DigestTypeOK
    BY DigestIdleType, DigestConstants DEF DigestInit, DigestTypeOK, NoJob, QueueJob
  <2>3. QED
    BY <2>1, <2>2, DigestIdleType
      DEF DigestInit, NoJob, RunsInv, DigestTypeInv, DigestTries, HolderIsLatest, NotYetShown,
          DigestStillOpen, Undecided, Live
<1>2. RunsInv /\ [DigestNext]_dVars => RunsInv'
  <2> SUFFICES ASSUME RunsInv, [DigestNext]_dVars PROVE RunsInv'
    OBVIOUS
  <2>1. ASSUME NEW r \in Asks, DigestAsk(r) PROVE RunsInv'
    <3>1. /\ DigestTypeOK'
          /\ "active" \in {dJob.state, dJob'.state} => dJob' = dJob
          /\ dStatus' = "COMPLETED" => dStatus = "COMPLETED" /\ dAnswer' = dAnswer
          /\ UNCHANGED <<dShown, dRuns, dWorker, dLost>>
      BY <2>1, AskStep
    <3>2. QED
      BY <3>1 DEF RunsInv, DigestTypeInv, DigestTries, HolderIsLatest, NotYetShown, DigestStillOpen, Unanswered, Live
  <2>2. CASE UNCHANGED dVars
    BY <2>2
      DEF dVars, dRow, RunsInv, DigestTypeInv, DigestTypeOK, DigestTries, HolderIsLatest, NotYetShown,
          DigestStillOpen, Unanswered, Live
  <2>3. QED
    BY <2>1, <2>2, WorkStep, OtherStep DEF DigestNext
<1>3. QED
  BY <1>1, <1>2, PTL DEF DigestSpec
-----------------------------------------------------------------------------
(* Whatever requests, runs, handlers and sweeps do, every variable of a    *)
(* slot keeps its type, and no run asks the provider more than twice.      *)
THEOREM DigestTypeCorrect == DigestSpec => []DigestTypeOK
<1>1. RunsInv => DigestTypeOK
  BY DEF RunsInv, DigestTypeInv
<1>2. QED
  BY <1>1, RunsInvariant, PTL

(* Whatever deliveries, crashes, lost locks, sweeps and refreshes do, no   *)
(* call is paid for while the row holds an answer, unless the run that     *)
(* pays or the one that answered had lost its lock.                        *)
THEOREM DigestPaidCorrect == DigestSpec => DigestPaidOnce
<1>1. ASSUME RunsInv, [DigestNext]_dVars,
             NEW w \in DigestSlots, dWorker'[w].tries > dWorker[w].tries
      PROVE  dWorker[w].run \in dLost \/ Unanswered
  <2>1. dWorker[w] \in DigestRun /\ \A u \in DigestSlots : u # w => dWorker[u] \in DigestRun
    BY <1>1 DEF RunsInv, DigestTypeInv, DigestTypeOK
  <2>2. dWorker' # dWorker
    BY <1>1, <2>1 DEF DigestRun
  <2>3. \E u \in DigestSlots : DigestWork(u)
    BY <1>1, <2>2, AskStep DEF DigestNext, DigestStall, DigestHandle, DigestSweep, dVars
  <2>4. PICK u \in DigestSlots : DigestWork(u)
    BY <2>3
  <2>5. CASE DigestCall(u)
    <3>1. u = w
      BY <1>1, <2>1, <2>5 DEF DigestCall, DigestRun, RunsInv, DigestTypeInv, DigestTypeOK
    <3>2. QED
      BY <1>1, <2>5, <3>1 DEF DigestCall, RunsInv, DigestStillOpen, Undecided
  <2>6. CASE ~DigestCall(u)
    <3>1. dWorker'[w].tries \in {0, dWorker[w].tries}
      BY <1>1, <2>1, <2>4, <2>6
        DEF DigestWork, DigestTake, DigestRead, DigestStart, DigestBundle, DigestStore, DigestThrow,
            DigestReport, DigestCrash, DigestIdle, RunsInv, DigestTypeInv, DigestTypeOK, DigestRun
    <3>2. QED
      BY <1>1, <2>1, <3>1 DEF DigestRun
  <2>7. QED
    BY <2>5, <2>6
<1>2. RunsInv /\ [DigestNext]_dVars =>
        [\A w \in DigestSlots :
           dWorker'[w].tries > dWorker[w].tries =>
             dStatus # "COMPLETED" \/ dAnswer \in dLost \/ dWorker[w].run \in dLost]_dVars
  BY <1>1 DEF Unanswered
<1>3. QED
  BY <1>2, RunsInvariant, PTL DEF DigestSpec, DigestPaidOnce

-----------------------------------------------------------------------------
(* What a step may do to the row, and what readers see of it.              *)
Opens == ~DigestOpen /\ dStatus' = "PENDING" /\ UNCHANGED <<dShown, dLost>>
Answers ==
  /\ DigestOpen /\ dStatus' = "COMPLETED"
  /\ dAnswer' \notin dShown \cup {0}
  /\ (\A earlier \in dShown : earlier < dAnswer') \/ dAnswer' \in dLost
  /\ dShown' = dShown \cup {dAnswer'} /\ dLost' = dLost
Fails == DigestOpen /\ dStatus' = "FAILED" /\ UNCHANGED <<dShown, dLost>>
Starts == dStatus = "PENDING" /\ dStatus' = "RUNNING" /\ UNCHANGED <<dShown, dLost>>
Loses == dLost \subseteq dLost' /\ UNCHANGED dRow

DigestRowStep == Opens \/ Answers \/ Fails \/ Starts \/ Loses

LEMMA SlotStep ==
  ASSUME RunsInv, DigestRowStep
  PROVE  [Slot!Next]_(Slot!slot)
<1> USE DEF Slot!slot, DigestOpen
<1>1. CASE Opens
  BY <1>1 DEF Opens, Slot!Next, Slot!Ask
<1>2. CASE Answers
  BY <1>2 DEF Answers, Slot!Next, Slot!Answer, Slot!InTurn
<1>3. CASE Fails
  BY <1>3 DEF Fails, Slot!Next, Slot!Fail
<1>4. CASE Starts
  BY <1>4 DEF Starts
<1>5. CASE Loses
  BY <1>5 DEF Loses, Slot!Next, Slot!Lose, dRow
<1>6. QED
  BY <1>1, <1>2, <1>3, <1>4, <1>5 DEF DigestRowStep

LEMMA FailedRow ==
  ASSUME DigestFailed \/ UNCHANGED dRow, dLost' = dLost
  PROVE  DigestRowStep
BY DEF DigestFailed, DigestOpen, DigestRowStep, Fails, Loses, dRow

(* Every step opens the slot, answers it with a run not seen before, fails *)
(* it or leaves what readers see.                                          *)
LEMMA EveryRowStep ==
  ASSUME RunsInv, DigestNext
  PROVE  DigestRowStep
<1>1. ASSUME NEW r \in Asks, DigestAsk(r)
      PROVE  DigestRowStep
  <2>1. CASE DigestCreate(r)
    BY <2>1 DEF DigestCreate, DigestRowStep, Opens, Loses, DigestOpen, dRow
  <2>2. CASE DigestReset(r)
    BY <2>2 DEF DigestReset, DigestRowStep, Opens, Loses, DigestOpen, dRow
  <2>3. CASE DigestOrphan(r)
    BY <2>3, FailedRow DEF DigestOrphan
  <2>4. CASE UNCHANGED dRow /\ dLost' = dLost
    BY <2>4 DEF DigestRowStep, Loses
  <2>5. QED
    BY <1>1, <2>1, <2>2, <2>3, <2>4
      DEF DigestAsk, DigestFind, DigestReread, DigestLookup, DigestRemove, DigestAdd, DigestEnqueueFails
<1>2. ASSUME NEW w \in DigestSlots, DigestWork(w)
      PROVE  DigestRowStep
  <2>1. CASE DigestStart(w)
    BY <2>1 DEF DigestStart, DigestRowStep, Starts, Loses, dRow
  <2>2. CASE DigestStore(w)
    <3>1. dWorker[w].pc = "store" /\ dWorker[w].run \in 1..dRuns /\ dWorker[w].run \notin dShown
      BY <2>2 DEF DigestStore, RunsInv, HolderIsLatest, NotYetShown, Undecided, Live
    <3>2. dWorker[w].run \in dLost \/ \A earlier \in dShown : earlier < dWorker[w].run
      <4>1. dShown \subseteq 1..dRuns /\ dRuns \in Nat
        BY DEF RunsInv, DigestTypeInv, DigestTypeOK
      <4>2. dWorker[w].run \in dLost \/ dWorker[w].run = dRuns
        BY <3>1 DEF RunsInv, HolderIsLatest, Live
      <4>3. QED
        BY <3>1, <4>1, <4>2
    <3>3. QED
      BY <2>2, <3>1, <3>2 DEF DigestStore, DigestCompleted, DigestRowStep, Answers, Loses, dRow
  <2>3. CASE DigestThrow(w)
    BY <2>3, FailedRow DEF DigestThrow
  <2>4. CASE UNCHANGED dRow /\ dLost' = dLost
    BY <2>4 DEF DigestRowStep, Loses
  <2>5. QED
    BY <1>2, <2>1, <2>2, <2>3, <2>4
      DEF DigestWork, DigestTake, DigestRead, DigestBundle, DigestCall, DigestReport, DigestCrash
<1>3. CASE DigestStall
  BY <1>3 DEF DigestStall, DigestRowStep, Loses
<1>4. ASSUME NEW h \in dHandlers, DigestHandle(h)
      PROVE  DigestRowStep
  BY <1>4, FailedRow DEF DigestHandle
<1>5. CASE DigestSweep
  BY <1>5 DEF DigestSweep, DigestRowStep, Fails
<1>6. QED
  BY <1>1, <1>2, <1>3, <1>4, <1>5 DEF DigestNext

(* For any number of requests, slots and stalls, readers see a slot that   *)
(* is opened on request and closed once, shows no answer twice, and none   *)
(* of an earlier run unless that run had lost its lock.                    *)
THEOREM SlotImplemented == DigestSpec => ImplementsSlot
<1>1. DigestInit => Slot!Init
  BY DEF DigestInit, Slot!Init, DigestOpen
<1>2. RunsInv /\ [DigestNext]_dVars => [Slot!Next]_(Slot!slot)
  <2> SUFFICES ASSUME RunsInv, [DigestNext]_dVars PROVE DigestRowStep
    BY SlotStep
  <2>1. CASE DigestNext
    BY <2>1, EveryRowStep
  <2>2. CASE UNCHANGED dVars
    BY <2>2 DEF dVars, DigestRowStep, Loses
  <2>3. QED
    BY <2>1, <2>2
<1>3. QED
  BY <1>1, <1>2, RunsInvariant, PTL DEF DigestSpec, ImplementsSlot, Slot!Spec

-----------------------------------------------------------------------------
(* The panel.  Unless an answer has been overtaken: a timer runs only      *)
(* under a busy view and never beside a click's request; such a request is *)
(* sent from a busy view only by a scan button or after a new rendering;   *)
(* answers sent before that request are old; and of the answers that are   *)
(* not old, those behind a finished one are finished, so that a panel that *)
(* stopped asking is told nothing that makes it look busy again.           *)
TimerIsBusy ==
  /\ timer => Busy(view) /\ row # "none"
  /\ post # "idle" => ~timer /\ (IF kind = "scan" THEN view = "PENDING" ELSE asked => ~Busy(view))
  /\ post = "idle" /\ Busy(view) /\ asked => timer \/ gaveUp
  /\ post \notin {"idle", "sent"} => post \in {"PENDING", "RUNNING", "COMPLETED"} /\ row # "none"

PollsInOrder ==
  /\ \A p \in polls : p[2] # "none" /\ row # "none"
  /\ post # "idle" => \A p \in polls : p[1] <= arrived
  /\ \A p \in polls : p[1] > arrived /\ Finished(p[2]) =>
       Finished(row) /\ \A q \in polls : q[1] > p[1] => Finished(q[2])
  /\ post = "idle" /\ ~timer /\ ~gaveUp => \A p \in polls : p[1] > arrived => ~Busy(p[2])

PanelInv == PanelTypeOK /\ (overtaken \/ (TimerIsBusy /\ PollsInOrder))

LEMMA PanelTyped ==
  ASSUME PanelTypeOK, [PanelNext]_pVars
  PROVE  PanelTypeOK'
<1> USE PanelConstants DEF PanelTypeOK
<1>1. CASE Click
  <2>1. arrived' \in 0..sent'
    BY <1>1 DEF Click
  <2>2. QED
    BY <1>1, <2>1 DEF Click
<1>2. CASE Trigger \/ PostFails \/ RowMoves \/ GiveUp
  <2>1. CASE Trigger \/ RowMoves
    BY <2>1 DEF Trigger, RowMoves, Busy
  <2>2. CASE PostFails
    BY <2>2 DEF PostFails
  <2>3. CASE GiveUp
    BY <2>3 DEF GiveUp
  <2>4. QED
    BY <1>2, <2>1, <2>2, <2>3
<1>3. CASE PostAnswered
  BY <1>3 DEF PostAnswered
<1>4. CASE PollSent
  BY <1>4 DEF PollSent
<1>5. ASSUME NEW p \in polls, PollArrives(p)
      PROVE  PanelTypeOK'
  <2>1. p[1] \in 0..sent /\ arrived' \in 0..sent /\ overtaken' \in BOOLEAN
    BY <1>5 DEF PollArrives
  <2>2. timer' \in BOOLEAN
    <3>1. CASE kind = "capability"
      BY <1>5, <3>1 DEF PollArrives, Busy
    <3>2. CASE kind # "capability"
      BY <1>5, <3>2 DEF PollArrives, EndsPolling, Finished
    <3>3. QED
      BY <3>1, <3>2
  <2>3. QED
    BY <1>5, <2>1, <2>2 DEF PollArrives
<1>6. ASSUME NEW p \in polls, PollLost(p)
      PROVE  PanelTypeOK'
  BY <1>6 DEF PollLost
<1>7. CASE UNCHANGED pVars \/ Rerender
  <2>1. CASE UNCHANGED pVars
    BY <2>1 DEF pVars
  <2>2. CASE Rerender
    <3>1. overtaken' \in BOOLEAN /\ view' = row /\ asked' = FALSE
      BY <2>2 DEF Rerender
    <3>2. QED
      BY <2>2, <3>1 DEF Rerender
  <2>3. QED
    BY <1>7, <2>1, <2>2
<1>8. QED
  BY <1>1, <1>2, <1>3, <1>4, <1>5, <1>6, <1>7 DEF PanelNext

LEMMA PanelStep ==
  ASSUME PanelInv, [PanelNext]_pVars
  PROVE  PanelInv'
<1>1. PanelTypeOK /\ PanelTypeOK'
  BY PanelTyped DEF PanelInv
<1> SUFFICES ASSUME ~overtaken' PROVE TimerIsBusy' /\ PollsInOrder'
  BY <1>1 DEF PanelInv
<1>2. ~overtaken
  BY DEF PanelNext, pVars, Click, Trigger, PostFails, PostAnswered, RowMoves, PollSent, GiveUp,
         PollArrives, PollLost, Rerender
<1>3. TimerIsBusy /\ PollsInOrder
  BY <1>2 DEF PanelInv
<1>4. \A p \in polls : p[1] \in Nat /\ p[1] <= sent
  BY <1>1 DEF PanelTypeOK
<1>5. sent \in Nat /\ arrived \in Nat /\ arrived <= sent
  BY <1>1, PanelConstants DEF PanelTypeOK
<1>6. CASE Click
  BY <1>1, <1>3, <1>4, <1>5, <1>6 DEF Click, Offered, TimerIsBusy, PollsInOrder, Busy, Finished
<1>7. CASE Trigger
  BY <1>1, <1>3, <1>4, <1>5, <1>7 DEF Trigger, TimerIsBusy, PollsInOrder, Busy, Finished, PanelTypeOK
<1>8. CASE PostFails
  BY <1>1, <1>3, <1>4, <1>5, <1>8 DEF PostFails, TimerIsBusy, PollsInOrder, Busy, Finished
<1>9. CASE PostAnswered
  <2>1. PollsInOrder'
    BY <1>1, <1>3, <1>4, <1>5, <1>9 DEF PostAnswered, PollsInOrder, Busy, Finished
  <2>2. TimerIsBusy'
    <3>1. /\ post \in {"PENDING", "RUNNING", "COMPLETED"} /\ row # "none" /\ ~timer
          /\ kind = "scan" => Busy(view)
      BY <1>3, <1>9 DEF PostAnswered, TimerIsBusy, Busy
    <3>2. post' = "idle" /\ row' = row
      BY <1>9 DEF PostAnswered
    <3>3. CASE kind = "scan"
      <4>1. view' = view
        BY <1>9, <3>3 DEF PostAnswered
      <4> timer'
        BY <1>9, <3>3, Zenon DEF PostAnswered
      <4>2. Busy(view')
        BY <3>1, <3>3, <4>1
      <4>3. QED
        BY <3>1, <3>2, <4>1, <4>2 DEF TimerIsBusy
    <3>4. CASE kind # "scan"
      <4>1. view' = post
        BY <1>9, <3>4 DEF PostAnswered
      <4> timer' <=> Busy(post)
        BY <1>9, <3>1, <3>4, Zenon DEF PostAnswered
      <4>2. Busy(view') <=> Busy(post)
        BY <4>1
      <4>3. QED
        BY <3>1, <3>2, <4>1, <4>2 DEF TimerIsBusy
    <3>5. QED
      BY <3>3, <3>4
  <2>3. QED
    BY <2>1, <2>2
<1>10. CASE RowMoves
  BY <1>1, <1>3, <1>10 DEF RowMoves, TimerIsBusy, PollsInOrder, Busy, Finished
<1>11. CASE GiveUp
  BY <1>1, <1>3, <1>11 DEF GiveUp, TimerIsBusy, PollsInOrder, Busy, Finished
<1>12. CASE PollSent
  <2>1. TimerIsBusy'
    BY <1>3, <1>12 DEF PollSent, TimerIsBusy
  <2>2. \A q \in polls' : q \in polls \/ q = <<sent + 1, row>>
    BY <1>12 DEF PollSent
  <2>3. post = "idle" /\ timer /\ row # "none"
    BY <1>3, <1>12 DEF PollSent, TimerIsBusy
  <2>4. row \in {"PENDING", "RUNNING", "COMPLETED", "FAILED"}
    BY <1>1, <2>3 DEF PanelTypeOK
  <2>5. ASSUME NEW p \in polls', p[1] > arrived, Finished(p[2])
        PROVE  Finished(row') /\ \A q \in polls' : q[1] > p[1] => Finished(q[2])
    BY <1>3, <1>4, <1>5, <1>12, <2>2, <2>5 DEF PollSent, PollsInOrder, Finished
  <2>6. \A p \in polls' : p[2] # "none" /\ row' # "none"
    BY <1>3, <1>12, <2>2, <2>3 DEF PollSent, PollsInOrder
  <2>7. PollsInOrder'
    BY <1>12, <2>3, <2>5, <2>6 DEF PollSent, PollsInOrder
  <2>8. QED
    BY <2>1, <2>7
<1>13. ASSUME NEW p \in polls, PollLost(p)
       PROVE  TimerIsBusy' /\ PollsInOrder'
  BY <1>3, <1>13 DEF PollLost, TimerIsBusy, PollsInOrder
<1>14. ASSUME NEW p \in polls, PollArrives(p)
       PROVE  TimerIsBusy' /\ PollsInOrder'
  <2>1. p[1] > arrived /\ arrived' = p[1]
    <3>1. ~(p[1] <= arrived)
      BY <1>14, Zenon DEF PollArrives
    <3>2. QED
      BY <1>4, <1>5, <1>14, <3>1 DEF PollArrives
  <2>2. post = "idle" /\ post' = "idle" /\ gaveUp' = gaveUp /\ row' = row /\ kind' = kind
    BY <1>3, <1>4, <1>5, <1>14, <2>1 DEF PollArrives, PollsInOrder
  <2>3. p[2] \in {"PENDING", "RUNNING", "COMPLETED", "FAILED"} /\ view' = p[2]
    BY <1>1, <1>3, <1>14 DEF PollArrives, PollsInOrder, PanelTypeOK
  <2>4. Busy(p[2]) <=> ~Finished(p[2])
    BY <2>3 DEF Busy, Finished
  <2>5. timer' => Busy(p[2])
    BY <1>14, <2>4 DEF PollArrives, EndsPolling
  <2>6. Busy(p[2]) => timer' \/ gaveUp
    BY <1>3, <1>14, <2>1, <2>2, <2>4 DEF PollArrives, EndsPolling, PollsInOrder
  <2>7. row # "none"
    BY <1>3 DEF PollsInOrder
  <2>8. TimerIsBusy'
    BY <2>2, <2>3, <2>5, <2>6, <2>7 DEF TimerIsBusy
  <2>9. \A q \in polls' : q \in polls
    BY <1>14 DEF PollArrives
  <2>10. ~timer' /\ ~gaveUp => \A q \in polls' : q[1] > p[1] => ~Busy(q[2])
    BY <1>3, <2>1, <2>2, <2>4, <2>6, <2>9 DEF PollsInOrder, Busy, Finished
  <2>11. \A q \in polls' : q[1] > arrived' => q[1] > arrived
    BY <1>4, <1>5, <2>1, <2>9
  <2>12. PollsInOrder'
    BY <1>3, <2>1, <2>2, <2>9, <2>10, <2>11 DEF PollsInOrder
  <2>13. QED
    BY <2>8, <2>12
<1>15. CASE UNCHANGED pVars
  BY <1>3, <1>15 DEF pVars, TimerIsBusy, PollsInOrder
<1>16. CASE Rerender
  <2>1. ~timer /\ polls = {}
    BY <1>1, <1>16 DEF Rerender, PanelTypeOK
  <2>2. TimerIsBusy'
    BY <1>3, <1>16, <2>1 DEF Rerender, TimerIsBusy
  <2>3. PollsInOrder'
    BY <1>16, <2>1 DEF Rerender, PollsInOrder
  <2>4. QED
    BY <2>2, <2>3
<1>17. QED
  BY <1>6, <1>7, <1>8, <1>9, <1>10, <1>11, <1>12, <1>13, <1>14, <1>15, <1>16 DEF PanelNext

LEMMA PanelInvariant == PanelSpec => []PanelInv
<1>1. PanelInit => PanelInv
  <2> SUFFICES ASSUME PanelInit PROVE PanelTypeOK /\ TimerIsBusy /\ PollsInOrder
    BY DEF PanelInv
  <2>1. PanelTypeOK
    <3>1. 0 \in 0..MaxSent /\ 0 \in 0..0
      BY PanelConstants
    <3>2. QED
      BY <3>1 DEF PanelInit, PanelTypeOK, Busy
  <2>2. TimerIsBusy /\ PollsInOrder
    BY DEF PanelInit, TimerIsBusy, PollsInOrder, Busy, PanelTypeOK
  <2>3. QED
    BY <2>1, <2>2
<1>2. PanelInv /\ [PanelNext]_pVars => PanelInv'
  BY PanelStep
<1>3. QED
  BY <1>1, <1>2, PTL DEF PanelSpec

(* A panel that shows a job under way asks for its outcome or says that it *)
(* takes longer, whatever row it was rendered with, unless the answer of a *)
(* later poll came before an earlier or it shows what it was rendered with.*)
THEOREM PanelCorrect == PanelSpec => []BusyPanelAsks
<1>1. PanelInv => BusyPanelAsks
  BY DEF PanelInv, TimerIsBusy, BusyPanelAsks
<1>2. QED
  BY <1>1, PanelInvariant, PTL

-----------------------------------------------------------------------------
(* BullMQ's record of a job, for the queues below.                         *)
LEMMA QueueJobType ==
  ASSUME NEW S, NEW j \in QueueJob(S), MaxStalls \in Nat
  PROVE  /\ NoJob \in QueueJob(S)
         /\ Added(j) \in QueueJob(S)
         /\ \A w \in S : TakenBy(j, w) \in QueueJob(S)
         /\ \A w, outcome : outcome \in {"waiting", "completed", "failed"} =>
              Reported(j, w, outcome) \in QueueJob(S)
         /\ Stalled(j) \in QueueJob(S)
<1>1. NoJob \in QueueJob(S)
  BY DEF NoJob, QueueJob
<1>2. Added(j) \in QueueJob(S) /\ \A w \in S : TakenBy(j, w) \in QueueJob(S)
  BY DEF Added, TakenBy, QueueJob
<1>3. \A w, outcome : outcome \in {"waiting", "completed", "failed"} =>
        Reported(j, w, outcome) \in QueueJob(S)
  BY DEF Reported, QueueJob
<1>4. Stalled(j) \in QueueJob(S)
  <2>1. CASE j.stalls < MaxStalls
    <3>1. j.stalls + 1 \in 0..MaxStalls
      BY <2>1 DEF QueueJob
    <3>2. QED
      BY <2>1, <3>1 DEF Stalled, QueueJob
  <2>2. CASE ~(j.stalls < MaxStalls)
    BY <2>2 DEF Stalled, QueueJob
  <2>3. QED
    BY <2>1, <2>2
<1>5. QED
  BY <1>1, <1>2, <1>3, <1>4

-----------------------------------------------------------------------------
(* The daily reports: types.                                               *)
ReportPcs ==
  {"idle", "period", "list", "finalize", "deliver", "send", "sent", "unsent", "ack", "failing"}
ReportRun == [pc: ReportPcs, day: 0..Days, events: SUBSET Changes]
ReportRow ==
  [status: {"ABSENT", "GENERATING", "COMPLETED", "FAILED"}, items: SUBSET Changes,
   count: 0..Cardinality(Changes)]
MailRow == [log: {"none", "PENDING", "SENT", "FAILED"}, left: Nat]

ReportTyped ==
  /\ rToday \in 1..Days /\ rChange \in [Changes -> 0..Days]
  /\ rReport \in [1..Days -> ReportRow] /\ rMail \in [1..Days -> MailRow]
  /\ rJob \in [1..Days -> QueueJob(ReportSlots)] /\ rTries \in [1..Days -> 0..MaxAttempts]
  /\ rRun \in [ReportSlots -> ReportRun]
  /\ rHandler \subseteq (1..Days) \X {"read", "mark"}
  /\ rFaults \in 0..MaxFaults /\ rLost \in BOOLEAN

(* A job is locked while it is active, and a run works on a day.           *)
LocksAndDays ==
  /\ \A d \in 1..Days : rJob[d].lock # None <=> rJob[d].state = "active"
  /\ \A d \in 1..Days : ~Ended(rJob[d]) => rTries[d] < MaxAttempts
  /\ \A w \in ReportSlots : rRun[w].pc = "idle" <=> rRun[w].day = 0

ItemsOfTheDay ==
  /\ \A d \in 1..Days : \A k \in rReport[d].items : rChange[k] = d
  /\ \A w \in ReportSlots :
       rRun[w].pc = "finalize" => \A k \in rRun[w].events : rChange[k] = rRun[w].day

ReportBase == ReportTyped /\ LocksAndDays

(* A slot moves on, with its day and its events.                           *)
MovesTo(w, pc) ==
  /\ rRun' \in [ReportSlots -> ReportRun]
  /\ rRun'[w].pc = pc /\ rRun'[w].day = rRun[w].day /\ rRun'[w].events = rRun[w].events
  /\ \A u \in ReportSlots \ {w} : rRun'[u] = rRun[u]

LEMMA GotoMoves ==
  ASSUME ReportTyped, NEW w \in ReportSlots, NEW pc \in ReportPcs, ReportGoto(w, pc)
  PROVE  MovesTo(w, pc)
BY DEF ReportTyped, ReportGoto, MovesTo, ReportRun

(* A slot is freed.                                                        *)
Frees(w) ==
  /\ rRun' \in [ReportSlots -> ReportRun]
  /\ rRun'[w].pc = "idle" /\ rRun'[w].day = 0
  /\ \A u \in ReportSlots \ {w} : rRun'[u] = rRun[u]

LEMMA IdleFrees ==
  ASSUME ReportTyped, NEW w \in ReportSlots, rRun' = [rRun EXCEPT ![w] = ReportIdle]
  PROVE  Frees(w)
<1>1. ReportIdle \in ReportRun /\ ReportIdle.pc = "idle" /\ ReportIdle.day = 0
  BY ReportConstants DEF ReportIdle, ReportRun, ReportPcs
<1>2. QED
  BY <1>1 DEF ReportTyped, Frees

(* The row of one day changes.                                             *)
RowBecomes(d, r) ==
  /\ rReport' \in [1..Days -> ReportRow] /\ rReport'[d] = r
  /\ \A e \in (1..Days) \ {d} : rReport'[e] = rReport[e]

LEMMA StatusBecomes ==
  ASSUME ReportTyped, NEW d \in 1..Days, NEW s \in {"ABSENT", "GENERATING", "COMPLETED", "FAILED"},
         rReport' = [rReport EXCEPT ![d].status = s]
  PROVE  /\ RowBecomes(d, [rReport[d] EXCEPT !.status = s])
         /\ rReport'[d].status = s /\ rReport'[d].items = rReport[d].items
         /\ rReport'[d].count = rReport[d].count
BY DEF ReportTyped, RowBecomes, ReportRow

LEMMA FoundType ==
  ASSUME ReportTyped, NEW d \in 1..Days
  PROVE  /\ FoundOrCreated(d) \in {"GENERATING", "COMPLETED", "FAILED"}
         /\ FoundOrCreated(d) = "COMPLETED" <=> rReport[d].status = "COMPLETED"
BY DEF ReportTyped, FoundOrCreated, ReportRow

LEMMA DayOfRun ==
  ASSUME ReportBase, NEW w \in ReportSlots, rRun[w].pc # "idle"
  PROVE  rRun[w].day \in 1..Days
BY ReportConstants DEF ReportBase, ReportTyped, LocksAndDays, ReportRun

(* What a step of the run in slot w changes: its own record, and rows of   *)
(* its own day.                                                            *)
RunSteps(w) ==
  \/ ReportPeriod(w) \/ ReportList(w) \/ ReportFinalize(w) \/ ReportGenerateFails(w)
  \/ ReportQueryFails(w) \/ ReportReserve(w) \/ ReportSend(w) \/ ReportMark(w) \/ ReportMarkFails(w)

LEMMA PeriodEffect ==
  ASSUME ReportBase, NEW w \in ReportSlots, ReportPeriod(w)
  PROVE  LET d == rRun[w].day IN
         /\ d \in 1..Days /\ RowBecomes(d, [rReport[d] EXCEPT !.status = FoundOrCreated(d)])
         /\ rReport'[d].status = "COMPLETED" => rReport'[d] = rReport[d]
         /\ rReport'[d].status = "COMPLETED" <=> rReport[d].status = "COMPLETED"
         /\ rReport'[d].items = rReport[d].items /\ rReport'[d].count = rReport[d].count
         /\ \/ MovesTo(w, "list") /\ rReport'[d].status # "COMPLETED"
            \/ MovesTo(w, "deliver")
<1> DEFINE d == rRun[w].day
<1>1. d \in 1..Days
  BY DayOfRun DEF ReportPeriod
<1>2. FoundOrCreated(d) \in {"GENERATING", "COMPLETED", "FAILED"}
  BY <1>1, FoundType DEF ReportBase
<1>3. rReport' = [rReport EXCEPT ![d].status = FoundOrCreated(d)]
  BY DEF ReportPeriod
<1>4. /\ RowBecomes(d, [rReport[d] EXCEPT !.status = FoundOrCreated(d)])
      /\ rReport'[d].status = FoundOrCreated(d) /\ rReport'[d].items = rReport[d].items
      /\ rReport'[d].count = rReport[d].count
  BY <1>1, <1>2, <1>3, StatusBecomes DEF ReportBase
<1>5. rReport'[d].status = "COMPLETED" <=> rReport[d].status = "COMPLETED"
  BY <1>1, <1>4, FoundType DEF ReportBase
<1>6. rReport[d].status = "COMPLETED" => rReport'[d] = rReport[d]
  BY <1>1, <1>3, <1>4, <1>5 DEF ReportBase, ReportTyped, ReportRow
<1>7. ReportGoto(w, IF Generates(FoundOrCreated(d)) THEN "list" ELSE "deliver")
  BY DEF ReportPeriod
<1>8. \/ MovesTo(w, "list") /\ FoundOrCreated(d) # "COMPLETED"
      \/ MovesTo(w, "deliver")
  <2>1. CASE Generates(FoundOrCreated(d))
    <3>1. ReportGoto(w, "list")
      BY <1>7, <2>1
    <3>2. QED
      BY <2>1, <3>1, GotoMoves DEF Generates, ReportBase, ReportPcs
  <2>2. CASE ~Generates(FoundOrCreated(d))
    <3>1. ReportGoto(w, "deliver")
      BY <1>7, <2>2
    <3>2. QED
      BY <3>1, GotoMoves DEF ReportBase, ReportPcs
  <2>3. QED
    BY <2>1, <2>2
<1>9. QED
  BY <1>1, <1>4, <1>5, <1>6, <1>8

LEMMA ListEffect ==
  ASSUME ReportBase, NEW w \in ReportSlots, ReportList(w)
  PROVE  /\ rRun' \in [ReportSlots -> ReportRun]
         /\ rRun'[w].pc = "finalize" /\ rRun'[w].day = rRun[w].day
         /\ rRun'[w].events = DetectedOn(rRun[w].day)
         /\ \A u \in ReportSlots \ {w} : rRun'[u] = rRun[u]
<1>1. DetectedOn(rRun[w].day) \in SUBSET Changes
  BY DEF DetectedOn
<1>2. QED
  BY <1>1 DEF ReportList, ReportBase, ReportTyped, ReportRun, ReportPcs

LEMMA FinalizeEffect ==
  ASSUME ReportBase, NEW w \in ReportSlots, ReportFinalize(w)
  PROVE  LET d == rRun[w].day IN
         /\ d \in 1..Days /\ RowBecomes(d, Finalized(rReport[d], rRun[w].events))
         /\ MovesTo(w, "deliver")
<1> DEFINE d == rRun[w].day
<1>1. d \in 1..Days
  BY DayOfRun DEF ReportFinalize
<1>2. rRun[w].events \in SUBSET Changes /\ rReport[d] \in ReportRow
  BY <1>1 DEF ReportBase, ReportTyped, ReportRun
<1>3. Cardinality(rRun[w].events) \in 0..Cardinality(Changes)
  <2>1. /\ IsFiniteSet(rRun[w].events) /\ Cardinality(rRun[w].events) <= Cardinality(Changes)
        /\ Cardinality(Changes) \in Nat
    BY <1>2, FS_Subset, FS_CardinalityType, ReportConstants
  <2>2. Cardinality(rRun[w].events) \in Nat
    BY <2>1, FS_CardinalityType
  <2>3. QED
    BY <2>1, <2>2
<1>4. Finalized(rReport[d], rRun[w].events) \in ReportRow
  BY <1>2, <1>3 DEF Finalized, ReportRow
<1>5. RowBecomes(d, Finalized(rReport[d], rRun[w].events))
  BY <1>1, <1>4 DEF ReportFinalize, RowBecomes, ReportBase, ReportTyped
<1>6. MovesTo(w, "deliver")
  BY GotoMoves DEF ReportFinalize, ReportBase, ReportPcs
<1>7. QED
  BY <1>1, <1>5, <1>6

LEMMA GenerateFailsEffect ==
  ASSUME ReportBase, NEW w \in ReportSlots, ReportGenerateFails(w)
  PROVE  LET d == rRun[w].day IN
         /\ d \in 1..Days /\ MovesTo(w, "failing") /\ rRun[w].pc \in {"list", "finalize"}
         /\ \/ rReport' = rReport
            \/ /\ RowBecomes(d, [rReport[d] EXCEPT !.status = "FAILED"])
               /\ rReport'[d].status = "FAILED" /\ rReport'[d].items = rReport[d].items
               /\ rReport'[d].count = rReport[d].count
<1>1. rRun[w].day \in 1..Days
  BY DayOfRun DEF ReportGenerateFails
<1>2. MovesTo(w, "failing")
  BY GotoMoves DEF ReportGenerateFails, ReportBase, ReportPcs
<1>3. QED
  BY <1>1, <1>2, StatusBecomes DEF ReportGenerateFails, ReportBase

(* The log and the emails of one day change.                               *)
MailBecomes(d, log, left) ==
  /\ rMail' \in [1..Days -> MailRow] /\ rMail'[d].log = log /\ rMail'[d].left = left
  /\ \A e \in (1..Days) \ {d} : rMail'[e] = rMail[e]

LEMMA ReserveEffect ==
  ASSUME ReportBase, NEW w \in ReportSlots, ReportReserve(w)
  PROVE  LET d == rRun[w].day IN
         /\ d \in 1..Days /\ rRun[w].pc = "deliver"
         /\ \/ MovesTo(w, "ack") /\ rMail' = rMail
            \/ /\ MovesTo(w, "send") /\ rMail[d].log # "SENT"
               /\ \E log \in {"PENDING", "FAILED"} : MailBecomes(d, log, rMail[d].left)
<1> DEFINE d == rRun[w].day
           log == IF rMail[d].log = "none" THEN "PENDING" ELSE rMail[d].log
<1>1. d \in 1..Days
  BY DayOfRun DEF ReportReserve
<1>2. CASE ReportGoto(w, "ack") /\ UNCHANGED rMail
  BY <1>1, <1>2, GotoMoves DEF ReportReserve, ReportBase, ReportPcs
<1>3. CASE /\ rMail' = [rMail EXCEPT ![d].log = IF @ = "none" THEN "PENDING" ELSE @]
           /\ ReportGoto(w, "send") /\ ~AlreadySent(rMail[d].log)
  <2>1. MovesTo(w, "send")
    BY <1>3, GotoMoves DEF ReportBase, ReportPcs
  <2>2. rMail[d] \in MailRow /\ rMail[d].log # "SENT"
    BY <1>1, <1>3 DEF ReportBase, ReportTyped, AlreadySent
  <2>3. log \in {"PENDING", "FAILED"}
    BY <2>2 DEF MailRow
  <2>4. MailBecomes(d, log, rMail[d].left)
    <3>1. rMail' = [rMail EXCEPT ![d].log = log]
      BY <1>3
    <3> HIDE DEF log
    <3>2. QED
      BY <1>1, <2>3, <3>1 DEF MailBecomes, ReportBase, ReportTyped, MailRow
  <2> HIDE DEF log
  <2>5. QED
    BY <1>1, <2>1, <2>2, <2>3, <2>4 DEF ReportReserve
<1>4. QED
  BY <1>2, <1>3 DEF ReportReserve

(* An email leaves from a run that goes on to "sent", or to "unsent" with  *)
(* a fault; none leaves from one that goes on to "unsent" without.         *)
LEMMA SendEffect ==
  ASSUME ReportBase, NEW w \in ReportSlots, ReportSend(w)
  PROVE  LET d == rRun[w].day IN
         /\ d \in 1..Days /\ rRun[w].pc = "send"
         /\ \/ /\ MovesTo(w, "sent") /\ MailBecomes(d, rMail[d].log, rMail[d].left + 1)
               /\ rFaults' = rFaults
            \/ /\ MovesTo(w, "unsent") /\ MailBecomes(d, rMail[d].log, rMail[d].left + 1)
               /\ rFaults < MaxFaults /\ rFaults' = rFaults + 1
            \/ MovesTo(w, "unsent") /\ rMail' = rMail /\ rFaults' = rFaults
<1> DEFINE d == rRun[w].day
<1>1. d \in 1..Days
  BY DayOfRun DEF ReportSend
<1>2. rMail' = [rMail EXCEPT ![d].left = @ + 1] =>
        MailBecomes(d, rMail[d].log, rMail[d].left + 1)
  <2>1. rMail[d].left \in Nat /\ rMail[d].left + 1 \in Nat
    BY <1>1 DEF ReportBase, ReportTyped, MailRow
  <2>2. QED
    BY <1>1, <2>1 DEF MailBecomes, ReportBase, ReportTyped, MailRow
<1>3. /\ ReportGoto(w, "sent") => MovesTo(w, "sent")
      /\ ReportGoto(w, "unsent") => MovesTo(w, "unsent")
  BY GotoMoves DEF ReportBase, ReportPcs
<1>4. QED
  BY <1>1, <1>2, <1>3 DEF ReportSend

LEMMA MarkEffect ==
  ASSUME ReportBase, NEW w \in ReportSlots, ReportMark(w)
  PROVE  LET d == rRun[w].day IN
         /\ d \in 1..Days /\ rRun[w].pc \in {"sent", "unsent"}
         /\ \/ /\ rRun[w].pc = "sent" /\ MovesTo(w, "ack")
               /\ MailBecomes(d, "SENT", rMail[d].left)
            \/ /\ rRun[w].pc = "unsent" /\ MovesTo(w, "failing")
               /\ rMail' = rMail \/ MailBecomes(d, "FAILED", rMail[d].left)
<1> DEFINE d == rRun[w].day
<1>1. d \in 1..Days
  BY DayOfRun DEF ReportMark
<1>2. ASSUME NEW log \in {"SENT", "FAILED"}, rMail' = [rMail EXCEPT ![d].log = log]
      PROVE  MailBecomes(d, log, rMail[d].left)
  BY <1>1, <1>2 DEF MailBecomes, ReportBase, ReportTyped, MailRow
<1>3. /\ ReportGoto(w, "ack") => MovesTo(w, "ack")
      /\ ReportGoto(w, "failing") => MovesTo(w, "failing")
  BY GotoMoves DEF ReportBase, ReportPcs
<1>4. CASE rRun[w].pc = "sent"
  BY <1>1, <1>2, <1>3, <1>4 DEF ReportMark, MarkedSent
<1>5. CASE rRun[w].pc = "unsent"
  BY <1>1, <1>2, <1>3, <1>5 DEF ReportMark, MarkedSent
<1>6. QED
  BY <1>4, <1>5 DEF ReportMark

(* A run ends: it loses its lock, its job is COMPLETED, tried again or     *)
(* given up.                                                               *)
EndOfRun(w) ==
  LET d == rRun[w].day IN
    IF rRun[w].pc = "ack" THEN "completed"
      ELSE IF rTries[d] + 1 < MaxAttempts THEN "waiting" ELSE "failed"

JobBecomes(d, j) ==
  /\ rJob' \in [1..Days -> QueueJob(ReportSlots)] /\ rJob'[d] = j
  /\ \A e \in (1..Days) \ {d} : rJob'[e] = rJob[e]

LEMMA EndEffect ==
  ASSUME ReportBase, NEW w \in ReportSlots, ReportEnd(w)
  PROVE  LET d == rRun[w].day IN
         /\ d \in 1..Days /\ Frees(w) /\ rRun[w].pc \in {"ack", "failing"}
         /\ JobBecomes(d, Reported(rJob[d], w, EndOfRun(w)))
         /\ IF rRun[w].pc = "failing" /\ rJob[d].lock = w
              THEN /\ rTries' = [rTries EXCEPT ![d] = @ + 1]
                   /\ rHandler' = rHandler \cup {<<d, "read">>}
              ELSE rTries' = rTries /\ rHandler' = rHandler
<1> DEFINE d == rRun[w].day
<1>1. d \in 1..Days
  BY DayOfRun DEF ReportEnd
<1>2. Frees(w)
  BY IdleFrees DEF ReportEnd, ReportBase
<1>3. EndOfRun(w) \in {"waiting", "completed", "failed"}
  BY DEF EndOfRun
<1>4. rJob' = [rJob EXCEPT ![d] = Reported(rJob[d], w, EndOfRun(w))]
  <2>1. rRun[w].pc # "failing" <=> rRun[w].pc = "ack"
    BY DEF ReportEnd
  <2>2. QED
    BY <2>1 DEF ReportEnd, EndOfRun
<1>5. Reported(rJob[d], w, EndOfRun(w)) \in QueueJob(ReportSlots)
  BY <1>1, <1>3, QueueJobType, ReportConstants DEF ReportBase, ReportTyped
<1>6. JobBecomes(d, Reported(rJob[d], w, EndOfRun(w)))
  BY <1>1, <1>4, <1>5 DEF JobBecomes, ReportBase, ReportTyped
<1>7. QED
  BY <1>1, <1>2, <1>6 DEF ReportEnd

LEMMA TakeEffect ==
  ASSUME ReportBase, NEW w \in ReportSlots, NEW d \in 1..Days, ReportTake(w, d)
  PROVE  /\ rRun[w].pc = "idle" /\ rJob[d].state = "waiting"
         /\ JobBecomes(d, TakenBy(rJob[d], w)) /\ rJob'[d].state = "active" /\ rJob'[d].lock = w
         /\ rRun' \in [ReportSlots -> ReportRun] /\ rRun'[w].pc = "period" /\ rRun'[w].day = d
         /\ \A u \in ReportSlots \ {w} : rRun'[u] = rRun[u]
<1>1. JobBecomes(d, TakenBy(rJob[d], w))
  BY QueueJobType, ReportConstants DEF ReportTake, JobBecomes, ReportBase, ReportTyped
<1>2. TakenBy(rJob[d], w).state = "active" /\ TakenBy(rJob[d], w).lock = w
  BY DEF TakenBy, ReportBase, ReportTyped, QueueJob
<1> DEFINE q == [ReportIdle EXCEPT !.pc = "period"]
           r == [q EXCEPT !.day = d]
<1>3. r \in ReportRun /\ r.pc = "period" /\ r.day = d
  <2>1. ReportIdle \in ReportRun
    BY ReportConstants DEF ReportRun, ReportPcs, ReportIdle
  <2>2. q \in ReportRun /\ q.pc = "period"
    BY <2>1 DEF ReportRun, ReportPcs
  <2> HIDE DEF q
  <2>3. QED
    BY <2>2, ReportConstants DEF ReportRun
<1>4. rRun' = [rRun EXCEPT ![w] = r]
  BY DEF ReportTake
<1> HIDE DEF r
<1>5. /\ rRun' \in [ReportSlots -> ReportRun] /\ rRun'[w].pc = "period" /\ rRun'[w].day = d
      /\ \A u \in ReportSlots \ {w} : rRun'[u] = rRun[u]
  BY <1>3, <1>4 DEF ReportBase, ReportTyped
<1>6. rJob'[d].state = "active" /\ rJob'[d].lock = w
  BY <1>1, <1>2 DEF JobBecomes
<1>7. rRun[w].pc = "idle" /\ rJob[d].state = "waiting"
  BY DEF ReportTake
<1>8. QED
  BY <1>1, <1>5, <1>6, <1>7

(* A lock expires of a run that lives on, or of one that died.             *)
Alive(d) == rJob[d].lock # None /\ rRun[rJob[d].lock].day = d

LEMMA StallEffect ==
  ASSUME ReportBase, NEW d \in 1..Days, ReportStall(d)
  PROVE  /\ rJob[d].state = "active" /\ rJob[d].lock \in ReportSlots
         /\ JobBecomes(d, Stalled(rJob[d])) /\ rJob'[d].lock = None
         /\ rJob'[d].state \in {"waiting", "failed"}
         /\ \/ Alive(d) /\ rFaults < MaxFaults /\ rFaults' = rFaults + 1 /\ rLost' = TRUE
            \/ ~Alive(d) /\ rFaults' = rFaults /\ rLost' = rLost
         /\ rHandler' \subseteq (1..Days) \X {"read", "mark"}
         /\ \A e \in 1..Days : <<e, "mark">> \in rHandler' => <<e, "mark">> \in rHandler
<1>1. rJob[d].state = "active" /\ rJob[d].lock \in ReportSlots
  BY DEF ReportStall, ReportBase, ReportTyped, LocksAndDays, QueueJob
<1>2. JobBecomes(d, Stalled(rJob[d]))
  BY QueueJobType, ReportConstants DEF ReportStall, JobBecomes, ReportBase, ReportTyped
<1>3. Stalled(rJob[d]).lock = None /\ Stalled(rJob[d]).state \in {"waiting", "failed"}
  BY DEF Stalled, ReportBase, ReportTyped, QueueJob
<1>4. \/ Alive(d) /\ rFaults < MaxFaults /\ rFaults' = rFaults + 1 /\ rLost' = TRUE
      \/ ~Alive(d) /\ rFaults' = rFaults /\ rLost' = rLost
  <2>1. CASE Alive(d)
    BY <2>1 DEF ReportStall, Alive
  <2>2. CASE ~Alive(d)
    BY <2>2 DEF ReportStall, Alive, ReportBase, ReportTyped
  <2>3. QED
    BY <2>1, <2>2
<1>5. rHandler' \subseteq rHandler \cup {<<d, "read">>}
  BY DEF ReportStall
<1>6. QED
  BY <1>1, <1>2, <1>3, <1>4, <1>5 DEF JobBecomes, ReportBase, ReportTyped

(* A run that goes on stays on its day, and its job is left alone.         *)
GoesOn(w) ==
  /\ rRun' \in [ReportSlots -> ReportRun]
  /\ rRun[w].pc # "idle" /\ rRun'[w].pc # "idle" /\ rRun'[w].day = rRun[w].day
  /\ \A u \in ReportSlots \ {w} : rRun'[u] = rRun[u]
  /\ rJob' = rJob /\ rTries' = rTries /\ rHandler' = rHandler /\ rLost' = rLost
  /\ rToday' = rToday /\ rChange' = rChange

LEMMA RunGoesOn ==
  ASSUME ReportBase, NEW w \in ReportSlots, RunSteps(w)
  PROVE  /\ GoesOn(w)
         /\ rReport' \in [1..Days -> ReportRow] /\ rMail' \in [1..Days -> MailRow]
         /\ rFaults' \in 0..MaxFaults
<1>1. CASE ReportPeriod(w)
  BY <1>1, PeriodEffect DEF ReportPeriod, GoesOn, MovesTo, RowBecomes, ReportBase, ReportTyped
<1>2. CASE ReportList(w)
  BY <1>2, ListEffect DEF ReportList, GoesOn, ReportBase, ReportTyped
<1>3. CASE ReportFinalize(w)
  BY <1>3, FinalizeEffect DEF ReportFinalize, GoesOn, MovesTo, RowBecomes, ReportBase, ReportTyped
<1>4. CASE ReportGenerateFails(w)
  BY <1>4, GenerateFailsEffect
     DEF ReportGenerateFails, GoesOn, MovesTo, RowBecomes, ReportBase, ReportTyped
<1>5. CASE ReportQueryFails(w)
  <2>1. MovesTo(w, "failing")
    BY <1>5, GotoMoves DEF ReportQueryFails, ReportBase, ReportPcs
  <2>2. QED
    BY <1>5, <2>1 DEF ReportQueryFails, GoesOn, MovesTo, ReportBase, ReportTyped
<1>6. CASE ReportReserve(w)
  BY <1>6, ReserveEffect DEF ReportReserve, GoesOn, MovesTo, MailBecomes, ReportBase, ReportTyped
<1>7. CASE ReportSend(w)
  <2>1. rFaults' \in 0..MaxFaults
    BY <1>7, ReportConstants DEF ReportSend, ReportBase, ReportTyped
  <2>2. QED
    BY <1>7, <2>1, SendEffect DEF ReportSend, GoesOn, MovesTo, MailBecomes, ReportBase, ReportTyped
<1>8. CASE ReportMark(w)
  BY <1>8, MarkEffect DEF ReportMark, GoesOn, MovesTo, MailBecomes, ReportBase, ReportTyped
<1>9. CASE ReportMarkFails(w)
  <2>1. MovesTo(w, "unsent")
    BY <1>9, GotoMoves DEF ReportMarkFails, ReportBase, ReportPcs
  <2>2. rFaults' \in 0..MaxFaults
    BY <1>9, ReportConstants DEF ReportMarkFails, ReportBase, ReportTyped
  <2>3. QED
    BY <1>9, <2>1, <2>2 DEF ReportMarkFails, GoesOn, MovesTo, ReportBase, ReportTyped
<1>10. QED
  BY <1>1, <1>2, <1>3, <1>4, <1>5, <1>6, <1>7, <1>8, <1>9 DEF RunSteps

LEMMA HandlerEffect ==
  ASSUME ReportBase, NEW d \in 1..Days, ReportHandlerRead(d) \/ ReportHandlerMark(d)
  PROVE  /\ rReport' \in [1..Days -> ReportRow]
         /\ \A e \in 1..Days : rReport'[e].items = rReport[e].items /\ rReport'[e].count = rReport[e].count
         /\ \A e \in 1..Days : rReport'[e].status = "COMPLETED" => rReport[e].status = "COMPLETED"
         /\ \A e \in 1..Days : rReport[e].status = "COMPLETED" /\ rReport'[e] # rReport[e] =>
              <<e, "mark">> \in rHandler
         /\ rHandler' \subseteq (1..Days) \X {"read", "mark"}
         /\ UNCHANGED <<rToday, rChange, rMail, rJob, rTries, rRun, rFaults, rLost>>
<1>1. CASE ReportHandlerRead(d)
  <2>1. FoundOrCreated(d) \in {"GENERATING", "COMPLETED", "FAILED"}
    BY FoundType DEF ReportBase
  <2>2. rReport' = [rReport EXCEPT ![d].status = FoundOrCreated(d)]
    BY <1>1 DEF ReportHandlerRead
  <2>3. /\ RowBecomes(d, [rReport[d] EXCEPT !.status = FoundOrCreated(d)])
        /\ rReport'[d].status = FoundOrCreated(d) /\ rReport'[d].items = rReport[d].items
        /\ rReport'[d].count = rReport[d].count
    BY <2>1, <2>2, StatusBecomes DEF ReportBase
  <2>4. rReport[d].status = "COMPLETED" => rReport'[d] = rReport[d]
    BY <2>2, <2>3, FoundType DEF ReportBase, ReportTyped, ReportRow
  <2>5. rReport'[d].status = "COMPLETED" => rReport[d].status = "COMPLETED"
    BY <2>3, FoundType DEF ReportBase
  <2>6. rHandler' \subseteq (1..Days) \X {"read", "mark"}
    BY <1>1 DEF ReportHandlerRead, ReportBase, ReportTyped
  <2>7. \A e \in 1..Days : e = d \/ rReport'[e] = rReport[e]
    BY <2>3 DEF RowBecomes
  <2>8. UNCHANGED <<rToday, rChange, rMail, rJob, rTries, rRun, rFaults, rLost>>
    BY <1>1 DEF ReportHandlerRead
  <2>9. QED
    BY <2>3, <2>4, <2>5, <2>6, <2>7, <2>8 DEF RowBecomes
<1>2. CASE ReportHandlerMark(d)
  <2>1. /\ RowBecomes(d, [rReport[d] EXCEPT !.status = "FAILED"])
        /\ rReport'[d].status = "FAILED" /\ rReport'[d].items = rReport[d].items
        /\ rReport'[d].count = rReport[d].count
    BY <1>2, StatusBecomes DEF ReportHandlerMark, ReportBase
  <2>2. \A e \in 1..Days : e = d \/ rReport'[e] = rReport[e]
    BY <2>1 DEF RowBecomes
  <2>3. rHandler' \subseteq (1..Days) \X {"read", "mark"} /\ <<d, "mark">> \in rHandler
    BY <1>2 DEF ReportHandlerMark, ReportBase, ReportTyped
  <2>4. UNCHANGED <<rToday, rChange, rMail, rJob, rTries, rRun, rFaults, rLost>>
    BY <1>2 DEF ReportHandlerMark
  <2>5. QED
    BY <2>1, <2>2, <2>3, <2>4 DEF RowBecomes
<1>3. QED
  BY <1>1, <1>2

(* The rest of the next-state relation, case by case.                      *)
LEMMA ReportCases ==
  ASSUME [ReportNext]_rVars
  PROVE  \/ UNCHANGED <<rReport, rMail, rJob, rTries, rRun, rFaults, rLost>> /\
              (Midnight \/ (\E k \in Changes : Detect(k)) \/ (\E h \in rHandler : ReportHandlerLost(h))
               \/ UNCHANGED rVars)
         \/ ReportTick
         \/ \E w \in ReportSlots : RunSteps(w) \/ ReportEnd(w) \/ ReportCrash(w)
         \/ \E w \in ReportSlots, d \in 1..Days : ReportTake(w, d)
         \/ \E d \in 1..Days : ReportStall(d)
         \/ \E d \in 1..Days : ReportHandlerRead(d) \/ ReportHandlerMark(d)
<1>1. CASE \E k \in Changes : Detect(k)
  BY <1>1 DEF Detect
<1>2. CASE Midnight \/ (\E h \in rHandler : ReportHandlerLost(h))
  BY <1>2 DEF Midnight, ReportHandlerLost
<1>3. CASE UNCHANGED rVars
  BY <1>3 DEF rVars
<1>4. CASE \E w \in ReportSlots : ReportWork(w)
  BY <1>4 DEF ReportWork, RunSteps
<1>5. QED
  BY <1>1, <1>2, <1>3, <1>4 DEF ReportNext

LEMMA ReportBaseStep ==
  ASSUME ReportBase, [ReportNext]_rVars
  PROVE  ReportBase'
<1> USE DEF ReportBase
<1>1. CASE UNCHANGED <<rReport, rMail, rJob, rTries, rRun, rFaults, rLost>> /\
             (Midnight \/ (\E k \in Changes : Detect(k)) \/ (\E h \in rHandler : ReportHandlerLost(h))
              \/ UNCHANGED rVars)
  <2>1. rToday' \in 1..Days /\ rChange' \in [Changes -> 0..Days]
        /\ rHandler' \subseteq (1..Days) \X {"read", "mark"}
    <3>1. CASE Midnight
      BY <3>1, ReportConstants DEF Midnight, ReportTyped
    <3>2. CASE \E k \in Changes : Detect(k)
      BY <3>2, ReportConstants DEF Detect, ReportTyped
    <3>3. CASE (\E h \in rHandler : ReportHandlerLost(h)) \/ UNCHANGED rVars
      BY <3>3 DEF ReportHandlerLost, rVars, ReportTyped
    <3>4. QED
      BY <1>1, <3>1, <3>2, <3>3
  <2>2. QED
    BY <1>1, <2>1 DEF ReportTyped, LocksAndDays
<1>2. CASE ReportTick
  <2>1. Added(rJob[rToday]) \in QueueJob(ReportSlots)
    BY QueueJobType, ReportConstants DEF ReportTyped
  <2>2. rJob' \in [1..Days -> QueueJob(ReportSlots)]
    BY <1>2, <2>1 DEF ReportTick, ReportTyped
  <2>3. \A d \in 1..Days : /\ rJob'[d].lock = rJob[d].lock
                           /\ rJob'[d].state = "active" <=> rJob[d].state = "active"
                           /\ Ended(rJob'[d]) <=> Ended(rJob[d])
    BY <1>2 DEF ReportTick, ReportTyped, Added, QueueJob, Ended
  <2>4. QED
    BY <1>2, <2>2, <2>3 DEF ReportTick, ReportTyped, LocksAndDays
<1>3. ASSUME NEW w \in ReportSlots, RunSteps(w)
      PROVE  ReportBase'
  <2>1. GoesOn(w) /\ ReportTyped'
    BY <1>3, RunGoesOn DEF GoesOn, ReportTyped
  <2>2. \A u \in ReportSlots : rRun'[u].pc = "idle" <=> rRun'[u].day = 0
    BY <2>1 DEF GoesOn, LocksAndDays
  <2>3. QED
    BY <2>1, <2>2 DEF GoesOn, LocksAndDays
<1>4. ASSUME NEW w \in ReportSlots, ReportEnd(w)
      PROVE  ReportBase'
  <2> DEFINE d == rRun[w].day
  <2>1. /\ d \in 1..Days /\ Frees(w) /\ rRun[w].pc \in {"ack", "failing"}
        /\ JobBecomes(d, Reported(rJob[d], w, EndOfRun(w)))
        /\ IF rRun[w].pc = "failing" /\ rJob[d].lock = w
             THEN /\ rTries' = [rTries EXCEPT ![d] = @ + 1]
                  /\ rHandler' = rHandler \cup {<<d, "read">>}
             ELSE rTries' = rTries /\ rHandler' = rHandler
    BY <1>4, EndEffect
  <2>2. rJob[d] \in QueueJob(ReportSlots) /\ rTries[d] \in 0..MaxAttempts
    BY <2>1 DEF ReportTyped
  <2>3. rJob[d].lock = w => rJob[d].state = "active" /\ rTries[d] < MaxAttempts
    BY <2>1, ReportConstants DEF LocksAndDays, Ended
  <2>4. rTries' \in [1..Days -> 0..MaxAttempts] /\ \A e \in (1..Days) \ {d} : rTries'[e] = rTries[e]
    <3>1. CASE rRun[w].pc = "failing" /\ rJob[d].lock = w
      <4>1. rTries[d] + 1 \in 0..MaxAttempts
        BY <2>2, <2>3, <3>1, ReportConstants
      <4>2. QED
        BY <2>1, <3>1, <4>1 DEF ReportTyped
    <3>2. CASE ~(rRun[w].pc = "failing" /\ rJob[d].lock = w)
      BY <2>1, <3>2 DEF ReportTyped
    <3>3. QED
      BY <3>1, <3>2
  <2>5. rHandler' \subseteq (1..Days) \X {"read", "mark"}
    BY <2>1 DEF ReportTyped
  <2>6. ReportTyped'
    BY <1>4, <2>1, <2>4, <2>5 DEF ReportEnd, Frees, JobBecomes, ReportTyped
  <2>7. rJob'[d].lock # None <=> rJob'[d].state = "active"
    BY <2>1, <2>2 DEF JobBecomes, Reported, EndOfRun, QueueJob, LocksAndDays
  <2>8. ~Ended(rJob'[d]) => rTries'[d] < MaxAttempts
    <3>1. CASE rJob[d].lock = w /\ rRun[w].pc = "failing"
      <4>1. rTries'[d] = rTries[d] + 1
        BY <2>1, <3>1 DEF ReportTyped
      <4>2. rJob'[d].state = EndOfRun(w)
        BY <2>1, <2>2, <3>1 DEF JobBecomes, Reported, QueueJob
      <4>3. QED
        BY <3>1, <4>1, <4>2 DEF EndOfRun, Ended
    <3>2. CASE rJob[d].lock = w /\ rRun[w].pc = "ack"
      <4>1. rJob'[d].state = "completed"
        BY <2>1, <2>2, <3>2 DEF JobBecomes, Reported, QueueJob, EndOfRun
      <4>2. QED
        BY <4>1 DEF Ended
    <3>3. CASE rJob[d].lock # w
      BY <2>1, <3>3 DEF JobBecomes, Reported, LocksAndDays
    <3>4. QED
      BY <2>1, <3>1, <3>2, <3>3
  <2>9. \A u \in ReportSlots : rRun'[u].pc = "idle" <=> rRun'[u].day = 0
    BY <2>1 DEF Frees, LocksAndDays
  <2>10. QED
    BY <2>1, <2>4, <2>6, <2>7, <2>8, <2>9 DEF LocksAndDays, JobBecomes
<1>5. ASSUME NEW w \in ReportSlots, ReportCrash(w)
      PROVE  ReportBase'
  <2>1. Frees(w)
    BY <1>5, IdleFrees DEF ReportCrash
  <2>2. rFaults' \in 0..MaxFaults
    BY <1>5, ReportConstants DEF ReportCrash, ReportTyped
  <2>3. \A u \in ReportSlots : rRun'[u].pc = "idle" <=> rRun'[u].day = 0
    BY <2>1 DEF Frees, LocksAndDays
  <2>4. ReportTyped'
    BY <1>5, <2>1, <2>2 DEF ReportCrash, Frees, ReportTyped
  <2>5. QED
    BY <1>5, <2>3, <2>4 DEF ReportCrash, LocksAndDays
<1>6. ASSUME NEW w \in ReportSlots, NEW d \in 1..Days, ReportTake(w, d)
      PROVE  ReportBase'
  <2>1. /\ rRun[w].pc = "idle" /\ rJob[d].state = "waiting"
        /\ JobBecomes(d, TakenBy(rJob[d], w)) /\ rJob'[d].state = "active" /\ rJob'[d].lock = w
        /\ rRun' \in [ReportSlots -> ReportRun] /\ rRun'[w].pc = "period" /\ rRun'[w].day = d
        /\ \A u \in ReportSlots \ {w} : rRun'[u] = rRun[u]
    BY <1>6, TakeEffect
  <2>2. ReportTyped'
    BY <1>6, <2>1 DEF ReportTake, JobBecomes, ReportTyped
  <2>3. \A u \in ReportSlots : rRun'[u].pc = "idle" <=> rRun'[u].day = 0
    <3>1. d # 0
      OBVIOUS
    <3>2. QED
      BY <2>1, <3>1 DEF LocksAndDays
  <2>4. rJob'[d].lock # None /\ rTries[d] < MaxAttempts
    BY <2>1, ReportConstants DEF LocksAndDays, Ended
  <2>5. QED
    BY <1>6, <2>1, <2>2, <2>3, <2>4 DEF ReportTake, JobBecomes, LocksAndDays
<1>7. ASSUME NEW d \in 1..Days, ReportStall(d)
      PROVE  ReportBase'
  <2>1. /\ rJob[d].state = "active" /\ JobBecomes(d, Stalled(rJob[d])) /\ rJob'[d].lock = None
        /\ rJob'[d].state \in {"waiting", "failed"}
        /\ \/ Alive(d) /\ rFaults < MaxFaults /\ rFaults' = rFaults + 1 /\ rLost' = TRUE
           \/ ~Alive(d) /\ rFaults' = rFaults /\ rLost' = rLost
        /\ rHandler' \subseteq (1..Days) \X {"read", "mark"}
    BY <1>7, StallEffect
  <2>2. rFaults' \in 0..MaxFaults /\ rLost' \in BOOLEAN
    <3>1. \/ rFaults < MaxFaults /\ rFaults' = rFaults + 1 /\ rLost' = TRUE
          \/ rFaults' = rFaults /\ rLost' = rLost
      BY <2>1, Zenon
    <3>2. rFaults \in 0..MaxFaults /\ rLost \in BOOLEAN
      BY DEF ReportTyped
    <3>3. rLost' \in BOOLEAN
      BY <3>1, <3>2, Zenon
    <3>4. rFaults' = rFaults \/ (rFaults < MaxFaults /\ rFaults' = rFaults + 1)
      BY <3>1, Zenon
    <3>5. QED
      BY <3>2, <3>3, <3>4, ReportConstants
  <2>3. ReportTyped'
    BY <1>7, <2>1, <2>2 DEF ReportStall, JobBecomes, ReportTyped
  <2>4. rTries[d] < MaxAttempts
    BY <2>1 DEF LocksAndDays, Ended
  <2>5. QED
    BY <1>7, <2>1, <2>3, <2>4 DEF ReportStall, JobBecomes, LocksAndDays
<1>8. ASSUME NEW d \in 1..Days, ReportHandlerRead(d) \/ ReportHandlerMark(d)
      PROVE  ReportBase'
  BY <1>8, HandlerEffect DEF ReportTyped, LocksAndDays
<1>9. QED
  BY <1>1, <1>2, <1>3, <1>4, <1>5, <1>6, <1>7, <1>8, ReportCases

(* The items of a report belong to its day.                                *)
LEMMA ItemsStep ==
  ASSUME ReportBase, ItemsOfTheDay, [ReportNext]_rVars
  PROVE  ItemsOfTheDay'
<1>1. \A k \in Changes : rChange[k] # 0 => rChange'[k] = rChange[k]
  <2>1. CASE \E k \in Changes : Detect(k)
    BY <2>1 DEF Detect, ReportBase, ReportTyped
  <2>2. CASE rChange' = rChange
    BY <2>2, SMTT(20)
  <2>3. (\E k \in Changes : Detect(k)) \/ rChange' = rChange
    BY DEF ReportNext, rVars, Midnight, ReportTick, ReportWork, ReportTake, ReportPeriod,
       ReportList, ReportFinalize, ReportGenerateFails, ReportQueryFails, ReportReserve, ReportSend,
       ReportMark, ReportMarkFails, ReportEnd, ReportCrash, ReportStall, ReportHandlerRead,
       ReportHandlerMark, ReportHandlerLost
  <2>4. QED
    BY <2>1, <2>2, <2>3
<1>2. \A d \in 1..Days : d # 0
  OBVIOUS
<1>3. \A d \in 1..Days : \A k \in rReport[d].items : rChange'[k] = d
  BY <1>1, <1>2 DEF ItemsOfTheDay, ReportBase, ReportTyped, ReportRow
<1>4. \A w \in ReportSlots : rRun[w].pc = "finalize" =>
        rRun[w].day \in 1..Days /\ \A k \in rRun[w].events : rChange'[k] = rRun[w].day
  <2> SUFFICES ASSUME NEW w \in ReportSlots, rRun[w].pc = "finalize"
               PROVE  rRun[w].day \in 1..Days /\ \A k \in rRun[w].events : rChange'[k] = rRun[w].day
    OBVIOUS
  <2>1. rRun[w].day \in 1..Days
    BY DayOfRun
  <2>2. rRun[w].events \subseteq Changes
    BY DEF ReportBase, ReportTyped, ReportRun
  <2>3. QED
    BY <1>1, <1>2, <2>1, <2>2 DEF ItemsOfTheDay
<1>5. CASE rReport' = rReport /\ rRun' = rRun
  BY <1>3, <1>4, <1>5 DEF ItemsOfTheDay
<1>6. ASSUME NEW w \in ReportSlots, RunSteps(w), rRun[w].pc \notin {"list", "finalize"}
      PROVE  ItemsOfTheDay'
  <2>1. GoesOn(w)
    BY <1>6, RunGoesOn
  <2>2. rRun'[w].pc # "finalize" /\ \A d \in 1..Days : rReport'[d].items = rReport[d].items
    <3>1. CASE ReportPeriod(w)
      BY <3>1, PeriodEffect DEF MovesTo, RowBecomes
    <3>2. CASE ReportQueryFails(w) \/ ReportMarkFails(w)
      BY <3>2, GotoMoves DEF ReportQueryFails, ReportMarkFails, ReportBase, ReportPcs, MovesTo
    <3>3. CASE ReportReserve(w)
      BY <3>3, ReserveEffect DEF MovesTo, ReportReserve
    <3>4. CASE ReportSend(w)
      BY <3>4, SendEffect DEF MovesTo, ReportSend
    <3>5. CASE ReportMark(w)
      BY <3>5, MarkEffect DEF MovesTo, ReportMark
    <3>6. QED
      BY <1>6, <3>1, <3>2, <3>3, <3>4, <3>5
         DEF RunSteps, ReportList, ReportFinalize, ReportGenerateFails
  <2>3. QED
    BY <1>3, <1>4, <2>1, <2>2 DEF GoesOn, ItemsOfTheDay
<1>7. ASSUME NEW w \in ReportSlots, ReportList(w)
      PROVE  ItemsOfTheDay'
  <2>1. rRun[w].day \in 1..Days
    BY <1>7, DayOfRun DEF ReportList
  <2>2. rReport' = rReport
    BY <1>7 DEF ReportList
  <2>3. QED
    <3>1. \A k \in DetectedOn(rRun[w].day) : rChange'[k] = rRun[w].day
      BY <1>1, <1>2, <2>1 DEF DetectedOn
    <3>2. QED
      BY <1>3, <1>4, <1>7, <2>2, <3>1, ListEffect DEF ItemsOfTheDay
<1>8. ASSUME NEW w \in ReportSlots, ReportFinalize(w)
      PROVE  ItemsOfTheDay'
  <2>1. /\ rRun[w].day \in 1..Days
        /\ RowBecomes(rRun[w].day, Finalized(rReport[rRun[w].day], rRun[w].events))
        /\ MovesTo(w, "deliver") /\ rRun[w].pc = "finalize"
    BY <1>8, FinalizeEffect DEF ReportFinalize
  <2>2. rReport'[rRun[w].day].items = rReport[rRun[w].day].items \cup rRun[w].events
    BY <2>1 DEF RowBecomes, Finalized
  <2>3. \A k \in rReport'[rRun[w].day].items : rChange'[k] = rRun[w].day
    BY <1>3, <1>4, <2>1, <2>2
  <2>4. QED
    BY <1>3, <1>4, <2>1, <2>3 DEF RowBecomes, MovesTo, ItemsOfTheDay
<1>9. ASSUME NEW w \in ReportSlots, ReportGenerateFails(w)
      PROVE  ItemsOfTheDay'
  <2>1. MovesTo(w, "failing") /\ \A d \in 1..Days : rReport'[d].items = rReport[d].items
    BY <1>9, GenerateFailsEffect DEF RowBecomes
  <2>2. QED
    BY <1>3, <1>4, <2>1 DEF MovesTo, ItemsOfTheDay
<1>10. ASSUME NEW w \in ReportSlots, ReportEnd(w) \/ ReportCrash(w)
       PROVE  ItemsOfTheDay'
  <2>1. Frees(w) /\ rReport' = rReport
    BY <1>10, IdleFrees DEF ReportEnd, ReportCrash, ReportBase
  <2>2. QED
    BY <1>3, <1>4, <2>1 DEF Frees, ItemsOfTheDay
<1>11. ASSUME NEW w \in ReportSlots, NEW d \in 1..Days, ReportTake(w, d)
       PROVE  ItemsOfTheDay'
  <2>1. rReport' = rReport
    BY <1>11 DEF ReportTake
  <2>2. QED
    BY <1>3, <1>4, <1>11, <2>1, TakeEffect DEF ItemsOfTheDay
<1>12. ASSUME NEW d \in 1..Days, ReportHandlerRead(d) \/ ReportHandlerMark(d)
       PROVE  ItemsOfTheDay'
  <2>1. rRun' = rRun /\ \A e \in 1..Days : rReport'[e].items = rReport[e].items
    BY <1>12, HandlerEffect
  <2>2. QED
    BY <1>3, <1>4, <2>1 DEF ItemsOfTheDay
<1>13. CASE ReportTick
  BY <1>5, <1>13 DEF ReportTick
<1>14. ASSUME NEW d \in 1..Days, ReportStall(d)
       PROVE  ItemsOfTheDay'
  BY <1>5, <1>14 DEF ReportStall
<1>15. ASSUME NEW w \in ReportSlots, RunSteps(w)
       PROVE  ItemsOfTheDay'
  BY <1>6, <1>7, <1>8, <1>9, <1>15 DEF RunSteps, ReportPeriod, ReportQueryFails, ReportReserve, ReportSend,
     ReportMark, ReportMarkFails
<1>16. QED
  BY <1>5, <1>10, <1>11, <1>12, <1>13, <1>14, <1>15, ReportCases

-----------------------------------------------------------------------------
(* The emails of a day.  Two kinds of runs may still send one: the run     *)
(* that holds the lock, while no email of its own has left, and a stray    *)
(* that lost the lock, which has cost a fault.  So the emails that have    *)
(* left and the strays that may send are no more than the faults, plus one *)
(* once the holder has sent or the job is COMPLETED.                       *)
Unsent == {"period", "list", "finalize", "deliver", "send"}
Strays(d) == {w \in ReportSlots : rRun[w].day = d /\ rRun[w].pc \in Unsent /\ rJob[d].lock # w}
HasSent(d) ==
  \/ rJob[d].state = "completed"
  \/ \E w \in ReportSlots : rJob[d].lock = w /\ rRun[w].day = d /\ rRun[w].pc \in {"sent", "ack"}

EmailsCounted ==
  \A d \in 1..Days :
    /\ rMail[d].left + Cardinality(Strays(d)) <= rFaults + 1
    /\ HasSent(d) \/ rMail[d].left + Cardinality(Strays(d)) <= rFaults

SentHasLeft ==
  /\ \A w \in ReportSlots : rRun[w].pc = "sent" => rMail[rRun[w].day].left > 0
  /\ \A d \in 1..Days : rMail[d].log = "SENT" => rMail[d].left > 0

(* How the count of one day may change.                                    *)
CountKept(d) ==
  /\ Strays(d)' \subseteq Strays(d) /\ rMail'[d].left = rMail[d].left /\ rFaults' >= rFaults
  /\ HasSent(d) => HasSent(d)' \/ rFaults' >= rFaults + 1
StraySends(d) ==
  /\ \E w \in Strays(d) : Strays(d)' \subseteq Strays(d) \ {w}
  /\ rMail'[d].left = rMail[d].left + 1 /\ rFaults' >= rFaults /\ (HasSent(d) => HasSent(d)')
HolderSends(d) ==
  /\ Strays(d)' \subseteq Strays(d) /\ rMail'[d].left = rMail[d].left + 1 /\ ~HasSent(d)
  /\ (rFaults' = rFaults /\ HasSent(d)') \/ rFaults' = rFaults + 1
HolderStrays(d) ==
  /\ \E w \in ReportSlots : Strays(d)' \subseteq Strays(d) \cup {w}
  /\ rMail'[d].left = rMail[d].left /\ rFaults' = rFaults + 1 /\ ~HasSent(d)

LEMMA StraysFinite ==
  /\ \A d : IsFiniteSet(Strays(d)) /\ Cardinality(Strays(d)) \in Nat
  /\ \A d : IsFiniteSet(Strays(d)') /\ Cardinality(Strays(d)') \in Nat
<1>1. \A T \in SUBSET ReportSlots : IsFiniteSet(T) /\ Cardinality(T) \in Nat
  BY ReportConstants, FS_Subset, FS_CardinalityType
<1>2. \A d : Strays(d) \in SUBSET ReportSlots /\ Strays(d)' \in SUBSET ReportSlots
  BY DEF Strays
<1>3. QED
  BY <1>1, <1>2

LEMMA CardinalityKept ==
  ASSUME NEW S, IsFiniteSet(S), NEW T \in SUBSET S
  PROVE  Cardinality(T) <= Cardinality(S)
BY FS_Subset

LEMMA CardinalityLess ==
  ASSUME NEW S, IsFiniteSet(S), NEW w \in S, NEW T \in SUBSET (S \ {w})
  PROVE  Cardinality(T) <= Cardinality(S) - 1
<1>1. IsFiniteSet(S \ {w}) /\ Cardinality(S \ {w}) = Cardinality(S) - 1
  BY FS_RemoveElement
<1>2. QED
  BY <1>1, FS_Subset

LEMMA CardinalityMore ==
  ASSUME NEW S, IsFiniteSet(S), NEW w, NEW T \in SUBSET (S \cup {w})
  PROVE  Cardinality(T) <= Cardinality(S) + 1
<1>1. IsFiniteSet(S \cup {w}) /\ Cardinality(S) \in Nat
      /\ (Cardinality(S \cup {w}) = Cardinality(S) \/ Cardinality(S \cup {w}) = Cardinality(S) + 1)
  BY FS_AddElement, FS_CardinalityType
<1>2. Cardinality(T) <= Cardinality(S \cup {w})
  BY <1>1, FS_Subset
<1>3. Cardinality(T) \in Nat
  BY <1>1, FS_Subset, FS_CardinalityType
<1>4. QED
  BY <1>1, <1>2, <1>3

LEMMA CountStep ==
  ASSUME ReportBase, ReportBase', NEW d \in 1..Days,
         rMail[d].left + Cardinality(Strays(d)) <= rFaults + 1,
         HasSent(d) \/ rMail[d].left + Cardinality(Strays(d)) <= rFaults,
         CountKept(d) \/ StraySends(d) \/ HolderSends(d) \/ HolderStrays(d)
  PROVE  /\ rMail'[d].left + Cardinality(Strays(d)') <= rFaults' + 1
         /\ HasSent(d)' \/ rMail'[d].left + Cardinality(Strays(d)') <= rFaults'
<1> DEFINE n == Cardinality(Strays(d))  m == Cardinality(Strays(d)')
<1>1. n \in Nat /\ m \in Nat /\ IsFiniteSet(Strays(d))
  BY StraysFinite
<1>2. rMail[d].left \in Nat /\ rMail'[d].left \in Nat
  BY DEF ReportBase, ReportTyped, MailRow
<1>3. rFaults \in Nat /\ rFaults' \in Nat
  BY ReportConstants DEF ReportBase, ReportTyped
<1>4. rMail[d].left + n <= rFaults + 1 /\ (HasSent(d) \/ rMail[d].left + n <= rFaults)
  OBVIOUS
<1>5. CASE CountKept(d)
  <2>1. m <= n
    BY <1>1, <1>5, CardinalityKept DEF CountKept
  <2> HIDE DEF n, m
  <2>2. QED
    BY <1>1, <1>2, <1>3, <1>4, <1>5, <2>1 DEF CountKept, n, m
<1>6. CASE StraySends(d)
  <2>1. m <= n - 1
    BY <1>1, <1>6, CardinalityLess DEF StraySends
  <2>2. QED
    BY <1>1, <1>2, <1>3, <1>4, <1>6, <2>1 DEF StraySends
<1>7. CASE HolderSends(d)
  <2>1. m <= n
    BY <1>1, <1>7, CardinalityKept DEF HolderSends
  <2>2. QED
    BY <1>1, <1>2, <1>3, <1>4, <1>7, <2>1 DEF HolderSends
<1>8. CASE HolderStrays(d)
  <2>1. m <= n + 1
    BY <1>1, <1>8, CardinalityMore DEF HolderStrays
  <2>2. QED
    BY <1>1, <1>2, <1>3, <1>4, <1>8, <2>1 DEF HolderStrays
<1>9. QED
  BY <1>5, <1>6, <1>7, <1>8

(* A day that a step does not concern.                                     *)
LEMMA CountOfOtherDay ==
  ASSUME ReportBase, NEW w \in ReportSlots, NEW d \in 1..Days,
         rRun[w].day # d, rRun'[w].day # d, \A u \in ReportSlots \ {w} : rRun'[u] = rRun[u],
         rJob'[d] = rJob[d], rMail'[d] = rMail[d], rFaults' >= rFaults
  PROVE  CountKept(d)
<1>1. \A u \in ReportSlots : rRun'[u].day = d => rRun'[u] = rRun[u]
  OBVIOUS
<1>2. \A u \in ReportSlots : rRun[u].day = d => rRun'[u] = rRun[u]
  OBVIOUS
<1>3. Strays(d)' \subseteq Strays(d)
  BY <1>1 DEF Strays
<1>4. HasSent(d) => HasSent(d)'
  BY <1>2 DEF HasSent
<1>5. QED
  BY <1>3, <1>4 DEF CountKept

(* A run that holds the lock has sent when it is past its email.           *)
LEMMA HolderHasSent ==
  ASSUME ReportBase, NEW w \in ReportSlots, NEW d \in 1..Days, rJob[d].lock = w
  PROVE  HasSent(d) <=> rRun[w].day = d /\ rRun[w].pc \in {"sent", "ack"}
<1>1. rJob[d].state = "active"
  BY ReportConstants DEF ReportBase, LocksAndDays
<1>2. QED
  BY <1>1 DEF HasSent

(* A run goes on, from before its email or to after it.                    *)
LEMMA CountOfItsDay ==
  ASSUME ReportBase, NEW w \in ReportSlots, GoesOn(w), NEW d \in 1..Days, rRun[w].day = d,
         rRun[w].pc \in Unsent \/ rRun'[w].pc \notin Unsent
  PROVE  /\ Strays(d)' \subseteq Strays(d)
         /\ rRun'[w].pc \notin Unsent => Strays(d)' \subseteq Strays(d) \ {w}
         /\ rJob[d].lock # w /\ rRun[w].pc \in Unsent => w \in Strays(d)
         /\ rJob[d].lock # w => (HasSent(d) => HasSent(d)')
         /\ rJob[d].lock = w => (HasSent(d) <=> rRun[w].pc \in {"sent", "ack"})
         /\ rJob[d].lock = w /\ rRun'[w].pc \in {"sent", "ack"} => HasSent(d)'
<1>1. \A u \in ReportSlots : u = w \/ rRun'[u] = rRun[u]
  BY DEF GoesOn
<1>2. rJob' = rJob /\ rRun'[w].day = d
  BY DEF GoesOn
<1>3. Strays(d)' \subseteq Strays(d) /\ (rRun'[w].pc \notin Unsent => Strays(d)' \subseteq Strays(d) \ {w})
  BY <1>1, <1>2 DEF Strays
<1>4. rJob[d].lock # w /\ rRun[w].pc \in Unsent => w \in Strays(d)
  BY DEF Strays
<1>5. rJob[d].lock # w => (HasSent(d) => HasSent(d)')
  BY <1>1, <1>2 DEF HasSent
<1>6. rJob[d].lock = w => (HasSent(d) <=> rRun[w].pc \in {"sent", "ack"})
  BY HolderHasSent
<1>7. rJob[d].lock = w /\ rRun'[w].pc \in {"sent", "ack"} => HasSent(d)'
  BY <1>2 DEF HasSent
<1>8. QED
  BY <1>3, <1>4, <1>5, <1>6, <1>7

(* One email at most leaves with a step of a run, and it is counted.       *)
LEMMA CountOfRun ==
  ASSUME ReportBase, NEW w \in ReportSlots, RunSteps(w), NEW d \in 1..Days
  PROVE  CountKept(d) \/ StraySends(d) \/ HolderSends(d)
<1> DEFINE e == rRun[w].day
<1>1. GoesOn(w) /\ e \in 1..Days
  BY RunGoesOn, DayOfRun DEF GoesOn
<1>2. rFaults \in Nat
  BY ReportConstants DEF ReportBase, ReportTyped
<1>3. CASE ReportSend(w)
  <2>1. /\ rRun[w].pc = "send" /\ rRun'[w].pc \in {"sent", "unsent"}
        /\ \/ /\ MailBecomes(e, rMail[e].log, rMail[e].left + 1)
              /\ \/ rRun'[w].pc = "sent" /\ rFaults' = rFaults
                 \/ rFaults' = rFaults + 1
           \/ rMail' = rMail /\ rFaults' = rFaults
    BY <1>3, SendEffect DEF MovesTo
  <2>2. rFaults' >= rFaults /\ \A x \in (1..Days) \ {e} : rMail'[x] = rMail[x]
    BY <1>2, <2>1 DEF MailBecomes
  <2>3. CASE d # e
    BY <1>1, <2>2, <2>3, CountOfOtherDay DEF GoesOn
  <2>4. CASE d = e
    <3>1. rRun[w].pc \in Unsent /\ rRun'[w].pc \notin Unsent
      BY <2>1 DEF Unsent
    <3>2. /\ Strays(d)' \subseteq Strays(d) \ {w}
          /\ rJob[d].lock # w => w \in Strays(d) /\ (HasSent(d) => HasSent(d)')
          /\ rJob[d].lock = w => ~HasSent(d)
          /\ rJob[d].lock = w /\ rRun'[w].pc = "sent" => HasSent(d)'
      BY <1>1, <2>1, <2>4, <3>1, CountOfItsDay
    <3>3. CASE rMail' = rMail /\ rFaults' = rFaults
      BY <2>2, <3>2, <3>3 DEF CountKept
    <3>4. CASE rMail'[d].left = rMail[d].left + 1 /\ rJob[d].lock # w
      BY <2>2, <3>2, <3>4 DEF StraySends
    <3>5. CASE /\ rMail'[d].left = rMail[d].left + 1 /\ rJob[d].lock = w
               /\ (rRun'[w].pc = "sent" /\ rFaults' = rFaults) \/ rFaults' = rFaults + 1
      BY <3>2, <3>5 DEF HolderSends
    <3>6. QED
      BY <2>1, <2>4, <3>3, <3>4, <3>5 DEF MailBecomes
  <2>5. QED
    BY <2>3, <2>4
<1>4. CASE ~ReportSend(w)
  <2>1. /\ rRun[w].pc \in Unsent \/ rRun'[w].pc \notin Unsent
        /\ rRun[w].pc = "ack" => FALSE
        /\ rRun[w].pc = "sent" => rRun'[w].pc = "ack" \/ rFaults' = rFaults + 1
        /\ rFaults' >= rFaults
        /\ \A x \in 1..Days : rMail'[x].left = rMail[x].left /\ (x = e \/ rMail'[x] = rMail[x])
    <3>1. CASE ReportPeriod(w) \/ ReportList(w) \/ ReportFinalize(w) \/ ReportGenerateFails(w)
                 \/ ReportQueryFails(w)
      BY <1>2, <3>1 DEF ReportPeriod, ReportList, ReportFinalize, ReportGenerateFails, ReportQueryFails,
         Unsent
    <3>2. CASE ReportReserve(w)
      BY <1>2, <3>2, ReserveEffect DEF ReportReserve, MailBecomes, Unsent
    <3>3. CASE ReportMark(w)
      BY <1>2, <3>3, MarkEffect DEF ReportMark, MailBecomes, MovesTo, Unsent
    <3>4. CASE ReportMarkFails(w)
      <4>1. rRun'[w].pc = "unsent"
        BY <3>4, GotoMoves DEF ReportMarkFails, ReportBase, ReportPcs, MovesTo
      <4>2. QED
        BY <1>2, <3>4, <4>1 DEF ReportMarkFails, Unsent
    <3>5. QED
      BY <1>4, <3>1, <3>2, <3>3, <3>4 DEF RunSteps
  <2>2. CASE d # e
    BY <1>1, <2>1, <2>2, CountOfOtherDay DEF GoesOn
  <2>3. CASE d = e
    <3>1. /\ Strays(d)' \subseteq Strays(d)
          /\ rJob[d].lock # w => (HasSent(d) => HasSent(d)')
          /\ rJob[d].lock = w => (HasSent(d) <=> rRun[w].pc \in {"sent", "ack"})
          /\ rJob[d].lock = w /\ rRun'[w].pc \in {"sent", "ack"} => HasSent(d)'
      BY <1>1, <2>1, <2>3, CountOfItsDay
    <3>2. HasSent(d) => HasSent(d)' \/ rFaults' >= rFaults + 1
      BY <1>2, <2>1, <3>1
    <3>3. QED
      BY <2>1, <3>1, <3>2 DEF CountKept
  <2>4. QED
    BY <2>2, <2>3
<1>5. QED
  BY <1>3, <1>4

LEMMA CountOfEnd ==
  ASSUME ReportBase, NEW w \in ReportSlots, ReportEnd(w) \/ ReportCrash(w), NEW d \in 1..Days
  PROVE  CountKept(d)
<1> DEFINE e == rRun[w].day
<1>1. rFaults \in Nat
  BY ReportConstants DEF ReportBase, ReportTyped
<1>2. Frees(w) /\ e \in 1..Days
  BY IdleFrees, DayOfRun DEF ReportEnd, ReportCrash, ReportBase
<1>3. rMail' = rMail /\ rFaults' >= rFaults
  BY <1>1 DEF ReportEnd, ReportCrash
<1>4. \A x \in (1..Days) \ {e} : rJob'[x] = rJob[x]
  BY EndEffect DEF ReportCrash, JobBecomes
<1>5. CASE d # e
  <2>1. rRun'[w].day # d
    <3>1. d # 0
      OBVIOUS
    <3>2. QED
      BY <1>2, <3>1 DEF Frees
  <2>2. QED
    BY <1>2, <1>3, <1>4, <1>5, <2>1, CountOfOtherDay DEF Frees
<1>6. CASE d = e
  <2>1. \A u \in ReportSlots : u = w \/ rRun'[u] = rRun[u]
    BY <1>2 DEF Frees
  <2>2. rRun'[w].pc \notin Unsent
    BY <1>2 DEF Frees, Unsent
  <2>3. CASE ReportCrash(w)
    <3>1. Strays(d)' \subseteq Strays(d) /\ rFaults' >= rFaults + 1
      BY <1>1, <2>1, <2>2, <2>3 DEF ReportCrash, Strays
    <3>2. QED
      BY <1>3, <3>1 DEF CountKept
  <2>4. CASE ReportEnd(w) /\ rJob[d].lock # w
    <3>1. rJob'[d] = rJob[d]
      BY <1>6, <2>4, EndEffect DEF JobBecomes, Reported
    <3>2. Strays(d)' \subseteq Strays(d)
      BY <2>1, <2>2, <3>1 DEF Strays
    <3>3. HasSent(d) => HasSent(d)'
      BY <2>1, <2>4, <3>1 DEF HasSent
    <3>4. QED
      BY <1>3, <3>2, <3>3 DEF CountKept
  <2>5. CASE ReportEnd(w) /\ rJob[d].lock = w
    <3>1. JobBecomes(d, Reported(rJob[d], w, EndOfRun(w))) /\ rRun[w].pc \in {"ack", "failing"}
      BY <1>6, <2>5, EndEffect
    <3>2. Strays(d)' \subseteq Strays(d)
      <4>1. \A u \in Strays(d)' : u # w /\ rRun[u] = rRun'[u]
        BY <2>1, <2>2 DEF Strays
      <4>2. QED
        BY <2>5, <4>1 DEF Strays
    <3>3. rRun[w].pc = "ack" => rJob'[d].state = "completed"
      <4>1. rJob[d] \in QueueJob(ReportSlots)
        BY DEF ReportBase, ReportTyped
      <4>2. QED
        BY <2>5, <3>1, <4>1 DEF JobBecomes, Reported, EndOfRun, QueueJob
    <3>4. HasSent(d) => HasSent(d)'
      BY <2>5, <3>1, <3>3, HolderHasSent DEF HasSent
    <3>5. QED
      BY <1>3, <3>2, <3>4 DEF CountKept
  <2>6. QED
    BY <2>3, <2>4, <2>5
<1>7. QED
  BY <1>5, <1>6

LEMMA CountOfTake ==
  ASSUME ReportBase, NEW w \in ReportSlots, NEW e \in 1..Days, ReportTake(w, e), NEW d \in 1..Days
  PROVE  CountKept(d)
<1>1. /\ rRun[w].pc = "idle" /\ rJob[e].state = "waiting" /\ rJob'[e].lock = w
      /\ rRun'[w].day = e /\ \A u \in ReportSlots \ {w} : rRun'[u] = rRun[u]
      /\ \A x \in (1..Days) \ {e} : rJob'[x] = rJob[x]
  BY TakeEffect DEF JobBecomes
<1>2. rMail' = rMail /\ rFaults' = rFaults /\ rFaults \in Nat
  BY ReportConstants DEF ReportTake, ReportBase, ReportTyped
<1>3. rRun[w].day = 0 /\ d # 0
  BY <1>1 DEF ReportBase, LocksAndDays
<1>4. CASE d # e
  BY <1>1, <1>2, <1>3, <1>4, CountOfOtherDay
<1>5. CASE d = e
  <2>1. rJob[d].lock = None
    BY <1>1, <1>5 DEF ReportBase, LocksAndDays
  <2>2. ~HasSent(d)
    BY <1>1, <1>5, <2>1, ReportConstants DEF HasSent
  <2>3. Strays(d)' \subseteq Strays(d)
    <3>1. \A u \in Strays(d)' : u # w /\ rRun[u] = rRun'[u]
      BY <1>1, <1>5 DEF Strays
    <3>2. QED
      BY <2>1, <3>1, ReportConstants DEF Strays
  <2>4. QED
    BY <1>2, <2>2, <2>3 DEF CountKept
<1>6. QED
  BY <1>4, <1>5

LEMMA CountOfStall ==
  ASSUME ReportBase, NEW e \in 1..Days, ReportStall(e), NEW d \in 1..Days
  PROVE  CountKept(d) \/ HolderStrays(d)
<1> DEFINE w == rJob[e].lock
<1>1. /\ rJob[e].state = "active" /\ w \in ReportSlots /\ rJob'[e].lock = None
      /\ \A x \in (1..Days) \ {e} : rJob'[x] = rJob[x]
      /\ (Alive(e) /\ rFaults' = rFaults + 1) \/ (~Alive(e) /\ rFaults' = rFaults)
  BY StallEffect DEF JobBecomes
<1>2. rMail' = rMail /\ rRun' = rRun /\ rFaults \in Nat
  BY ReportConstants DEF ReportStall, ReportBase, ReportTyped
<1>3. rFaults' >= rFaults
  BY <1>1, <1>2
<1>4. CASE d # e
  <2>1. Strays(d)' \subseteq Strays(d) /\ (HasSent(d) => HasSent(d)')
    BY <1>1, <1>2, <1>4 DEF Strays, HasSent
  <2>2. QED
    BY <1>2, <1>3, <2>1 DEF CountKept
<1>5. CASE d = e /\ ~Alive(e)
  <2>1. rRun[w].day # d
    BY <1>1, <1>5, ReportConstants DEF Alive
  <2>2. ~HasSent(d)
    BY <1>1, <1>5, <2>1, HolderHasSent
  <2>3. Strays(d)' \subseteq Strays(d)
    BY <1>1, <1>2, <1>5, <2>1 DEF Strays
  <2>4. QED
    BY <1>2, <1>3, <2>2, <2>3 DEF CountKept
<1>6. CASE d = e /\ rFaults' = rFaults + 1
  <2>1. Strays(d)' \subseteq Strays(d) \cup {w}
    BY <1>1, <1>2, <1>6 DEF Strays
  <2>2. CASE HasSent(d)
    <3>1. rRun[w].pc \notin Unsent
      BY <1>1, <1>6, <2>2, HolderHasSent DEF Unsent
    <3>2. Strays(d)' \subseteq Strays(d)
      BY <1>1, <1>2, <1>6, <3>1 DEF Strays
    <3>3. QED
      BY <1>2, <1>6, <3>2 DEF CountKept
  <2>3. CASE ~HasSent(d)
    BY <1>1, <1>2, <1>6, <2>1, <2>3 DEF HolderStrays
  <2>4. QED
    BY <2>2, <2>3
<1>7. QED
  BY <1>1, <1>4, <1>5, <1>6

LEMMA CountedStep ==
  ASSUME ReportBase, EmailsCounted, [ReportNext]_rVars
  PROVE  EmailsCounted'
<1>1. ReportBase'
  BY ReportBaseStep
<1>2. rFaults \in Nat
  BY ReportConstants DEF ReportBase, ReportTyped
<1> SUFFICES ASSUME NEW d \in 1..Days
             PROVE  CountKept(d) \/ StraySends(d) \/ HolderSends(d) \/ HolderStrays(d)
  BY <1>1, CountStep DEF EmailsCounted
<1>3. CASE rMail' = rMail /\ rJob' = rJob /\ rRun' = rRun /\ rFaults' = rFaults
  BY <1>2, <1>3 DEF CountKept, Strays, HasSent
<1>4. CASE ReportTick
  <2>1. /\ \A x \in 1..Days : rJob'[x].lock = rJob[x].lock
        /\ \A x \in 1..Days : rJob[x].state = "completed" => rJob'[x].state = "completed"
    BY <1>4 DEF ReportTick, ReportBase, ReportTyped, Added, QueueJob
  <2>2. rMail' = rMail /\ rRun' = rRun /\ rFaults' = rFaults
    BY <1>4 DEF ReportTick
  <2>3. QED
    BY <1>2, <2>1, <2>2 DEF CountKept, Strays, HasSent
<1>5. ASSUME NEW w \in ReportSlots, RunSteps(w) \/ ReportEnd(w) \/ ReportCrash(w)
      PROVE  CountKept(d) \/ StraySends(d) \/ HolderSends(d)
  BY <1>5, CountOfRun, CountOfEnd
<1>6. ASSUME NEW w \in ReportSlots, NEW e \in 1..Days, ReportTake(w, e)
      PROVE  CountKept(d)
  BY <1>6, CountOfTake
<1>7. ASSUME NEW e \in 1..Days, ReportStall(e)
      PROVE  CountKept(d) \/ HolderStrays(d)
  BY <1>7, CountOfStall
<1>8. ASSUME NEW e \in 1..Days, ReportHandlerRead(e) \/ ReportHandlerMark(e)
      PROVE  CountKept(d)
  BY <1>3, <1>8, HandlerEffect, <1>2 DEF CountKept, Strays, HasSent
<1>9. QED
  BY <1>3, <1>4, <1>5, <1>6, <1>7, <1>8, ReportCases

LEMMA SentStep ==
  ASSUME ReportBase, SentHasLeft, [ReportNext]_rVars
  PROVE  SentHasLeft'
<1>1. \A d \in 1..Days : rMail[d].left \in Nat
  BY DEF ReportBase, ReportTyped, MailRow
<1>2. ASSUME NEW w \in ReportSlots, RunSteps(w)
      PROVE  SentHasLeft'
  <2>1. GoesOn(w) /\ rRun[w].day \in 1..Days
    BY <1>2, RunGoesOn, DayOfRun, SMTT(20) DEF GoesOn
  <2>2. \A d \in 1..Days : rMail'[d].left >= rMail[d].left
    BY <1>1, <1>2, <2>1, ReserveEffect, SendEffect, MarkEffect
       DEF RunSteps, MailBecomes, ReportPeriod, ReportList, ReportFinalize, ReportGenerateFails,
           ReportQueryFails, ReportMarkFails
  <2>3. rRun'[w].pc = "sent" => rMail'[rRun[w].day].left > 0
    <3>1. CASE ReportSend(w)
      <4>1. rRun'[w].pc = "sent" => rMail'[rRun[w].day].left = rMail[rRun[w].day].left + 1
        BY <3>1, SendEffect DEF MailBecomes, MovesTo
      <4>2. rMail[rRun[w].day].left \in Nat
        BY <1>1, <2>1
      <4>3. QED
        BY <4>1, <4>2
    <3>2. CASE ReportPeriod(w)
      BY <3>2, PeriodEffect DEF MovesTo
    <3>3. CASE ReportList(w)
      BY <3>3, ListEffect
    <3>4. CASE ReportFinalize(w)
      BY <3>4, FinalizeEffect DEF MovesTo
    <3>5. CASE ReportGenerateFails(w)
      BY <3>5, GenerateFailsEffect DEF MovesTo
    <3>6. CASE ReportQueryFails(w) \/ ReportMarkFails(w)
      BY <3>6, GotoMoves DEF ReportQueryFails, ReportMarkFails, ReportBase, ReportPcs, MovesTo
    <3>7. CASE ReportReserve(w)
      BY <3>7, ReserveEffect DEF MovesTo
    <3>8. CASE ReportMark(w)
      BY <3>8, MarkEffect DEF MovesTo
    <3>9. QED
      BY <1>2, <3>1, <3>2, <3>3, <3>4, <3>5, <3>6, <3>7, <3>8 DEF RunSteps
  <2>4. \A d \in 1..Days : rMail'[d].log = "SENT" =>
          rMail[d].log = "SENT" \/ (d = rRun[w].day /\ rRun[w].pc = "sent")
    BY <1>2, <2>1, ReserveEffect, SendEffect, MarkEffect
       DEF RunSteps, MailBecomes, ReportPeriod, ReportList, ReportFinalize, ReportGenerateFails,
           ReportQueryFails, ReportMarkFails
  <2>5. \A u \in ReportSlots \ {w} : rRun'[u].pc = "sent" =>
          rRun[u].day \in 1..Days /\ rRun'[u].day = rRun[u].day /\ rMail[rRun[u].day].left > 0
    BY <2>1, DayOfRun DEF GoesOn, SentHasLeft
  <2>6. \A d \in 1..Days : rMail[d].left > 0 => rMail'[d].left > 0
    <3>1. \A d \in 1..Days : rMail'[d].left \in Nat
      BY <1>2, RunGoesOn DEF MailRow
    <3>2. QED
      BY <1>1, <2>2, <3>1
  <2>7. \A u \in ReportSlots : rRun'[u].pc = "sent" => rMail'[rRun'[u].day].left > 0
    BY <2>1, <2>3, <2>5, <2>6 DEF GoesOn
  <2>8. QED
    BY <2>1, <2>4, <2>6, <2>7 DEF SentHasLeft
<1>3. ASSUME rMail' = rMail,
             \A u \in ReportSlots : rRun'[u].pc = "sent" => rRun'[u] = rRun[u]
      PROVE  SentHasLeft'
  BY <1>3 DEF SentHasLeft
<1>4. ASSUME NEW w \in ReportSlots, ReportEnd(w) \/ ReportCrash(w)
      PROVE  SentHasLeft'
  <2>1. Frees(w) /\ rMail' = rMail
    BY <1>4, IdleFrees DEF ReportEnd, ReportCrash, ReportBase
  <2>2. QED
    BY <1>3, <2>1 DEF Frees
<1>5. ASSUME NEW w \in ReportSlots, NEW d \in 1..Days, ReportTake(w, d)
      PROVE  SentHasLeft'
  <2>1. rMail' = rMail
    BY <1>5 DEF ReportTake
  <2>2. QED
    BY <1>3, <1>5, <2>1, TakeEffect
<1>6. CASE rMail' = rMail /\ rRun' = rRun
  BY <1>3, <1>6
<1>7. ASSUME NEW d \in 1..Days, ReportStall(d)
      PROVE  SentHasLeft'
  BY <1>6, <1>7 DEF ReportStall
<1>8. ASSUME NEW d \in 1..Days, ReportHandlerRead(d) \/ ReportHandlerMark(d)
      PROVE  SentHasLeft'
  BY <1>6, <1>8, HandlerEffect
<1>9. CASE ReportTick
  BY <1>6, <1>9 DEF ReportTick
<1>10. QED
  BY <1>2, <1>4, <1>5, <1>6, <1>7, <1>8, <1>9, ReportCases

-----------------------------------------------------------------------------
(* While no live run has lost its lock, every run holds the lock of its    *)
(* job.  It is then the only one of its day, and what it found there is    *)
(* still so: a report that is not COMPLETED, items among its events, an    *)
(* email that is not recorded as sent.                                     *)
RunOfItsDay(w) ==
  LET d == rRun[w].day IN
    /\ rRun[w].pc # "idle" => rJob[d].lock = w
    /\ rRun[w].pc \in {"list", "finalize"} => rReport[d].status # "COMPLETED"
    /\ rRun[w].pc = "finalize" => rReport[d].items \subseteq rRun[w].events
    /\ rRun[w].pc \in {"send", "sent", "unsent"} => rMail[d].log # "SENT"

Alone ==
  ~rLost =>
    /\ \A w \in ReportSlots : RunOfItsDay(w)
    /\ \A d \in 1..Days : rReport[d].status = "COMPLETED" =>
         rReport[d].count = Cardinality(rReport[d].items)

(* What a step of such a run does to its day.                              *)
KeepsItsDay(w, d) ==
  /\ \A x \in (1..Days) \ {d} : rReport'[x] = rReport[x] /\ rMail'[x] = rMail[x]
  /\ rReport[d].status = "COMPLETED" => rReport'[d] = rReport[d]
  /\ rMail[d].log = "SENT" => rMail'[d] = rMail[d]
  /\ rRun'[w].pc \in {"list", "finalize"} => rReport'[d].status # "COMPLETED"
  /\ rRun'[w].pc = "finalize" => rReport'[d].items \subseteq rRun'[w].events
  /\ rRun'[w].pc \in {"send", "sent", "unsent"} => rMail'[d].log # "SENT"
  /\ rReport'[d].status = "COMPLETED" => rReport'[d].count = Cardinality(rReport'[d].items)

LEMMA RunKeepsItsDay ==
  ASSUME ReportBase, ItemsOfTheDay, NEW w \in ReportSlots, RunOfItsDay(w), RunSteps(w),
         \A d \in 1..Days : rReport[d].status = "COMPLETED" =>
           rReport[d].count = Cardinality(rReport[d].items)
  PROVE  KeepsItsDay(w, rRun[w].day)
<1> DEFINE d == rRun[w].day
<1>1. d \in 1..Days
  BY RunGoesOn, DayOfRun DEF GoesOn
<1>2. rReport[d].status = "COMPLETED" => rReport[d].count = Cardinality(rReport[d].items)
  BY <1>1
<1>3. CASE ReportPeriod(w)
  <2>1. /\ RowBecomes(d, [rReport[d] EXCEPT !.status = FoundOrCreated(d)])
        /\ rReport'[d].status = "COMPLETED" => rReport'[d] = rReport[d]
        /\ rReport'[d].status = "COMPLETED" <=> rReport[d].status = "COMPLETED"
        /\ \/ rRun'[w].pc = "list" /\ rReport'[d].status # "COMPLETED"
           \/ rRun'[w].pc = "deliver"
    BY <1>3, PeriodEffect DEF MovesTo
  <2>2. rMail' = rMail
    BY <1>3 DEF ReportPeriod
  <2>3. \A x \in (1..Days) \ {d} : rReport'[x] = rReport[x]
    BY <2>1 DEF RowBecomes
  <2>4. QED
    BY <1>2, <2>1, <2>2, <2>3 DEF KeepsItsDay
<1>4. CASE ReportList(w)
  <2>1. rRun'[w].pc = "finalize" /\ rRun'[w].events = DetectedOn(d)
    BY <1>4, ListEffect
  <2>2. rReport' = rReport /\ rMail' = rMail
    BY <1>4 DEF ReportList
  <2>3. rReport[d].items \subseteq DetectedOn(d)
    BY <1>1 DEF ItemsOfTheDay, DetectedOn, ReportBase, ReportTyped, ReportRow
  <2>4. rReport[d].status # "COMPLETED"
    BY <1>4 DEF ReportList, RunOfItsDay
  <2>5. QED
    BY <1>2, <2>1, <2>2, <2>3, <2>4 DEF KeepsItsDay
<1>5. CASE ReportFinalize(w)
  <2>1. RowBecomes(d, Finalized(rReport[d], rRun[w].events)) /\ rRun'[w].pc = "deliver"
    BY <1>5, FinalizeEffect DEF MovesTo
  <2>2. rMail' = rMail /\ rRun[w].pc = "finalize"
    BY <1>5 DEF ReportFinalize
  <2>3. rReport[d].items \subseteq rRun[w].events /\ rReport[d].status # "COMPLETED"
    BY <2>2 DEF RunOfItsDay
  <2>4. /\ rReport'[d].items = rReport[d].items \cup rRun[w].events
        /\ rReport'[d].count = Cardinality(rRun[w].events)
    BY <2>1 DEF RowBecomes, Finalized
  <2>5. rReport'[d].items = rRun[w].events
    BY <2>3, <2>4
  <2>6. QED
    BY <2>1, <2>2, <2>3, <2>4, <2>5 DEF KeepsItsDay, RowBecomes
<1>6. CASE ReportGenerateFails(w)
  <2>1. /\ rRun'[w].pc = "failing" /\ rRun[w].pc \in {"list", "finalize"}
        /\ \/ rReport' = rReport
           \/ /\ rReport'[d].status = "FAILED"
              /\ \A x \in (1..Days) \ {d} : rReport'[x] = rReport[x]
    BY <1>6, GenerateFailsEffect DEF MovesTo, RowBecomes
  <2>2. rMail' = rMail /\ rReport[d].status # "COMPLETED"
    BY <1>6, <2>1 DEF ReportGenerateFails, RunOfItsDay
  <2>3. QED
    BY <1>2, <2>1, <2>2 DEF KeepsItsDay
<1>7. CASE ReportQueryFails(w)
  <2>1. rRun'[w].pc = "failing"
    BY <1>7, GotoMoves DEF ReportQueryFails, ReportBase, ReportPcs, MovesTo
  <2>2. QED
    BY <1>2, <1>7, <2>1 DEF ReportQueryFails, KeepsItsDay
<1>8. CASE ReportReserve(w)
  <2>1. \/ rRun'[w].pc = "ack" /\ rMail' = rMail
        \/ /\ rRun'[w].pc = "send" /\ rMail[d].log # "SENT" /\ rMail'[d].log # "SENT"
           /\ \A x \in (1..Days) \ {d} : rMail'[x] = rMail[x]
    BY <1>8, ReserveEffect DEF MovesTo, MailBecomes
  <2>2. rReport' = rReport
    BY <1>8 DEF ReportReserve
  <2>3. QED
    BY <1>2, <2>1, <2>2 DEF KeepsItsDay
<1>9. CASE ReportSend(w)
  <2>1. /\ rRun[w].pc = "send" /\ rRun'[w].pc \in {"sent", "unsent"}
        /\ rMail'[d].log = rMail[d].log /\ \A x \in (1..Days) \ {d} : rMail'[x] = rMail[x]
    BY <1>9, SendEffect DEF MovesTo, MailBecomes
  <2>2. rReport' = rReport
    BY <1>9 DEF ReportSend
  <2>3. rMail[d].log # "SENT"
    BY <2>1 DEF RunOfItsDay
  <2>4. QED
    BY <1>2, <2>1, <2>2, <2>3 DEF KeepsItsDay
<1>10. CASE ReportMark(w)
  <2>1. /\ rRun[w].pc \in {"sent", "unsent"} /\ rRun'[w].pc \in {"ack", "failing"}
        /\ \A x \in (1..Days) \ {d} : rMail'[x] = rMail[x]
    BY <1>10, MarkEffect DEF MovesTo, MailBecomes
  <2>2. rReport' = rReport
    BY <1>10 DEF ReportMark
  <2>3. rMail[d].log # "SENT"
    BY <2>1 DEF RunOfItsDay
  <2>4. QED
    BY <1>2, <2>1, <2>2, <2>3 DEF KeepsItsDay
<1>11. CASE ReportMarkFails(w)
  <2>1. rRun'[w].pc = "unsent"
    BY <1>11, GotoMoves DEF ReportMarkFails, ReportBase, ReportPcs, MovesTo
  <2>2. rReport' = rReport /\ rMail' = rMail /\ rMail[d].log # "SENT"
    BY <1>11 DEF ReportMarkFails, RunOfItsDay
  <2>3. QED
    BY <1>2, <2>1, <2>2 DEF KeepsItsDay
<1>12. QED
  BY <1>3, <1>4, <1>5, <1>6, <1>7, <1>8, <1>9, <1>10, <1>11 DEF RunSteps

(* Any other step leaves the rows of the report and its email alone, but   *)
(* for the handlers, and a run that goes on where it was.                  *)
LEMMA AloneStep ==
  ASSUME ReportBase, ItemsOfTheDay, Alone, [ReportNext]_rVars
  PROVE  Alone'
<1> SUFFICES ASSUME ~rLost'
             PROVE  /\ \A w \in ReportSlots : RunOfItsDay(w)'
                    /\ \A d \in 1..Days : rReport'[d].status = "COMPLETED" =>
                         rReport'[d].count = Cardinality(rReport'[d].items)
  BY DEF Alone
<1>1. ~rLost
  <2>1. rLost \in BOOLEAN
    BY DEF ReportBase, ReportTyped
  <2>2. ASSUME NEW d \in 1..Days, ReportStall(d)
        PROVE  ~rLost
    BY <2>1, <2>2, StallEffect
  <2>3. ASSUME NEW w \in ReportSlots, RunSteps(w)
        PROVE  ~rLost
    BY <2>3, RunGoesOn DEF GoesOn
  <2>4. ASSUME NEW w \in ReportSlots, ReportEnd(w) \/ ReportCrash(w) \/ \E d \in 1..Days : ReportTake(w, d)
        PROVE  ~rLost
    BY <2>4 DEF ReportEnd, ReportCrash, ReportTake
  <2>5. ASSUME NEW d \in 1..Days, ReportHandlerRead(d) \/ ReportHandlerMark(d)
        PROVE  ~rLost
    BY <2>5, HandlerEffect
  <2>6. CASE ReportTick
    BY <2>6 DEF ReportTick
  <2>7. CASE rLost' = rLost
    BY <2>7
  <2>8. QED
    BY <2>2, <2>3, <2>4, <2>5, <2>6, <2>7, ReportCases
<1>2. /\ \A w \in ReportSlots : RunOfItsDay(w)
      /\ \A d \in 1..Days : rReport[d].status = "COMPLETED" =>
           rReport[d].count = Cardinality(rReport[d].items)
  BY <1>1 DEF Alone
<1>3. ASSUME rReport' = rReport, rMail' = rMail,
             \A u \in ReportSlots : rRun'[u].pc = "idle" \/
               (rRun'[u] = rRun[u] /\ rJob'[rRun[u].day].lock = rJob[rRun[u].day].lock)
      PROVE  /\ \A u \in ReportSlots : RunOfItsDay(u)'
             /\ \A d \in 1..Days : rReport'[d].status = "COMPLETED" =>
                  rReport'[d].count = Cardinality(rReport'[d].items)
  BY <1>2, <1>3 DEF RunOfItsDay
<1>4. CASE rReport' = rReport /\ rMail' = rMail /\ rRun' = rRun /\ rJob' = rJob
  BY <1>3, <1>4
<1>5. CASE ReportTick
  <2>1. rReport' = rReport /\ rMail' = rMail /\ rRun' = rRun
    BY <1>5 DEF ReportTick
  <2>2. \A d \in 1..Days : rJob'[d].lock = rJob[d].lock
    BY <1>5 DEF ReportTick, ReportBase, ReportTyped, Added, QueueJob
  <2>3. \A u \in ReportSlots : rRun[u].pc = "idle" \/ rRun[u].day \in 1..Days
    BY DayOfRun
  <2>4. QED
    BY <1>3, <2>1, <2>2, <2>3
<1>6. ASSUME NEW w \in ReportSlots, RunSteps(w)
      PROVE  /\ \A u \in ReportSlots : RunOfItsDay(u)'
             /\ \A d \in 1..Days : rReport'[d].status = "COMPLETED" =>
                  rReport'[d].count = Cardinality(rReport'[d].items)
  <2> DEFINE e == rRun[w].day
  <2>1. GoesOn(w) /\ e \in 1..Days
    BY <1>6, RunGoesOn, DayOfRun DEF GoesOn
  <2>2. KeepsItsDay(w, e)
    BY <1>2, <1>6, RunKeepsItsDay
  <2>3. \A d \in 1..Days : rReport'[d].status = "COMPLETED" =>
          rReport'[d].count = Cardinality(rReport'[d].items)
    BY <1>2, <2>1, <2>2 DEF KeepsItsDay
  <2>4. RunOfItsDay(w)'
    BY <1>2, <2>1, <2>2 DEF KeepsItsDay, RunOfItsDay, GoesOn
  <2>5. ASSUME NEW u \in ReportSlots \ {w}
        PROVE  RunOfItsDay(u)'
    <3>1. rRun'[u] = rRun[u] /\ rJob' = rJob
      BY <2>1 DEF GoesOn
    <3>2. CASE rRun[u].pc = "idle"
      BY <3>1, <3>2 DEF RunOfItsDay
    <3>3. CASE rRun[u].pc # "idle"
      <4>1. rRun[u].day \in 1..Days /\ rRun[u].day # e
        BY <1>2, <2>1, <3>3, DayOfRun DEF RunOfItsDay, GoesOn
      <4>2. rReport'[rRun[u].day] = rReport[rRun[u].day] /\ rMail'[rRun[u].day] = rMail[rRun[u].day]
        BY <2>2, <4>1 DEF KeepsItsDay
      <4>3. RunOfItsDay(u)
        BY <1>2
      <4>4. QED
        BY <3>1, <4>2, <4>3 DEF RunOfItsDay
    <3>4. QED
      BY <3>2, <3>3
  <2>6. QED
    BY <2>3, <2>4, <2>5
<1>7. ASSUME NEW w \in ReportSlots, ReportEnd(w) \/ ReportCrash(w)
      PROVE  /\ \A u \in ReportSlots : RunOfItsDay(u)'
             /\ \A d \in 1..Days : rReport'[d].status = "COMPLETED" =>
                  rReport'[d].count = Cardinality(rReport'[d].items)
  <2>1. Frees(w) /\ rReport' = rReport /\ rMail' = rMail /\ rRun[w].pc # "idle"
    BY <1>7, IdleFrees DEF ReportEnd, ReportCrash, ReportBase
  <2>2. \A u \in ReportSlots \ {w} : rRun[u].pc = "idle" \/
          (rRun[u].day \in 1..Days /\ rRun[u].day # rRun[w].day)
    BY <1>2, <2>1, DayOfRun DEF RunOfItsDay
  <2>3. \A x \in (1..Days) \ {rRun[w].day} : rJob'[x] = rJob[x]
    BY <1>7, EndEffect DEF ReportCrash, JobBecomes
  <2>4. QED
    BY <1>3, <2>1, <2>2, <2>3 DEF Frees
<1>8. ASSUME NEW w \in ReportSlots, NEW d \in 1..Days, ReportTake(w, d)
      PROVE  /\ \A u \in ReportSlots : RunOfItsDay(u)'
             /\ \A x \in 1..Days : rReport'[x].status = "COMPLETED" =>
                  rReport'[x].count = Cardinality(rReport'[x].items)
  <2>1. /\ rRun[w].pc = "idle" /\ rJob[d].state = "waiting" /\ rJob'[d].lock = w
        /\ rRun'[w].pc = "period" /\ rRun'[w].day = d
        /\ \A u \in ReportSlots \ {w} : rRun'[u] = rRun[u]
        /\ \A x \in (1..Days) \ {d} : rJob'[x] = rJob[x]
    BY <1>8, TakeEffect DEF JobBecomes
  <2>2. rReport' = rReport /\ rMail' = rMail
    BY <1>8 DEF ReportTake
  <2>3. RunOfItsDay(w)'
    BY <2>1 DEF RunOfItsDay
  <2>4. rJob[d].lock = None
    BY <2>1 DEF ReportBase, LocksAndDays
  <2>5. ASSUME NEW u \in ReportSlots \ {w}
        PROVE  RunOfItsDay(u)'
    <3>1. rRun[u].pc = "idle" \/ (rRun[u].day \in 1..Days /\ rRun[u].day # d)
      BY <1>2, <2>4, DayOfRun, ReportConstants DEF RunOfItsDay
    <3>2. RunOfItsDay(u)
      BY <1>2
    <3>3. QED
      BY <2>1, <2>2, <3>1, <3>2 DEF RunOfItsDay
  <2>6. QED
    BY <1>2, <2>2, <2>3, <2>5
<1>9. ASSUME NEW d \in 1..Days, ReportStall(d)
      PROVE  /\ \A u \in ReportSlots : RunOfItsDay(u)'
             /\ \A x \in 1..Days : rReport'[x].status = "COMPLETED" =>
                  rReport'[x].count = Cardinality(rReport'[x].items)
  <2>1. /\ ~Alive(d) /\ rJob[d].lock \in ReportSlots
        /\ \A x \in (1..Days) \ {d} : rJob'[x] = rJob[x]
    BY <1>9, StallEffect DEF JobBecomes
  <2>2. rReport' = rReport /\ rMail' = rMail /\ rRun' = rRun
    BY <1>9 DEF ReportStall
  <2>3. \A u \in ReportSlots : rRun[u].pc = "idle" \/ (rRun[u].day \in 1..Days /\ rRun[u].day # d)
    BY <1>2, <2>1, DayOfRun, ReportConstants DEF RunOfItsDay, Alive
  <2>4. QED
    BY <1>3, <2>1, <2>2, <2>3
<1>10. ASSUME NEW d \in 1..Days, ReportHandlerRead(d) \/ ReportHandlerMark(d)
       PROVE  /\ \A u \in ReportSlots : RunOfItsDay(u)'
              /\ \A x \in 1..Days : rReport'[x].status = "COMPLETED" =>
                   rReport'[x].count = Cardinality(rReport'[x].items)
  <2>1. /\ \A x \in 1..Days : rReport'[x].items = rReport[x].items /\ rReport'[x].count = rReport[x].count
        /\ \A x \in 1..Days : rReport'[x].status = "COMPLETED" => rReport[x].status = "COMPLETED"
        /\ rMail' = rMail /\ rJob' = rJob /\ rRun' = rRun
    BY <1>10, HandlerEffect
  <2>2. \A u \in ReportSlots : rRun[u].pc = "idle" \/ rRun[u].day \in 1..Days
    BY DayOfRun
  <2>3. QED
    BY <1>2, <2>1, <2>2 DEF RunOfItsDay
<1>11. QED
  BY <1>4, <1>5, <1>6, <1>7, <1>8, <1>9, <1>10, ReportCases

ReportInv == ReportBase /\ ItemsOfTheDay /\ EmailsCounted /\ SentHasLeft /\ Alone

LEMMA ReportInvariant == ReportSpec => []ReportInv
<1>1. ReportInit => ReportInv
  <2> SUFFICES ASSUME ReportInit PROVE ReportInv
    OBVIOUS
  <2>1. NoReport \in ReportRow /\ ReportIdle \in ReportRun /\ [log |-> "none", left |-> 0] \in MailRow
    <3>1. 0 \in 0..Cardinality(Changes) /\ 0 \in 0..Days
      BY ReportConstants, FS_CardinalityType
    <3>2. QED
      BY <3>1 DEF NoReport, ReportIdle, ReportRow, ReportRun, ReportPcs, MailRow
  <2>2. NoJob \in QueueJob(ReportSlots) /\ NoJob.lock = None /\ NoJob.state = "absent"
    BY ReportConstants DEF NoJob, QueueJob
  <2>3. ReportTyped
    <3>1. 1 \in 1..Days /\ 0 \in 0..Days /\ 0 \in 0..MaxAttempts /\ 0 \in 0..MaxFaults
      BY ReportConstants
    <3>2. QED
      BY <2>1, <2>2, <3>1 DEF ReportInit, ReportTyped
  <2>4. /\ \A d \in 1..Days : rJob[d] = NoJob /\ rTries[d] = 0 /\ rReport[d] = NoReport
        /\ \A d \in 1..Days : rMail[d].left = 0 /\ rMail[d].log = "none"
        /\ \A w \in ReportSlots : rRun[w] = ReportIdle
        /\ ReportIdle.pc = "idle" /\ ReportIdle.day = 0 /\ rFaults = 0
    BY DEF ReportInit, ReportIdle
  <2>5. LocksAndDays
    BY <2>2, <2>4, ReportConstants DEF LocksAndDays, Ended
  <2>6. ItemsOfTheDay /\ SentHasLeft /\ Alone
    BY <2>4 DEF ItemsOfTheDay, SentHasLeft, Alone, RunOfItsDay, NoReport
  <2>7. \A d \in 1..Days : Strays(d) = {}
    BY <2>4 DEF Strays, Unsent
  <2>8. EmailsCounted
    BY <2>4, <2>7, FS_EmptySet DEF EmailsCounted
  <2>9. QED
    BY <2>3, <2>5, <2>6, <2>8 DEF ReportInv, ReportBase
<1>2. ReportInv /\ [ReportNext]_rVars => ReportInv'
  BY ReportBaseStep, ItemsStep, CountedStep, SentStep, AloneStep DEF ReportInv
<1>3. QED
  BY <1>1, <1>2, PTL DEF ReportSpec

(* The emails of a day's report are one plus one per fault at most, an     *)
(* email recorded as sent has left, and a COMPLETED report counts its      *)
(* items - whatever is retried, redelivered or crashes.                    *)
THEOREM ReportsAgreeCorrect == ReportSpec => []ReportsAgree
<1>1. ReportInv => ReportsAgree
  <2> SUFFICES ASSUME ReportInv PROVE OneEmailPerFault /\ CountIsItems
    BY DEF ReportsAgree
  <2>1. \A d \in 1..Days : rMail[d].left <= 1 + rFaults
    <3> SUFFICES ASSUME NEW d \in 1..Days PROVE rMail[d].left <= 1 + rFaults
      OBVIOUS
    <3>1. rMail[d].left + Cardinality(Strays(d)) <= rFaults + 1 /\ Cardinality(Strays(d)) \in Nat
      BY StraysFinite DEF ReportInv, EmailsCounted
    <3>2. rMail[d].left \in Nat /\ rFaults \in Nat
      BY ReportConstants DEF ReportInv, ReportBase, ReportTyped, MailRow
    <3>3. QED
      BY <3>1, <3>2
  <2>2. OneEmailPerFault
    BY <2>1 DEF OneEmailPerFault, ReportInv, SentHasLeft
  <2>3. CountIsItems
    BY DEF CountIsItems, ReportInv, Alone
  <2>4. QED
    BY <2>2, <2>3
<1>2. QED
  BY <1>1, ReportInvariant, PTL

(* Types of the reports, whose items belong to their day.                  *)
THEOREM ReportTypeCorrect == ReportSpec => []ReportTypeOK
<1>1. ReportInv => ReportTypeOK
  <2> SUFFICES ASSUME ReportInv PROVE ReportTypeOK
    OBVIOUS
  <2>1. ReportTyped /\ ItemsOfTheDay
    BY DEF ReportInv, ReportBase
  <2>2. ASSUME NEW d \in 1..Days
        PROVE  /\ rReport[d].status \in {"ABSENT", "GENERATING", "COMPLETED", "FAILED"}
               /\ rReport[d].items \subseteq DetectedOn(d) /\ rReport[d].count \in 0..Cardinality(Changes)
               /\ rMail[d].log \in {"none", "PENDING", "SENT", "FAILED"} /\ rMail[d].left \in Nat
               /\ rJob[d] \in QueueJob(ReportSlots) /\ rTries[d] \in 0..MaxAttempts
    BY <2>1 DEF ReportTyped, ItemsOfTheDay, ReportRow, MailRow, DetectedOn
  <2>3. ASSUME NEW w \in ReportSlots
        PROVE  rRun[w].pc \in ReportPcs /\ rRun[w].day \in 0..Days /\ rRun[w].events \subseteq Changes
    BY <2>1 DEF ReportTyped, ReportRun
  <2>4. QED
    BY <2>1, <2>2, <2>3 DEF ReportTyped, ReportTypeOK, ReportPcs
<1>2. QED
  BY <1>1, ReportInvariant, PTL

(* The same facts show what a step leaves alone.                           *)
ReportStays(d) ==
  /\ rReport[d].status = "COMPLETED" /\ rReport'[d] # rReport[d] => rLost \/ <<d, "mark">> \in rHandler
  /\ rMail[d].log = "SENT" /\ ~rLost => rMail'[d] = rMail[d]

LEMMA CompletedStaysCorrect == ReportSpec => CompletedStays
<1>1. ReportInv /\ [ReportNext]_rVars => [\A d \in 1..Days : ReportStays(d)]_rVars
  <2> SUFFICES ASSUME ReportInv, [ReportNext]_rVars, NEW d \in 1..Days
               PROVE  ReportStays(d)
    OBVIOUS
  <2> USE DEF ReportInv
  <2>1. CASE rReport' = rReport /\ rMail' = rMail
    BY <2>1 DEF ReportStays
  <2>2. ASSUME NEW w \in ReportSlots, RunSteps(w)
        PROVE  ReportStays(d)
    <3>1. rRun[w].day \in 1..Days
      BY <2>2, RunGoesOn, DayOfRun DEF GoesOn
    <3>2. CASE rLost
      <4>1. rReport'[d] = rReport[d] \/ rLost
        BY <3>2
      <4>2. QED
        BY <3>2 DEF ReportStays
    <3>3. CASE ~rLost
      <4>1. KeepsItsDay(w, rRun[w].day)
        BY <2>2, <3>3, RunKeepsItsDay DEF Alone
      <4>2. QED
        BY <3>1, <4>1 DEF KeepsItsDay, ReportStays
    <3>4. QED
      BY <3>2, <3>3
  <2>3. ASSUME NEW w \in ReportSlots, ReportEnd(w) \/ ReportCrash(w) \/ \E e \in 1..Days : ReportTake(w, e)
        PROVE  ReportStays(d)
    BY <2>1, <2>3 DEF ReportEnd, ReportCrash, ReportTake
  <2>4. ASSUME NEW e \in 1..Days, ReportStall(e)
        PROVE  ReportStays(d)
    BY <2>1, <2>4 DEF ReportStall
  <2>5. ASSUME NEW e \in 1..Days, ReportHandlerRead(e) \/ ReportHandlerMark(e)
        PROVE  ReportStays(d)
    BY <2>5, HandlerEffect DEF ReportStays
  <2>6. CASE ReportTick
    BY <2>1, <2>6 DEF ReportTick
  <2>7. QED
    BY <2>1, <2>2, <2>3, <2>4, <2>5, <2>6, ReportCases
<1>2. QED
  BY <1>1, ReportInvariant, PTL DEF ReportSpec, CompletedStays, ReportStays

-----------------------------------------------------------------------------
(* The capability checks: types.                                           *)
CheckWorker ==
  [pc: {"idle", "read", "start", "select", "pages", "record", "giveup", "ack", "failing"},
   check: Checks \cup {None}, batch: SUBSET Pages, page: Pages \cup {None},
   first: BOOLEAN, snap: [Pages -> 0..MaxScans]]
CheckRow == [status: {"ABSENT", "PENDING", "RUNNING", "COMPLETED", "FAILED"}, recent: BOOLEAN]

(* A live run holds the lock of its job or has lost it; a handler acts on  *)
(* a job that has failed; and what may still be marked is open, or its POST *)
(* has failed, or a slot went on with it after losing its job.             *)
Spoilt(c) == cClick[c] \in {"orphan", "lost"} \/ c \in cLate
CheckOpenPcs == {"start", "select", "pages", "record", "giveup"}
HoldsItsCheck(w) ==
  /\ cWorker[w].pc # "idle" =>
       /\ cWorker[w].check \in Checks
       /\ cJob[cWorker[w].check].lock = w \/ cWorker[w].check \in cLate
  /\ cWorker[w].pc \in CheckOpenPcs => CheckOpen(cWorker[w].check) \/ Spoilt(cWorker[w].check)
CheckInOrder(c) ==
  /\ cClick[c] \in {"idle", "create"} => cRun[c].status = "ABSENT"
  /\ cClick[c] \in {"idle", "create", "add"} => cJob[c].state = "absent"
  /\ cJob[c].lock # None <=> cJob[c].state = "active"
  /\ c \in cLate => cJob[c].state # "absent"
  /\ cHandler[c] # "none" => cJob[c].state = "failed"
  /\ cHandler[c] = "mark" => CheckOpen(c) \/ Spoilt(c)

CheckTyped ==
  /\ cRun \in [Checks -> CheckRow]
  /\ cClick \in [Checks -> {"idle", "create", "add", "orphan", "done", "lost"}]
  /\ cJob \in [Checks -> QueueJob(CheckSlots)]
  /\ cWorker \in [CheckSlots -> CheckWorker]
  /\ cHandler \in [Checks -> {"none", "read", "mark"}]
  /\ cPage \in [Pages -> [snap: 1..MaxScans, read: 0..MaxScans]]
  /\ cLate \subseteq Checks

(* A run moves on, with its check; what it does to its batch is below.     *)
CheckMoves(w, pc) ==
  /\ cWorker' \in [CheckSlots -> CheckWorker]
  /\ cWorker'[w].pc = pc /\ cWorker'[w].check = cWorker[w].check
  /\ \A v \in CheckSlots \ {w} : cWorker'[v] = cWorker[v]

KeepsBatch(w) ==
  /\ cWorker'[w].batch = cWorker[w].batch /\ cWorker'[w].page = cWorker[w].page
  /\ cWorker'[w].snap = cWorker[w].snap

CheckPcs == {"idle", "read", "start", "select", "pages", "record", "giveup", "ack", "failing"}

LEMMA CheckAtMoves ==
  ASSUME CheckTyped, NEW w \in CheckSlots, NEW pc \in CheckPcs, CheckAt(w, pc)
  PROVE  CheckMoves(w, pc) /\ KeepsBatch(w)
BY ZenonT(40) DEF CheckTyped, CheckAt, CheckMoves, KeepsBatch, CheckWorker, CheckPcs

LEMMA CheckIdleType ==
  /\ CheckIdle \in CheckWorker /\ CheckIdle.pc = "idle" /\ CheckIdle.batch = {}
BY CheckConstants DEF CheckIdle, CheckWorker

LEMMA TakeMoves ==
  ASSUME CheckTyped, NEW w \in CheckSlots, NEW c \in Checks, CheckTake(w, c)
  PROVE  /\ cWorker' \in [CheckSlots -> CheckWorker]
         /\ cWorker'[w].pc = "read" /\ cWorker'[w].check = c /\ cWorker'[w].batch = {}
         /\ \A v \in CheckSlots \ {w} : cWorker'[v] = cWorker[v]
<1> DEFINE q == [CheckIdle EXCEPT !.pc = "read"]
           r == [q EXCEPT !.check = c]
<1>1. q \in CheckWorker /\ q.pc = "read" /\ q.batch = {}
  BY CheckIdleType DEF CheckWorker
<1> HIDE DEF q
<1>2. r \in CheckWorker /\ r.pc = "read" /\ r.check = c /\ r.batch = {}
  BY <1>1 DEF CheckWorker
<1>3. cWorker' = [cWorker EXCEPT ![w] = r]
  BY DEF CheckTake, q
<1> HIDE DEF r
<1>4. QED
  BY <1>2, <1>3 DEF CheckTyped

LEMMA SelectMoves ==
  ASSUME CheckTyped, NEW w \in CheckSlots, CheckSelect(w)
  PROVE  /\ CheckMoves(w, "pages")
         /\ \A p \in cWorker'[w].batch :
              p \in Pages /\ cPage[p].read # cPage[p].snap /\ cWorker'[w].snap[p] = cPage[p].snap
<1>1. PICK B \in SUBSET Pages :
        /\ IsBatch(B)
        /\ cWorker' = [cWorker EXCEPT ![w].pc = "pages", ![w].batch = B,
                         ![w].snap = [p \in Pages |-> IF p \in B THEN cPage[p].snap ELSE 0]]
  BY DEF CheckSelect
<1> DEFINE f == [p \in Pages |-> IF p \in B THEN cPage[p].snap ELSE 0]
           a == [cWorker EXCEPT ![w].pc = "pages"]
           b == [a EXCEPT ![w].batch = B]
<1>2. f \in [Pages -> 0..MaxScans] /\ \A p \in B : f[p] = cPage[p].snap
  BY CheckConstants DEF CheckTyped
<1>3. cWorker' = [b EXCEPT ![w].snap = f]
  BY <1>1
<1> HIDE DEF f
<1>4. /\ a \in [CheckSlots -> CheckWorker] /\ a[w].pc = "pages" /\ a[w].check = cWorker[w].check
      /\ \A v \in CheckSlots \ {w} : a[v] = cWorker[v]
  BY ZenonT(40) DEF CheckTyped, CheckWorker
<1> HIDE DEF a
<1>5. /\ b \in [CheckSlots -> CheckWorker] /\ b[w].pc = "pages" /\ b[w].check = cWorker[w].check
      /\ b[w].batch = B /\ \A v \in CheckSlots \ {w} : b[v] = cWorker[v]
  BY <1>4 DEF CheckWorker
<1> HIDE DEF b
<1>6. /\ cWorker' \in [CheckSlots -> CheckWorker] /\ cWorker'[w].pc = "pages"
      /\ cWorker'[w].check = cWorker[w].check /\ cWorker'[w].batch = B /\ cWorker'[w].snap = f
      /\ \A v \in CheckSlots \ {w} : cWorker'[v] = cWorker[v]
  BY <1>2, <1>3, <1>5 DEF CheckWorker
<1>7. QED
  BY <1>1, <1>2, <1>6 DEF CheckMoves, IsBatch, Due

LEMMA CallMoves ==
  ASSUME CheckTyped, NEW w \in CheckSlots, NEW p \in Pages, CheckCall(w, p)
  PROVE  /\ \E pc \in {"record", "pages", "giveup"} : CheckMoves(w, pc)
         /\ cWorker[w].pc = "pages" /\ p \in cWorker[w].batch
         /\ cWorker'[w].batch = cWorker[w].batch \ {p}
         /\ cWorker'[w].pc = "record" => cWorker'[w].page = p
         /\ \A q \in cWorker'[w].batch : cWorker'[w].snap[q] = cWorker[w].snap[q]
<1>1. PICK pc \in {"record", "pages", "giveup"} :
        cWorker' = [cWorker EXCEPT
         ![w].pc = pc, ![w].batch = @ \ {p}, ![w].first = FALSE,
         ![w].page = IF pc = "record" THEN p ELSE None,
         ![w].snap = IF pc = "record" THEN @ ELSE [@ EXCEPT ![p] = 0]]
  BY DEF CheckCall
<1> DEFINE B == cWorker[w].batch \ {p}
           g == IF pc = "record" THEN p ELSE None
           f == IF pc = "record" THEN cWorker[w].snap ELSE [cWorker[w].snap EXCEPT ![p] = 0]
           x1 == [cWorker EXCEPT ![w].pc = pc]
           x2 == [x1 EXCEPT ![w].batch = B]
           x3 == [x2 EXCEPT ![w].first = FALSE]
           x4 == [x3 EXCEPT ![w].page = g]
<1>2. cWorker' = [x4 EXCEPT ![w].snap = f]
  BY <1>1
<1>3. f \in [Pages -> 0..MaxScans] /\ \A q \in B : f[q] = cWorker[w].snap[q]
  BY CheckConstants DEF CheckTyped, CheckWorker
<1>4. g \in Pages \cup {None} /\ (pc = "record" => g = p) /\ B \in SUBSET Pages
  BY DEF CheckTyped, CheckWorker
<1> HIDE DEF f, g, B
<1>5. /\ x1 \in [CheckSlots -> CheckWorker] /\ x1[w].pc = pc /\ x1[w].check = cWorker[w].check
      /\ \A v \in CheckSlots \ {w} : x1[v] = cWorker[v]
  BY ZenonT(40) DEF CheckTyped, CheckWorker
<1> HIDE DEF x1
<1>6. /\ x2 \in [CheckSlots -> CheckWorker] /\ x2[w].pc = pc /\ x2[w].check = cWorker[w].check
      /\ x2[w].batch = B /\ \A v \in CheckSlots \ {w} : x2[v] = cWorker[v]
  BY <1>4, <1>5 DEF CheckWorker
<1> HIDE DEF x2
<1>7. /\ x3 \in [CheckSlots -> CheckWorker] /\ x3[w].pc = pc /\ x3[w].check = cWorker[w].check
      /\ x3[w].batch = B /\ \A v \in CheckSlots \ {w} : x3[v] = cWorker[v]
  BY <1>6 DEF CheckWorker
<1> HIDE DEF x3
<1>8. /\ x4 \in [CheckSlots -> CheckWorker] /\ x4[w].pc = pc /\ x4[w].check = cWorker[w].check
      /\ x4[w].batch = B /\ x4[w].page = g /\ \A v \in CheckSlots \ {w} : x4[v] = cWorker[v]
  BY <1>4, <1>7 DEF CheckWorker
<1> HIDE DEF x4
<1>9. /\ cWorker' \in [CheckSlots -> CheckWorker] /\ cWorker'[w].pc = pc
      /\ cWorker'[w].check = cWorker[w].check /\ cWorker'[w].batch = B
      /\ cWorker'[w].page = g /\ cWorker'[w].snap = f
      /\ \A v \in CheckSlots \ {w} : cWorker'[v] = cWorker[v]
  BY <1>2, <1>3, <1>8 DEF CheckWorker
<1>10. QED
  BY <1>3, <1>4, <1>9 DEF CheckMoves, CheckCall, B

LEMMA RecordMoves ==
  ASSUME CheckTyped, NEW w \in CheckSlots, CheckRecord(w), cWorker[w].page \notin cWorker[w].batch,
         cWorker[w].page \in Pages
  PROVE  /\ CheckMoves(w, "pages") /\ cWorker'[w].batch = cWorker[w].batch
         /\ \A q \in cWorker[w].batch : cWorker'[w].snap[q] = cWorker[w].snap[q]
         /\ cPage' \in [Pages -> [snap: 1..MaxScans, read: 0..MaxScans]]
         /\ \A q \in Pages \ {cWorker[w].page} : cPage'[q] = cPage[q]
<1> DEFINE p == cWorker[w].page
           x1 == [cWorker EXCEPT ![w].pc = "pages"]
           x2 == [x1 EXCEPT ![w].page = None]
<1>1. cWorker' = [x2 EXCEPT ![w].snap[p] = 0]
  BY DEF CheckRecord
<1>2. /\ cPage' \in [Pages -> [snap: 1..MaxScans, read: 0..MaxScans]]
      /\ \A q \in Pages \ {p} : cPage'[q] = cPage[q]
  <2>1. cWorker[w].snap[p] \in 0..MaxScans
    BY DEF CheckTyped, CheckWorker
  <2>2. cPage' = [cPage EXCEPT ![p].read = cWorker[w].snap[p]] \/ cPage' = cPage
    BY DEF CheckRecord
  <2>3. QED
    BY <2>1, <2>2 DEF CheckTyped
<1>3. /\ x1 \in [CheckSlots -> CheckWorker] /\ x1[w].pc = "pages" /\ x1[w].check = cWorker[w].check
      /\ x1[w].batch = cWorker[w].batch /\ x1[w].snap = cWorker[w].snap
      /\ \A v \in CheckSlots \ {w} : x1[v] = cWorker[v]
  <2>1. cWorker \in [CheckSlots -> CheckWorker]
    BY DEF CheckTyped
  <2>2. x1[w] = [cWorker[w] EXCEPT !.pc = "pages"] /\ \A v \in CheckSlots \ {w} : x1[v] = cWorker[v]
    BY <2>1
  <2>3. cWorker[w] \in CheckWorker
    BY <2>1
  <2>4. [cWorker[w] EXCEPT !.pc = "pages"] \in CheckWorker
    BY <2>3 DEF CheckWorker
  <2>5. x1 = [v \in CheckSlots |-> IF v = w THEN [cWorker[w] EXCEPT !.pc = "pages"] ELSE cWorker[v]]
    BY <2>1
  <2>6. x1 \in [CheckSlots -> CheckWorker]
    BY <2>1, <2>4, <2>5
  <2>7. QED
    BY <2>2, <2>3, <2>6 DEF CheckWorker
<1> HIDE DEF x1
<1>4. /\ x2 \in [CheckSlots -> CheckWorker] /\ x2[w].pc = "pages" /\ x2[w].check = cWorker[w].check
      /\ x2[w].batch = cWorker[w].batch /\ x2[w].snap = cWorker[w].snap
      /\ \A v \in CheckSlots \ {w} : x2[v] = cWorker[v]
  BY <1>3 DEF CheckWorker
<1> HIDE DEF x2
<1> DEFINE f == [x2[w].snap EXCEPT ![p] = 0]
<1>5. cWorker' = [x2 EXCEPT ![w].snap = f]
  BY <1>1
<1>6. f \in [Pages -> 0..MaxScans] /\ \A q \in cWorker[w].batch : f[q] = cWorker[w].snap[q]
  <2>1. cWorker[w].batch \subseteq Pages /\ x2[w].snap \in [Pages -> 0..MaxScans] /\ 0 \in 0..MaxScans
    BY <1>4, CheckConstants DEF CheckTyped, CheckWorker
  <2>2. QED
    BY <1>4, <2>1
<1> HIDE DEF f, p
<1>7. /\ cWorker' \in [CheckSlots -> CheckWorker] /\ cWorker'[w].pc = "pages"
      /\ cWorker'[w].check = cWorker[w].check /\ cWorker'[w].batch = cWorker[w].batch
      /\ cWorker'[w].snap = f /\ \A v \in CheckSlots \ {w} : cWorker'[v] = cWorker[v]
  BY <1>4, <1>5, <1>6, ZenonT(40) DEF CheckWorker
<1>8. QED
  BY <1>2, <1>6, <1>7 DEF CheckMoves, p

(* What a step of a run does: its check, its row and its batch.            *)
RecordsItsPage ==
  \A w \in CheckSlots : cWorker[w].pc = "record" => cWorker[w].page \in Pages \ cWorker[w].batch

(* None of the pages a run is still to read has been read as it saw them.  *)
Unread(w) == \A p \in cWorker[w].batch : p \in Pages /\ cPage[p].read # cWorker[w].snap[p]

PagesTyped == cPage \in [Pages -> [snap: 1..MaxScans, read: 0..MaxScans]]

CheckStep(w) ==
  \/ CheckRead(w) \/ CheckStart(w) \/ CheckSelect(w) \/ (\E p \in Pages : CheckCall(w, p))
  \/ CheckRecord(w) \/ CheckComplete(w) \/ CheckThrow(w)

CheckRowMoves(w, c) ==
  /\ cRun' \in [Checks -> CheckRow] /\ \A e \in Checks \ {c} : cRun'[e] = cRun[e]
  /\ cRun' = cRun \/ cWorker[w].pc \in CheckOpenPcs
  /\ cWorker'[w].pc \in CheckOpenPcs =>
       \/ cRun' = cRun /\ (cWorker[w].pc \in CheckOpenPcs \/ CheckOpen(c))
       \/ cRun'[c].status = "RUNNING"

CheckGoesOn(w) ==
  /\ cWorker[w].pc # "idle" /\ cWorker' \in [CheckSlots -> CheckWorker]
  /\ cWorker'[w].pc # "idle" /\ cWorker'[w].check = cWorker[w].check
  /\ \A v \in CheckSlots \ {w} : cWorker'[v] = cWorker[v]
  /\ cClick' = cClick /\ cJob' = cJob /\ cHandler' = cHandler /\ cLate' = cLate
  /\ CheckRowMoves(w, cWorker[w].check)
  /\ PagesTyped'
  /\ cWorker'[w].pc = "record" => cWorker'[w].page \in Pages \ cWorker'[w].batch
  /\ Unread(w) => Unread(w)'

LEMMA MarkedRow ==
  ASSUME CheckTyped, NEW c, NEW s \in {"PENDING", "RUNNING", "COMPLETED", "FAILED"}, CheckMarked(c, s)
  PROVE  /\ cRun' \in [Checks -> CheckRow] /\ \A e \in Checks \ {c} : cRun'[e] = cRun[e]
         /\ c \in Checks => cRun'[c].status = s
BY DEF CheckTyped, CheckMarked, CheckRow

LEMMA StepGoesOn ==
  ASSUME CheckTyped, \A v \in CheckSlots : HoldsItsCheck(v), RecordsItsPage, NEW w \in CheckSlots, CheckStep(w)
  PROVE  CheckGoesOn(w)
<1> DEFINE c == cWorker[w].check
<1>1. PagesTyped /\ cRun \in [Checks -> CheckRow]
  BY DEF PagesTyped, CheckTyped
<1>2. cWorker[w].pc # "idle" => c \in Checks
  BY DEF HoldsItsCheck
<1>3. ASSUME NEW pc \in CheckPcs \ {"idle"}, CheckAt(w, pc), cPage' = cPage
      PROVE  /\ cWorker' \in [CheckSlots -> CheckWorker]
             /\ cWorker'[w].pc = pc /\ cWorker'[w].check = c
             /\ \A v \in CheckSlots \ {w} : cWorker'[v] = cWorker[v]
             /\ PagesTyped' /\ (Unread(w) => Unread(w)')
  <2>1. CheckMoves(w, pc) /\ KeepsBatch(w)
    BY <1>3, CheckAtMoves
  <2>2. QED
    BY <1>1, <1>3, <2>1 DEF CheckMoves, KeepsBatch, PagesTyped, Unread
<1>4. CASE CheckRead(w)
  <2>1. PICK pc \in {"start", "ack"} : CheckAt(w, pc) /\ (pc = "start" => CheckOpen(c))
    BY <1>4 DEF CheckRead
  <2>2. /\ cPage' = cPage /\ cRun' = cRun /\ cClick' = cClick /\ cJob' = cJob /\ cHandler' = cHandler /\ cLate' = cLate
        /\ cWorker[w].pc = "read" /\ pc \in CheckPcs \ {"idle"} /\ pc # "record"
    BY <1>4 DEF CheckRead, CheckPcs
  <2>3. CheckRowMoves(w, c)
    BY <1>1, <1>3, <2>1, <2>2 DEF CheckRowMoves, CheckOpenPcs
  <2>4. QED
    BY <1>3, <2>1, <2>2, <2>3 DEF CheckGoesOn
<1>5. CASE CheckStart(w)
  <2>1. CheckAt(w, "select") /\ CheckMarked(c, "RUNNING")
    BY <1>5 DEF CheckStart
  <2>2. /\ cPage' = cPage /\ cClick' = cClick /\ cJob' = cJob /\ cHandler' = cHandler /\ cLate' = cLate
        /\ cWorker[w].pc = "start" /\ "select" \in CheckPcs \ {"idle"} /\ "select" # "record"
    BY <1>5 DEF CheckStart, CheckPcs
  <2>3. CheckRowMoves(w, c)
    BY <1>2, <2>1, <2>2, MarkedRow DEF CheckRowMoves, CheckOpenPcs
  <2>4. QED
    BY <1>3, <2>1, <2>2, <2>3 DEF CheckGoesOn
<1>6. CASE CheckSelect(w)
  <2>1. /\ CheckMoves(w, "pages")
        /\ \A p \in cWorker'[w].batch :
             p \in Pages /\ cPage[p].read # cPage[p].snap /\ cWorker'[w].snap[p] = cPage[p].snap
    BY <1>6, SelectMoves
  <2>2. /\ cPage' = cPage /\ cRun' = cRun /\ cClick' = cClick /\ cJob' = cJob /\ cHandler' = cHandler /\ cLate' = cLate
        /\ cWorker[w].pc = "select"
    BY <1>6 DEF CheckSelect
  <2>3. CheckRowMoves(w, c)
    BY <1>1, <2>1, <2>2 DEF CheckRowMoves, CheckOpenPcs
  <2>4. Unread(w)'
    BY <2>1, <2>2 DEF Unread
  <2>5. QED
    BY <1>1, <2>1, <2>2, <2>3, <2>4 DEF CheckGoesOn, CheckMoves, PagesTyped
<1>7. ASSUME NEW p \in Pages, CheckCall(w, p)
      PROVE  CheckGoesOn(w)
  <2>1. /\ \E pc \in {"record", "pages", "giveup"} : CheckMoves(w, pc)
        /\ cWorker[w].pc = "pages" /\ p \in cWorker[w].batch
        /\ cWorker'[w].batch = cWorker[w].batch \ {p}
        /\ cWorker'[w].pc = "record" => cWorker'[w].page = p
        /\ \A q \in cWorker'[w].batch : cWorker'[w].snap[q] = cWorker[w].snap[q]
    BY <1>7, CallMoves
  <2>2. /\ cPage' = cPage /\ cRun' = cRun /\ cClick' = cClick /\ cJob' = cJob /\ cHandler' = cHandler /\ cLate' = cLate
    BY <1>7 DEF CheckCall
  <2>3. CheckRowMoves(w, c)
    BY <1>1, <2>1, <2>2 DEF CheckRowMoves, CheckOpenPcs
  <2>4. Unread(w) => Unread(w)'
    BY <2>1, <2>2 DEF Unread
  <2>5. QED
    BY <1>1, <2>1, <2>2, <2>3, <2>4 DEF CheckGoesOn, CheckMoves, PagesTyped
<1>8. CASE CheckRecord(w)
  <2>1. /\ cRun' = cRun /\ cClick' = cClick /\ cJob' = cJob /\ cHandler' = cHandler /\ cLate' = cLate
        /\ cWorker[w].pc = "record"
    BY <1>8 DEF CheckRecord
  <2>2. cWorker[w].page \in Pages /\ cWorker[w].page \notin cWorker[w].batch
    BY <2>1 DEF RecordsItsPage
  <2>3. /\ CheckMoves(w, "pages") /\ cWorker'[w].batch = cWorker[w].batch
        /\ \A q \in cWorker[w].batch : cWorker'[w].snap[q] = cWorker[w].snap[q]
        /\ cPage' \in [Pages -> [snap: 1..MaxScans, read: 0..MaxScans]]
        /\ \A q \in Pages \ {cWorker[w].page} : cPage'[q] = cPage[q]
    BY <1>8, <2>2, RecordMoves
  <2>4. CheckRowMoves(w, c)
    BY <1>1, <2>1, <2>3 DEF CheckRowMoves, CheckOpenPcs
  <2>5. Unread(w) => Unread(w)'
    BY <2>2, <2>3 DEF Unread
  <2>6. QED
    BY <2>1, <2>3, <2>4, <2>5 DEF CheckGoesOn, CheckMoves, PagesTyped
<1>9. CASE CheckComplete(w)
  <2>1. CheckAt(w, "ack") /\ CheckMarked(c, "COMPLETED")
    BY <1>9 DEF CheckComplete
  <2>2. /\ cPage' = cPage /\ cClick' = cClick /\ cJob' = cJob /\ cHandler' = cHandler /\ cLate' = cLate
        /\ cWorker[w].pc = "pages" /\ "ack" \in CheckPcs \ {"idle"} /\ "ack" # "record"
    BY <1>9 DEF CheckComplete, CheckPcs
  <2>3. CheckRowMoves(w, c)
    BY <1>3, <2>1, <2>2, MarkedRow DEF CheckRowMoves, CheckOpenPcs
  <2>4. QED
    BY <1>3, <2>1, <2>2, <2>3 DEF CheckGoesOn
<1>10. CASE CheckThrow(w)
  <2>1. PICK pc \in {"ack", "failing"} :
          /\ CheckAt(w, pc)
          /\ \/ cRun' = cRun
             \/ CheckMarked(c, "FAILED") /\ cWorker[w].pc \in {"start", "select", "giveup", "pages"}
    BY <1>10 DEF CheckThrow
  <2>2. /\ cPage' = cPage /\ cClick' = cClick /\ cJob' = cJob /\ cHandler' = cHandler /\ cLate' = cLate
        /\ cWorker[w].pc # "idle" /\ pc \in CheckPcs \ {"idle"} /\ pc # "record"
    BY <1>10, <2>1 DEF CheckThrow, CheckPcs
  <2>3. cRun' \in [Checks -> CheckRow] /\ \A e \in Checks \ {c} : cRun'[e] = cRun[e]
    BY <1>1, <2>1, MarkedRow
  <2>4. CheckRowMoves(w, c)
    BY <1>3, <2>1, <2>2, <2>3 DEF CheckRowMoves, CheckOpenPcs
  <2>5. QED
    BY <1>3, <2>1, <2>2, <2>4 DEF CheckGoesOn
<1>11. QED
  BY <1>4, <1>5, <1>6, <1>7, <1>8, <1>9, <1>10 DEF CheckStep

CheckInv ==
  /\ CheckTyped /\ RecordsItsPage
  /\ \A w \in CheckSlots : HoldsItsCheck(w)
  /\ \A c \in Checks : CheckInOrder(c)

LEMMA CapabilityCases ==
  ASSUME [CapabilityNext]_cVars
  PROVE  \/ UNCHANGED cVars
         \/ \E w \in CheckSlots :
              CheckStep(w) \/ CheckReport(w) \/ CheckCrash(w) \/ \E c \in Checks : CheckTake(w, c)
         \/ \E c \in Checks : CheckClick(c) \/ CheckAges(c) \/ CheckStall(c) \/ CheckHandle(c)
         \/ \E p \in Pages : CheckPageChanges(p)
BY DEF CapabilityNext, CheckWork, CheckStep

(* What a step does to one check's row, click, job and handler.            *)
OneCheck(c) ==
  /\ cRun' \in [Checks -> CheckRow]
  /\ cClick' \in [Checks -> {"idle", "create", "add", "orphan", "done", "lost"}]
  /\ cJob' \in [Checks -> QueueJob(CheckSlots)]
  /\ cHandler' \in [Checks -> {"none", "read", "mark"}]
  /\ cLate \subseteq cLate' /\ cLate' \subseteq cLate \cup {c}
  /\ \A e \in Checks \ {c} :
       cRun'[e] = cRun[e] /\ cClick'[e] = cClick[e] /\ cJob'[e] = cJob[e] /\ cHandler'[e] = cHandler[e]

LEMMA ClickEffect ==
  ASSUME CheckInv, NEW c \in Checks, CheckClick(c)
  PROVE  /\ OneCheck(c) /\ CheckInOrder(c)' /\ cWorker' = cWorker /\ cPage' = cPage /\ cLate' = cLate
         /\ cJob'[c].lock = cJob[c].lock
         /\ CheckOpen(c) \/ Spoilt(c) => CheckOpen(c)' \/ Spoilt(c)'
         /\ cRun'[c] = cRun[c] \/ cRun[c].status = "ABSENT" \/ Spoilt(c)
<1> USE DEF CheckInv
<1>1. CheckInOrder(c) /\ CheckTyped
  OBVIOUS
<1>2. CASE CheckFind(c)
  BY <1>1, <1>2 DEF CheckFind, CheckTyped, OneCheck, CheckInOrder, CheckOpen, Spoilt
<1>3. CASE CheckCreate(c)
  <2>1. CheckMarked(c, "PENDING")
    BY <1>3 DEF CheckCreate
  <2>2. /\ cRun' \in [Checks -> CheckRow] /\ \A e \in Checks \ {c} : cRun'[e] = cRun[e]
        /\ cRun'[c].status = "PENDING"
    BY <1>1, <2>1, MarkedRow
  <2>3. QED
    BY <1>1, <1>3, <2>2 DEF CheckCreate, CheckTyped, OneCheck, CheckInOrder, CheckOpen, Spoilt
<1>4. /\ Added(cJob[c]) \in QueueJob(CheckSlots)
      /\ cJob[c].state = "absent" =>
           Added(cJob[c]).state = "waiting" /\ Added(cJob[c]).lock = cJob[c].lock
  <2>1. cJob[c] \in QueueJob(CheckSlots)
    BY <1>1 DEF CheckTyped
  <2>2. QED
    BY <2>1, QueueJobType, CheckConstants DEF Added, QueueJob
<1>5. ASSUME NEW j \in {cJob[c], Added(cJob[c])}, cJob' = [cJob EXCEPT ![c] = j]
      PROVE  /\ cJob' \in [Checks -> QueueJob(CheckSlots)] /\ \A e \in Checks \ {c} : cJob'[e] = cJob[e]
             /\ cJob'[c].lock = cJob[c].lock
             /\ cJob'[c].state = cJob[c].state \/ (cJob[c].state = "absent" /\ cJob'[c].state = "waiting")
  <2>1. j.lock = cJob[c].lock /\ (j.state = cJob[c].state \/ (cJob[c].state = "absent" /\ j.state = "waiting"))
    <3>1. CASE cJob[c].state = "absent"
      BY <1>4, <1>5, <3>1
    <3>2. CASE cJob[c].state # "absent"
      BY <1>5, <3>2 DEF Added
    <3>3. QED
      BY <3>1, <3>2
  <2>2. QED
    BY <1>1, <1>4, <1>5, <2>1 DEF CheckTyped
<1>6. CASE CheckAdd(c) \/ CheckAddFails(c)
  <2>1. PICK j \in {cJob[c], Added(cJob[c])} : cJob' = [cJob EXCEPT ![c] = j]
    BY <1>6 DEF CheckAdd, CheckAddFails
  <2>2. PICK a \in {"done", "orphan"} : cClick' = [cClick EXCEPT ![c] = a]
    BY <1>6 DEF CheckAdd, CheckAddFails
  <2>3. /\ cRun' = cRun /\ cWorker' = cWorker /\ cHandler' = cHandler /\ cPage' = cPage /\ cClick[c] = "add"
        /\ cLate' = cLate
    BY <1>6 DEF CheckAdd, CheckAddFails
  <2>4. QED
    BY <1>1, <1>5, <2>1, <2>2, <2>3 DEF CheckTyped, OneCheck, CheckInOrder, CheckOpen, Spoilt
<1>7. CASE CheckOrphan(c)
  <2>1. cRun' = cRun \/ CheckMarked(c, "FAILED")
    BY <1>7 DEF CheckOrphan
  <2>2. cRun' \in [Checks -> CheckRow] /\ \A e \in Checks \ {c} : cRun'[e] = cRun[e]
    BY <1>1, <2>1, MarkedRow DEF CheckTyped
  <2>3. QED
    BY <1>1, <1>7, <2>2 DEF CheckOrphan, CheckTyped, OneCheck, CheckInOrder, CheckOpen, Spoilt
<1>8. QED
  BY <1>2, <1>3, <1>6, <1>7 DEF CheckClick

(* Who works on a job that stalls has lost it.                             *)
LEMMA CheckStallEffect ==
  ASSUME CheckInv, NEW c \in Checks, CheckStall(c)
  PROVE  /\ OneCheck(c) /\ CheckInOrder(c)' /\ cWorker' = cWorker /\ cPage' = cPage /\ cRun' = cRun
         /\ cClick' = cClick
         /\ \A w \in CheckSlots : cWorker[w].pc # "idle" /\ cWorker[w].check = c => c \in cLate'
<1> USE DEF CheckInv
<1>1. CheckInOrder(c) /\ CheckTyped /\ cJob[c] \in QueueJob(CheckSlots)
  BY DEF CheckTyped
<1>2. Stalled(cJob[c]) \in QueueJob(CheckSlots)
  BY <1>1, QueueJobType, CheckConstants
<1>3. Stalled(cJob[c]).lock = None /\ Stalled(cJob[c]).state \in {"waiting", "failed"}
  BY <1>1 DEF Stalled, QueueJob
<1>4. /\ cJob[c].state = "active" /\ cJob' = [cJob EXCEPT ![c] = Stalled(cJob[c])]
      /\ cLate' = cLate \cup (IF cWorker[cJob[c].lock].check = c THEN {c} ELSE {})
      /\ cRun' = cRun /\ cClick' = cClick /\ cWorker' = cWorker /\ cPage' = cPage
  BY DEF CheckStall
<1>5. cJob'[c] = Stalled(cJob[c]) /\ cJob' \in [Checks -> QueueJob(CheckSlots)]
      /\ \A e \in Checks \ {c} : cJob'[e] = cJob[e]
  BY <1>1, <1>2, <1>4 DEF CheckTyped
<1>6. cHandler' = IF cJob'[c].state = "failed" THEN [cHandler EXCEPT ![c] = "read"] ELSE cHandler
  BY <1>4 DEF CheckStall, CheckHandlers
<1>7. cHandler[c] = "none"
  BY <1>1, <1>4 DEF CheckInOrder, CheckTyped
<1>8. /\ cHandler' \in [Checks -> {"none", "read", "mark"}]
      /\ \A e \in Checks \ {c} : cHandler'[e] = cHandler[e]
      /\ cHandler'[c] = IF cJob'[c].state = "failed" THEN "read" ELSE "none"
  BY <1>1, <1>6, <1>7 DEF CheckTyped
<1>9. cLate \subseteq cLate' /\ cLate' \subseteq cLate \cup {c}
  BY <1>4
<1>10. ASSUME NEW w \in CheckSlots, cWorker[w].pc # "idle", cWorker[w].check = c
       PROVE  c \in cLate'
  BY <1>4, <1>10 DEF HoldsItsCheck
<1>11. CheckInOrder(c)'
  BY <1>1, <1>3, <1>4, <1>5, <1>8, <1>9 DEF CheckInOrder
<1>12. QED
  BY <1>1, <1>4, <1>5, <1>8, <1>9, <1>10, <1>11 DEF OneCheck, CheckTyped

LEMMA HandleEffect ==
  ASSUME CheckInv, NEW c \in Checks, CheckAges(c) \/ CheckHandle(c)
  PROVE  /\ OneCheck(c) /\ CheckInOrder(c)' /\ cWorker' = cWorker /\ cPage' = cPage
         /\ cJob' = cJob /\ cClick' = cClick /\ cLate' = cLate
         /\ \/ CheckOpen(c) <=> CheckOpen(c)'
            \/ cHandler[c] = "mark" /\ cJob[c].state = "failed"
         /\ cRun'[c] = cRun[c] \/ CheckOpen(c) \/ Spoilt(c)
<1> USE DEF CheckInv
<1>1. CheckInOrder(c) /\ CheckTyped
  OBVIOUS
<1>2. CASE CheckAges(c)
  <2>1. /\ cRun' \in [Checks -> CheckRow] /\ \A e \in Checks \ {c} : cRun'[e] = cRun[e]
        /\ cRun'[c].status = cRun[c].status
    BY <1>1, <1>2 DEF CheckAges, CheckTyped, CheckRow
  <2>2. QED
    BY <1>1, <1>2, <2>1 DEF CheckAges, CheckTyped, OneCheck, CheckInOrder, CheckOpen, Spoilt
<1>3. CASE CheckHandle(c)
  <2>1. \/ cHandler[c] = "read" /\ CheckOpen(c) /\ cRun' = cRun /\ cHandler' = [cHandler EXCEPT ![c] = "mark"]
        \/ cHandler[c] = "mark" /\ CheckMarked(c, "FAILED") /\ cHandler' = [cHandler EXCEPT ![c] = "none"]
        \/ cHandler[c] # "none" /\ cRun' = cRun /\ cHandler' = [cHandler EXCEPT ![c] = "none"]
    BY <1>3 DEF CheckHandle, Handled
  <2>2. cClick' = cClick /\ cJob' = cJob /\ cWorker' = cWorker /\ cPage' = cPage /\ cLate' = cLate
    BY <1>3 DEF CheckHandle
  <2>3. CASE cRun' = cRun
    BY <1>1, <2>1, <2>2, <2>3 DEF CheckTyped, OneCheck, CheckInOrder, CheckOpen, Spoilt
  <2>4. CASE CheckMarked(c, "FAILED") /\ cHandler[c] = "mark" /\ cHandler' = [cHandler EXCEPT ![c] = "none"]
    <3>1. /\ cRun' \in [Checks -> CheckRow] /\ \A e \in Checks \ {c} : cRun'[e] = cRun[e]
          /\ cRun'[c].status = "FAILED"
      BY <1>1, <2>4, MarkedRow
    <3>2. QED
      BY <1>1, <2>2, <2>4, <3>1 DEF CheckTyped, OneCheck, CheckInOrder, CheckOpen, Spoilt
  <2>5. QED
    BY <2>1, <2>3, <2>4
<1>4. QED
  BY <1>2, <1>3

(* An idle run forgets its batch; what BullMQ hears of it frees the job.   *)
LEMMA CheckTakeEffect ==
  ASSUME CheckInv, NEW w \in CheckSlots, NEW c \in Checks, CheckTake(w, c)
  PROVE  /\ OneCheck(c) /\ CheckInOrder(c)' /\ cPage' = cPage /\ cRun' = cRun /\ cClick' = cClick
         /\ cWorker' \in [CheckSlots -> CheckWorker]
         /\ cWorker'[w].pc = "read" /\ cWorker'[w].check = c /\ cWorker'[w].batch = {}
         /\ cJob'[c].lock = w
         /\ \A v \in CheckSlots \ {w} : cWorker'[v] = cWorker[v]
         /\ \A v \in CheckSlots : cWorker[v].pc # "idle" => cWorker[v].check # c \/ c \in cLate'
<1> USE DEF CheckInv
<1>1. CheckInOrder(c) /\ CheckTyped /\ cJob[c] \in QueueJob(CheckSlots)
  BY DEF CheckTyped
<1>2. TakenBy(cJob[c], w) \in QueueJob(CheckSlots)
  BY <1>1, QueueJobType, CheckConstants
<1>3. TakenBy(cJob[c], w).state = "active" /\ TakenBy(cJob[c], w).lock = w
  BY <1>1 DEF TakenBy, QueueJob
<1>4. /\ cJob[c].state = "waiting" /\ cJob' = [cJob EXCEPT ![c] = TakenBy(cJob[c], w)]
      /\ cRun' = cRun /\ cClick' = cClick /\ cHandler' = cHandler /\ cPage' = cPage /\ cLate' = cLate
  BY DEF CheckTake
<1>5. /\ cJob' \in [Checks -> QueueJob(CheckSlots)] /\ cJob'[c].state = "active" /\ cJob'[c].lock = w
      /\ \A e \in Checks \ {c} : cJob'[e] = cJob[e]
  BY <1>1, <1>2, <1>3, <1>4 DEF CheckTyped
<1>6. CheckInOrder(c)'
  BY <1>1, <1>4, <1>5, CheckConstants DEF CheckInOrder, CheckTyped
<1>7. \A v \in CheckSlots : cWorker[v].pc # "idle" => cWorker[v].check # c \/ c \in cLate
  BY <1>1, <1>4, CheckConstants DEF HoldsItsCheck, CheckInOrder
<1>8. QED
  BY <1>1, <1>4, <1>5, <1>6, <1>7, TakeMoves DEF OneCheck, CheckTyped

LEMMA CheckReportEffect ==
  ASSUME CheckInv, NEW w \in CheckSlots, NEW c, c = cWorker[w].check, CheckReport(w)
  PROVE  /\ cWorker[w].pc # "idle" /\ cPage' = cPage /\ cRun' = cRun /\ cClick' = cClick /\ cLate' = cLate
         /\ c \in Checks /\ OneCheck(c) /\ CheckInOrder(c)'
         /\ cWorker' = [cWorker EXCEPT ![w] = CheckIdle]
         /\ cJob[c].lock # w => cJob' = cJob
<1> DEFINE outcome == IF cWorker[w].pc = "ack" THEN "completed" ELSE "failed"
           told == Reported(cJob[c], w, outcome)
<1> USE DEF CheckInv
<1>1. cWorker[w].pc # "idle" /\ cPage' = cPage /\ cRun' = cRun /\ cClick' = cClick /\ cLate' = cLate
      /\ cWorker' = [cWorker EXCEPT ![w] = CheckIdle] /\ cJob' = [cJob EXCEPT ![c] = told]
      /\ CheckHandlers(c, told)
  BY DEF CheckReport
<1>2. c \in Checks
  BY <1>1 DEF HoldsItsCheck
<1>3. CheckInOrder(c) /\ CheckTyped /\ cJob[c] \in QueueJob(CheckSlots)
  BY <1>2 DEF CheckTyped
<1>4. CASE cJob[c].lock = w
  <2>1. told \in QueueJob(CheckSlots)
    BY <1>3, QueueJobType, CheckConstants
  <2>2. told.lock = None /\ told.state \in {"completed", "failed"}
    BY <1>3, <1>4 DEF Reported, QueueJob
  <2> HIDE DEF told
  <2>3. cJob[c].state = "active" /\ cHandler[c] = "none"
    BY <1>2, <1>3, <1>4, CheckConstants DEF CheckInOrder
  <2>4. /\ cJob' \in [Checks -> QueueJob(CheckSlots)] /\ cJob'[c] = told
        /\ \A e \in Checks \ {c} : cJob'[e] = cJob[e]
    BY <1>1, <1>2, <1>3, <2>1 DEF CheckTyped
  <2>5. /\ cHandler' \in [Checks -> {"none", "read", "mark"}]
        /\ \A e \in Checks \ {c} : cHandler'[e] = cHandler[e]
        /\ cHandler'[c] = IF told.state = "failed" THEN "read" ELSE "none"
    BY <1>1, <1>2, <1>3, <2>3 DEF CheckHandlers, CheckTyped
  <2>6. CheckInOrder(c)'
    BY <1>1, <1>2, <1>3, <2>2, <2>3, <2>4, <2>5 DEF CheckInOrder
  <2>7. QED
    BY <1>1, <1>2, <1>3, <1>4, <2>4, <2>5, <2>6 DEF OneCheck, CheckTyped
<1>5. CASE cJob[c].lock # w
  <2>1. told = cJob[c]
    BY <1>5 DEF Reported
  <2> HIDE DEF told
  <2>2. cJob' = cJob /\ cHandler' = cHandler
    BY <1>1, <1>3, <2>1 DEF CheckHandlers, CheckTyped
  <2>3. QED
    BY <1>1, <1>2, <1>3, <2>2 DEF OneCheck, CheckTyped, CheckInOrder, CheckOpen, Spoilt
<1>6. QED
  BY <1>4, <1>5

LEMMA CheckInvStep ==
  ASSUME CheckInv, [CapabilityNext]_cVars
  PROVE  CheckInv'
<1> USE DEF CheckInv
<1>1. CheckTyped
  OBVIOUS
<1>2. CASE UNCHANGED cVars
  BY <1>1, <1>2 DEF cVars, CheckTyped, RecordsItsPage, HoldsItsCheck, CheckInOrder, CheckOpen, Spoilt
<1>3. ASSUME NEW w \in CheckSlots, CheckStep(w)
      PROVE  CheckInv'
  <2> DEFINE c == cWorker[w].check
  <2>1. CheckGoesOn(w) /\ CheckRowMoves(w, c)
    BY <1>3, StepGoesOn DEF CheckGoesOn
  <2>2. /\ c \in Checks /\ (cJob[c].lock = w \/ c \in cLate) /\ cWorker'[w].check = c
        /\ cJob' = cJob /\ cLate' = cLate
    BY <2>1 DEF CheckGoesOn, HoldsItsCheck
  <2>3. CheckTyped'
    BY <1>1, <2>1 DEF CheckGoesOn, CheckTyped, CheckRowMoves, PagesTyped
  <2>4. RecordsItsPage'
    BY <2>1 DEF CheckGoesOn, RecordsItsPage
  <2>5. HoldsItsCheck(w)'
    <3>1. cWorker'[w].pc \in CheckOpenPcs => CheckOpen(c)' \/ Spoilt(c)'
      BY <2>1, <2>2 DEF CheckGoesOn, CheckRowMoves, HoldsItsCheck, CheckOpen, Spoilt
    <3>2. QED
      BY <2>2, <3>1 DEF HoldsItsCheck, CheckOpen, Spoilt
  <2>6. ASSUME NEW v \in CheckSlots \ {w}
        PROVE  HoldsItsCheck(v)'
    <3>1. HoldsItsCheck(v) /\ cWorker'[v] = cWorker[v] /\ cJob' = cJob /\ cClick' = cClick /\ cLate' = cLate
      BY <2>1 DEF CheckGoesOn
    <3>2. cWorker[v].pc # "idle" => cWorker[v].check \in Checks \ {c} \/ cWorker[v].check \in cLate
      BY <2>2, <3>1 DEF HoldsItsCheck
    <3>3. cWorker[v].pc # "idle" =>
            cRun'[cWorker[v].check] = cRun[cWorker[v].check] \/ cWorker[v].check \in cLate
      BY <2>1, <3>2 DEF CheckRowMoves
    <3>4. CASE cWorker[v].pc = "idle"
      BY <3>1, <3>4 DEF HoldsItsCheck, CheckOpenPcs
    <3>5. CASE cWorker[v].pc # "idle"
      BY <3>1, <3>3, <3>5 DEF HoldsItsCheck, CheckOpen, Spoilt
    <3>6. QED
      BY <3>4, <3>5
  <2>7. ASSUME NEW e \in Checks
        PROVE  CheckInOrder(e)'
    <3>1. /\ CheckInOrder(e) /\ cJob' = cJob /\ cClick' = cClick /\ cHandler' = cHandler
          /\ cLate' = cLate
      BY <2>1 DEF CheckGoesOn
    <3>2. CASE e # c
      <4>1. cRun'[e] = cRun[e]
        BY <2>1, <3>2 DEF CheckRowMoves
      <4>2. QED
        BY <3>1, <4>1 DEF CheckInOrder, CheckOpen, Spoilt
    <3>3. CASE e = c
      <4>1. cJob[e].state # "absent" /\ (cHandler[e] = "none" \/ e \in cLate)
        BY <1>1, <2>2, <3>1, <3>3, CheckConstants DEF CheckInOrder, CheckTyped
      <4>2. cClick[e] \notin {"idle", "create", "add"}
        BY <3>1, <4>1 DEF CheckInOrder
      <4>3. QED
        BY <3>1, <4>1, <4>2 DEF CheckInOrder, Spoilt
    <3>4. QED
      BY <3>2, <3>3
  <2>8. QED
    BY <2>3, <2>4, <2>5, <2>6, <2>7
<1>4. ASSUME NEW w \in CheckSlots, NEW c \in Checks, CheckTake(w, c)
      PROVE  CheckInv'
  <2>1. /\ OneCheck(c) /\ CheckInOrder(c)' /\ cPage' = cPage /\ cRun' = cRun /\ cClick' = cClick
        /\ cWorker' \in [CheckSlots -> CheckWorker]
        /\ cWorker'[w].pc = "read" /\ cWorker'[w].check = c
        /\ cJob'[c].lock = w
        /\ \A v \in CheckSlots \ {w} : cWorker'[v] = cWorker[v]
        /\ \A v \in CheckSlots : cWorker[v].pc # "idle" => cWorker[v].check # c \/ c \in cLate'
    BY <1>4, CheckTakeEffect
  <2>2. CheckTyped'
    BY <1>1, <2>1 DEF CheckTyped, OneCheck
  <2>3. RecordsItsPage'
    BY <2>1 DEF RecordsItsPage
  <2>4. HoldsItsCheck(w)'
    BY <2>1 DEF HoldsItsCheck, CheckOpenPcs
  <2>5. ASSUME NEW v \in CheckSlots \ {w}
        PROVE  HoldsItsCheck(v)'
    <3>1. HoldsItsCheck(v) /\ cWorker'[v] = cWorker[v] /\ cLate \subseteq cLate'
      BY <2>1 DEF OneCheck
    <3>2. CASE cWorker[v].check = c
      BY <2>1, <3>1, <3>2 DEF HoldsItsCheck, CheckOpenPcs, Spoilt
    <3>3. CASE cWorker[v].check # c
      BY <2>1, <3>1, <3>3 DEF HoldsItsCheck, CheckOpenPcs, OneCheck, CheckOpen, Spoilt
    <3>4. QED
      BY <3>2, <3>3
  <2>6. ASSUME NEW e \in Checks \ {c}
        PROVE  CheckInOrder(e)'
    BY <2>1 DEF CheckInOrder, OneCheck, CheckOpen, Spoilt
  <2>7. QED
    BY <2>1, <2>2, <2>3, <2>4, <2>5, <2>6
<1>5. ASSUME NEW w \in CheckSlots, CheckReport(w)
      PROVE  CheckInv'
  <2> DEFINE c == cWorker[w].check
  <2>1. PICK d \in Checks : d = c
    BY <1>5, CheckReportEffect
  <2>2. /\ cWorker[w].pc # "idle" /\ cPage' = cPage /\ cRun' = cRun /\ cClick' = cClick
        /\ OneCheck(d) /\ CheckInOrder(d)' /\ cLate' = cLate
        /\ cWorker' = [cWorker EXCEPT ![w] = CheckIdle]
        /\ cJob[d].lock # w => cJob' = cJob
    BY <1>5, <2>1, CheckReportEffect
  <2>3. /\ cWorker' \in [CheckSlots -> CheckWorker] /\ cWorker'[w].pc = "idle"
        /\ \A v \in CheckSlots \ {w} : cWorker'[v] = cWorker[v]
    BY <1>1, <2>2, CheckIdleType DEF CheckTyped
  <2>4. CheckTyped'
    BY <1>1, <2>2, <2>3 DEF CheckTyped, OneCheck
  <2>5. RecordsItsPage'
    BY <2>3 DEF RecordsItsPage
  <2>7. ASSUME NEW v \in CheckSlots
        PROVE  HoldsItsCheck(v)'
    <3>1. CASE v = w
      BY <2>3, <3>1 DEF HoldsItsCheck, CheckOpenPcs
    <3>2. CASE v # w
      <4>1. HoldsItsCheck(v) /\ cWorker'[v] = cWorker[v]
        BY <2>3, <3>2
      <4>2. CASE cWorker[v].check = d
        BY <2>2, <3>2, <4>1, <4>2 DEF HoldsItsCheck, CheckOpenPcs, OneCheck, CheckOpen, Spoilt
      <4>3. CASE cWorker[v].check # d
        BY <2>2, <4>1, <4>3 DEF HoldsItsCheck, CheckOpenPcs, OneCheck, CheckOpen, Spoilt
      <4>4. QED
        BY <4>2, <4>3
    <3>3. QED
      BY <3>1, <3>2
  <2>8. ASSUME NEW e \in Checks \ {d}
        PROVE  CheckInOrder(e)'
    BY <2>2 DEF CheckInOrder, OneCheck, CheckOpen, Spoilt
  <2>9. QED
    BY <2>2, <2>4, <2>5, <2>7, <2>8
<1>6. ASSUME NEW w \in CheckSlots, CheckCrash(w)
      PROVE  CheckInv'
  <2>1. /\ cWorker' = [cWorker EXCEPT ![w] = CheckIdle]
        /\ cRun' = cRun /\ cClick' = cClick /\ cJob' = cJob /\ cHandler' = cHandler /\ cPage' = cPage
        /\ cLate' = cLate
    BY <1>6 DEF CheckCrash
  <2>2. /\ cWorker' \in [CheckSlots -> CheckWorker] /\ cWorker'[w].pc = "idle"
        /\ \A v \in CheckSlots \ {w} : cWorker'[v] = cWorker[v]
    BY <1>1, <2>1, CheckIdleType DEF CheckTyped
  <2>3. CheckTyped'
    BY <1>1, <2>1, <2>2 DEF CheckTyped
  <2>4. RecordsItsPage'
    BY <2>2 DEF RecordsItsPage
  <2>5. \A v \in CheckSlots : HoldsItsCheck(v)'
    BY <2>1, <2>2 DEF HoldsItsCheck, CheckOpenPcs, CheckOpen, Spoilt
  <2>6. \A e \in Checks : CheckInOrder(e)'
    BY <2>1 DEF CheckInOrder, CheckOpen, Spoilt
  <2>7. QED
    BY <2>3, <2>4, <2>5, <2>6
<1>7. ASSUME NEW c \in Checks, CheckClick(c)
      PROVE  CheckInv'
  <2>1. /\ OneCheck(c) /\ CheckInOrder(c)' /\ cWorker' = cWorker /\ cPage' = cPage /\ cLate' = cLate
        /\ cJob'[c].lock = cJob[c].lock
        /\ CheckOpen(c) \/ Spoilt(c) => CheckOpen(c)' \/ Spoilt(c)'
    BY <1>7, ClickEffect
  <2>2. CheckTyped'
    BY <1>1, <2>1 DEF CheckTyped, OneCheck
  <2>3. RecordsItsPage'
    BY <2>1 DEF RecordsItsPage
  <2>4. ASSUME NEW w \in CheckSlots
        PROVE  HoldsItsCheck(w)'
    <3>1. HoldsItsCheck(w) /\ cWorker'[w] = cWorker[w]
      BY <2>1
    <3>2. CASE cWorker[w].check = c
      BY <2>1, <3>1, <3>2 DEF HoldsItsCheck, CheckOpenPcs, CheckOpen, Spoilt
    <3>3. CASE cWorker[w].check # c
      BY <2>1, <3>1, <3>3 DEF HoldsItsCheck, CheckOpenPcs, OneCheck, CheckOpen, Spoilt
    <3>4. QED
      BY <3>2, <3>3
  <2>5. ASSUME NEW e \in Checks \ {c}
        PROVE  CheckInOrder(e)'
    BY <2>1 DEF CheckInOrder, OneCheck, CheckOpen, Spoilt
  <2>6. QED
    BY <2>1, <2>2, <2>3, <2>4, <2>5
<1>8. ASSUME NEW c \in Checks, CheckStall(c)
      PROVE  CheckInv'
  <2>1. /\ OneCheck(c) /\ CheckInOrder(c)' /\ cWorker' = cWorker /\ cPage' = cPage /\ cRun' = cRun
        /\ cClick' = cClick
        /\ \A w \in CheckSlots : cWorker[w].pc # "idle" /\ cWorker[w].check = c => c \in cLate'
    BY <1>8, CheckStallEffect
  <2>2. CheckTyped'
    BY <1>1, <2>1 DEF CheckTyped, OneCheck
  <2>3. RecordsItsPage'
    BY <2>1 DEF RecordsItsPage
  <2>4. ASSUME NEW w \in CheckSlots
        PROVE  HoldsItsCheck(w)'
    <3>1. HoldsItsCheck(w) /\ cWorker'[w] = cWorker[w] /\ cLate \subseteq cLate'
      BY <2>1 DEF OneCheck
    <3>2. CASE cWorker[w].check = c
      BY <2>1, <3>1, <3>2 DEF HoldsItsCheck, CheckOpenPcs, Spoilt
    <3>3. CASE cWorker[w].check # c
      BY <2>1, <3>1, <3>3 DEF HoldsItsCheck, CheckOpenPcs, OneCheck, CheckOpen, Spoilt
    <3>4. QED
      BY <3>2, <3>3
  <2>5. ASSUME NEW e \in Checks \ {c}
        PROVE  CheckInOrder(e)'
    BY <2>1 DEF CheckInOrder, OneCheck, CheckOpen, Spoilt
  <2>6. QED
    BY <2>1, <2>2, <2>3, <2>4, <2>5
<1>9. ASSUME NEW c \in Checks, CheckAges(c) \/ CheckHandle(c)
      PROVE  CheckInv'
  <2>1. /\ OneCheck(c) /\ CheckInOrder(c)' /\ cWorker' = cWorker /\ cPage' = cPage
        /\ cJob' = cJob /\ cClick' = cClick /\ cLate' = cLate
        /\ \/ CheckOpen(c) <=> CheckOpen(c)'
           \/ cHandler[c] = "mark" /\ cJob[c].state = "failed"
    BY <1>9, HandleEffect
  <2>2. CheckTyped'
    BY <1>1, <2>1 DEF CheckTyped, OneCheck
  <2>3. RecordsItsPage'
    BY <2>1 DEF RecordsItsPage
  <2>4. ASSUME NEW w \in CheckSlots
        PROVE  HoldsItsCheck(w)'
    <3>1. HoldsItsCheck(w) /\ cWorker'[w] = cWorker[w]
      BY <2>1
    <3>2. CASE cWorker[w].check = c /\ cWorker[w].pc # "idle"
      <4>1. CASE c \in cLate
        BY <2>1, <3>1, <3>2, <4>1 DEF HoldsItsCheck, Spoilt
      <4>2. CASE c \notin cLate
        <5>1. cJob[c].lock # None
          BY <3>1, <3>2, <4>2, CheckConstants DEF HoldsItsCheck
        <5>2. cJob[c].state # "failed"
          BY <5>1 DEF CheckInOrder
        <5>3. CheckOpen(c) <=> CheckOpen(c)'
          BY <2>1, <5>2
        <5>4. QED
          BY <2>1, <3>1, <3>2, <5>3 DEF HoldsItsCheck, CheckOpen, Spoilt
      <4>3. QED
        BY <4>1, <4>2
    <3>3. CASE cWorker[w].pc = "idle"
      BY <3>1, <3>3 DEF HoldsItsCheck, CheckOpenPcs
    <3>4. CASE cWorker[w].check # c /\ cWorker[w].pc # "idle"
      BY <2>1, <3>1, <3>4 DEF HoldsItsCheck, CheckOpenPcs, OneCheck, CheckOpen, Spoilt
    <3>5. QED
      BY <3>2, <3>3, <3>4
  <2>5. ASSUME NEW e \in Checks \ {c}
        PROVE  CheckInOrder(e)'
    BY <2>1 DEF CheckInOrder, OneCheck, CheckOpen, Spoilt
  <2>6. QED
    BY <2>1, <2>2, <2>3, <2>4, <2>5
<1>10. ASSUME NEW p \in Pages, CheckPageChanges(p)
       PROVE  CheckInv'
  <2>1. /\ cRun' = cRun /\ cClick' = cClick /\ cJob' = cJob /\ cHandler' = cHandler /\ cWorker' = cWorker
        /\ cPage[p].snap < MaxScans /\ cPage' = [cPage EXCEPT ![p].snap = @ + 1] /\ cLate' = cLate
    BY <1>10 DEF CheckPageChanges
  <2>2. PagesTyped'
    <3>1. cPage[p].snap + 1 \in 1..MaxScans
      BY <1>1, <2>1, CheckConstants DEF CheckTyped
    <3>2. QED
      BY <1>1, <2>1, <3>1 DEF CheckTyped, PagesTyped
  <2>3. QED
    BY <1>1, <2>1, <2>2 DEF CheckTyped, PagesTyped, RecordsItsPage, HoldsItsCheck, CheckInOrder,
                            CheckOpen, Spoilt
<1>11. QED
  BY <1>2, <1>3, <1>4, <1>5, <1>6, <1>7, <1>8, <1>9, <1>10, CapabilityCases

LEMMA CheckInvariant == CapabilitySpec => []CheckInv
<1>1. CapabilityInit => CheckInv
  <2> SUFFICES ASSUME CapabilityInit PROVE CheckInv
    OBVIOUS
  <2>1. NoJob \in QueueJob(CheckSlots) /\ NoJob.lock = None /\ NoJob.state = "absent"
    BY CheckConstants DEF NoJob, QueueJob
  <2>2. CheckTyped
    <3>1. 1 \in 1..MaxScans /\ 0 \in 0..MaxScans
      BY CheckConstants
    <3>2. QED
      BY <2>1, <3>1, CheckIdleType DEF CapabilityInit, CheckTyped, CheckRow
  <2>3. /\ \A w \in CheckSlots : cWorker[w].pc = "idle"
        /\ \A c \in Checks : cRun[c].status = "ABSENT" /\ cHandler[c] = "none" /\ cClick[c] = "idle"
        /\ \A c \in Checks : cJob[c].lock = None /\ cJob[c].state = "absent"
        /\ cLate = {}
    BY <2>1, CheckIdleType DEF CapabilityInit
  <2>4. QED
    BY <2>2, <2>3 DEF CheckInv, RecordsItsPage, HoldsItsCheck, CheckOpenPcs, CheckInOrder
<1>2. CheckInv /\ [CapabilityNext]_cVars => CheckInv'
  BY CheckInvStep
<1>3. QED
  BY <1>1, <1>2, PTL DEF CapabilitySpec

(* A run is only marked while it is open: who marks it holds its job, or   *)
(* is the handler of a job nobody works on, or the POST that lost it, or a *)
(* slot that went on without the job.                                      *)
RunStays(c) ==
  cRun[c].status \in {"COMPLETED", "FAILED"} /\ ~Spoilt(c) => cRun'[c] = cRun[c]

LEMMA FinishedRunStaysCorrect == CapabilitySpec => FinishedRunStays
<1>1. CheckInv /\ [CapabilityNext]_cVars => [\A c \in Checks : RunStays(c)]_cVars
  <2> SUFFICES ASSUME CheckInv, [CapabilityNext]_cVars, NEW c \in Checks,
                      cRun[c].status \in {"COMPLETED", "FAILED"}, ~Spoilt(c)
               PROVE  cRun'[c] = cRun[c]
    BY DEF RunStays
  <2>1. ~CheckOpen(c) /\ cRun[c].status # "ABSENT"
    BY DEF CheckOpen
  <2>2. CASE UNCHANGED cVars
    BY <2>2 DEF cVars
  <2>3. ASSUME NEW w \in CheckSlots, CheckStep(w)
        PROVE  cRun'[c] = cRun[c]
    <3>1. CheckRowMoves(w, cWorker[w].check)
      BY <2>3, StepGoesOn DEF CheckGoesOn, CheckInv
    <3>2. CASE c = cWorker[w].check
      <4>1. cWorker[w].pc \notin CheckOpenPcs
        BY <2>1, <3>2 DEF HoldsItsCheck, CheckInv
      <4>2. QED
        BY <3>1, <4>1 DEF CheckRowMoves
    <3>3. CASE c # cWorker[w].check
      BY <3>1, <3>3 DEF CheckRowMoves
    <3>4. QED
      BY <3>2, <3>3
  <2>4. ASSUME NEW w \in CheckSlots, CheckReport(w) \/ CheckCrash(w) \/ \E d \in Checks : CheckTake(w, d)
        PROVE  cRun'[c] = cRun[c]
    BY <2>4 DEF CheckReport, CheckCrash, CheckTake
  <2>5. ASSUME NEW d \in Checks, CheckClick(d)
        PROVE  cRun'[c] = cRun[c]
    <3>1. OneCheck(d) /\ (cRun'[d] = cRun[d] \/ cRun[d].status = "ABSENT" \/ Spoilt(d))
      BY <2>5, ClickEffect
    <3>2. QED
      BY <2>1, <3>1 DEF OneCheck
  <2>6. ASSUME NEW d \in Checks, CheckAges(d) \/ CheckHandle(d)
        PROVE  cRun'[c] = cRun[c]
    <3>1. OneCheck(d) /\ (cRun'[d] = cRun[d] \/ CheckOpen(d) \/ Spoilt(d))
      BY <2>6, HandleEffect
    <3>2. QED
      BY <2>1, <3>1 DEF OneCheck
  <2>7. ASSUME NEW d \in Checks, CheckStall(d)
        PROVE  cRun'[c] = cRun[c]
    BY <2>7 DEF CheckStall
  <2>8. ASSUME NEW p \in Pages, CheckPageChanges(p)
        PROVE  cRun'[c] = cRun[c]
    BY <2>8 DEF CheckPageChanges
  <2>9. QED
    BY <2>2, <2>3, <2>4, <2>5, <2>6, <2>7, <2>8, CapabilityCases
<1>2. [\A c \in Checks : RunStays(c)]_cVars =>
        [\A c \in Checks :
           /\ cRun[c].status \in {"COMPLETED", "FAILED"}
           /\ cClick[c] \notin {"orphan", "lost"} /\ c \notin cLate
           => cRun'[c] = cRun[c]]_cVars
  BY DEF RunStays, Spoilt
<1>3. QED
  BY <1>1, <1>2, CheckInvariant, PTL DEF CapabilitySpec, FinishedRunStays

(* A completed report and a finished capability run stay as they are: no   *)
(* late worker, failed handler or second delivery marks them again,        *)
(* although the updates ask for no status.  Only a POST that could not add *)
(* its job, or a worker that lost its lock and went on, may mark them.     *)
THEOREM FinishedCorrect == ReportSpec /\ CapabilitySpec => FinishedStays
BY CompletedStaysCorrect, FinishedRunStaysCorrect DEF FinishedStays

-----------------------------------------------------------------------------
(* One worker process with concurrency 1 has one slot: then what a run is  *)
(* still to read is due throughout, for nobody else reads it meanwhile.    *)
OneCheckSlot == \A v, w \in CheckSlots : v = w
BatchesUnread == \A w \in CheckSlots : Unread(w)

LEMMA UnreadStep ==
  ASSUME CheckInv, OneCheckSlot, BatchesUnread, [CapabilityNext]_cVars
  PROVE  BatchesUnread'
<1> SUFFICES ASSUME NEW w \in CheckSlots PROVE Unread(w)'
  BY DEF BatchesUnread
<1>1. Unread(w) /\ CheckTyped /\ \A v \in CheckSlots : v = w
  BY DEF BatchesUnread, OneCheckSlot, CheckInv
<1>2. CASE cWorker' = cWorker /\ cPage' = cPage
  BY <1>1, <1>2 DEF Unread
<1>3. CASE UNCHANGED cVars
  BY <1>2, <1>3 DEF cVars
<1>4. ASSUME NEW v \in CheckSlots, CheckStep(v)
      PROVE  Unread(w)'
  BY <1>1, <1>4, StepGoesOn DEF CheckGoesOn, CheckInv
<1>5. ASSUME NEW v \in CheckSlots, CheckReport(v) \/ CheckCrash(v)
      PROVE  Unread(w)'
  <2>1. cWorker' = [cWorker EXCEPT ![w] = CheckIdle] /\ v = w
    BY <1>1, <1>5 DEF CheckReport, CheckCrash
  <2>2. cWorker'[w].batch = {}
    BY <1>1, <2>1, CheckIdleType DEF CheckTyped
  <2>3. QED
    BY <2>2 DEF Unread
<1>6. ASSUME NEW v \in CheckSlots, NEW c \in Checks, CheckTake(v, c)
      PROVE  Unread(w)'
  <2>1. v = w /\ cWorker'[v].batch = {}
    BY <1>1, <1>6, TakeMoves
  <2>2. QED
    BY <2>1 DEF Unread
<1>7. ASSUME NEW c \in Checks, CheckClick(c) \/ CheckAges(c) \/ CheckStall(c) \/ CheckHandle(c)
      PROVE  Unread(w)'
  <2>1. cWorker' = cWorker /\ cPage' = cPage
    BY <1>7, ClickEffect, CheckStallEffect, HandleEffect
  <2>2. QED
    BY <1>2, <2>1
<1>8. ASSUME NEW p \in Pages, CheckPageChanges(p)
      PROVE  Unread(w)'
  <2>1. cWorker' = cWorker /\ cPage' = [cPage EXCEPT ![p].snap = cPage[p].snap + 1]
    BY <1>8 DEF CheckPageChanges
  <2>2. \A q \in Pages : cPage'[q].read = cPage[q].read
    BY <1>1, <2>1 DEF CheckTyped
  <2>3. QED
    BY <1>1, <2>1, <2>2 DEF Unread
<1>9. QED
  BY <1>3, <1>4, <1>5, <1>6, <1>7, <1>8, CapabilityCases

LEMMA ReadTextCorrect ==
  ASSUME OneCheckSlot
  PROVE  CapabilitySpec => ReadTextIsNotPaidAgain
<1>1. CapabilityInit => BatchesUnread
  BY CheckIdleType DEF CapabilityInit, BatchesUnread, Unread
<1>2. CheckInv /\ BatchesUnread /\ [CapabilityNext]_cVars => BatchesUnread'
  BY UnreadStep
<1>3. CheckInv /\ BatchesUnread /\ [CapabilityNext]_cVars =>
        [\A w \in CheckSlots : \A p \in cWorker[w].batch \ cWorker'[w].batch :
           cWorker'[w].pc # "idle" => cPage[p].read # cWorker[w].snap[p]]_cVars
  BY DEF BatchesUnread, Unread
<1>4. QED
  BY <1>1, <1>2, <1>3, CheckInvariant, PTL DEF CapabilitySpec, ReadTextIsNotPaidAgain

(* Where one slot works on the capability queue - a single worker process  *)
(* with its concurrency of 1 - neither a redelivered run nor that of a     *)
(* second click pays for a text the AI has read, and no digest is paid for *)
(* while an answer stands.                                                 *)
THEOREM NothingPaidTwiceCorrect ==
  DigestSpec /\ CapabilitySpec /\ OneCheckSlot => NothingIsPaidTwice
<1>1. ASSUME OneCheckSlot
      PROVE  CapabilitySpec => ReadTextIsNotPaidAgain
  BY <1>1, ReadTextCorrect
<1>2. QED
  BY <1>1, DigestPaidCorrect DEF NothingIsPaidTwice

-----------------------------------------------------------------------------
BatchesFit ==
  \A w \in CheckSlots : IsFiniteSet(cWorker[w].batch) /\ Cardinality(cWorker[w].batch) <= MaxBatch

LEMMA BatchesFitStep ==
  ASSUME CheckInv, BatchesFit, [CapabilityNext]_cVars
  PROVE  BatchesFit'
<1> DEFINE Fits(w) == IsFiniteSet(cWorker[w].batch) /\ Cardinality(cWorker[w].batch) <= MaxBatch
<1> SUFFICES ASSUME NEW w \in CheckSlots PROVE Fits(w)'
  BY DEF BatchesFit
<1>1. Fits(w) /\ CheckTyped
  BY DEF BatchesFit, CheckInv
<1>2. CASE cWorker'[w].batch = cWorker[w].batch
  BY <1>1, <1>2
<1>3. CASE cWorker'[w].batch = {}
  BY <1>3, CheckConstants, FS_EmptySet
<1> HIDE DEF Fits
<1>4. CASE CheckSelect(w)
  <2>1. PICK B \in SUBSET Pages :
          /\ IsBatch(B)
          /\ cWorker' = [cWorker EXCEPT ![w].pc = "pages", ![w].batch = B,
                           ![w].snap = [p \in Pages |-> IF p \in B THEN cPage[p].snap ELSE 0]]
    BY <1>4 DEF CheckSelect
  <2>2. cWorker'[w].batch = B
    BY <1>1, <2>1 DEF CheckTyped, CheckWorker
  <2>3. IsFiniteSet(B) /\ IsFiniteSet(Due)
    BY CheckConstants, FS_Subset DEF Due
  <2>4. Cardinality(B) <= MaxBatch
    <3>1. Cardinality(Due) \in Nat
      BY <2>3, FS_CardinalityType
    <3>2. QED
      BY <2>1, <3>1, CheckConstants DEF IsBatch
  <2>5. QED
    BY <2>2, <2>3, <2>4 DEF Fits
<1>5. ASSUME NEW p \in Pages, CheckCall(w, p)
      PROVE  Fits(w)'
  <2>1. cWorker'[w].batch = cWorker[w].batch \ {p}
    BY <1>1, <1>5, CallMoves
  <2>2. IsFiniteSet(cWorker[w].batch) /\ Cardinality(cWorker[w].batch) <= MaxBatch
    BY <1>1 DEF Fits
  <2>3. /\ IsFiniteSet(cWorker[w].batch \ {p})
        /\ Cardinality(cWorker[w].batch \ {p}) <= Cardinality(cWorker[w].batch)
    BY <2>2, FS_Subset
  <2>4. Cardinality(cWorker[w].batch \ {p}) \in Nat /\ Cardinality(cWorker[w].batch) \in Nat
    BY <2>2, <2>3, FS_CardinalityType
  <2>5. Cardinality(cWorker[w].batch \ {p}) <= MaxBatch
    BY <2>2, <2>3, <2>4, CheckConstants
  <2>6. QED
    BY <2>1, <2>3, <2>5 DEF Fits
<1>6. CASE CheckRead(w) \/ CheckStart(w) \/ CheckComplete(w) \/ CheckThrow(w)
  <2>1. PICK pc \in CheckPcs : CheckAt(w, pc)
    BY <1>6 DEF CheckRead, CheckStart, CheckComplete, CheckThrow, CheckPcs
  <2>2. QED
    BY <1>1, <1>2, <2>1, CheckAtMoves DEF KeepsBatch
<1>7. CASE CheckRecord(w)
  <2>1. cWorker[w].page \in Pages /\ cWorker[w].page \notin cWorker[w].batch
    BY <1>7 DEF CheckRecord, CheckInv, RecordsItsPage
  <2>2. QED
    BY <1>1, <1>2, <1>7, <2>1, RecordMoves
<1>8. ASSUME NEW v \in CheckSlots \ {w}, CheckStep(v)
      PROVE  Fits(w)'
  BY <1>2, <1>8, StepGoesOn DEF CheckGoesOn, CheckInv
<1>9. ASSUME NEW v \in CheckSlots, CheckReport(v) \/ CheckCrash(v)
      PROVE  Fits(w)'
  <2>1. cWorker' = [cWorker EXCEPT ![v] = CheckIdle]
    BY <1>9 DEF CheckReport, CheckCrash
  <2>2. cWorker'[w].batch = {} \/ cWorker'[w].batch = cWorker[w].batch
    BY <1>1, <2>1, CheckIdleType DEF CheckTyped
  <2>3. QED
    BY <1>2, <1>3, <2>2
<1>10. ASSUME NEW v \in CheckSlots, NEW c \in Checks, CheckTake(v, c)
       PROVE  Fits(w)'
  <2>1. cWorker'[v].batch = {} /\ \A u \in CheckSlots \ {v} : cWorker'[u] = cWorker[u]
    BY <1>1, <1>10, TakeMoves
  <2>2. QED
    BY <1>2, <1>3, <2>1
<1>11. ASSUME NEW c \in Checks, CheckClick(c) \/ CheckAges(c) \/ CheckStall(c) \/ CheckHandle(c)
       PROVE  Fits(w)'
  BY <1>2, <1>11, ClickEffect, CheckStallEffect, HandleEffect
<1>12. ASSUME NEW p \in Pages, CheckPageChanges(p)
       PROVE  Fits(w)'
  BY <1>2, <1>12 DEF CheckPageChanges
<1>13. CASE UNCHANGED cVars
  BY <1>2, <1>13 DEF cVars
<1>14. CASE CheckStep(w)
  BY <1>4, <1>5, <1>6, <1>7, <1>14 DEF CheckStep
<1>15. QED
  BY <1>8, <1>9, <1>10, <1>11, <1>12, <1>13, <1>14, CapabilityCases

(* Types of the capability runs; a run selects a bounded batch of pages.   *)
THEOREM CapabilityTypeCorrect == CapabilitySpec => []CapabilityTypeOK
<1>1. CapabilityInit => BatchesFit
  <2>1. CapabilityInit => \A w \in CheckSlots : cWorker[w].batch = {}
    BY CheckIdleType DEF CapabilityInit
  <2>2. IsFiniteSet({}) /\ Cardinality({}) <= MaxBatch
    BY CheckConstants, FS_EmptySet
  <2>3. QED
    BY <2>1, <2>2 DEF BatchesFit
<1>2. CheckInv /\ BatchesFit /\ [CapabilityNext]_cVars => BatchesFit'
  BY BatchesFitStep
<1>3. CheckInv /\ BatchesFit => CapabilityTypeOK
  BY DEF CheckInv, BatchesFit, CheckTyped, CheckRow, CheckWorker, CapabilityTypeOK
<1>4. QED
  BY <1>1, <1>2, <1>3, CheckInvariant, PTL DEF CapabilitySpec

-----------------------------------------------------------------------------
(* The scan queue.                                                         *)
Jobs == [id : Urls \X Int, ready : Nat, state : {"waiting", "running", "recorded"}, tries : 0..(Tries + MaxStalls),
         stalls : 0..MaxStalls, pass : Nat, tick : Nat, capped : BOOLEAN, late : BOOLEAN]
PageRows == [success : Int, attempt : Int, fails : 0..MaxFailures]
PlanEntry == [url : Urls, delay : 0..MaxDelay]
Rounds == [at : {"rest", "list", "add"}, number : Nat \ {0}, since : Nat, plan : Seq(PlanEntry), behind : SUBSET Urls]
UpsetKinds == {"restart", "throw", "scan now", "loss"}
FirstStarts == [url : Urls, pass : Nat \ {ByHand}, ready : Nat, capped : BOOLEAN, at : Nat]

(* What makes the jobs of a queue sound: an attempt that ended with a lost *)
(* lock is not counted.                                                    *)
HasTries(j) == j.tries <= Tries + j.stalls /\ (j.state = "waiting" => j.tries < Tries + j.stalls)
Sound(jobs, now, n) ==
  /\ jobs \subseteq Jobs
  /\ \A j \in jobs : /\ HasTries(j)
                     /\ j.pass = ByHand => j.ready <= now /\ j.id[2] \in -n..-1
                     /\ j.pass # ByHand => j.id[2] \in Nat
  /\ \A j, k \in jobs : j.id = k.id => j = k

(* One job is another one later on: once it was recorded it is only        *)
(* delivered again as late.                                                *)
Like(k, j) ==
  /\ k.id = j.id /\ k.ready = j.ready /\ k.pass = j.pass /\ k.tick = j.tick /\ k.capped = j.capped
  /\ j.late => k.late
  /\ j.state = "recorded" => k.late \/ k.state = "recorded"

(* What the queue's state consists of: a pass that adds has something left *)
(* to add, a job that waits has an attempt left, and ids are told apart by *)
(* where they come from: the minute of a pass or the count of upsets.      *)
QueueShape ==
  /\ minute \in 0..Horizon /\ alarm \in Nat /\ upsets \in Seq(UpsetKinds)
  /\ round \in Rounds /\ (round.at = "add" => Len(round.plan) # 0)
  /\ Sound(queued, minute, Len(upsets)) /\ started \subseteq FirstStarts
  /\ ended \subseteq Urls \X Int /\ astray \subseteq Urls
  /\ page \in [Urls -> PageRows]

LEMMA DelaysOf ==
  ASSUME NEW position \in Nat
  PROVE  Delays(position) \subseteq 0..MaxDelay
  BY ScanQueueConstants DEF Delays, Least

(* A plan names every due URL once.                                        *)
LEMMA PlansAreWhole ==
  ASSUME NEW urls \in SUBSET Urls, urls # {}, NEW plan \in Plans(urls)
  PROVE  /\ plan \in Seq(PlanEntry) /\ Len(plan) # 0
         /\ \A i \in DOMAIN plan : plan[i].url \in urls
         /\ \A i, k \in DOMAIN plan : plan[i].url = plan[k].url => i = k
<1> DEFINE n == Cardinality(urls)
<1>1. IsFiniteSet(urls) /\ n \in Nat /\ n # 0
  BY ScanQueueConstants, FS_Subset, FS_CardinalityType, FS_EmptySet
<1>2. PICK order \in [1..n -> urls] :
        /\ \A u \in urls : \E i \in DOMAIN order : order[i] = u
        /\ plan \in [DOMAIN order -> [url : urls, delay : 0..MaxDelay]]
        /\ \A i \in DOMAIN order : plan[i].url = order[i]
  BY DEF Plans
<1>3. plan \in [1..n -> [url : urls, delay : 0..MaxDelay]] /\ DOMAIN plan = 1..n
  BY <1>2
<1>4. plan \in Seq(PlanEntry) /\ Len(plan) # 0
  <2>1. [url : urls, delay : 0..MaxDelay] \subseteq PlanEntry
    BY DEF PlanEntry
  <2>2. plan \in [1..n -> PlanEntry]
    BY <1>3, <2>1
  <2> QED BY <1>1, <2>2
<1>5. \A i, k \in 1..n : order[i] = order[k] => i = k
  <2>1. IsFiniteSet(1..n) /\ Cardinality(1..n) = n
    BY <1>1, FS_Interval
  <2>2. order \in Surjection(1..n, urls)
    BY <1>2 DEF Surjection
  <2>3. order \in Injection(1..n, urls)
    BY <1>1, <2>1, <2>2, FS_SurjSameCardinalityImpliesInj
  <2> QED BY <2>3 DEF Injection, IsInjective
<1> QED BY <1>2, <1>3, <1>4, <1>5

LEMMA LateJobs ==
  ASSUME NEW jobs \in SUBSET Jobs, NEW u \in Urls
  PROVE  /\ Late(jobs, u) \subseteq Jobs
         /\ \A k \in Late(jobs, u) : \E j \in jobs :
               /\ Like(k, j) /\ k.state = j.state /\ k.tries = j.tries /\ k.stalls = j.stalls
               /\ IF j.id[1] = u THEN k.late ELSE k = j
<1>1. \A j \in jobs : /\ [j EXCEPT !.late = TRUE] \in Jobs
                      /\ LET k == [j EXCEPT !.late = TRUE] IN
                           Like(k, j) /\ k.state = j.state /\ k.tries = j.tries /\ k.stalls = j.stalls /\ k.late
  BY DEF Jobs, Like
<1>2. \A j \in jobs : Like(j, j)
  BY DEF Like
<1> QED BY <1>1, <1>2 DEF Late

LEMMA LateSound ==
  ASSUME NEW now \in Nat, NEW n \in Nat, NEW jobs, Sound(jobs, now, n), NEW u \in Urls
  PROVE  Sound(Late(jobs, u), now, n)
<1>1. jobs \in SUBSET Jobs
  BY DEF Sound
<1>2. ASSUME NEW j \in Late(jobs, u), NEW k \in Late(jobs, u), j.id = k.id
      PROVE  j = k
  <2>1. PICK i \in jobs : j = IF i.id[1] = u THEN [i EXCEPT !.late = TRUE] ELSE i
    BY DEF Late
  <2>2. PICK l \in jobs : k = IF l.id[1] = u THEN [l EXCEPT !.late = TRUE] ELSE l
    BY DEF Late
  <2>3. i \in Jobs /\ l \in Jobs
    BY <1>1
  <2>4. i.id = j.id /\ l.id = k.id
    BY <2>1, <2>2, <2>3 DEF Jobs
  <2>5. i = l
    BY <1>2, <2>4 DEF Sound
  <2> QED BY <2>1, <2>2, <2>5
<1>3. ASSUME NEW k \in Late(jobs, u)
      PROVE  /\ HasTries(k)
             /\ k.pass = ByHand => k.ready <= now /\ k.id[2] \in -n..-1
             /\ k.pass # ByHand => k.id[2] \in Nat
  <2>1. PICK j \in jobs : Like(k, j) /\ k.state = j.state /\ k.tries = j.tries /\ k.stalls = j.stalls
    BY <1>1, LateJobs
  <2> QED BY <2>1 DEF Sound, Like, HasTries
<1> QED BY <1>1, <1>2, <1>3, LateJobs DEF Sound

LEMMA QueueShapeHolds == QueueInit => QueueShape
  BY ScanQueueConstants DEF QueueInit, QueueShape, Sound, Rounds, Jobs, PageRows, PlanEntry, NotYet

LEMMA FirstAndRest ==
  ASSUME NEW S, NEW s \in Seq(S), Len(s) # 0
  PROVE  /\ s[1] \in S /\ Len(s) \in Nat \ {0} /\ 1 \in DOMAIN s
         /\ Tail(s) \in Seq(S) /\ Len(Tail(s)) = Len(s) - 1
         /\ \A i \in DOMAIN Tail(s) : i + 1 \in DOMAIN s /\ i \in Nat /\ Tail(s)[i] = s[i + 1]
  OBVIOUS

LEMMA NoPlan == ASSUME NEW S PROVE <<>> \in Seq(S) /\ Len(<<>>) = 0
  OBVIOUS

LEMMA JobFields ==
  ASSUME NEW j \in Jobs
  PROVE  /\ j.id \in Urls \X Int /\ j.id[1] \in Urls /\ j.id[2] \in Int /\ j.ready \in Nat
         /\ j.tries \in 0..(Tries + MaxStalls) /\ j.stalls \in 0..MaxStalls
         /\ j.pass \in Nat /\ j.tick \in Nat /\ j.capped \in BOOLEAN /\ j.late \in BOOLEAN
         /\ j.state \in {"waiting", "running", "recorded"}
  BY DEF Jobs

LEMMA RoundFields ==
  ASSUME round \in Rounds
  PROVE  /\ round.at \in {"rest", "list", "add"} /\ round.number \in Nat \ {0} /\ round.since \in Nat
         /\ round.plan \in Seq(PlanEntry) /\ round.behind \in SUBSET Urls
  BY DEF Rounds

LEMMA RoundMade ==
  ASSUME NEW at \in {"rest", "list", "add"}, NEW number \in Nat \ {0}, NEW since \in Nat,
         NEW plan \in Seq(PlanEntry), NEW behind \in SUBSET Urls
  PROVE  [at |-> at, number |-> number, since |-> since, plan |-> plan, behind |-> behind] \in Rounds
  BY DEF Rounds

LEMMA RestingRound ==
  ASSUME round \in Rounds
  PROVE  Resting \in Rounds /\ Resting.at = "rest" /\ Resting.number = round.number
<1>1. Resting \in Rounds
  BY RoundFields, RoundMade, NoPlan DEF Resting
<1> QED BY <1>1 DEF Resting

LEMMA StartedRound ==
  ASSUME round \in Rounds, NEW now \in Nat
  PROVE  /\ Started(now) \in Rounds /\ Started(now).at = "list" /\ Started(now).number = round.number + 1
         /\ Started(now).since = now
<1>1. Started(now) \in Rounds
  <2>1. round.number + 1 \in Nat \ {0}
    BY RoundFields
  <2> QED BY <2>1, RoundMade, NoPlan DEF Started
<1> QED BY <1>1 DEF Started

LEMMA UpsetAdds ==
  ASSUME upsets \in Seq(UpsetKinds), NEW what \in UpsetKinds, Upset(what)
  PROVE  /\ upsets' \in Seq(UpsetKinds) /\ Len(upsets') = Len(upsets) + 1 /\ Len(upsets) \in Nat
         /\ upsets' = Append(upsets, what)
<1>1. upsets' = Append(upsets, what)
  BY DEF Upset
<1> QED BY <1>1

LEMMA UpsetsAre == {"restart", "throw", "scan now", "loss"} \subseteq UpsetKinds
  BY DEF UpsetKinds

LEMMA PassedRound ==
  ASSUME round \in Rounds, NEW u \in Urls
  PROVE  /\ Passed(u) \in Rounds /\ Passed(u).at = round.at /\ Passed(u).plan = round.plan
         /\ Passed(u).number = round.number /\ Passed(u).since = round.since
         /\ round.at = "add" => Passed(u).behind = round.behind \cup {u}
  BY DEF Passed, Rounds

LEMMA AddedSound ==
  ASSUME QueueShape, AddScan
  PROVE  /\ Sound(queued', minute, Len(upsets)) /\ round' \in Rounds /\ (round'.at = "add" => Len(round'.plan) # 0)
         /\ round.plan \in Seq(PlanEntry) /\ Len(round.plan) # 0
         /\ round.plan[1].url \in Urls /\ round.plan[1].delay \in 0..MaxDelay
         /\ NewJob(Id(round.plan[1].url), round.plan[1].delay, round.number) \in Jobs
<1> DEFINE u == round.plan[1].url  d == round.plan[1].delay  new == NewJob(Id(u), d, round.number)
<1>1. round.plan \in Seq(PlanEntry) /\ Len(round.plan) # 0
  BY DEF QueueShape, AddScan, Rounds
<1>2. /\ round.plan[1] \in PlanEntry /\ Len(round.plan) \in Nat \ {0} /\ u \in Urls /\ d \in 0..MaxDelay
      /\ Tail(round.plan) \in Seq(PlanEntry) /\ (Len(round.plan) # 1 => Len(Tail(round.plan)) # 0)
  <2>1. round.plan[1] \in PlanEntry /\ Len(round.plan) \in Nat \ {0} /\ Tail(round.plan) \in Seq(PlanEntry)
        /\ (Len(round.plan) # 1 => Len(Tail(round.plan)) # 0)
    BY <1>1, FirstAndRest
  <2> QED BY <2>1 DEF PlanEntry
<1>3. round' \in Rounds /\ (round'.at = "add" => Len(round'.plan) # 0)
  <2>1. round \in Rounds /\ (round' = Resting \/ (round' = [round EXCEPT !.plan = Tail(@)] /\ Len(round.plan) # 1))
    BY DEF QueueShape, AddScan
  <2>2. CASE round' = Resting
    BY <2>1, <2>2, RestingRound
  <2>3. CASE round' = [round EXCEPT !.plan = Tail(@)] /\ Len(round.plan) # 1
    BY <1>2, <2>1, <2>3 DEF Rounds
  <2> QED BY <2>1, <2>2, <2>3
<1>4. minute \in Nat /\ round.number \in Nat \ {0} /\ round.since \in Nat /\ Sound(queued, minute, Len(upsets))
  BY ScanQueueConstants DEF QueueShape, Rounds
<1>5. /\ new \in Jobs /\ HasTries(new) /\ new.pass # ByHand /\ new.id[2] \in Nat
      /\ new.id = Id(u)
  <2> HIDE DEF u, d
  <2>1. u \in Urls /\ d \in Nat /\ MaxDelay \in Nat /\ Tries \in Nat \ {0} /\ MaxStalls \in Nat /\ minute \div Bucket \in Nat
    <3>1. Bucket \in Nat \ {0} /\ MaxDelay \in Nat /\ Tries \in Nat \ {0} /\ MaxStalls \in Nat
      BY ScanQueueConstants
    <3>2. minute \div Bucket \in Nat
      BY <1>4, <3>1
    <3> QED BY <1>2, <3>1, <3>2
  <2>2. Id(u) \in Urls \X Int /\ Id(u)[2] \in Nat
    BY <2>1 DEF Id
  <2>3. /\ new.id = Id(u) /\ new.state = "waiting" /\ new.tries = 0 /\ new.stalls = 0 /\ new.pass = round.number
    BY DEF NewJob
  <2>4. new \in Jobs
    BY <1>4, <2>1, <2>2 DEF NewJob, Jobs
  <2> QED BY <1>4, <2>1, <2>2, <2>3, <2>4 DEF ByHand, HasTries
<1>6. WithJob(u, d) = queued \/ (WithJob(u, d) = queued \cup {new} /\ \A j \in queued : j.id # Id(u))
  BY DEF WithJob
<1> HIDE DEF new
<1>7. Sound(WithJob(u, d), minute, Len(upsets))
  BY <1>4, <1>5, <1>6 DEF Sound
<1>8. queued' = WithJob(u, d) \/ queued' = Late(WithJob(u, d), u)
  BY DEF AddScan
<1>9. Len(upsets) \in Nat
  BY DEF QueueShape
<1> HIDE DEF u, d
<1>10. Sound(queued', minute, Len(upsets))
  BY <1>2, <1>4, <1>7, <1>8, <1>9, LateSound
<1> QED BY <1>1, <1>2, <1>3, <1>5, <1>10 DEF u, d, new

LEMMA ByHandSound ==
  ASSUME QueueShape, NEW u \in Urls, ScanNow(u)
  PROVE  /\ Sound(queued', minute, Len(upsets')) /\ round' \in Rounds /\ (round'.at = "add" => Len(round'.plan) # 0)
         /\ upsets' \in Seq(UpsetKinds) /\ NewJob(<<u, -Len(upsets')>>, 0, ByHand) \in Jobs
<1> DEFINE new == NewJob(<<u, -Len(upsets')>>, 0, ByHand)
<1>1. upsets' \in Seq(UpsetKinds) /\ Len(upsets') = Len(upsets) + 1 /\ Len(upsets) \in Nat
  BY UpsetAdds, UpsetsAre DEF ScanNow, QueueShape
<1>2. minute \in Nat /\ round.number \in Nat \ {0} /\ round.since \in Nat /\ Sound(queued, minute, Len(upsets))
  BY ScanQueueConstants DEF QueueShape, Rounds
<1>3. /\ new \in Jobs /\ HasTries(new) /\ new.pass = ByHand /\ new.ready <= minute
      /\ new.id[2] = -Len(upsets')
  <2>1. <<u, -Len(upsets')>> \in Urls \X Int /\ Tries \in Nat \ {0} /\ MaxStalls \in Nat /\ minute + 0 = minute
    BY <1>1, <1>2, ScanQueueConstants, SMTT(20)
  <2>2. new \in Jobs
    BY <1>2, <2>1 DEF NewJob, Jobs, ByHand
  <2>3. HasTries(new)
    BY <2>1 DEF NewJob, HasTries
  <2> QED BY <1>2, <2>1, <2>2, <2>3 DEF NewJob
<1>4. queued' = Late(queued \cup {new}, u)
  BY DEF ScanNow
<1> HIDE DEF new
<1>5. \A j \in queued : j.id # new.id
  <2> SUFFICES ASSUME NEW j \in queued, j.id = new.id PROVE FALSE
    OBVIOUS
  <2>1. j.id[2] = -Len(upsets) - 1
    BY <1>1, <1>3
  <2>2. j.id[2] \in -Len(upsets)..-1 \/ j.id[2] \in Nat
    BY <1>2 DEF Sound
  <2> QED BY <1>1, <2>1, <2>2
<1>6. Sound(queued \cup {new}, minute, Len(upsets'))
  <2>1. \A j \in queued : j.pass = ByHand => j.id[2] \in -Len(upsets')..-1
    BY <1>1, <1>2 DEF Sound
  <2>2. new.id[2] \in -Len(upsets')..-1
    BY <1>1, <1>3
  <2> QED BY <1>2, <1>3, <1>5, <2>1, <2>2 DEF Sound
<1>7. Sound(queued', minute, Len(upsets'))
  BY <1>1, <1>2, <1>4, <1>6, LateSound
<1>8. round' \in Rounds /\ (round'.at = "add" => Len(round'.plan) # 0)
  BY PassedRound DEF ScanNow, QueueShape
<1> QED BY <1>1, <1>3, <1>7, <1>8 DEF new

(* A job that changed hands.                                               *)
LEMMA RunningJob ==
  ASSUME NEW j \in Jobs
  PROVE  /\ Running(j).state = "running" /\ Running(j).id = j.id /\ Running(j).pass = j.pass /\ Running(j).ready = j.ready
         /\ Running(j).late = j.late
         /\ HasTries(j) /\ j.state = "waiting" => Running(j) \in Jobs /\ HasTries(Running(j)) /\ Like(Running(j), j)
<1> DEFINE taken == [j EXCEPT !.state = "running"]
<1>1. /\ taken \in Jobs /\ taken.id = j.id /\ taken.pass = j.pass /\ taken.ready = j.ready /\ taken.tick = j.tick
      /\ taken.capped = j.capped /\ taken.late = j.late /\ taken.state = "running" /\ taken.tries = j.tries
      /\ taken.stalls = j.stalls
  BY DEF Jobs
<1>2. Running(j) = [taken EXCEPT !.tries = taken.tries + 1]
  BY DEF Running
<1>3. /\ j.tries < Tries + j.stalls => taken.tries + 1 \in 0..(Tries + MaxStalls) /\ j.tries + 1 <= Tries + j.stalls
  BY <1>1, JobFields, ScanQueueConstants
<1> HIDE DEF taken
<1>4. /\ Running(j).id = j.id /\ Running(j).pass = j.pass /\ Running(j).ready = j.ready /\ Running(j).tick = j.tick
      /\ Running(j).capped = j.capped /\ Running(j).late = j.late /\ Running(j).state = "running"
      /\ Running(j).tries = j.tries + 1 /\ Running(j).stalls = j.stalls
      /\ taken.tries + 1 \in 0..(Tries + MaxStalls) => Running(j) \in Jobs
  BY <1>1, <1>2 DEF Jobs
<1> QED BY <1>3, <1>4 DEF HasTries, Like

LEMMA RecordedJob ==
  ASSUME NEW j \in Jobs, HasTries(j)
  PROVE  LET k == [j EXCEPT !.state = "recorded"] IN
           /\ k \in Jobs /\ HasTries(k) /\ k.state = "recorded" /\ Like(k, j)
           /\ k.id = j.id /\ k.pass = j.pass /\ k.ready = j.ready
<1> DEFINE k == [j EXCEPT !.state = "recorded"]
<1>1. /\ k \in Jobs /\ k.id = j.id /\ k.pass = j.pass /\ k.ready = j.ready /\ k.tick = j.tick
      /\ k.capped = j.capped /\ k.late = j.late /\ k.state = "recorded" /\ k.tries = j.tries /\ k.stalls = j.stalls
  BY DEF Jobs
<1> HIDE DEF k
<1>2. HasTries(k) /\ Like(k, j)
  BY <1>1 DEF HasTries, Like
<1> QED BY <1>1, <1>2 DEF k

LEMMA JobAgain ==
  ASSUME NEW j \in Jobs
  PROVE  /\ Again(j) \in Jobs /\ Again(j).state = "waiting" /\ Like(Again(j), j)
         /\ Again(j).id = j.id /\ Again(j).pass = j.pass /\ Again(j).ready = j.ready
         /\ Again(j).tries = j.tries /\ Again(j).stalls = j.stalls
<1> DEFINE late == j.late \/ j.state = "recorded"
<1>1. late \in BOOLEAN
  BY JobFields
<1> HIDE DEF late
<1>2. Again(j) = [j EXCEPT !.state = "waiting", !.late = late]
  BY Zenon DEF Again, late
<1>3. /\ Again(j) \in Jobs /\ Again(j).state = "waiting" /\ Again(j).late = late
      /\ Again(j).id = j.id /\ Again(j).pass = j.pass /\ Again(j).ready = j.ready /\ Again(j).tick = j.tick
      /\ Again(j).capped = j.capped /\ Again(j).tries = j.tries /\ Again(j).stalls = j.stalls
  BY <1>1, <1>2 DEF Jobs
<1>4. (j.late => Again(j).late) /\ (j.state = "recorded" => Again(j).late)
  BY <1>3, Zenon DEF late
<1> QED BY <1>3, <1>4 DEF Like

LEMMA StalledJob ==
  ASSUME NEW j \in Jobs, HasTries(j), j.stalls < MaxStalls
  PROVE  LET k == [Again(j) EXCEPT !.stalls = @ + 1] IN
           /\ k \in Jobs /\ HasTries(k) /\ k.state = "waiting" /\ Like(k, j)
           /\ k.id = j.id /\ k.pass = j.pass /\ k.ready = j.ready
<1> DEFINE k == [Again(j) EXCEPT !.stalls = @ + 1]
<1>1. /\ Again(j) \in Jobs /\ Again(j).state = "waiting" /\ Like(Again(j), j)
      /\ Again(j).id = j.id /\ Again(j).pass = j.pass /\ Again(j).ready = j.ready
      /\ Again(j).tries = j.tries /\ Again(j).stalls = j.stalls
  BY JobAgain
<1>2. /\ j.stalls + 1 \in 0..MaxStalls /\ j.tries <= Tries + j.stalls /\ j.tries < Tries + (j.stalls + 1)
      /\ j.tries <= Tries + (j.stalls + 1)
  BY JobFields, ScanQueueConstants DEF HasTries
<1>3. k = [Again(j) EXCEPT !.stalls = j.stalls + 1]
  BY <1>1
<1>4. /\ k \in Jobs /\ k.state = "waiting" /\ k.id = Again(j).id /\ k.pass = Again(j).pass /\ k.ready = Again(j).ready
      /\ k.tick = Again(j).tick /\ k.capped = Again(j).capped /\ k.late = Again(j).late /\ k.tries = Again(j).tries
      /\ k.stalls = j.stalls + 1
  BY <1>1, <1>2, <1>3 DEF Jobs
<1> HIDE DEF k
<1>5. HasTries(k) /\ Like(k, j)
  BY <1>1, <1>2, <1>4 DEF HasTries, Like
<1> QED BY <1>1, <1>4, <1>5 DEF k

(* Of the jobs of a sound queue one may go or be replaced by itself later  *)
(* on.                                                                     *)
LEMMA FewerSound ==
  ASSUME NEW now, NEW n, NEW jobs, Sound(jobs, now, n), NEW fewer \in SUBSET jobs
  PROVE  Sound(fewer, now, n)
  BY Zenon DEF Sound

LEMMA ReplacedSound ==
  ASSUME NEW now, NEW n, NEW jobs, Sound(jobs, now, n), NEW j \in jobs,
         NEW k \in Jobs, HasTries(k), k.id = j.id, k.pass = j.pass, k.ready = j.ready
  PROVE  Sound((jobs \ {j}) \cup {k}, now, n)
<1>1. /\ \A i \in jobs : i.id = k.id => i = j
      /\ k.pass = ByHand => k.ready <= now /\ k.id[2] \in -n..-1
      /\ k.pass # ByHand => k.id[2] \in Nat
  BY Zenon DEF Sound
<1>2. (jobs \ {j}) \cup {k} \subseteq Jobs
  BY DEF Sound
<1>3. ASSUME NEW i \in (jobs \ {j}) \cup {k}, NEW l \in (jobs \ {j}) \cup {k}, i.id = l.id PROVE i = l
  <2>1. CASE i = k
    BY <1>1, <1>3, <2>1, Zenon
  <2>2. CASE l = k
    BY <1>1, <1>3, <2>2, Zenon
  <2>3. CASE i # k /\ l # k
    BY <1>3, <2>3, Zenon DEF Sound
  <2> QED BY <2>1, <2>2, <2>3
<1>4. ASSUME NEW i \in (jobs \ {j}) \cup {k}
      PROVE  /\ HasTries(i)
             /\ i.pass = ByHand => i.ready <= now /\ i.id[2] \in -n..-1
             /\ i.pass # ByHand => i.id[2] \in Nat
  <2>1. CASE i = k
    BY <1>1, <2>1, Zenon
  <2>2. CASE i # k
    BY <2>2, Zenon DEF Sound
  <2> QED BY <2>1, <2>2
<1> QED BY <1>2, <1>3, <1>4, Zenon DEF Sound

(* Sound jobs stay sound when one more upset is on record.                 *)
LEMMA SoundAfterUpset ==
  ASSUME NEW now, NEW n \in Nat, NEW m, m = n + 1, NEW jobs, Sound(jobs, now, n)
  PROVE  Sound(jobs, now, m)
<1>1. \A i : i \in -n..-1 => i \in -m..-1
  OBVIOUS
<1>2. /\ jobs \subseteq Jobs
      /\ \A j, k \in jobs : j.id = k.id => j = k
  BY Zenon DEF Sound
<1>3. ASSUME NEW j \in jobs
      PROVE  /\ HasTries(j)
             /\ j.pass = ByHand => j.ready <= now /\ j.id[2] \in -m..-1
             /\ j.pass # ByHand => j.id[2] \in Nat
  BY <1>1, Zenon DEF Sound
<1> QED BY <1>2, <1>3, Zenon DEF Sound

LEMMA StartedSound ==
  ASSUME QueueShape, NEW j \in queued, StartScan(j)
  PROVE  Sound(queued', minute, Len(upsets)) /\ started' \subseteq FirstStarts /\ Running(j) \in Jobs
<1>1. /\ Sound(queued, minute, Len(upsets)) /\ j \in Jobs /\ HasTries(j) /\ j.state = "waiting" /\ minute \in Nat
      /\ started \subseteq FirstStarts
  BY ScanQueueConstants DEF QueueShape, Sound, StartScan
<1>2. /\ Running(j) \in Jobs /\ HasTries(Running(j)) /\ Running(j).id = j.id /\ Running(j).pass = j.pass
      /\ Running(j).ready = j.ready
  BY <1>1, RunningJob
<1>3. Sound(queued', minute, Len(upsets))
  BY <1>1, <1>2, ReplacedSound DEF StartScan
<1>4. FirstStart(j) \subseteq FirstStarts
  BY <1>1, JobFields DEF FirstStart, FirstStarts
<1>5. started' \subseteq FirstStarts
  BY <1>1, <1>4 DEF StartScan
<1> QED BY <1>2, <1>3, <1>5

LEMMA UpsetSound ==
  ASSUME QueueShape, NEW what \in UpsetKinds, Upset(what)
  PROVE  Sound(queued, minute, Len(upsets')) /\ upsets' \in Seq(UpsetKinds)
<1>1. upsets' \in Seq(UpsetKinds) /\ Len(upsets') = Len(upsets) + 1 /\ Len(upsets) \in Nat
  BY UpsetAdds DEF QueueShape
<1>2. Sound(queued, minute, Len(upsets))
  BY DEF QueueShape
<1> QED BY <1>1, <1>2, SoundAfterUpset

LEMMA ThrownSound ==
  ASSUME QueueShape, NEW j \in queued, ScanThrows(j)
  PROVE  /\ Sound(queued', minute, Len(upsets')) /\ ended' \subseteq Urls \X Int
         /\ upsets' \in Seq(UpsetKinds)
<1>1. Sound(queued, minute, Len(upsets')) /\ upsets' \in Seq(UpsetKinds)
  BY UpsetSound, UpsetsAre DEF ScanThrows
<1>2. j \in Jobs /\ HasTries(j) /\ ended \subseteq Urls \X Int
  BY DEF QueueShape, Sound
<1>3. ended' \subseteq Urls \X Int
  BY <1>2 DEF ScanThrows, Gone, Jobs
<1>4. CASE j.tries - j.stalls < Tries
  <2>1. /\ Again(j) \in Jobs /\ Again(j).id = j.id /\ Again(j).pass = j.pass /\ Again(j).ready = j.ready
        /\ Again(j).tries = j.tries /\ Again(j).stalls = j.stalls
    BY <1>2, JobAgain
  <2>2. HasTries(Again(j))
    BY <1>2, <1>4, <2>1, JobFields, ScanQueueConstants DEF HasTries
  <2>3. queued' = (queued \ {j}) \cup {Again(j)}
    BY <1>4 DEF ScanThrows
  <2> QED BY <1>1, <1>3, <2>1, <2>2, <2>3, ReplacedSound
<1>5. CASE ~(j.tries - j.stalls < Tries)
  <2>1. queued' \in SUBSET queued
    BY <1>5 DEF ScanThrows, Gone
  <2> QED BY <1>1, <1>3, <2>1, FewerSound
<1> QED BY <1>4, <1>5

LEMMA LostSound ==
  ASSUME QueueShape, NEW j \in queued, ScanLost(j)
  PROVE  /\ Sound(queued', minute, Len(upsets')) /\ ended' \subseteq Urls \X Int /\ astray' \subseteq Urls
         /\ upsets' \in Seq(UpsetKinds)
<1>1. Sound(queued, minute, Len(upsets')) /\ upsets' \in Seq(UpsetKinds)
  BY UpsetSound, UpsetsAre DEF ScanLost
<1>2. j \in Jobs /\ HasTries(j) /\ ended \subseteq Urls \X Int /\ astray \subseteq Urls
  BY DEF QueueShape, Sound
<1>3. ended' \subseteq Urls \X Int
  BY <1>2 DEF ScanLost, Gone, Jobs
<1>4. astray' \subseteq Urls
  BY <1>2, JobFields DEF ScanLost
<1>5. CASE j.stalls < MaxStalls
  <2>1. queued' = (queued \ {j}) \cup {[Again(j) EXCEPT !.stalls = @ + 1]}
    BY <1>5 DEF ScanLost
  <2> QED BY <1>1, <1>2, <1>3, <1>4, <1>5, <2>1, StalledJob, ReplacedSound
<1>6. CASE ~(j.stalls < MaxStalls)
  <2>1. queued' \in SUBSET queued
    BY <1>6 DEF ScanLost, Gone
  <2> QED BY <1>1, <1>3, <1>4, <2>1, FewerSound
<1> QED BY <1>5, <1>6

(* What a scan leaves on the row.                                          *)
LEMMA NotedPage ==
  ASSUME QueueShape, NEW u \in Urls, NEW fetched \in BOOLEAN, Noted(u, fetched)
  PROVE  page' \in [Urls -> PageRows] /\ \A v \in Urls : v # u => page'[v] = page[v]
<1> DEFINE noted == IF fetched THEN [success |-> minute, attempt |-> minute, fails |-> 0]
                             ELSE [success |-> page[u].success, attempt |-> minute,
                                   fails |-> Least(page[u].fails + 1, MaxFailures)]
<1>1. page' = [page EXCEPT ![u] = noted] /\ page \in [Urls -> PageRows]
  BY DEF Noted, QueueShape
<1>2. noted \in PageRows
  <2>1. page[u] \in PageRows /\ minute \in Int
    BY <1>1 DEF QueueShape
  <2>2. page[u].fails \in 0..MaxFailures /\ page[u].success \in Int
    BY <2>1 DEF PageRows
  <2>3. 0 \in 0..MaxFailures /\ Least(page[u].fails + 1, MaxFailures) \in 0..MaxFailures
    BY <2>2, ScanQueueConstants DEF Least
  <2>4. CASE fetched
    BY <2>1, <2>3, <2>4 DEF PageRows
  <2>5. CASE ~fetched
    BY <2>1, <2>2, <2>3, <2>5 DEF PageRows
  <2> QED BY <2>4, <2>5
<1> QED BY <1>1, <1>2

(* Every step of the queue keeps its shape.                                *)
LEMMA QueueShapeStep ==
  ASSUME QueueShape, [QueueNext]_qVars
  PROVE  QueueShape'
<1> USE ScanQueueConstants
<1>1. CASE MinutePasses
  <2>1. round' \in Rounds /\ (round'.at = "add" => Len(round'.plan) # 0)
    BY <1>1, StartedRound DEF QueueShape, MinutePasses
  <2>2. alarm' \in Nat /\ minute' \in 0..Horizon /\ ended' \subseteq Urls \X Int
    BY <1>1, SMTT(20) DEF QueueShape, MinutePasses
  <2>3. Sound(queued, minute', Len(upsets))
    <3>1. \A j \in Jobs : j.ready <= minute => j.ready <= minute'
      BY <1>1, JobFields DEF QueueShape, MinutePasses
    <3> QED BY <3>1 DEF QueueShape, Sound
  <2>4. queued' = queued /\ astray' = astray /\ page' = page /\ started' = started /\ upsets' = upsets
    BY <1>1 DEF MinutePasses
  <2>5. Sound(queued', minute', Len(upsets'))
    BY <2>3, <2>4
  <2>6. /\ upsets' \in Seq(UpsetKinds) /\ started' \subseteq FirstStarts
        /\ page' \in [Urls -> PageRows] /\ astray' \subseteq Urls
    BY <2>4 DEF QueueShape
  <2> QED BY <2>1, <2>2, <2>5, <2>6 DEF QueueShape
<1>2. CASE RestartScheduler
  <2>1. round' \in Rounds /\ (round'.at = "add" => Len(round'.plan) # 0)
    BY <1>2, StartedRound DEF QueueShape, RestartScheduler
  <2>2. upsets' \in Seq(UpsetKinds) /\ Len(upsets') = Len(upsets) + 1 /\ Len(upsets) \in Nat
    <3>1. Upset("restart")
      BY <1>2 DEF RestartScheduler
    <3>2. upsets \in Seq(UpsetKinds) /\ "restart" \in UpsetKinds
      BY Zenon, UpsetsAre DEF QueueShape, UpsetKinds
    <3> QED BY <3>1, <3>2, UpsetAdds
  <2>3. Sound(queued, minute, Len(upsets'))
    <3>1. Sound(queued, minute, Len(upsets))
      BY DEF QueueShape
    <3> QED BY <2>2, <3>1, SoundAfterUpset
  <2>4. Tick \in Nat /\ minute \in Nat
    BY DEF QueueShape
  <2>5. alarm' \in Nat
    BY <1>2, <2>4 DEF RestartScheduler
  <2>6. minute' = minute /\ queued' = queued /\ astray' = astray /\ ended' = ended /\ page' = page /\ started' = started
    BY <1>2 DEF RestartScheduler
  <2>7. Sound(queued', minute', Len(upsets'))
    BY <2>3, <2>6
  <2>8. /\ minute' \in 0..Horizon /\ ended' \subseteq Urls \X Int /\ started' \subseteq FirstStarts
        /\ page' \in [Urls -> PageRows] /\ astray' \subseteq Urls
    BY <2>6 DEF QueueShape
  <2> QED BY <2>1, <2>2, <2>5, <2>7, <2>8, Zenon DEF QueueShape
<1>3. CASE ListDueUrls
  <2>1. round' \in Rounds /\ (round'.at = "add" => Len(round'.plan) # 0)
    <3> DEFINE due == {u \in Urls : ScanDue(u)}
    <3>1. CASE due = {}
      BY <1>3, <3>1, RestingRound DEF ListDueUrls, QueueShape
    <3>2. CASE due # {}
      <4>1. PICK plan \in Plans(due) :
              round' = [at |-> "add", number |-> round.number, since |-> round.since,
                        plan |-> plan, behind |-> {u \in due : Behind(u)}]
        BY <1>3, <3>2 DEF ListDueUrls
      <4> HIDE DEF due
      <4>2. due \subseteq Urls
        BY DEF due
      <4>3. plan \in Seq(PlanEntry) /\ Len(plan) # 0
        BY <3>2, <4>2, PlansAreWhole
      <4>4. {u \in due : Behind(u)} \subseteq Urls
        BY <4>2
      <4>5. round \in Rounds
        BY DEF QueueShape
      <4> QED BY <4>1, <4>3, <4>4, <4>5, RoundFields, RoundMade
    <3> QED BY <3>1, <3>2
  <2> QED BY <1>3, <2>1 DEF QueueShape, ListDueUrls
<1>4. CASE AddScan
  BY <1>4, AddedSound DEF QueueShape, AddScan
<1>5. CASE AddThrows
  <2>1. round' \in Rounds /\ round'.at = "rest"
    BY <1>5, RestingRound DEF QueueShape, AddThrows
  <2>2. upsets' \in Seq(UpsetKinds) /\ Len(upsets') = Len(upsets) + 1 /\ Len(upsets) \in Nat
    <3>1. Upset("throw")
      BY <1>5 DEF AddThrows
    <3>2. upsets \in Seq(UpsetKinds) /\ "throw" \in UpsetKinds
      BY Zenon, UpsetsAre DEF QueueShape, UpsetKinds
    <3> QED BY <3>1, <3>2, UpsetAdds
  <2>3. Sound(queued, minute, Len(upsets'))
    <3>1. Sound(queued, minute, Len(upsets))
      BY DEF QueueShape
    <3> QED BY <2>2, <3>1, SoundAfterUpset
  <2>4. /\ minute' = minute /\ alarm' = alarm /\ queued' = queued /\ astray' = astray /\ ended' = ended /\ page' = page
        /\ started' = started
    BY <1>5 DEF AddThrows
  <2>5. round' \in Rounds /\ (round'.at = "add" => Len(round'.plan) # 0)
    BY <2>1
  <2>6. Sound(queued', minute', Len(upsets'))
    BY <2>3, <2>4
  <2>7. /\ minute' \in 0..Horizon /\ alarm' \in Nat /\ ended' \subseteq Urls \X Int /\ started' \subseteq FirstStarts
        /\ page' \in [Urls -> PageRows] /\ astray' \subseteq Urls
    BY <2>4 DEF QueueShape
  <2>8. upsets' \in Seq(UpsetKinds)
    BY <2>2
  <2> HIDE <1>5
  <2> QED BY <2>5, <2>6, <2>7, <2>8 DEF QueueShape
<1>6. ASSUME NEW u \in Urls, ScanNow(u) PROVE QueueShape'
  BY <1>6, ByHandSound DEF QueueShape, ScanNow
<1>7. ASSUME NEW j \in queued, StartScan(j) PROVE QueueShape'
  BY <1>7, StartedSound DEF QueueShape, StartScan
<1>8. ASSUME NEW j \in queued, ScanThrows(j) PROVE QueueShape'
  BY <1>8, ThrownSound DEF QueueShape, ScanThrows
<1>9. ASSUME NEW j \in queued, NEW fetched \in BOOLEAN, RecordOnRow(j, fetched) PROVE QueueShape'
  <2>1. j \in Jobs /\ HasTries(j) /\ j.id[1] \in Urls /\ Sound(queued, minute, Len(upsets))
    BY JobFields DEF QueueShape, Sound
  <2>2. Sound(queued', minute, Len(upsets))
    BY <1>9, <2>1, RecordedJob, ReplacedSound DEF RecordOnRow
  <2>3. page' \in [Urls -> PageRows]
    BY <1>9, <2>1, NotedPage DEF RecordOnRow
  <2> QED BY <1>9, <2>2, <2>3 DEF QueueShape, RecordOnRow
<1>10. ASSUME NEW j \in queued, EndScan(j) PROVE QueueShape'
  <2>1. j \in Jobs /\ Sound(queued, minute, Len(upsets))
    BY DEF QueueShape, Sound
  <2>2. Sound(queued', minute, Len(upsets))
    BY <1>10, <2>1, FewerSound DEF EndScan, Gone
  <2>3. ended' \subseteq Urls \X Int
    BY <1>10, <2>1 DEF QueueShape, EndScan, Gone, Jobs
  <2> QED BY <1>10, <2>2, <2>3 DEF QueueShape, EndScan
<1>11. ASSUME NEW j \in queued, ScanLost(j) PROVE QueueShape'
  BY <1>11, LostSound DEF QueueShape, ScanLost
<1>12. ASSUME NEW u \in Urls, NEW fetched \in BOOLEAN, StrayRecords(u, fetched) PROVE QueueShape'
  <2>1. Sound(queued, minute, Len(upsets)) /\ minute \in Nat /\ Len(upsets) \in Nat /\ round \in Rounds
    BY DEF QueueShape
  <2>2. Sound(queued', minute, Len(upsets))
    BY <1>12, <2>1, LateSound DEF StrayRecords
  <2>3. page' \in [Urls -> PageRows]
    BY <1>12, NotedPage DEF StrayRecords
  <2>4. round' \in Rounds /\ (round'.at = "add" => Len(round'.plan) # 0)
    BY <1>12, <2>1, PassedRound DEF StrayRecords, QueueShape
  <2> QED BY <1>12, <2>2, <2>3, <2>4 DEF QueueShape, StrayRecords
<1>13. ASSUME NEW u \in Urls, StrayEnds(u) PROVE QueueShape'
  BY <1>13 DEF QueueShape, StrayEnds
<1>14. CASE UNCHANGED qVars
  BY <1>14 DEF QueueShape, qVars
<1> QED BY <1>1, <1>2, <1>3, <1>4, <1>5, <1>6, <1>7, <1>8, <1>9, <1>10, <1>11, <1>12, <1>13, <1>14 DEF QueueNext

(* Type correctness of the scan queue, restarts, throws and lost jobs      *)
(* included.                                                               *)
THEOREM QueueTypeCorrect == QueueSpec => []QueueTypeOK
<1>1. QueueShape => QueueTypeOK
  BY DEF QueueShape, QueueTypeOK, Sound, Jobs, Rounds, PageRows
<1> QED BY <1>1, QueueShapeHolds, QueueShapeStep, PTL DEF QueueSpec

-----------------------------------------------------------------------------
(* How the queue moves: only a pass and a scan by hand add to it.          *)
AddsNothing ==
  \/ MinutePasses \/ RestartScheduler \/ ListDueUrls \/ AddThrows \/ UNCHANGED qVars
  \/ \E u \in Urls : StrayEnds(u)
  \/ \E j \in queued : StartScan(j) \/ EndScan(j) \/ ScanThrows(j) \/ ScanLost(j)
                       \/ \E fetched \in BOOLEAN : RecordOnRow(j, fetched)

(* The others overtake the jobs of their URL: what is queued and listed of *)
(* it is late from then on.                                                *)
Overtakes(u) == ScanNow(u) \/ \E fetched \in BOOLEAN : StrayRecords(u, fetched)

LEMMA QueueSteps ==
  ASSUME [QueueNext]_qVars
  PROVE  AddScan \/ AddsNothing \/ \E u \in Urls : Overtakes(u)
  BY DEF QueueNext, AddsNothing, Overtakes

(* What becomes of the job that a worker's step is about.                  *)
LEMMA WorkersMove ==
  ASSUME QueueShape, NEW j \in queued
  PROVE  /\ StartScan(j) => queued' = (queued \ {j}) \cup {Running(j)} /\ Like(Running(j), j)
         /\ EndScan(j) => queued' \subseteq queued
         /\ ScanThrows(j) \/ ScanLost(j) =>
              queued' \subseteq queued \/ \E k : k.state = "waiting" /\ Like(k, j) /\ queued' = (queued \ {j}) \cup {k}
         /\ \A fetched \in BOOLEAN : RecordOnRow(j, fetched) =>
              \E k : k.state = "recorded" /\ Like(k, j) /\ queued' = (queued \ {j}) \cup {k}
<1>1. j \in Jobs /\ HasTries(j)
  BY DEF QueueShape, Sound
<1>2. StartScan(j) => queued' = (queued \ {j}) \cup {Running(j)} /\ Like(Running(j), j)
  BY <1>1, RunningJob DEF StartScan
<1>3. EndScan(j) => queued' \subseteq queued
  BY DEF EndScan, Gone
<1>4. ASSUME ScanThrows(j)
      PROVE  queued' \subseteq queued \/ \E k : k.state = "waiting" /\ Like(k, j) /\ queued' = (queued \ {j}) \cup {k}
  <2>1. queued' = (queued \ {j}) \cup {Again(j)} \/ queued' \subseteq queued
    BY <1>4 DEF ScanThrows, Gone
  <2> QED BY <1>1, <2>1, JobAgain
<1>5. ASSUME ScanLost(j)
      PROVE  queued' \subseteq queued \/ \E k : k.state = "waiting" /\ Like(k, j) /\ queued' = (queued \ {j}) \cup {k}
  <2> DEFINE back == [Again(j) EXCEPT !.stalls = @ + 1]
  <2>1. \/ j.stalls < MaxStalls /\ queued' = (queued \ {j}) \cup {back}
        \/ queued' \subseteq queued
    BY <1>5 DEF ScanLost, Gone
  <2>2. j.stalls < MaxStalls => back.state = "waiting" /\ Like(back, j)
    BY <1>1, StalledJob
  <2> QED BY <2>1, <2>2, Zenon
<1>6. ASSUME NEW fetched \in BOOLEAN, RecordOnRow(j, fetched)
      PROVE  \E k : k.state = "recorded" /\ Like(k, j) /\ queued' = (queued \ {j}) \cup {k}
  <2> DEFINE recorded == [j EXCEPT !.state = "recorded"]
  <2>1. recorded.state = "recorded" /\ Like(recorded, j)
    BY <1>1, RecordedJob
  <2>2. queued' = (queued \ {j}) \cup {recorded}
    BY <1>6 DEF RecordOnRow
  <2> QED BY <2>1, <2>2, Zenon
<1> QED BY <1>2, <1>3, <1>4, <1>5, <1>6

LEMMA QueueMoves ==
  ASSUME QueueShape, AddsNothing
  PROVE  \A k \in queued' : \E j \in queued : Like(k, j)
<1>1. \A j \in queued : Like(j, j)
  BY DEF Like
<1>2. CASE queued' \subseteq queued
  BY <1>1, <1>2
<1>3. ASSUME NEW j \in queued, StartScan(j) \/ EndScan(j) \/ ScanThrows(j) \/ ScanLost(j) \/ \E fetched \in BOOLEAN : RecordOnRow(j, fetched)
      PROVE  queued' \subseteq queued \/ \E k : Like(k, j) /\ queued' = (queued \ {j}) \cup {k}
  BY <1>3, WorkersMove
<1>4. ASSUME MinutePasses \/ RestartScheduler \/ ListDueUrls \/ AddThrows \/ UNCHANGED qVars \/ \E u \in Urls : StrayEnds(u)
      PROVE  queued' \subseteq queued
  BY <1>4 DEF MinutePasses, RestartScheduler, ListDueUrls, AddThrows, StrayEnds, qVars
<1>5. ASSUME NEW j \in queued, NEW l, Like(l, j), queued' = (queued \ {j}) \cup {l}
      PROVE  \A k \in queued' : \E i \in queued : Like(k, i)
  BY <1>1, <1>5
<1> QED BY <1>2, <1>3, <1>4, <1>5 DEF AddsNothing

LEMMA QuietEffects ==
  ASSUME QueueShape, AddsNothing
  PROVE  /\ (minute' = minute \/ MinutePasses) /\ minute' >= minute
         /\ alarm' = alarm \/ MinutePasses \/ RestartScheduler
         /\ \/ round' = round \/ round'.at = "rest" \/ ListDueUrls
            \/ round'.at = "list" /\ (MinutePasses \/ RestartScheduler)
<1>1. minute \in Nat /\ round \in Rounds
  BY DEF QueueShape
<1>10. minute' = minute => minute' >= minute
  BY <1>1
<1>2. CASE MinutePasses
  BY <1>1, <1>2, StartedRound DEF MinutePasses, QueueShape
<1>3. CASE RestartScheduler
  <2>1. minute' = minute /\ minute \in Nat /\ round' = Started(minute) /\ round \in Rounds
    BY <1>3 DEF RestartScheduler, QueueShape
  <2>2. round'.at = "list"
    BY <2>1, StartedRound
  <2> QED BY <1>3, <2>1, <2>2
<1>4. CASE ListDueUrls
  BY <1>4, <1>10 DEF ListDueUrls
<1>5. CASE AddThrows
  BY <1>1, <1>5, <1>10, RestingRound DEF AddThrows
<1>6. CASE UNCHANGED qVars
  BY <1>6, <1>10 DEF qVars
<1>7. ASSUME NEW j \in queued, StartScan(j) \/ EndScan(j) PROVE minute' = minute /\ alarm' = alarm /\ round' = round
  BY <1>7 DEF StartScan, EndScan
<1>8. ASSUME NEW j \in queued, ScanThrows(j) \/ ScanLost(j) PROVE minute' = minute /\ alarm' = alarm /\ round' = round
  BY <1>8 DEF ScanThrows, ScanLost
<1>9. ASSUME NEW j \in queued, NEW fetched \in BOOLEAN, RecordOnRow(j, fetched)
      PROVE  minute' = minute /\ alarm' = alarm /\ round' = round
  BY <1>9 DEF RecordOnRow
<1>11. ASSUME NEW u \in Urls, StrayEnds(u) PROVE minute' = minute /\ alarm' = alarm /\ round' = round
  BY <1>11 DEF StrayEnds
<1> QED BY <1>2, <1>3, <1>4, <1>5, <1>6, <1>7, <1>8, <1>9, <1>10, <1>11 DEF AddsNothing

(* What a pass adds: nothing, or one job that was not there.               *)
LEMMA PassAdds ==
  ASSUME QueueShape, AddScan
  PROVE  LET u == round.plan[1].url
             d == round.plan[1].delay
             new == NewJob(Id(u), d, round.number)
         IN  /\ new \in Jobs /\ new.id[1] = u /\ new.state = "waiting" /\ ~new.late
             /\ new.pass = round.number /\ new.tick = round.since
             /\ new.ready = minute + d /\ new.capped = (d = MaxDelay)
             /\ u \notin round.behind => queued' \subseteq queued \cup {new}
             /\ \A k \in queued' : \E j \in queued \cup {new} :
                  /\ Like(k, j) /\ k.state = j.state
                  /\ u \in round.behind => IF j.id[1] = u THEN k.late ELSE k = j
<1> DEFINE u == round.plan[1].url  d == round.plan[1].delay  new == NewJob(Id(u), d, round.number)
<1>1. u \in Urls /\ d \in 0..MaxDelay /\ new \in Jobs
  BY AddedSound
<1>2. /\ new.id = Id(u) /\ new.state = "waiting" /\ new.pass = round.number /\ new.tick = round.since
      /\ new.ready = minute + d /\ new.capped = (d = MaxDelay) /\ new.late = FALSE /\ Id(u)[1] = u
  BY DEF NewJob, Id
<1>3. WithJob(u, d) \subseteq queued \cup {new}
  BY DEF WithJob
<1>4. queued' = IF u \in round.behind THEN Late(WithJob(u, d), u) ELSE WithJob(u, d)
  BY DEF AddScan
<1>5. queued \subseteq Jobs
  BY DEF QueueShape, Sound
<1> HIDE DEF u, d, new
<1>6. \A k \in queued' : \E j \in queued \cup {new} :
        /\ Like(k, j) /\ k.state = j.state
        /\ u \in round.behind => IF j.id[1] = u THEN k.late ELSE k = j
  <2>1. CASE u \in round.behind
    <3>1. WithJob(u, d) \in SUBSET Jobs
      BY <1>1, <1>3, <1>5
    <3> QED BY <1>1, <1>3, <1>4, <2>1, <3>1, LateJobs
  <2>2. CASE u \notin round.behind
    BY <1>3, <1>4, <2>2 DEF Like
  <2> QED BY <2>1, <2>2
<1> QED BY <1>1, <1>2, <1>3, <1>4, <1>6 DEF u, d, new

LEMMA ByHandAdds ==
  ASSUME QueueShape, NEW u \in Urls, ScanNow(u)
  PROVE  \A k \in queued' :
           \/ k.id[1] # u /\ k \in queued
           \/ /\ k.id[1] = u /\ k.late
              /\ \/ \E j \in queued : Like(k, j) /\ k.state = j.state
                 \/ k.pass = ByHand /\ k.state = "waiting"
<1> DEFINE new == NewJob(<<u, -Len(upsets')>>, 0, ByHand)
<1>1. new \in Jobs
  BY ByHandSound
<1>2. new.id[1] = u /\ new.pass = ByHand /\ new.state = "waiting"
  BY DEF NewJob
<1>3. queued' = Late(queued \cup {new}, u)
  BY DEF ScanNow
<1>4. queued \subseteq Jobs
  BY DEF QueueShape, Sound
<1> HIDE DEF new
<1> SUFFICES ASSUME NEW k \in queued'
             PROVE  \/ k.id[1] # u /\ k \in queued
                    \/ /\ k.id[1] = u /\ k.late
                       /\ \/ \E j \in queued : Like(k, j) /\ k.state = j.state
                          \/ k.pass = ByHand /\ k.state = "waiting"
  OBVIOUS
<1>5. PICK j \in queued \cup {new} : /\ Like(k, j) /\ k.state = j.state
                                    /\ IF j.id[1] = u THEN k.late ELSE k = j
  BY <1>1, <1>3, <1>4, LateJobs
<1> QED BY <1>2, <1>5 DEF Like

LEMMA OvertakenJobs ==
  ASSUME QueueShape, NEW u \in Urls, Overtakes(u)
  PROVE  /\ \A k \in queued' :
              \/ k.id[1] # u /\ k \in queued
              \/ /\ k.id[1] = u /\ k.late
                 /\ \/ \E j \in queued : Like(k, j) /\ k.state = j.state
                    \/ k.pass = ByHand /\ k.state = "waiting"
         /\ \A v \in Urls : v # u => page'[v] = page[v]
         /\ minute' = minute /\ alarm' = alarm /\ started' = started
         /\ round'.at = round.at /\ round'.plan = round.plan /\ round'.number = round.number /\ round'.since = round.since
         /\ round.at = "add" => round'.behind = round.behind \cup {u}
<1>1. round \in Rounds /\ queued \in SUBSET Jobs
  BY DEF QueueShape, Sound
<1>2. CASE ScanNow(u)
  BY <1>1, <1>2, ByHandAdds, PassedRound DEF ScanNow
<1>3. ASSUME NEW fetched \in BOOLEAN, StrayRecords(u, fetched)
      PROVE  /\ queued' = Late(queued, u) /\ round' = Passed(u)
             /\ \A v \in Urls : v # u => page'[v] = page[v]
             /\ minute' = minute /\ alarm' = alarm /\ started' = started
  <2>1. Noted(u, fetched)
    BY <1>3 DEF StrayRecords
  <2>2. \A v \in Urls : v # u => page'[v] = page[v]
    BY <2>1, NotedPage
  <2> QED BY <1>3, <2>2 DEF StrayRecords
<1>4. CASE ~ScanNow(u)
  <2>1. /\ queued' = Late(queued, u) /\ round' = Passed(u)
        /\ \A v \in Urls : v # u => page'[v] = page[v]
        /\ minute' = minute /\ alarm' = alarm /\ started' = started
    BY <1>3, <1>4 DEF Overtakes
  <2>2. ASSUME NEW k \in queued'
        PROVE  \/ k.id[1] # u /\ k \in queued
               \/ k.id[1] = u /\ k.late /\ \E j \in queued : Like(k, j) /\ k.state = j.state
    <3>1. PICK j \in queued : /\ Like(k, j) /\ k.state = j.state
                              /\ IF j.id[1] = u THEN k.late ELSE k = j
      BY <1>1, <2>1, LateJobs
    <3> QED BY <3>1 DEF Like
  <2> QED BY <1>1, <2>1, <2>2, PassedRound
<1> QED BY <1>2, <1>4

(* Only its own start sets a waiting job running.                          *)
LEMMA StartsAre ==
  ASSUME QueueShape, [QueueNext]_qVars, NEW j \in queued, ScanStarts(j)
  PROVE  StartScan(j)
<1>1. queued \subseteq Jobs /\ \A i, k \in queued : i.id = k.id => i = k
  BY DEF QueueShape, Sound
<1>2. /\ j.state = "waiting" /\ Running(j) \in queued' /\ Running(j).state = "running" /\ Running(j).id = j.id
      /\ Running(j) \notin queued
  BY <1>1, RunningJob DEF ScanStarts
<1>3. \A i \in queued : i.id = j.id => i.state = "waiting"
  BY <1>1, <1>2
<1>4. ~(queued' \subseteq queued)
  BY <1>2
<1>5. CASE AddScan
  BY <1>2, <1>3, <1>5, PassAdds DEF Like
<1>6. ASSUME NEW u \in Urls, Overtakes(u) PROVE FALSE
  <2>1. /\ Running(j) \notin queued /\ Running(j).state = "running" /\ Running(j).id = j.id
        /\ \A i \in queued : i.id = j.id => i.state = "waiting"
    BY <1>2, <1>3
  <2>2. \E i \in queued : Like(Running(j), i) /\ Running(j).state = i.state
    BY <1>2, <1>6, <2>1, OvertakenJobs
  <2> QED BY <2>1, <2>2 DEF Like
<1>7. ASSUME NEW i \in queued, StartScan(i) PROVE StartScan(j)
  <2>1. Running(j) = Running(i)
    BY <1>2, <1>7 DEF StartScan
  <2>2. i = j
    BY <1>1, <1>2, <2>1, RunningJob
  <2> QED BY <1>7, <2>2
<1>8. ASSUME NEW i \in queued, EndScan(i) \/ ScanThrows(i) \/ ScanLost(i) \/ \E fetched \in BOOLEAN : RecordOnRow(i, fetched)
      PROVE  FALSE
  <2>1. \/ queued' \subseteq queued
        \/ \E k : k.state \in {"waiting", "recorded"} /\ queued' = (queued \ {i}) \cup {k}
    BY <1>8, WorkersMove
  <2> QED BY <1>2, <2>1
<1>9. ASSUME MinutePasses \/ RestartScheduler \/ ListDueUrls \/ AddThrows \/ UNCHANGED qVars \/ \E u \in Urls : StrayEnds(u)
      PROVE  FALSE
  BY <1>4, <1>9 DEF MinutePasses, RestartScheduler, ListDueUrls, AddThrows, StrayEnds, qVars
<1> QED BY <1>5, <1>6, <1>7, <1>8, <1>9, QueueSteps DEF AddsNothing
-----------------------------------------------------------------------------
(* A scheduled job that is not late is the only one of its URL, which is   *)
(* due until the scan is on the row; so is what a pass has yet to add,     *)
(* unless it was behind.                                                   *)
OnlyJob(j) == (j.state = "recorded" \/ ScanDue(j.id[1])) /\ \A k \in queued : k.id[1] = j.id[1] => k = j
YetToCome(u) == ScanDue(u) /\ \A k \in queued : k.id[1] # u
Planned(plan) == {plan[i].url : i \in DOMAIN plan}
NamesOnce(plan) == \A i, k \in DOMAIN plan : plan[i].url = plan[k].url => i = k
DueInv ==
  /\ \A j \in queued : j.pass # ByHand /\ ~j.late => OnlyJob(j)
  /\ round.at = "add" =>
       /\ \A u \in Urls : u \in Planned(round.plan) /\ u \notin round.behind => YetToCome(u)
       /\ NamesOnce(round.plan)

LEMMA PlannedRest ==
  ASSUME NEW plan \in Seq(PlanEntry), Len(plan) # 0, NamesOnce(plan)
  PROVE  /\ Planned(Tail(plan)) \subseteq Planned(plan) \ {plan[1].url}
         /\ NamesOnce(Tail(plan))
         /\ plan[1].url \in Planned(plan)
<1>1. /\ 1 \in DOMAIN plan
      /\ \A i \in DOMAIN Tail(plan) : i + 1 \in DOMAIN plan /\ i \in Nat \ {0} /\ Tail(plan)[i] = plan[i + 1]
  <2>1. \A i \in DOMAIN Tail(plan) : i \in Nat \ {0}
    OBVIOUS
  <2> QED BY <2>1, FirstAndRest
<1>2. \A i \in Nat \ {0} : i + 1 # 1
  OBVIOUS
<1>3. Planned(Tail(plan)) \subseteq Planned(plan) \ {plan[1].url}
  BY <1>1, <1>2 DEF Planned, NamesOnce
<1>4. ASSUME NEW i \in DOMAIN Tail(plan), NEW k \in DOMAIN Tail(plan), Tail(plan)[i].url = Tail(plan)[k].url
      PROVE  i = k
  <2>1. i + 1 = k + 1 /\ i \in Nat /\ k \in Nat
    BY <1>1, <1>4 DEF NamesOnce
  <2> QED BY <2>1
<1> QED BY <1>1, <1>3, <1>4 DEF Planned, NamesOnce

LEMMA DueStays ==
  ASSUME QueueShape, QueueShape', NEW u \in Urls, ScanDue(u), page'[u] = page[u], minute' >= minute
  PROVE  ScanDue(u)'
<1>1. page[u] \in [success : Int, attempt : Int, fails : 0..MaxFailures] /\ minute \in Int /\ minute' \in Int /\ Cadence \in Int
  BY ScanQueueConstants DEF QueueShape, PageRows
<1>2. Wait(page[u].fails) \in Int
  <2>1. page[u].fails \in Int /\ Tick \in Int /\ \A n \in Nat : 2^n \in Int
    BY <1>1, ScanQueueConstants
  <2>2. page[u].fails # 0 => page[u].fails - 1 \in Nat
    BY <1>1
  <2>3. page[u].fails # 0 => 2^(page[u].fails - 1) \in Int
    BY <2>1, <2>2
  <2> QED BY <2>1, <2>3 DEF Wait
<1>3. page[u].success \in Int /\ page[u].attempt \in Int
  BY <1>1
<1> DEFINE wait == Wait(page[u].fails)
<1>4. ScanDue(u)' <=> /\ page[u].attempt = NotYet \/ minute' - page[u].attempt >= wait
                      /\ page[u].success = NotYet \/ minute' - page[u].success >= Cadence
  BY DEF ScanDue, Wait
<1>5. /\ page[u].attempt = NotYet \/ minute - page[u].attempt >= wait
      /\ page[u].success = NotYet \/ minute - page[u].success >= Cadence
  BY DEF ScanDue
<1> HIDE DEF wait
<1>6. wait \in Int
  BY <1>2 DEF wait
<1> QED BY <1>1, <1>3, <1>4, <1>5, <1>6

(* It stays so while nothing is added and a row changes only with a job    *)
(* that is recorded on it.                                                 *)
LEMMA DueKept ==
  ASSUME QueueShape, QueueShape', DueInv, minute' >= minute,
         \A k \in queued' : \E j \in queued : Like(k, j),
         round'.at = "add" => round' = round,
         \A u \in Urls : page'[u] = page[u] \/ \E j \in queued : j.id[1] = u /\ \A k \in queued' : k.id = j.id => k.state = "recorded"
  PROVE  DueInv'
<1>1. /\ queued \subseteq Jobs /\ queued' \subseteq Jobs
      /\ \A j, k \in queued : j.id = k.id => j = k
      /\ \A j, k \in queued' : j.id = k.id => j = k
  BY DEF QueueShape, Sound
<1>2. ASSUME NEW k \in queued', k.pass # ByHand, ~k.late
      PROVE  OnlyJob(k)'
  <2>1. PICK j \in queued : Like(k, j)
    OBVIOUS
  <2>2. OnlyJob(j) /\ j.id = k.id /\ k.id[1] \in Urls
    BY <1>1, <1>2, <2>1, JobFields DEF DueInv, Like
  <2>3. ASSUME NEW l \in queued', l.id[1] = k.id[1] PROVE l = k
    <3>1. PICK m \in queued : Like(l, m)
      OBVIOUS
    <3>2. m = j
      BY <2>2, <2>3, <3>1 DEF OnlyJob, Like
    <3> QED BY <1>1, <2>2, <3>1, <3>2 DEF Like
  <2>4. ASSUME k.state # "recorded" PROVE ScanDue(k.id[1])'
    <3>1. ScanDue(k.id[1])
      BY <1>2, <2>1, <2>2, <2>4 DEF OnlyJob, Like
    <3>2. page'[k.id[1]] = page[k.id[1]]
      BY <2>2, <2>4 DEF OnlyJob
    <3> QED BY <2>2, <3>1, <3>2, DueStays
  <2> QED BY <2>3, <2>4 DEF OnlyJob
<1>3. ASSUME round'.at = "add", NEW u \in Urls, YetToCome(u)
      PROVE  YetToCome(u)'
  <2>1. page'[u] = page[u]
    BY <1>3 DEF YetToCome
  <2>2. ScanDue(u)'
    BY <1>3, <2>1, DueStays DEF YetToCome
  <2>3. \A k \in queued' : k.id[1] # u
    BY <1>3 DEF YetToCome, Like
  <2> QED BY <2>2, <2>3 DEF YetToCome
<1>4. ASSUME round'.at = "add"
      PROVE  /\ \A u \in Urls : u \in Planned(round'.plan) /\ u \notin round'.behind => YetToCome(u)'
             /\ NamesOnce(round'.plan)
  <2>1. round' = round
    BY <1>4
  <2> QED BY <1>3, <1>4, <2>1 DEF DueInv
<1> QED BY <1>2, <1>4 DEF DueInv

LEMMA DueStep ==
  ASSUME QueueShape, QueueShape', DueInv, [QueueNext]_qVars
  PROVE  DueInv'
<1>1. /\ queued \subseteq Jobs /\ queued' \subseteq Jobs /\ round \in Rounds
      /\ \A j, k \in queued : j.id = k.id => j = k
      /\ \A j, k \in queued' : j.id = k.id => j = k
  BY DEF QueueShape, Sound
<1>2. minute \in Int
  BY DEF QueueShape
<1>3. CASE AddScan
  <2> DEFINE u == round.plan[1].url
             d == round.plan[1].delay
             new == NewJob(Id(u), d, round.number)
  <2>1. /\ round.plan \in Seq(PlanEntry) /\ Len(round.plan) # 0 /\ 1 \in DOMAIN round.plan
        /\ u \in Urls /\ round.at = "add"
    BY <1>3, AddedSound, FirstAndRest DEF AddScan
  <2>2. /\ new \in Jobs /\ new.id[1] = u
        /\ u \notin round.behind => queued' \subseteq queued \cup {new}
        /\ \A k \in queued' : \E j \in queued \cup {new} :
             /\ Like(k, j) /\ k.state = j.state
             /\ u \in round.behind => IF j.id[1] = u THEN k.late ELSE k = j
    BY <1>3, PassAdds
  <2>3. page' = page /\ minute' = minute
    BY <1>3 DEF AddScan
  <2>4. \A v \in Urls : ScanDue(v) => ScanDue(v)'
    BY <1>2, <2>3, DueStays
  <2> HIDE DEF new, u
  <2>5. ASSUME NEW k \in queued', k.id[1] # u PROVE k \in queued
    BY <2>2, <2>5 DEF Like
  <2>6. ASSUME NEW k \in queued', k.pass # ByHand, ~k.late PROVE OnlyJob(k)'
    <3>1. CASE k.id[1] # u
      <4>1. k \in queued /\ OnlyJob(k) /\ k.id[1] \in Urls
        BY <1>1, <2>5, <2>6, <3>1, JobFields DEF DueInv
      <4>2. \A l \in queued' : l.id[1] = k.id[1] => l = k
        BY <2>5, <3>1, <4>1 DEF OnlyJob
      <4> QED BY <2>4, <4>1, <4>2 DEF OnlyJob
    <3>2. CASE k.id[1] = u
      <4>1. u \notin round.behind
        BY <2>2, <2>6, <3>2 DEF Like
      <4>2. YetToCome(u)
        BY <2>1, <4>1, PlannedRest DEF DueInv, u
      <4>3. \A l \in queued' : l.id[1] = u => l = new
        BY <2>2, <4>1, <4>2 DEF YetToCome
      <4> QED BY <2>1, <2>4, <3>2, <4>2, <4>3 DEF OnlyJob, YetToCome
    <3> QED BY <3>1, <3>2
  <2>7. ASSUME round'.at = "add"
        PROVE  /\ \A v \in Urls : v \in Planned(round'.plan) /\ v \notin round'.behind => YetToCome(v)'
               /\ NamesOnce(round'.plan)
    <3>1. round' = [round EXCEPT !.plan = Tail(@)]
      BY <1>1, <1>3, <2>7, RestingRound DEF AddScan
    <3>2. round'.plan = Tail(round.plan) /\ round'.behind = round.behind
      BY <1>1, <3>1 DEF Rounds
    <3>3. Planned(Tail(round.plan)) \subseteq Planned(round.plan) \ {u} /\ NamesOnce(Tail(round.plan))
      BY <2>1, PlannedRest DEF DueInv, u
    <3>4. ASSUME NEW v \in Urls, v \in Planned(Tail(round.plan)), v \notin round.behind PROVE YetToCome(v)'
      <4>1. v # u /\ YetToCome(v)
        BY <2>1, <3>3, <3>4 DEF DueInv
      <4> QED BY <2>4, <2>5, <4>1 DEF YetToCome
    <3> QED BY <3>2, <3>3, <3>4
  <2> QED BY <2>6, <2>7 DEF DueInv
<1>4. ASSUME NEW u \in Urls, Overtakes(u) PROVE DueInv'
  <2>1. \A k \in queued' : (k.id[1] # u /\ k \in queued) \/ (k.id[1] = u /\ k.late)
    BY <1>4, OvertakenJobs
  <2>2. (\A v \in Urls : v # u => page'[v] = page[v]) /\ minute' = minute
    BY <1>4, OvertakenJobs
  <2>3. \A v \in Urls : v # u /\ ScanDue(v) => ScanDue(v)'
    BY <1>2, <2>2, DueStays
  <2>4. ASSUME NEW k \in queued', k.pass # ByHand, ~k.late PROVE OnlyJob(k)'
    <3>1. k \in queued /\ k.id[1] # u /\ OnlyJob(k) /\ k.id[1] \in Urls
      BY <1>1, <2>1, <2>4, JobFields DEF DueInv
    <3> QED BY <2>1, <2>3, <3>1 DEF OnlyJob
  <2>5. ASSUME round'.at = "add"
        PROVE  /\ \A v \in Urls : v \in Planned(round'.plan) /\ v \notin round'.behind => YetToCome(v)'
               /\ NamesOnce(round'.plan)
    <3>1. round.at = "add" /\ round'.plan = round.plan /\ round'.behind = round.behind \cup {u}
      BY <1>4, <2>5, OvertakenJobs
    <3>2. ASSUME NEW v \in Urls, v \in Planned(round.plan), v \notin round.behind \cup {u} PROVE YetToCome(v)'
      BY <2>1, <2>3, <3>1, <3>2 DEF DueInv, YetToCome
    <3> QED BY <3>1, <3>2 DEF DueInv
  <2> QED BY <2>4, <2>5 DEF DueInv
<1>5. CASE ListDueUrls
  <2>1. queued' = queued /\ page' = page /\ minute' = minute
    BY <1>5 DEF ListDueUrls
  <2>2. \A v \in Urls : ScanDue(v) => ScanDue(v)'
    BY <1>2, <2>1, DueStays
  <2>3. ASSUME NEW k \in queued', k.pass # ByHand, ~k.late PROVE OnlyJob(k)'
    <3>1. k \in queued /\ OnlyJob(k) /\ k.id[1] \in Urls
      BY <1>1, <2>1, <2>3, JobFields DEF DueInv
    <3> QED BY <2>1, <2>2, <3>1 DEF OnlyJob
  <2>4. ASSUME round'.at = "add"
        PROVE  /\ \A v \in Urls : v \in Planned(round'.plan) /\ v \notin round'.behind => YetToCome(v)'
               /\ NamesOnce(round'.plan)
    <3> DEFINE due == {u \in Urls : ScanDue(u)}
    <3>1. due # {}
      BY <1>1, <1>5, <2>4, RestingRound DEF ListDueUrls
    <3>2. PICK plan \in Plans(due) :
            round' = [at |-> "add", number |-> round.number, since |-> round.since,
                      plan |-> plan, behind |-> {u \in due : Behind(u)}]
      BY <1>5, <3>1 DEF ListDueUrls
    <3>3. round'.plan = plan /\ \A u \in Urls : u \in round'.behind <=> ScanDue(u) /\ Behind(u)
      BY <3>2
    <3>4. \A u \in due : u \in Urls /\ ScanDue(u)
      OBVIOUS
    <3> HIDE DEF due
    <3>5. due \subseteq Urls
      BY <3>4
    <3>6. /\ \A i \in DOMAIN plan : plan[i].url \in due
          /\ NamesOnce(plan)
      BY <3>1, <3>5, PlansAreWhole DEF NamesOnce
    <3>7. ASSUME NEW v \in Urls, v \in Planned(plan), v \notin round'.behind PROVE YetToCome(v)'
      <4>1. v \in due
        BY <3>6, <3>7 DEF Planned
      <4>2. ~Behind(v) /\ ScanDue(v)
        BY <3>3, <3>4, <3>7, <4>1
      <4> QED BY <2>1, <2>2, <4>2 DEF Behind, YetToCome
    <3> QED BY <3>3, <3>6, <3>7
  <2> QED BY <2>3, <2>4 DEF DueInv
<1>6. ASSUME AddsNothing, ~ListDueUrls PROVE DueInv'
  <2>1. \A k \in queued' : \E j \in queued : Like(k, j)
    BY <1>6, QueueMoves
  <2>2. minute' >= minute
    BY <1>6, QuietEffects
  <2>3. round'.at = "add" => round' = round
    BY <1>6, QuietEffects
  <2>4. \A u \in Urls : page'[u] = page[u]
                        \/ \E j \in queued : j.id[1] = u /\ \A k \in queued' : k.id = j.id => k.state = "recorded"
    <3>1. ASSUME NEW j \in queued, NEW fetched \in BOOLEAN, RecordOnRow(j, fetched)
          PROVE  /\ \A u \in Urls : page'[u] = page[u] \/ j.id[1] = u
                 /\ \A k \in queued' : k.id = j.id => k.state = "recorded"
      <4>1. j.id[1] \in Urls
        BY <1>1, JobFields
      <4>2. \A u \in Urls : page'[u] = page[u] \/ j.id[1] = u
        BY <3>1, <4>1, NotedPage DEF RecordOnRow
      <4>3. \E k : k.state = "recorded" /\ queued' = (queued \ {j}) \cup {k}
        BY <3>1, WorkersMove
      <4> QED BY <1>1, <4>2, <4>3
    <3>2. page' = page \/ \E j \in queued, fetched \in BOOLEAN : RecordOnRow(j, fetched)
      BY <1>6 DEF AddsNothing, MinutePasses, RestartScheduler, AddThrows, StrayEnds, StartScan, EndScan, ScanThrows, ScanLost, qVars
    <3> QED BY <3>1, <3>2
  <2> QED BY <2>1, <2>2, <2>3, <2>4, DueKept
<1> QED BY <1>3, <1>4, <1>5, <1>6, QueueSteps

LEMMA DueHolds == QueueSpec => [](QueueShape /\ DueInv)
<1>1. QueueInit => DueInv
  BY DEF QueueInit, DueInv
<1> QED BY <1>1, QueueShapeHolds, QueueShapeStep, DueStep, PTL DEF QueueSpec

-----------------------------------------------------------------------------
(* The interval: without a restart a pass starts at least one tick after   *)
(* the pass before it.                                                     *)
NeverRestarted == \A i \in DOMAIN upsets : upsets[i] # "restart"
TickInv ==
  NeverRestarted =>
    /\ round.at # "rest" => round.since + Tick <= alarm
    /\ \A j \in queued : j.pass # ByHand => j.tick + Tick <= alarm /\ (round.at = "list" => j.tick + Tick <= minute)

LEMMA RestartsStay ==
  ASSUME QueueShape, [QueueNext]_qVars, NeverRestarted'
  PROVE  NeverRestarted /\ ~RestartScheduler
<1>1. ASSUME NEW what \in UpsetKinds, Upset(what) PROVE NeverRestarted /\ what # "restart"
  <2>1. upsets' = Append(upsets, what) /\ upsets \in Seq(UpsetKinds)
    BY <1>1, UpsetAdds DEF QueueShape
  <2>2. /\ \A i \in DOMAIN upsets : i \in DOMAIN upsets' /\ upsets'[i] = upsets[i]
        /\ Len(upsets) + 1 \in DOMAIN upsets' /\ upsets'[Len(upsets) + 1] = what
    BY <2>1
  <2> QED BY <2>2 DEF NeverRestarted
<1>2. ~RestartScheduler
  BY <1>1, UpsetsAre DEF RestartScheduler
<1>3. upsets' = upsets \/ \E what \in UpsetKinds : Upset(what)
  BY UpsetsAre DEF QueueNext, MinutePasses, RestartScheduler, ListDueUrls, AddScan, AddThrows, ScanNow, StartScan, RecordOnRow,
                   EndScan, ScanThrows, ScanLost, StrayRecords, StrayEnds, qVars
<1>4. upsets' = upsets => NeverRestarted
  BY DEF NeverRestarted
<1> QED BY <1>1, <1>2, <1>3, <1>4

LEMMA TickStep ==
  ASSUME QueueShape, QueueShape', TickInv, [QueueNext]_qVars
  PROVE  TickInv'
<1> SUFFICES ASSUME NeverRestarted'
             PROVE  /\ round'.at # "rest" => round'.since + Tick <= alarm'
                    /\ \A j \in queued' : j.pass # ByHand =>
                         j.tick + Tick <= alarm' /\ (round'.at = "list" => j.tick + Tick <= minute')
  BY DEF TickInv
<1>1. /\ ~RestartScheduler
      /\ round.at # "rest" => round.since + Tick <= alarm
      /\ \A j \in queued : j.pass # ByHand => j.tick + Tick <= alarm /\ (round.at = "list" => j.tick + Tick <= minute)
  BY RestartsStay DEF TickInv
<1>2. /\ Tick \in Nat /\ alarm \in Nat /\ minute \in Nat /\ round \in Rounds /\ round.since \in Nat
      /\ \A j \in queued : j.tick \in Nat
  BY ScanQueueConstants, JobFields, RoundFields DEF QueueShape, Sound
<1>3. CASE MinutePasses
  <2>1. queued' = queued /\ minute' = minute + 1
    BY <1>3 DEF MinutePasses
  <2>2. CASE alarm = minute' /\ round.at = "rest"
    <3>1. alarm' = alarm + Tick /\ round'.since = minute'
      BY <1>2, <1>3, <2>1, <2>2, StartedRound DEF MinutePasses
    <3> QED BY <1>1, <1>2, <2>1, <2>2, <3>1
  <2>3. CASE ~(alarm = minute' /\ round.at = "rest")
    <3>1. round' = round /\ (alarm' = alarm \/ alarm' = alarm + Tick)
      BY <1>3, <2>3 DEF MinutePasses
    <3> QED BY <1>1, <1>2, <2>1, <3>1
  <2> QED BY <2>2, <2>3
<1>4. CASE AddScan
  <2>1. alarm' = alarm /\ minute' = minute /\ round.at = "add"
    BY <1>4 DEF AddScan
  <2>2. round'.at \in {"rest", "add"} /\ (round'.at = "add" => round'.since = round.since)
    BY <1>2, <1>4, RestingRound DEF AddScan, Rounds
  <2>3. \A k \in queued' : k.tick = round.since \/ \E j \in queued : Like(k, j)
    BY <1>4, PassAdds DEF Like
  <2> QED BY <1>1, <2>1, <2>2, <2>3 DEF Like
<1>5. ASSUME NEW u \in Urls, Overtakes(u)
      PROVE  /\ round'.at # "rest" => round'.since + Tick <= alarm'
             /\ \A j \in queued' : j.pass # ByHand =>
                  j.tick + Tick <= alarm' /\ (round'.at = "list" => j.tick + Tick <= minute')
  <2>1. alarm' = alarm /\ minute' = minute /\ round'.at = round.at /\ round'.since = round.since
    BY <1>5, OvertakenJobs
  <2>2. \A k \in queued' : k.pass = ByHand \/ k \in queued \/ \E j \in queued : Like(k, j)
    BY <1>5, OvertakenJobs
  <2> QED BY <1>1, <2>1, <2>2 DEF Like
<1>6. ASSUME AddsNothing, ~MinutePasses
      PROVE  /\ round'.at # "rest" => round'.since + Tick <= alarm'
             /\ \A j \in queued' : j.pass # ByHand =>
                  j.tick + Tick <= alarm' /\ (round'.at = "list" => j.tick + Tick <= minute')
  <2>1. alarm' = alarm /\ minute' = minute
    BY <1>1, <1>6, QuietEffects
  <2>2. round' = round \/ round'.at = "rest" \/ (round'.at = "add" /\ round'.since = round.since /\ round.at = "list")
    <3>1. CASE ListDueUrls
      <4>1. round'.at = "rest" \/ (round.at = "list" /\ round'.at = "add" /\ round'.since = round.since)
        <5>1. \/ round' = Resting
              \/ \E plan, behind : round' = [at |-> "add", number |-> round.number, since |-> round.since,
                                           plan |-> plan, behind |-> behind]
          BY <3>1 DEF ListDueUrls
        <5>2. round.at = "list"
          BY <3>1 DEF ListDueUrls
        <5> QED BY <1>2, <5>1, <5>2, RestingRound
      <4> QED BY <4>1
    <3>2. CASE ~ListDueUrls
      BY <1>1, <1>6, <3>2, QuietEffects
    <3> QED BY <3>1, <3>2
  <2>3. \A k \in queued' : \E j \in queued : Like(k, j)
    BY <1>6, QueueMoves
  <2> QED BY <1>1, <2>1, <2>2, <2>3 DEF Like
<1> QED BY <1>3, <1>4, <1>5, <1>6, QueueSteps
-----------------------------------------------------------------------------
(* Spacing.  What is placed in time is what a pass has queued or started;  *)
(* a pass places the scans of one site in the order of its plan, so that   *)
(* what it has yet to add comes a spacing after what it added.             *)
SlotOfJob(j) == [url |-> j.id[1], pass |-> j.pass, ready |-> j.ready, capped |-> j.capped]
SlotOfStart(s) == [url |-> s.url, pass |-> s.pass, ready |-> s.ready, capped |-> s.capped]
Placed == {SlotOfJob(j) : j \in {k \in queued : k.pass # ByHand}} \cup {SlotOfStart(s) : s \in started}
ScanSlots == [url : Urls, pass : Nat, ready : Nat, capped : BOOLEAN]

After(later, earlier) == later - earlier >= Spacing - (Jitter - 1)
Rivals(p, q) == p.pass = q.pass /\ SameSite(p.url, q.url) /\ ~p.capped /\ ~q.capped
PlanSpaced(plan) ==
  \A i, k \in DOMAIN plan :
    k < i /\ SameSite(plan[k].url, plan[i].url) /\ plan[k].delay # MaxDelay /\ plan[i].delay # MaxDelay =>
      After(plan[i].delay, plan[k].delay)
PlanBehind(plan, number, now) ==
  \A i \in DOMAIN plan, p \in Placed :
    plan[i].delay # MaxDelay /\ p.pass = number /\ SameSite(p.url, plan[i].url) /\ ~p.capped =>
      After(now + plan[i].delay, p.ready)

SpacedInv ==
  /\ \A p \in Placed : p.pass <= round.number /\ (round.at = "list" => p.pass < round.number)
  /\ \A p, q \in Placed : p # q /\ Rivals(p, q) => After(p.ready, q.ready) \/ After(q.ready, p.ready)
  /\ \A s \in started : s.ready <= s.at /\ s.at <= minute
  /\ round.at = "add" => PlanSpaced(round.plan) /\ PlanBehind(round.plan, round.number, minute)

LEMMA PlacedType == ASSUME QueueShape PROVE Placed \subseteq ScanSlots
<1>1. \A j \in queued : j \in Jobs
  BY DEF QueueShape, Sound
<1>2. \A j \in Jobs : SlotOfJob(j) \in ScanSlots
  BY JobFields DEF SlotOfJob, ScanSlots
<1>3. \A s \in started : SlotOfStart(s) \in ScanSlots
  BY DEF QueueShape, FirstStarts, SlotOfStart, ScanSlots
<1> QED BY <1>1, <1>2, <1>3 DEF Placed

LEMMA PositionsGrow ==
  ASSUME NEW n \in Nat, NEW order \in [1..n -> Urls], NEW i \in 1..n, NEW k \in 1..n, k < i, SameSite(order[k], order[i])
  PROVE  Position(order, k) \in Nat /\ Position(order, i) \in Nat /\ Position(order, k) < Position(order, i)
<1> DEFINE before(m) == {l \in 1..(m - 1) : SameSite(order[l], order[m])}
<1>1. \A m \in 1..n : IsFiniteSet(before(m)) /\ Cardinality(before(m)) \in Nat
  <2> TAKE m \in 1..n
  <2>1. IsFiniteSet(1..(m - 1))
    BY FS_Interval
  <2>2. before(m) \subseteq 1..(m - 1)
    OBVIOUS
  <2> QED BY <2>1, <2>2, FS_Subset, FS_CardinalityType
<1>2. before(k) \cup {k} \subseteq before(i) /\ k \notin before(k)
  <2>1. \A l \in before(k) : l \in 1..(i - 1) /\ SameSite(order[l], order[i])
    BY DEF SameSite
  <2>2. k \in 1..(i - 1)
    OBVIOUS
  <2> QED BY <2>1, <2>2
<1>3. Cardinality(before(k) \cup {k}) = Cardinality(before(k)) + 1
  BY <1>1, <1>2, FS_AddElement
<1>4. Cardinality(before(k) \cup {k}) <= Cardinality(before(i))
  BY <1>1, <1>2, FS_Subset
<1>5. Position(order, k) = Cardinality(before(k)) /\ Position(order, i) = Cardinality(before(i))
  BY DEF Position
<1> HIDE DEF before
<1> QED BY <1>1, <1>3, <1>4, <1>5

LEMMA DelaysApart ==
  ASSUME NEW p \in Nat, NEW q \in Nat, p < q, NEW c \in Delays(p), NEW d \in Delays(q), c # MaxDelay, d # MaxDelay
  PROVE  After(d, c)
<1>1. Spacing \in Nat /\ Jitter \in Nat \ {0} /\ MaxDelay \in Nat
  BY ScanQueueConstants
<1>2. PICK j \in 0..(Jitter - 1) : c = IF p = 0 THEN 0 ELSE Least(p * Spacing + j, MaxDelay)
  BY DEF Delays
<1>3. PICK l \in 0..(Jitter - 1) : d = IF q = 0 THEN 0 ELSE Least(q * Spacing + l, MaxDelay)
  BY DEF Delays
<1>4. d = q * Spacing + l
  BY <1>3 DEF Least
<1>5. p # 0 => c = p * Spacing + j
  BY <1>2 DEF Least
<1>6. p = 0 => c = 0
  BY <1>2
<1>7. p * Spacing + Spacing <= q * Spacing /\ p * Spacing \in Nat /\ q * Spacing \in Nat
  BY <1>1
<1>8. p = 0 => p * Spacing = 0
  BY <1>1
<1> QED BY <1>1, <1>4, <1>5, <1>6, <1>7, <1>8 DEF After

LEMMA PlansAreSpaced ==
  ASSUME NEW urls \in SUBSET Urls, urls # {}, NEW plan \in Plans(urls)
  PROVE  PlanSpaced(plan)
<1> DEFINE n == Cardinality(urls)
<1>1. n \in Nat
  BY ScanQueueConstants, FS_Subset, FS_CardinalityType
<1>2. PICK order \in [1..n -> urls] :
        /\ plan \in [DOMAIN order -> [url : urls, delay : 0..MaxDelay]]
        /\ \A i \in DOMAIN order : plan[i].url = order[i] /\ plan[i].delay \in Delays(Position(order, i))
  BY DEF Plans
<1>3. DOMAIN plan = 1..n /\ order \in [1..n -> Urls]
  BY <1>2
<1> HIDE DEF n
<1>4. ASSUME NEW i \in DOMAIN plan, NEW k \in DOMAIN plan, k < i, SameSite(plan[k].url, plan[i].url),
             plan[k].delay # MaxDelay, plan[i].delay # MaxDelay
      PROVE  After(plan[i].delay, plan[k].delay)
  <2>1. SameSite(order[k], order[i]) /\ plan[k].delay \in Delays(Position(order, k)) /\ plan[i].delay \in Delays(Position(order, i))
    BY <1>2, <1>3, <1>4
  <2>2. Position(order, k) \in Nat /\ Position(order, i) \in Nat /\ Position(order, k) < Position(order, i)
    BY <1>1, <1>3, <1>4, <2>1, PositionsGrow
  <2> QED BY <1>4, <2>1, <2>2, DelaysApart
<1> QED BY <1>4 DEF PlanSpaced

LEMMA PlacedStays ==
  ASSUME QueueShape, AddsNothing
  PROVE  Placed' \subseteq Placed
<1>1. \A k \in queued' : k.pass # ByHand => SlotOfJob(k) \in Placed
  <2> SUFFICES ASSUME NEW k \in queued', k.pass # ByHand PROVE SlotOfJob(k) \in Placed
    OBVIOUS
  <2>1. PICK j \in queued : Like(k, j)
    BY QueueMoves
  <2>2. SlotOfJob(k) = SlotOfJob(j) /\ j.pass # ByHand
    BY <2>1 DEF SlotOfJob, Like
  <2> QED BY <2>2 DEF Placed
<1>2. \A s \in started' : SlotOfStart(s) \in Placed
  <2>1. ASSUME NEW j \in queued, StartScan(j), NEW s \in started' PROVE SlotOfStart(s) \in Placed
    <3>1. s \in started \/ s \in FirstStart(j)
      BY <2>1 DEF StartScan
    <3>2. s \in FirstStart(j) => SlotOfStart(s) = SlotOfJob(j) /\ j.pass # ByHand
      BY DEF FirstStart, SlotOfStart, SlotOfJob
    <3> QED BY <3>1, <3>2 DEF Placed
  <2>2. started' = started \/ \E j \in queued : StartScan(j)
    BY DEF AddsNothing, MinutePasses, RestartScheduler, ListDueUrls, AddThrows, EndScan, ScanThrows, ScanLost, StrayEnds, RecordOnRow,
           qVars
  <2> QED BY <2>1, <2>2 DEF Placed
<1> QED BY <1>1, <1>2 DEF Placed

LEMMA RoundNumbers ==
  ASSUME QueueShape, AddsNothing
  PROVE  \/ round' = round
         \/ round'.at = "rest" /\ round'.number = round.number
         \/ round'.at = "list" /\ round'.number = round.number + 1
         \/ /\ ListDueUrls /\ round.at = "list" /\ round'.at = "add" /\ round'.number = round.number
            /\ PlanSpaced(round'.plan)
<1>1. round \in Rounds /\ minute \in Nat
  BY DEF QueueShape
<1>2. CASE MinutePasses
  <2>1. minute + 1 \in Nat /\ minute' = minute + 1
    BY <1>1, <1>2 DEF MinutePasses
  <2> QED BY <1>1, <1>2, <2>1, StartedRound DEF MinutePasses
<1>3. CASE RestartScheduler
  BY <1>1, <1>3, StartedRound DEF RestartScheduler
<1>4. CASE ListDueUrls
  <2> DEFINE due == {u \in Urls : ScanDue(u)}
  <2>1. CASE due = {}
    BY <1>1, <1>4, <2>1, RestingRound DEF ListDueUrls
  <2>2. CASE due # {}
    <3>1. PICK plan \in Plans(due) :
            round' = [at |-> "add", number |-> round.number, since |-> round.since,
                      plan |-> plan, behind |-> {u \in due : Behind(u)}]
      BY <1>4, <2>2 DEF ListDueUrls
    <3>2. due \subseteq Urls
      OBVIOUS
    <3> HIDE DEF due
    <3>3. PlanSpaced(plan)
      BY <2>2, <3>2, PlansAreSpaced
    <3>4. round.at = "list"
      BY <1>4 DEF ListDueUrls
    <3> QED BY <1>4, <3>1, <3>3, <3>4
  <2> QED BY <2>1, <2>2
<1>5. CASE AddThrows
  BY <1>1, <1>5, RestingRound DEF AddThrows
<1>6. ASSUME \/ UNCHANGED qVars \/ \E u \in Urls : StrayEnds(u)
             \/ \E j \in queued : StartScan(j) \/ EndScan(j) \/ ScanThrows(j) \/ ScanLost(j)
                                  \/ \E fetched \in BOOLEAN : RecordOnRow(j, fetched)
      PROVE  round' = round
  BY <1>6 DEF StartScan, EndScan, ScanThrows, ScanLost, StrayEnds, RecordOnRow, qVars
<1> QED BY <1>2, <1>3, <1>4, <1>5, <1>6 DEF AddsNothing
LEMMA LaterStill ==
  ASSUME NEW x \in Int, NEW y \in Int, NEW z \in Int, After(x, z), x <= y
  PROVE  After(y, z)
  BY ScanQueueConstants DEF After

LEMMA SpacedKept ==
  ASSUME QueueShape, QueueShape', SpacedInv, AddsNothing
  PROVE  SpacedInv'
<1>1. /\ Placed' \subseteq Placed /\ Placed \subseteq ScanSlots /\ minute' >= minute /\ minute \in Nat /\ minute' \in Nat
      /\ round.number \in Nat
  <2>1. minute \in Nat /\ minute' \in Nat /\ round \in Rounds
    BY DEF QueueShape
  <2> QED BY <2>1, PlacedStays, PlacedType, QuietEffects, RoundFields
<1>2. \A p \in Placed : p.pass \in Nat /\ p.ready \in Nat
  BY <1>1 DEF ScanSlots
<1>3. \A p \in Placed' : p.pass <= round'.number /\ (round'.at = "list" => p.pass < round'.number)
  <2>1. \A p \in Placed : p.pass <= round.number /\ (round.at = "list" => p.pass < round.number)
    BY DEF SpacedInv
  <2>2. \/ round' = round
        \/ round'.at # "list" /\ round'.number = round.number
        \/ round'.number = round.number + 1
    BY RoundNumbers
  <2>3. \A p \in Placed : p.pass < round.number + 1
    BY <1>1, <1>2, <2>1
  <2>4. \A p \in Placed : p.pass <= round.number + 1
    BY <1>1, <1>2, <2>1
  <2> QED BY <1>1, <2>1, <2>2, <2>3, <2>4
<1>4. \A p, q \in Placed' : p # q /\ Rivals(p, q) => After(p.ready, q.ready) \/ After(q.ready, p.ready)
  BY <1>1 DEF SpacedInv
<1>5. \A s \in started' : s.ready <= s.at /\ s.at <= minute'
  <2>1. \A s \in started : s.ready <= s.at /\ s.at <= minute /\ s.at \in Nat
    BY DEF SpacedInv, QueueShape, FirstStarts
  <2>2. \A s \in started : s.ready <= s.at /\ s.at <= minute'
    BY <1>1, <2>1
  <2>3. ASSUME NEW j \in queued, StartScan(j), NEW s \in started' PROVE s.ready <= s.at /\ s.at <= minute'
    <3>1. minute' = minute /\ j.ready <= minute
      BY <2>3 DEF StartScan
    <3>2. s \in started \/ s \in FirstStart(j)
      BY <2>3 DEF StartScan
    <3>3. s \in FirstStart(j) => s.ready = j.ready /\ s.at = minute
      BY DEF FirstStart
    <3>4. minute <= minute
      BY <1>1
    <3> QED BY <2>2, <3>1, <3>2, <3>3, <3>4
  <2>4. started' = started \/ \E j \in queued : StartScan(j)
    BY DEF AddsNothing, MinutePasses, RestartScheduler, ListDueUrls, AddThrows, EndScan, ScanThrows, ScanLost, StrayEnds, RecordOnRow,
           qVars
  <2> QED BY <2>2, <2>3, <2>4
<1>6. ASSUME round'.at = "add"
      PROVE  PlanSpaced(round'.plan) /\ (\A i \in DOMAIN round'.plan, p \in Placed' :
               round'.plan[i].delay # MaxDelay /\ p.pass = round'.number /\ SameSite(p.url, round'.plan[i].url) /\ ~p.capped =>
                 After(minute' + round'.plan[i].delay, p.ready))
  <2>1. CASE round' = round
    <3>1. PlanSpaced(round.plan) /\ PlanBehind(round.plan, round.number, minute)
      BY <1>6, <2>1 DEF SpacedInv
    <3>2. \A i \in DOMAIN round.plan : round.plan[i].delay \in Nat
      <4>1. round.plan \in Seq(PlanEntry) /\ MaxDelay \in Nat
        BY RoundFields, ScanQueueConstants DEF QueueShape
      <4>2. \A i \in DOMAIN round.plan : round.plan[i] \in PlanEntry
        BY <4>1
      <4> QED BY <4>1, <4>2 DEF PlanEntry
    <3>3. ASSUME NEW i \in DOMAIN round.plan, NEW p \in Placed, After(minute + round.plan[i].delay, p.ready)
          PROVE  After(minute' + round.plan[i].delay, p.ready)
      BY <1>1, <1>2, <3>2, <3>3, LaterStill
    <3> QED BY <1>1, <2>1, <3>1, <3>3 DEF PlanBehind
  <2>2. CASE round.at = "list" /\ round'.number = round.number /\ PlanSpaced(round'.plan)
    <3>1. \A p \in Placed' : p.pass # round'.number
      BY <1>1, <1>2, <2>2 DEF SpacedInv
    <3> QED BY <2>2, <3>1
  <2> QED BY <1>6, <2>1, <2>2, RoundNumbers
<1> QED BY <1>3, <1>4, <1>5, <1>6 DEF SpacedInv, PlanBehind

LEMMA SpacedStep ==
  ASSUME QueueShape, QueueShape', SpacedInv, [QueueNext]_qVars
  PROVE  SpacedInv'
<1>1. CASE AddsNothing
  BY <1>1, SpacedKept
<1>2. ASSUME NEW u \in Urls, Overtakes(u) PROVE SpacedInv'
  <2>1. started' = started /\ minute' = minute
    BY <1>2, OvertakenJobs
  <2>2. /\ round'.at = round.at /\ round'.plan = round.plan /\ round'.number = round.number
    BY <1>2, OvertakenJobs
  <2>3. ASSUME NEW k \in queued', k.pass # ByHand PROVE SlotOfJob(k) \in Placed
    <3>1. PICK j \in queued : k = j \/ Like(k, j)
      BY <1>2, <2>3, OvertakenJobs
    <3>2. SlotOfJob(k) = SlotOfJob(j) /\ j.pass # ByHand
      BY <2>3, <3>1 DEF SlotOfJob, Like
    <3> QED BY <3>2 DEF Placed
  <2>4. Placed' \subseteq Placed
    BY <2>1, <2>3 DEF Placed
  <2> QED BY <2>1, <2>2, <2>4 DEF SpacedInv, PlanBehind
<1>3. CASE AddScan
  <2> DEFINE u == round.plan[1].url
             d == round.plan[1].delay
             new == NewJob(Id(u), d, round.number)
             s0 == SlotOfJob(new)
  <2>1. /\ round.plan \in Seq(PlanEntry) /\ Len(round.plan) # 0 /\ 1 \in DOMAIN round.plan
        /\ u \in Urls /\ d \in 0..MaxDelay /\ round.at = "add" /\ round \in Rounds
    BY <1>3, AddedSound, FirstAndRest DEF AddScan, QueueShape
  <2>2. /\ new \in Jobs /\ new.id[1] = u /\ new.pass = round.number /\ new.ready = minute + d /\ new.capped = (d = MaxDelay)
        /\ \A k \in queued' : \E j \in queued \cup {new} : Like(k, j)
    BY <1>3, PassAdds
  <2>3. started' = started /\ minute' = minute
    BY <1>3 DEF AddScan
  <2>4. s0.url = u /\ s0.pass = round.number /\ s0.ready = minute + d /\ s0.capped = (d = MaxDelay)
    BY <2>2 DEF SlotOfJob
  <2> HIDE DEF u, d, new
  <2>5. Placed' \subseteq Placed \cup {s0}
    <3>1. ASSUME NEW k \in queued', k.pass # ByHand PROVE SlotOfJob(k) \in Placed \cup {s0}
      <4>1. PICK j \in queued \cup {new} : Like(k, j)
        BY <2>2
      <4>2. SlotOfJob(k) = SlotOfJob(j) /\ j.pass # ByHand
        BY <3>1, <4>1 DEF SlotOfJob, Like
      <4> QED BY <4>2 DEF Placed
    <3> QED BY <2>3, <3>1 DEF Placed
  <2> HIDE DEF s0
  <2>6. /\ round'.number = round.number /\ round'.at \in {"rest", "add"}
        /\ round'.at = "add" => round'.plan = Tail(round.plan)
    BY <1>3, <2>1, RestingRound DEF AddScan, Rounds
  <2>7. Placed \subseteq ScanSlots /\ minute \in Nat /\ round.number \in Nat /\ MaxDelay \in Nat /\ d \in Nat
    <3>1. minute \in Nat /\ MaxDelay \in Nat
      BY ScanQueueConstants DEF QueueShape
    <3> QED BY <2>1, <3>1, PlacedType, RoundFields
  <2>8. PlanSpaced(round.plan) /\ PlanBehind(round.plan, round.number, minute)
    BY <2>1 DEF SpacedInv
  <2>9. ASSUME NEW p \in Placed, Rivals(s0, p) \/ Rivals(p, s0) PROVE After(s0.ready, p.ready)
    <3>1. p.pass = round.number /\ SameSite(p.url, u) /\ ~p.capped /\ d # MaxDelay
      BY <2>4, <2>9 DEF Rivals, SameSite
    <3> QED BY <2>1, <2>4, <2>8, <3>1 DEF PlanBehind, u, d
  <2>10. \A p \in Placed' : p.pass <= round'.number /\ (round'.at = "list" => p.pass < round'.number)
    <3>1. \A p \in Placed : p.pass <= round.number
      BY DEF SpacedInv
    <3> QED BY <2>4, <2>5, <2>6, <2>7, <3>1
  <2>11. \A p, q \in Placed' : p # q /\ Rivals(p, q) => After(p.ready, q.ready) \/ After(q.ready, p.ready)
    <3>1. \A p, q \in Placed : p # q /\ Rivals(p, q) => After(p.ready, q.ready) \/ After(q.ready, p.ready)
      BY DEF SpacedInv
    <3> QED BY <2>5, <2>9, <3>1
  <2>12. ASSUME round'.at = "add"
         PROVE  PlanSpaced(round'.plan) /\ (\A i \in DOMAIN round'.plan, p \in Placed' :
                  round'.plan[i].delay # MaxDelay /\ p.pass = round'.number /\ SameSite(p.url, round'.plan[i].url) /\ ~p.capped =>
                    After(minute' + round'.plan[i].delay, p.ready))
    <3> DEFINE rest == Tail(round.plan)
    <3>1. round'.plan = rest /\ round'.number = round.number
      BY <2>6, <2>12
    <3>2. \A i \in DOMAIN rest : i + 1 \in DOMAIN round.plan /\ i \in Nat \ {0} /\ rest[i] = round.plan[i + 1]
      <4>1. \A i \in DOMAIN rest : i \in Nat \ {0}
        BY <2>1
      <4> QED BY <2>1, <4>1, FirstAndRest
    <3> HIDE DEF rest
    <3>3. PlanSpaced(rest)
      <4>1. \A i, k \in Nat : k < i => k + 1 < i + 1
        OBVIOUS
      <4> QED BY <2>8, <3>2, <4>1 DEF PlanSpaced
    <3>4. ASSUME NEW i \in DOMAIN rest, NEW p \in Placed', rest[i].delay # MaxDelay, p.pass = round.number,
                 SameSite(p.url, rest[i].url), ~p.capped
          PROVE  After(minute + rest[i].delay, p.ready)
      <4>1. CASE p \in Placed
        BY <2>8, <3>2, <3>4, <4>1 DEF PlanBehind
      <4>2. CASE p = s0
        <5>1. 1 < i + 1 /\ i + 1 \in DOMAIN round.plan /\ rest[i] = round.plan[i + 1]
          BY <3>2
        <5>2. After(rest[i].delay, d)
          BY <2>1, <2>4, <2>8, <3>4, <4>2, <5>1 DEF PlanSpaced, u, d
        <5>3. rest[i].delay \in Nat
          <6>1. rest[i] \in PlanEntry
            BY <2>1, <5>1
          <6> QED BY <2>7, <6>1 DEF PlanEntry
        <5>4. (minute + rest[i].delay) - (minute + d) = rest[i].delay - d
          BY <2>7, <5>3
        <5> QED BY <2>4, <4>2, <5>2, <5>4 DEF After
      <4> QED BY <2>5, <4>1, <4>2
    <3> QED BY <2>3, <3>1, <3>3, <3>4
  <2>13. \A s \in started' : s.ready <= s.at /\ s.at <= minute'
    BY <2>3 DEF SpacedInv
  <2> QED BY <2>10, <2>11, <2>12, <2>13 DEF SpacedInv, PlanBehind
<1> QED BY <1>1, <1>2, <1>3, QueueSteps
-----------------------------------------------------------------------------
LEMMA StartsStep ==
  ASSUME QueueShape, DueInv, SpacedInv, TickInv, [QueueNext]_qVars
  PROVE  StartsInOrder
<1>1. /\ queued \subseteq Jobs /\ started \subseteq FirstStarts /\ minute \in Nat /\ Tick \in Nat /\ round \in Rounds
      /\ \A j \in queued : j.pass = ByHand => j.ready <= minute
  BY ScanQueueConstants DEF QueueShape, Sound
<1>2. ASSUME NEW j \in queued, ScanStarts(j)
      PROVE  /\ j.pass # ByHand /\ ~j.late => ScanDue(j.id[1])
             /\ \A s \in started :
                  j.tries = 0 /\ s.pass = j.pass /\ s.url # j.id[1] /\ SameSite(s.url, j.id[1]) =>
                    \/ minute - s.at >= Spacing - (Jitter - 1)
                    \/ j.capped \/ s.capped \/ minute > j.ready \/ s.at > s.ready
  <2>1. j.ready <= minute
    BY <1>2, StartsAre DEF StartScan
  <2>2. ASSUME NEW s \in started, s.pass = j.pass, s.url # j.id[1], SameSite(s.url, j.id[1]),
               ~j.capped, ~s.capped, minute <= j.ready, s.at <= s.ready
        PROVE  minute - s.at >= Spacing - (Jitter - 1)
    <3>1. j \in Jobs /\ s \in FirstStarts
      BY <1>1
    <3>2. j.ready \in Nat /\ s.ready \in Nat /\ s.at \in Nat /\ j.pass \in Nat
      BY <3>1, JobFields DEF FirstStarts
    <3>3. s.ready <= s.at /\ s.at <= minute
      BY DEF SpacedInv
    <3>4. minute = j.ready /\ s.at = s.ready /\ s.ready <= j.ready
      BY <1>1, <2>1, <2>2, <3>2, <3>3
    <3>5. Spacing \in Int /\ Jitter \in Int
      BY ScanQueueConstants
    <3>6. CASE j.pass # ByHand
      <4>1. SlotOfJob(j) \in Placed /\ SlotOfStart(s) \in Placed
        BY <3>6 DEF Placed
      <4>2. SlotOfJob(j) # SlotOfStart(s) /\ Rivals(SlotOfJob(j), SlotOfStart(s))
        BY <2>2 DEF SlotOfJob, SlotOfStart, Rivals, SameSite
      <4>3. After(j.ready, s.ready) \/ After(s.ready, j.ready)
        BY <4>1, <4>2 DEF SpacedInv, SlotOfJob, SlotOfStart
      <4> QED BY <3>2, <3>4, <3>5, <4>3 DEF After
    <3>7. j.pass # ByHand
      BY <2>2, <3>1 DEF FirstStarts
    <3> QED BY <3>6, <3>7
  <2>3. j.pass # ByHand /\ ~j.late => ScanDue(j.id[1])
    BY <1>2 DEF DueInv, OnlyJob, ScanStarts
  <2>4. \A s \in started : s.at \in Nat /\ s.ready \in Nat
    BY <1>1 DEF FirstStarts
  <2>5. j.ready \in Nat
    BY <1>1, JobFields
  <2> QED BY <1>1, <2>2, <2>3, <2>4, <2>5
<1>3. ASSUME round.at = "list", NEW j \in queued, j.ready > minute, NeverRestarted
      PROVE  j.ready - j.tick > Tick
  <2>1. j.ready \in Nat /\ j.tick \in Nat
    BY <1>1, JobFields
  <2>2. j.pass # ByHand
    BY <1>1, <1>3, <2>1
  <2>3. j.tick + Tick <= minute
    BY <1>3, <2>2 DEF TickInv
  <2> QED BY <1>1, <1>3, <2>1, <2>3
<1> QED BY <1>2, <1>3 DEF StartsInOrder, NeverRestarted

(* A scheduled scan starts only if its URL is due, unless another scan of  *)
(* the URL, its own first delivery or that of a worker that had lost its   *)
(* job may have been recorded since it was listed (DueInv); without a      *)
(* restart no delay of a pass that was not slow outlives the interval      *)
(* (TickInv); the scans of one site and one pass start a spacing apart     *)
(* when nothing holds them up (SpacedInv).                                 *)
THEOREM SpacingCorrect == QueueSpec => ScansAreSpaced
<1>1. QueueInit => DueInv /\ SpacedInv /\ TickInv
  BY ScanQueueConstants DEF QueueInit, DueInv, SpacedInv, TickInv, Placed
<1> QED BY <1>1, QueueShapeHolds, QueueShapeStep, DueStep, SpacedStep, TickStep, StartsStep, PTL DEF QueueSpec, ScansAreSpaced


-----------------------------------------------------------------------------
(* The lanes share no state, so that a behaviour of the composition is a   *)
(* behaviour of each of them: what is proved above holds of it as well.    *)
LEMMA LanesAreTheirOwn ==
  JobsSpec => Spec /\ DigestSpec /\ CapabilitySpec /\ ReportSpec /\ PanelSpec /\ QueueSpec
<1>1. JobsInit => Init /\ DigestInit /\ CapabilityInit /\ ReportInit /\ PanelInit /\ QueueInit
  BY DEF JobsInit
<1>2. [JobsNext]_jobVars => [Next]_vars
  BY DEF JobsNext, jobVars, AnalysisLane, DigestLane, CapabilityLane, ReportLane, PanelLane, ScansLane
<1>3. [JobsNext]_jobVars => [DigestNext]_dVars
  BY DEF JobsNext, jobVars, AnalysisLane, DigestLane, CapabilityLane, ReportLane, PanelLane, ScansLane
<1>4. [JobsNext]_jobVars => [CapabilityNext]_cVars
  BY DEF JobsNext, jobVars, AnalysisLane, DigestLane, CapabilityLane, ReportLane, PanelLane, ScansLane
<1>5. [JobsNext]_jobVars => [ReportNext]_rVars
  BY DEF JobsNext, jobVars, AnalysisLane, DigestLane, CapabilityLane, ReportLane, PanelLane, ScansLane
<1>6. [JobsNext]_jobVars => [PanelNext]_pVars
  BY DEF JobsNext, jobVars, AnalysisLane, DigestLane, CapabilityLane, ReportLane, PanelLane, ScansLane
<1>7. [JobsNext]_jobVars => [QueueNext]_qVars
  BY DEF JobsNext, jobVars, AnalysisLane, DigestLane, CapabilityLane, ReportLane, PanelLane, ScansLane
<1> QED
  BY <1>1, <1>2, <1>3, <1>4, <1>5, <1>6, <1>7, PTL
     DEF JobsSpec, Spec, DigestSpec, CapabilitySpec, ReportSpec, PanelSpec, QueueSpec

(* Type correctness of the composition, whatever its lane is about.        *)
THEOREM JobsTypeCorrect == JobsSpec => []JobsTypeOK
<1> DEFINE Lanes == lane \in {"analysis", "digest", "capability", "report", "panel", "scans"}
<1>1. JobsInit => Lanes
  BY DEF JobsInit
<1>2. Lanes /\ [JobsNext]_jobVars => Lanes'
  BY DEF JobsNext, jobVars, AnalysisLane, DigestLane, CapabilityLane, ReportLane, PanelLane, ScansLane
<1>3. PanelInv => PanelTypeOK
  BY DEF PanelInv
<1>4. Lanes /\ TypeOK /\ DigestTypeOK /\ CapabilityTypeOK /\ ReportTypeOK /\ PanelTypeOK /\ QueueTypeOK => JobsTypeOK
  BY DEF JobsTypeOK
<1> HIDE DEF Lanes
<1>5. JobsSpec => []Lanes
  BY <1>1, <1>2, PTL DEF JobsSpec
<1> QED
  BY <1>3, <1>4, <1>5, LanesAreTheirOwn, TypeCorrect, DigestTypeCorrect, CapabilityTypeCorrect, ReportTypeCorrect,
     PanelInvariant, QueueTypeCorrect, PTL
=============================================================================
