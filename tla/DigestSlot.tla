----------------------------- MODULE DigestSlot -----------------------------
(***************************************************************************)
(* The AI interpretation of one organization's digest over one period: a   *)
(* row that "Interpret" creates and "Refresh" resets, its job under the    *)
(* row's id, the worker that pays for an answer, the 'failed' handler and  *)
(* the sweep.  Unlike an analysis, the row is used again and again.        *)
(***************************************************************************)
EXTENDS JobQueue

CONSTANTS
  Asks,         \* clicks on "Interpret", "Retry" or "Refresh", one POST each
  DigestSlots   \* processor slots of the digest queue

ASSUME DigestConstants == None \notin DigestSlots /\ MaxStalls \in Nat

VARIABLES
  dStatus,   \* DigestAiInterpretation.status, ABSENT before the row exists
  dAnswer,   \* the run whose answer the row holds, 0 for none
  dShown,    \* history: the runs whose answers have been stored
  dAsk,      \* program counter of each POST
  dJob,      \* the BullMQ job whose id is the row's
  dRuns,     \* number of runs started so far (names the runs)
  dWorker,   \* local state of each slot
  dHandlers, \* program counters of the 'failed' handlers under way
  dLost      \* history: the runs that lost their lock and went on

dRow == <<dStatus, dAnswer, dShown>>
dVars == <<dRow, dAsk, dJob, dRuns, dWorker, dHandlers, dLost>>

DigestRun == [pc: {"idle", "read", "prepare", "bundle", "call", "store", "giveup", "ack", "failing"},
              run: Nat, tries: 0..2]
DigestIdle == [pc |-> "idle", run |-> 0, tries |-> 0]

DigestOpen == dStatus \in {"PENDING", "RUNNING"}

(* Mutant: a failure is recorded whatever the row says.                    *)
DigestFailedAnyway == dStatus' = "FAILED" /\ UNCHANGED <<dAnswer, dShown>>

(* markDigestAiInterpretationFailed.                                       *)
DigestFailed ==
  dStatus' = (IF DigestOpen THEN "FAILED" ELSE dStatus) /\ UNCHANGED <<dAnswer, dShown>>

(* markDigestAiInterpretationCompleted.                                    *)
DigestCompleted(run) ==
  IF DigestOpen
    THEN dStatus' = "COMPLETED" /\ dAnswer' = run /\ dShown' = dShown \cup {run}
    ELSE UNCHANGED dRow

DigestInit ==
  /\ dStatus = "ABSENT" /\ dAnswer = 0 /\ dShown = {}
  /\ dAsk = [r \in Asks |-> "idle"]
  /\ dJob = NoJob
  /\ dRuns = 0
  /\ dWorker = [w \in DigestSlots |-> DigestIdle]
  /\ dHandlers = {}
  /\ dLost = {}

-----------------------------------------------------------------------------
(* POST: getOrCreateDigestAiInterpretationSlot ...                         *)
DigestGoto(r, pc) == dAsk' = [dAsk EXCEPT ![r] = pc]

(* Only a RUNNING slot is not enqueued.                                    *)
AfterSlot == IF dStatus = "RUNNING" THEN "done" ELSE "lookup"

(* A POST over the daily limit is refused here, before the slot is reset.  *)
DigestFind(r) ==
  /\ dAsk[r] = "idle"
  /\ DigestGoto(r, CASE dStatus = "ABSENT" -> "create"
                     [] DigestOpen -> AfterSlot
                     [] OTHER -> "reset")
  /\ UNCHANGED <<dRow, dJob, dRuns, dWorker, dHandlers, dLost>>

(* A create that lost the race takes the winner's row as it is.            *)
DigestCreate(r) ==
  /\ dAsk[r] = "create"
  /\ IF dStatus = "ABSENT"
       THEN dStatus' = "PENDING" /\ DigestGoto(r, "lookup")
       ELSE dStatus' = dStatus /\ DigestGoto(r, AfterSlot)
  /\ UNCHANGED <<dAnswer, dShown, dJob, dRuns, dWorker, dHandlers, dLost>>

DigestReset(r) ==
  /\ dAsk[r] = "reset"
  /\ IF dStatus \in {"COMPLETED", "FAILED"}
       THEN dStatus' = "PENDING" /\ dAnswer' = 0
       ELSE UNCHANGED <<dStatus, dAnswer>>
  /\ DigestGoto(r, "reread")
  /\ UNCHANGED <<dShown, dJob, dRuns, dWorker, dHandlers, dLost>>

DigestReread(r) ==
  /\ dAsk[r] = "reread"
  /\ DigestGoto(r, AfterSlot)
  /\ UNCHANGED <<dRow, dJob, dRuns, dWorker, dHandlers, dLost>>

(* ... then addJobReplacingTerminal, one call to Redis at a time.          *)
DigestLookup(r) ==
  /\ dAsk[r] = "lookup"
  /\ DigestGoto(r, IF Ended(dJob) THEN "remove" ELSE "add")
  /\ UNCHANGED <<dRow, dJob, dRuns, dWorker, dHandlers, dLost>>

(* A job that has become active is locked, and remove throws.              *)
Removed(r) ==
  IF dJob.state = "active"
    THEN dJob' = dJob /\ DigestGoto(r, "orphan")
    ELSE dJob' = NoJob /\ DigestGoto(r, "add")

DigestRemove(r) ==
  /\ dAsk[r] = "remove"
  /\ Removed(r)
  /\ UNCHANGED <<dRow, dRuns, dWorker, dHandlers, dLost>>

DigestAdd(r) ==
  /\ dAsk[r] = "add"
  /\ dJob' = Added(dJob)
  /\ DigestGoto(r, "done")
  /\ UNCHANGED <<dRow, dRuns, dWorker, dHandlers, dLost>>

(* Redis fails; an add may have been applied before its reply was lost.    *)
DigestEnqueueFails(r) ==
  /\ dAsk[r] \in {"lookup", "remove", "add"}
  /\ dJob' \in {dJob} \cup (IF dAsk[r] = "add" THEN {Added(dJob)} ELSE {})
  /\ DigestGoto(r, "orphan")
  /\ UNCHANGED <<dRow, dRuns, dWorker, dHandlers, dLost>>

DigestOrphan(r) ==
  /\ dAsk[r] = "orphan"
  /\ DigestFailed \/ UNCHANGED dRow
  /\ DigestGoto(r, "done")
  /\ UNCHANGED <<dJob, dRuns, dWorker, dHandlers, dLost>>

-----------------------------------------------------------------------------
(* runDigestInterpretationJob.                                             *)
DigestTake(w) ==
  /\ dWorker[w].pc = "idle"
  /\ dJob.state = "waiting"
  /\ dJob' = TakenBy(dJob, w)
  /\ dRuns' = dRuns + 1
  /\ dWorker' = [dWorker EXCEPT ![w] = [pc |-> "read", run |-> dRuns + 1, tries |-> 0]]
  /\ UNCHANGED <<dRow, dAsk, dHandlers, dLost>>

(* Mutant: a COMPLETED row does not end the run.                           *)
ReadIgnored == "prepare"

(* An interpretation that is COMPLETED is not paid for again.              *)
AfterRead == IF dStatus = "COMPLETED" THEN "ack" ELSE "prepare"

DigestRead(w) ==
  /\ dWorker[w].pc = "read"
  /\ dWorker' = [dWorker EXCEPT ![w].pc = AfterRead]
  /\ UNCHANGED <<dRow, dAsk, dJob, dRuns, dHandlers, dLost>>

(* A provider is resolved and a PENDING row marked RUNNING.                *)
DigestStart(w) ==
  /\ dWorker[w].pc = "prepare"
  /\ dStatus' = IF dStatus = "PENDING" THEN "RUNNING" ELSE dStatus
  /\ dWorker' = [dWorker EXCEPT ![w].pc = "bundle"]
  /\ UNCHANGED <<dAnswer, dShown, dAsk, dJob, dRuns, dHandlers, dLost>>

(* The digest of the period is computed; one without competitors is        *)
(* answered without a call.                                                *)
DigestBundle(w) ==
  /\ dWorker[w].pc = "bundle"
  /\ \E pc \in {"call", "store"} : dWorker' = [dWorker EXCEPT ![w].pc = pc]
  /\ UNCHANGED <<dRow, dAsk, dJob, dRuns, dHandlers, dLost>>

(* Mutant: a second retry.                                                 *)
DigestMayRetryTwice(w) == dWorker[w].tries <= 1

DigestMayRetry(w) == dWorker[w].tries = 0

(* analyzeAndValidateDigest: one paid request.                             *)
DigestCall(w) ==
  /\ dWorker[w].pc = "call"
  /\ \E pc \in {"store", "giveup"} \cup (IF DigestMayRetry(w) THEN {"call"} ELSE {}) :
       dWorker' = [dWorker EXCEPT ![w].pc = pc, ![w].tries = @ + 1]
  /\ UNCHANGED <<dRow, dAsk, dJob, dRuns, dHandlers, dLost>>

DigestStore(w) ==
  /\ dWorker[w].pc = "store"
  /\ DigestCompleted(dWorker[w].run)
  /\ dWorker' = [dWorker EXCEPT ![w].pc = "ack"]
  /\ UNCHANGED <<dAsk, dJob, dRuns, dHandlers, dLost>>

(* Once the row is marked RUNNING everything that throws is caught, marks  *)
(* the row if it can, and the job counts as done; before that it rethrows. *)
DigestThrow(w) ==
  /\ dWorker[w].pc \in {"read", "prepare", "bundle", "store", "giveup"}
  /\ \/ dWorker[w].pc # "read" /\ DigestFailed
     \/ UNCHANGED dRow
  /\ dWorker' = [dWorker EXCEPT ![w].pc = IF @ \in {"read", "prepare"} THEN "failing" ELSE "ack"]
  /\ UNCHANGED <<dAsk, dJob, dRuns, dHandlers, dLost>>

-----------------------------------------------------------------------------
DigestHandlers(job) ==
  IF dJob.state = "active" /\ job.state = "failed" THEN dHandlers \cup {<<dRuns, "read">>} ELSE dHandlers

DigestReport(w) ==
  /\ dWorker[w].pc \in {"ack", "failing"}
  /\ dJob' = Reported(dJob, w, IF dWorker[w].pc = "ack" THEN "completed" ELSE "failed")
  /\ dHandlers' = DigestHandlers(dJob')
  /\ dWorker' = [dWorker EXCEPT ![w] = DigestIdle]
  /\ UNCHANGED <<dRow, dAsk, dRuns, dLost>>

DigestCrash(w) ==
  /\ dWorker[w].pc # "idle"
  /\ dWorker' = [dWorker EXCEPT ![w] = DigestIdle]
  /\ UNCHANGED <<dRow, dAsk, dJob, dRuns, dHandlers, dLost>>

(* The lock expires: its slot died, or is too busy to renew it and goes on *)
(* with its run.                                                           *)
DigestStall ==
  LET w == dJob.lock
  IN  /\ dJob.state = "active"
      /\ dJob' = Stalled(dJob)
      /\ dHandlers' = DigestHandlers(dJob')
      /\ dLost' = dLost \cup (IF dWorker[w].pc = "idle" THEN {} ELSE {dWorker[w].run})
      /\ UNCHANGED <<dRow, dAsk, dRuns, dWorker>>

(* The 'failed' handler reads the row, then marks it.                      *)
DigestHandle(h) ==
  /\ \/ h[2] = "read" /\ UNCHANGED dRow /\ DigestOpen
        /\ dHandlers' = (dHandlers \ {h}) \cup {<<h[1], "mark">>}
     \/ h[2] = "mark" /\ DigestFailed /\ dHandlers' = dHandlers \ {h}
     \/ UNCHANGED dRow /\ dHandlers' = dHandlers \ {h}
  /\ UNCHANGED <<dAsk, dJob, dRuns, dWorker, dLost>>

(* sweepStuckJobs, however long the row has been open.                     *)
DigestSweep ==
  /\ DigestOpen
  /\ dStatus' = "FAILED"
  /\ UNCHANGED <<dAnswer, dShown, dAsk, dJob, dRuns, dWorker, dHandlers, dLost>>

DigestAsk(r) ==
  \/ DigestFind(r) \/ DigestCreate(r) \/ DigestReset(r) \/ DigestReread(r) \/ DigestLookup(r)
  \/ DigestRemove(r) \/ DigestAdd(r) \/ DigestEnqueueFails(r) \/ DigestOrphan(r)

DigestWork(w) ==
  \/ DigestTake(w) \/ DigestRead(w) \/ DigestStart(w) \/ DigestBundle(w) \/ DigestCall(w)
  \/ DigestStore(w) \/ DigestThrow(w) \/ DigestReport(w) \/ DigestCrash(w)

DigestNext ==
  \/ \E r \in Asks : DigestAsk(r)
  \/ \E w \in DigestSlots : DigestWork(w)
  \/ DigestStall
  \/ \E h \in dHandlers : DigestHandle(h)
  \/ DigestSweep

DigestSpec == DigestInit /\ [][DigestNext]_dVars
-----------------------------------------------------------------------------
(* Types; a run asks the provider at most twice.                           *)
DigestTypeOK ==
  /\ dStatus \in {"ABSENT", "PENDING", "RUNNING", "COMPLETED", "FAILED"}
  /\ dAnswer \in Nat /\ dRuns \in Nat
  /\ dShown \subseteq 1..dRuns /\ dLost \subseteq 1..dRuns
  /\ dAsk \in [Asks -> {"idle", "create", "reset", "reread", "lookup", "remove", "add", "orphan", "done"}]
  /\ dJob \in QueueJob(DigestSlots)
  /\ dWorker \in [DigestSlots -> DigestRun]
  /\ dHandlers \subseteq Nat \X {"read", "mark"}

(* However requests, redeliveries, stragglers, handlers and sweeps         *)
(* interleave, readers see a slot that is opened by a request and closed   *)
(* once: "never overwrites an already-COMPLETED row with a second, possibly *)
(* different, paid-for result".  Its answers come from later and later     *)
(* runs; a run that lost its lock may answer for an earlier request, but   *)
(* no answer is shown a second time.                                       *)
Slot == INSTANCE AnswerSlot
          WITH open <- DigestOpen, shown <- dShown, lost <- dLost,
               answer <- IF dStatus = "COMPLETED" THEN dAnswer ELSE 0
ImplementsSlot == Slot!Spec

(* A duplicate delivery or a crash never spends a second paid call while   *)
(* an answer stands, although only the start of a run asks for the status; *)
(* it takes a run that lost its lock and went on, which either pays itself *)
(* or has answered the row of the one that pays.                           *)
DigestPaidOnce ==
  [][\A w \in DigestSlots :
       dWorker'[w].tries > dWorker[w].tries =>
         dStatus # "COMPLETED" \/ dAnswer \in dLost \/ dWorker[w].run \in dLost]_dVars
=============================================================================
