--------------------------- MODULE CapabilityRun ---------------------------
(***************************************************************************)
(* The on-demand AI check of one organization's pages: every click that    *)
(* finds no recent check under way creates a run with a job of its own;    *)
(* a run reads a batch of pages with one paid call each.  Runs are not     *)
(* swept: an old one merely stops blocking new ones.                       *)
(***************************************************************************)
EXTENDS JobQueue, FiniteSets

CONSTANTS
  Checks,      \* clicks on "Check with AI"; a click names the run it creates
  CheckSlots,  \* processor slots of the capability queue
  Pages,       \* monitored pages of the organization
  MaxBatch,    \* MAX_PAGES_PER_AI_RUN
  MaxScans     \* bound on the snapshots of a page

ASSUME CheckConstants ==
  /\ None \notin CheckSlots /\ IsFiniteSet(Pages)
  /\ MaxStalls \in Nat /\ MaxBatch \in Nat \ {0} /\ MaxScans \in Nat \ {0}

VARIABLES
  cRun,      \* CapabilityAiRun.status of each click, and whether it is recent
  cClick,    \* program counter of each POST
  cJob,      \* the BullMQ job of each run
  cWorker,   \* local state of each slot
  cHandler,  \* program counter of each run's 'failed' handler
  cPage,     \* newest verified snapshot of each page and the one last read by AI
  cLate      \* history: the runs that a slot went on with after losing their job

cVars == <<cRun, cClick, cJob, cWorker, cHandler, cPage, cLate>>

CheckIdle == [pc |-> "idle", check |-> None, batch |-> {}, page |-> None, first |-> TRUE,
              snap |-> [p \in Pages |-> 0]]
CheckOpen(c) == cRun[c].status \in {"PENDING", "RUNNING"}

CapabilityInit ==
  /\ cRun = [c \in Checks |-> [status |-> "ABSENT", recent |-> TRUE]]
  /\ cClick = [c \in Checks |-> "idle"]
  /\ cJob = [c \in Checks |-> NoJob]
  /\ cWorker = [w \in CheckSlots |-> CheckIdle]
  /\ cHandler = [c \in Checks |-> "none"]
  /\ cPage = [p \in Pages |-> [snap |-> 1, read |-> 0]]
  /\ cLate = {}

(* markCapabilityAiRunRunning, -Completed and -Failed ask for no status.   *)
CheckMarked(c, s) == cRun' = [cRun EXCEPT ![c].status = s]

-----------------------------------------------------------------------------
(* The run a click finds: under way and not older than 30 minutes.         *)
Blocks(c) == CheckOpen(c) /\ cRun[c].recent

CheckFind(c) ==
  /\ cClick[c] = "idle"
  /\ cClick' = [cClick EXCEPT ![c] = IF \E d \in Checks : Blocks(d) THEN "done" ELSE "create"]
  /\ UNCHANGED <<cRun, cJob, cWorker, cHandler, cPage, cLate>>

CheckCreate(c) ==
  /\ cClick[c] = "create"
  /\ CheckMarked(c, "PENDING")
  /\ cClick' = [cClick EXCEPT ![c] = "add"]
  /\ UNCHANGED <<cJob, cWorker, cHandler, cPage, cLate>>

(* Nobody else knows the run's id: there is no old job to replace.         *)
CheckAdd(c) ==
  /\ cClick[c] = "add"
  /\ cJob' = [cJob EXCEPT ![c] = Added(@)]
  /\ cClick' = [cClick EXCEPT ![c] = "done"]
  /\ UNCHANGED <<cRun, cWorker, cHandler, cPage, cLate>>

CheckAddFails(c) ==
  /\ cClick[c] = "add"
  /\ \E j \in {cJob[c], Added(cJob[c])} : cJob' = [cJob EXCEPT ![c] = j]
  /\ cClick' = [cClick EXCEPT ![c] = "orphan"]
  /\ UNCHANGED <<cRun, cWorker, cHandler, cPage, cLate>>

CheckOrphan(c) ==
  /\ cClick[c] = "orphan"
  /\ CheckMarked(c, "FAILED") \/ UNCHANGED cRun
  /\ cClick' = [cClick EXCEPT ![c] = "lost"]
  /\ UNCHANGED <<cJob, cWorker, cHandler, cPage, cLate>>

(* Half an hour passes.                                                    *)
CheckAges(c) ==
  /\ CheckOpen(c) /\ cRun[c].recent
  /\ cRun' = [cRun EXCEPT ![c].recent = FALSE]
  /\ UNCHANGED <<cClick, cJob, cWorker, cHandler, cPage, cLate>>

(* A scan stores a new verified text, or the organization edits its own    *)
(* capabilities: the page is due again.                                    *)
CheckPageChanges(p) ==
  /\ cPage[p].snap < MaxScans
  /\ cPage' = [cPage EXCEPT ![p].snap = @ + 1]
  /\ UNCHANGED <<cRun, cClick, cJob, cWorker, cHandler, cLate>>

-----------------------------------------------------------------------------
(* runCapabilityAiJob.                                                     *)
CheckAt(w, pc) == cWorker' = [cWorker EXCEPT ![w].pc = pc]

CheckTake(w, c) ==
  /\ cWorker[w].pc = "idle"
  /\ cJob[c].state = "waiting"
  /\ cJob' = [cJob EXCEPT ![c] = TakenBy(@, w)]
  /\ cWorker' = [cWorker EXCEPT ![w] = [CheckIdle EXCEPT !.pc = "read", !.check = c]]
  /\ UNCHANGED <<cRun, cClick, cHandler, cPage, cLate>>

(* A run that is COMPLETED or FAILED is not done again.                    *)
CheckRead(w) ==
  /\ cWorker[w].pc = "read"
  /\ CheckAt(w, IF CheckOpen(cWorker[w].check) THEN "start" ELSE "ack")
  /\ UNCHANGED <<cRun, cClick, cJob, cHandler, cPage, cLate>>

CheckStart(w) ==
  /\ cWorker[w].pc = "start"
  /\ CheckMarked(cWorker[w].check, "RUNNING")
  /\ CheckAt(w, "select")
  /\ UNCHANGED <<cClick, cJob, cHandler, cPage, cLate>>

(* A page whose newest snapshot the AI has not read.                       *)
Due == {p \in Pages : cPage[p].read # cPage[p].snap}

(* selectPagesForCapabilityAi: never-read pages first, a bounded batch.    *)
IsBatch(B) ==
  /\ B \subseteq Due
  /\ Cardinality(B) = (IF Cardinality(Due) < MaxBatch THEN Cardinality(Due) ELSE MaxBatch)
  /\ \A p \in B, q \in Due \ B : cPage[q].read = 0 => cPage[p].read = 0

CheckSelect(w) ==
  /\ cWorker[w].pc = "select"
  /\ \E B \in SUBSET Pages :
       /\ IsBatch(B)
       /\ cWorker' = [cWorker EXCEPT ![w].pc = "pages", ![w].batch = B,
                                     ![w].snap = [p \in Pages |-> IF p \in B THEN cPage[p].snap ELSE 0]]
  /\ UNCHANGED <<cRun, cClick, cJob, cHandler, cPage, cLate>>

(* One paid call per page.  A page that fails stays due; a refused key     *)
(* ends the run on its first page.                                         *)
CheckCall(w, p) ==
  /\ cWorker[w].pc = "pages" /\ p \in cWorker[w].batch
  /\ \E pc \in {"record", "pages"} \cup (IF cWorker[w].first THEN {"giveup"} ELSE {}) :
       cWorker' = [cWorker EXCEPT
         ![w].pc = pc, ![w].batch = @ \ {p}, ![w].first = FALSE,
         ![w].page = IF pc = "record" THEN p ELSE None,
         ![w].snap = IF pc = "record" THEN @ ELSE [@ EXCEPT ![p] = 0]]
  /\ UNCHANGED <<cRun, cClick, cJob, cHandler, cPage, cLate>>

(* recordAiCapabilityFindings remembers the snapshot that was read; when   *)
(* it fails the page counts as failed.                                     *)
CheckRecord(w) ==
  /\ cWorker[w].pc = "record"
  /\ LET p == cWorker[w].page IN
       /\ \/ cPage' = [cPage EXCEPT ![p].read = cWorker[w].snap[p]]
          \/ UNCHANGED cPage
       /\ cWorker' = [cWorker EXCEPT ![w].pc = "pages", ![w].page = None, ![w].snap[p] = 0]
  /\ UNCHANGED <<cRun, cClick, cJob, cHandler, cLate>>

CheckComplete(w) ==
  /\ cWorker[w].pc = "pages" /\ cWorker[w].batch = {}
  /\ CheckMarked(cWorker[w].check, "COMPLETED")
  /\ CheckAt(w, "ack")
  /\ UNCHANGED <<cClick, cJob, cHandler, cPage, cLate>>

(* No provider, or something throws: the run is marked if that succeeds.   *)
(* Only reading the run and marking it RUNNING fail the job itself.        *)
CheckThrow(w) ==
  /\ \/ cWorker[w].pc \in {"start", "select", "giveup"} /\ CheckAt(w, "ack")
        /\ (CheckMarked(cWorker[w].check, "FAILED") \/ UNCHANGED cRun)
     \/ cWorker[w].pc = "pages" /\ cWorker[w].batch = {} /\ CheckAt(w, "ack")
        /\ (CheckMarked(cWorker[w].check, "FAILED") \/ UNCHANGED cRun)
     \/ cWorker[w].pc \in {"read", "start"} /\ CheckAt(w, "failing") /\ UNCHANGED cRun
  /\ UNCHANGED <<cClick, cJob, cHandler, cPage, cLate>>

-----------------------------------------------------------------------------
CheckHandlers(c, job) ==
  cHandler' = IF cJob[c].state = "active" /\ job.state = "failed"
                THEN [cHandler EXCEPT ![c] = "read"] ELSE cHandler

CheckReport(w) ==
  /\ cWorker[w].pc \in {"ack", "failing"}
  /\ LET c == cWorker[w].check
         job == Reported(cJob[c], w, IF cWorker[w].pc = "ack" THEN "completed" ELSE "failed")
     IN  cJob' = [cJob EXCEPT ![c] = job] /\ CheckHandlers(c, job)
  /\ cWorker' = [cWorker EXCEPT ![w] = CheckIdle]
  /\ UNCHANGED <<cRun, cClick, cPage, cLate>>

CheckCrash(w) ==
  /\ cWorker[w].pc # "idle"
  /\ cWorker' = [cWorker EXCEPT ![w] = CheckIdle]
  /\ UNCHANGED <<cRun, cClick, cJob, cHandler, cPage, cLate>>

(* The lock expires: its slot died, or is too busy to renew it and goes on *)
(* with its run.                                                           *)
CheckStall(c) ==
  /\ cJob[c].state = "active"
  /\ cJob' = [cJob EXCEPT ![c] = Stalled(@)]
  /\ CheckHandlers(c, cJob'[c])
  /\ cLate' = cLate \cup (IF cWorker[cJob[c].lock].check = c THEN {c} ELSE {})
  /\ UNCHANGED <<cRun, cClick, cWorker, cPage>>

(* The 'failed' handler leaves a finished run alone.                       *)
Handled(c) == CheckOpen(c)

(* It reads the run, then marks it; it may die or fail in between.         *)
CheckHandle(c) ==
  /\ \/ cHandler[c] = "read" /\ Handled(c) /\ UNCHANGED cRun
        /\ cHandler' = [cHandler EXCEPT ![c] = "mark"]
     \/ cHandler[c] = "mark" /\ CheckMarked(c, "FAILED")
        /\ cHandler' = [cHandler EXCEPT ![c] = "none"]
     \/ cHandler[c] # "none" /\ UNCHANGED cRun
        /\ cHandler' = [cHandler EXCEPT ![c] = "none"]
  /\ UNCHANGED <<cClick, cJob, cWorker, cPage, cLate>>

CheckClick(c) ==
  CheckFind(c) \/ CheckCreate(c) \/ CheckAdd(c) \/ CheckAddFails(c) \/ CheckOrphan(c)

CheckWork(w) ==
  \/ \E c \in Checks : CheckTake(w, c)
  \/ CheckRead(w) \/ CheckStart(w) \/ CheckSelect(w)
  \/ \E p \in Pages : CheckCall(w, p)
  \/ CheckRecord(w) \/ CheckComplete(w) \/ CheckThrow(w) \/ CheckReport(w) \/ CheckCrash(w)

CapabilityNext ==
  \/ \E c \in Checks : CheckClick(c) \/ CheckAges(c) \/ CheckStall(c) \/ CheckHandle(c)
  \/ \E p \in Pages : CheckPageChanges(p)
  \/ \E w \in CheckSlots : CheckWork(w)

CapabilitySpec == CapabilityInit /\ [][CapabilityNext]_cVars
-----------------------------------------------------------------------------
(* Types; a run selects at most MAX_PAGES_PER_AI_RUN pages.                *)
CapabilityTypeOK ==
  /\ cRun \in [Checks -> [status: {"ABSENT", "PENDING", "RUNNING", "COMPLETED", "FAILED"},
                          recent: BOOLEAN]]
  /\ cClick \in [Checks -> {"idle", "create", "add", "orphan", "done", "lost"}]
  /\ cJob \in [Checks -> QueueJob(CheckSlots)]
  /\ cWorker \in [CheckSlots ->
       [pc: {"idle", "read", "start", "select", "pages", "record", "giveup", "ack", "failing"},
        check: Checks \cup {None}, batch: SUBSET Pages, page: Pages \cup {None},
        first: BOOLEAN, snap: [Pages -> 0..MaxScans]]]
  /\ \A w \in CheckSlots : Cardinality(cWorker[w].batch) <= MaxBatch
  /\ cHandler \in [Checks -> {"none", "read", "mark"}]
  /\ cPage \in [Pages -> [snap: 1..MaxScans, read: 0..MaxScans]]
  /\ cLate \subseteq Checks

(* With one slot (one worker process, concurrency 1) neither a redelivered *)
(* run nor that of a second click pays for a text that was read already.   *)
ReadTextIsNotPaidAgain ==
  [][\A w \in CheckSlots : \A p \in cWorker[w].batch \ cWorker'[w].batch :
       cWorker'[w].pc # "idle" => cPage[p].read # cWorker[w].snap[p]]_cVars

(* A finished run stays as it is although nobody who marks runs asks for   *)
(* their status.  Two things may spoil it: a POST whose add failed, and a  *)
(* slot that lost the run's job and went on, whose marks and whose job's   *)
(* 'failed' handler meet those of the delivery that replaced it.           *)
FinishedRunStays ==
  [][\A c \in Checks :
       /\ cRun[c].status \in {"COMPLETED", "FAILED"}
       /\ cClick[c] \notin {"orphan", "lost"} /\ c \notin cLate
       => cRun'[c] = cRun[c]]_cVars
=============================================================================
