---------------------------- MODULE DailyReport ----------------------------
(***************************************************************************)
(* The daily reports of one organization: an hourly tick that enqueues the *)
(* job of the current day, runs that generate the day's report and email   *)
(* it, BullMQ with retries and stalls, and the 'failed' handler.           *)
(***************************************************************************)
EXTENDS JobQueue, FiniteSets

CONSTANTS
  Days,         \* bound: days 1..Days
  Changes,      \* change events that will be detected
  ReportSlots,  \* processor slots of the report queue
  MaxAttempts,  \* attempts of a job (3)
  MaxFaults     \* bound on emails whose fate is misreported and on lost locks

ASSUME ReportConstants ==
  /\ Days \in Nat \ {0} /\ MaxAttempts \in Nat \ {0} /\ MaxFaults \in Nat
  /\ None \notin ReportSlots /\ MaxStalls \in Nat
  /\ IsFiniteSet(ReportSlots) /\ IsFiniteSet(Changes)

VARIABLES
  rToday,    \* the current day in the organization's timezone
  rChange,   \* the day on which each change is detected, 0 while it is not
  rReport,   \* the Report row and its items, per day
  rMail,     \* the NotificationLog row, per day, and the emails that left
  rJob,      \* the BullMQ job, per day
  rTries,    \* how often it has failed
  rRun,      \* local state of each slot
  rHandler,  \* <<day, pc>> of each 'failed' handler under way
  rFaults,   \* faults so far
  rLost      \* history: whether a live run has lost its lock

rVars == <<rToday, rChange, rReport, rMail, rJob, rTries, rRun, rHandler, rFaults, rLost>>

NoReport == [status |-> "ABSENT", items |-> {}, count |-> 0]
ReportIdle == [pc |-> "idle", day |-> 0, events |-> {}]
DetectedOn(d) == {k \in Changes : rChange[k] = d}

ReportInit ==
  /\ rToday = 1
  /\ rChange = [k \in Changes |-> 0]
  /\ rReport = [d \in 1..Days |-> NoReport]
  /\ rMail = [d \in 1..Days |-> [log |-> "none", left |-> 0]]
  /\ rJob = [d \in 1..Days |-> NoJob]
  /\ rTries = [d \in 1..Days |-> 0]
  /\ rRun = [w \in ReportSlots |-> ReportIdle]
  /\ rHandler = {}
  /\ rFaults = 0 /\ rLost = FALSE

-----------------------------------------------------------------------------
Midnight ==
  /\ rToday < Days
  /\ rToday' = rToday + 1
  /\ UNCHANGED <<rChange, rReport, rMail, rJob, rTries, rRun, rHandler, rFaults, rLost>>

Detect(k) ==
  /\ rChange[k] = 0
  /\ rChange' = [rChange EXCEPT ![k] = rToday]
  /\ UNCHANGED <<rToday, rReport, rMail, rJob, rTries, rRun, rHandler, rFaults, rLost>>

(* enqueueDailyReportJobs: a job id per calendar day, "today as seen in    *)
(* the organization's own timezone"; finished jobs keep their id for a     *)
(* week or more, so adding it again changes nothing.                       *)
ReportTick ==
  /\ rJob' = [rJob EXCEPT ![rToday] = Added(@)]
  /\ UNCHANGED <<rToday, rChange, rReport, rMail, rTries, rRun, rHandler, rFaults, rLost>>

ReportTake(w, d) ==
  /\ rRun[w].pc = "idle" /\ rJob[d].state = "waiting"
  /\ rJob' = [rJob EXCEPT ![d] = TakenBy(@, w)]
  /\ rRun' = [rRun EXCEPT ![w] = [ReportIdle EXCEPT !.pc = "period", !.day = d]]
  /\ UNCHANGED <<rToday, rChange, rReport, rMail, rTries, rHandler, rFaults, rLost>>

ReportGoto(w, pc) == rRun' = [rRun EXCEPT ![w].pc = pc]

(* getOrCreateReportPeriod finds or creates the row of the period.         *)
FoundOrCreated(d) == IF rReport[d].status = "ABSENT" THEN "GENERATING" ELSE rReport[d].status

(* ensureReportGenerated returns early for a COMPLETED report.             *)
Generates(s) == s # "COMPLETED"

ReportPeriod(w) ==
  LET d == rRun[w].day  s == FoundOrCreated(d) IN
    /\ rRun[w].pc = "period"
    /\ rReport' = [rReport EXCEPT ![d].status = s]
    /\ ReportGoto(w, IF Generates(s) THEN "list" ELSE "deliver")
    /\ UNCHANGED <<rToday, rChange, rMail, rJob, rTries, rHandler, rFaults, rLost>>

ReportList(w) ==
  /\ rRun[w].pc = "list"
  /\ rRun' = [rRun EXCEPT ![w].pc = "finalize", ![w].events = DetectedOn(rRun[w].day)]
  /\ UNCHANGED <<rToday, rChange, rReport, rMail, rJob, rTries, rHandler, rFaults, rLost>>

(* Mutant: the items are written after the row, in a second step that      *)
(* nothing retries.                                                        *)
FinalizedWithoutItems(r, events) ==
  [status |-> "COMPLETED", items |-> r.items, count |-> Cardinality(events)]

(* finalizeReport: one transaction; items that exist are skipped.          *)
Finalized(r, events) ==
  [status |-> "COMPLETED", items |-> r.items \cup events, count |-> Cardinality(events)]

ReportFinalize(w) ==
  LET d == rRun[w].day IN
    /\ rRun[w].pc = "finalize"
    /\ rReport' = [rReport EXCEPT ![d] = Finalized(@, rRun[w].events)]
    /\ ReportGoto(w, "deliver")
    /\ UNCHANGED <<rToday, rChange, rMail, rJob, rTries, rHandler, rFaults, rLost>>

(* A query fails there: markReportFailed asks for no status, and may fail. *)
ReportGenerateFails(w) ==
  /\ rRun[w].pc \in {"list", "finalize"}
  /\ \/ rReport' = [rReport EXCEPT ![rRun[w].day].status = "FAILED"]
     \/ UNCHANGED rReport
  /\ ReportGoto(w, "failing")
  /\ UNCHANGED <<rToday, rChange, rMail, rJob, rTries, rHandler, rFaults, rLost>>

(* A query outside that try block fails, before or after it.               *)
ReportQueryFails(w) ==
  /\ rRun[w].pc \in {"period", "deliver"}
  /\ ReportGoto(w, "failing")
  /\ UNCHANGED <<rToday, rChange, rReport, rMail, rJob, rTries, rHandler, rFaults, rLost>>

-----------------------------------------------------------------------------
(* Mutant: the log is not asked whether the email has been sent.           *)
NeverToldBefore(log) == FALSE

AlreadySent(log) == log = "SENT"

(* attemptReportEmailDelivery: no provider or recipient, or a reservation. *)
ReportReserve(w) ==
  LET d == rRun[w].day IN
    /\ rRun[w].pc = "deliver"
    /\ \/ ReportGoto(w, "ack") /\ UNCHANGED rMail
       \/ IF AlreadySent(rMail[d].log)
            THEN ReportGoto(w, "ack") /\ UNCHANGED rMail
            ELSE /\ rMail' = [rMail EXCEPT ![d].log = IF @ = "none" THEN "PENDING" ELSE @]
                 /\ ReportGoto(w, "send")
    /\ UNCHANGED <<rToday, rChange, rReport, rJob, rTries, rHandler, rFaults, rLost>>

(* The email leaves or it does not, and the provider says so - or loses    *)
(* the connection after it has left.                                       *)
ReportSend(w) ==
  LET d == rRun[w].day IN
    /\ rRun[w].pc = "send"
    /\ \/ /\ rMail' = [rMail EXCEPT ![d].left = @ + 1]
          /\ ReportGoto(w, "sent") /\ UNCHANGED rFaults
       \/ /\ rFaults < MaxFaults /\ rFaults' = rFaults + 1
          /\ rMail' = [rMail EXCEPT ![d].left = @ + 1]
          /\ ReportGoto(w, "unsent")
       \/ ReportGoto(w, "unsent") /\ UNCHANGED <<rMail, rFaults>>
    /\ UNCHANGED <<rToday, rChange, rReport, rJob, rTries, rHandler, rLost>>

MarkedSent(pc) == pc = "sent"

(* markReportEmailSent or markReportEmailFailed; a delivery that failed    *)
(* is thrown on to BullMQ, with the report left as it is.                  *)
ReportMark(w) ==
  LET d == rRun[w].day IN
    /\ rRun[w].pc \in {"sent", "unsent"}
    /\ IF MarkedSent(rRun[w].pc)
         THEN rMail' = [rMail EXCEPT ![d].log = "SENT"] /\ ReportGoto(w, "ack")
         ELSE /\ rMail' \in {rMail, [rMail EXCEPT ![d].log = "FAILED"]}
              /\ ReportGoto(w, "failing")
    /\ UNCHANGED <<rToday, rChange, rReport, rJob, rTries, rHandler, rFaults, rLost>>

(* The database refuses the mark of an email that has left.                *)
ReportMarkFails(w) ==
  /\ rRun[w].pc = "sent"
  /\ rFaults < MaxFaults /\ rFaults' = rFaults + 1
  /\ ReportGoto(w, "unsent")
  /\ UNCHANGED <<rToday, rChange, rReport, rMail, rJob, rTries, rHandler, rLost>>

-----------------------------------------------------------------------------
(* BullMQ retries a job that failed and reports every failure.             *)
ReportEnd(w) ==
  LET d == rRun[w].day  failed == rRun[w].pc = "failing" IN
    /\ rRun[w].pc \in {"ack", "failing"}
    /\ rJob' = [rJob EXCEPT ![d] = Reported(@, w,
         IF ~failed THEN "completed" ELSE IF rTries[d] + 1 < MaxAttempts THEN "waiting" ELSE "failed")]
    /\ IF failed /\ rJob[d].lock = w
         THEN /\ rTries' = [rTries EXCEPT ![d] = @ + 1]
              /\ rHandler' = rHandler \cup {<<d, "read">>}
         ELSE UNCHANGED <<rTries, rHandler>>
    /\ rRun' = [rRun EXCEPT ![w] = ReportIdle]
    /\ UNCHANGED <<rToday, rChange, rReport, rMail, rFaults, rLost>>

ReportCrash(w) ==
  /\ rRun[w].pc # "idle"
  /\ rFaults < MaxFaults /\ rFaults' = rFaults + 1
  /\ rRun' = [rRun EXCEPT ![w] = ReportIdle]
  /\ UNCHANGED <<rToday, rChange, rReport, rMail, rJob, rTries, rHandler, rLost>>

(* A lock expires, of a run that died or of one that lives on.             *)
ReportStall(d) ==
  LET alive == rJob[d].lock # None /\ rRun[rJob[d].lock].day = d IN
    /\ rJob[d].state = "active"
    /\ alive => rFaults < MaxFaults
    /\ rFaults' = (IF alive THEN rFaults + 1 ELSE rFaults)
    /\ rLost' = (rLost \/ alive)
    /\ rJob' = [rJob EXCEPT ![d] = Stalled(@)]
    /\ rHandler' = rHandler \cup (IF rJob'[d].state = "failed" THEN {<<d, "read">>} ELSE {})
    /\ UNCHANGED <<rToday, rChange, rReport, rMail, rTries, rRun>>

(* The 'failed' handler leaves COMPLETED and FAILED reports alone ...      *)
HandlesReport(s) == s \notin {"COMPLETED", "FAILED"}

(* ... as it reads them; markReportFailed then asks for no status.         *)
ReportHandlerRead(d) ==
  /\ <<d, "read">> \in rHandler
  /\ rReport' = [rReport EXCEPT ![d].status = FoundOrCreated(d)]
  /\ rHandler' = (rHandler \ {<<d, "read">>})
                   \cup (IF HandlesReport(rReport'[d].status) THEN {<<d, "mark">>} ELSE {})
  /\ UNCHANGED <<rToday, rChange, rMail, rJob, rTries, rRun, rFaults, rLost>>

ReportHandlerMark(d) ==
  /\ <<d, "mark">> \in rHandler
  /\ rReport' = [rReport EXCEPT ![d].status = "FAILED"]
  /\ rHandler' = rHandler \ {<<d, "mark">>}
  /\ UNCHANGED <<rToday, rChange, rMail, rJob, rTries, rRun, rFaults, rLost>>

ReportHandlerLost(h) ==
  /\ rHandler' = rHandler \ {h}
  /\ UNCHANGED <<rToday, rChange, rReport, rMail, rJob, rTries, rRun, rFaults, rLost>>

ReportWork(w) ==
  \/ \E d \in 1..Days : ReportTake(w, d)
  \/ ReportPeriod(w) \/ ReportList(w) \/ ReportFinalize(w) \/ ReportGenerateFails(w) \/ ReportQueryFails(w)
  \/ ReportReserve(w) \/ ReportSend(w) \/ ReportMark(w) \/ ReportMarkFails(w)
  \/ ReportEnd(w) \/ ReportCrash(w)

ReportNext ==
  \/ Midnight \/ ReportTick
  \/ \E k \in Changes : Detect(k)
  \/ \E w \in ReportSlots : ReportWork(w)
  \/ \E d \in 1..Days : ReportStall(d) \/ ReportHandlerRead(d) \/ ReportHandlerMark(d)
  \/ \E h \in rHandler : ReportHandlerLost(h)

ReportSpec == ReportInit /\ [][ReportNext]_rVars
-----------------------------------------------------------------------------
(* Types; items belong to their day.                                       *)
ReportTypeOK ==
  /\ rToday \in 1..Days
  /\ rChange \in [Changes -> 0..Days]
  /\ \A d \in 1..Days :
       /\ rReport[d].status \in {"ABSENT", "GENERATING", "COMPLETED", "FAILED"}
       /\ rReport[d].items \subseteq DetectedOn(d) /\ rReport[d].count \in 0..Cardinality(Changes)
       /\ rMail[d].log \in {"none", "PENDING", "SENT", "FAILED"} /\ rMail[d].left \in Nat
       /\ rJob[d] \in QueueJob(ReportSlots) /\ rTries[d] \in 0..MaxAttempts
  /\ \A w \in ReportSlots :
       /\ rRun[w].pc \in {"idle", "period", "list", "finalize", "deliver", "send", "sent", "unsent",
                          "ack", "failing"}
       /\ rRun[w].day \in 0..Days /\ rRun[w].events \subseteq Changes
  /\ rHandler \subseteq (1..Days) \X {"read", "mark"}
  /\ rFaults \in 0..MaxFaults /\ rLost \in BOOLEAN

(* However often the job of a day is retried or redelivered, its email     *)
(* leaves once, plus once for every crash, lost lock or lost reply; and    *)
(* "never record a report as SENT when nothing left the machine".          *)
OneEmailPerFault ==
  \A d \in 1..Days : rMail[d].left <= 1 + rFaults /\ (rMail[d].log = "SENT" => rMail[d].left > 0)

(* "a report is never left COMPLETED with a partially-written item set":   *)
(* the number a report shows is that of its items, unless a run that lost  *)
(* its lock finalized it with an older list.                               *)
CountIsItems ==
  \A d \in 1..Days :
    rReport[d].status = "COMPLETED" /\ ~rLost => rReport[d].count = Cardinality(rReport[d].items)

(* What a report says of itself agrees with what it holds and with what    *)
(* has left.                                                               *)
ReportsAgree == OneEmailPerFault /\ CountIsItems

(* An email failure "never touches the Report row": a COMPLETED report     *)
(* stays as it is, but for a handler that read it before it was COMPLETED  *)
(* and for a run that lost its lock; and an email that is recorded as sent *)
(* is not sent again, whatever retries and redeliveries follow.            *)
CompletedStays ==
  [][\A d \in 1..Days :
       /\ rReport[d].status = "COMPLETED" /\ rReport'[d] # rReport[d] =>
            rLost \/ <<d, "mark">> \in rHandler
       /\ rMail[d].log = "SENT" /\ ~rLost => rMail'[d] = rMail[d]]_rVars

(* "Your daily report covers your calendar day in this timezone": once the *)
(* day is over, a COMPLETED report lists all its changes.                  *)
CoversItsDay ==
  \A d \in 1..(rToday - 1) :
    rReport[d].status = "COMPLETED" => rReport[d].items = DetectedOn(d)
=============================================================================
