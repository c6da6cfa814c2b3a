------------------------- MODULE MonitoringSchedule -------------------------
(***************************************************************************)
(* When one monitored URL is scanned: the scheduler's pass (stop sources   *)
(* that keep failing, enqueue what is due), the scans that record their    *)
(* outcome on the row, and the customer who pauses, resumes, edits and     *)
(* scans it by hand.  Time is counted in scheduler intervals; the row's    *)
(* timestamps are ages.                                                    *)
(***************************************************************************)
EXTENDS Naturals

CONSTANTS
  Jobs,          \* scan jobs of this URL that may exist at once
  Cadences,      \* scanFrequencyMinutes a customer may choose
  Base, FloorMax, CapMin, MaxExponent,  \* of monitoringBackoffMs
  AfterDays, MinFailures,               \* AutoDisableOptions
  MaxAge,        \* bound: ages saturate here
  MaxFails,      \* bound: the streak saturates here
  MaxEdits,      \* bound on what the customer does
  MaxFaults      \* bound on scans and passes that throw

ASSUME ConstantsOK ==
  /\ Cadences \subseteq Nat \ {0}
  /\ {Base, FloorMax, CapMin, MaxExponent, AfterDays, MinFailures} \subseteq Nat \ {0}
  /\ {MaxAge, MaxFails, MaxEdits, MaxFaults} \subseteq Nat
  /\ MinFailures <= MaxFails /\ MaxExponent < MaxFails
  /\ \A c \in Cadences \cup {CapMin, AfterDays} : c < MaxAge

VARIABLES
  url,      \* the MonitoredUrl row
  site,     \* "up", or "down": the page cannot be fetched
  job,      \* scans waiting or running
  pass,     \* program counter of the scheduler's pass
  edits, faults

vars == <<url, site, job, pass, edits, faults>>

Never == MaxAge + 1
Ages == 0..Never

-----------------------------------------------------------------------------
AtMost(a, b) == IF a < b THEN a ELSE b
AtLeast(a, b) == IF a < b THEN b ELSE a

(* monitoringBackoffMs.                                                    *)
Backoff(fails, cadence) ==
  IF fails = 0 THEN 0
    ELSE AtMost(AtLeast(Base * 2^AtMost(fails - 1, MaxExponent),
                        AtMost(cadence \div 4, FloorMax)),
                AtLeast(CapMin, cadence))

(* Mutant: a URL without a timestamp is taken for a recent one.            *)
NullIsRecent(age, interval) == age # Never /\ age >= interval

Elapsed(age, interval) == age = Never \/ age >= interval

(* listDueMonitoredUrls.                                                   *)
Due(u) ==
  /\ u.active
  /\ Elapsed(u.attempt, Backoff(u.fails, u.cadence))
  /\ Elapsed(u.success, u.cadence)

(* The sources disableUnreachableSources stops.                            *)
Unreachable(u) ==
  /\ u.active /\ u.fails >= MinFailures
  /\ (IF u.success = Never THEN u.created ELSE u.success) > AfterDays

-----------------------------------------------------------------------------
Init ==
  /\ \E c \in Cadences :
       url = [active |-> TRUE, disabled |-> FALSE, cadence |-> c, fails |-> 0,
              success |-> Never, attempt |-> Never, created |-> 0]
  /\ site \in {"up", "down"}
  /\ job = [j \in Jobs |-> "none"]
  /\ pass = "rest"
  /\ edits = 0
  /\ faults = 0

Older(age) == IF age < MaxAge THEN age + 1 ELSE age

(* An interval goes by; a pass that is still running is not started again. *)
Interval ==
  /\ url' = [url EXCEPT !.success = Older(@), !.attempt = Older(@), !.created = Older(@)]
  /\ pass' = IF pass = "rest" THEN "find" ELSE pass
  /\ UNCHANGED <<site, job, edits, faults>>

SiteChanges ==
  /\ site' \in {"up", "down"} \ {site}
  /\ UNCHANGED <<url, job, pass, edits, faults>>

-----------------------------------------------------------------------------
(* disableUnreachableSources: one query finds the candidates ...           *)
Find ==
  /\ pass = "find"
  /\ pass' = IF Unreachable(url) THEN "stop" ELSE "list"
  /\ UNCHANGED <<url, site, job, edits, faults>>

(* Mutant: whatever was found is stopped.                                  *)
StoppedRegardless(u) == [u EXCEPT !.active = FALSE, !.disabled = TRUE]

Stopped(u) == IF u.active THEN [u EXCEPT !.active = FALSE, !.disabled = TRUE] ELSE u

(* ... and a second stops those that are still active.                     *)
Stop ==
  /\ pass = "stop"
  /\ url' = Stopped(url)
  /\ pass' = "list"
  /\ UNCHANGED <<site, job, edits, faults>>

(* enqueueDueMonitoringJobs: list, then add one job per URL.               *)
ListDue ==
  /\ pass = "list"
  /\ pass' = IF Due(url) THEN "add" ELSE "rest"
  /\ UNCHANGED <<url, site, job, edits, faults>>

AddJob ==
  /\ pass = "add"
  /\ pass' = "rest"
  /\ IF \E j \in Jobs : job[j] = "none"
       THEN \E j \in Jobs : job[j] = "none" /\ job' = [job EXCEPT ![j] = "scheduled"]
       ELSE job' = job
  /\ UNCHANGED <<url, site, edits, faults>>

(* Every stage is isolated: the pass goes on after one that throws.        *)
PassThrows ==
  /\ pass # "rest"
  /\ faults < MaxFaults
  /\ faults' = faults + 1
  /\ pass' = IF pass \in {"find", "stop"} THEN "list" ELSE "rest"
  /\ UNCHANGED <<url, site, job, edits>>

-----------------------------------------------------------------------------
(* The worker takes a waiting scan; it asks nothing about the URL's state. *)
Start(j) ==
  /\ job[j] \in {"scheduled", "manual"}
  /\ job' = [job EXCEPT ![j] = "running"]
  /\ UNCHANGED <<url, site, pass, edits, faults>>

(* Mutant: a failure is not counted.                                       *)
FailuresForgotten(u, fetched) ==
  IF fetched THEN [u EXCEPT !.success = 0, !.attempt = 0, !.fails = 0]
    ELSE [u EXCEPT !.attempt = 0]

(* persistMonitoringResult, persistNotModifiedResult: what a scan that     *)
(* fetched the page, or could not, leaves on the row.                      *)
Recorded(u, fetched) ==
  IF fetched THEN [u EXCEPT !.success = 0, !.attempt = 0, !.fails = 0]
    ELSE [u EXCEPT !.fails = AtMost(@ + 1, MaxFails), !.attempt = 0]

Persist(j) ==
  /\ job[j] = "running"
  /\ job' = [job EXCEPT ![j] = "none"]
  /\ url' = Recorded(url, site # "down")
  /\ UNCHANGED <<site, pass, edits, faults>>

(* A scan that throws on its last attempt records nothing on the URL.      *)
ScanThrows(j) ==
  /\ job[j] = "running"
  /\ faults < MaxFaults
  /\ faults' = faults + 1
  /\ job' = [job EXCEPT ![j] = "none"]
  /\ UNCHANGED <<url, site, pass, edits>>

-----------------------------------------------------------------------------
Resumed(u) ==
  [u EXCEPT !.active = TRUE, !.disabled = FALSE, !.fails = 0, !.attempt = Never]

Frequencies == Cadences

(* updateMonitoredUrl: pause, resume, another frequency.                   *)
Edit ==
  /\ edits < MaxEdits
  /\ edits' = edits + 1
  /\ \/ url' = [url EXCEPT !.active = FALSE]
     \/ url' = Resumed(url)
     \/ \E c \in Frequencies : url' = [url EXCEPT !.cadence = c]
  /\ UNCHANGED <<site, job, pass, faults>>

ScanNow(j) ==
  /\ edits < MaxEdits
  /\ edits' = edits + 1
  /\ job[j] = "none"
  /\ job' = [job EXCEPT ![j] = "manual"]
  /\ UNCHANGED <<url, site, pass, faults>>

-----------------------------------------------------------------------------
Scheduler == Find \/ Stop \/ ListDue \/ AddJob

Worker(j) == Start(j) \/ Persist(j)

Next ==
  \/ Interval \/ SiteChanges \/ Scheduler \/ PassThrows \/ Edit
  \/ \E j \in Jobs : Worker(j) \/ ScanThrows(j) \/ ScanNow(j)

Spec == Init /\ [][Next]_vars

(* Time passes, the scheduler process runs, the worker drains its queue.   *)
FairSpec ==
  Spec /\ WF_vars(Interval) /\ WF_vars(Scheduler) /\ \A j \in Jobs : WF_vars(Worker(j))
-----------------------------------------------------------------------------
TypeOK ==
  /\ url \in [active: BOOLEAN, disabled: BOOLEAN, cadence: Cadences, fails: 0..MaxFails,
              success: Ages, attempt: Ages, created: 0..MaxAge]
  /\ site \in {"up", "down"}
  /\ job \in [Jobs -> {"none", "scheduled", "manual", "running"}]
  /\ pass \in {"rest", "find", "stop", "list", "add"}
  /\ edits \in 0..MaxEdits
  /\ faults \in 0..MaxFaults

(* "disabledAt: set when the system stopped monitoring this URL; isActive  *)
(* is false at the same time.  Cleared when the customer resumes it."      *)
StoppedIsInactive == url.disabled => ~url.active

(* "set when the system (not the customer) stopped monitoring": a pause    *)
(* that the customer makes while the pass is under way stays a pause.      *)
PauseIsNotAStop == [][(url'.disabled /\ ~url.disabled) => url.active]_vars

(* A source that stays up and active is scanned again and again.           *)
KeepsWatching == <>[](url.active /\ site # "down") => []<>(url.success = 0)

(* A source that stays down is stopped, for good unless it is resumed.     *)
FailingIsStopped == <>[](site = "down") => <>[](~url.active)
=============================================================================
