----------------------------- MODULE ScanQueue -----------------------------
(***************************************************************************)
(* Many URLs between the scheduler and the scan workers: a pass lists what *)
(* is due, spaces the scans of one site out and adds them one by one to a  *)
(* queue with few slots, on which customers' own scans wait as well.       *)
(***************************************************************************)
EXTENDS Integers, Sequences, FiniteSets, JobQueue

CONSTANTS
  Urls,         \* active monitored URLs
  Lone,         \* those on a site of their own; the others share one
  Cadence,      \* scanFrequencyMinutes
  Tick,         \* monitoringIntervalMs, and the base of the backoff
  Bucket,       \* bucketMs of monitoringJobId
  Spacing,      \* spacingMs
  Jitter,       \* jitterMs
  MaxDelay,     \* maxDelayMs
  Slots,        \* concurrency of the monitoring worker
  Tries,        \* attempts of a job
  MaxFailures,  \* bound: the streak saturates here
  MaxUpsets,    \* bound: restarts of the scheduler, scans by hand, steps that throw and lost jobs
  Horizon       \* bound: the clock

ASSUME ScanQueueConstants ==
  /\ IsFiniteSet(Urls)
  /\ {Cadence, Tick, Bucket, Jitter, Slots, Tries, MaxFailures} \subseteq Nat \ {0}
  /\ {Spacing, MaxDelay, MaxUpsets, Horizon, MaxStalls} \subseteq Nat /\ Lone \subseteq Urls

VARIABLES
  minute,   \* the clock
  alarm,    \* when the interval fires next
  round,    \* the scheduler's pass: since when, what it does, what it has yet to add, which of it was queued
  queued,   \* the queue's jobs; history: whether each was "late", that is another scan of its URL, or its
            \* own before it was delivered again, may have been recorded since it was listed
  astray,   \* URLs scanned by a worker that lost the job and goes on
  ended,    \* ids of jobs that ended; they are kept for days
  page,     \* of each URL's row: the last success, the last attempt, the streak of failures
  started,  \* history: the first starts of the jobs a pass added
  upsets    \* history: what was asked or went wrong so far

qVars == <<minute, alarm, round, queued, astray, ended, page, started, upsets>>

NotYet == -1
ByHand == 0  \* the pass of a job no pass added
Resting == [at |-> "rest", number |-> round.number, since |-> 0, plan |-> <<>>, behind |-> {}]
Started(now) == [at |-> "list", number |-> round.number + 1, since |-> now, plan |-> <<>>, behind |-> {}]

SameSite(u, v) == u = v \/ {u, v} \cap Lone = {}

-----------------------------------------------------------------------------
(* listDueMonitoredUrls; the backoff's floor and cap are left out.         *)
Wait(fails) == IF fails = 0 THEN 0 ELSE Tick * 2^(fails - 1)
ScanDue(u) ==
  /\ page[u].attempt = NotYet \/ minute - page[u].attempt >= Wait(page[u].fails)
  /\ page[u].success = NotYet \/ minute - page[u].success >= Cadence

(* planHostDelays: the first URL of a site at once, each further one later *)
(* than the one before it.                                                 *)
Least(x, y) == IF x < y THEN x ELSE y

(* Mutant: the jitter alone spaces the scans of a site.                    *)
UnspacedDelays(position) == {IF position = 0 THEN 0 ELSE Least(j, MaxDelay) : j \in 0..(Jitter - 1)}

Delays(position) == {IF position = 0 THEN 0 ELSE Least(position * Spacing + j, MaxDelay) : j \in 0..(Jitter - 1)}

Position(order, i) == Cardinality({k \in 1..(i - 1) : SameSite(order[k], order[i])})

Plans(urls) ==
  LET Orders == {o \in [1..Cardinality(urls) -> urls] : \A u \in urls : \E i \in DOMAIN o : o[i] = u} IN
  UNION {{plan \in [DOMAIN order -> [url : urls, delay : 0..MaxDelay]] :
            \A i \in DOMAIN order : plan[i].url = order[i] /\ plan[i].delay \in Delays(Position(order, i))} :
         order \in Orders}

-----------------------------------------------------------------------------
QueueInit ==
  /\ minute = 0
  /\ alarm = Tick
  /\ round = [at |-> "list", number |-> 1, since |-> 0, plan |-> <<>>, behind |-> {}]
  /\ queued = {}
  /\ astray = {}
  /\ ended = {}
  /\ page = [u \in Urls |-> [success |-> NotYet, attempt |-> NotYet, fails |-> 0]]
  /\ started = {}
  /\ upsets = <<>>

(* Time goes by; a pass that still runs when the interval fires is not     *)
(* started again (guardOverlap).  An id is forgotten when it cannot come   *)
(* again.                                                                  *)
MinutePasses ==
  /\ minute < Horizon
  /\ minute' = minute + 1
  /\ alarm' = IF alarm = minute' THEN alarm + Tick ELSE alarm
  /\ round' = IF alarm = minute' /\ round.at = "rest" THEN Started(minute') ELSE round
  /\ ended' = {id \in ended : id[2] = minute' \div Bucket}
  /\ UNCHANGED <<queued, astray, page, started, upsets>>

Upset(what) == Len(upsets) < MaxUpsets /\ upsets' = Append(upsets, what)

(* The scheduler is started anew: a pass at once, and then by interval.    *)
RestartScheduler ==
  /\ Upset("restart")
  /\ alarm' = minute + Tick
  /\ round' = Started(minute)
  /\ UNCHANGED <<minute, queued, astray, ended, page, started>>

(* After the sweep, the stops and the alert emails (each isolated): what   *)
(* is due, in no particular order.                                         *)
Behind(u) == \E j \in queued : j.id[1] = u
ListDueUrls ==
  LET due == {u \in Urls : ScanDue(u)} IN
    /\ round.at = "list"
    /\ IF due = {} THEN round' = Resting
                   ELSE \E plan \in Plans(due) :
                          round' = [at |-> "add", number |-> round.number, since |-> round.since,
                                    plan |-> plan, behind |-> {u \in due : Behind(u)}]
    /\ UNCHANGED <<minute, alarm, queued, astray, ended, page, started, upsets>>

(* monitoringJobId: a job of this URL and time bucket is added once.       *)
Id(u) == <<u, minute \div Bucket>>
NewJob(id, delay, number) ==
  [id |-> id, ready |-> minute + delay, state |-> "waiting", tries |-> 0, stalls |-> 0,
   pass |-> number, tick |-> round.since, capped |-> delay = MaxDelay, late |-> FALSE]
WithJob(u, delay) ==
  IF Id(u) \in {j.id : j \in queued} \cup ended THEN queued
                                               ELSE queued \cup {NewJob(Id(u), delay, round.number)}
Late(jobs, u) == {IF j.id[1] = u THEN [j EXCEPT !.late = TRUE] ELSE j : j \in jobs}

AddScan ==
  /\ round.at = "add"
  /\ LET u == round.plan[1].url
         jobs == WithJob(u, round.plan[1].delay)
     IN  queued' = IF u \in round.behind THEN Late(jobs, u) ELSE jobs
  /\ round' = IF Len(round.plan) = 1 THEN Resting ELSE [round EXCEPT !.plan = Tail(@)]
  /\ UNCHANGED <<minute, alarm, astray, ended, page, started, upsets>>

(* An add that throws ends the pass: the rest is not added.                *)
AddThrows ==
  /\ round.at = "add" /\ Upset("throw")
  /\ round' = Resting
  /\ UNCHANGED <<minute, alarm, queued, astray, ended, page, started>>

(* A pass that is adding meets another scan of the URL.                    *)
Passed(u) == IF round.at = "add" THEN [round EXCEPT !.behind = @ \cup {u}] ELSE round

(* "Scan now": a job under an id of its own, whatever is queued already.   *)
ScanNow(u) ==
  /\ Upset("scan now")
  /\ queued' = Late(queued \cup {NewJob(<<u, -Len(upsets')>>, 0, ByHand)}, u)
  /\ round' = Passed(u)
  /\ UNCHANGED <<minute, alarm, astray, ended, page, started>>

-----------------------------------------------------------------------------
FirstStart(j) ==
  IF j.tries # 0 \/ j.pass = ByHand THEN {}
    ELSE {[url |-> j.id[1], pass |-> j.pass, ready |-> j.ready, capped |-> j.capped, at |-> minute]}
Unfinished(number, j) ==
  (round.at = "add" /\ round.number = number) \/ \E k \in queued \ {j} : k.pass = number /\ k.state = "waiting"

(* A free slot takes a job whose delay has run out.                        *)
Running(j) == [[j EXCEPT !.state = "running"] EXCEPT !.tries = @ + 1]
StartScan(j) ==
  /\ j.state = "waiting" /\ j.ready <= minute
  /\ Cardinality({k \in queued : k.state # "waiting"}) < Slots
  /\ queued' = (queued \ {j}) \cup {Running(j)}
  /\ started' = {s \in started \cup FirstStart(j) : Unfinished(s.pass, j)}
  /\ UNCHANGED <<minute, alarm, round, astray, ended, page, upsets>>

(* The scan is recorded on the row, fetched or not; the job is still the   *)
(* worker's.                                                               *)
Noted(u, fetched) ==
  page' = [page EXCEPT ![u] =
             IF fetched THEN [success |-> minute, attempt |-> minute, fails |-> 0]
               ELSE [success |-> @.success, attempt |-> minute, fails |-> Least(@.fails + 1, MaxFailures)]]

RecordOnRow(j, fetched) ==
  /\ j.state = "running"
  /\ Noted(j.id[1], fetched)
  /\ queued' = (queued \ {j}) \cup {[j EXCEPT !.state = "recorded"]}
  /\ UNCHANGED <<minute, alarm, round, astray, ended, started, upsets>>

Gone(j) == queued' = queued \ {j} /\ ended' = ended \cup {j.id}

(* The job is acknowledged.                                                *)
EndScan(j) ==
  /\ j.state = "recorded"
  /\ Gone(j)
  /\ UNCHANGED <<minute, alarm, round, astray, page, started, upsets>>

(* The job is delivered again, and the page fetched again, although a      *)
(* first scan may be on the row.                                           *)
Again(j) == [j EXCEPT !.state = "waiting", !.late = @ \/ j.state = "recorded"]

(* A scan that throws, before it was recorded or after, is tried again.    *)
ScanThrows(j) ==
  /\ j.state # "waiting" /\ Upset("throw")
  /\ IF j.tries - j.stalls < Tries
       THEN queued' = (queued \ {j}) \cup {Again(j)} /\ ended' = ended
       ELSE Gone(j)
  /\ UNCHANGED <<minute, alarm, round, astray, page, started>>

(* The lock expires: the worker died, before it recorded or before it      *)
(* acknowledged, or is too slow to renew it and goes on with the scan.     *)
ScanLost(j) ==
  /\ j.state # "waiting" /\ Upset("loss")
  /\ IF j.stalls < MaxStalls
       THEN queued' = (queued \ {j}) \cup {[Again(j) EXCEPT !.stalls = @ + 1]} /\ ended' = ended
       ELSE Gone(j)
  /\ \/ astray' = astray
     \/ j.state = "running" /\ astray' = astray \cup {j.id[1]}
  /\ UNCHANGED <<minute, alarm, round, page, started>>

StrayRecords(u, fetched) ==
  /\ u \in astray /\ astray' = astray \ {u}
  /\ Noted(u, fetched)
  /\ queued' = Late(queued, u)
  /\ round' = Passed(u)
  /\ UNCHANGED <<minute, alarm, ended, started, upsets>>

StrayEnds(u) ==
  /\ u \in astray /\ astray' = astray \ {u}
  /\ UNCHANGED <<minute, alarm, round, queued, ended, page, started, upsets>>

QueueNext ==
  \/ MinutePasses \/ RestartScheduler \/ ListDueUrls \/ AddScan \/ AddThrows
  \/ \E u \in Urls : ScanNow(u) \/ StrayEnds(u) \/ \E fetched \in BOOLEAN : StrayRecords(u, fetched)
  \/ \E j \in queued : StartScan(j) \/ EndScan(j) \/ ScanThrows(j) \/ ScanLost(j)
                      \/ \E fetched \in BOOLEAN : RecordOnRow(j, fetched)

QueueSpec == QueueInit /\ [][QueueNext]_qVars

-----------------------------------------------------------------------------
QueueTypeOK ==
  /\ minute \in 0..Horizon /\ alarm \in Nat /\ round.at \in {"rest", "list", "add"}
  /\ queued \subseteq [id : Urls \X Int, ready : Nat, state : {"waiting", "running", "recorded"},
                       tries : 0..(Tries + MaxStalls), stalls : 0..MaxStalls, pass : Nat, tick : Nat, capped : BOOLEAN, late : BOOLEAN]
  /\ astray \subseteq Urls /\ ended \subseteq Urls \X Int
  /\ page \in [Urls -> [success : Int, attempt : Int, fails : 0..MaxFailures]]

ScanStarts(j) == j.state = "waiting" /\ Running(j) \in queued'

(* Scans are due when they start and do not burst on one site:             *)
(*   - a scheduled scan starts although its URL has just been scanned only *)
(*     if another scan of the URL was in the queue since it was listed (a  *)
(*     pass found the queue behind, or the customer asked for one), if its *)
(*     own first delivery was recorded and then not acknowledged, or if a  *)
(*     worker that had lost a job of the URL recorded its scan all the     *)
(*     same; a retry of what was not recorded is due as the first was;     *)
(*   - no delay outlives the interval unless the pass was slow or the      *)
(*     scheduler was restarted;                                            *)
(*   - two scans that one pass added for a site start, the first time they *)
(*     are taken, a spacing apart, less the jitter, unless the delay was   *)
(*     capped or one of them had to wait for a slot.                       *)
StartsInOrder ==
  /\ \A j \in queued : ScanStarts(j) =>
       /\ j.pass # ByHand /\ ~j.late => ScanDue(j.id[1])
       /\ \A s \in started :
            j.tries = 0 /\ s.pass = j.pass /\ s.url # j.id[1] /\ SameSite(s.url, j.id[1]) =>
              \/ minute - s.at >= Spacing - (Jitter - 1)
              \/ j.capped \/ s.capped \/ minute > j.ready \/ s.at > s.ready
  /\ round.at = "list" /\ round'.at = "add" =>
       \A j \in queued : j.state = "waiting" /\ j.tries = 0 /\ j.ready > minute =>
         (\E i \in DOMAIN upsets : upsets[i] = "restart") \/ j.ready - j.tick > Tick

(* Of every step of the queue.                                            *)
ScansAreSpaced == [][StartsInOrder]_qVars
=============================================================================
