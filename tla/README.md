# Verification of Competitor Monitor AI

TLA+ specifications of the worker, the queues, the database operations and the
stateful pages of this repository, checked with TLC on small instances and, for
the modules named in section 6, proved with TLAPS for every value of their
constants. `PROJECT.json` holds the machine-readable part: components, runs,
mutants, the map from definitions to source lines, findings, hazards and
theorems. Paths below are relative to `src/`.

Check a run with `tlc -config <Run>.cfg <Module>.tla`, a proof with
`tlapm <Module>Proofs.tla`.

In every module a definition introduced as *Mutant* is not part of the model: it
is the form a plausible bug would give to the definition that follows it, and
`PROJECT.json` names the property that then fails.

## 1. The system

A Next.js application (`apps/web`) and a worker (`apps/worker`) share a
PostgreSQL database (Prisma, `packages/db`) and Redis (BullMQ queues,
`packages/queue`; rate limits). Nothing else connects them: a route writes a row
and adds a job; a worker takes the job, reads and writes rows; a 'failed' handler
and the scheduler's sweep repair what a dead worker leaves. Almost no transaction
spans more than one repository call, so nearly every two calls interleave with
those of other processes.

| Component | State | Operations | Interacts through | Module |
|---|---|---|---|---|
| Monitoring scans | `MonitoringJob`, `Snapshot`, `UsageRecord`, validators and failure streak of `MonitoredUrl` | request, enqueue, run, persist, persist a 304, mark failed | monitoring queue, the monitored site | `MonitoringScan`, `ScanLedger` |
| Stuck-job sweep | rows PENDING or RUNNING too long | `sweepStuckJobs` | rows of scans, analyses, digests | in the module of each row |
| Snapshot comparison | none (pure) | `compareSnapshots`, `diffText` | inside a scan | `PageHistory`, `TextDiff` |
| AI analysis of a change | one `AiAnalysis` row per change event, one job under its id | trigger, run, call the provider, store | AI queue, provider | `AiAnalysis`, `AnalysisRow` |
| Alert emails | `AlertDelivery` rows | list, plan, reserve, send, mark | alerts, mail provider | `AlertDelivery` |
| Scan scheduling | `MonitoredUrl`: activity, cadence, timestamps, streak | list due, back off, stop, enqueue, edit, resume | monitoring queue, scans | `MonitoringSchedule` |
| Host spacing | none (derived), delayed jobs | `planHostDelays` | scheduler, queue | `ScanQueue` |
| Digest interpretation | one `DigestAiInterpretation` slot per organization and period | create, reset, run, complete, fail | digest queue, provider | `DigestSlot`, `AnswerSlot` |
| Capability check by AI | `CapabilityAiRun` rows | create, run page by page, mark | capability queue, provider | `CapabilityRun` |
| Raising alerts | `AlertEvent`, `AlertSignal` | raise, merge, upgrade, acknowledge, dismiss | signals; after every scan with a change | `AlertRaise` |
| Daily reports | `Report`, `ReportItem`, `NotificationLog` | find or create the period, generate, reserve and send | report queue, mail provider | `DailyReport` |
| Entity history and signals | `Entity`, `EntityVersion`, `Signal`, `SignalEvidence` | fold a scan in, promote | inside the scan's transaction | `PageHistory` |
| Capability observations | `CapabilityObservation`, packs, own capabilities | fold a scan in, count misses, edit, store inferences | scans, the AI check | `CapabilityHistory` |
| Market patterns | `MarketPattern` and evidence | refresh, confirm, resolve | signals | `MarketPatterns` |
| Sessions | `UserSession`, cookies | create, check and touch, revoke | every route, proxy, layout | `SignIn` |
| Rate limits and quotas | Redis counters; counted rows | hit, peek, reset; count then create | login, create routes | `SignIn`, `Catalogue` |
| Source health | none (derived) | `deriveSourceHealth` and its queries | dashboard | `SourceHealth` |
| Importance configuration | weights, alert rules | score, rank, decide | signals, alerts | `SignalRanking`, `AlertRaise` |
| Read-only analytics | none | digest, comparison, trends | change events | `Intelligence` |
| Competitors, organizations, connections | `Competitor`, `MonitoredUrl`, `AiConnection` | create, switch, delete, list, pick | scans, settings pages, worker | `Catalogue`, `Connections` |
| Mail account | `SmtpSettings`, environment | save, test, remove, choose | settings page, worker | `MailAccount` |
| Extraction | none (pure) | cards, JSON-LD and badges to entities and keys | inside a scan | `Extraction` |
| AI providers and validation | none | bundle, call, retry once, accept | digest, analysis, page check | `AiAnswers` |
| Network and credential security | robots cache | rules, redirects, bounded bodies | inside a scan | `PageFetch` |
| Web pages and components | component state, timers | start a job and poll it, edit settings, redirect | routes | `PollingPanel` and the modules of the pages |

`PROJECT.json` says per component what is modelled and what is left out.

### What is hard here

* **Delivery at least once.** BullMQ retries a scan three times, redelivers a job
  whose lock expired while its first run goes on, and loses nothing silently
  except a lost `add`. Scans of one URL overlap: manual against scheduled, two
  buckets of a backlog, a redelivered job against its own first run.
* **Read, then act.** Almost every operation reads rows, awaits something slow (a
  page fetch, a provider, an SMTP server) and writes; unique keys and
  `updateMany ... where status in (...)` are the only guards.
* **Crashes** between a paid call or a sent email and the row that records it.
* **Repair races**: the 'failed' handler and the sweep end a row whose run is
  slow, not dead.
* **Something must happen eventually**: rows must not stay PENDING or RUNNING, an
  alert must go out, a source that works must be scanned again.
* **Limits**: hourly caps, attempts, batches, quotas, redirects, lists of at most
  100, backoff with floor and cap.
* **Late answers in the browser**: polls and settings requests are answered in
  any order.

### What makes each component correct

* Scans: a snapshot is compared with an earlier verified one only; validators and
  failure streak belong to what was committed last, which is the newest snapshot when
  scans do not overlap; one outcome per job row; every row settles.
* Analyses, digests, capability checks: what is finished and paid for is neither
  rewritten nor paid for again, unless a run lost its lock and went on; rows that are
  swept settle.
* Alerts: one alert per episode, at the highest level of its signals, counting
  them; emailed once per level, never more than the cap per hour, nothing is
  recorded as sent that was not, every waiting alert goes out.
* Reports: one email per day, more only after a fault; a COMPLETED report counts
  the items it holds.
* Scheduling: never silent about a source that works, in the end silent about one
  that does not; a customer's pause and the system's stop stay apart; scans of one
  site keep their distance.
* History: items, capabilities, patterns and signals end in what was read and
  measured, nothing is said to have come or gone that did not, and a signal's rank
  rises only for a reason.
* Accounts: guesses are bounded by the allowance and the requests under way, an ended session stays ended, redirects end.
* Pages: what is shown is what is stored, once the requests have been answered.

## 2. Plan

| Order | Module | Abstract specification | Model-checked | Proved |
|---|---|---|---|---|
| 1 | `MonitoringScan` | `ScanLedger` | yes | typing, four invariants, refinement |
| 2 | `AiAnalysis` | `AnalysisRow` | yes | typing, refinement, paid once |
| 3 | `AlertDelivery` | | yes | typing and all of its safety properties |
| 4 | `MonitoringSchedule` | | yes | typing, `StoppedIsInactive`, `PauseIsNotAStop` |
| 5 | `DigestSlot` | `AnswerSlot` | yes | typing, refinement, `DigestPaidOnce` |
| 6 | `CapabilityRun` | | yes | typing, `ReadTextIsNotPaidAgain`, `FinishedRunStays` |
| 7 | `DailyReport` | | yes | typing, `ReportsAgree`, `CompletedStays` |
| 8 | `PollingPanel` | | yes | `BusyPanelAsks` |
| 9 | `Catalogue` | | yes | typing, `HistoryIsKept`, `QuotasAndListsHold` |
| 10 | `SignIn` | | yes | typing, `SignInHolds` |
| 11 | `AlertRaise` | | yes | typing, `AlertsStandForTheirSignals` |
| 12 | `PageFetch` | | yes | `FetchTypeOK`, `FetchIsPolite` |
| 13 | `PageHistory` | | yes | typing, `HistoryTellsWhatWasRead` |
| 14 | `CapabilityHistory` | | yes | typing, `ObservationsAreEarned` |
| 15 | `MarketPatterns` | | yes | typing, `PatternsFollowTheMarket` |
| 16 | `ScanQueue` | | yes | typing, `ScansAreSpaced` |
| 17 | `Connections`, `MailAccount` | | yes | typing, `ListsSettle`, `MailIsTruthful` |
| 18 | `AiAnswers` | | yes | typing, `AnswersAreSupported` |
| 19 | `Intelligence` | | yes | typing, `PagesAgreeWithTheirEvents` |
| 20 | `SignalRanking` | | yes | typing, `RankingIsJustified` |
| 21 | `SourceHealth` | | yes | typing, `HealthTellsWhatWasSeen` |
| 22 | `Extraction`, `TextDiff` | | yes | what a fold or a search computes is left to TLC, see section 6 |
| 23 | `MCJobs`, `MCPages` | | yes | `JobsTypeOK`, `PagesTypeOK` but for the texts, `ListsHold`, `ShownIsSupported` |

What is left: the liveness properties and `DiffTellsTheEdit` and
`PagesAreReadSteadily`, which stay with TLC for the reasons section 6 gives, and the
parts section 7 lists.

Each module is parameterised by CONSTANTS with a named assumption and has one
action per operation or per database call. An `MC...` module instantiates it.
Proofs are in `...Proofs` modules.

## 3. Modules

### MonitoringScan, ScanLedger

One monitored URL. A page's text, hash and entities are one value of `Contents`,
which is also its validator; `Vantages` stand for extractor version plus market
locale, which decide whether two scans are comparable. `Blank`, `Suspect` and
`Replaced` are the contents, or pairs of them, that `compareSnapshots` does not
trust, suspects or takes as a new baseline.

* `jobs`, `snapshots`, `usage`, `validators`, `failures` are the rows and columns
  the code writes; `task` is BullMQ's record of a job (state, attempts, stalls and
  the lock's owner); `worker` is the local state of a run of `runMonitoringJob`;
  `handlers` the asynchronous 'failed' handlers.
* A run is `Take` (reads the URL row and its validators), `Begin`, `ReadPrior`,
  `Fetch`, then `PersistNotModified`, one transaction, or `OpenResult` and
  `CommitResult`: `persistMonitoringResult` is an interactive READ COMMITTED
  transaction that creates the snapshot first, with the time as its `fetchedAt`, and
  writes the row of the URL last, which stays locked until the commit. `snapshots` holds
  committed rows in the order of their commits, each with its fetch time `at`; what
  the code calls the latest snapshot is the one with the latest `at`, and overlapping
  transactions may commit in another order. A transaction that is open is seen by
  nobody and rolled back when its run throws or dies. `Throw` leaves at any point;
  `Ack` and `Nack` report to BullMQ, which ignores a slot that lost its lock. `Stall` lets a lock expire with the run still
  alive, `Crash` kills a run. `HandlerRead`, `HandlerMark`, `HandlerLost` are the
  'failed' handler, `Sweep` is `sweepStuckJobs` with the time abstracted: it may
  end any row that is PENDING or RUNNING.
* `ScanLedger` is what readers of the history rely on: snapshots are only ever
  added, a change is a difference from an earlier verified snapshot of the same
  vantage, validators come from the snapshot committed last, the streak counts recorded
  failures. `MonitoringScan` refines it with the identity on the three variables.

| Run | Instance | Shows |
|---|---|---|
| `MCScanOverlap` | 3 scheduled jobs, 2 slots, 2 vantages, 2 edits, in two lanes (section 4); 2.9 million states | `ImplementsLedger`; `ValidatorsMatchLatest` and `StreakIsRecorded`: for any overlap validators and streak are those of the last commits, without overlap those of the newest snapshots by `fetchedAt`; without overlap also `ReportedOnceWhenSerial` (every comparable difference is reported exactly once) and `NotModifiedAnswersLatest` |
| `MCScanRedelivery` | 1 manual and 1 scheduled job, 3 attempts, 1 stall, 2 slots, 2 vantages | `OutcomeRecordedOnce` under retries, redelivery, handlers and sweep; `RowsSettle` with a sweep that keeps running |
| `MCScanDuplicate` | 2 scheduled jobs, 2 slots, 1 stall | *violated*: `ChangeShownOnce`, a redelivered job records the same change twice |

What `ValidatorsMatchLatest` and `StreakIsRecorded` say of `fetchedAt`, and
`NotModifiedAnswersLatest`, are statements about scans that do not overlap. With two
slots a scan that opened its transaction first may commit last: the validators on the
row are then those of a snapshot that is not the newest, and a streak of failures may
stand although the newest snapshot is a success. A 304 may also be recorded after
another scan has made the newest snapshot an unverified one, because
`persistNotModifiedResult` checks nothing. The comment at `monitoringPipeline.ts:198`
("a 304 must never be answered for a page whose latest snapshot is not the verified
one the validators came from") therefore holds of serial scans only, and the ledger's
`Confirm` promises no more than the streak's reset.

### AiAnalysis, AnalysisRow, JobQueue

The analysis of one change event: `Requests` clicks, each `Find`, `Create`,
`Lookup`, `Remove`, `Add` (the three Redis calls of `addJobReplacingTerminal`) or
`EnqueueFails` and `MarkOrphan`; runs of `runAiAnalysisJob` (`Take`, `Read`,
`Refuse` when no provider can be resolved, `MarkRunning`, `Call` with at most one
retry, `Store`, `Throw`), BullMQ with a single attempt and stalls, the 'failed'
handler and the sweep. `LocksHold` says whether a lock may expire under a live run.
`AnalysisRow` promises that the row moves forward only and that a terminal row and
its result are never rewritten. `JobQueue` is BullMQ's record of a job (a lock
owned by a slot, a bounded number of stalls), shared by the modules of the queues.

| Run | Instance | Shows |
|---|---|---|
| `MCAiStragglers` | 2 clicks, 2 slots, locks may expire | `ImplementsRow`, and `RowSettles` with a sweep that keeps running |
| `MCJobs`, lane "analysis" | 2 clicks, 2 slots, locks hold | `NoCallForCompleted`: no paid call once there is a result |

With `LocksHold = FALSE` `NoCallForCompleted` does not hold: a run that read the row
before a redelivered run completed it calls the provider afterwards.

### AlertDelivery

One organization and recipient. `alert` and `later` are the `AlertEvent` rows
(level, status, order by `lastRaisedAt`); `deliveries` the `AlertDelivery` rows with
an age while PENDING; `emails` the distinct `sentAt` of the last hour, which is what
`getAlertEmailActivity` reads; `run` the calls of `deliverAlertEmails`; `received` a
history variable, the emails that really arrived. A run is `List`, `Read` (both
reads and `planAlertEmail`), `Count` and `Create` for each planned alert, `Send`,
`MarkSent` or `MarkFailed`. `Send` chooses whether the email arrives and whether the
provider says so, except that an accepted email arrives. `Crash` ends a run
anywhere; `MarkSentThrows` is the database refusing the mark.

Levels are ranks. Repeats renew an alert's place in the list and may raise it;
reopening does not exist (the schema of the PATCH route allows only ACKNOWLEDGED
and DISMISSED). `Tick` does not fall between `now` and the two queries that follow
it; it may fall anywhere else.

| Run | Instance | Shows |
|---|---|---|
| `MCAlertSerial` | 1 alert, levels 2 to 4, 1 run, 2 faults | `OncePerLevel`, `NonUrgentSpaced`, `AlertsGoOut` |
| `MCAlertOverlap` | 2 alerts in one email, 2 runs | `CapWithOverlap` (each run under way may add one email the others did not count), `SentWasReceived`, `RowsAreOwned` |
| `MCAlertRaced` | 1 alert, 2 runs | *violated*: `RacedRunIsLeftOut`, two racing runs both email an alert |

`AlertsGoOut` is checked while no more alerts are open than a run lists (100 in the
code). Beyond that it fails: an alert that waits for the cap falls off the list.

### MonitoringSchedule

One URL over time, counted in scheduler intervals; timestamps are ages that
saturate at `MaxAge` (`Never` for null). `Interval` lets time pass and starts a pass
unless one is running (`guardOverlap`); `Find` and `Stop` are the two queries of
`disableUnreachableSources`, `ListDue` and `AddJob` the enqueueing; `PassThrows`
fails a stage. `Start` and `Persist` are a scan reduced to what it leaves on the row
(`MonitoringScan` has the rest), `ScanThrows` one that fails its last attempt by
throwing. `Edit` and `ScanNow` are the customer. A page that
can be fetched counts as a success whether or not it can be verified, as in
`persistMonitoringResult`. The constants of the backoff are scaled (one interval is
15 minutes); host delays are in `ScanQueue`, the competitor's own switch in
`SourceHealth`, deletion in `Catalogue`.

| Run | Instance | Shows |
|---|---|---|
| `MCScheduleLive` | 2 concurrent scans, 2 cadences, 2 edits, 1 fault | `PauseIsNotAStop`, `KeepsWatching`, `FailingIsStopped` |

Nothing is promised about the moment a scheduled scan starts: whether a URL is due is
asked when it is enqueued, so a scan that waits longer than an interval runs right
after another one. `Interval` does not wait for the scans, and the liveness
properties hold with such a backlog.

### The other queues: run MCJobs

`MCJobs` holds the modules of the queues beside the scans, which share no state; a
behaviour is one of one module (its "lane"), the others stand still.

| Module, lane | Models | Checked |
|---|---|---|
| `DigestSlot`, "digest" | The row of one organization and period. A request creates it, resets it or finds it busy, then makes the Redis calls of `enqueueJob.ts`; runs call the provider and store; the 'failed' handler and the sweep close it. Unlike an analysis the row is used again, so late runs of an earlier use meet a later one: `DigestStall` takes the lock of any run, also during its call, and the run goes on, may store its answer in the row a refresh has reset, and is remembered in `dLost`. `AnswerSlot`: opened on request only, an open slot is answered or failed once, an answer stays until the next request, no answer is shown twice, and none is followed by that of an earlier run unless that run had lost its job. | `ImplementsSlot`; `DigestPaidOnce` (in `NothingIsPaidTwice`) |
| `CapabilityRun`, "capability" | Clicks that find no recent run create one with a job of its own; a run selects a batch of pages, pays one call for each and records what it read; handlers and runs mark without asking for the status; runs are not swept. `CheckStall` takes the job of any run: the run goes on, its marks meet those of the next delivery and of the 'failed' handler, and it is remembered in `cLate`. The run has one slot, as one worker process has; the proof of `FinishedRunStays` covers any number. | `ReadTextIsNotPaidAgain` (in `NothingIsPaidTwice`), `FinishedRunStays` (in `FinishedStays`) |
| `DailyReport`, "report" | The hourly tick enqueues the job of the day; `runReportJob` finds or creates the period, lists the changes, writes items, finalizes, reserves a `NotificationLog` row, sends and marks; three tries, stalls of live runs, crashes, lost replies, the 'failed' handler. | `ReportsAgree` (one email and one more per fault at most; the count is that of the items), `CompletedStays` (in `FinishedStays`) |
| `PollingPanel`, "panel" | The components that start a job and poll it: loaded with the row in any state (of the AI panels only that of the capability check then polls), a click, a timer, polls that are answered in any order or not at all, the limit on their time, and a digest page that is rendered again. `asked` tells whether what is shown is followed. | `BusyPanelAsks` |
| `ScanQueue`, "scans" | Several URLs between the scheduler's pass, the delays of `planHostDelays`, the queue with its few slots, slow passes, restarts and scans by hand. A scan is recorded (`RecordOnRow`) before its job is acknowledged (`EndScan`); in between, or before, the job may be lost and delivered again (`ScanThrows`, `ScanLost`), and a worker that lost it may record its scan all the same (`StrayRecords`). | `ScansAreSpaced` |
| `AiAnalysis`, "analysis" | see above | `NoCallForCompleted` |

The run has 2.5 million distinct states. `JobsTypeOK` is the type invariant of the
lane's module. `MCReportDay` runs
`DailyReport` alone and finds `CoversItsDay` *violated*: the report of a day is
generated at the first hourly tick of that day and never again.

### Pages, accounts and what is kept about them: run MCPages

| Module, lanes | Models | Checked |
|---|---|---|
| `PageFetch`, "robots", "hops" | A reading: the site's rules through `RobotsChecker` and its cache (which concurrent scans fill one after the other), the request with its redirects, the body read in chunks, what the extractor makes of it. | `FetchIsPolite` |
| `Extraction`, "cards", "grid", "json-ld" | From blocks of a page (names, prices), JSON-LD nodes and badges to entities and their keys; the site edits its page between captures. | `PagesAreReadSteadily`; `MCKeysSwap` finds `KeysKeepTheirPrice` *violated* |
| `TextDiff`, "texts" | `diffText`: common ends, a bounded edit search, hunks and their merging, against the edit distance. | `DiffTellsTheEdit` |
| `PageHistory`, "jumps", "flips" | Serial scans of a page: the verdict of `compareSnapshots`, the events it draws, items and versions, promotion to signals with the reversal rule. | `HistoryTellsWhatWasRead` |
| `CapabilityHistory`, "packs", "own" | Observations of a page: scans, misses, baselines, waves, packs, own capabilities (a read and a write), the transaction of the AI check. | `ObservationsAreEarned` |
| `AlertRaise`, "one raise", "two raises" | Promotion, the rules and their replacement, `raiseAlerts` from its list to the read and the write for each signal, overlapping and abandoned raises, dismissal and acknowledgement. | `AlertsStandForTheirSignals` |
| `MarketPatterns`, "one refresh", "two refreshes" | `refreshMarketPatterns` query by query, overlapping and crashing. | `PatternsFollowTheMarket` |
| `SignalRanking`, "ranking" | The score and tier of signals as time passes, versions accumulate and others move. A second change of a page's text on one UTC day joins that day's signal and moves its time forward (`SameDayText`, `Finds`), as `promoteSignals` does. | `RankingIsJustified`: of two like changes of a page the newer is never ranked below the older, none is told of more earlier changes than it had, and a score rises only when another competitor does the same, a repeat lapses or the text changes again that day |
| `Intelligence`, "digest" | The digest and the comparison of competitors, several queries each, while scans commit and URLs are deleted. | `ShownIsSupported` (part) |
| `AiAnswers`, "models" | The evidence bundle and its three limits, the call and its single retry, what is accepted of an answer, the test of a connection. | `ShownIsSupported` (part) |
| `SourceHealth`, "one source", "sources" | `deriveSourceHealth` and the queries that feed it, over a source's life. | `HealthTellsWhatWasSeen` |
| `Catalogue`, "writes", "list" | Requests that create, pause and delete competitors and URLs with quotas counted before the row exists, conditional deletes, scans that store history, the list in three queries. | `HistoryIsKept`; `ListsHold` (part) |
| `Connections`, "connections" | Two settings pages with requests that overlap, are late or lost; the worker's choice. | `ListsHold` (part) |
| `MailAccount`, "operator", "mail", "mails" | The SMTP account and the page that saves, tests and removes it, beside the operator's settings. | `ListsHold` (part) |
| `SignIn`, "throttle", "sessions" | Login and its counters on a Redis that fails: `Checks` are the sign-in requests under way, of one or several addresses, which look at the counters first, check the password and count a failure last; the check and touch of a session, revocation, the redirects of the proxy and the layout. | `SignInHolds`; the wrong guesses of a window exceed the allowance by at most the requests under way besides one (`GuessesAreBounded`) |

The run has 780 thousand distinct states. `PagesTypeOK` is the type invariant of the
lane's module.

Several properties name what they except, because the code does it: an alert
written from an outdated read (`stale`), a pattern two refreshes created at once
(`doubled`), a capability whose row moved without an event, an answer that was
overtaken, a lock that was lost under a run that goes on, a panel that shows a busy
row it was only rendered with. These exceptions are history variables that only
the steps in question set, so everything else is covered.

## 4. Bounds

* Two slots and two or three jobs are the least that overlap, follow each other and
  leave a third party in between; a third scan matters (a 304 or a failure between
  two successful ones) and is included. The proofs remove these bounds for
  what they cover.
* `MaxEdits`, `MaxFaults`, `MaxStalls`, `MaxUpsets`, `MaxPending`, `MaxUpserts` and
  `MaxTests` bound how often the environment acts; `MaxAttempts = 3` and
  `MaxStalls = 1` are the code's own limits in `MCScanRedelivery`.
* Time in `AlertDelivery` runs over a window of `Hour` ticks only, so the state space
  is finite without a bound on time; caps and attempts are scaled to 1 or 2, which
  keeps "at the limit" reachable within a few steps. `ScanQueue` runs to a `Horizon`,
  `SignIn` to `MaxHours`, `PageFetch` to `MaxClock`, the histories to a few days.
* Ages in `MonitoringSchedule` saturate above every threshold that is compared, and
  the streak saturates above `MinFailures` and the backoff's largest exponent.
* Limits of the code (items of a bundle, words of an edit, pages of a batch,
  snapshots a query reads, cache entries) are scaled to 1 to 5 so that TLC goes over
  them.
* Lanes keep each instance small. `MCScanOverlap`: "serial" runs one scan at a time
  with two vantages and two edits, "overlap" all slots, whose transactions open and
  commit in any order, with one edit and one vantage.
  `RedeliveryNext` lets the scheduled job and the change of vantage follow the click
  only. In `MCJobs` requests come in the order of their names, only the first page's
  text changes, only the first click's add or handler fails and only it ages before
  the second, a digest has three runs of which one loses its lock, the third request
  comes when the first two are done, only the first
  day's job is enqueued, and only the first URL fails, is retried or is scanned by hand
  (one restart, throw, loss or scan by hand). In
  `MCPages` each lane fixes the half of the
  environment that its question does not need (a sign-in without guesses, rules
  without redirects, writes without the list); the comments beside the lanes say
  which. Signing in, "throttle": two requests at once, one while Redis is away, three
  units of time with a window of two, and one success whose session is not used;
  "sessions": one request at a time, no guesses. In "ranking" a day is three units and
  repeats count for three, so that in five units a day ends, repeats lapse and a text
  change joins another; every exception of `RisesAreExplained` is needed by some
  behaviour.
* Jobs and slots, or alerts and runs, are interchangeable; symmetry is used in
  `MCScanOverlap`, `MCAlertOverlap` and `MCScanDuplicate`, never in a run with
  fairness.
* Deadlock is not checked: a bounded environment may run out of things to do, and a
  system at rest is a legal state of the code.

## 5. Fairness

* `MonitoringScan` (`FairSpec`, `RedeliverySpec`), `AiAnalysis`: weak fairness of the
  sweep only. The scheduler process ticks every 15 minutes; nothing is assumed of
  workers, queues or handlers.
* `AlertDelivery`: weak fairness of every run (the scheduler calls
  `deliverAlertEmails` at each tick, the code awaits its own queries) and strong
  fairness of the clock, which the model holds back for the moment between `now`
  and the two queries after it.
* `MonitoringSchedule`: weak fairness of the interval timer, of the pass and of the
  worker that drains its queue. Nothing is assumed of the site or the customer.

No other module states fairness: their properties are safety properties.

## 6. Proofs

All theorems hold for any finite number of jobs, slots, pages, alerts and so on and
any limits; the only assumptions are the named `...Constants` of the modules (and `LaneValues` of `MCPages`) and what
a theorem's statement says.

**`MonitoringScanProofs`**: `TypeCorrect`, `PriorCorrect`, `ValidatorsCorrect`,
`StreakCorrect`, `OutcomeCorrect`, `LedgerImplemented`, `SerialCorrect`,
`ConfirmsCorrect`. `TypeOK` is not inductive:
that `task.runs` stays within the rows a scheduled job can have needs `TaskInv` (a job
that can still run has an attempt left, and its runs are covered by its failures and
stalls), and that a persisted snapshot has a content and a vantage needs `RunInv`
(what each program counter has established). The conjunction is the inductive
`TypeInv`; each further invariant is then preserved on its own, with the persisting
step as the interesting case. The refinement goes step by step: committing a result is
the ledger's `Record` (admissible because of `PriorIsVerified` and
`OutcomeRecordedOnce`), a 304 is `Confirm`, every other action stutters.
`ValidatorsCorrect`, `StreakCorrect`, `SerialCorrect` and `ConfirmsCorrect` are about
`LaneSpec`, the lanes of `MCScanOverlap`. What the first two say of the order of commits
(`ValidatorsFromLastCommit`, `StreakFromLastCommits`) is proved for any overlap, as
invariants of `Spec`; in the lane without overlap the order of commits is that of
`fetchedAt`, because nobody else commits while a transaction is open (`InOrder`). In the lane without overlap the only busy run knows the latest
verified snapshot, and the validators it sent are those of the newest one
(`RunKnows`), and each snapshot follows the latest verified one before it
(`FollowsLatest`); a verdict, once given, stands whatever is appended (`Judged`).
Together they are `LaneInv`.

**`AiAnalysisProofs`**: `TypeCorrect`, `RowImplemented` and, under the assumption that
live runs keep their locks, `PaidOnce`. The lock names the only live run, and the row
cannot become COMPLETED between that run's check and its calls, because nobody else
stores a result.

**`AlertDeliveryProofs`**: `TypeCorrect`, `OwnedByOne`, `SentCorrect`, `CapCorrect`,
`OnceWhenAlone`, `SpacedWhenAlone`.

* Ownership is inductive together with the table's unique key (`RowUnique`) and with
  what a run has established (`RunOK`): whoever held a row had created a delivery for
  it, so a row that is created anew is nobody else's. For `SentCorrect` the counted
  rows are strengthened to `Mailed`, those that are SENT or whose run has sent and not
  marked yet: only `Send` adds to them, one row per alert, and to `received` as well.
* `CapCorrect`: a run that starts counts the emails, not the runs that have started
  before it and may each still add one. The emails of the hour and the started runs
  together stay below the cap plus the number of runs (`CapInv`).
* `OnceWhenAlone` and `SpacedWhenAlone` assume `[]Alone`, one run at a time, which is
  what one scheduler process provides. Every email that arrived has a row whose run
  is no longer to send (`AttemptedInv`), rows are numbered without a gap, so that the
  one about to be created is nobody's (`AttemptInv`), and nothing a run deals with has
  been SENT (`FirstInv`). The gap is kept because `sentAt` is the time a run started,
  no email is newer than that, and the plan measured the gap from the newest
  (`SpaceInv`).

**`MonitoringScheduleProofs`**: `TypeCorrect` (saturating ages and streak),
`StopCorrect`, `PauseKept`.

**`JobsProofs`**:

* `DigestTypeCorrect`, `DigestPaidCorrect`, `SlotImplemented`: a live run has lost its
  lock or is the latest and holds it, and no two slots have the same run
  (`HolderIsLatest`); a run that may still store an answer has shown none
  (`NotYetShown`); and one that holds its lock and may still pay works on a row without
  an answer, or with that of a run that had lost its own (`DigestStillOpen`). A
  request's reset opens the slot, and a late handler or sweep only closes one that is
  open.
* `PanelCorrect`: a timer runs only under a busy view (`TimerIsBusy`), and the answers
  under way are ordered: behind a finished one there are finished ones only
  (`PollsInOrder`), both unless an answer was overtaken. A panel that stopped asking is
  told nothing that makes it busy; one that was loaded or rendered anew with a busy row
  and never clicked is excepted (`asked`).
* `ReportTypeCorrect`, `ReportsAgreeCorrect`: a potential argument. The emails that
  left and the runs without the lock that may still send (`Strays`) are no more than
  the faults, plus one once the lock's holder has sent or the job is completed
  (`EmailsCounted`, with `LocksAndDays` for who holds the lock). A run that finalizes
  lists changes of its own day only (`ItemsOfTheDay`) and, while no lock was lost, is
  alone with its report.
* `CapabilityTypeCorrect`, `FinishedCorrect`, `NothingPaidTwiceCorrect`: a live run holds
  the lock of its check or had lost it (`HoldsItsCheck`), what may still be
  marked is open unless the run is `Spoilt`, by a POST whose add failed or a slot that
  went on without its job (`CheckInOrder`), and no page left in a run's batch has been read as the
  run saw it (`BatchesUnread`). `FinishedCorrect` covers completed reports as well. That
  no text is paid for twice assumes `OneCheckSlot`, one worker process with the queue's
  concurrency of 1: with two slots two clicks do read the same page.
* `QueueTypeCorrect`, `SpacingCorrect`: ids of scans are told apart by where they come
  from (`QueueShape`). A job that a pass added is the only one of its URL, which is
  due, unless it is marked late, and so is what a pass has yet to add, unless it was
  behind; late is also what is delivered again after it was recorded, and what waits
  when a worker without its job records (`DueInv`). The delays a pass hands out on a site come apart, whatever of
  them has been started (`SpacedInv`), and without a restart a pass starts at least
  one tick after the one before it (`TickInv`). Assumed is that the URLs are finitely
  many.
* `JobsTypeCorrect` is about the composition `MCJobs`: a behaviour of it is one of each
  queue (`LanesAreTheirOwn`).

**`PagesProofs`**:

* `SignInCorrect`: the wrong guesses of a window, with the requests let in and not
  checked yet, stay within the allowance and the requests besides one (`GuessesInOrder`):
  whoever is let in finds less than the allowance counted; a session's stored last use trails
  the real one by no more than the touch interval (`SessionInOrder`); a browser whose
  session still lives is not sent to the login page, and each of the other pages it is
  sent to is nearer to the end (`BrowserInOrder`).
* `RaiseTypeCorrect`, `AlertsCorrect`: `InHand` says what a raise holds between its
  read and its write: signals that exist, and an alert of the signal's page and kind
  that was open and within the cooldown when it was read. A write from an up-to-date
  read joins the latest joinable alert, and a new one opens only where nothing can be
  joined; an outdated one makes the key `stale`. Hence `CountsItsSignals`,
  `LevelIsHighest`, and `EpisodesApart`, from which `RepeatsJoin` follows.
* `CacheCorrect`, `FetchCorrect`: requests made plus redirects left stay within the
  limit (`WithinBounds`); a cache entry that allows a site stands for an answer of it no
  older than the time it is kept, and two scans that store the rules of one site leave one
  entry.

* `CatalogueTypeCorrect`, `HistoryCorrect`, `QuotasAndListsCorrect`: the quota's bound
  counts the rows together with the requests that have counted and not created yet
  (`Reserved`). The list: a latest row is of a competitor with a URL in the second
  query (`ListInv`).
* `ConnectionsTypeCorrect`, `SettleCorrect`: what a page shows, asks about or was told
  the deletion of has been created, and a create that is under way is the only request
  of its page for its id (`IdsAreKnown`). A page that nobody disturbed has one request
  on its way, whose answer makes its list what is stored (`Calm`).
* `MailTypeCorrect`, `MailCorrect`: such a page of the mail account was given the stored
  account or has an answer on its way after which it reads it again, and what a test
  found is of the stored account (`Tells`).

**`HistoryProofs`**, what scans leave behind over time and what is made of it:

* `HistoryIsTold`: an item that has a row was read at some time, and one that the latest
  reading does not list was told gone (`SeenOrTold`). With types, the agreement of the
  rows with the latest reading and the rule of reversals this is inductive; the action
  properties follow from it.
* `CapabilitiesAreEarned`: the misses a row counts are covered by the scans without the
  capability since it was last heard of, and the last event told of it agrees with its
  state; the same is kept of the rows that an AI check or an edit has read and not
  written yet (`ObservationInv`).
* `PatternsAreKept`: what a refresh that ran alone has read is what the market showed,
  and what it has left to write and to resolve is what the rows lack of it
  (`PatternInv`). Assumed is that the rivals are finitely many.
* `AnswersCorrect`: what a call has heard allows at most one retry (`ConsultTyped`), and
  the items sent are the newest within the three limits (`BundleGiven`), by lemmas on
  the ranks of a finite order (`OrderOn`, `FirstOnes`, `RanksGrow`). The assumption says
  that `"unasked"` is none of the asked keys.
* `PagesShownCorrect`: an event belongs to a page that is still watched
  (`EventsAtHome`); what a request has read stands on events that are there or were
  deleted since (`HoldsEvents`); and where nothing was committed since it began, what it
  has read is what there is now (`QuietHolds`, `HalfCompared`).
* `RankingCorrect`: no two signals have the same time, only a text change moves past
  later ones, and a page has one of a day (`RankingInv`). Two like signals share every
  factor but age and repeats, and the newer is one of the older one's repeats
  (`RepeatsOfNewer`, `NewerRanks`). That a score rises only for the three reasons is
  arithmetic: every factor that changes without them shrinks (`StillWithin`,
  `FactorsBound`), and the weighted sum grows with its factors (`WeighedGrows`).
* `HealthCorrect`: a source's row tells when its page was last fetched, whether it was
  tried since it was resumed and whether the last try failed (`RowTells`). The rows a
  query reads are the newest of a set (`NewestAreLast`, `LastAreNewest`), all of them
  where there are no more. Assumed is that the sources are finitely many.

**`MCPagesProofs`**: `ListsHoldCorrect`, `ShownCorrect`, `PagesTypeCorrect`,
`PagesCorrect`. A behaviour of the composition `MCPages` is one of each component
(`PagesAreTheirOwn`; the lane of the models asks and answers less than `AiAnswers`
does, and keeps its invariant, `ModelsHold`), so what is proved of a component holds of
the specification that `MCPages` runs. The assumption `LaneValues` says that the
constants hold the values which the lanes name.

Only model-checked, and why:

* Liveness: `RowsSettle`, `RowSettles`, `AlertsGoOut`, `KeepsWatching`,
  `FailingIsStopped` rest on fairness, which the prover does not treat.
* `DiffTellsTheEdit` and `PagesAreReadSteadily` speak of folds over a text or over the
  blocks of a page, and of an edit distance: what they compute for every input needs
  induction over data. For the same reason `PagesTypeCorrect` leaves out the lane of
  texts.

## 7. Not modelled

Parsing of HTML and of money in running text, the decision whether a page can be
verified, prompts and the patterns of the validators, prices of models, address checks
and cryptography, rendering, single-query analytics, the creation of organizations and
users, the backfill of entity history (a forced one that crashes leaves half a
history), changes of a report's timezone and recipients, versions of an edited
importance configuration, rate limits of routes other than login (the same helper).
Their results are inputs of the models where a model needs them.

Of components that are modelled: a digest panel that stays mounted while another
period is chosen, and a click of a second person while a panel is open; a second
interval that an overtaken re-render forgets to clear; and, in `ScanQueue`, a fetch
that is never recorded, which a site sees but the due rule does not. Two scans that
open their transactions within one millisecond have the same `fetchedAt`; the model
gives them different ones.

## 8. What the code does that its texts do not say

Four runs check a sentence of the repository that the code does not keep; each is
expected to be violated and quoted in `PROJECT.json` under `findings`:
`MCScanDuplicate` (`pipeline.ts`, the same change twice after a redelivery),
`MCAlertRaced` (`alertDelivery.ts`, a raced run emails too), `MCReportDay`
(`reportPipeline.ts`, a day's report stops at its first hour) and `MCKeysSwap`
(`pricingPlans.ts`, one plan in two currencies changes keys).

Smaller behaviour met while modelling, which the properties leave room for:

* Scheduling. The second query of `disableUnreachableSources` stops a source that
  recovered between the two (`monitoredUrls.ts:156`, `:176`). More than twenty URLs of
  one host share the last delay, and after a slow pass or a restart a delayed job
  outlives the next tick (`hostSpacing.ts:49`). A scan that throws leaves no failure
  on the URL.
* Scans. Overlapping transactions may leave the validators or the streak of a snapshot
  that is not the newest (section 3), until the next scan that is recorded.
* Panels. The AI panels of a change and of a digest that are loaded while their row is
  busy say so, do not poll and offer no button (`AiAnalysisPanel.tsx:54`,
  `DigestAiInterpretationPanel.tsx:78`); the page must be loaded again.
* Signing in. Requests under way at once pass the same look at the counters
  (`login/route.ts:33`), so a window sees a few more guesses than it allows.
* Analyses. A retried FAILED analysis pays for an answer that is dropped
  (`analysis/route.ts:84`). A capability run's marks ask for no status. The
  openai-compatible adapter reads the body before the status, so a 5xx without JSON is
  permanent; `OpenAiProvider` clears its timeout after the headers. The total cap of a
  digest's input may drop pattern items its doc keeps "unconditionally", and may cut
  lines whose ids an answer may still cite; a quote's length is measured before it is
  normalised.
* Alerts. Overlapping raises may lower a level; a raise that found an alert may join it
  after another began a later one; overlapping refreshes leave two active patterns.
* Reports. One whose worker dies for good stays GENERATING.
* Comparisons. A share of exactly two thirds is rounded to 0.67 and counts as at the
  baseline (`patterns.ts:292`); a digest's counts differ from its list when a scan
  commits between the queries (`intelligence.ts:645`); counts of earlier changes
  overwrite each other (`importance.ts:112`).
* Extraction. A promotion with a percentage and a code is dropped whole when JSON-LD
  tells the percentage (`htmlPromotions.ts:322`); with at most two prices a nameless
  card's price goes to another card's name; a name with two periods and three prices
  shifts its keys; context words of a hunk may skip over another's (`textDiff.ts:85`).
* Health. A resumed source that fails with a recent success shows HEALTHY, a resumed
  one without a success, or one never attempted, PENDING; a busy URL crowds another's
  snapshots out, so that PARTIAL shows as HEALTHY, and fetch failures may make PARTIAL.
* Capabilities. Misses are not in a row when their pack was off in between.
* Settings. The form's `removePassword` is not reset after a removal, a stale form
  keeps another administrator's password with the old host, and a test's result stays
  after the key was edited (`AiConnectionsManager.tsx:124`). The model of the mail
  account assumes that web and worker share the `CMA_EMAIL_*` settings.
