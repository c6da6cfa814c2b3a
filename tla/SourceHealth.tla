---------------------------- MODULE SourceHealth ----------------------------
(***************************************************************************)
(* What the organization is told of its monitored sources: a state derived *)
(* from the facts scans leave on the URL's row and from the latest         *)
(* snapshots, and the list of sources that need attention.                 *)
(***************************************************************************)
EXTENDS Integers, Sequences, FiniteSets

CONSTANTS
  Sources,        \* monitored URLs of the organization, of one competitor
  Cadences,       \* scanFrequencyMinutes, in units of time
  StaleMultiple,  \* STALE_CADENCE_MULTIPLE
  StaleMin,       \* STALE_MIN_MS
  PartialMin,     \* PARTIAL_MIN_SCANS
  RecentWindow,   \* RECENT_SCANS_WINDOW
  RecentRows,     \* snapshots read per source: RECENT_SCANS_WINDOW * 4
  RecentDays,     \* RECENT_SCANS_LOOKBACK_MS
  StopAfter,      \* afterDays
  StopFailures,   \* minConsecutiveFailures
  MaxToday,       \* bound: the clock
  MaxAttempts     \* bound: scans

ASSUME SourceHealthConstants ==
  /\ {StaleMultiple, StaleMin, PartialMin, RecentWindow, RecentRows, RecentDays} \subseteq Nat
  /\ {StopAfter, StopFailures, MaxToday, MaxAttempts} \subseteq Nat /\ Cadences \subseteq Nat \ {0}
  /\ IsFiniteSet(Sources)

VARIABLES
  source,    \* the MonitoredUrl rows
  attempts,  \* what each scan made of its source, oldest first; all but "notModified" left a snapshot
  found,     \* what disableUnreachableSources is about to stop
  observed,  \* the competitor's isActive
  moment,    \* the clock
  fresh      \* history: scans there were when each source was last resumed

uVars == <<source, attempts, found, observed, moment, fresh>>

NoTime == -1  \* no timestamp
Outcome == {"verified", "unverified", "notModified", "failed"}
Fetched == Outcome \ {"failed"}
SourceRow == [active : BOOLEAN, disabled : BOOLEAN, fails : Nat, success : Nat \cup {NoTime},
              attempt : Nat \cup {NoTime}, cadence : Cadences]

-----------------------------------------------------------------------------
(* staleAfterMs.                                                           *)
StaleAfter(s) == IF StaleMultiple * s.cadence > StaleMin THEN StaleMultiple * s.cadence ELSE StaleMin

(* A source that never worked is aged from its creation.                   *)
DataAge(s) == moment - (IF s.success = NoTime THEN 0 ELSE s.success)

(* recentVerificationByUrl: the organization's latest snapshots, as many   *)
(* as the sources may fill, and of each source the first it comes across.  *)
(* Snapshots are told by their place in attempts.                          *)
Snapshots == {i \in DOMAIN attempts : attempts[i].outcome # "notModified"}
OfSource(places, u) == {i \in places : attempts[i].of = u}
Newest(places, n) == {i \in places : Cardinality({j \in places : j > i}) < n}
Lately == {i \in Snapshots : attempts[i].at >= moment - RecentDays}
RowsRead == Newest(Lately, Cardinality(Sources) * RecentRows)
RecentScans(u) == Newest(OfSource(RowsRead, u), RecentWindow)

UnverifiedIn(places) == Cardinality({i \in places : attempts[i].outcome \in {"unverified", "failed"}})
MostlyUnverified(places) == Cardinality(places) >= PartialMin /\ 2 * UnverifiedIn(places) >= Cardinality(places)

(* Mutant: a failing source is not asked how old its data is.              *)
FailingFirst(s, recent) ==
  IF s.disabled THEN "DISABLED"
    ELSE IF ~s.active THEN "PAUSED"
    ELSE IF s.attempt = NoTime /\ s.success = NoTime THEN "PENDING"
    ELSE IF s.fails > 0 THEN "DEGRADED"
    ELSE IF DataAge(s) > StaleAfter(s) THEN "STALE"
    ELSE IF MostlyUnverified(recent) THEN "PARTIAL" ELSE "HEALTHY"

(* deriveSourceHealth.                                                     *)
DeriveSourceHealth(s, recent) ==
  IF s.disabled THEN "DISABLED"
    ELSE IF ~s.active THEN "PAUSED"
    ELSE IF s.attempt = NoTime /\ s.success = NoTime THEN "PENDING"
    ELSE IF DataAge(s) > StaleAfter(s) THEN "STALE"
    ELSE IF s.fails > 0 THEN "DEGRADED"
    ELSE IF MostlyUnverified(recent) THEN "PARTIAL" ELSE "HEALTHY"

(* listSourceHealthForOrg and listSourcesNeedingAttention.                 *)
Health(u) == DeriveSourceHealth(source[u], RecentScans(u))
NeedAttention == {u \in Sources : observed /\ Health(u) \in {"STALE", "DISABLED"}}

-----------------------------------------------------------------------------
HealthInit ==
  /\ source \in [Sources -> {[active |-> TRUE, disabled |-> FALSE, fails |-> 0, success |-> NoTime,
                              attempt |-> NoTime, cadence |-> c] : c \in Cadences}]
  /\ attempts = <<>>
  /\ found = {}
  /\ observed = TRUE
  /\ moment = 0
  /\ fresh = [u \in Sources |-> 0]

(* persistMonitoringResult, persistNotModifiedResult: a page that was      *)
(* fetched counts as a success whether or not it could be verified.  A     *)
(* scan under way when its source is paused or stopped records as well.    *)
Attempted(s, outcome) ==
  [active |-> s.active, disabled |-> s.disabled, cadence |-> s.cadence, attempt |-> moment,
   fails |-> IF outcome \in Fetched THEN 0 ELSE s.fails + 1,
   success |-> IF outcome \in Fetched THEN moment ELSE s.success]
RecordScan(u, outcome) ==
  /\ Len(attempts) < MaxAttempts
  /\ outcome = "notModified" => source[u].success # NoTime
  /\ attempts' = Append(attempts, [of |-> u, at |-> moment, outcome |-> outcome])
  /\ source' = [source EXCEPT ![u] = Attempted(@, outcome)]
  /\ UNCHANGED <<found, observed, moment, fresh>>

(* disableUnreachableSources: found by one query, stopped by the next.     *)
Unreachable(s) == s.active /\ s.fails >= StopFailures /\ DataAge(s) > StopAfter
FindUnreachable ==
  /\ found = {}
  /\ found' = {u \in Sources : Unreachable(source[u])}
  /\ found' # {}
  /\ UNCHANGED <<source, attempts, observed, moment, fresh>>
Halted(s) == [[s EXCEPT !.active = FALSE] EXCEPT !.disabled = TRUE]
StopUnreachable ==
  /\ found # {}
  /\ source' = [u \in Sources |-> IF u \in found /\ source[u].active THEN Halted(source[u]) ELSE source[u]]
  /\ found' = {}
  /\ UNCHANGED <<attempts, observed, moment, fresh>>

(* updateMonitoredUrl: a source resumed starts with a clean slate.         *)
PauseSource(u) ==
  /\ source' = [source EXCEPT ![u] = [@ EXCEPT !.active = FALSE]]
  /\ UNCHANGED <<attempts, found, observed, moment, fresh>>
Renewed(s) ==
  [active |-> TRUE, disabled |-> FALSE, cadence |-> s.cadence, attempt |-> NoTime, fails |-> 0, success |-> s.success]
ResumeSource(u) ==
  /\ source' = [source EXCEPT ![u] = Renewed(@)]
  /\ fresh' = [fresh EXCEPT ![u] = Len(attempts)]
  /\ UNCHANGED <<attempts, found, observed, moment>>

(* updateCompetitor: the competitor is deactivated, or active again.       *)
ObserveCompetitor ==
  /\ observed' = ~observed
  /\ UNCHANGED <<source, attempts, found, moment, fresh>>

TimePasses ==
  /\ moment < MaxToday
  /\ moment' = moment + 1
  /\ UNCHANGED <<source, attempts, found, observed, fresh>>

HealthNext ==
  \/ \E u \in Sources : PauseSource(u) \/ ResumeSource(u) \/ \E outcome \in Outcome : RecordScan(u, outcome)
  \/ FindUnreachable \/ StopUnreachable \/ ObserveCompetitor \/ TimePasses

HealthSpec == HealthInit /\ [][HealthNext]_uVars

-----------------------------------------------------------------------------
HealthTypeOK ==
  /\ source \in [Sources -> SourceRow] /\ observed \in BOOLEAN /\ moment \in 0..MaxToday /\ found \subseteq Sources
  /\ attempts \in Seq([of : Sources, at : 0..MaxToday, outcome : Outcome]) /\ Len(attempts) <= MaxAttempts

(* What is said of a source is what its scans have seen:                   *)
(*   - attention is asked for exactly the sources of a watched competitor  *)
(*     that the system stopped, or that were tried and have not been seen  *)
(*     for too long, failing or not;                                       *)
(*   - "healthy" and "failing" are said of the latest scan since the       *)
(*     source was resumed, and only while the data is recent;              *)
(*   - "partly verifiable" is said of a source of which half of its own    *)
(*     latest scans could not be verified, and withheld from one only      *)
(*     where other sources' snapshots crowd its own out of what is read.   *)
Mine(u) == OfSource(DOMAIN attempts, u)
Since(u) == {i \in Mine(u) : i > fresh[u]}
Seen(u) == {attempts[i].at : i \in {j \in Mine(u) : attempts[j].outcome \in Fetched}}
Failing(u) == \E i \in Since(u) : attempts[i].outcome = "failed" /\ \A j \in Since(u) : j <= i
HealthTellsWhatWasSeen ==
  \A u \in Sources :
    LET s == source[u]
        old == \A t \in Seen(u) \cup {0} : moment - t > StaleAfter(s)
        tried == Seen(u) # {} \/ Since(u) # {}
    IN  /\ u \in NeedAttention <=> observed /\ (s.disabled \/ (s.active /\ tried /\ old))
        /\ Health(u) = "DEGRADED" => Failing(u) /\ ~old
        /\ Health(u) \in {"HEALTHY", "PARTIAL"} => ~Failing(u) /\ ~old /\ Seen(u) # {}
        /\ Health(u) = "PARTIAL" => \E n \in PartialMin..RecentWindow : MostlyUnverified(Newest(OfSource(Lately, u), n))
        /\ Health(u) = "HEALTHY" /\ MostlyUnverified(Newest(OfSource(Lately, u), RecentWindow)) =>
             Cardinality(Lately) > Cardinality(Sources) * RecentRows
=============================================================================
