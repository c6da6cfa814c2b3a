---------------------------- MODULE Intelligence ----------------------------
(***************************************************************************)
(* What the pages say about the history of change events: activity against *)
(* a competitor's own baseline, trends, repeated price changes, the digest *)
(* and the comparison of competitors.  Nothing is stored: each page asks   *)
(* the database several times while scans commit.                          *)
(***************************************************************************)
EXTENDS Integers, FiniteSets

CONSTANTS
  Competitors,
  Urls,        \* names of a competitor's monitored pages
  Products,    \* entity keys
  Period,      \* length of the window asked for, in ticks
  LastTick,    \* bound: the clock
  MaxEvents    \* bound: ChangeEvent rows

ASSUME IntelligenceConstants == Period \in Nat \ {0} /\ LastTick \in Nat /\ MaxEvents \in Nat

VARIABLES
  added,    \* Competitor.createdAt
  tracked,  \* Competitor.isActive
  watched,  \* the monitored pages
  feed,     \* committed ChangeEvent rows
  writing,  \* events of transactions that did not commit yet
  created,  \* how many events there ever were
  tick,     \* the clock
  request    \* a request that computes a digest or a comparison

iVars == <<added, tracked, watched, feed, writing, created, tick, request>>

NoProduct == "none"  \* the entityKey of a change that has none
Where == Competitors \X Urls
ChangeKinds == {"PRICE_CHANGE", "PRODUCT_ADDED", "PRODUCT_REMOVED", "CONTENT_CHANGE"}
ChangeEvent == [id : 1..MaxEvents, of : Competitors, url : Urls, key : Products \union {NoProduct},
                type : ChangeKinds, at : 0..LastTick]
BASELINE_WINDOW_COUNT == 3
MIN_QUALIFYING_BASELINE_WINDOWS == 2
MAX_SUSTAINED_LOOKBACK == 2
MIN_SUSTAINED_WINDOWS == 2
MIN_REPEATED_PRICE_CHANGES == 2
NewRequest(doing, now) ==
  [doing |-> doing, now |-> now, listed |-> {}, found |-> {}, pattern |-> {}, repeated |-> {}, trend |-> {},
   asked |-> {}, rows |-> {}, quiet |-> TRUE, deleted |-> {}]
NoRequest == NewRequest("nothing", 0)

-----------------------------------------------------------------------------
(* Windows hold their start and not their end.                             *)
Between(rows, from, to) == {e \in rows : from <= e.at /\ e.at < to}

EventsOf(c) == {e \in feed : e.of = c}
UrlsOf(c) == {u \in Urls : <<c, u>> \in watched}
CurrentWindow(now) == Between(feed, now - Period, now)

(* Historical windows that lie in the tracked history: 1..n of them, the   *)
(* most recent ones.                                                       *)
QualifyingWindows(c, now) == {i \in 1..BASELINE_WINDOW_COUNT : now - (i + 1) * Period >= added[c]}

(* 100 * current / mean, rounded, when the n windows held sum events.      *)
Ratio(current, sum, n) == (200 * current * n + sum) \div (2 * sum)

Direction(current, sum, n) ==
  IF sum = 0 THEN (IF current = 0 THEN "AT_BASELINE" ELSE "ABOVE_BASELINE")
  ELSE IF Ratio(current, sum, n) >= 150 THEN "ABOVE_BASELINE"
  ELSE IF 3 * Ratio(current, sum, n) <= 200 THEN "BELOW_BASELINE" ELSE "AT_BASELINE"

(* Activity against the competitor's own baseline.                         *)
ActivityPattern(c, now) ==
  LET n == IF UrlsOf(c) = {} THEN 0 ELSE Cardinality(QualifyingWindows(c, now))
      current == Cardinality(EventsOf(c) \intersect CurrentWindow(now))
      sum == Cardinality(Between(EventsOf(c), now - (n + 1) * Period, now - Period))
      enough == n >= MIN_QUALIFYING_BASELINE_WINDOWS
  IN [of |-> c, current |-> current, windows |-> n, qualifies |-> enough,
      direction |-> IF enough THEN Direction(current, sum, n) ELSE "INSUFFICIENT_HISTORY",
      strongEvidence |-> enough /\ (sum > 0 \/ current = 0)]

(* The window i periods back continues the streak of the current one.      *)
Continues(c, now, i) ==
  LET prior == ActivityPattern(c, now - i * Period)
      direction == ActivityPattern(c, now).direction
  IN prior.qualifies /\ prior.direction = direction /\ direction # "AT_BASELINE"

SustainedActivityTrend(c, now) ==
  LET pattern == ActivityPattern(c, now)
      streak == IF pattern.qualifies
                THEN 1 + Cardinality({k \in 1..MAX_SUSTAINED_LOOKBACK : \A i \in 1..k : Continues(c, now, i)})
                ELSE 0
  IN [of |-> c, direction |-> pattern.direction, streak |-> streak, sustained |-> streak >= MIN_SUSTAINED_WINDOWS,
      dataAvailable |-> streak > 0 /\ (streak > MAX_SUSTAINED_LOOKBACK
                                       \/ ActivityPattern(c, now - streak * Period).qualifies)]

(* The price series of one product of one page.                           *)
PriceSeries(c, u, k) == {e \in EventsOf(c) : e.url = u /\ e.key = k /\ e.type = "PRICE_CHANGE"}

(* Price changes of one product of one page in the window, when repeated.  *)
RepeatedPriceChanges(c, now) ==
  LET groups == {PriceSeries(c, u, k) \intersect CurrentWindow(now) : u \in Urls, k \in Products}
  IN {[of |-> c, events |-> g] : g \in {h \in groups : Cardinality(h) >= MIN_REPEATED_PRICE_CHANGES}}

(* Counts by type of the current and of the previous window.               *)
ActivityMetrics(c, now) ==
  [of |-> c, total |-> Cardinality(EventsOf(c) \intersect CurrentWindow(now)),
   current |-> [t \in ChangeKinds |-> Cardinality({e \in EventsOf(c) \intersect CurrentWindow(now) : e.type = t})],
   previous |-> [t \in ChangeKinds |->
                   Cardinality({e \in Between(EventsOf(c), now - 2 * Period, now - Period) : e.type = t})]]

LatestOf(c) == {e \in EventsOf(c) : \A f \in EventsOf(c) : f.id <= e.id}

-----------------------------------------------------------------------------
(* Digest items.                                                           *)
Item(kind, c, events) == [kind |-> kind, of |-> c, cites |-> events]

(* Mutant: a pattern is shown whether or not the window holds an event.    *)
PatternItemsUncited(r, c, events) ==
  {Item("ACTIVITY_PATTERN", c, events) : p \in {q \in r.pattern : q.of = c /\ q.qualifies}}
  \union {Item("SUSTAINED_ACTIVITY_TREND", c, events) : t \in {s \in r.trend : s.of = c /\ s.sustained}}

PatternItems(r, c, events) ==
  IF events = {} THEN {}
  ELSE {Item("ACTIVITY_PATTERN", c, events) : p \in {q \in r.pattern : q.of = c /\ q.qualifies}}
       \union {Item("SUSTAINED_ACTIVITY_TREND", c, events) : t \in {s \in r.trend : s.of = c /\ s.sustained}}

(* One event is told by its own item; only several make a roll-up.         *)
LifecycleItems(c, events) ==
  LET moved == {e \in events : e.type \in {"PRODUCT_ADDED", "PRODUCT_REMOVED"}} IN
  IF Cardinality(moved) > 1 THEN {Item("LIFECYCLE", c, moved)} ELSE {}

ItemsAbout(r, c) ==
  LET events == {e \in r.found : e.of = c} IN
  {Item("CHANGE_EVENT", c, {e}) : e \in events}
  \union {Item("REPEATED_PRICE_CHANGE", c, g.events) : g \in {h \in r.repeated : h.of = c}}
  \union PatternItems(r, c, events) \union LifecycleItems(c, events)

DigestItems(r) == UNION {ItemsAbout(r, c) : c \in r.listed}
AboveBaseline(r) == {c \in r.listed : \E p \in r.pattern : p.of = c /\ p.direction = "ABOVE_BASELINE"}
SustainedRivals(r) == {c \in r.listed : \E t \in r.trend : t.of = c /\ t.sustained}

-----------------------------------------------------------------------------
IntelligenceInit ==
  /\ added \in [Competitors -> 0..LastTick]
  /\ tracked = [c \in Competitors |-> TRUE]
  /\ watched \in SUBSET Where
  /\ feed = {} /\ writing = {} /\ created = 0 /\ tick = 0 /\ request = NoRequest

AddUrl(c, u) ==
  /\ <<c, u>> \notin watched /\ tick >= added[c]
  /\ watched' = watched \union {<<c, u>>}
  /\ UNCHANGED <<added, tracked, feed, writing, created, tick, request>>

(* What a request does next, and that the feed changed under it.           *)
Doing(what) == [request EXCEPT !.doing = what]
Overtaken == [request EXCEPT !.quiet = FALSE]

(* Deleting a page deletes its events.                                     *)
DeleteUrl(c, u) ==
  LET gone == {e \in feed : e.of = c /\ e.url = u} IN
  /\ <<c, u>> \in watched
  /\ watched' = watched \ {<<c, u>>} /\ feed' = feed \ gone
  /\ writing' = {e \in writing : <<e.of, e.url>> # <<c, u>>}
  /\ request' = [Overtaken EXCEPT !.deleted = @ \union gone]
  /\ UNCHANGED <<added, tracked, created, tick>>

(* A scan of the page creates an event, whose time is that of the          *)
(* transaction's start.                                                    *)
Detect(c, u, type, key) ==
  /\ <<c, u>> \in watched /\ tick >= added[c] /\ created < MaxEvents
  /\ \A e \in writing : <<e.of, e.url>> # <<c, u>>
  /\ key = NoProduct <=> type = "CONTENT_CHANGE"
  /\ writing' = writing \union {[id |-> created + 1, of |-> c, url |-> u, key |-> key, type |-> type, at |-> tick]}
  /\ created' = created + 1
  /\ UNCHANGED <<added, tracked, watched, feed, tick, request>>

(* The transaction commits its event.                                      *)
CommitScan(e) ==
  /\ e \in writing
  /\ writing' = writing \ {e} /\ feed' = feed \union {e}
  /\ request' = Overtaken
  /\ UNCHANGED <<added, tracked, watched, created, tick>>

(* Transactions are short: none stays open for a whole tick.               *)
Tick ==
  /\ tick < LastTick /\ \A e \in writing : e.at = tick
  /\ tick' = tick + 1
  /\ UNCHANGED <<added, tracked, watched, feed, writing, created, request>>

SetTracked(c) ==
  /\ tracked' = [tracked EXCEPT ![c] = ~@]
  /\ UNCHANGED <<added, watched, feed, writing, created, tick, request>>

(* The active competitors, with the one now every later query uses.        *)
OpenDigest ==
  /\ request.doing = "nothing"
  /\ request' = [NewRequest("digest", tick) EXCEPT !.listed = {c \in Competitors : tracked[c] /\ tick >= added[c]}]
  /\ UNCHANGED <<added, tracked, watched, feed, writing, created, tick>>

FetchEvents ==
  /\ request.doing = "digest"
  /\ request' = [Doing("patterns") EXCEPT !.found = {e \in CurrentWindow(request.now) : e.of \in request.listed}]
  /\ UNCHANGED <<added, tracked, watched, feed, writing, created, tick>>

(* The three calls for a competitor are answered in any order.             *)
AskPattern(c) ==
  /\ request.doing = "patterns" /\ c \in request.listed /\ \A p \in request.pattern : p.of # c
  /\ request' = [request EXCEPT !.pattern = @ \union {ActivityPattern(c, request.now)}]
  /\ UNCHANGED <<added, tracked, watched, feed, writing, created, tick>>

AskRepeated(c) ==
  LET asking == [request EXCEPT !.asked = @ \union {c}] IN
  /\ request.doing = "patterns" /\ c \in request.listed /\ c \notin request.asked
  /\ request' = [asking EXCEPT !.repeated = @ \union RepeatedPriceChanges(c, request.now)]
  /\ UNCHANGED <<added, tracked, watched, feed, writing, created, tick>>

AskTrend(c) ==
  /\ request.doing = "patterns" /\ c \in request.listed /\ \A t \in request.trend : t.of # c
  /\ request' = [request EXCEPT !.trend = @ \union {SustainedActivityTrend(c, request.now)}]
  /\ UNCHANGED <<added, tracked, watched, feed, writing, created, tick>>

ShowDigest ==
  /\ request.doing = "patterns"
  /\ \A c \in request.listed : /\ \E p \in request.pattern : p.of = c
                              /\ \E t \in request.trend : t.of = c
                              /\ c \in request.asked
  /\ request' = Doing("digest shown")
  /\ UNCHANGED <<added, tracked, watched, feed, writing, created, tick>>

(* The comparison: the counts first, then the patterns, each with a now of *)
(* its own.                                                                *)
Compare ==
  /\ request.doing = "nothing"
  /\ request' = [NewRequest("comparison", tick) EXCEPT !.rows =
       {[counts |-> ActivityMetrics(c, tick), latest |-> LatestOf(c)] : c \in {d \in Competitors : tick >= added[d]}}]
  /\ UNCHANGED <<added, tracked, watched, feed, writing, created, tick>>

ShowComparison ==
  LET shown == [Doing("comparison shown") EXCEPT !.quiet = @ /\ tick = request.now] IN
  /\ request.doing = "comparison"
  /\ request' = [shown EXCEPT !.rows =
       {[counts |-> row.counts, latest |-> row.latest, linked |-> LatestOf(row.counts.of),
         pattern |-> ActivityPattern(row.counts.of, tick),
         repeated |-> Cardinality(RepeatedPriceChanges(row.counts.of, tick))] : row \in @}]
  /\ UNCHANGED <<added, tracked, watched, feed, writing, created, tick>>

Leave ==
  /\ request.doing \in {"digest shown", "comparison shown"}
  /\ request' = NoRequest
  /\ UNCHANGED <<added, tracked, watched, feed, writing, created, tick>>

IntelligenceNext ==
  \/ \E c \in Competitors, u \in Urls :
       \/ AddUrl(c, u)
       \/ DeleteUrl(c, u)
       \/ \E type \in ChangeKinds, key \in Products \union {NoProduct} : Detect(c, u, type, key)
  \/ \E e \in writing : CommitScan(e)
  \/ \E c \in Competitors : SetTracked(c) \/ AskPattern(c) \/ AskRepeated(c) \/ AskTrend(c)
  \/ Tick \/ OpenDigest \/ FetchEvents \/ ShowDigest \/ Compare \/ ShowComparison \/ Leave

IntelligenceSpec == IntelligenceInit /\ [][IntelligenceNext]_iVars

-----------------------------------------------------------------------------
IntelligenceTypeOK ==
  /\ added \in [Competitors -> 0..LastTick] /\ tracked \in [Competitors -> BOOLEAN]
  /\ watched \subseteq Where
  /\ feed \subseteq ChangeEvent /\ writing \subseteq ChangeEvent
  /\ created \in 0..MaxEvents /\ tick \in 0..LastTick

(* Whatever scans commit while a digest is put together, each of its items *)
(* cites at least one event of its competitor in the window, a repeated    *)
(* change and a roll-up at least two, the former of one product, and a baseline is claimed only after *)
(* three full periods of history ("Every digest item MUST carry at least   *)
(* one real ChangeEvent id").                                              *)
EveryItemIsCited ==
  request.doing = "digest shown" =>
    \A item \in DigestItems(request) :
      /\ item.cites # {} /\ item.cites \subseteq feed \union request.deleted
      /\ \A e \in item.cites : e.of = item.of /\ e.at \in (request.now - Period)..(request.now - 1)
      /\ item.kind = "REPEATED_PRICE_CHANGE" => Cardinality({<<e.url, e.key>> : e \in item.cites}) = 1
      /\ item.kind \in {"REPEATED_PRICE_CHANGE", "LIFECYCLE"} => Cardinality(item.cites) >= 2
      /\ item.kind \in {"ACTIVITY_PATTERN", "SUSTAINED_ACTIVITY_TREND"} =>
           added[item.of] <= request.now - (MIN_QUALIFYING_BASELINE_WINDOWS + 1) * Period

(* A digest during which no scan committed agrees with itself (with a      *)
(* commit between its queries the counts differ from the list): the        *)
(* pattern's count is that of the events listed, a sustained trend has the *)
(* direction of the pattern, is never neutral and, when above the          *)
(* baseline, is counted among the competitors above it.                    *)
QuietDigestAgrees ==
  (request.doing = "digest shown" /\ request.quiet) =>
    /\ \A p \in request.pattern : p.current = Cardinality({e \in request.found : e.of = p.of})
    /\ \A t \in request.trend, p \in request.pattern :
         (t.of = p.of /\ t.sustained) => t.direction = p.direction /\ t.direction # "AT_BASELINE"
    /\ {c \in SustainedRivals(request) : \A t \in request.trend : t.of = c => t.direction = "ABOVE_BASELINE"}
         \subseteq AboveBaseline(request)
    /\ \A g \in request.repeated : g.events \subseteq request.found

(* The change a comparison links to is never older than the date it shows, *)
(* and when neither a commit nor the clock came between its queries the    *)
(* counts by type add up to the pattern's.                                 *)
ComparisonAgrees ==
  request.doing = "comparison shown" =>
    \A row \in request.rows :
      /\ \A e \in row.latest : e \in request.deleted \/ \E f \in row.linked : f.id >= e.id
      /\ request.quiet => /\ row.counts.total = row.pattern.current
                           /\ (row.repeated > 0 => row.counts.current["PRICE_CHANGE"] >= 2)

PagesAgreeWithTheirEvents == EveryItemIsCited /\ QuietDigestAgrees /\ ComparisonAgrees
=============================================================================
