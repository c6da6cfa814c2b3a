---------------------------- MODULE SignalRanking ----------------------------
(***************************************************************************)
(* How much a signal matters: the list of prioritised signals that the     *)
(* alerts and the "today" page read, scored with the default weights.      *)
(* AlertRaise has the promotion and the rules with a coarser score.        *)
(***************************************************************************)
EXTENDS Integers, Sequences, FiniteSets

CONSTANTS
  Sites,          \* pages with one price each, every one of its own competitor
  Percents,       \* sizes of a price change
  DayLength,      \* a UTC day, in units of time
  ShownFor,       \* the period that is listed
  HalfLife,       \* recencyHalfLifeDays
  Corroborating,  \* CORROBORATION_WINDOW_DAYS
  Repeating,      \* REPETITION_WINDOW_DAYS and the context window
  MaxSignalled,   \* bound: signals
  MaxTime         \* bound: the clock

ASSUME RankingConstants ==
  /\ Percents \subseteq Nat \ {0} /\ DayLength \in Nat \ {0} /\ ShownFor \in Nat /\ HalfLife \in Nat \ {0}
  /\ Corroborating \in Nat /\ Repeating \in Nat /\ MaxSignalled \in Nat /\ MaxTime \in Nat

VARIABLES
  ranked,   \* Signal rows, as they were created
  versions, \* EntityVersion rows of the prices that an event explains, per site
  time      \* the clock; a scan of one site is one unit

kVars == <<ranked, versions, time>>

Scored == [kind : {"price", "promotion", "text"}, site : Sites, size : Percents \cup {0}, at : 0..MaxTime]
AtMost(n, top) == IF n > top THEN top ELSE n

-----------------------------------------------------------------------------
(* Mutant: the size of a price change is not capped.                       *)
MagnitudeUncapped(s) ==
  IF s.kind = "price" THEN 2 * s.size ELSE IF s.kind = "promotion" THEN 50 ELSE 10

(* The factors, as percentages.                                            *)
Magnitude(s) ==
  IF s.kind = "price" THEN AtMost(2 * s.size, 100) ELSE IF s.kind = "promotion" THEN 50 ELSE 10

Emphasis(s) == IF s.kind = "price" THEN 100 ELSE IF s.kind = "promotion" THEN 60 ELSE 15

Age(s) == time - s.at
Recency(s) == 100 \div 2^(Age(s) \div HalfLife)

Recent == {i \in DOMAIN ranked : Age(ranked[i]) <= Repeating}

(* Mutant: whatever other competitors did counts.                          *)
AnythingElsewhere(s) ==
  {ranked[i].site : i \in {j \in Recent : Age(ranked[j]) <= Corroborating}} \ {s.site}

(* Other competitors that did the same lately.                             *)
Elsewhere(s) ==
  {ranked[i].site : i \in {j \in Recent : ranked[j].kind = s.kind /\ Age(ranked[j]) <= Corroborating}} \ {s.site}
Corroboration(s) == AtMost(33 * Cardinality(Elsewhere(s)), 100)

(* What the page itself did lately.                                        *)
Repeats(s) == {j \in Recent : ranked[j].kind = s.kind /\ ranked[j].site = s.site /\ ranked[j] # s}
Repetition(s) == 200 \div (2 + Cardinality(Repeats(s)))

(* Versions an event explains, strictly before the signal.                 *)
Earlier(s) == Cardinality({v \in versions[s.site] : v < s.at})

Shown == {i \in DOMAIN ranked : Age(ranked[i]) <= ShownFor}

(* The counts are kept per price while the list, newest first, is walked:  *)
(* the last signal of a price decides for all of them.                     *)
Priced(site) == {i \in Shown : ranked[i].kind = "price" /\ ranked[i].site = site}
Counted(s) == Earlier(ranked[CHOOSE i \in Priced(s.site) : \A j \in Priced(s.site) : i <= j])

(* A promotion that starts here is keyed by an item that is new.           *)
Unusual(s) ==
  IF s.kind = "price" THEN 100 \div (1 + Counted(s)) ELSE IF s.kind = "promotion" THEN 100 ELSE 0

(* scoreSignal for a competitor of normal relevance.                       *)
Score(s) ==
  (30 * Magnitude(s) + 25 * Emphasis(s) + 10 * Recency(s) + 5 * 67
    + 10 * Corroboration(s) + 10 * Unusual(s) + 10 * Repetition(s) + 50) \div 100

Tier(s) == IF Score(s) >= 65 THEN "HIGH" ELSE IF Score(s) >= 40 THEN "MEDIUM" ELSE "LOW"

-----------------------------------------------------------------------------
(* content:<page>:<day>, the dedupe key of text changes; other signals are *)
(* keyed by their event.                                                   *)
DayOf(t) == t \div DayLength
SameDayText(kind, site) ==
  {i \in DOMAIN ranked : kind = "text" /\ ranked[i].kind = kind /\ ranked[i].site = site /\ DayOf(ranked[i].at) = DayOf(time + 1)}

(* The scan of a site finds a change and promotes its event: a signal of   *)
(* its own or, for a text change after another one of that day, the later  *)
(* time of the signal there is; a price change also leaves the version it  *)
(* explains.                                                               *)
Finds(kind, site, size) ==
  /\ time < MaxTime /\ (kind = "price") = (size # 0) /\ time' = time + 1
  /\ LET joins == SameDayText(kind, site) IN
       IF joins = {}
         THEN /\ Len(ranked) < MaxSignalled
              /\ ranked' = Append(ranked, [kind |-> kind, site |-> site, size |-> size, at |-> time'])
         ELSE ranked' = [i \in DOMAIN ranked |-> IF i \in joins THEN [ranked[i] EXCEPT !.at = time'] ELSE ranked[i]]
  /\ versions' = IF kind = "price" THEN [versions EXCEPT ![site] = @ \cup {time'}] ELSE versions

(* A price change that is not promoted, for its confidence or because it   *)
(* reverts another one, leaves its version all the same.                   *)
FindsUnsure(site) ==
  /\ time < MaxTime /\ time' = time + 1
  /\ versions' = [versions EXCEPT ![site] = @ \cup {time'}] /\ UNCHANGED ranked

Waits == time < MaxTime /\ time' = time + 1 /\ UNCHANGED <<ranked, versions>>

RankingInit == ranked = <<>> /\ versions = [x \in Sites |-> {}] /\ time = 0

RankingNext ==
  \/ \E kind \in {"price", "promotion", "text"}, site \in Sites, size \in Percents \cup {0} : Finds(kind, site, size)
  \/ \E site \in Sites : FindsUnsure(site)
  \/ Waits

RankingSpec == RankingInit /\ [][RankingNext]_kVars
-----------------------------------------------------------------------------
(* Types; importance stays a number from 0 to 100, and a text change       *)
(* nobody else shows is never of a high tier.                              *)
RankingTypeOK ==
  /\ \A i \in DOMAIN ranked : ranked[i] \in Scored
  /\ \A i \in Shown : /\ Score(ranked[i]) \in 0..100
                      /\ Tier(ranked[i]) = "HIGH" => ranked[i].kind # "text"

(* "newest first": of two like changes of one page the newer is never      *)
(* ranked below the older, though both count as each other's repeat and a  *)
(* price that moved again is less unusual; and none is told of more        *)
(* earlier changes than there were before it.                              *)
NewerNotBelow ==
  \A i, j \in Shown : LET s == ranked[i]  t == ranked[j] IN
    s.kind = t.kind /\ s.site = t.site /\ s.size = t.size /\ s.at <= t.at => Score(s) <= Score(t)
NeverOvertold == \A i \in Shown : ranked[i].kind = "price" => Counted(ranked[i]) <= Earlier(ranked[i])

(* Time and the page's other signals only make a signal less important: it *)
(* rises when another competitor does the same, when a similar signal of   *)
(* the page leaves the repetition window, or when the page's text changes  *)
(* again on the signal's day.                                              *)
News(j) == j \in DOMAIN ranked => ranked'[j] # ranked[j]
AnotherDoes(i) ==
  \E j \in DOMAIN ranked' : News(j) /\ ranked'[j].kind = ranked[i].kind /\ ranked'[j].site # ranked[i].site
RepeatLapses(i) ==
  \E j \in (Recent \ Recent') \ {i} : ranked[j].kind = ranked[i].kind /\ ranked[j].site = ranked[i].site
ChangesAgain(i) == ranked[i].kind = "text" /\ ranked'[i].at > ranked[i].at /\ DayOf(ranked'[i].at) = DayOf(ranked[i].at)
RisesAreExplained ==
  [][\A i \in Shown \cap Shown' :
       Score(ranked[i])' > Score(ranked[i]) => AnotherDoes(i) \/ RepeatLapses(i) \/ ChangesAgain(i)]_kVars

(* A signal gains importance only for a reason, and never ranks below the  *)
(* older ones like it.                                                     *)
RankingIsJustified == [](NewerNotBelow /\ NeverOvertold) /\ RisesAreExplained
=============================================================================
