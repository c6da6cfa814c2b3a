----------------------------- MODULE AlertRaise -----------------------------
(***************************************************************************)
(* From verified events to alerts: promotion into signals, their           *)
(* importance, the organization's rules, and the raise that follows a      *)
(* scan.  Raises of one organization are not serialised: each lists the    *)
(* signals, then reads and writes alert by alert.  AlertDelivery has the   *)
(* emails of the alerts made here.                                         *)
(***************************************************************************)
EXTENDS Integers, Sequences, FiniteSets

CONSTANTS
  Pages,      \* monitored pages, each of a competitor of its own
  Kinds,      \* kinds of signal, "text" for CONTENT_UPDATE
  Sizes,      \* magnitudes an event may have, in points
  OwnPoints,  \* importance the one rule an organization may save asks for
  Raisers,    \* scan jobs that may be raising at once
  Cooldown,   \* ALERT_COOLDOWN_HOURS, in days
  Lookback,   \* LOOKBACK_MS, in days
  MaxSignals, \* bound: signals
  MaxDays     \* bound: days

ASSUME RaiseConstants ==
  /\ OwnPoints \subseteq Nat /\ Cooldown \in Nat /\ Lookback \in Nat /\ MaxSignals \in Nat /\ MaxDays \in Nat /\ Sizes \subseteq Nat

VARIABLES
  signals, \* Signal rows
  alerts,  \* AlertEvent rows
  links,   \* AlertSignal rows with the level the rules gave
  rules,   \* the active rules
  raiser,  \* raiseAlerts in each job
  day,     \* the clock
  stale    \* history: keys of alerts written from a read that was out of date,
           \* or whose dismissal somebody undid

aVars == <<signals, alerts, links, rules, raiser, day, stale>>

Levels == 1..3  \* NOTICE, IMPORTANT, URGENT
Signal == [kind : Kinds, page : Pages, size : Sizes, sure : BOOLEAN, at : 0..MaxDays]
Key == Pages \X Kinds
Alert == [key : Key, level : Levels, status : {"OPEN", "ACKNOWLEDGED", "DISMISSED"}, first : 0..MaxDays, last : 0..MaxDays, count : Nat]

(* DEFAULT_ALERT_RULES, in points, and the sets an organization may save.  *)
Rule(level, points, kinds, sure) == [level |-> level, points |-> points, kinds |-> kinds, sure |-> sure]
DefaultRules == {Rule(3, 3, {"price"}, TRUE), Rule(2, 2, {"price", "plan"}, TRUE), Rule(1, 1, {"promotion", "capability"}, TRUE)}
Rules == {DefaultRules} \cup {{Rule(l, n, {}, FALSE)} : l \in Levels, n \in OwnPoints}
Rest == [at |-> "idle", pending |-> <<>>, open |-> 0, seen |-> <<>>]

DedupeKey(s) == <<s.page, s.kind>>

-----------------------------------------------------------------------------
(* scoreSignal, the factors that move while a signal waits: what happened, *)
(* other competitors doing the same, and age.                              *)
Importance(s) ==
  LET others == {signals[i].page : i \in {j \in DOMAIN signals : signals[j].kind = s.kind}} \ {s.page} IN
    s.size + Cardinality(others) - (IF day > s.at THEN 1 ELSE 0)

Matches(rule, s) ==
  /\ Importance(s) >= rule.points /\ (rule.sure => s.sure)
  /\ rule.kinds = {} \/ s.kind \in rule.kinds

(* decideAlert: the most urgent of the rules that match, 0 for none.       *)
Decided(s) ==
  LET levels == {r.level : r \in {x \in rules : Matches(x, s)}} IN
    IF levels = {} THEN 0 ELSE CHOOSE l \in levels : \A m \in levels : m <= l

(* promoteSignals for one event of a committed scan, whose job raises the  *)
(* alerts next: a second text change of a page's day joins that day's      *)
(* signal at the lower confidence.                                         *)
SameDay(kind, page) ==
  {i \in DOMAIN signals : kind = "text" /\ signals[i].kind = kind /\ signals[i].page = page /\ signals[i].at = day}

Promote(r, kind, page, size, sure) ==
  /\ raiser[r].at = "idle" /\ raiser' = [raiser EXCEPT ![r].at = "list"]
  /\ IF SameDay(kind, page) = {}
       THEN /\ Len(signals) < MaxSignals
            /\ signals' = Append(signals, [kind |-> kind, page |-> page, size |-> size, sure |-> sure, at |-> day])
       ELSE signals' = [i \in DOMAIN signals |->
              IF i \in SameDay(kind, page) THEN [signals[i] EXCEPT !.sure = @ /\ sure] ELSE signals[i]]
  /\ UNCHANGED <<alerts, links, rules, day, stale>>

Handled == {l.signal : l \in links}

(* The signals of the last days that no alert has and a rule matches,      *)
(* oldest first, with the level as of now; the more important first among  *)
(* equals.                                                                 *)
Due == {i \in DOMAIN signals : day - signals[i].at <= Lookback /\ i \notin Handled /\ Decided(signals[i]) # 0}
SortsBefore(i, j) ==
  \/ signals[i].at < signals[j].at
  \/ /\ signals[i].at = signals[j].at
     /\ \/ Importance(signals[i]) > Importance(signals[j])
        \/ Importance(signals[i]) = Importance(signals[j]) /\ i < j

List(r) ==
  /\ raiser[r].at = "list"
  /\ \E order \in [1..Cardinality(Due) -> Due] :
       /\ \A m, n \in DOMAIN order : m < n => SortsBefore(order[m], order[n])
       /\ raiser' = [raiser EXCEPT ![r] =
            [Rest EXCEPT !.at = IF Due = {} THEN "idle" ELSE "find",
                         !.pending = [n \in DOMAIN order |-> [signal |-> order[n], level |-> Decided(signals[order[n]])]]]]
  /\ UNCHANGED <<signals, alerts, links, rules, day, stale>>

(* Mutant: a dismissed alert is joined too.                                *)
JoinableAny(s) ==
  {i \in DOMAIN alerts : alerts[i].key = DedupeKey(s) /\ alerts[i].last >= s.at - Cooldown}

(* Alerts a repeat joins: same page and kind, not dismissed, raised within *)
(* the cooldown; the latest of them.                                       *)
Joinable(s) ==
  {i \in DOMAIN alerts : /\ alerts[i].key = DedupeKey(s) /\ alerts[i].status # "DISMISSED"
                         /\ alerts[i].last >= s.at - Cooldown}

Find(r) ==
  /\ raiser[r].at = "find"
  /\ LET open == Joinable(signals[Head(raiser[r].pending).signal]) IN
       \/ /\ open = {} /\ raiser' = [raiser EXCEPT ![r].at = "write", ![r].open = 0, ![r].seen = <<>>]
       \/ \E i \in open :
            /\ \A j \in open : alerts[j].last <= alerts[i].last
            /\ raiser' = [raiser EXCEPT ![r].at = "write", ![r].open = i, ![r].seen = alerts[i]]
  /\ UNCHANGED <<signals, alerts, links, rules, day, stale>>

Later(a, b) == IF a > b THEN a ELSE b

(* "Only ever upgraded", from what was read: the count is incremented in   *)
(* the database, the rest is computed from the row that was found.         *)
Merged(a, seen, level, s) ==
  [a EXCEPT !.count = @ + 1, !.last = Later(seen.last, s.at), !.level = IF level > seen.level THEN level ELSE @]

New(level, s) == [key |-> DedupeKey(s), level |-> level, status |-> "OPEN", first |-> s.at, last |-> s.at, count |-> 1]

Advanced(r) ==
  [Rest EXCEPT !.at = IF Len(raiser[r].pending) > 1 THEN "find" ELSE "idle", !.pending = Tail(raiser[r].pending)]

(* Whether reading again would find something else: the alert as it is     *)
(* now, or a later one to join.                                            *)
Outdated(open, seen, s) ==
  IF open = 0 THEN Joinable(s) # {}
    ELSE alerts[open] # seen \/ \E i \in Joinable(s) : alerts[i].last > alerts[open].last

(* The write of one signal.  A signal is linked once: the second link      *)
(* fails, and the raise with it.                                           *)
Write(r) ==
  LET p == Head(raiser[r].pending)
      s == signals[p.signal]
      open == raiser[r].open
      target == IF open # 0 THEN open ELSE Len(alerts) + 1
  IN  /\ raiser[r].at = "write"
      /\ IF p.signal \in Handled
           THEN /\ raiser' = [raiser EXCEPT ![r] = Rest]
                /\ UNCHANGED <<alerts, links, stale>>
           ELSE /\ raiser' = [raiser EXCEPT ![r] = Advanced(r)]
                /\ alerts' = IF open # 0 THEN [alerts EXCEPT ![open] = Merged(@, raiser[r].seen, p.level, s)]
                             ELSE Append(alerts, New(p.level, s))
                /\ links' = links \cup {[signal |-> p.signal, alert |-> target, level |-> p.level]}
                /\ stale' = IF Outdated(open, raiser[r].seen, s) THEN stale \cup {DedupeKey(s)} ELSE stale
      /\ UNCHANGED <<signals, rules, day>>

(* The worker dies, or a query throws: what is left waits for the next     *)
(* raise of the organization.                                              *)
Abandon(r) ==
  /\ raiser[r].at # "idle" /\ raiser' = [raiser EXCEPT ![r] = Rest]
  /\ UNCHANGED <<signals, alerts, links, rules, day, stale>>

(* A page that is out of date may still mark a dismissed alert as seen.    *)
SetStatus(i, status) ==
  /\ alerts[i].status # status /\ alerts' = [alerts EXCEPT ![i].status = status]
  /\ stale' = IF alerts[i].status = "DISMISSED" THEN stale \cup {alerts[i].key} ELSE stale
  /\ UNCHANGED <<signals, links, rules, raiser, day>>

(* replaceAlertRules: the whole set at once.                               *)
ReplaceRules(set) ==
  /\ set # rules /\ rules' = set
  /\ UNCHANGED <<signals, alerts, links, raiser, day, stale>>

NextDay == day < MaxDays /\ day' = day + 1 /\ UNCHANGED <<signals, alerts, links, rules, raiser, stale>>

RaiseInit ==
  /\ signals = <<>> /\ alerts = <<>> /\ links = {} /\ rules \in Rules
  /\ raiser = [r \in Raisers |-> Rest] /\ day = 0 /\ stale = {}

RaiseNext ==
  \/ \E r \in Raisers :
       \/ \E kind \in Kinds, page \in Pages, size \in Sizes, sure \in BOOLEAN : Promote(r, kind, page, size, sure)
       \/ List(r) \/ Find(r) \/ Write(r) \/ Abandon(r)
  \/ \E i \in DOMAIN alerts, status \in {"ACKNOWLEDGED", "DISMISSED"} : SetStatus(i, status)
  \/ \E set \in Rules : ReplaceRules(set)
  \/ NextDay

RaiseSpec == RaiseInit /\ [][RaiseNext]_aVars
-----------------------------------------------------------------------------
(* Types.                                                                  *)
RaiseTypeOK ==
  /\ \A i \in DOMAIN signals : signals[i] \in Signal
  /\ \A i \in DOMAIN alerts : alerts[i] \in Alert
  /\ \A l \in links : l.signal \in DOMAIN signals /\ l.alert \in DOMAIN alerts /\ l.level \in Levels
  /\ \A r \in Raisers : raiser[r].at \in {"idle", "list", "find", "write"}

LinksOf(i) == {l \in links : l.alert = i}

(* "Each signal is handled once": however raises overlap, crash and are    *)
(* repeated, a signal is behind one alert, and an alert counts exactly     *)
(* the signals behind it.                                                  *)
CountsItsSignals ==
  /\ \A l, m \in links : l.signal = m.signal => l = m
  /\ \A i \in DOMAIN alerts : alerts[i].count = Cardinality(LinksOf(i))

(* "can only raise the alert's level": an alert that was never written     *)
(* from an outdated read has the highest level any of its signals was      *)
(* given, and the time of its latest one.                                  *)
LevelIsHighest ==
  \A i \in DOMAIN alerts : alerts[i].key \notin stale =>
    /\ \E l \in LinksOf(i) : l.level = alerts[i].level
    /\ \A l \in LinksOf(i) : l.level <= alerts[i].level /\ signals[l.signal].at <= alerts[i].last

(* "never as a second alert": two alerts of one page and kind that nobody  *)
(* dismissed are further apart than the cooldown.                          *)
RepeatsJoin ==
  \A i, j \in DOMAIN alerts :
    (/\ i < j /\ alerts[i].key = alerts[j].key /\ alerts[i].key \notin stale
     /\ "DISMISSED" \notin {alerts[i].status, alerts[j].status}) =>
       \/ alerts[j].first > alerts[i].last + Cooldown \/ alerts[i].first > alerts[j].last + Cooldown

(* "A dismissed alert is not reopened by a repeat: the next one is a new   *)
(* alert", unless it was dismissed after the raise had found it.           *)
DismissedIsLeftAlone ==
  [][\A i \in DOMAIN alerts :
       alerts[i].status = "DISMISSED" /\ alerts'[i].count # alerts[i].count =>
         alerts[i].key \in stale']_alerts

(* An alert stands for exactly the signals behind it, at their level, one  *)
(* for each episode, and a dismissed one is left alone.                    *)
AlertsStandForTheirSignals ==
  [](CountsItsSignals /\ LevelIsHighest /\ RepeatsJoin) /\ DismissedIsLeftAlone
=============================================================================
