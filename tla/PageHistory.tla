---------------------------- MODULE PageHistory ----------------------------
(***************************************************************************)
(* What the scans of one page say over time: the comparison of two         *)
(* readings, the change events it draws, the plans and promotions followed *)
(* across scans, and the events that become signals.  Scans are serial     *)
(* here; MonitoringScan has them overlap.                                  *)
(***************************************************************************)
EXTENDS Integers, FiniteSets

CONSTANTS
  Prices,     \* keys of the page's plans
  Promotions, \* keys of its promotions
  Amounts,    \* amounts an item may show, 0 for one that cannot be read
  Currencies, \* currencies it may show
  Unknown,    \* no currency was read
  Qualities,  \* percentages of confidence in an extraction
  MinJump,    \* MIN_PRICES_FOR_CAPABILITY_JUMP
  MassChange, \* MASS_PLAN_CHANGE_THRESHOLD
  Window,     \* OSCILLATION_WINDOW_MS, in units of time
  Gaps        \* time between scans, in units of time

ASSUME HistoryConstants ==
  /\ Prices \cap Promotions = {} /\ MinJump \in Nat \ {0} /\ MassChange \in Nat \ {0}
  /\ Amounts \subseteq Nat /\ Unknown \notin Currencies /\ Qualities \subseteq 0..100 /\ Gaps \subseteq Nat /\ Window \in Nat

VARIABLES
  reading,  \* the latest verified reading, <<>> before there is one
  item,     \* Entity row of each key with the value of its latest version
  recent,   \* price changes inside the oscillation window
  told      \* history: whether an item's absence was reported or a baseline

hVars == <<reading, item, recent, told>>

Items == Prices \cup Promotions
Offers == Amounts \X (Currencies \cup {Unknown})
Gone == <<>>
NoItem == [status |-> "NONE", value |-> Gone]

(* Items a reading lists; the frame is the extractor's version and market. *)
ItemsIn(r) == {k \in Items : r.offer[k] # Gone}
Plans(r) == ItemsIn(r) \cap Prices

(* comparePrices: an unknown currency is not a changed one.                *)
CurrencyMoved(o, n) == o # n /\ o # Unknown /\ n # Unknown
SamePrice(o, n) == o[1] # 0 /\ o[1] = n[1] /\ ~CurrencyMoved(o[2], n[2])

(* Mutant: another currency is the same price.                             *)
AmountMoved(o, n) == o[1] # n[1]

PriceMoved(o, n) == o # n /\ ~SamePrice(o, n)

-----------------------------------------------------------------------------
(* Every price that both readings show has moved from one currency to      *)
(* another one.                                                            *)
MarketFlip(p, c) ==
  LET both == {k \in Plans(p) \cap Plans(c) : p.offer[k][2] # Unknown /\ c.offer[k][2] # Unknown} IN
    /\ Cardinality(both) >= 2
    /\ \A k, l \in both :
         /\ p.offer[k][2] # c.offer[k][2]
         /\ p.offer[k][2] = p.offer[l][2] /\ c.offer[k][2] = c.offer[l][2]

(* At most a fifth of a page's n prices is in the other reading.           *)
Replaced(n, surviving) == n >= MinJump /\ 5 * surviving <= n

(* compareSnapshots, in the order of its early returns.                    *)
Verdict(p, c) ==
  IF ~c.ok THEN "unverified"
  ELSE IF p = <<>> \/ p.frame # c.frame THEN "baseline"
  ELSE LET before == Cardinality(Plans(p))
           now == Cardinality(Plans(c))
           surviving == Cardinality(Plans(p) \cap Plans(c))
       IN  CASE before = 0 /\ now >= MinJump -> "baseline"
             [] now = 0 /\ before >= MinJump -> "unverified"
             [] Replaced(now, surviving) -> "baseline"
             [] Replaced(before, surviving) /\ now < before -> "unverified"
             [] MarketFlip(p, c) -> "baseline"
             [] p.offer = c.offer -> "same"
             [] OTHER -> "changed"

(* finalizeEvent: what the rule establishes, by the extraction's quality.  *)
Confidence(base, q) == (base * q + 50) \div 100

Event(type, k, p, c, base) ==
  [type |-> type, key |-> k, old |-> p.offer[k], new |-> c.offer[k], confidence |-> base, note |-> "none"]

PriceChanges(p, c) ==
  {Event("PRICE_CHANGE", k, p, c, IF 0 \in {p.offer[k][1], c.offer[k][1]} THEN 70
                                  ELSE IF CurrencyMoved(p.offer[k][2], c.offer[k][2]) THEN 85 ELSE 95) :
     k \in {x \in Plans(p) \cap Plans(c) : PriceMoved(p.offer[x], c.offer[x])}}

PlansAddedOrRemoved(p, c) ==
  {Event("PRODUCT_ADDED", k, p, c, 80) : k \in Plans(c) \ Plans(p)}
    \cup {Event("PRODUCT_REMOVED", k, p, c, 70) : k \in Plans(p) \ Plans(c)}

PromotionChanges(p, c) ==
  {Event("PROMOTION_CHANGE", k, p, c, 75) :
     k \in {x \in ItemsIn(p) \cap ItemsIn(c) \cap Promotions : p.offer[x] # c.offer[x]}}

PromotionsAddedOrRemoved(p, c) ==
  {Event("PROMOTION_ADDED", k, p, c, 75) : k \in (ItemsIn(c) \ ItemsIn(p)) \cap Promotions}
    \cup {Event("PROMOTION_REMOVED", k, p, c, 70) : k \in (ItemsIn(p) \ ItemsIn(c)) \cap Promotions}

(* An event carries one currency: the current one, or else the old one.    *)
EventCurrency(e) == IF e.new[2] # Unknown THEN e.new[2] ELSE e.old[2]

Change(e, gap, signalled) ==
  [key |-> e.key, old |-> e.old[1], new |-> e.new[1], currency |-> EventCurrency(e),
   age |-> gap, signalled |-> signalled]

Reverses(r, e) ==
  /\ r.key = e.key /\ ~CurrencyMoved(r.currency, e.currency)
  /\ r.old = e.new /\ r.new = e.old /\ r.old # 0 /\ r.new # 0

(* The changes a scan sees when it runs gap units after the last one.      *)
StillRecent(gap) == {[r EXCEPT !.age = @ + gap] : r \in {x \in recent : x.age + gap <= Window}}

Lowered(e, factor, note) == [e EXCEPT !.confidence = Confidence(factor, @), !.note = note]

FlagOscillations(events, known) ==
  {IF e.type = "PRICE_CHANGE" /\ (\E r \in known : Reverses(r, Change(e, 0, FALSE)))
     THEN Lowered(e, 50, "reverts") ELSE e : e \in events}

(* A removal and an addition at the same price, each the only candidate of *)
(* the other, are probably a rename.                                       *)
LinkPossibleRenames(events) ==
  LET gone == {e \in events : e.type = "PRODUCT_REMOVED"}
      new == {e \in events : e.type = "PRODUCT_ADDED"}
      Only(r, a) == /\ {x \in new : SamePrice(r.old, x.new)} = {a}
                    /\ {x \in gone : SamePrice(x.old, a.new)} = {r}
      linked == {e \in gone \cup new : \E r \in gone, a \in new : e \in {r, a} /\ Only(r, a)}
  IN  {IF e \in linked THEN Lowered(e, 80, "renamed") ELSE e : e \in events}

Finalized(events, quality) == {[e EXCEPT !.confidence = Confidence(@, quality)] : e \in events}

ChangeEvents(p, c, quality, known) ==
  IF Verdict(p, c) # "changed" THEN {}
  ELSE LinkPossibleRenames(FlagOscillations(Finalized(
         PriceChanges(p, c) \cup PlansAddedOrRemoved(p, c)
           \cup PromotionChanges(p, c) \cup PromotionsAddedOrRemoved(p, c), quality), known))

-----------------------------------------------------------------------------
(* planEntityObservation and recordEntityObservations for one item.  A     *)
(* reading that lists nothing says nothing about what is gone.             *)
Observed(k, c) ==
  IF c.offer[k] # Gone THEN [status |-> "ACTIVE", value |-> c.offer[k]]
  ELSE IF item[k].status = "ACTIVE" /\ ItemsIn(c) # {} THEN [item[k] EXCEPT !.status = "ABSENT"]
  ELSE item[k]

(* Why a version is written, "none" when it is not.                        *)
Origin(k, c, events) ==
  CASE c.offer[k] = Gone \/ item[k] = Observed(k, c) -> "none"
    [] item[k].status = "NONE" -> "FIRST_SEEN"
    [] item[k].status = "ABSENT" -> "REAPPEARED"
    [] \E e \in events : e.key = k /\ e.type \in {"PRICE_CHANGE", "PROMOTION_CHANGE"} -> "CHANGE"
    [] OTHER -> "BASELINE"

(* deriveSignals, for what a scan of one page produces.                    *)
Signalled(e, events) ==
  /\ e.confidence >= 60 /\ e.note = "none"
  /\ e.type \in {"PRODUCT_ADDED", "PRODUCT_REMOVED"} =>
       Cardinality({x \in events : x.type = e.type}) < MassChange
  /\ e.type = "PRICE_CHANGE" => e.old[1] # 0 /\ e.new[1] # 0 /\ e.old[1] # e.new[1]

(* One scan: the comparison with the latest verified reading and, in one   *)
(* transaction, its events, the items it saw and the signals.  The recent  *)
(* changes are read unless that query fails, which is ignored.             *)
Scan(c, quality, gap) ==
  LET outcome == Verdict(reading, c)
      events == ChangeEvents(reading, c, quality, StillRecent(gap))
      removed == {e.key : e \in {x \in events : x.type \in {"PRODUCT_REMOVED", "PROMOTION_REMOVED"}}}
  IN  /\ recent' = StillRecent(gap)
           \cup {Change(e, 0, Signalled(e, events)) : e \in {x \in events : x.type = "PRICE_CHANGE"}}
      /\ IF outcome = "unverified"
           THEN UNCHANGED <<reading, item, told>>
           ELSE /\ reading' = c
                /\ item' = [k \in Items |-> Observed(k, c)]
                /\ told' = [k \in Items |->
                     c.offer[k] = Gone /\ (told[k] \/ k \in removed \/ outcome = "baseline")]

Readings == [ok : BOOLEAN, frame : {1, 2}, offer : [Items -> Offers \cup {Gone}]]

HistoryInit ==
  /\ reading = <<>> /\ recent = {}
  /\ item = [k \in Items |-> NoItem]
  /\ told = [k \in Items |-> FALSE]

HistoryNext == \E c \in Readings, q \in Qualities, gap \in Gaps : Scan(c, q, gap)

HistorySpec == HistoryInit /\ [][HistoryNext]_hVars
-----------------------------------------------------------------------------
(* Types; an item without a row has no version.                            *)
HistoryTypeOK ==
  /\ reading = <<>> \/ reading \in Readings
  /\ item \in [Items -> [status : {"NONE", "ACTIVE", "ABSENT"}, value : Offers \cup {Gone}]]
  /\ \A k \in Items : (item[k].status = "NONE") = (item[k].value = Gone)
  /\ \A r \in recent : r.key \in Prices /\ r.age \in 0..Window

(* The history of a page always ends in what the latest trusted scan read: *)
(* its items are active at the value it showed, all others are not active  *)
(* unless it listed nothing at all.                                        *)
HistoryMatchesReading ==
  reading # <<>> =>
    \A k \in Items :
      IF reading.offer[k] # Gone
        THEN item[k].status = "ACTIVE" /\ item[k].value = reading.offer[k]
        ELSE ItemsIn(reading) # {} => item[k].status # "ACTIVE"

(* "never a flood of events", yet nothing disappears in silence: an item   *)
(* that is absent was reported as removed since it was last read, or a     *)
(* scan without it was taken as a new baseline.                            *)
AbsenceIsTold == \A k \in Items : item[k].status = "ABSENT" => told[k]

(* A version that no event explains is "the extractor, market or layout":  *)
(* outside a baseline, only a currency that was not read on one side, or   *)
(* an item back after a scan that listed nothing, leaves one.              *)
UnexplainedIsBaseline ==
  [][\A k \in Items :
       item'[k] # item[k] /\ Origin(k, reading', ChangeEvents(reading, reading', 100, {})) = "BASELINE" =>
         \/ Verdict(reading, reading') = "baseline"
         \/ Unknown \in {item[k].value[2], item'[k].value[2]}
         \/ ItemsIn(reading) = {}]_item

(* A price that flips and flips back within two days in one currency is    *)
(* not two market moves: at most one of the two changes becomes a signal.  *)
NoSignalForReversal ==
  \A r, s \in recent : r.signalled /\ s.signalled => ~Reverses(r, s)

(* What a page is said to have shown: its items end in what was read last, *)
(* no absence or version goes untold, and a flicker is not two signals.    *)
HistoryTellsWhatWasRead ==
  [](HistoryMatchesReading /\ AbsenceIsTold /\ NoSignalForReversal) /\ UnexplainedIsBaseline
=============================================================================
