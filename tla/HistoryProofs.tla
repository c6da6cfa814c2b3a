--------------------------- MODULE HistoryProofs ---------------------------
(***************************************************************************)
(* Proofs about what the scans leave behind over time: the history of a    *)
(* page's plans and promotions, the capabilities observed on a competitor  *)
(* and the patterns of its market, for any readings, texts, moves, edits   *)
(* and any number of items, phrases, rivals and overlapping refreshes; and *)
(* about what is made of it for the reader: the answers kept of a model,   *)
(* the digest and the comparison, whatever is committed meanwhile, the     *)
(* ranking of signals and the health of sources.                           *)
(***************************************************************************)
EXTENDS PageHistory, CapabilityHistory, MarketPatterns, AiAnswers, Intelligence, SignalRanking, SourceHealth,
        FiniteSetTheorems, WellFoundedInduction, TLAPS

-----------------------------------------------------------------------------
(* The price changes of the last days.                                     *)
ChangeRow ==
  [key : Prices, old : Amounts, new : Amounts, currency : Currencies \cup {Unknown}, age : 0..Window, signalled : BOOLEAN]

(* An item that has a row was read at some time; one that the latest       *)
(* reading does not list was told gone.                                    *)
SeenOrTold ==
  \A k \in Items : item[k].status # "NONE" => reading # <<>> /\ (reading.offer[k] = Gone => told[k])

HistoryInv ==
  /\ HistoryTypeOK /\ told \in [Items -> BOOLEAN] /\ recent \subseteq ChangeRow
  /\ HistoryMatchesReading /\ SeenOrTold /\ NoSignalForReversal

-----------------------------------------------------------------------------
LEMMA VerdictFacts ==
  ASSUME NEW p, NEW c
  PROVE  /\ Verdict(p, c) \in {"unverified", "baseline", "same", "changed"}
         /\ Verdict(p, c) = "same" => p.offer = c.offer
         /\ p = <<>> => Verdict(p, c) \in {"unverified", "baseline"}
BY DEF Verdict

(* Events are records, and what is done to them keeps what they are about. *)
IsEvent(e) == e = [type |-> e.type, key |-> e.key, old |-> e.old, new |-> e.new, confidence |-> e.confidence, note |-> e.note]
SameEvent(d, e) == d.type = e.type /\ d.key = e.key /\ d.old = e.old /\ d.new = e.new

LEMMA EventConfidence ==
  ASSUME NEW e, IsEvent(e), NEW x, NEW d, d = [e EXCEPT !.confidence = x]
  PROVE  IsEvent(d) /\ SameEvent(d, e) /\ d.note = e.note
<1> DEFINE t == e.type
           k == e.key
           o == e.old
           w == e.new
           f == e.confidence
           m == e.note
<1>1. e = [type |-> t, key |-> k, old |-> o, new |-> w, confidence |-> f, note |-> m]
  BY DEF IsEvent
<1> HIDE DEF t, k, o, w, f, m
<1>2. d = [type |-> t, key |-> k, old |-> o, new |-> w, confidence |-> x, note |-> m]
  BY <1>1
<1>3. QED
  BY <1>1, <1>2 DEF IsEvent, SameEvent

LEMMA EventNoted ==
  ASSUME NEW e, IsEvent(e), NEW n, NEW d, d = [e EXCEPT !.note = n]
  PROVE  IsEvent(d) /\ SameEvent(d, e) /\ d.note = n
<1> DEFINE t == e.type
           k == e.key
           o == e.old
           w == e.new
           f == e.confidence
           m == e.note
<1>1. e = [type |-> t, key |-> k, old |-> o, new |-> w, confidence |-> f, note |-> m]
  BY DEF IsEvent
<1> HIDE DEF t, k, o, w, f, m
<1>2. d = [type |-> t, key |-> k, old |-> o, new |-> w, confidence |-> f, note |-> n]
  BY <1>1
<1>3. QED
  BY <1>1, <1>2 DEF IsEvent, SameEvent

LEMMA LoweredEvent ==
  ASSUME NEW e, IsEvent(e), NEW x, NEW n
  PROVE  IsEvent(Lowered(e, x, n)) /\ SameEvent(Lowered(e, x, n), e) /\ Lowered(e, x, n).note = n
<1> DEFINE y == Confidence(x, e.confidence)
           b == [e EXCEPT !.confidence = y]
           d == [b EXCEPT !.note = n]
<1>1. d = Lowered(e, x, n)
  BY DEF Lowered
<1> HIDE DEF y
<1>2. IsEvent(b) /\ SameEvent(b, e)
  BY EventConfidence
<1> HIDE DEF b
<1>3. IsEvent(d) /\ SameEvent(d, b) /\ d.note = n
  BY <1>2, EventNoted
<1> HIDE DEF d
<1>4. IsEvent(d) /\ SameEvent(d, e) /\ d.note = n
  BY <1>2, <1>3 DEF SameEvent
<1>5. QED
  BY <1>1, <1>4

LEMMA EventFields ==
  ASSUME NEW type, NEW k, NEW p, NEW c, NEW base
  PROVE  LET e == Event(type, k, p, c, base) IN
           IsEvent(e) /\ e.type = type /\ e.key = k /\ e.old = p.offer[k] /\ e.new = c.offer[k] /\ e.note = "none"
BY DEF Event, IsEvent

(* The changes that two readings draw, before they are finalized.          *)
Drawn(p, c) == PriceChanges(p, c) \cup PlansAddedOrRemoved(p, c) \cup PromotionChanges(p, c) \cup PromotionsAddedOrRemoved(p, c)

LEMMA DrawnEvents ==
  ASSUME NEW p, NEW c
  PROVE  /\ \A e \in Drawn(p, c) :
              /\ IsEvent(e) /\ e.note = "none"
              /\ e.type = "PRICE_CHANGE" =>
                   e.key \in Plans(p) \cap Plans(c) /\ e.old = p.offer[e.key] /\ e.new = c.offer[e.key]
         /\ \A k \in Plans(p) \cap Plans(c) : PriceMoved(p.offer[k], c.offer[k]) =>
              \E e \in Drawn(p, c) : e.type = "PRICE_CHANGE" /\ e.key = k
         /\ \A k \in ItemsIn(p) \cap ItemsIn(c) \cap Promotions : p.offer[k] # c.offer[k] =>
              \E e \in Drawn(p, c) : e.type = "PROMOTION_CHANGE" /\ e.key = k
         /\ \A k \in ItemsIn(p) \ ItemsIn(c) :
              \E e \in Drawn(p, c) : e.type \in {"PRODUCT_REMOVED", "PROMOTION_REMOVED"} /\ e.key = k
<1> DEFINE Base(k) == IF 0 \in {p.offer[k][1], c.offer[k][1]} THEN 70
                      ELSE IF CurrencyMoved(p.offer[k][2], c.offer[k][2]) THEN 85 ELSE 95
           moved == {x \in Plans(p) \cap Plans(c) : PriceMoved(p.offer[x], c.offer[x])}
           promoted == {x \in ItemsIn(p) \cap ItemsIn(c) \cap Promotions : p.offer[x] # c.offer[x]}
<1>1. PriceChanges(p, c) = {Event("PRICE_CHANGE", k, p, c, Base(k)) : k \in moved}
  BY DEF PriceChanges
<1>2. PlansAddedOrRemoved(p, c) = {Event("PRODUCT_ADDED", k, p, c, 80) : k \in Plans(c) \ Plans(p)}
                                    \cup {Event("PRODUCT_REMOVED", k, p, c, 70) : k \in Plans(p) \ Plans(c)}
  BY DEF PlansAddedOrRemoved
<1>3. PromotionChanges(p, c) = {Event("PROMOTION_CHANGE", k, p, c, 75) : k \in promoted}
  BY DEF PromotionChanges
<1>4. PromotionsAddedOrRemoved(p, c) = {Event("PROMOTION_ADDED", k, p, c, 75) : k \in (ItemsIn(c) \ ItemsIn(p)) \cap Promotions}
                                         \cup {Event("PROMOTION_REMOVED", k, p, c, 70) : k \in (ItemsIn(p) \ ItemsIn(c)) \cap Promotions}
  BY DEF PromotionsAddedOrRemoved
<1> HIDE DEF Base
<1>5. \A e \in PriceChanges(p, c) : /\ IsEvent(e) /\ e.note = "none"
                                    /\ e.key \in Plans(p) \cap Plans(c) /\ e.old = p.offer[e.key] /\ e.new = c.offer[e.key]
  BY <1>1, EventFields
<1>6. \A e \in PlansAddedOrRemoved(p, c) : IsEvent(e) /\ e.note = "none" /\ e.type \in {"PRODUCT_ADDED", "PRODUCT_REMOVED"}
  BY <1>2, EventFields
<1>7. \A e \in PromotionChanges(p, c) : IsEvent(e) /\ e.note = "none" /\ e.type = "PROMOTION_CHANGE"
  BY <1>3, EventFields
<1>8. \A e \in PromotionsAddedOrRemoved(p, c) : IsEvent(e) /\ e.note = "none" /\ e.type \in {"PROMOTION_ADDED", "PROMOTION_REMOVED"}
  BY <1>4, EventFields
<1>9. \A k \in Plans(p) \cap Plans(c) : PriceMoved(p.offer[k], c.offer[k]) =>
        \E e \in PriceChanges(p, c) : e.type = "PRICE_CHANGE" /\ e.key = k
  BY <1>1, EventFields
<1>10. \A k \in ItemsIn(p) \cap ItemsIn(c) \cap Promotions : p.offer[k] # c.offer[k] =>
        \E e \in PromotionChanges(p, c) : e.type = "PROMOTION_CHANGE" /\ e.key = k
  BY <1>3, EventFields
<1>11. \A k \in Plans(p) \ Plans(c) : \E e \in PlansAddedOrRemoved(p, c) : e.type = "PRODUCT_REMOVED" /\ e.key = k
  BY <1>2, EventFields
<1>12. \A k \in (ItemsIn(p) \ ItemsIn(c)) \cap Promotions :
         \E e \in PromotionsAddedOrRemoved(p, c) : e.type = "PROMOTION_REMOVED" /\ e.key = k
  BY <1>4, EventFields
<1>13. \A k \in ItemsIn(p) \ ItemsIn(c) : k \in Plans(p) \ Plans(c) \/ k \in (ItemsIn(p) \ ItemsIn(c)) \cap Promotions
  BY DEF Plans, ItemsIn, Items
<1>14. QED
  BY <1>5, <1>6, <1>7, <1>8, <1>9, <1>10, <1>11, <1>12, <1>13 DEF Drawn

(* Each step of the comparison keeps every event, under another confidence *)
(* and note.                                                               *)
Carries(after, before) ==
  /\ \A d \in after : IsEvent(d) /\ \E e \in before : SameEvent(d, e)
  /\ \A e \in before : \E d \in after : SameEvent(d, e)

LEMMA FinalizedKeeps ==
  ASSUME NEW events, NEW q, \A e \in events : IsEvent(e) /\ e.note = "none"
  PROVE  Carries(Finalized(events, q), events) /\ \A d \in Finalized(events, q) : d.note = "none"
<1> DEFINE F(e) == [e EXCEPT !.confidence = Confidence(@, q)]
           final == Finalized(events, q)
<1>1. final = {F(e) : e \in events}
  BY DEF Finalized
<1>2. ASSUME NEW e \in events
      PROVE  IsEvent(F(e)) /\ SameEvent(F(e), e) /\ F(e).note = "none"
  <2> DEFINE x == Confidence(e.confidence, q)
  <2>1. F(e) = [e EXCEPT !.confidence = x]
    OBVIOUS
  <2> HIDE DEF x, F
  <2>2. IsEvent(e) /\ e.note = "none"
    OBVIOUS
  <2>3. QED
    BY <2>1, <2>2, EventConfidence
<1> HIDE DEF F, final
<1>3. Carries(final, events) /\ \A d \in final : d.note = "none"
  BY <1>1, <1>2 DEF Carries
<1>4. QED
  BY <1>3 DEF final

LEMMA FlaggedKeeps ==
  ASSUME NEW events, NEW known, \A e \in events : IsEvent(e) /\ e.note = "none"
  PROVE  LET flagged == FlagOscillations(events, known) IN
           /\ Carries(flagged, events)
           /\ \A d \in flagged : d.type = "PRICE_CHANGE" /\ d.note = "none" => ~\E r \in known : Reverses(r, Change(d, 0, FALSE))
<1> DEFINE Turns(e) == e.type = "PRICE_CHANGE" /\ (\E r \in known : Reverses(r, Change(e, 0, FALSE)))
           F(e) == IF Turns(e) THEN Lowered(e, 50, "reverts") ELSE e
           flagged == FlagOscillations(events, known)
<1>1. flagged = {F(e) : e \in events}
  BY DEF FlagOscillations
<1>2. \A d, e : SameEvent(d, e) => (Turns(d) <=> Turns(e))
  BY DEF SameEvent, Change, EventCurrency
<1>3. ASSUME NEW e \in events
      PROVE  IsEvent(F(e)) /\ SameEvent(F(e), e) /\ (F(e).note = "none" => ~Turns(e))
  <2> HIDE DEF Turns
  <2>1. CASE Turns(e)
    <3>1. IsEvent(e) /\ F(e) = Lowered(e, 50, "reverts")
      BY <2>1
    <3>2. QED
      BY <3>1, LoweredEvent
  <2>2. CASE ~Turns(e)
    BY <2>2 DEF SameEvent
  <2>3. QED
    BY <2>1, <2>2
<1> HIDE DEF F
<1>4. Carries(flagged, events)
  BY <1>1, <1>3 DEF Carries
<1>5. \A d \in flagged : d.note = "none" => ~Turns(d)
  BY <1>1, <1>2, <1>3
<1> HIDE DEF flagged
<1>6. \A d \in flagged : d.type = "PRICE_CHANGE" /\ d.note = "none" => ~\E r \in known : Reverses(r, Change(d, 0, FALSE))
  BY <1>5
<1>7. QED
  BY <1>4, <1>6 DEF flagged

LEMMA LinkedKeeps ==
  ASSUME NEW events, \A e \in events : IsEvent(e)
  PROVE  LET linked == LinkPossibleRenames(events) IN
           /\ Carries(linked, events)
           /\ \A d \in linked : d.type = "PRICE_CHANGE" => d \in events
<1> DEFINE gone == {e \in events : e.type = "PRODUCT_REMOVED"}
           new == {e \in events : e.type = "PRODUCT_ADDED"}
           Only(r, a) == /\ {x \in new : SamePrice(r.old, x.new)} = {a}
                         /\ {x \in gone : SamePrice(x.old, a.new)} = {r}
           among == {e \in gone \cup new : \E r \in gone, a \in new : e \in {r, a} /\ Only(r, a)}
           F(e) == IF e \in among THEN Lowered(e, 80, "renamed") ELSE e
           linked == LinkPossibleRenames(events)
<1>1. linked = {F(e) : e \in events}
  BY DEF LinkPossibleRenames
<1>2. \A e \in among : e.type # "PRICE_CHANGE"
  <2>1. among \subseteq gone \cup new
    OBVIOUS
  <2> HIDE DEF among
  <2>2. QED
    BY <2>1
<1> HIDE DEF among
<1>3. ASSUME NEW e \in events
      PROVE  IsEvent(F(e)) /\ SameEvent(F(e), e) /\ (F(e).type = "PRICE_CHANGE" => F(e) = e)
  <2>1. CASE e \in among
    <3>1. IsEvent(e) /\ F(e) = Lowered(e, 80, "renamed")
      BY <2>1
    <3>2. e.type # "PRICE_CHANGE"
      BY <1>2, <2>1
    <3>3. QED
      BY <3>1, <3>2, LoweredEvent DEF SameEvent
  <2>2. CASE e \notin among
    BY <2>2 DEF SameEvent
  <2>3. QED
    BY <2>1, <2>2
<1> HIDE DEF F, linked
<1>4. Carries(linked, events) /\ \A d \in linked : d.type = "PRICE_CHANGE" => d \in events
  BY <1>1, <1>3 DEF Carries
<1>5. QED
  BY <1>4 DEF linked

LEMMA CarriesOn ==
  ASSUME NEW a, NEW b, NEW c, Carries(a, b), Carries(b, c)
  PROVE  Carries(a, c)
BY DEF Carries, SameEvent

(* What the comparison of two readings reports.                            *)
Reported(events, p, c, known) ==
  /\ \A e \in events : e.type = "PRICE_CHANGE" =>
       /\ e.key \in Plans(p) \cap Plans(c) /\ e.old = p.offer[e.key] /\ e.new = c.offer[e.key]
       /\ e.note = "none" => ~\E r \in known : Reverses(r, Change(e, 0, FALSE))
  /\ Verdict(p, c) = "changed" =>
       /\ \A k \in Plans(p) \cap Plans(c) : PriceMoved(p.offer[k], c.offer[k]) =>
            \E e \in events : e.type = "PRICE_CHANGE" /\ e.key = k
       /\ \A k \in ItemsIn(p) \cap ItemsIn(c) \cap Promotions : p.offer[k] # c.offer[k] =>
            \E e \in events : e.type = "PROMOTION_CHANGE" /\ e.key = k
       /\ \A k \in ItemsIn(p) \ ItemsIn(c) :
            \E e \in events : e.type \in {"PRODUCT_REMOVED", "PROMOTION_REMOVED"} /\ e.key = k

LEMMA ChangeEventsReport ==
  ASSUME NEW p, NEW c, NEW q, NEW known
  PROVE  Reported(ChangeEvents(p, c, q, known), p, c, known)
<1> DEFINE drawn == Drawn(p, c)
           final == Finalized(drawn, q)
           flagged == FlagOscillations(final, known)
           linked == LinkPossibleRenames(flagged)
           events == ChangeEvents(p, c, q, known)
<1>1. CASE Verdict(p, c) # "changed"
  BY <1>1 DEF ChangeEvents, Reported
<1>2. CASE Verdict(p, c) = "changed"
  <2>1. events = linked
    BY <1>2 DEF ChangeEvents, Drawn
  <2>2. Carries(final, drawn) /\ \A d \in final : IsEvent(d) /\ d.note = "none"
    BY DrawnEvents, FinalizedKeeps DEF Carries
  <2> HIDE DEF final
  <2>3. Carries(flagged, final) /\ (\A d \in flagged : IsEvent(d))
        /\ \A d \in flagged : d.type = "PRICE_CHANGE" /\ d.note = "none" => ~\E r \in known : Reverses(r, Change(d, 0, FALSE))
    BY <2>2, FlaggedKeeps DEF Carries
  <2> HIDE DEF flagged
  <2>4. Carries(linked, flagged) /\ \A d \in linked : d.type = "PRICE_CHANGE" => d \in flagged
    BY <2>3, LinkedKeeps
  <2> HIDE DEF linked
  <2>5. Carries(linked, drawn)
    BY <2>2, <2>3, <2>4, CarriesOn
  <2> HIDE DEF drawn, events
  <2>6. \A d \in linked : d.type = "PRICE_CHANGE" =>
          /\ d.key \in Plans(p) \cap Plans(c) /\ d.old = p.offer[d.key] /\ d.new = c.offer[d.key]
          /\ d.note = "none" => ~\E r \in known : Reverses(r, Change(d, 0, FALSE))
    <3> SUFFICES ASSUME NEW d \in linked, d.type = "PRICE_CHANGE"
                 PROVE  /\ d.key \in Plans(p) \cap Plans(c) /\ d.old = p.offer[d.key] /\ d.new = c.offer[d.key]
                        /\ d.note = "none" => ~\E r \in known : Reverses(r, Change(d, 0, FALSE))
      OBVIOUS
    <3>1. PICK e \in drawn : SameEvent(d, e)
      BY <2>5 DEF Carries
    <3>2. e.key \in Plans(p) \cap Plans(c) /\ e.old = p.offer[e.key] /\ e.new = c.offer[e.key]
      BY <3>1, DrawnEvents DEF SameEvent, drawn
    <3>3. QED
      BY <2>3, <2>4, <3>1, <3>2 DEF SameEvent
  <2>7. \A e \in drawn : \E d \in linked : d.type = e.type /\ d.key = e.key
    BY <2>5 DEF Carries, SameEvent
  <2>8. /\ \A k \in Plans(p) \cap Plans(c) : PriceMoved(p.offer[k], c.offer[k]) =>
             \E e \in linked : e.type = "PRICE_CHANGE" /\ e.key = k
        /\ \A k \in ItemsIn(p) \cap ItemsIn(c) \cap Promotions : p.offer[k] # c.offer[k] =>
             \E e \in linked : e.type = "PROMOTION_CHANGE" /\ e.key = k
        /\ \A k \in ItemsIn(p) \ ItemsIn(c) :
             \E e \in linked : e.type \in {"PRODUCT_REMOVED", "PROMOTION_REMOVED"} /\ e.key = k
    <3>1. /\ \A k \in Plans(p) \cap Plans(c) : PriceMoved(p.offer[k], c.offer[k]) =>
               \E e \in drawn : e.type = "PRICE_CHANGE" /\ e.key = k
          /\ \A k \in ItemsIn(p) \cap ItemsIn(c) \cap Promotions : p.offer[k] # c.offer[k] =>
               \E e \in drawn : e.type = "PROMOTION_CHANGE" /\ e.key = k
          /\ \A k \in ItemsIn(p) \ ItemsIn(c) :
               \E e \in drawn : e.type \in {"PRODUCT_REMOVED", "PROMOTION_REMOVED"} /\ e.key = k
      BY DrawnEvents DEF drawn
    <3>2. QED
      BY <2>7, <3>1
  <2>9. QED
    BY <2>1, <2>6, <2>8 DEF events, Reported
<1>3. QED
  BY <1>1, <1>2

-----------------------------------------------------------------------------
LEMMA GoneIsNoOffer == Gone \notin Offers
BY DEF Gone, Offers

(* One scan, for one item.                                                 *)
LEMMA ObservedEffect ==
  ASSUME HistoryInv, NEW c \in Readings, NEW k \in Items
  PROVE  LET o == Observed(k, c) IN
           /\ o \in [status : {"NONE", "ACTIVE", "ABSENT"}, value : Offers \cup {Gone}]
           /\ (o.status = "NONE") = (o.value = Gone)
           /\ c.offer[k] # Gone => o = [status |-> "ACTIVE", value |-> c.offer[k]]
           /\ c.offer[k] = Gone => o.status = "NONE" <=> item[k].status = "NONE"
           /\ c.offer[k] = Gone /\ ItemsIn(c) # {} => o.status # "ACTIVE"
<1>1. /\ item[k] \in [status : {"NONE", "ACTIVE", "ABSENT"}, value : Offers \cup {Gone}]
      /\ (item[k].status = "NONE") = (item[k].value = Gone)
  BY DEF HistoryInv, HistoryTypeOK
<1>2. c.offer[k] \in Offers \cup {Gone}
  BY DEF Readings
<1>3. CASE c.offer[k] # Gone
  BY <1>2, <1>3 DEF Observed
<1>4. CASE c.offer[k] = Gone /\ item[k].status = "ACTIVE" /\ ItemsIn(c) # {}
  <2>1. Observed(k, c) = [item[k] EXCEPT !.status = "ABSENT"]
    BY <1>4 DEF Observed
  <2>2. Observed(k, c) = [status |-> "ABSENT", value |-> item[k].value]
    BY <1>1, <2>1
  <2>3. QED
    BY <1>1, <1>4, <2>2
<1>5. CASE c.offer[k] = Gone /\ ~(item[k].status = "ACTIVE" /\ ItemsIn(c) # {})
  BY <1>1, <1>5 DEF Observed
<1>6. QED
  BY <1>3, <1>4, <1>5

ScanEvents(c, quality, gap) == ChangeEvents(reading, c, quality, StillRecent(gap))
RemovedIn(events) == {e.key : e \in {x \in events : x.type \in {"PRODUCT_REMOVED", "PROMOTION_REMOVED"}}}
ChangesIn(events) == {Change(e, 0, Signalled(e, events)) : e \in {x \in events : x.type = "PRICE_CHANGE"}}

LEMMA ScanEffect ==
  ASSUME NEW c, NEW quality, NEW gap, Scan(c, quality, gap)
  PROVE  LET events == ScanEvents(c, quality, gap) IN
           /\ recent' = StillRecent(gap) \cup ChangesIn(events)
           /\ Verdict(reading, c) = "unverified" => UNCHANGED <<reading, item, told>>
           /\ Verdict(reading, c) # "unverified" =>
                /\ reading' = c /\ item' = [k \in Items |-> Observed(k, c)]
                /\ told' = [k \in Items |-> c.offer[k] = Gone /\ (told[k] \/ k \in RemovedIn(events) \/ Verdict(reading, c) = "baseline")]
BY DEF Scan, ScanEvents, RemovedIn, ChangesIn

LEMMA ReadingStep ==
  ASSUME HistoryInv, NEW c \in Readings, NEW quality, NEW gap, Scan(c, quality, gap)
  PROVE  /\ reading' = <<>> \/ reading' \in Readings
         /\ item' \in [Items -> [status : {"NONE", "ACTIVE", "ABSENT"}, value : Offers \cup {Gone}]]
         /\ \A k \in Items : (item'[k].status = "NONE") = (item'[k].value = Gone)
         /\ told' \in [Items -> BOOLEAN] /\ HistoryMatchesReading' /\ SeenOrTold'
<1> DEFINE events == ScanEvents(c, quality, gap)
<1>0. /\ reading = <<>> \/ reading \in Readings
      /\ item \in [Items -> [status : {"NONE", "ACTIVE", "ABSENT"}, value : Offers \cup {Gone}]]
      /\ \A k \in Items : (item[k].status = "NONE") = (item[k].value = Gone)
      /\ told \in [Items -> BOOLEAN] /\ HistoryMatchesReading /\ SeenOrTold
  BY DEF HistoryInv, HistoryTypeOK
<1>1. CASE Verdict(reading, c) = "unverified"
  <2>1. UNCHANGED <<reading, item, told>>
    BY <1>1, ScanEffect
  <2>2. HistoryMatchesReading' /\ SeenOrTold'
    BY <1>0, <2>1 DEF HistoryMatchesReading, SeenOrTold, ItemsIn
  <2>3. QED
    BY <1>0, <2>1, <2>2
<1>2. CASE Verdict(reading, c) # "unverified"
  <2>1. /\ reading' = c /\ item' = [k \in Items |-> Observed(k, c)]
        /\ told' = [k \in Items |-> c.offer[k] = Gone /\ (told[k] \/ k \in RemovedIn(events) \/ Verdict(reading, c) = "baseline")]
    BY <1>2, ScanEffect
  <2>2. \A k \in Items :
           /\ item'[k] = Observed(k, c)
           /\ told'[k] <=> c.offer[k] = Gone /\ (told[k] \/ k \in RemovedIn(events) \/ Verdict(reading, c) = "baseline")
    BY <2>1
  <2>3. told' \in [Items -> BOOLEAN]
    BY <2>1
  <2>4. c # <<>> /\ ItemsIn(c) = ItemsIn(reading')
    <3>1. c # <<>>
      BY DEF Readings
    <3>2. QED
      BY <2>1, <3>1
  <2>5. HistoryMatchesReading'
    <3> SUFFICES ASSUME NEW k \in Items
                 PROVE  IF c.offer[k] # Gone
                          THEN item'[k].status = "ACTIVE" /\ item'[k].value = c.offer[k]
                          ELSE ItemsIn(c) # {} => item'[k].status # "ACTIVE"
      BY <2>1, <2>4 DEF HistoryMatchesReading, ItemsIn
    <3>1. QED
      BY <2>2, ObservedEffect
  <2>6. SeenOrTold'
    <3> SUFFICES ASSUME NEW k \in Items, item'[k].status # "NONE", c.offer[k] = Gone
                 PROVE  told[k] \/ k \in RemovedIn(events) \/ Verdict(reading, c) = "baseline"
      BY <2>1, <2>2, <2>4 DEF SeenOrTold
    <3>1. item[k].status # "NONE"
      BY <2>2, ObservedEffect
    <3>2. reading # <<>> /\ (reading.offer[k] = Gone => told[k])
      BY <1>0, <3>1 DEF SeenOrTold
    <3>3. CASE reading.offer[k] = Gone
      BY <3>2, <3>3
    <3>4. CASE reading.offer[k] # Gone /\ Verdict(reading, c) # "baseline"
      <4>1. Verdict(reading, c) = "changed"
        BY <1>2, <3>4, VerdictFacts
      <4>2. k \in ItemsIn(reading) \ ItemsIn(c)
        BY <3>4 DEF ItemsIn
      <4>3. PICK e \in events : e.type \in {"PRODUCT_REMOVED", "PROMOTION_REMOVED"} /\ e.key = k
        <5>1. Reported(events, reading, c, StillRecent(gap))
          BY ChangeEventsReport DEF ScanEvents
        <5> HIDE DEF events
        <5>2. QED
          BY <4>1, <4>2, <5>1 DEF Reported
      <4>4. QED
        BY <4>3 DEF RemovedIn
    <3>5. QED
      BY <3>3, <3>4
  <2>7. \A k \in Items : /\ item'[k] \in [status : {"NONE", "ACTIVE", "ABSENT"}, value : Offers \cup {Gone}]
                         /\ (item'[k].status = "NONE") = (item'[k].value = Gone)
    BY <2>2, ObservedEffect
  <2>8. item' \in [Items -> [status : {"NONE", "ACTIVE", "ABSENT"}, value : Offers \cup {Gone}]]
    BY <2>1, <2>7
  <2>9. QED
    BY <2>1, <2>3, <2>5, <2>6, <2>7, <2>8
<1>3. QED
  BY <1>1, <1>2

(* Two changes of which one turns the other back.                          *)
LEMMA ReversalIsMutual ==
  ASSUME NEW r, NEW s, Reverses(r, s)
  PROVE  Reverses(s, r)
BY DEF Reverses, CurrencyMoved

(* Reversal looks only at the key, the two amounts and the currency.       *)
LEMMA ReversalOf ==
  ASSUME NEW r, NEW s, NEW q, Reverses(r, s),
         q.key = s.key /\ q.old = s.old /\ q.new = s.new /\ q.currency = s.currency
  PROVE  Reverses(r, q)
BY DEF Reverses

LEMMA AgedChange ==
  ASSUME NEW gap \in Nat, NEW r \in StillRecent(gap), recent \subseteq ChangeRow
  PROVE  /\ r \in ChangeRow
         /\ \E x \in recent : r.key = x.key /\ r.old = x.old /\ r.new = x.new /\ r.currency = x.currency /\ r.signalled = x.signalled
<1>1. PICK x \in recent : x.age + gap <= Window /\ r = [x EXCEPT !.age = x.age + gap]
  BY DEF StillRecent
<1>2. x \in ChangeRow
  OBVIOUS
<1>3. x.age + gap \in 0..Window
  BY <1>1, <1>2, HistoryConstants DEF ChangeRow
<1> DEFINE a == x.age + gap
<1> HIDE DEF a
<1>4. r = [x EXCEPT !.age = a] /\ a \in 0..Window
  BY <1>1, <1>3 DEF a
<1>5. /\ r \in ChangeRow
      /\ r.key = x.key /\ r.old = x.old /\ r.new = x.new /\ r.currency = x.currency /\ r.signalled = x.signalled
  BY <1>2, <1>4 DEF ChangeRow
<1>6. QED
  BY <1>5

LEMMA ChangeFields ==
  ASSUME NEW e, NEW gap, NEW b
  PROVE  LET r == Change(e, gap, b) IN
           /\ r = [key |-> e.key, old |-> e.old[1], new |-> e.new[1], currency |-> EventCurrency(e), age |-> gap, signalled |-> b]
           /\ r.key = e.key /\ r.old = e.old[1] /\ r.new = e.new[1] /\ r.currency = EventCurrency(e) /\ r.signalled = b
BY DEF Change

LEMMA RecentStep ==
  ASSUME HistoryInv, NEW c \in Readings, NEW quality, NEW gap \in Nat, Scan(c, quality, gap)
  PROVE  recent' \subseteq ChangeRow /\ NoSignalForReversal'
<1> DEFINE events == ScanEvents(c, quality, gap)
           known == StillRecent(gap)
<1>1. recent' = known \cup ChangesIn(events)
  BY ScanEffect
<1>2. /\ recent \subseteq ChangeRow /\ \A r, s \in recent : r.signalled /\ s.signalled => ~Reverses(r, s)
      /\ reading = <<>> \/ reading \in Readings
  BY DEF HistoryInv, HistoryTypeOK, NoSignalForReversal
<1>3. \A e \in events : e.type = "PRICE_CHANGE" =>
                /\ e.key \in Plans(reading) \cap Plans(c) /\ e.old = reading.offer[e.key] /\ e.new = c.offer[e.key]
                /\ e.note = "none" => ~\E r \in known : Reverses(r, Change(e, 0, FALSE))
  <2>1. Reported(events, reading, c, known)
    BY ChangeEventsReport DEF ScanEvents
  <2> HIDE DEF events, known
  <2>2. QED
    BY <2>1 DEF Reported
<1>4. ASSUME NEW s \in ChangesIn(events)
      PROVE  /\ s \in ChangeRow
             /\ \E e \in events : /\ e.type = "PRICE_CHANGE" /\ s = Change(e, 0, Signalled(e, events))
                                  /\ e.old = reading.offer[e.key] /\ e.new = c.offer[e.key]
                                  /\ e.note = "none" => ~\E r \in known : Reverses(r, Change(e, 0, FALSE))
  <2>1. PICK e \in events : e.type = "PRICE_CHANGE" /\ s = Change(e, 0, Signalled(e, events))
    BY DEF ChangesIn
  <2>2. /\ e.key \in Plans(reading) \cap Plans(c) /\ e.old = reading.offer[e.key] /\ e.new = c.offer[e.key]
        /\ e.note = "none" => ~\E r \in known : Reverses(r, Change(e, 0, FALSE))
    BY <1>3, <2>1
  <2>3. e.key \in Prices /\ e.key \in Items /\ reading.offer[e.key] # Gone /\ c.offer[e.key] # Gone
    BY <2>2 DEF Plans, ItemsIn
  <2>4. Verdict(reading, c) = "changed"
    BY <2>1 DEF ScanEvents, ChangeEvents
  <2>5. reading \in Readings
    BY <1>2, <2>4, VerdictFacts
  <2>6. e.old \in Offers /\ e.new \in Offers
    BY <2>2, <2>3, <2>5 DEF Readings
  <2>7. /\ e.old[1] \in Amounts /\ e.new[1] \in Amounts
        /\ e.old[2] \in Currencies \cup {Unknown} /\ e.new[2] \in Currencies \cup {Unknown}
    BY <2>6 DEF Offers
  <2>8. EventCurrency(e) \in Currencies \cup {Unknown}
    BY <2>7 DEF EventCurrency
  <2>9. Signalled(e, events) \in BOOLEAN
    BY DEF Signalled
  <2> DEFINE b == Signalled(e, events)
             cur == EventCurrency(e)
  <2> HIDE DEF b, cur
  <2>10. s = [key |-> e.key, old |-> e.old[1], new |-> e.new[1], currency |-> cur, age |-> 0, signalled |-> b]
    BY <2>1 DEF Change, b, cur
  <2>11. s \in ChangeRow
    BY <2>3, <2>7, <2>8, <2>9, <2>10, HistoryConstants DEF ChangeRow, b, cur
  <2>12. QED
    BY <2>1, <2>2, <2>11
<1>5. recent' \subseteq ChangeRow
  BY <1>1, <1>2, <1>4, AgedChange
<1>6. ASSUME NEW r \in known, NEW s \in ChangesIn(events), s.signalled
      PROVE  ~Reverses(r, s)
  <2>1. PICK e \in events : /\ e.type = "PRICE_CHANGE" /\ s = Change(e, 0, Signalled(e, events))
                            /\ e.note = "none" => ~\E q \in known : Reverses(q, Change(e, 0, FALSE))
    BY <1>4
  <2>2. s.signalled = Signalled(e, events)
    BY <2>1, ChangeFields
  <2>3. e.note = "none"
    BY <1>6, <2>2 DEF Signalled
  <2>4. ~Reverses(r, Change(e, 0, FALSE))
    BY <2>1, <2>3
  <2> DEFINE q == Change(e, 0, FALSE)
  <2>5. q.key = s.key /\ q.old = s.old /\ q.new = s.new /\ q.currency = s.currency
    BY <2>1 DEF Change
  <2> HIDE DEF q
  <2>6. Reverses(r, s) => Reverses(r, q)
    BY <2>5, ReversalOf
  <2>7. QED
    BY <2>4, <2>6 DEF q
<1>7. ASSUME NEW r \in ChangesIn(events), NEW s \in ChangesIn(events), s.signalled
      PROVE  ~Reverses(r, s)
  <2>1. PICK d \in events : /\ d.type = "PRICE_CHANGE" /\ r = Change(d, 0, Signalled(d, events))
                            /\ d.old = reading.offer[d.key] /\ d.new = c.offer[d.key]
    BY <1>4
  <2>2. PICK e \in events : /\ e.type = "PRICE_CHANGE" /\ s = Change(e, 0, Signalled(e, events))
                            /\ e.old = reading.offer[e.key] /\ e.new = c.offer[e.key]
    BY <1>4
  <2>3. s.signalled = Signalled(e, events) /\ s.key = e.key /\ s.new = e.new[1] /\ r.key = d.key /\ r.old = d.old[1]
    BY <2>1, <2>2, ChangeFields
  <2>4. e.old[1] # e.new[1]
    BY <1>7, <2>2, <2>3 DEF Signalled
  <2> SUFFICES ASSUME Reverses(r, s) PROVE FALSE
    OBVIOUS
  <2>5. r.key = s.key /\ r.old = s.new
    BY DEF Reverses
  <2>6. QED
    BY <2>1, <2>2, <2>3, <2>4, <2>5
<1>8. ASSUME NEW r \in known, NEW s \in known, r.signalled, s.signalled
      PROVE  ~Reverses(r, s)
  <2>1. PICK x \in recent : r.key = x.key /\ r.old = x.old /\ r.new = x.new /\ r.currency = x.currency /\ r.signalled = x.signalled
    BY <1>2, AgedChange
  <2>2. PICK y \in recent : s.key = y.key /\ s.old = y.old /\ s.new = y.new /\ s.currency = y.currency /\ s.signalled = y.signalled
    BY <1>2, AgedChange
  <2>3. ~Reverses(x, y)
    BY <1>2, <1>8, <2>1, <2>2
  <2>4. QED
    BY <2>1, <2>2, <2>3 DEF Reverses
<1> HIDE DEF known, events
<1>9. NoSignalForReversal'
  <2> SUFFICES ASSUME NEW r \in recent', NEW s \in recent', r.signalled, s.signalled
               PROVE  ~Reverses(r, s)
    BY DEF NoSignalForReversal
  <2>1. CASE r \in known /\ s \in known
    BY <1>8, <2>1
  <2>2. CASE s \in ChangesIn(events)
    BY <1>1, <1>6, <1>7, <2>2
  <2>3. CASE r \in ChangesIn(events) /\ s \in known
    BY <1>6, <2>3, ReversalIsMutual
  <2>4. QED
    BY <1>1, <2>1, <2>2, <2>3
<1>10. QED
  BY <1>5, <1>9

(* A version that no event explains.                                       *)
Unexplained(k) ==
  item'[k] # item[k] /\ Origin(k, reading', ChangeEvents(reading, reading', 100, {})) = "BASELINE" =>
    \/ Verdict(reading, reading') = "baseline"
    \/ Unknown \in {item[k].value[2], item'[k].value[2]}
    \/ ItemsIn(reading) = {}

LEMMA SamePriceMeans ==
  ASSUME NEW o \in Offers, NEW n \in Offers, o # n, ~PriceMoved(o, n)
  PROVE  Unknown \in {o[2], n[2]}
<1>1. SamePrice(o, n)
  BY DEF PriceMoved
<1>2. o[1] = n[1] /\ ~CurrencyMoved(o[2], n[2])
  BY <1>1 DEF SamePrice
<1>3. o[2] = n[2] => o = n
  BY <1>2 DEF Offers
<1>4. QED
  BY <1>2, <1>3 DEF CurrencyMoved

LEMMA OriginMeans ==
  ASSUME NEW k, NEW c, NEW events, Origin(k, c, events) = "BASELINE"
  PROVE  /\ c.offer[k] # Gone /\ item[k] # Observed(k, c) /\ item[k].status \notin {"NONE", "ABSENT"}
         /\ ~\E e \in events : e.key = k /\ e.type \in {"PRICE_CHANGE", "PROMOTION_CHANGE"}
BY DEF Origin

LEMMA UnexplainedStep ==
  ASSUME HistoryInv, NEW c \in Readings, NEW quality, NEW gap, Scan(c, quality, gap), NEW k \in Items
  PROVE  Unexplained(k)
<1> DEFINE events == ChangeEvents(reading, c, 100, {})
<1> SUFFICES ASSUME item'[k] # item[k], Origin(k, reading', ChangeEvents(reading, reading', 100, {})) = "BASELINE",
                    Verdict(reading, reading') # "baseline", ItemsIn(reading) # {}
             PROVE  Unknown \in {item[k].value[2], item'[k].value[2]}
  BY DEF Unexplained
<1>1. Verdict(reading, c) # "unverified"
  BY ScanEffect
<1>2. reading' = c /\ item'[k] = Observed(k, c)
  BY <1>1, ScanEffect
<1>3. /\ c.offer[k] # Gone /\ item[k] # Observed(k, c) /\ item[k].status \notin {"NONE", "ABSENT"}
      /\ ~\E e \in events : e.key = k /\ e.type \in {"PRICE_CHANGE", "PROMOTION_CHANGE"}
  BY <1>2, OriginMeans
<1>4. item[k].status = "ACTIVE" /\ item[k] \in [status : {"NONE", "ACTIVE", "ABSENT"}, value : Offers \cup {Gone}]
  BY <1>3 DEF HistoryInv, HistoryTypeOK
<1>5. reading # <<>> /\ reading \in Readings
  BY <1>4 DEF HistoryInv, SeenOrTold, HistoryTypeOK
<1>6. reading.offer[k] # Gone /\ item[k].value = reading.offer[k]
  BY <1>4, <1>5 DEF HistoryInv, HistoryMatchesReading
<1>7. Observed(k, c) = [status |-> "ACTIVE", value |-> c.offer[k]]
  BY <1>3, ObservedEffect
<1>8. reading.offer[k] # c.offer[k]
  BY <1>3, <1>4, <1>6, <1>7
<1>9. Verdict(reading, c) = "changed"
  BY <1>1, <1>2, <1>8, VerdictFacts
<1>10. k \in ItemsIn(reading) \cap ItemsIn(c)
  BY <1>3, <1>6 DEF ItemsIn
<1>11. k \notin Promotions
  <2>1. Reported(events, reading, c, {})
    BY ChangeEventsReport
  <2> HIDE DEF events
  <2>2. QED
    BY <1>3, <1>8, <1>9, <1>10, <2>1 DEF Reported
<1>12. k \in Plans(reading) \cap Plans(c)
  BY <1>10, <1>11 DEF Plans, Items
<1>13. ~PriceMoved(reading.offer[k], c.offer[k])
  <2>1. Reported(events, reading, c, {})
    BY ChangeEventsReport
  <2> HIDE DEF events
  <2>2. QED
    BY <1>3, <1>9, <1>12, <2>1 DEF Reported
<1>14. reading.offer[k] \in Offers /\ c.offer[k] \in Offers
  BY <1>3, <1>5, <1>6 DEF Readings
<1>15. Unknown \in {reading.offer[k][2], c.offer[k][2]}
  BY <1>8, <1>13, <1>14, SamePriceMeans
<1>16. QED
  BY <1>2, <1>6, <1>7, <1>15

LEMMA HistoryStep ==
  ASSUME HistoryInv, [HistoryNext]_hVars
  PROVE  HistoryInv' /\ \A k \in Items : item' = item \/ Unexplained(k)
<1>1. CASE HistoryNext
  <2>1. PICK c \in Readings, q \in Qualities, gap \in Gaps : Scan(c, q, gap)
    BY <1>1 DEF HistoryNext
  <2>2. gap \in Nat
    BY HistoryConstants
  <2>3. recent' \subseteq ChangeRow /\ NoSignalForReversal'
    BY <2>1, <2>2, RecentStep
  <2>4. \A r \in recent' : r.key \in Prices /\ r.age \in 0..Window
    BY <2>3 DEF ChangeRow
  <2>5. QED
    BY <2>1, <2>3, <2>4, ReadingStep, UnexplainedStep DEF HistoryInv, HistoryTypeOK
<1>2. CASE UNCHANGED hVars
  <2>1. UNCHANGED <<reading, item, recent, told>>
    BY <1>2 DEF hVars
  <2>2. QED
    BY <2>1 DEF HistoryInv, HistoryTypeOK, HistoryMatchesReading, SeenOrTold, NoSignalForReversal, ItemsIn
<1>3. QED
  BY <1>1, <1>2

LEMMA HistoryInitially == HistoryInit => HistoryInv
<1> SUFFICES ASSUME HistoryInit PROVE HistoryInv
  OBVIOUS
<1>1. \A k \in Items : item[k] = NoItem /\ NoItem.status = "NONE" /\ NoItem.value = Gone
  BY DEF HistoryInit, NoItem
<1>2. NoItem \in [status : {"NONE", "ACTIVE", "ABSENT"}, value : Offers \cup {Gone}]
  BY DEF NoItem
<1>3. HistoryTypeOK
  BY <1>1, <1>2 DEF HistoryInit, HistoryTypeOK
<1>4. QED
  BY <1>1, <1>3 DEF HistoryInit, HistoryInv, HistoryMatchesReading, SeenOrTold, NoSignalForReversal

(* In every behaviour of the scans of a page its items have their types    *)
(* and end in what the latest trusted scan read, no absence and no version *)
(* goes unexplained, and no price that flickers becomes two signals        *)
(* (compareSnapshots, recordEntityObservations, deriveSignals).            *)
THEOREM HistoryIsTold == HistorySpec => []HistoryTypeOK /\ HistoryTellsWhatWasRead
<1>1. HistoryInv /\ [HistoryNext]_hVars => HistoryInv'
  BY HistoryStep
<1>2. HistoryInv => HistoryTypeOK /\ HistoryMatchesReading /\ AbsenceIsTold /\ NoSignalForReversal
  <2> SUFFICES ASSUME HistoryInv, NEW k \in Items, item[k].status = "ABSENT"
               PROVE  told[k]
    BY DEF HistoryInv, AbsenceIsTold
  <2>1. reading # <<>> /\ (reading.offer[k] = Gone => told[k])
    BY DEF HistoryInv, SeenOrTold
  <2>2. reading.offer[k] = Gone
    BY <2>1 DEF HistoryInv, HistoryMatchesReading
  <2>3. QED
    BY <2>1, <2>2
<1>3. HistoryInv /\ [HistoryNext]_hVars =>
        [\A k \in Items :
           item'[k] # item[k] /\ Origin(k, reading', ChangeEvents(reading, reading', 100, {})) = "BASELINE" =>
             \/ Verdict(reading, reading') = "baseline"
             \/ Unknown \in {item[k].value[2], item'[k].value[2]}
             \/ ItemsIn(reading) = {}]_item
  BY HistoryStep DEF Unexplained
<1>4. QED
  BY <1>1, <1>2, <1>3, HistoryInitially, PTL DEF HistorySpec, HistoryTellsWhatWasRead, UnexplainedIsBaseline

-----------------------------------------------------------------------------
(* A row as the rules or the AI check leave it.                            *)
WellKept(r) ==
  /\ r \in Rows \cup {NoObs}
  /\ r.method = "AI" => r = Inferred
  /\ r.state = "ABSENT" <=> r.miss = Misses
Marks == [without : 0..Misses, unwatched : BOOLEAN, event : {"NONE", "ADDED", "REMOVED"}, silent : BOOLEAN]

(* What the history kept of a row agrees with the row: it counted no fewer *)
(* scans without it, and the last event told of its present state.         *)
MarkAgrees(r, h) ==
  /\ IsFound(r) /\ ~h.unwatched => h.without >= r.miss
  /\ h.event = "ADDED" /\ ~h.silent => r.state = "PRESENT"
  /\ h.event = "REMOVED" /\ ~h.silent => r.state # "PRESENT"

ObservationInv ==
  /\ text \in Texts /\ packs \in (SUBSET Packs) \ {{}}
  /\ phrase \in [Own -> Phrases \cup {NoPhrase, Undefined}]
  /\ obs \in [Keys -> Rows \cup {NoObs}] /\ heard \in [Keys -> Marks]
  /\ \A k \in Keys : WellKept(obs[k]) /\ MarkAgrees(obs[k], heard[k])
  /\ answer.at \in {"idle", "asked", "read"} /\ answer = [at |-> answer.at, keys |-> answer.keys, rows |-> answer.rows, gone |-> answer.gone]
  /\ answer.keys \subseteq Keys
  /\ answer.at = "read" => \A k \in answer.keys : WellKept(answer.rows[k])
  /\ edit.at \in {"idle", "page", "row"} /\ edit = [at |-> edit.at, key |-> edit.key, match |-> edit.match, row |-> edit.row]
  /\ edit.at # "idle" => edit.key \in Own /\ edit.match \in BOOLEAN
  /\ edit.at = "row" => WellKept(edit.row)

LEMMA RowsKept ==
  /\ WellKept(NoObs) /\ WellKept(Found) /\ WellKept(Inferred)
  /\ ~IsFound(NoObs) /\ ~IsFound(Inferred) /\ IsFound(Found)
  /\ NoObs.state = "NONE" /\ Found.state = "PRESENT" /\ Inferred.state = "PRESENT" /\ Found.miss = 0
BY CapabilityConstants DEF WellKept, Rows, NoObs, Found, Inferred, IsFound

(* What a scan makes of one row.                                           *)
LEMMA ObservedAsEffect ==
  ASSUME NEW t \in Texts, NEW k \in Keys, WellKept(obs[k])
  PROVE  /\ WellKept(ObservedAs(t, k))
         /\ \/ ObservedAs(t, k) = Found /\ k \in Enabled /\ Says(t, k)
            \/ ObservedAs(t, k) = obs[k] /\ ~(k \in Enabled /\ Says(t, k)) /\ ~Missed(t, k)
            \/ /\ Missed(t, k) /\ ~Says(t, k) /\ ~t.partial /\ k \in Enabled /\ IsFound(obs[k])
               /\ obs[k].miss \in 0..(Misses - 1) /\ ObservedAs(t, k).miss = obs[k].miss + 1
               /\ ObservedAs(t, k).method = "DETERMINISTIC"
               /\ ObservedAs(t, k).state = (IF obs[k].miss + 1 = Misses THEN "ABSENT" ELSE "PRESENT")
<1>1. CASE k \in Enabled /\ Says(t, k)
  BY <1>1, RowsKept DEF ObservedAs
<1>2. CASE ~(k \in Enabled /\ Says(t, k)) /\ ~Missed(t, k)
  BY <1>2 DEF ObservedAs
<1>3. CASE ~(k \in Enabled /\ Says(t, k)) /\ Missed(t, k)
  <2> DEFINE r == obs[k]
             q == [r EXCEPT !.miss = @ + 1, !.state = IF r.miss + 1 >= Misses THEN "ABSENT" ELSE @]
  <2>1. /\ r.state = "PRESENT" /\ r.method = "DETERMINISTIC" /\ ~t.partial /\ k \in Enabled /\ ~Says(t, k)
        /\ ObservedAs(t, k) = q
    BY <1>3 DEF Missed, ObservedAs
  <2>2. r \in Rows /\ r.miss # Misses
    BY <2>1 DEF WellKept, NoObs
  <2>3. r.miss \in 0..(Misses - 1) /\ IsFound(r)
    BY <2>1, <2>2, CapabilityConstants DEF Rows, IsFound
  <2>4. q = [state |-> IF r.miss + 1 >= Misses THEN "ABSENT" ELSE "PRESENT", method |-> "DETERMINISTIC", miss |-> r.miss + 1]
    BY <2>1, <2>2 DEF Rows
  <2> HIDE DEF q
  <2>5. WellKept(q)
    BY <2>3, <2>4, CapabilityConstants DEF WellKept, Rows, NoObs
  <2>6. q.state = (IF r.miss + 1 = Misses THEN "ABSENT" ELSE "PRESENT") /\ q.miss = r.miss + 1 /\ q.method = "DETERMINISTIC"
    BY <2>3, <2>4, CapabilityConstants
  <2>7. QED
    BY <1>3, <2>1, <2>3, <2>5, <2>6
<1>4. QED
  BY <1>1, <1>2, <1>3

(* The additions and removals of a scan are among the rows that moved.     *)
LEMMA RaisedOnes ==
  ASSUME NEW keys, NEW t, NEW baseline
  PROVE  Raised(keys, t, baseline) \subseteq keys
BY DEF Raised

LEMMA HeardAfterEffect ==
  ASSUME NEW t \in Texts, NEW k \in Keys, NEW appeared, NEW removed,
         appeared \subseteq Appeared(t), removed \subseteq Disappeared(t),
         WellKept(obs[k]), heard[k] \in Marks, MarkAgrees(obs[k], heard[k])
  PROVE  LET h == HeardAfter(t, k, appeared, removed)  q == ObservedAs(t, k) IN
           /\ h \in Marks /\ MarkAgrees(q, h)
           /\ obs[k].state = "PRESENT" /\ q.state = "ABSENT" => h.without >= Misses \/ heard[k].unwatched
           /\ h.event # "NONE" /\ ~h.silent /\ ~heard[k].silent /\ obs[k].state # q.state => h.event # heard[k].event
<1> DEFINE s == heard[k]
           q == ObservedAs(t, k)
           h == HeardAfter(t, k, appeared, removed)
           up == k \in Appeared(t)
           down == k \in Disappeared(t)
           follows == IsFound(q) \/ down
<1>1. /\ up <=> obs[k].state # "PRESENT" /\ q.state = "PRESENT"
      /\ down <=> obs[k].state = "PRESENT" /\ q.state = "ABSENT"
  BY DEF Appeared, Disappeared
<1>2. /\ h.without = (IF Says(t, k) \/ ~follows THEN 0 ELSE IF t.partial \/ s.without = Misses THEN s.without ELSE s.without + 1)
      /\ h.unwatched = (follows /\ (k \notin Enabled \/ (s.unwatched /\ ~Says(t, k))))
      /\ h.event = (IF k \in appeared THEN "ADDED" ELSE IF k \in removed THEN "REMOVED" ELSE s.event)
      /\ h.silent = (h.event # "NONE" /\ k \notin appeared \cup removed /\ (s.silent \/ up \/ down))
      /\ h = [without |-> h.without, unwatched |-> h.unwatched, event |-> h.event, silent |-> h.silent]
  BY DEF HeardAfter
<1>3. /\ s.without \in 0..Misses /\ s.unwatched \in BOOLEAN /\ s.silent \in BOOLEAN /\ s.event \in {"NONE", "ADDED", "REMOVED"}
      /\ Misses \in Nat \ {0}
  BY CapabilityConstants DEF Marks
<1>4. h.without \in 0..Misses
  <2> HIDE DEF h, follows, s
  <2>1. QED
    BY <1>2, <1>3
<1>5. h \in Marks
  <2>1. h.event \in {"NONE", "ADDED", "REMOVED"} /\ h.unwatched \in BOOLEAN /\ h.silent \in BOOLEAN
    <3> HIDE DEF h, s, up, down, follows
    <3>1. QED
      BY <1>2, <1>3
  <2> HIDE DEF h
  <2>2. QED
    BY <1>2, <1>4, <2>1 DEF Marks
<1>6. k \in appeared => up
  OBVIOUS
<1>7. k \in removed => down
  OBVIOUS
<1>8. /\ IsFound(obs[k]) /\ ~s.unwatched => s.without >= obs[k].miss
      /\ s.event = "ADDED" /\ ~s.silent => obs[k].state = "PRESENT"
      /\ s.event = "REMOVED" /\ ~s.silent => obs[k].state # "PRESENT"
  BY DEF MarkAgrees
<1>9. /\ WellKept(q)
      /\ \/ q = Found /\ k \in Enabled /\ Says(t, k)
         \/ q = obs[k] /\ ~(k \in Enabled /\ Says(t, k)) /\ ~Missed(t, k)
         \/ /\ Missed(t, k) /\ ~Says(t, k) /\ ~t.partial /\ k \in Enabled /\ IsFound(obs[k])
            /\ obs[k].miss \in 0..(Misses - 1) /\ q.miss = obs[k].miss + 1
            /\ q.method = "DETERMINISTIC"
            /\ q.state = (IF obs[k].miss + 1 = Misses THEN "ABSENT" ELSE "PRESENT")
  BY ObservedAsEffect
<1>10. Found.state = "PRESENT" /\ Found.miss = 0
  BY DEF Found
<1>11. h.event # "NONE" /\ ~h.silent =>
         \/ k \in appeared /\ h.event = "ADDED" /\ up
         \/ k \notin appeared /\ k \in removed /\ h.event = "REMOVED" /\ down
         \/ k \notin appeared \cup removed /\ ~up /\ ~down /\ ~s.silent /\ h.event = s.event
  <2> HIDE DEF h, s, up, down, follows
  <2>1. QED
    BY <1>2, <1>3, <1>6, <1>7
<1>12. obs[k].state # q.state => up \/ down
  <2>1. CASE q = Found
    BY <1>1, <1>10, <2>1
  <2>2. CASE q = obs[k]
    BY <2>2
  <2>3. CASE IsFound(obs[k]) /\ q.state \in {"ABSENT", "PRESENT"}
    BY <1>1, <2>3 DEF IsFound
  <2>4. QED
    BY <1>9, <2>1, <2>2, <2>3
<1>13. IsFound(q) /\ ~h.unwatched => h.without >= q.miss
  <2> SUFFICES ASSUME IsFound(q), ~h.unwatched
               PROVE  h.without >= q.miss
    OBVIOUS
  <2>1. CASE q = Found
    BY <1>3, <1>4, <1>10, <2>1
  <2>2. CASE q = obs[k] /\ ~(k \in Enabled /\ Says(t, k)) /\ ~Missed(t, k)
    <3>1. k \in Enabled /\ ~Says(t, k) /\ ~s.unwatched
      <4> HIDE DEF h, s, q
      <4>1. QED
        BY <1>2, <1>3, <2>2
    <3>2. t.partial
      BY <2>2, <3>1 DEF Missed, IsFound
    <3>3. h.without = s.without
      <4> HIDE DEF h, s, q
      <4>1. QED
        BY <1>2, <3>1, <3>2
    <3>4. QED
      BY <1>8, <2>2, <3>1, <3>3
  <2>3. CASE /\ Missed(t, k) /\ ~Says(t, k) /\ ~t.partial /\ k \in Enabled /\ IsFound(obs[k])
             /\ obs[k].miss \in 0..(Misses - 1) /\ q.miss = obs[k].miss + 1
    <3>1. ~s.unwatched
      <4> HIDE DEF h, s, q
      <4>1. QED
        BY <1>2, <1>3, <2>3
    <3>2. s.without >= obs[k].miss
      BY <1>8, <2>3, <3>1
    <3>3. h.without = IF s.without = Misses THEN s.without ELSE s.without + 1
      <4> HIDE DEF h, s, q
      <4>1. QED
        BY <1>2, <2>3
    <3> HIDE DEF h, s, q
    <3>4. QED
      BY <1>3, <2>3, <3>2, <3>3
  <2>4. QED
    BY <1>9, <2>1, <2>2, <2>3
<1>14. MarkAgrees(q, h)
  <2>1. h.event = "ADDED" /\ ~h.silent => q.state = "PRESENT"
    <3> SUFFICES ASSUME h.event = "ADDED", ~h.silent
                 PROVE  q.state = "PRESENT"
      OBVIOUS
    <3>1. CASE up
      BY <1>1, <3>1
    <3>2. CASE ~up /\ ~down /\ ~s.silent /\ h.event = s.event
      BY <1>8, <1>12, <3>2
    <3>3. QED
      BY <1>11, <3>1, <3>2
  <2>2. h.event = "REMOVED" /\ ~h.silent => q.state # "PRESENT"
    <3> SUFFICES ASSUME h.event = "REMOVED", ~h.silent
                 PROVE  q.state # "PRESENT"
      OBVIOUS
    <3>1. CASE down
      BY <1>1, <3>1
    <3>2. CASE ~up /\ ~down /\ ~s.silent /\ h.event = s.event
      BY <1>8, <1>12, <3>2
    <3>3. QED
      BY <1>11, <3>1, <3>2
  <2>3. QED
    BY <1>13, <2>1, <2>2 DEF MarkAgrees
<1>15. obs[k].state = "PRESENT" /\ q.state = "ABSENT" => h.without >= Misses \/ s.unwatched
  <2> SUFFICES ASSUME obs[k].state = "PRESENT", q.state = "ABSENT", ~s.unwatched
               PROVE  h.without >= Misses
    OBVIOUS
  <2>1. /\ ~Says(t, k) /\ ~t.partial /\ IsFound(obs[k]) /\ obs[k].miss + 1 = Misses /\ obs[k].miss \in Int
    BY <1>9, <1>10
  <2>2. down /\ s.without >= obs[k].miss
    BY <1>1, <1>8, <2>1
  <2>3. h.without = IF s.without = Misses THEN s.without ELSE s.without + 1
    <3> HIDE DEF h, s, q
    <3>1. QED
      BY <1>2, <2>1, <2>2
  <2> HIDE DEF h, s, q
  <2>4. QED
    BY <1>3, <2>1, <2>2, <2>3
<1>16. h.event # "NONE" /\ ~h.silent /\ ~s.silent /\ obs[k].state # q.state => h.event # s.event
  <2> SUFFICES ASSUME h.event # "NONE", ~h.silent, ~s.silent, obs[k].state # q.state
               PROVE  h.event # s.event
    OBVIOUS
  <2>1. CASE h.event = "ADDED" /\ up
    BY <1>1, <1>8, <2>1
  <2>2. CASE h.event = "REMOVED" /\ down
    BY <1>1, <1>8, <2>2
  <2>3. QED
    BY <1>11, <1>12, <2>1, <2>2
<1>17. QED
  BY <1>5, <1>14, <1>15, <1>16

-----------------------------------------------------------------------------
LEMMA ObservationInit == CapabilityHistoryInit => ObservationInv
<1> SUFFICES ASSUME CapabilityHistoryInit PROVE ObservationInv
  OBVIOUS
<1>1. Unread \in Texts /\ Packs # {}
  BY DEF Unread, Texts, Packs
<1>2. NoObs \in Rows \cup {NoObs} /\ Unheard \in Marks
  BY CapabilityConstants DEF Unheard, Marks
<1>3. MarkAgrees(NoObs, Unheard)
  BY RowsKept DEF MarkAgrees, Unheard
<1>4. /\ text \in Texts /\ packs \in (SUBSET Packs) \ {{}}
      /\ phrase \in [Own -> Phrases \cup {NoPhrase, Undefined}]
      /\ obs \in [Keys -> Rows \cup {NoObs}] /\ heard \in [Keys -> Marks]
      /\ \A k \in Keys : WellKept(obs[k]) /\ MarkAgrees(obs[k], heard[k])
  BY <1>1, <1>2, <1>3, RowsKept DEF CapabilityHistoryInit
<1>5. /\ answer.at = "idle" /\ answer = [at |-> answer.at, keys |-> answer.keys, rows |-> answer.rows, gone |-> answer.gone]
      /\ answer.keys \subseteq Keys
  BY DEF CapabilityHistoryInit, NotAsking
<1>6. edit.at = "idle" /\ edit = [at |-> edit.at, key |-> edit.key, match |-> edit.match, row |-> edit.row]
  BY DEF CapabilityHistoryInit
<1>7. QED
  BY <1>4, <1>5, <1>6 DEF ObservationInv

(* Rows that are written without a scan: no mark but that the row moved.   *)
LEMMA SilentMarks ==
  ASSUME ObservationInv, NEW keys, NEW k \in Keys
  PROVE  /\ Silent(keys) \in [Keys -> Marks]
         /\ k \notin keys => Silent(keys)[k] = heard[k]
         /\ k \in keys /\ Silent(keys)[k].event # "NONE" => Silent(keys)[k].silent
         /\ k \in keys => \A r : (IsFound(r) => r.miss = 0) => MarkAgrees(r, Silent(keys)[k])
<1> DEFINE Moved(e, b) == [without |-> 0, unwatched |-> FALSE, event |-> e, silent |-> b]
           q(j) == Moved(heard[j].event, heard[j].event # "NONE")
<1>1. \A j \in Keys : heard[j] \in Marks
  BY DEF ObservationInv
<1>3. ASSUME NEW e \in {"NONE", "ADDED", "REMOVED"}, NEW b \in BOOLEAN, b <=> e # "NONE"
      PROVE  /\ Moved(e, b) \in Marks /\ (Moved(e, b).event # "NONE" => Moved(e, b).silent)
             /\ \A r : (IsFound(r) => r.miss = 0) => MarkAgrees(r, Moved(e, b))
  <2> DEFINE h == Moved(e, b)
  <2>1. h.without = 0 /\ h.unwatched = FALSE /\ h.event = e /\ h.silent = b
    OBVIOUS
  <2>2. h \in Marks
    BY CapabilityConstants DEF Marks
  <2>h. h = Moved(e, b)
    OBVIOUS
  <2> HIDE DEF h, Moved
  <2>3. ASSUME NEW r, IsFound(r) => r.miss = 0
        PROVE  MarkAgrees(r, h)
    <3>1. IsFound(r) => h.without >= r.miss
      BY <2>1, <2>3
    <3>2. h.event # "NONE" => h.silent
      BY <1>3, <2>1
    <3>3. h.event = "ADDED" /\ ~h.silent => r.state = "PRESENT"
      BY <3>2
    <3>4. h.event = "REMOVED" /\ ~h.silent => r.state # "PRESENT"
      BY <3>2
    <3>5. QED
      BY <3>1, <3>3, <3>4 DEF MarkAgrees
  <2>4. h.event # "NONE" => h.silent
    BY <1>3, <2>1
  <2>5. QED
    BY <2>h, <2>2, <2>3, <2>4
<1>4. \A j \in Keys : heard[j].event \in {"NONE", "ADDED", "REMOVED"}
  BY <1>1 DEF Marks
<1>5. Silent(keys) = [j \in Keys |-> IF j \in keys THEN q(j) ELSE heard[j]]
  BY DEF Silent
<1>6. \A j \in Keys : /\ q(j) \in Marks /\ (q(j).event # "NONE" => q(j).silent)
                      /\ \A r : (IsFound(r) => r.miss = 0) => MarkAgrees(r, q(j))
  <2> SUFFICES ASSUME NEW j \in Keys
               PROVE  /\ q(j) \in Marks /\ (q(j).event # "NONE" => q(j).silent)
                      /\ \A r : (IsFound(r) => r.miss = 0) => MarkAgrees(r, q(j))
    OBVIOUS
  <2> DEFINE b == heard[j].event # "NONE"
  <2>1. b \in BOOLEAN /\ (b <=> heard[j].event # "NONE")
    OBVIOUS
  <2> HIDE DEF b
  <2>2. q(j) = Moved(heard[j].event, b)
    BY DEF b
  <2> HIDE DEF q
  <2>3. QED
    BY <1>3, <1>4, <2>1, <2>2
<1> HIDE DEF q
<1>7. QED
  BY <1>1, <1>5, <1>6

(* What the property says of one row in one step.                          *)
RowMoves(k) ==
  /\ obs[k].state = "PRESENT" /\ obs'[k].state = "ABSENT" => heard'[k].without >= Misses \/ heard[k].unwatched
  /\ heard'[k].event # "NONE" /\ ~heard'[k].silent /\ ~heard[k].silent /\ obs[k].state # obs'[k].state =>
       heard'[k].event # heard[k].event

(* The part of the invariant about rows, and the step of each.             *)
RowsInOrder ==
  /\ obs \in [Keys -> Rows \cup {NoObs}] /\ heard \in [Keys -> Marks]
  /\ \A k \in Keys : WellKept(obs[k]) /\ MarkAgrees(obs[k], heard[k])

(* A write of some rows, none of them absent, by the answer or an edit.    *)
LEMMA RowsWritten ==
  ASSUME ObservationInv, NEW keys, heard' = Silent(keys), obs' \in [Keys -> Rows \cup {NoObs}],
         \A k \in Keys \ keys : obs'[k] = obs[k],
         \A k \in Keys \cap keys : obs'[k] \in {NoObs, Found, Inferred}
  PROVE  RowsInOrder' /\ \A k \in Keys : RowMoves(k)
<1>1. heard' \in [Keys -> Marks]
  <2>1. CASE Keys = {}
    BY <2>1 DEF Silent
  <2>2. CASE Keys # {}
    BY <2>2, SilentMarks
  <2>3. QED
    BY <2>1, <2>2
<1>2. ASSUME NEW k \in Keys \ keys
      PROVE  WellKept(obs'[k]) /\ MarkAgrees(obs'[k], heard'[k]) /\ RowMoves(k)
  <2>1. obs'[k] = obs[k] /\ heard'[k] = heard[k]
    BY <1>2, SilentMarks
  <2>2. WellKept(obs[k]) /\ MarkAgrees(obs[k], heard[k])
    BY DEF ObservationInv
  <2>3. QED
    BY <2>1, <2>2 DEF RowMoves
<1>3. ASSUME NEW k \in Keys \cap keys
      PROVE  WellKept(obs'[k]) /\ MarkAgrees(obs'[k], heard'[k]) /\ RowMoves(k)
  <2>1. WellKept(obs'[k]) /\ (IsFound(obs'[k]) => obs'[k].miss = 0) /\ obs'[k].state # "ABSENT"
    BY <1>3, RowsKept DEF NoObs, Found, Inferred
  <2>2. MarkAgrees(obs'[k], heard'[k]) /\ (heard'[k].event # "NONE" => heard'[k].silent)
    BY <2>1, SilentMarks
  <2>3. QED
    BY <2>1, <2>2 DEF RowMoves
<1>4. QED
  BY <1>1, <1>2, <1>3 DEF RowsInOrder

LEMMA RowsUntouched ==
  ASSUME ObservationInv, UNCHANGED <<obs, heard>>
  PROVE  RowsInOrder' /\ \A k \in Keys : RowMoves(k)
BY DEF ObservationInv, RowsInOrder, RowMoves

LEMMA ScannedStep ==
  ASSUME ObservationInv, NEW t \in Texts, NEW baseline \in BOOLEAN, Scanned(t, baseline)
  PROVE  /\ RowsInOrder' /\ \A k \in Keys : RowMoves(k)
         /\ text' \in Texts /\ UNCHANGED <<packs, phrase, answer, edit>>
<1> DEFINE appeared == Raised(Appeared(t), t, baseline)
           removed == Raised(Disappeared(t), t, baseline)
<1>1. /\ text' = t /\ obs' = [k \in Keys |-> ObservedAs(t, k)]
      /\ heard' = [k \in Keys |-> HeardAfter(t, k, appeared, removed)]
      /\ UNCHANGED <<packs, phrase, answer, edit>>
  BY DEF Scanned
<1>2. appeared \subseteq Appeared(t) /\ removed \subseteq Disappeared(t)
  BY RaisedOnes
<1> HIDE DEF appeared, removed
<1>3. \A k \in Keys : WellKept(obs[k]) /\ MarkAgrees(obs[k], heard[k]) /\ heard[k] \in Marks
  BY DEF ObservationInv
<1>4. ASSUME NEW k \in Keys
      PROVE  /\ obs'[k] \in Rows \cup {NoObs} /\ heard'[k] \in Marks
             /\ WellKept(obs'[k]) /\ MarkAgrees(obs'[k], heard'[k]) /\ RowMoves(k)
  <2>1. WellKept(ObservedAs(t, k))
    BY <1>3, ObservedAsEffect
  <2>2. /\ obs'[k] = ObservedAs(t, k) /\ heard'[k] = HeardAfter(t, k, appeared, removed)
    BY <1>1
  <2>3. QED
    BY <1>2, <1>3, <2>1, <2>2, HeardAfterEffect DEF RowMoves, WellKept
<1>5. QED
  BY <1>1, <1>4 DEF RowsInOrder

LEMMA CapabilityAnswerStep ==
  ASSUME ObservationInv, NEW accepted, Answer(accepted)
  PROVE  /\ RowsInOrder' /\ \A k \in Keys : RowMoves(k)
         /\ answer' = NotAsking /\ UNCHANGED <<text, packs, phrase, edit>>
         /\ \A k \in Keys : obs'[k] # obs[k] => k \in answer.keys /\ ~IsFound(answer.rows[k])
<1> DEFINE Written(k) == Answered(answer.rows[k], k \in accepted)
           writes == {k \in answer.keys : Written(k) # answer.rows[k] \/ (k \in accepted /\ ~IsFound(answer.rows[k]))}
           conflict == \E k \in writes : k \in answer.gone \/ (answer.rows[k] = NoObs) # (obs[k] = NoObs)
<1>1. /\ answer.at = "read" /\ answer' = NotAsking /\ UNCHANGED <<text, packs, phrase, edit>>
      /\ IF conflict THEN UNCHANGED <<obs, heard>>
         ELSE obs' = [k \in Keys |-> IF k \in writes THEN Written(k) ELSE obs[k]] /\ heard' = Silent(writes)
  BY DEF Answer
<1>2. \A k \in answer.keys : WellKept(answer.rows[k])
  BY <1>1 DEF ObservationInv
<1>3. ASSUME NEW k \in writes
      PROVE  ~IsFound(answer.rows[k]) /\ Written(k) \in {NoObs, Inferred} /\ k \in answer.keys
  <2>1. k \in answer.keys /\ (Written(k) # answer.rows[k] \/ (k \in accepted /\ ~IsFound(answer.rows[k])))
    OBVIOUS
  <2>2. ~IsFound(answer.rows[k])
    BY <2>1 DEF Answered
  <2>3. QED
    BY <2>1, <2>2 DEF Answered
<1> HIDE DEF Written, writes, conflict
<1>4. CASE conflict
  BY <1>1, <1>4, RowsUntouched DEF ObservationInv
<1>5. CASE ~conflict
  <2>1. obs' = [k \in Keys |-> IF k \in writes THEN Written(k) ELSE obs[k]] /\ heard' = Silent(writes)
    BY <1>1, <1>5
  <2>2. \A k \in Keys \ writes : obs'[k] = obs[k]
    BY <2>1
  <2>3. \A k \in Keys \cap writes : obs'[k] \in {NoObs, Found, Inferred}
    BY <1>3, <2>1
  <2>4. \A k \in Keys : obs'[k] \in Rows \cup {NoObs}
    BY <2>2, <2>3, RowsKept DEF WellKept, ObservationInv
  <2>5. obs' \in [Keys -> Rows \cup {NoObs}]
    BY <2>1, <2>4
  <2>6. RowsInOrder' /\ \A k \in Keys : RowMoves(k)
    BY <2>1, <2>2, <2>3, <2>5, RowsWritten
  <2>7. QED
    BY <1>1, <1>3, <2>2, <2>6
<1>6. QED
  BY <1>4, <1>5

LEMMA ApplyOwnStep ==
  ASSUME ObservationInv, ApplyOwn
  PROVE  /\ RowsInOrder' /\ \A k \in Keys : RowMoves(k)
         /\ edit' = [edit EXCEPT !.at = "idle", !.row = NoObs] /\ UNCHANGED <<text, packs, phrase>>
         /\ answer' = answer \/ \E keys \in SUBSET Keys : answer' = NotedGone(keys)
<1> DEFINE k == edit.key
           row == IF edit.match THEN Found ELSE IF edit.row.method = "DETERMINISTIC" THEN NoObs ELSE edit.row
           writes == edit.match \/ row # edit.row
           conflict == (edit.row = NoObs) # (obs[k] = NoObs)
<1>1. /\ edit.at = "row" /\ edit' = [edit EXCEPT !.at = "idle", !.row = NoObs] /\ UNCHANGED <<text, packs, phrase>>
      /\ IF writes /\ ~conflict
           THEN /\ obs' = [obs EXCEPT ![k] = row] /\ heard' = Silent({k})
                /\ answer' = NotedGone(IF row = NoObs THEN {k} ELSE {})
           ELSE UNCHANGED <<obs, heard, answer>>
  BY DEF ApplyOwn
<1>2. k \in Keys /\ obs \in [Keys -> Rows \cup {NoObs}]
  BY <1>1 DEF ObservationInv, Keys
<1>3. writes => row \in {Found, NoObs}
  OBVIOUS
<1> HIDE DEF k, row, writes, conflict
<1>4. CASE writes /\ ~conflict
  <2>1. /\ obs' = [obs EXCEPT ![k] = row] /\ heard' = Silent({k})
        /\ answer' = NotedGone(IF row = NoObs THEN {k} ELSE {})
    BY <1>1, <1>4
  <2>2. row \in {Found, NoObs} /\ row \in Rows \cup {NoObs}
    BY <1>3, <1>4, RowsKept DEF WellKept
  <2>3. /\ obs' \in [Keys -> Rows \cup {NoObs}]
        /\ \A j \in Keys \ {k} : obs'[j] = obs[j]
        /\ \A j \in Keys \cap {k} : obs'[j] \in {NoObs, Found, Inferred}
    BY <1>2, <2>1, <2>2
  <2>4. RowsInOrder' /\ \A j \in Keys : RowMoves(j)
    BY <2>1, <2>3, RowsWritten
  <2>5. (IF row = NoObs THEN {k} ELSE {}) \in SUBSET Keys
    BY <1>2
  <2>6. QED
    BY <1>1, <2>1, <2>4, <2>5
<1>5. CASE ~(writes /\ ~conflict)
  BY <1>1, <1>5, RowsUntouched
<1>6. QED
  BY <1>4, <1>5

LEMMA DeleteOwnStep ==
  ASSUME ObservationInv, NEW k \in Own, DeleteOwn(k)
  PROVE  /\ RowsInOrder' /\ \A j \in Keys : RowMoves(j)
         /\ phrase' = [phrase EXCEPT ![k] = Undefined] /\ UNCHANGED <<text, packs, edit>>
         /\ answer' = NotedGone({k})
<1>1. /\ phrase' = [phrase EXCEPT ![k] = Undefined] /\ obs' = [obs EXCEPT ![k] = NoObs]
      /\ heard' = [heard EXCEPT ![k] = Unheard] /\ answer' = NotedGone({k}) /\ UNCHANGED <<text, packs, edit>>
  BY DEF DeleteOwn
<1>2. k \in Keys /\ obs \in [Keys -> Rows \cup {NoObs}] /\ heard \in [Keys -> Marks]
  BY DEF ObservationInv, Keys
<1>3. Unheard \in Marks /\ MarkAgrees(NoObs, Unheard) /\ Unheard.event = "NONE"
  BY RowsKept, CapabilityConstants DEF MarkAgrees, Unheard, Marks
<1>4. obs' \in [Keys -> Rows \cup {NoObs}] /\ heard' \in [Keys -> Marks]
  BY <1>1, <1>2, <1>3
<1>5. ASSUME NEW j \in Keys
      PROVE  WellKept(obs'[j]) /\ MarkAgrees(obs'[j], heard'[j]) /\ RowMoves(j)
  <2>1. CASE j = k
    <3>1. obs'[j] = NoObs /\ heard'[j] = Unheard
      BY <1>1, <1>2, <2>1
    <3>2. QED
      BY <1>3, <3>1, RowsKept DEF RowMoves
  <2>2. CASE j # k
    <3>1. obs'[j] = obs[j] /\ heard'[j] = heard[j]
      BY <1>1, <1>2, <2>2
    <3>2. QED
      BY <3>1 DEF RowMoves, ObservationInv
  <2>3. QED
    BY <2>1, <2>2
<1>6. QED
  BY <1>1, <1>4, <1>5 DEF RowsInOrder

(* The answer under way and the edit under way.                            *)
AnswerInOrder ==
  /\ answer.at \in {"idle", "asked", "read"} /\ answer = [at |-> answer.at, keys |-> answer.keys, rows |-> answer.rows, gone |-> answer.gone]
  /\ answer.keys \subseteq Keys
  /\ answer.at = "read" => \A k \in answer.keys : WellKept(answer.rows[k])
EditInOrder ==
  /\ edit.at \in {"idle", "page", "row"} /\ edit = [at |-> edit.at, key |-> edit.key, match |-> edit.match, row |-> edit.row]
  /\ edit.at # "idle" => edit.key \in Own /\ edit.match \in BOOLEAN
  /\ edit.at = "row" => WellKept(edit.row)

LEMMA NotedGoneKeeps ==
  ASSUME AnswerInOrder, NEW keys, answer' = NotedGone(keys)
  PROVE  AnswerInOrder' /\ answer'.at = answer.at
<1>1. CASE answer.at = "read"
  <2>1. answer' = [at |-> answer.at, keys |-> answer.keys, rows |-> answer.rows, gone |-> answer.gone \cup keys]
    BY <1>1 DEF NotedGone, AnswerInOrder
  <2>2. QED
    BY <2>1 DEF AnswerInOrder
<1>2. CASE answer.at # "read"
  BY <1>2 DEF NotedGone, AnswerInOrder
<1>3. QED
  BY <1>1, <1>2

(* An answer moves only rows that were not found when it read them.        *)
RulesKept ==
  answer.at = "read" /\ answer'.at = "idle" =>
    \A k \in Keys : obs'[k] # obs[k] => k \in answer.keys /\ ~IsFound(answer.rows[k])

LEMMA ObservationStep ==
  ASSUME ObservationInv, [CapabilityHistoryNext]_bVars
  PROVE  /\ ObservationInv' /\ \A k \in Keys : RowMoves(k)
         /\ RulesKept
<1> DEFINE Rest == /\ text' \in Texts /\ packs' \in (SUBSET Packs) \ {{}}
                   /\ phrase' \in [Own -> Phrases \cup {NoPhrase, Undefined}]
                   /\ AnswerInOrder' /\ EditInOrder'
           Goal == RowsInOrder' /\ Rest /\ RulesKept /\ \A k \in Keys : RowMoves(k)
<1>0. /\ text \in Texts /\ packs \in (SUBSET Packs) \ {{}}
      /\ phrase \in [Own -> Phrases \cup {NoPhrase, Undefined}]
      /\ AnswerInOrder /\ EditInOrder
  BY DEF ObservationInv, AnswerInOrder, EditInOrder
<1>a. ASSUME answer' = answer PROVE AnswerInOrder' /\ answer'.at = answer.at
  BY <1>0, <1>a DEF AnswerInOrder
<1>e. ASSUME edit' = edit PROVE EditInOrder'
  BY <1>0, <1>e DEF EditInOrder
<1>1. ASSUME NEW t \in Texts, NEW baseline \in BOOLEAN, Scanned(t, baseline)
      PROVE  Goal
  BY <1>0, <1>1, <1>a, <1>e, ScannedStep DEF RulesKept
<1>2. ASSUME Ask PROVE Goal
  <2>1. PICK asked \in SUBSET Keys : answer' = [NotAsking EXCEPT !.at = "asked", !.keys = asked]
    <3>1. Enabled \subseteq Keys
      BY DEF Enabled, Listed, Keys, Builtin, Defined
    <3>2. QED
      BY <1>2, <3>1 DEF Ask
  <2>2. answer' = [at |-> "asked", keys |-> asked, rows |-> <<>>, gone |-> {}]
    BY <2>1 DEF NotAsking
  <2>3. AnswerInOrder' /\ answer'.at = "asked"
    BY <2>2 DEF AnswerInOrder
  <2>4. QED
    BY <1>0, <1>2, <1>e, <2>3, RowsUntouched DEF RulesKept, Ask
<1>3. ASSUME ReadRows PROVE Goal
  <2>1. answer' = [answer EXCEPT !.at = "read", !.rows = [k \in answer.keys |-> obs[k]]] /\ answer.at = "asked"
    BY <1>3 DEF ReadRows
  <2>2. answer' = [at |-> "read", keys |-> answer.keys, rows |-> [k \in answer.keys |-> obs[k]], gone |-> answer.gone]
    BY <1>0, <2>1 DEF AnswerInOrder
  <2>3. \A k \in answer.keys : WellKept(obs[k])
    BY <1>0 DEF ObservationInv, AnswerInOrder
  <2>4. AnswerInOrder'
    BY <1>0, <2>2, <2>3 DEF AnswerInOrder
  <2>5. QED
    BY <1>0, <1>3, <1>e, <2>1, <2>4, RowsUntouched DEF RulesKept, ReadRows
<1>4. ASSUME NEW accepted, Answer(accepted)
      PROVE  Goal
  <2>1. AnswerInOrder'
    <3>1. answer' = [at |-> "idle", keys |-> {}, rows |-> <<>>, gone |-> {}]
      BY <1>4, CapabilityAnswerStep DEF NotAsking
    <3>2. QED
      BY <3>1 DEF AnswerInOrder
  <2>2. QED
    BY <1>0, <1>4, <1>e, <2>1, CapabilityAnswerStep DEF RulesKept
<1>5. ASSUME NEW p \in SUBSET Packs, SetPacks(p)
      PROVE  Goal
  BY <1>0, <1>5, <1>a, <1>e, RowsUntouched DEF RulesKept, SetPacks
<1>6. ASSUME NEW k \in Own, NEW w \in Phrases \cup {NoPhrase}, SaveOwn(k, w)
      PROVE  Goal
  <2>1. /\ phrase' = [phrase EXCEPT ![k] = w] /\ UNCHANGED <<text, packs, obs, answer, heard>>
        /\ edit' = [at |-> IF text = Unread THEN "idle" ELSE "page", key |-> k, match |-> w \in text.says, row |-> NoObs]
    BY <1>6 DEF SaveOwn
  <2>2. EditInOrder'
    <3> DEFINE a == IF text = Unread THEN "idle" ELSE "page"
    <3>1. a \in {"idle", "page"} /\ (w \in text.says) \in BOOLEAN
      OBVIOUS
    <3>2. edit' = [at |-> a, key |-> k, match |-> w \in text.says, row |-> NoObs]
      BY <2>1
    <3> HIDE DEF a
    <3>3. QED
      BY <3>1, <3>2 DEF EditInOrder
  <2>3. phrase' \in [Own -> Phrases \cup {NoPhrase, Undefined}]
    BY <1>0, <2>1
  <2>4. QED
    BY <1>0, <1>a, <2>1, <2>2, <2>3, RowsUntouched DEF RulesKept
<1>7. ASSUME ReadForOwn PROVE Goal
  <2>1. edit.at = "page" /\ edit' = [edit EXCEPT !.at = "row", !.row = obs[edit.key]]
    BY <1>7 DEF ReadForOwn
  <2>2. edit.key \in Own /\ WellKept(obs[edit.key])
    BY <2>1 DEF ObservationInv, Keys
  <2>3. edit' = [at |-> "row", key |-> edit.key, match |-> edit.match, row |-> obs[edit.key]]
    BY <1>0, <2>1 DEF EditInOrder
  <2>4. EditInOrder'
    BY <1>0, <2>1, <2>2, <2>3 DEF EditInOrder
  <2>5. QED
    BY <1>0, <1>7, <1>a, <2>4, RowsUntouched DEF RulesKept, ReadForOwn
<1>8. ASSUME ApplyOwn PROVE Goal
  <2>1. EditInOrder'
    <3>1. edit' = [at |-> "idle", key |-> edit.key, match |-> edit.match, row |-> NoObs]
      BY <1>0, <1>8, ApplyOwnStep DEF EditInOrder
    <3>2. QED
      BY <3>1 DEF EditInOrder
  <2>2. AnswerInOrder' /\ answer'.at = answer.at
    BY <1>0, <1>8, <1>a, ApplyOwnStep, NotedGoneKeeps
  <2>3. QED
    BY <1>0, <1>8, <2>1, <2>2, ApplyOwnStep DEF RulesKept
<1>9. ASSUME NEW k \in Own, DeleteOwn(k)
      PROVE  Goal
  <2>1. AnswerInOrder' /\ answer'.at = answer.at
    BY <1>0, <1>9, DeleteOwnStep, NotedGoneKeeps
  <2>2. phrase' \in [Own -> Phrases \cup {NoPhrase, Undefined}]
    BY <1>0, <1>9, DeleteOwnStep
  <2>3. QED
    BY <1>0, <1>9, <1>e, <2>1, <2>2, DeleteOwnStep DEF RulesKept
<1>10. ASSUME UNCHANGED bVars PROVE Goal
  BY <1>0, <1>10, <1>a, <1>e, RowsUntouched DEF RulesKept, bVars
<1>11. Goal
  BY <1>1, <1>2, <1>3, <1>4, <1>5, <1>6, <1>7, <1>8, <1>9, <1>10 DEF CapabilityHistoryNext
<1>12. QED
  BY <1>11 DEF ObservationInv, RowsInOrder, AnswerInOrder, EditInOrder

(* In every behaviour of scans, answers and edits the rows of a page have  *)
(* their types, and a capability is called gone only after that many whole *)
(* scans without it, only the rules move what the rules found, and its     *)
(* events take turns (recordCapabilityObservations and                     *)
(* recordAiCapabilityFindings).                                            *)
THEOREM CapabilitiesAreEarned == CapabilityHistorySpec => []ObservationTypeOK /\ ObservationsAreEarned
<1>1. ObservationInv => ObservationTypeOK
  BY DEF ObservationInv, ObservationTypeOK, WellKept
<1>2. ObservationInv /\ [CapabilityHistoryNext]_bVars => ObservationInv'
  BY ObservationStep
<1>3. ObservationInv /\ [CapabilityHistoryNext]_bVars =>
        [\A k \in Keys : obs[k].state = "PRESENT" /\ obs'[k].state = "ABSENT" =>
           heard'[k].without >= Misses \/ heard[k].unwatched]_obs
  BY ObservationStep DEF RowMoves
<1>4. ObservationInv /\ [CapabilityHistoryNext]_bVars =>
        [answer.at = "read" /\ answer'.at = "idle" =>
           \A k \in Keys : IsFound(obs[k]) /\ obs'[k] # obs[k] =>
             k \in answer.keys /\ ~IsFound(answer.rows[k])]_bVars
  BY ObservationStep DEF RulesKept
<1>5. ObservationInv /\ [CapabilityHistoryNext]_bVars =>
        [\A k \in Keys : heard'[k].event # "NONE" /\ ~heard'[k].silent /\ ~heard[k].silent /\ obs[k].state # obs'[k].state =>
           heard'[k].event # heard[k].event]_bVars
  BY ObservationStep DEF RowMoves
<1>6. QED
  BY <1>1, <1>2, <1>3, <1>4, <1>5, ObservationInit, PTL
     DEF CapabilityHistorySpec, ObservationsAreEarned, GoneAfterMissesInARow, RulesStand, EventsTakeTurns

-----------------------------------------------------------------------------
(* What a refresh has in hand.                                             *)
RefreshState ==
  [at : {"idle", "active", "write"}, found : SUBSET (Moves \X SUBSET Move), observed : Nat, day : 0..PatternDays,
   active : SUBSET Nat, todo : SUBSET Nat, alone : BOOLEAN]

(* The signals behind a pattern of some day are of its kind and window.    *)
EvidenceFits(evidence, kind, day) ==
  \A m \in evidence : m.kind = kind /\ m.at <= day /\ m.at >= day - WindowDays

RefreshTyped(r) ==
  LET me == refresher[r] IN
    /\ me.active \subseteq DOMAIN rows /\ me.todo \subseteq me.active
    /\ me.at # "idle" => me.observed >= MinObserved
    /\ \A f \in me.found : EvidenceFits(f[2], f[1], me.day)

PatternTyped ==
  /\ since \in [Rivals -> 0..Never] /\ moves \subseteq Move /\ today \in 0..PatternDays
  /\ \A m \in moves : m.at <= today
  /\ rows \in Seq(Row) /\ PatternTypeOK
  /\ refresher \in [Refreshers -> RefreshState] /\ \A r \in Refreshers : RefreshTyped(r)

AtRest(r) == refresher[r].at = "idle"

(* The active rows hold what the market shows, as far as a refresh that is *)
(* alone has come: it has not confirmed "found" and not resolved "todo".   *)
InRows(kind) == \E i \in ActiveRows(kind) : rows[i].evidence = Behind(kind) /\ rows[i].last = today
Outlook(r) ==
  LET me == refresher[r]
      wanted == {<<k, Behind(k)>> : k \in Detected}
  IN  /\ me.at # "idle" => me.day = today
      /\ me.at = "active" => me.found = wanted
      /\ me.at = "write" =>
           /\ me.found \subseteq wanted
           /\ \A k \in Detected : <<k, Behind(k)>> \in me.found \/ InRows(k)
           /\ \A i \in me.active : rows[i].kind \in Detected => rows[i].status = "ACTIVE"
           /\ \A i \in me.todo : rows[i].kind \notin Detected
           /\ \A k \in Moves \ Detected : ActiveRows(k) \subseteq me.todo

MarketShown == (\A k \in Detected : InRows(k)) /\ \A k \in Moves \ Detected : ActiveRows(k) = {}

SingleRows == \A kind \in Moves \ doubled : \A i, j \in ActiveRows(kind) : i = j

PatternInv ==
  /\ PatternTyped /\ SingleRows
  /\ \A r \in Refreshers : refresher[r].alone => Outlook(r)
  /\ settled => MarketShown /\ \A r \in Refreshers : AtRest(r)

-----------------------------------------------------------------------------
(* A set of natural numbers has a least one, and a bounded one a largest.  *)
LEMMA LeastOf ==
  ASSUME NEW S \in SUBSET Nat, S # {}
  PROVE  \E x \in S : \A y \in S : x <= y
<1> DEFINE R == OpToRel(<, Nat)
<1>1. IsWellFoundedOn(R, Nat)
  BY NatLessThanWellFounded, Zenon
<1>2. \A a, b \in Nat : a < b => <<a, b>> \in R
  BY DEF OpToRel
<1> HIDE DEF R
<1>3. PICK x \in S : \A y \in S : ~(<<y, x>> \in R)
  BY <1>1, WFMin
<1>4. ASSUME NEW y \in S
      PROVE  x <= y
  <2>1. x \in Nat /\ y \in Nat /\ ~(y < x)
    BY <1>2, <1>3
  <2>2. QED
    BY <2>1
<1>5. QED
  BY <1>4

LEMMA LargestOf ==
  ASSUME NEW n \in Nat, NEW S \in SUBSET (1..n), S # {}
  PROVE  LET x == CHOOSE i \in S : \A j \in S : j <= i IN x \in S /\ \A j \in S : j <= x
<1> DEFINE T == {n - i : i \in S}
<1>1. T \in SUBSET Nat /\ \A i \in S : n - i \in T
  OBVIOUS
<1>4. PICK m \in T : \A k \in T : m <= k
  <2>1. T # {}
    BY <1>1
  <2>2. QED
    BY <1>1, <2>1, LeastOf
<1>5. PICK i \in S : m = n - i
  BY <1>4
<1>6. \A j \in S : j <= i
  <2> SUFFICES ASSUME NEW j \in S PROVE j <= i
    OBVIOUS
  <2>1. n - i <= n - j
    BY <1>1, <1>4, <1>5
  <2>2. QED
    BY <2>1
<1>7. QED
  BY <1>6

LEMMA WaitingTyped == Waiting \in RefreshState /\ Waiting.at = "idle" /\ Waiting.alone = FALSE
                      /\ Waiting.active = {} /\ Waiting.todo = {} /\ Waiting.found = {}
BY PatternConstants DEF Waiting, RefreshState

LEMMA RefreshFields ==
  ASSUME NEW x \in RefreshState
  PROVE  /\ x.at \in {"idle", "active", "write"} /\ x.found \subseteq Moves \X SUBSET Move /\ x.observed \in Nat
         /\ x.day \in 0..PatternDays /\ x.active \subseteq Nat /\ x.todo \subseteq Nat /\ x.alone \in BOOLEAN
         /\ x = [at |-> x.at, found |-> x.found, observed |-> x.observed, day |-> x.day,
                 active |-> x.active, todo |-> x.todo, alone |-> x.alone]
BY DEF RefreshState

(* A refresh that another one wrote beside is no longer alone; nothing     *)
(* else of it changes.                                                     *)
LEMMA NotAlone ==
  ASSUME NEW x \in RefreshState
  PROVE  LET y == [x EXCEPT !.alone = FALSE] IN
           /\ y \in RefreshState /\ y.alone = FALSE
           /\ y.at = x.at /\ y.found = x.found /\ y.observed = x.observed /\ y.day = x.day
           /\ y.active = x.active /\ y.todo = x.todo
BY DEF RefreshState

LEMMA BehindFits ==
  ASSUME PatternTyped, NEW kind
  PROVE  Behind(kind) \subseteq Move /\ EvidenceFits(Behind(kind), kind, today)
BY DEF PatternTyped, Behind, EvidenceFits

LEMMA EligibleCounted == IsFiniteSet(Eligible) /\ Cardinality(Eligible) \in Nat
<1>1. Eligible \in SUBSET Rivals
  BY DEF Eligible
<1>2. QED
  BY <1>1, FS_Subset, FS_CardinalityType, PatternConstants

-----------------------------------------------------------------------------
(* The rows after a step: those there were keep their kind and first day,  *)
(* and a resolved one stays resolved.                                      *)
RowsKeep ==
  /\ rows' \in Seq(Row) /\ PatternTypeOK' /\ DOMAIN rows \subseteq DOMAIN rows'
  /\ \A i \in DOMAIN rows :
       /\ rows'[i].kind = rows[i].kind /\ rows'[i].first = rows[i].first
       /\ rows[i].status = "RESOLVED" => rows'[i].status = "RESOLVED"

(* The row a confirmation writes.                                          *)
RowOf(r, f) ==
  [kind |-> f[1], status |-> "ACTIVE", evidence |-> f[2], observed |-> refresher[r].observed,
   first |-> refresher[r].day, last |-> refresher[r].day]

LEMMA RowOfTyped ==
  ASSUME PatternTyped, NEW r \in Refreshers, NEW f \in refresher[r].found, refresher[r].at # "idle"
  PROVE  /\ RowOf(r, f) \in Row /\ RowOf(r, f).observed >= MinObserved /\ f[1] \in Moves
         /\ EvidenceFits(RowOf(r, f).evidence, RowOf(r, f).kind, RowOf(r, f).last)
<1>1. refresher[r] \in RefreshState /\ RefreshTyped(r)
  BY DEF PatternTyped
<1>2. /\ f[1] \in Moves /\ f[2] \subseteq Move /\ EvidenceFits(f[2], f[1], refresher[r].day)
      /\ refresher[r].day \in 0..PatternDays /\ refresher[r].observed \in Nat /\ refresher[r].observed >= MinObserved
  BY <1>1 DEF RefreshState, RefreshTyped
<1>3. QED
  BY <1>2 DEF RowOf, Row

RowFits(x) == x \in Row /\ x.observed >= MinObserved /\ EvidenceFits(x.evidence, x.kind, x.last)

LEMMA RowsFit == PatternTypeOK <=> \A i \in DOMAIN rows : RowFits(rows[i])
BY DEF PatternTypeOK, RowFits, EvidenceFits

LEMMA RowsFitNext == PatternTypeOK' <=> \A i \in DOMAIN rows' : RowFits(rows'[i])
BY DEF PatternTypeOK, RowFits, EvidenceFits

(* What Confirm does: one row of the kind is written, an active one if the *)
(* refresh saw one, or a new one.                                          *)
LEMMA ConfirmEffect ==
  ASSUME PatternTyped, NEW r \in Refreshers, Confirm(r)
  PROVE  \E f \in refresher[r].found :
           /\ refresher[r].at = "write" /\ f[1] \in Moves
           /\ Wrote(r, [refresher[r] EXCEPT !.found = @ \ {f}])
           /\ UNCHANGED <<since, moves, today, settled>> /\ RowsKeep
           /\ \/ \E i \in Existing(r, f[1]) :
                   /\ i \in DOMAIN rows /\ DOMAIN rows' = DOMAIN rows /\ UNCHANGED doubled
                   /\ \A j \in DOMAIN rows \ {i} : rows'[j] = rows[j]
                   /\ rows'[i].status = rows[i].status /\ rows'[i].evidence = f[2] /\ rows'[i].last = refresher[r].day
              \/ /\ Existing(r, f[1]) = {} /\ DOMAIN rows' = 1..(Len(rows) + 1)
                 /\ \A j \in DOMAIN rows : rows'[j] = rows[j]
                 /\ rows'[Len(rows) + 1].kind = f[1] /\ rows'[Len(rows) + 1].status = "ACTIVE"
                 /\ rows'[Len(rows) + 1].evidence = f[2] /\ rows'[Len(rows) + 1].last = refresher[r].day
                 /\ doubled' = IF \E i \in DOMAIN rows \ refresher[r].active : rows[i].kind = f[1] /\ rows[i].status = "ACTIVE"
                                 THEN doubled \cup {f[1]} ELSE doubled
<1> DEFINE me == refresher[r]
<1>1. PICK f \in me.found :
        /\ me.at = "write" /\ Wrote(r, [me EXCEPT !.found = @ \ {f}]) /\ UNCHANGED <<since, moves, today, settled>>
        /\ IF Existing(r, f[1]) # {}
             THEN /\ LET i == CHOOSE i \in Existing(r, f[1]) : \A j \in Existing(r, f[1]) : j <= i IN
                       rows' = [rows EXCEPT ![i] = Updated(@, RowOf(r, f))]
                  /\ UNCHANGED doubled
             ELSE /\ rows' = Append(rows, RowOf(r, f))
                  /\ doubled' = IF \E i \in DOMAIN rows \ me.active : rows[i].kind = f[1] /\ rows[i].status = "ACTIVE"
                                  THEN doubled \cup {f[1]} ELSE doubled
  BY DEF Confirm, RowOf
<1> DEFINE row == RowOf(r, f)
<1>2. /\ RowFits(row) /\ f[1] \in Moves
      /\ row.kind = f[1] /\ row.status = "ACTIVE" /\ row.evidence = f[2] /\ row.last = me.day
  BY <1>1, RowOfTyped DEF RowFits, RowOf
<1>3. rows \in Seq(Row) /\ \A i \in DOMAIN rows : RowFits(rows[i])
  BY RowsFit DEF PatternTyped
<1> HIDE DEF row
<1>4. CASE Existing(r, f[1]) # {}
  <2> DEFINE mine == Existing(r, f[1])
             i == CHOOSE i \in mine : \A j \in mine : j <= i
  <2>1. mine \subseteq 1..Len(rows) /\ Len(rows) \in Nat
    BY <1>3 DEF PatternTyped, RefreshTyped, Existing
  <2>2. i \in mine
    BY <1>4, <2>1, LargestOf
  <2>3. rows' = [rows EXCEPT ![i] = Updated(rows[i], row)] /\ UNCHANGED doubled
    BY <1>1, <1>4 DEF row
  <2> HIDE DEF i
  <2>4. i \in DOMAIN rows /\ rows[i].kind = f[1]
    BY <1>3, <2>1, <2>2 DEF Existing
  <2> DEFINE new == Updated(rows[i], row)
  <2>5. /\ RowFits(new) /\ new.kind = rows[i].kind /\ new.first = rows[i].first /\ new.status = rows[i].status
        /\ new.evidence = f[2] /\ new.last = me.day
    <3>1. rows[i] \in Row /\ row \in Row
      BY <1>2, <1>3, <2>4 DEF RowFits
    <3>2. new = [kind |-> row.kind, status |-> rows[i].status, evidence |-> row.evidence, observed |-> row.observed,
                 first |-> rows[i].first, last |-> row.last]
      <4> DEFINE x == [row EXCEPT !.status = rows[i].status]
      <4>1. x = [kind |-> row.kind, status |-> rows[i].status, evidence |-> row.evidence, observed |-> row.observed,
                 first |-> row.first, last |-> row.last]
        BY <3>1 DEF Row
      <4>2. new = [x EXCEPT !.first = rows[i].first]
        BY DEF Updated
      <4> HIDE DEF x, new
      <4>3. QED
        BY <4>1, <4>2
    <3> HIDE DEF new
    <3>3. QED
      BY <1>2, <2>4, <3>1, <3>2 DEF RowFits, Row
  <2> HIDE DEF new
  <2>6. /\ DOMAIN rows' = DOMAIN rows /\ rows'[i] = new /\ \A j \in DOMAIN rows \ {i} : rows'[j] = rows[j]
    BY <2>3, <2>4 DEF new
  <2>7. rows' \in Seq(Row)
    BY <1>3, <2>3, <2>4, <2>5 DEF RowFits, new
  <2>8. \A j \in DOMAIN rows' : RowFits(rows'[j])
    BY <1>3, <2>5, <2>6
  <2>9. RowsKeep
    BY <2>5, <2>6, <2>7, <2>8, RowsFitNext DEF RowsKeep
  <2>10. QED
    BY <1>1, <1>2, <2>2, <2>3, <2>4, <2>5, <2>6, <2>9
<1>5. CASE Existing(r, f[1]) = {}
  <2>1. rows' = Append(rows, row) /\ row \in Row
    BY <1>1, <1>2, <1>5 DEF row, RowFits
  <2>2. /\ rows' \in Seq(Row) /\ Len(rows) \in Nat /\ DOMAIN rows = 1..Len(rows) /\ DOMAIN rows' = 1..(Len(rows) + 1)
        /\ rows'[Len(rows) + 1] = row /\ \A j \in DOMAIN rows : rows'[j] = rows[j]
    BY <1>3, <2>1
  <2>3. \A j \in DOMAIN rows' : RowFits(rows'[j])
    BY <1>2, <1>3, <2>2
  <2>4. RowsKeep
    BY <2>2, <2>3, RowsFitNext DEF RowsKeep
  <2>5. doubled' = IF \E i \in DOMAIN rows \ me.active : rows[i].kind = f[1] /\ rows[i].status = "ACTIVE"
                     THEN doubled \cup {f[1]} ELSE doubled
    BY <1>1, <1>5
  <2>6. QED
    BY <1>1, <1>2, <1>5, <2>2, <2>4, <2>5
<1>6. QED
  BY <1>4, <1>5

LEMMA ResolveEffect ==
  ASSUME PatternTyped, NEW r \in Refreshers, ResolveOne(r)
  PROVE  \E i \in refresher[r].todo :
           /\ refresher[r].at = "write" /\ refresher[r].found = {}
           /\ Wrote(r, [refresher[r] EXCEPT !.todo = @ \ {i}])
           /\ UNCHANGED <<since, moves, today, settled, doubled>> /\ RowsKeep
           /\ i \in DOMAIN rows /\ DOMAIN rows' = DOMAIN rows
           /\ rows'[i].status = "RESOLVED" /\ \A j \in DOMAIN rows \ {i} : rows'[j] = rows[j]
<1> DEFINE me == refresher[r]
<1>1. PICK i \in me.todo :
        /\ me.at = "write" /\ me.found = {} /\ Wrote(r, [me EXCEPT !.todo = @ \ {i}])
        /\ rows' = [rows EXCEPT ![i].status = "RESOLVED"] /\ UNCHANGED <<since, moves, today, settled, doubled>>
  BY DEF ResolveOne
<1>2. rows \in Seq(Row) /\ (\A j \in DOMAIN rows : RowFits(rows[j])) /\ i \in DOMAIN rows
  BY RowsFit DEF PatternTyped, RefreshTyped
<1> DEFINE new == [rows[i] EXCEPT !.status = "RESOLVED"]
<1>3. /\ RowFits(new) /\ new.kind = rows[i].kind /\ new.first = rows[i].first /\ new.status = "RESOLVED"
  <2>1. rows[i] \in Row
    BY <1>2 DEF RowFits
  <2>2. /\ new \in Row /\ new.kind = rows[i].kind /\ new.first = rows[i].first /\ new.status = "RESOLVED"
        /\ new.evidence = rows[i].evidence /\ new.observed = rows[i].observed /\ new.last = rows[i].last
    BY <2>1 DEF Row
  <2> HIDE DEF new
  <2>3. QED
    BY <1>2, <2>2 DEF RowFits
<1>4. rows' = [rows EXCEPT ![i] = new]
  BY <1>1
<1> HIDE DEF new
<1>5. DOMAIN rows' = DOMAIN rows /\ rows'[i] = new /\ \A j \in DOMAIN rows \ {i} : rows'[j] = rows[j]
  BY <1>2, <1>4
<1>6. rows' \in Seq(Row)
  BY <1>2, <1>3, <1>4 DEF RowFits
<1>7. \A j \in DOMAIN rows' : RowFits(rows'[j])
  BY <1>2, <1>3, <1>5
<1>8. RowsKeep
  BY <1>3, <1>5, <1>6, <1>7, RowsFitNext DEF RowsKeep
<1>9. QED
  BY <1>1, <1>2, <1>3, <1>5, <1>8

LEMMA RowsUnchanged == ASSUME PatternTyped, UNCHANGED rows PROVE RowsKeep
BY RowsFit, RowsFitNext DEF PatternTyped, RowsKeep

-----------------------------------------------------------------------------
(* Types are kept.                                                         *)
LEMMA RefreshStays ==
  ASSUME PatternTyped, RowsKeep, NEW r \in Refreshers,
         refresher'[r] = refresher[r] \/ refresher'[r] = [refresher[r] EXCEPT !.alone = FALSE] \/ refresher'[r] = Waiting
  PROVE  refresher'[r] \in RefreshState /\ RefreshTyped(r)'
<1>1. refresher[r] \in RefreshState /\ RefreshTyped(r) /\ DOMAIN rows \subseteq DOMAIN rows'
  BY DEF PatternTyped, RowsKeep
<1>2. CASE refresher'[r] = refresher[r]
  BY <1>1, <1>2 DEF RefreshTyped
<1>3. CASE refresher'[r] = [refresher[r] EXCEPT !.alone = FALSE]
  BY <1>1, <1>3, NotAlone DEF RefreshTyped
<1>4. CASE refresher'[r] = Waiting
  BY <1>1, <1>4, WaitingTyped DEF RefreshTyped
<1>5. QED
  BY <1>2, <1>3, <1>4

EvaluatedState == [at |-> "active", found |-> {<<k, Behind(k)>> : k \in Detected}, observed |-> Cardinality(Eligible),
                   day |-> today, active |-> {}, todo |-> {}, alone |-> TRUE]

LEMMA EvaluateEffect ==
  ASSUME PatternTyped, NEW r \in Refreshers, Evaluate(r)
  PROVE  /\ refresher' = [refresher EXCEPT ![r] = EvaluatedState] /\ EvaluatedState \in RefreshState
         /\ \A f \in EvaluatedState.found : EvidenceFits(f[2], f[1], today)
         /\ Cardinality(Eligible) >= MinObserved /\ AtRest(r)
<1>1. refresher[r].at = "idle" /\ Sufficient /\ refresher' = [refresher EXCEPT ![r] = EvaluatedState]
  BY DEF Evaluate, EvaluatedState
<1>3. {<<k, Behind(k)>> : k \in Detected} \subseteq Moves \X SUBSET Move
  BY BehindFits DEF Detected
<1>4. \A f \in {<<k, Behind(k)>> : k \in Detected} : EvidenceFits(f[2], f[1], today)
  BY BehindFits
<1>5. EvaluatedState \in RefreshState
  BY <1>3, EligibleCounted DEF EvaluatedState, RefreshState, PatternTyped
<1>6. QED
  BY <1>1, <1>4, <1>5 DEF EvaluatedState, Sufficient, AtRest

ActiveNow == {i \in DOMAIN rows : rows[i].status = "ACTIVE"}
ReadState(x) == [at |-> "write", found |-> x.found, observed |-> x.observed, day |-> x.day,
                 active |-> ActiveNow, todo |-> ToResolve(ActiveNow, x.found), alone |-> x.alone]

LEMMA ReadActiveEffect ==
  ASSUME PatternTyped, NEW r \in Refreshers, ReadActive(r)
  PROVE  /\ refresher' = [refresher EXCEPT ![r] = ReadState(refresher[r])]
         /\ ReadState(refresher[r]) \in RefreshState /\ refresher[r].at = "active"
         /\ ToResolve(ActiveNow, refresher[r].found) \subseteq ActiveNow
         /\ UNCHANGED <<since, moves, rows, today, settled, doubled>>
<1> DEFINE x == refresher[r]
<1>1. /\ x \in RefreshState /\ x.at = "active" /\ UNCHANGED <<since, moves, rows, today, settled, doubled>>
      /\ refresher' = [refresher EXCEPT ![r] =
           [[[x EXCEPT !.at = "write"] EXCEPT !.active = ActiveNow] EXCEPT !.todo = ToResolve(ActiveNow, x.found)]]
  BY DEF PatternTyped, ReadActive, ActiveNow
<1>2. [[[x EXCEPT !.at = "write"] EXCEPT !.active = ActiveNow] EXCEPT !.todo = ToResolve(ActiveNow, x.found)] = ReadState(x)
  <2> DEFINE x1 == [x EXCEPT !.at = "write"]
             x2 == [x1 EXCEPT !.active = ActiveNow]
             x3 == [x2 EXCEPT !.todo = ToResolve(ActiveNow, x.found)]
  <2>1. x1 = [at |-> "write", found |-> x.found, observed |-> x.observed, day |-> x.day,
              active |-> x.active, todo |-> x.todo, alone |-> x.alone]
    BY <1>1 DEF RefreshState
  <2> HIDE DEF x1
  <2>2. x2 = [at |-> "write", found |-> x.found, observed |-> x.observed, day |-> x.day,
              active |-> ActiveNow, todo |-> x.todo, alone |-> x.alone]
    BY <2>1
  <2> HIDE DEF x2
  <2>3. x3 = ReadState(x)
    BY <2>2 DEF ReadState
  <2>4. QED
    BY <2>3 DEF x1, x2
<1>3. ToResolve(ActiveNow, x.found) \subseteq ActiveNow /\ ActiveNow \subseteq DOMAIN rows /\ DOMAIN rows \subseteq Nat
  BY DEF ToResolve, ActiveNow, PatternTyped
<1>4. ReadState(x) \in RefreshState
  BY <1>1, <1>3, RefreshFields DEF ReadState, RefreshState
<1>5. QED
  BY <1>1, <1>2, <1>3, <1>4

(* The state of a refresh that wrote.                                      *)
LEMMA WroteEffect ==
  ASSUME PatternTyped, NEW r \in Refreshers, NEW next \in RefreshState, Wrote(r, next)
  PROVE  /\ refresher'[r] = next /\ refresher' \in [Refreshers -> RefreshState]
         /\ \A q \in Refreshers \ {r} : refresher'[q] = [refresher[q] EXCEPT !.alone = FALSE] /\ ~refresher'[q].alone
BY NotAlone DEF PatternTyped, Wrote

LEMMA ConfirmedState ==
  ASSUME NEW x \in RefreshState, NEW f
  PROVE  LET y == [x EXCEPT !.found = @ \ {f}] IN
           /\ y \in RefreshState /\ y.found = x.found \ {f} /\ y.at = x.at /\ y.observed = x.observed /\ y.day = x.day
           /\ y.active = x.active /\ y.todo = x.todo /\ y.alone = x.alone
BY DEF RefreshState

LEMMA ResolvedState ==
  ASSUME NEW x \in RefreshState, NEW i
  PROVE  LET y == [x EXCEPT !.todo = @ \ {i}] IN
           /\ y \in RefreshState /\ y.todo = x.todo \ {i} /\ y.at = x.at /\ y.observed = x.observed /\ y.day = x.day
           /\ y.active = x.active /\ y.found = x.found /\ y.alone = x.alone
BY DEF RefreshState

LEMMA DisturbedEffect ==
  ASSUME PatternTyped, Disturbed
  PROVE  /\ ~settled' /\ refresher' \in [Refreshers -> RefreshState]
         /\ \A q \in Refreshers : refresher'[q] = [refresher[q] EXCEPT !.alone = FALSE] /\ ~refresher'[q].alone
BY NotAlone DEF PatternTyped, Disturbed

LEMMA PatternTypedStep ==
  ASSUME PatternTyped, [PatternNext]_mVars
  PROVE  PatternTyped' /\ RowsKeep
<1> DEFINE World == since' \in [Rivals -> 0..Never] /\ moves' \subseteq Move /\ today' \in 0..PatternDays /\ (\A m \in moves' : m.at <= today')
           Jobs == refresher' \in [Refreshers -> RefreshState] /\ \A r \in Refreshers : RefreshTyped(r)'
           Goal == World /\ Jobs /\ RowsKeep
<1>0. /\ since \in [Rivals -> 0..Never] /\ moves \subseteq Move /\ today \in 0..PatternDays /\ (\A m \in moves : m.at <= today)
      /\ refresher \in [Refreshers -> RefreshState] /\ \A r \in Refreshers : RefreshTyped(r)
  BY DEF PatternTyped
<1>w. ASSUME UNCHANGED <<since, moves, today>>
      PROVE  World
  BY <1>0, <1>w
<1>r. ASSUME RowsKeep, NEW r \in Refreshers, NEW next \in RefreshState, refresher' = [refresher EXCEPT ![r] = next], RefreshTyped(r)'
      PROVE  Jobs
  <2>1. ASSUME NEW q \in Refreshers \ {r}
        PROVE  RefreshTyped(q)'
    BY <1>0, <1>r, RefreshStays
  <2>2. QED
    BY <1>0, <1>r, <2>1
<1>n. ASSUME RowsKeep, NEW r \in Refreshers, NEW next \in RefreshState, Wrote(r, next), RefreshTyped(r)'
      PROVE  Jobs
  <2>1. ASSUME NEW q \in Refreshers \ {r}
        PROVE  RefreshTyped(q)'
    BY <1>n, WroteEffect, RefreshStays
  <2>2. QED
    BY <1>n, <2>1, WroteEffect
<1>1. ASSUME NEW r \in Refreshers, Evaluate(r)
      PROVE  Goal
  <2>1. RowsKeep /\ UNCHANGED <<since, moves, today>>
    BY <1>1, RowsUnchanged DEF Evaluate
  <2>2. refresher'[r] = EvaluatedState
    BY <1>0, <1>1, EvaluateEffect
  <2>3. RefreshTyped(r)'
    BY <1>1, <2>2, EvaluateEffect DEF RefreshTyped, EvaluatedState
  <2>4. QED
    BY <1>1, <1>w, <1>r, <2>1, <2>3, EvaluateEffect
<1>2. ASSUME NEW r \in Refreshers, ReadActive(r)
      PROVE  Goal
  <2>1. RowsKeep /\ UNCHANGED <<since, moves, today, rows>>
    BY <1>2, RowsUnchanged, ReadActiveEffect
  <2>2. refresher'[r] = ReadState(refresher[r])
    BY <1>0, <1>2, ReadActiveEffect
  <2>3. ToResolve(ActiveNow, refresher[r].found) \subseteq ActiveNow /\ ActiveNow \subseteq DOMAIN rows'
    BY <1>2, <2>1, ReadActiveEffect DEF ActiveNow
  <2>4. refresher[r].observed >= MinObserved /\ \A f \in refresher[r].found : EvidenceFits(f[2], f[1], refresher[r].day)
    BY <1>0, <1>2, ReadActiveEffect DEF RefreshTyped
  <2>5. RefreshTyped(r)'
    BY <2>2, <2>3, <2>4 DEF RefreshTyped, ReadState
  <2>6. QED
    BY <1>2, <1>w, <1>r, <2>1, <2>5, ReadActiveEffect
<1>3. ASSUME NEW r \in Refreshers, Confirm(r)
      PROVE  Goal
  <2>1. PICK f \in refresher[r].found :
          Wrote(r, [refresher[r] EXCEPT !.found = @ \ {f}]) /\ UNCHANGED <<since, moves, today, settled>> /\ RowsKeep
    BY <1>3, ConfirmEffect
  <2> DEFINE y == [refresher[r] EXCEPT !.found = @ \ {f}]
  <2>2. /\ y \in RefreshState /\ y.found = refresher[r].found \ {f} /\ y.at = refresher[r].at /\ y.observed = refresher[r].observed
        /\ y.day = refresher[r].day /\ y.active = refresher[r].active /\ y.todo = refresher[r].todo
    BY <1>0, ConfirmedState
  <2> HIDE DEF y
  <2>3. refresher'[r] = y
    BY <2>1, <2>2, WroteEffect DEF y
  <2>4. RefreshTyped(r)'
    BY <1>0, <2>1, <2>2, <2>3 DEF RefreshTyped, RowsKeep
  <2>5. QED
    BY <1>w, <1>n, <2>1, <2>2, <2>4 DEF y
<1>4. ASSUME NEW r \in Refreshers, ResolveOne(r)
      PROVE  Goal
  <2>1. PICK i \in refresher[r].todo :
          Wrote(r, [refresher[r] EXCEPT !.todo = @ \ {i}]) /\ UNCHANGED <<since, moves, today, settled>> /\ RowsKeep
    BY <1>4, ResolveEffect
  <2> DEFINE y == [refresher[r] EXCEPT !.todo = @ \ {i}]
  <2>2. /\ y \in RefreshState /\ y.todo = refresher[r].todo \ {i} /\ y.at = refresher[r].at /\ y.observed = refresher[r].observed
        /\ y.day = refresher[r].day /\ y.active = refresher[r].active /\ y.found = refresher[r].found
    BY <1>0, ResolvedState
  <2> HIDE DEF y
  <2>3. refresher'[r] = y
    BY <2>1, <2>2, WroteEffect DEF y
  <2>4. RefreshTyped(r)'
    BY <1>0, <2>1, <2>2, <2>3 DEF RefreshTyped, RowsKeep
  <2>5. QED
    BY <1>w, <1>n, <2>1, <2>2, <2>4 DEF y
<1>5. ASSUME NEW r \in Refreshers, Finish(r) \/ GiveUp(r)
      PROVE  Goal
  <2>1. RowsKeep /\ UNCHANGED <<since, moves, today>> /\ refresher' = [refresher EXCEPT ![r] = Waiting]
    BY <1>5, RowsUnchanged DEF Finish, GiveUp
  <2>2. RefreshTyped(r)'
    BY <1>0, <2>1, RefreshStays
  <2>3. QED
    BY <1>w, <1>r, <2>1, <2>2, WaitingTyped
<1>6. ASSUME Disturbed, UNCHANGED rows, World
      PROVE  Goal
  <2>1. RowsKeep
    BY <1>6, RowsUnchanged
  <2>2. QED
    BY <1>6, <2>1, DisturbedEffect, RefreshStays
<1>7. ASSUME NEW c \in Rivals, NEW kind \in Moves, Happens(kind, c)
      PROVE  Goal
  <2>1. /\ moves' = moves \cup {[kind |-> kind, rival |-> c, at |-> today]} /\ Disturbed /\ UNCHANGED <<since, rows, today>>
    BY <1>7 DEF Happens
  <2>2. World
    BY <1>0, <2>1 DEF Move
  <2>3. QED
    BY <1>6, <2>1, <2>2
<1>8. ASSUME NEW c \in Rivals, Watch(c)
      PROVE  Goal
  <2>1. /\ since' = [since EXCEPT ![c] = IF since[c] = Never THEN today ELSE Never] /\ Disturbed /\ UNCHANGED <<moves, rows, today>>
    BY <1>8 DEF Watch
  <2>2. today \in 0..Never /\ Never \in 0..Never
    BY <1>0, PatternConstants DEF Never
  <2>3. World
    BY <1>0, <2>1, <2>2
  <2>4. QED
    BY <1>6, <2>1, <2>3
<1>9. ASSUME PatternDay
      PROVE  Goal
  <2>1. today < PatternDays /\ today' = today + 1 /\ Disturbed /\ UNCHANGED <<since, moves, rows>>
    BY <1>9 DEF PatternDay
  <2>2. World
    BY <1>0, <2>1, PatternConstants DEF Move
  <2>3. QED
    BY <1>6, <2>1, <2>2
<1>10. ASSUME UNCHANGED mVars
      PROVE  Goal
  <2>1. RowsKeep /\ UNCHANGED <<since, moves, today, refresher>>
    BY <1>10, RowsUnchanged DEF mVars
  <2>2. \A r \in Refreshers : RefreshTyped(r)'
    BY <2>1, RefreshStays
  <2>3. QED
    BY <1>0, <1>w, <2>1, <2>2
<1>11. Goal
  BY <1>1, <1>2, <1>3, <1>4, <1>5, <1>7, <1>8, <1>9, <1>10 DEF PatternNext
<1>12. QED
  BY <1>11 DEF PatternTyped, RowsKeep

-----------------------------------------------------------------------------
(* What the market shows depends only on the signals, the competitors and  *)
(* the day.                                                                *)
LEMMA MarketStays ==
  ASSUME UNCHANGED <<since, moves, today>>
  PROVE  (\A k : Behind(k)' = Behind(k)) /\ Detected' = Detected /\ Eligible' = Eligible
<1>1. Eligible' = Eligible
  BY DEF Eligible
<1>2. \A k : Behind(k)' = Behind(k)
  BY <1>1 DEF Behind
<1>3. Detected' = Detected
  BY <1>1, <1>2 DEF Detected
<1>4. QED
  BY <1>1, <1>2, <1>3

LEMMA ActiveRowsStay ==
  ASSUME UNCHANGED rows
  PROVE  (\A k : ActiveRows(k)' = ActiveRows(k))
BY DEF ActiveRows

(* A row is active of its kind after a step only if it was, or is new.     *)
LEMMA ActiveRowsGrow ==
  ASSUME PatternTyped, RowsKeep, NEW k, NEW i \in ActiveRows(k)', i \in DOMAIN rows
  PROVE  i \in ActiveRows(k)
<1>1. rows'[i].kind = k /\ rows'[i].status = "ACTIVE" /\ rows[i].kind = k
  BY DEF ActiveRows, RowsKeep
<1>2. rows[i].status \in {"ACTIVE", "RESOLVED"}
  <2>1. rows[i] \in Row
    BY DEF PatternTyped, PatternTypeOK
  <2>2. QED
    BY <2>1 DEF Row
<1>3. QED
  BY <1>1, <1>2 DEF ActiveRows, RowsKeep

LEMMA OutlookStays ==
  ASSUME UNCHANGED <<since, moves, today, rows>>, NEW r \in Refreshers, refresher'[r] = refresher[r], Outlook(r)
  PROVE  Outlook(r)'
<1>1. (\A k : Behind(k)' = Behind(k)) /\ Detected' = Detected /\ \A k : ActiveRows(k)' = ActiveRows(k)
  BY MarketStays, ActiveRowsStay
<1>2. \A k : InRows(k)' <=> InRows(k)
  BY <1>1 DEF InRows
<1>3. QED
  BY <1>1, <1>2 DEF Outlook

LEMMA SingleRowsStay ==
  ASSUME SingleRows, UNCHANGED <<rows, doubled>>
  PROVE  SingleRows'
BY ActiveRowsStay DEF SingleRows

(* A confirmation keeps one active row of each kind, or notes the double.  *)
LEMMA ConfirmSingle ==
  ASSUME PatternTyped, SingleRows, NEW r \in Refreshers, Confirm(r)
  PROVE  SingleRows'
<1>1. PICK f \in refresher[r].found :
        /\ RowsKeep
        /\ \/ \E i \in Existing(r, f[1]) : DOMAIN rows' = DOMAIN rows /\ UNCHANGED doubled
           \/ /\ Existing(r, f[1]) = {} /\ DOMAIN rows' = 1..(Len(rows) + 1)
              /\ \A j \in DOMAIN rows : rows'[j] = rows[j]
              /\ rows'[Len(rows) + 1].kind = f[1] /\ rows'[Len(rows) + 1].status = "ACTIVE"
              /\ doubled' = IF \E i \in DOMAIN rows \ refresher[r].active : rows[i].kind = f[1] /\ rows[i].status = "ACTIVE"
                              THEN doubled \cup {f[1]} ELSE doubled
  BY ConfirmEffect
<1>2. DOMAIN rows = 1..Len(rows) /\ Len(rows) \in Nat
  BY DEF PatternTyped
<1> SUFFICES ASSUME NEW kind \in Moves \ doubled', NEW i \in ActiveRows(kind)', NEW j \in ActiveRows(kind)'
             PROVE  i = j
  BY DEF SingleRows
<1>3. i \in DOMAIN rows' /\ j \in DOMAIN rows'
  BY DEF ActiveRows
<1>4. CASE DOMAIN rows' = DOMAIN rows /\ UNCHANGED doubled
  BY <1>1, <1>3, <1>4, ActiveRowsGrow DEF SingleRows
<1>5. CASE /\ Existing(r, f[1]) = {} /\ DOMAIN rows' = 1..(Len(rows) + 1)
           /\ \A l \in DOMAIN rows : rows'[l] = rows[l]
           /\ rows'[Len(rows) + 1].kind = f[1] /\ rows'[Len(rows) + 1].status = "ACTIVE"
           /\ doubled' = IF \E l \in DOMAIN rows \ refresher[r].active : rows[l].kind = f[1] /\ rows[l].status = "ACTIVE"
                           THEN doubled \cup {f[1]} ELSE doubled
  <2>1. kind \in Moves \ doubled
    BY <1>5
  <2>2. CASE kind # f[1]
    <3>1. i # Len(rows) + 1 /\ j # Len(rows) + 1
      BY <1>5, <2>2 DEF ActiveRows
    <3>2. i \in DOMAIN rows /\ j \in DOMAIN rows
      BY <1>2, <1>3, <1>5, <3>1
    <3>3. QED
      BY <1>1, <2>1, <3>2, ActiveRowsGrow DEF SingleRows
  <2>3. CASE kind = f[1]
    <3>1. ASSUME NEW l \in DOMAIN rows, l \in ActiveRows(kind)
          PROVE  FALSE
      <4>1. l \in refresher[r].active
        BY <1>5, <2>1, <2>3, <3>1 DEF ActiveRows
      <4>2. l \in Existing(r, f[1])
        BY <2>3, <3>1, <4>1 DEF Existing, ActiveRows
      <4>3. QED
        BY <1>5, <4>2
    <3>2. i \notin DOMAIN rows /\ j \notin DOMAIN rows
      BY <1>1, <3>1, ActiveRowsGrow
    <3>3. QED
      BY <1>2, <1>3, <1>5, <3>2
  <2>4. QED
    BY <2>2, <2>3
<1>6. QED
  BY <1>1, <1>4, <1>5

LEMMA ResolveSingle ==
  ASSUME PatternTyped, SingleRows, NEW r \in Refreshers, ResolveOne(r)
  PROVE  SingleRows'
<1>1. RowsKeep /\ DOMAIN rows' = DOMAIN rows /\ UNCHANGED doubled
  BY ResolveEffect
<1>2. \A k : ActiveRows(k)' \subseteq DOMAIN rows'
  BY DEF ActiveRows
<1>3. QED
  BY <1>1, <1>2, ActiveRowsGrow DEF SingleRows

-----------------------------------------------------------------------------
(* A refresh that is alone, step by step.                                  *)
LEMMA EvaluateOutlook ==
  ASSUME PatternTyped, NEW r \in Refreshers, Evaluate(r)
  PROVE  Outlook(r)'
<1>1. refresher'[r] = EvaluatedState /\ UNCHANGED <<since, moves, today>>
  BY EvaluateEffect DEF Evaluate, PatternTyped
<1>2. QED
  BY <1>1, MarketStays DEF Outlook, EvaluatedState

LEMMA ReadOutlook ==
  ASSUME PatternTyped, NEW r \in Refreshers, ReadActive(r), Outlook(r)
  PROVE  Outlook(r)'
<1> DEFINE x == refresher[r]
           wanted == {<<k, Behind(k)>> : k \in Detected}
<1>1. /\ refresher'[r] = ReadState(x) /\ UNCHANGED <<since, moves, today, rows>> /\ x.at = "active"
  BY ReadActiveEffect DEF PatternTyped
<1>2. x.found = wanted /\ x.day = today
  BY <1>1 DEF Outlook
<1>3. \A i \in ActiveNow : rows[i].status = "ACTIVE" /\ i \in DOMAIN rows
  BY DEF ActiveNow
<1>4. {f[1] : f \in wanted} = Detected
  <2>1. \A k \in Detected : <<k, Behind(k)>> \in wanted /\ <<k, Behind(k)>>[1] = k
    OBVIOUS
  <2>2. \A f \in wanted : f[1] \in Detected
    OBVIOUS
  <2> HIDE DEF wanted
  <2>3. QED
    BY <2>1, <2>2
<1>5. \A i \in ActiveNow : i \in ToResolve(ActiveNow, x.found) <=> rows[i].kind \notin Detected
  BY <1>2, <1>4 DEF ToResolve
<1>6. \A k \in Moves \ Detected : ActiveRows(k) \subseteq ToResolve(ActiveNow, x.found)
  BY <1>5 DEF ActiveRows, ActiveNow
<1>7. (\A k : Behind(k)' = Behind(k)) /\ Detected' = Detected /\ (\A k : ActiveRows(k)' = ActiveRows(k)) /\ rows' = rows /\ today' = today
  BY <1>1, MarketStays, ActiveRowsStay
<1>8. ToResolve(ActiveNow, x.found) \subseteq ActiveNow
  BY DEF ToResolve
<1>9. /\ refresher'[r].at = "write" /\ refresher'[r].found = wanted /\ refresher'[r].day = today
      /\ refresher'[r].active = ActiveNow /\ refresher'[r].todo = ToResolve(ActiveNow, x.found)
  BY <1>1, <1>2 DEF ReadState
<1>10. {<<k, Behind(k)'>> : k \in Detected'} = wanted
  BY <1>7
<1>11. /\ \A k \in Detected' : <<k, Behind(k)'>> \in wanted
       /\ \A i \in ActiveNow : rows'[i].kind \in Detected' => rows'[i].status = "ACTIVE"
       /\ \A i \in ToResolve(ActiveNow, x.found) : rows'[i].kind \notin Detected'
       /\ \A k \in Moves \ Detected' : ActiveRows(k)' \subseteq ToResolve(ActiveNow, x.found)
  BY <1>3, <1>5, <1>6, <1>7, <1>8
<1> HIDE DEF wanted
<1>12. QED
  BY <1>7, <1>9, <1>10, <1>11 DEF Outlook

LEMMA ConfirmOutlook ==
  ASSUME PatternTyped, NEW r \in Refreshers, Confirm(r), Outlook(r)
  PROVE  Outlook(r)'
<1> DEFINE x == refresher[r]
           wanted == {<<k, Behind(k)>> : k \in Detected}
<1>0. x \in RefreshState /\ RefreshTyped(r) /\ DOMAIN rows = 1..Len(rows) /\ Len(rows) \in Nat
  BY DEF PatternTyped
<1>1. PICK f \in x.found :
        /\ x.at = "write" /\ f[1] \in Moves /\ Wrote(r, [x EXCEPT !.found = @ \ {f}])
        /\ UNCHANGED <<since, moves, today, settled>> /\ RowsKeep
        /\ \/ \E i \in Existing(r, f[1]) :
                /\ i \in DOMAIN rows /\ DOMAIN rows' = DOMAIN rows /\ UNCHANGED doubled
                /\ \A j \in DOMAIN rows \ {i} : rows'[j] = rows[j]
                /\ rows'[i].status = rows[i].status /\ rows'[i].evidence = f[2] /\ rows'[i].last = x.day
           \/ /\ Existing(r, f[1]) = {} /\ DOMAIN rows' = 1..(Len(rows) + 1)
              /\ \A j \in DOMAIN rows : rows'[j] = rows[j]
              /\ rows'[Len(rows) + 1].kind = f[1] /\ rows'[Len(rows) + 1].status = "ACTIVE"
              /\ rows'[Len(rows) + 1].evidence = f[2] /\ rows'[Len(rows) + 1].last = x.day
  BY ConfirmEffect
<1> DEFINE y == [x EXCEPT !.found = @ \ {f}]
<1>2. /\ y \in RefreshState /\ y.found = x.found \ {f} /\ y.at = "write" /\ y.day = x.day
      /\ y.active = x.active /\ y.todo = x.todo
  BY <1>0, <1>1, ConfirmedState
<1> HIDE DEF y
<1>3. refresher'[r] = y
  BY <1>1, <1>2, WroteEffect DEF y
<1>4. /\ x.day = today /\ x.found \subseteq wanted
      /\ \A k \in Detected : <<k, Behind(k)>> \in x.found \/ InRows(k)
      /\ \A i \in x.active : rows[i].kind \in Detected => rows[i].status = "ACTIVE"
      /\ \A i \in x.todo : rows[i].kind \notin Detected
      /\ \A k \in Moves \ Detected : ActiveRows(k) \subseteq x.todo
  BY <1>1 DEF Outlook
<1>5. f[1] \in Detected /\ f[2] = Behind(f[1]) /\ f = <<f[1], Behind(f[1])>>
  BY <1>4
<1>6. (\A k : Behind(k)' = Behind(k)) /\ Detected' = Detected /\ today' = today
  BY <1>1, MarketStays
<1>7. PICK w \in DOMAIN rows' :
        /\ rows'[w].kind = f[1] /\ rows'[w].status = "ACTIVE" /\ rows'[w].evidence = f[2] /\ rows'[w].last = today
        /\ w \in DOMAIN rows => rows[w].kind = f[1] /\ rows[w].status = "ACTIVE"
        /\ \A j \in DOMAIN rows \ {w} : rows'[j] = rows[j]
        /\ DOMAIN rows' = DOMAIN rows \cup {w}
  <2>1. CASE \E i \in Existing(r, f[1]) :
               /\ i \in DOMAIN rows /\ DOMAIN rows' = DOMAIN rows
               /\ \A j \in DOMAIN rows \ {i} : rows'[j] = rows[j]
               /\ rows'[i].status = rows[i].status /\ rows'[i].evidence = f[2] /\ rows'[i].last = x.day
    <3>1. PICK i \in Existing(r, f[1]) :
               /\ i \in DOMAIN rows /\ DOMAIN rows' = DOMAIN rows
               /\ \A j \in DOMAIN rows \ {i} : rows'[j] = rows[j]
               /\ rows'[i].status = rows[i].status /\ rows'[i].evidence = f[2] /\ rows'[i].last = x.day
      BY <2>1
    <3>2. i \in x.active /\ rows[i].kind = f[1] /\ rows'[i].kind = f[1]
      BY <1>1, <3>1 DEF Existing, RowsKeep
    <3>3. rows[i].status = "ACTIVE"
      BY <1>4, <1>5, <3>2
    <3>4. QED
      BY <1>4, <3>1, <3>2, <3>3
  <2>2. CASE /\ DOMAIN rows' = 1..(Len(rows) + 1) /\ \A j \in DOMAIN rows : rows'[j] = rows[j]
             /\ rows'[Len(rows) + 1].kind = f[1] /\ rows'[Len(rows) + 1].status = "ACTIVE"
             /\ rows'[Len(rows) + 1].evidence = f[2] /\ rows'[Len(rows) + 1].last = x.day
    <3>1. /\ Len(rows) + 1 \notin DOMAIN rows /\ Len(rows) + 1 \in DOMAIN rows' /\ DOMAIN rows' = DOMAIN rows \cup {Len(rows) + 1}
      BY <1>0, <2>2
    <3>2. QED
      BY <1>4, <2>2, <3>1
  <2>3. QED
    BY <1>1, <2>1, <2>2
<1>8. \A k \in Detected' : <<k, Behind(k)'>> \in y.found \/ InRows(k)'
  <2> SUFFICES ASSUME NEW k \in Detected, <<k, Behind(k)>> \notin y.found
               PROVE  InRows(k)'
    BY <1>6
  <2>1. CASE k = f[1]
    BY <1>5, <1>6, <1>7, <2>1 DEF InRows, ActiveRows
  <2>2. CASE k # f[1]
    <3>1. <<k, Behind(k)>> \notin x.found
      BY <1>2, <1>5, <2>2
    <3>2. PICK i \in ActiveRows(k) : rows[i].evidence = Behind(k) /\ rows[i].last = today
      BY <1>4, <3>1 DEF InRows
    <3>3. i \in DOMAIN rows /\ rows[i].kind = k /\ rows[i].status = "ACTIVE"
      BY <3>2 DEF ActiveRows
    <3>4. rows'[i] = rows[i] /\ i \in DOMAIN rows'
      BY <1>7, <2>2, <3>3
    <3>5. QED
      BY <1>6, <3>2, <3>3, <3>4 DEF InRows, ActiveRows
  <2>3. QED
    BY <2>1, <2>2
<1>9. \A i \in DOMAIN rows : /\ rows'[i].kind = rows[i].kind
                             /\ rows[i].status = "ACTIVE" => rows'[i].status = "ACTIVE"
  BY <1>7
<1>10. x.active \subseteq DOMAIN rows /\ x.todo \subseteq DOMAIN rows
  BY <1>0 DEF RefreshTyped
<1>11. \A k \in Moves \ Detected' : ActiveRows(k)' \subseteq y.todo
  <2> SUFFICES ASSUME NEW k \in Moves \ Detected, NEW i \in ActiveRows(k)'
               PROVE  i \in x.todo
    BY <1>2, <1>6
  <2>1. i \in DOMAIN rows' /\ rows'[i].kind = k /\ i # w
    BY <1>5, <1>7 DEF ActiveRows
  <2>2. i \in DOMAIN rows
    BY <1>7, <2>1
  <2>3. i \in ActiveRows(k)
    BY <1>1, <2>2, ActiveRowsGrow
  <2>4. QED
    BY <1>4, <2>3
<1>12. y.found \subseteq {<<k, Behind(k)'>> : k \in Detected'}
  BY <1>2, <1>4, <1>6
<1>13. /\ \A i \in y.active : rows'[i].kind \in Detected' => rows'[i].status = "ACTIVE"
       /\ \A i \in y.todo : rows'[i].kind \notin Detected'
  BY <1>2, <1>4, <1>6, <1>9, <1>10
<1>14. y.at = "write" /\ y.day = today'
  BY <1>2, <1>4, <1>6
<1>15. QED
  BY <1>3, <1>8, <1>11, <1>12, <1>13, <1>14 DEF Outlook

LEMMA ResolveOutlook ==
  ASSUME PatternTyped, NEW r \in Refreshers, ResolveOne(r), Outlook(r)
  PROVE  Outlook(r)'
<1> DEFINE x == refresher[r]
<1>0. x \in RefreshState /\ RefreshTyped(r)
  BY DEF PatternTyped
<1>1. PICK i \in x.todo :
        /\ x.at = "write" /\ x.found = {} /\ Wrote(r, [x EXCEPT !.todo = @ \ {i}])
        /\ UNCHANGED <<since, moves, today, settled, doubled>> /\ RowsKeep
        /\ i \in DOMAIN rows /\ DOMAIN rows' = DOMAIN rows
        /\ rows'[i].status = "RESOLVED" /\ \A j \in DOMAIN rows \ {i} : rows'[j] = rows[j]
  BY ResolveEffect
<1> DEFINE y == [x EXCEPT !.todo = @ \ {i}]
<1>2. /\ y \in RefreshState /\ y.todo = x.todo \ {i} /\ y.at = "write" /\ y.day = x.day
      /\ y.active = x.active /\ y.found = {}
  BY <1>0, <1>1, ResolvedState
<1> HIDE DEF y
<1>3. refresher'[r] = y
  BY <1>1, <1>2, WroteEffect DEF y
<1>4. /\ x.day = today
      /\ \A k \in Detected : InRows(k)
      /\ \A j \in x.active : rows[j].kind \in Detected => rows[j].status = "ACTIVE"
      /\ \A j \in x.todo : rows[j].kind \notin Detected
      /\ \A k \in Moves \ Detected : ActiveRows(k) \subseteq x.todo
  BY <1>1 DEF Outlook
<1>5. (\A k : Behind(k)' = Behind(k)) /\ Detected' = Detected /\ today' = today
  BY <1>1, MarketStays
<1>6. rows[i].kind \notin Detected /\ \A j \in DOMAIN rows : rows'[j].kind = rows[j].kind
  BY <1>1, <1>4 DEF RowsKeep
<1>7. \A k \in Detected' : InRows(k)'
  <2> SUFFICES ASSUME NEW k \in Detected
               PROVE  InRows(k)'
    BY <1>5
  <2>1. PICK j \in ActiveRows(k) : rows[j].evidence = Behind(k) /\ rows[j].last = today
    BY <1>4 DEF InRows
  <2>2. j \in DOMAIN rows /\ rows[j].kind = k /\ rows[j].status = "ACTIVE"
    BY <2>1 DEF ActiveRows
  <2>3. rows'[j] = rows[j] /\ j \in DOMAIN rows'
    BY <1>1, <1>6, <2>2
  <2>4. QED
    BY <1>5, <2>1, <2>2, <2>3 DEF InRows, ActiveRows
<1>8. x.active \subseteq DOMAIN rows /\ x.todo \subseteq DOMAIN rows
  BY <1>0 DEF RefreshTyped
<1>9. \A k \in Moves \ Detected' : ActiveRows(k)' \subseteq y.todo
  <2> SUFFICES ASSUME NEW k \in Moves \ Detected, NEW j \in ActiveRows(k)'
               PROVE  j \in y.todo
    BY <1>5
  <2>1. j \in DOMAIN rows /\ rows'[j].status = "ACTIVE"
    BY <1>1 DEF ActiveRows
  <2>2. j # i /\ j \in ActiveRows(k)
    BY <1>1, <2>1, ActiveRowsGrow
  <2>3. QED
    BY <1>2, <1>4, <2>2
<1>10. /\ \A j \in y.active : rows'[j].kind \in Detected' => rows'[j].status = "ACTIVE"
       /\ \A j \in y.todo : rows'[j].kind \notin Detected'
  BY <1>1, <1>2, <1>4, <1>5, <1>6, <1>8
<1>11. y.at = "write" /\ y.day = today' /\ y.found \subseteq {<<k, Behind(k)'>> : k \in Detected'}
  BY <1>2, <1>4, <1>5
<1>12. QED
  BY <1>3, <1>7, <1>9, <1>10, <1>11 DEF Outlook

LEMMA FinishShows ==
  ASSUME PatternTyped, NEW r \in Refreshers, Finish(r), Outlook(r)
  PROVE  MarketShown'
<1>1. refresher[r].at = "write" /\ refresher[r].found = {} /\ refresher[r].todo = {} /\ UNCHANGED <<since, moves, rows, today>>
  BY DEF Finish
<1>2. (\A k \in Detected : InRows(k)) /\ \A k \in Moves \ Detected : ActiveRows(k) = {}
  BY <1>1 DEF Outlook
<1>3. (\A k : Behind(k)' = Behind(k)) /\ Detected' = Detected /\ \A k : ActiveRows(k)' = ActiveRows(k)
  BY <1>1, MarketStays, ActiveRowsStay
<1>4. \A k : InRows(k)' <=> InRows(k)
  BY <1>1, <1>3 DEF InRows
<1>5. QED
  BY <1>2, <1>3, <1>4 DEF MarketShown

LEMMA MarketShownStays ==
  ASSUME MarketShown, UNCHANGED <<since, moves, today, rows>>
  PROVE  MarketShown'
<1>1. (\A k : Behind(k)' = Behind(k)) /\ Detected' = Detected /\ \A k : ActiveRows(k)' = ActiveRows(k)
  BY MarketStays, ActiveRowsStay
<1>2. \A k : InRows(k)' <=> InRows(k)
  BY <1>1 DEF InRows
<1>3. QED
  BY <1>1, <1>2 DEF MarketShown

LEMMA PatternStep ==
  ASSUME PatternInv, [PatternNext]_mVars
  PROVE  PatternInv' /\ RowsKeep
<1> DEFINE Rest == /\ SingleRows'
                   /\ \A r \in Refreshers : refresher'[r].alone => Outlook(r)'
                   /\ settled' => MarketShown' /\ \A r \in Refreshers : AtRest(r)'
<1>0. /\ PatternTyped /\ SingleRows /\ (\A r \in Refreshers : refresher[r].alone => Outlook(r))
      /\ (settled => MarketShown /\ \A r \in Refreshers : AtRest(r))
      /\ refresher \in [Refreshers -> RefreshState]
  BY DEF PatternInv, PatternTyped
<1>s. ASSUME NEW r \in Refreshers, refresher[r].at # "idle"
      PROVE  ~settled
  BY <1>0, <1>s DEF AtRest
<1>1. ASSUME NEW r \in Refreshers, Evaluate(r)
      PROVE  Rest
  <2>1. ~settled' /\ UNCHANGED <<since, moves, rows, today, doubled>> /\ refresher' = [refresher EXCEPT ![r] = EvaluatedState]
    BY <1>0, <1>1, EvaluateEffect DEF Evaluate
  <2>2. Outlook(r)'
    BY <1>0, <1>1, EvaluateOutlook
  <2>3. ASSUME NEW q \in Refreshers \ {r}, refresher'[q].alone
        PROVE  Outlook(q)'
    BY <1>0, <2>1, <2>3, OutlookStays
  <2>4. QED
    BY <1>0, <2>1, <2>2, <2>3, SingleRowsStay
<1>2. ASSUME NEW r \in Refreshers, ReadActive(r)
      PROVE  Rest
  <2>1. /\ ~settled' /\ UNCHANGED <<since, moves, rows, today, doubled>>
        /\ refresher' = [refresher EXCEPT ![r] = ReadState(refresher[r])]
    BY <1>0, <1>2, <1>s, ReadActiveEffect
  <2>2. refresher'[r].alone => Outlook(r)'
    BY <1>0, <1>2, <2>1, ReadOutlook DEF ReadState
  <2>3. ASSUME NEW q \in Refreshers \ {r}, refresher'[q].alone
        PROVE  Outlook(q)'
    BY <1>0, <2>1, <2>3, OutlookStays
  <2>4. QED
    BY <1>0, <2>1, <2>2, <2>3, SingleRowsStay
<1>3. ASSUME NEW r \in Refreshers, Confirm(r)
      PROVE  Rest
  <2>1. PICK f \in refresher[r].found :
          refresher[r].at = "write" /\ Wrote(r, [refresher[r] EXCEPT !.found = @ \ {f}]) /\ UNCHANGED settled
    BY <1>0, <1>3, ConfirmEffect
  <2> DEFINE y == [refresher[r] EXCEPT !.found = @ \ {f}]
  <2>2. y \in RefreshState /\ y.alone = refresher[r].alone
    BY <1>0, ConfirmedState
  <2> HIDE DEF y
  <2>3. refresher'[r] = y /\ \A q \in Refreshers \ {r} : ~refresher'[q].alone
    BY <1>0, <2>1, <2>2, WroteEffect DEF y
  <2>4. refresher'[r].alone => Outlook(r)'
    BY <1>0, <1>3, <2>2, <2>3, ConfirmOutlook
  <2>5. SingleRows' /\ ~settled'
    BY <1>0, <1>3, <1>s, <2>1, ConfirmSingle
  <2>6. QED
    BY <2>3, <2>4, <2>5
<1>4. ASSUME NEW r \in Refreshers, ResolveOne(r)
      PROVE  Rest
  <2>1. PICK i \in refresher[r].todo :
          refresher[r].at = "write" /\ Wrote(r, [refresher[r] EXCEPT !.todo = @ \ {i}]) /\ UNCHANGED settled
    BY <1>0, <1>4, ResolveEffect
  <2> DEFINE y == [refresher[r] EXCEPT !.todo = @ \ {i}]
  <2>2. y \in RefreshState /\ y.alone = refresher[r].alone
    BY <1>0, ResolvedState
  <2> HIDE DEF y
  <2>3. refresher'[r] = y /\ \A q \in Refreshers \ {r} : ~refresher'[q].alone
    BY <1>0, <2>1, <2>2, WroteEffect DEF y
  <2>4. refresher'[r].alone => Outlook(r)'
    BY <1>0, <1>4, <2>2, <2>3, ResolveOutlook
  <2>5. SingleRows' /\ ~settled'
    BY <1>0, <1>4, <1>s, <2>1, ResolveSingle
  <2>6. QED
    BY <2>3, <2>4, <2>5
<1>5. ASSUME NEW r \in Refreshers, Finish(r)
      PROVE  Rest
  <2>1. /\ settled' = (refresher[r].alone /\ \A q \in Refreshers \ {r} : refresher[q].at = "idle")
        /\ refresher' = [refresher EXCEPT ![r] = Waiting] /\ UNCHANGED <<since, moves, rows, today, doubled>>
    BY <1>5 DEF Finish
  <2>2. refresher'[r] = Waiting /\ \A q \in Refreshers \ {r} : refresher'[q] = refresher[q]
    BY <1>0, <2>1
  <2>3. ASSUME NEW q \in Refreshers, refresher'[q].alone
        PROVE  Outlook(q)'
    BY <1>0, <2>1, <2>2, <2>3, OutlookStays, WaitingTyped
  <2>4. settled' => MarketShown'
    BY <1>0, <1>5, <2>1, FinishShows
  <2>5. settled' => \A q \in Refreshers : AtRest(q)'
    <3>1. SUFFICES ASSUME settled', NEW q \in Refreshers
                   PROVE  refresher'[q].at = "idle"
      BY DEF AtRest
    <3>2. \A p \in Refreshers \ {r} : refresher[p].at = "idle"
      BY <2>1, <3>1
    <3>3. QED
      BY <2>2, <3>2, WaitingTyped
  <2>6. QED
    BY <1>0, <2>1, <2>3, <2>4, <2>5, SingleRowsStay
<1>6. ASSUME NEW r \in Refreshers, GiveUp(r)
      PROVE  Rest
  <2>1. /\ refresher[r].at # "idle" /\ refresher' = [refresher EXCEPT ![r] = Waiting]
        /\ UNCHANGED <<since, moves, rows, today, settled, doubled>>
    BY <1>6 DEF GiveUp
  <2>2. refresher'[r] = Waiting /\ \A q \in Refreshers \ {r} : refresher'[q] = refresher[q]
    BY <1>0, <2>1
  <2>3. ASSUME NEW q \in Refreshers, refresher'[q].alone
        PROVE  Outlook(q)'
    BY <1>0, <2>1, <2>2, <2>3, OutlookStays, WaitingTyped
  <2>4. ~settled'
    BY <1>s, <2>1
  <2>5. QED
    BY <1>0, <2>1, <2>3, <2>4, SingleRowsStay
<1>7. ASSUME Disturbed, UNCHANGED <<rows, doubled>>
      PROVE  Rest
  BY <1>0, <1>7, DisturbedEffect, SingleRowsStay
<1>8. ASSUME UNCHANGED mVars
      PROVE  Rest
  BY <1>0, <1>8, OutlookStays, MarketShownStays, SingleRowsStay DEF mVars, AtRest
<1>9. Rest
  BY <1>1, <1>2, <1>3, <1>4, <1>5, <1>6, <1>7, <1>8 DEF PatternNext, Happens, Watch, PatternDay
<1>10. QED
  BY <1>0, <1>9, PatternTypedStep DEF PatternInv

LEMMA PatternInitially == PatternInit => PatternInv
<1> SUFFICES ASSUME PatternInit PROVE PatternInv
  OBVIOUS
<1>1. /\ since = [c \in Rivals |-> 0] /\ moves = {} /\ rows = <<>> /\ today = 0
      /\ refresher = [r \in Refreshers |-> Waiting] /\ settled = FALSE /\ doubled = {}
  BY DEF PatternInit
<1>2. 0 \in 0..Never /\ 0 \in 0..PatternDays
  BY PatternConstants DEF Never
<1>3. rows \in Seq(Row) /\ DOMAIN rows = {}
  BY <1>1
<1>4. PatternTypeOK /\ SingleRows
  BY <1>3 DEF PatternTypeOK, SingleRows, ActiveRows
<1>5. \A r \in Refreshers : refresher[r] = Waiting
  BY <1>1
<1>6. \A r \in Refreshers : RefreshTyped(r) /\ ~refresher[r].alone
  BY <1>5, WaitingTyped DEF RefreshTyped
<1>7. PatternTyped
  BY <1>1, <1>2, <1>3, <1>4, <1>6, WaitingTyped DEF PatternTyped
<1>8. QED
  BY <1>1, <1>4, <1>6, <1>7 DEF PatternInv

LEMMA PatternsSettle == ASSUME PatternInv PROVE RefreshSettles
<1> SUFFICES ASSUME settled, NEW kind \in Moves
             PROVE  LET affected == {c \in Eligible : \E m \in moves : m.kind = kind /\ m.rival = c /\ today - m.at <= WindowDays} IN
                      IF Cardinality(affected) >= MinAffected /\ 100 * Cardinality(affected) >= MinShare * Cardinality(Eligible)
                        THEN \E i \in ActiveRows(kind) : RivalsIn(rows[i].evidence) = affected /\ rows[i].last = today
                        ELSE ActiveRows(kind) = {}
  BY DEF RefreshSettles
<1> DEFINE affected == {c \in Eligible : \E m \in moves : m.kind = kind /\ m.rival = c /\ today - m.at <= WindowDays}
<1>1. MarketShown
  BY DEF PatternInv
<1>2. \A m \in moves : today - m.at <= WindowDays <=> m.at >= today - WindowDays
  <2>1. \A m \in moves : m.at \in Int
    BY DEF PatternInv, PatternTyped, Move
  <2>2. today \in Int /\ WindowDays \in Int
    BY PatternConstants DEF PatternInv, PatternTyped
  <2>3. QED
    BY <2>1, <2>2
<1>3. RivalsIn(Behind(kind)) = affected
  BY <1>2 DEF RivalsIn, Behind
<1>4. kind \in Detected <=> Cardinality(affected) >= MinAffected /\ 100 * Cardinality(affected) >= MinShare * Cardinality(Eligible)
  BY <1>3 DEF Detected
<1> HIDE DEF affected
<1>5. CASE kind \in Detected
  <2>1. PICK i \in ActiveRows(kind) : rows[i].evidence = Behind(kind) /\ rows[i].last = today
    BY <1>1, <1>5 DEF MarketShown, InRows
  <2>2. QED
    BY <1>3, <1>4, <1>5, <2>1 DEF affected
<1>6. CASE kind \notin Detected
  BY <1>1, <1>4, <1>6 DEF MarketShown, affected
<1>7. QED
  BY <1>5, <1>6

LEMMA SingleRowsCount == ASSUME PatternInv PROVE OneActiveUnlessDoubled
<1> SUFFICES ASSUME NEW kind \in Moves \ doubled
             PROVE  Cardinality(ActiveRows(kind)) <= 1
  BY DEF OneActiveUnlessDoubled
<1>1. \A i, j \in ActiveRows(kind) : i = j
  BY DEF PatternInv, SingleRows
<1>2. CASE ActiveRows(kind) = {}
  BY <1>2, FS_EmptySet
<1>3. CASE ActiveRows(kind) # {}
  <2>1. PICK i : ActiveRows(kind) = {i}
    BY <1>1, <1>3
  <2>2. QED
    BY <2>1, FS_Singleton
<1>4. QED
  BY <1>2, <1>3

(* In every behaviour of refreshes that overlap, crash and repeat the      *)
(* pattern rows have their types, a refresh that runs alone leaves active  *)
(* exactly what the market shows, no kind has two active rows unless two   *)
(* refreshes created them at once, and first detections and resolved rows  *)
(* stay (refreshMarketPatterns).                                           *)
THEOREM PatternsAreKept == PatternSpec => []PatternTypeOK /\ PatternsFollowTheMarket
<1>1. PatternInv /\ [PatternNext]_mVars => PatternInv'
  BY PatternStep
<1>2. PatternInv => PatternTypeOK /\ RefreshSettles /\ OneActiveUnlessDoubled
  BY PatternsSettle, SingleRowsCount DEF PatternInv, PatternTyped
<1>3. PatternInv /\ [PatternNext]_mVars =>
        [\A i \in DOMAIN rows :
           /\ rows'[i].kind = rows[i].kind /\ rows'[i].first = rows[i].first
           /\ rows[i].status = "RESOLVED" => rows'[i].status = "RESOLVED"]_rows
  BY PatternStep DEF RowsKeep
<1>4. QED
  BY <1>1, <1>2, <1>3, PatternInitially, PTL DEF PatternSpec, PatternsFollowTheMarket, HistoryStays

-----------------------------------------------------------------------------
(* The first n of a finite set in a strict order.                          *)
OrderOn(R, S) ==
  /\ \A x \in S : <<x, x>> \notin R
  /\ \A x, y, z \in S : <<x, y>> \in R /\ <<y, z>> \in R => <<x, z>> \in R
  /\ \A x, y \in S : x = y \/ <<x, y>> \in R \/ <<y, x>> \in R
Ahead(R, S, x) == {y \in S : <<y, x>> \in R}
FirstOnes(R, S, n) == {x \in S : Cardinality(Ahead(R, S, x)) < n}

LEMMA RanksGrow ==
  ASSUME NEW S, IsFiniteSet(S), NEW R, OrderOn(R, S), NEW x \in S
  PROVE  /\ Cardinality(Ahead(R, S, x)) \in Nat /\ Cardinality(Ahead(R, S, x)) < Cardinality(S)
         /\ \A y \in S : <<x, y>> \in R => Cardinality(Ahead(R, S, x)) < Cardinality(Ahead(R, S, y))
<1>1. \A y \in S : Ahead(R, S, y) \in SUBSET S
  BY DEF Ahead
<1>2. \A y \in S : IsFiniteSet(Ahead(R, S, y)) /\ Cardinality(Ahead(R, S, y)) \in Nat
  BY <1>1, FS_Subset, FS_CardinalityType
<1>3. Cardinality(S) \in Nat
  BY FS_CardinalityType
<1>4. Cardinality(Ahead(R, S, x)) < Cardinality(S)
  <2>1. Ahead(R, S, x) # S
    BY DEF Ahead, OrderOn
  <2>2. Cardinality(Ahead(R, S, x)) <= Cardinality(S) /\ Cardinality(Ahead(R, S, x)) # Cardinality(S)
    BY <2>1, <1>1, FS_Subset
  <2> QED BY <2>2, <1>2, <1>3
<1>5. ASSUME NEW y \in S, <<x, y>> \in R
      PROVE  Cardinality(Ahead(R, S, x)) < Cardinality(Ahead(R, S, y))
  <2>1. Ahead(R, S, x) \in SUBSET Ahead(R, S, y) /\ x \in Ahead(R, S, y) /\ x \notin Ahead(R, S, x)
    BY <1>5 DEF Ahead, OrderOn
  <2>2. Cardinality(Ahead(R, S, x)) <= Cardinality(Ahead(R, S, y)) /\ Cardinality(Ahead(R, S, x)) # Cardinality(Ahead(R, S, y))
    BY <2>1, <1>2, FS_Subset
  <2> QED BY <2>2, <1>2
<1> QED BY <1>2, <1>4, <1>5

LEMMA FirstOnesFill ==
  ASSUME NEW S, IsFiniteSet(S), NEW R, OrderOn(R, S), NEW n \in Nat
  PROVE  /\ IsFiniteSet(FirstOnes(R, S, n)) /\ FirstOnes(R, S, n) \subseteq S
         /\ FirstOnes(R, S, n) = S \/ Cardinality(FirstOnes(R, S, n)) = n
         /\ S # {} /\ n > 0 => FirstOnes(R, S, n) # {}
         /\ \A x \in FirstOnes(R, S, n), y \in S : <<y, x>> \in R => y \in FirstOnes(R, S, n)
<1> DEFINE N == Cardinality(S)
           rank == [x \in S |-> Cardinality(Ahead(R, S, x))]
           F == FirstOnes(R, S, n)
<1>1. N \in Nat
  BY FS_CardinalityType
<1>2. /\ rank \in [S -> 0..(N - 1)] /\ \A x \in S : rank[x] = Cardinality(Ahead(R, S, x))
      /\ \A x, y \in S : <<x, y>> \in R => rank[x] < rank[y]
  <2>1. \A x \in S : Cardinality(Ahead(R, S, x)) \in 0..(N - 1)
    BY RanksGrow, <1>1
  <2> QED BY <2>1, RanksGrow
<1>3. F \subseteq S /\ F = {x \in S : rank[x] < n}
  BY <1>2 DEF FirstOnes
<1> HIDE DEF rank, F
<1>4. rank \in Injection(S, 0..(N - 1))
  <2>1. ASSUME NEW x \in S, NEW y \in S, rank[x] = rank[y] PROVE x = y
    <3>1. rank[x] \in Int /\ rank[y] \in Int
      BY <1>2
    <3>2. ~(rank[x] < rank[y]) /\ ~(rank[y] < rank[x])
      BY <2>1, <3>1
    <3> QED BY <3>2, <1>2 DEF OrderOn
  <2> QED BY <2>1, <1>2 DEF Injection, IsInjective
<1>5. IsFiniteSet(0..(N - 1)) /\ Cardinality(0..(N - 1)) = N
  <2>1. 0 \in Int /\ N - 1 \in Int
    BY <1>1
  <2>2. IsFiniteSet(0..(N - 1)) /\ Cardinality(0..(N - 1)) = IF 0 > N - 1 THEN 0 ELSE (N - 1) - 0 + 1
    BY <2>1, FS_Interval
  <2> QED BY <2>2, <1>1
<1>6. \A i \in 0..(N - 1) : \E x \in S : rank[x] = i
  <2>1. rank \in Surjection(S, 0..(N - 1))
    BY <1>4, <1>5, FS_Injection
  <2> QED BY <2>1 DEF Surjection
<1>7. IsFiniteSet(F)
  BY <1>3, FS_Subset
<1>8. F = S \/ Cardinality(F) = n
  <2>1. CASE N <= n
    BY <2>1, <1>1, <1>2, <1>3
  <2>2. CASE n < N
    <3> DEFINE g == [x \in F |-> rank[x]]
    <3>1. g \in [F -> 0..(n - 1)] /\ \A x \in F : g[x] = rank[x]
      <4>1. \A x \in F : rank[x] \in 0..(n - 1)
        BY <1>2, <1>3, <1>1
      <4> QED BY <4>1
    <3> HIDE DEF g
    <3>2. g \in Injection(F, 0..(n - 1))
      <4>1. \A x, y \in F : g[x] = g[y] => x = y
        BY <3>1, <1>3, <1>4 DEF Injection, IsInjective
      <4> QED BY <3>1, <4>1 DEF Injection, IsInjective
    <3>3. g \in Surjection(F, 0..(n - 1))
      <4>1. ASSUME NEW i \in 0..(n - 1) PROVE \E x \in F : g[x] = i
        <5>1. i \in 0..(N - 1) /\ i < n
          BY <2>2, <1>1
        <5>2. PICK x \in S : rank[x] = i
          BY <5>1, <1>6
        <5> QED BY <5>1, <5>2, <3>1, <1>3
      <4> QED BY <3>1, <4>1 DEF Surjection
    <3>4. IsFiniteSet(0..(n - 1)) /\ Cardinality(0..(n - 1)) = n
      <4>1. 0 \in Int /\ n - 1 \in Int
        OBVIOUS
      <4>2. IsFiniteSet(0..(n - 1)) /\ Cardinality(0..(n - 1)) = IF 0 > n - 1 THEN 0 ELSE (n - 1) - 0 + 1
        BY <4>1, FS_Interval
      <4> QED BY <4>2
    <3> QED BY <3>2, <3>3, <3>4, FS_Injection
  <2> QED BY <2>1, <2>2, <1>1
<1>9. S # {} /\ n > 0 => F # {}
  <2> SUFFICES ASSUME S # {}, n > 0 PROVE F # {}
    OBVIOUS
  <2>1. 0 \in 0..(N - 1)
    <3>1. N # 0
      BY FS_EmptySet
    <3> QED BY <3>1, <1>1
  <2>2. PICK x \in S : rank[x] = 0
    BY <2>1, <1>6
  <2> QED BY <2>2, <1>3
<1>10. ASSUME NEW x \in F, NEW y \in S, <<y, x>> \in R PROVE y \in F
  <2>1. rank[y] < rank[x] /\ rank[x] < n /\ rank[x] \in Int /\ rank[y] \in Int
    BY <1>2, <1>3, <1>10
  <2> QED BY <2>1, <1>3
<1> QED BY <1>3, <1>7, <1>8, <1>9, <1>10 DEF F

-----------------------------------------------------------------------------
(* The bundle of a digest.                                                 *)
DetectedTyped ==
  /\ detected \in Seq([of : Firms, at : 0..MaxDetected]) /\ Len(detected) <= MaxDetected
  /\ \A i \in DOMAIN detected : detected[i].at < i

FirmOrder == {p \in GroupedFirms \X GroupedFirms : ComesFirst(p[1], p[2])}
EventOrder(f) == {p \in EventsAbout(f) \X EventsAbout(f) : NewerEvent(p[1], p[2])}
ItemOrder(qualified) == {p \in Offered(qualified) \X Offered(qualified) : Before(p[1], p[2])}

LEMMA DetectedFacts ==
  ASSUME DetectedTyped
  PROVE  /\ Len(detected) \in Nat /\ DOMAIN detected = 1..Len(detected)
         /\ \A i \in DOMAIN detected : i \in Nat /\ i # 0 /\ detected[i].of \in Firms /\ detected[i].of \in Nat
                                       /\ detected[i].at \in Nat /\ detected[i].at <= MaxDetected
<1>1. Len(detected) \in Nat /\ DOMAIN detected = 1..Len(detected)
  BY DEF DetectedTyped
<1>2. ASSUME NEW i \in DOMAIN detected
      PROVE  /\ i \in Nat /\ i # 0 /\ detected[i].of \in Firms /\ detected[i].of \in Nat
             /\ detected[i].at \in Nat /\ detected[i].at <= MaxDetected
  <2> DEFINE DetectedRow == [of : Firms, at : 0..MaxDetected]
  <2>1. detected \in Seq(DetectedRow) /\ i \in 1..Len(detected)
    BY <1>1, <1>2 DEF DetectedTyped
  <2> HIDE DEF DetectedRow
  <2>2. detected[i] \in DetectedRow
    BY <2>1
  <2>3. Firms \subseteq Nat /\ MaxDetected \in Nat
    BY AnswerConstants
  <2>4. detected[i].of \in Firms /\ detected[i].at \in 0..MaxDetected
    BY <2>2 DEF DetectedRow
  <2>5. detected[i].of \in Nat
    BY <2>3, <2>4
  <2> QED BY <2>1, <2>3, <2>4, <2>5
<1> QED BY <1>1, <1>2

LEMMA MostRecentIs ==
  ASSUME DetectedTyped, NEW f \in GroupedFirms
  PROVE  /\ MostRecent(f) \in Nat /\ EventsAbout(f) # {}
         /\ \E i \in EventsAbout(f) : detected[i].at = MostRecent(f)
         /\ \A i \in EventsAbout(f) : detected[i].at <= MostRecent(f)
<1> DEFINE times == {detected[i].at : i \in EventsAbout(f)}
           ages == {MaxDetected - t : t \in times}
<1>1. EventsAbout(f) # {} /\ times # {} /\ times \subseteq 0..MaxDetected /\ MaxDetected \in Nat
  BY AnswerConstants, DetectedFacts DEF EventsAbout, GroupedFirms
<1>2. ages \in SUBSET Nat /\ ages # {}
  <2> HIDE DEF times
  <2>1. \A t \in times : MaxDetected - t \in Nat
    BY <1>1
  <2> QED BY <1>1, <2>1
<1>3. PICK a \in ages : \A b \in ages : a <= b
  BY <1>2, LeastOf
<1>4. PICK t \in times : a = MaxDetected - t
  BY <1>3
<1>5. \A i \in EventsAbout(f) : detected[i].at <= t
  <2> SUFFICES ASSUME NEW i \in EventsAbout(f) PROVE detected[i].at <= t
    OBVIOUS
  <2>1. detected[i].at \in 0..MaxDetected /\ t \in 0..MaxDetected /\ MaxDetected - detected[i].at \in ages
    BY <1>1
  <2>2. MaxDetected - t <= MaxDetected - detected[i].at
    BY <2>1, <1>3, <1>4
  <2> QED BY <2>1, <2>2, <1>1
<1>6. MostRecent(f) = CHOOSE u \in times : \A i \in EventsAbout(f) : detected[i].at <= u
  BY DEF MostRecent
<1>7. \A u \in times : u \in Nat /\ \E i \in EventsAbout(f) : detected[i].at = u
  BY <1>1
<1> HIDE DEF times
<1>8. MostRecent(f) \in times /\ \A i \in EventsAbout(f) : detected[i].at <= MostRecent(f)
  BY <1>4, <1>5, <1>6
<1> QED BY <1>1, <1>7, <1>8

LEMMA NewerIsAnOrder ==
  ASSUME DetectedTyped, NEW f
  PROVE  OrderOn(EventOrder(f), EventsAbout(f)) /\ IsFiniteSet(EventsAbout(f)) /\ EventsAbout(f) \subseteq 1..Len(detected)
<1>1. /\ EventsAbout(f) \subseteq 1..Len(detected) /\ Len(detected) \in Nat
      /\ \A i \in EventsAbout(f) : i \in Int /\ detected[i].at \in Int
  BY DetectedFacts DEF EventsAbout
<1>2. IsFiniteSet(EventsAbout(f))
  <2>1. IsFiniteSet(1..Len(detected))
    BY <1>1, FS_Interval
  <2> QED BY <2>1, <1>1, FS_Subset
<1>3. \A i, j \in EventsAbout(f) : <<i, j>> \in EventOrder(f) <=> NewerEvent(i, j)
  BY DEF EventOrder
<1>4. \A i \in EventsAbout(f) : ~NewerEvent(i, i)
  BY <1>1 DEF NewerEvent
<1>5. \A i, j, k \in EventsAbout(f) : NewerEvent(i, j) /\ NewerEvent(j, k) => NewerEvent(i, k)
  BY <1>1 DEF NewerEvent
<1>6. \A i, j \in EventsAbout(f) : i = j \/ NewerEvent(i, j) \/ NewerEvent(j, i)
  BY <1>1 DEF NewerEvent
<1> QED BY <1>1, <1>2, <1>3, <1>4, <1>5, <1>6 DEF OrderOn

LEMMA FirmsAreOrdered ==
  ASSUME DetectedTyped
  PROVE  OrderOn(FirmOrder, GroupedFirms) /\ IsFiniteSet(GroupedFirms) /\ GroupedFirms \subseteq Nat
<1>1. \A f \in GroupedFirms : f \in Nat /\ MostRecent(f) \in Nat
  BY MostRecentIs, DetectedFacts DEF GroupedFirms
<1>2. IsFiniteSet(GroupedFirms)
  <2> DEFINE firmOf == [i \in DOMAIN detected |-> detected[i].of]
  <2>1. firmOf \in Surjection(DOMAIN detected, GroupedFirms)
    BY DEF Surjection, GroupedFirms
  <2>2. IsFiniteSet(DOMAIN detected)
    BY DetectedFacts, FS_Interval
  <2> QED BY <2>1, <2>2, FS_Surjection
<1>3. \A f, g \in GroupedFirms : <<f, g>> \in FirmOrder <=> ComesFirst(f, g)
  BY DEF FirmOrder
<1>4. \A f \in GroupedFirms : ~ComesFirst(f, f)
  BY <1>1 DEF ComesFirst
<1>5. \A f, g, h \in GroupedFirms : ComesFirst(f, g) /\ ComesFirst(g, h) => ComesFirst(f, h)
  BY <1>1 DEF ComesFirst
<1>6. \A f, g \in GroupedFirms : f = g \/ ComesFirst(f, g) \/ ComesFirst(g, f)
  BY <1>1 DEF ComesFirst
<1> QED BY <1>1, <1>2, <1>3, <1>4, <1>5, <1>6 DEF OrderOn

LEMMA SelectedAreFirst ==
  ASSUME DetectedTyped
  PROVE  /\ SelectedFirms \subseteq GroupedFirms
         /\ SelectedFirms = GroupedFirms \/ Cardinality(SelectedFirms) = BundleFirms
         /\ GroupedFirms # {} => SelectedFirms # {}
         /\ \A g \in SelectedFirms, f \in GroupedFirms : ComesFirst(f, g) => f \in SelectedFirms
<1>1. SelectedFirms = FirstOnes(FirmOrder, GroupedFirms, BundleFirms)
  <2>1. \A f \in GroupedFirms : {g \in GroupedFirms : ComesFirst(g, f)} = Ahead(FirmOrder, GroupedFirms, f)
    BY DEF Ahead, FirmOrder
  <2> QED BY <2>1 DEF SelectedFirms, FirstOnes
<1>2. BundleFirms \in Nat /\ BundleFirms > 0
  BY AnswerConstants
<1>3. \A f, g \in GroupedFirms : ComesFirst(f, g) => <<f, g>> \in FirmOrder
  BY DEF FirmOrder
<1> QED BY <1>1, <1>2, <1>3, FirmsAreOrdered, FirstOnesFill

LEMMA RawAreFirst ==
  ASSUME DetectedTyped, NEW f
  PROVE  /\ RawEvents(f) \subseteq EventsAbout(f) /\ IsFiniteSet(RawEvents(f))
         /\ RawEvents(f) = EventsAbout(f) \/ Cardinality(RawEvents(f)) = BundleEvents
         /\ EventsAbout(f) # {} => RawEvents(f) # {}
         /\ \A i \in RawEvents(f), j \in EventsAbout(f) : NewerEvent(j, i) => j \in RawEvents(f)
<1> DEFINE S == EventsAbout(f)  R == EventOrder(f)
<1>1. RawEvents(f) = FirstOnes(R, S, BundleEvents)
  <2>1. \A i \in S : {j \in S : NewerEvent(j, i)} = Ahead(R, S, i)
    BY DEF Ahead, EventOrder
  <2> QED BY <2>1 DEF RawEvents, FirstOnes
<1>2. BundleEvents \in Nat /\ BundleEvents > 0
  BY AnswerConstants
<1>3. \A i, j \in S : NewerEvent(j, i) => <<j, i>> \in R
  BY DEF EventOrder
<1>4. IsFiniteSet(S) /\ OrderOn(R, S)
  BY NewerIsAnOrder
<1> HIDE DEF S, R
<1>5. /\ FirstOnes(R, S, BundleEvents) \subseteq S /\ IsFiniteSet(FirstOnes(R, S, BundleEvents))
      /\ FirstOnes(R, S, BundleEvents) = S \/ Cardinality(FirstOnes(R, S, BundleEvents)) = BundleEvents
      /\ S # {} => FirstOnes(R, S, BundleEvents) # {}
      /\ \A i \in FirstOnes(R, S, BundleEvents), j \in S : <<j, i>> \in R => j \in FirstOnes(R, S, BundleEvents)
  BY <1>2, <1>4, FirstOnesFill
<1> QED BY <1>1, <1>3, <1>5 DEF S

LEMMA OfferedAre ==
  ASSUME DetectedTyped, NEW qualified
  PROVE  /\ IsFiniteSet(Offered(qualified))
         /\ \A x \in Offered(qualified) :
              /\ x = <<x[1], x[2]>> /\ x[1] \in SelectedFirms /\ x[1] \in GroupedFirms
              /\ x[2] = RoundUp \/ x[2] \in RawEvents(x[1])
         /\ \A f \in SelectedFirms : (f \in qualified => <<f, RoundUp>> \in Offered(qualified))
         /\ \A f \in SelectedFirms : \A i \in RawEvents(f) : <<f, i>> \in Offered(qualified) /\ i # RoundUp
<1>1. \A x \in Offered(qualified) :
              /\ x = <<x[1], x[2]>> /\ x[1] \in SelectedFirms /\ x[1] \in GroupedFirms
              /\ x[2] = RoundUp \/ x[2] \in RawEvents(x[1])
  BY SelectedAreFirst DEF Offered
<1>2. \A f \in SelectedFirms : \A i \in RawEvents(f) : <<f, i>> \in Offered(qualified) /\ i # RoundUp
  <2>1. \A f : \A i \in RawEvents(f) : i # RoundUp
    BY RawAreFirst, NewerIsAnOrder DEF RoundUp
  <2> QED BY <2>1 DEF Offered
<1>3. \A f \in SelectedFirms : (f \in qualified => <<f, RoundUp>> \in Offered(qualified))
  BY DEF Offered
<1>4. IsFiniteSet(Offered(qualified))
  <2>1. Offered(qualified) \in SUBSET (GroupedFirms \X (0..Len(detected)))
    <3>1. \A x \in Offered(qualified) : x[2] \in 0..Len(detected)
      BY <1>1, RawAreFirst, NewerIsAnOrder, DetectedFacts DEF RoundUp
    <3> QED BY <3>1, <1>1
  <2>2. IsFiniteSet(0..Len(detected))
    BY DetectedFacts, FS_Interval
  <2>3. IsFiniteSet(GroupedFirms \X (0..Len(detected)))
    BY <2>2, FirmsAreOrdered, FS_Product
  <2> QED BY <2>1, <2>3, FS_Subset
<1> QED BY <1>1, <1>2, <1>3, <1>4

LEMMA ItemsAreOrdered ==
  ASSUME DetectedTyped, NEW qualified
  PROVE  OrderOn(ItemOrder(qualified), Offered(qualified))
<1> DEFINE S == Offered(qualified)
<1>1. \A x, y \in S : <<x, y>> \in ItemOrder(qualified) <=> Before(x, y)
  BY DEF ItemOrder
<1>2. /\ \A f \in GroupedFirms : ~ComesFirst(f, f)
      /\ \A f, g, h \in GroupedFirms : ComesFirst(f, g) /\ ComesFirst(g, h) => ComesFirst(f, h)
      /\ \A f, g \in GroupedFirms : f = g \/ ComesFirst(f, g) \/ ComesFirst(g, f)
  <2>1. \A f, g \in GroupedFirms : <<f, g>> \in FirmOrder <=> ComesFirst(f, g)
    BY DEF FirmOrder
  <2> QED BY <2>1, FirmsAreOrdered DEF OrderOn
<1>3. \A f : /\ \A i \in EventsAbout(f) : ~NewerEvent(i, i)
             /\ \A i, j, k \in EventsAbout(f) : NewerEvent(i, j) /\ NewerEvent(j, k) => NewerEvent(i, k)
             /\ \A i, j \in EventsAbout(f) : i = j \/ NewerEvent(i, j) \/ NewerEvent(j, i)
  <2> SUFFICES ASSUME NEW f
               PROVE  /\ \A i \in EventsAbout(f) : ~NewerEvent(i, i)
                      /\ \A i, j, k \in EventsAbout(f) : NewerEvent(i, j) /\ NewerEvent(j, k) => NewerEvent(i, k)
                      /\ \A i, j \in EventsAbout(f) : i = j \/ NewerEvent(i, j) \/ NewerEvent(j, i)
    OBVIOUS
  <2>1. \A i, j \in EventsAbout(f) : <<i, j>> \in EventOrder(f) <=> NewerEvent(i, j)
    BY DEF EventOrder
  <2> QED BY <2>1, NewerIsAnOrder DEF OrderOn
<1>4. \A x \in S : x = <<x[1], x[2]>> /\ x[1] \in GroupedFirms /\ (x[2] = RoundUp \/ x[2] \in EventsAbout(x[1]))
  BY OfferedAre, RawAreFirst
<1> HIDE DEF S
<1>5. \A x \in S : ~Before(x, x)
  BY <1>3, <1>4 DEF Before
<1>6. ASSUME NEW x \in S, NEW y \in S, NEW z \in S, Before(x, y), Before(y, z) PROVE Before(x, z)
  <2>1. CASE x[1] = y[1] /\ y[1] = z[1]
    BY <2>1, <1>3, <1>4, <1>6 DEF Before
  <2>2. CASE x[1] # y[1] \/ y[1] # z[1]
    <3>1. x[1] # z[1] /\ ComesFirst(x[1], z[1])
      BY <2>2, <1>2, <1>4, <1>6 DEF Before
    <3> QED BY <3>1 DEF Before
  <2> QED BY <2>1, <2>2
<1>7. ASSUME NEW x \in S, NEW y \in S PROVE x = y \/ Before(x, y) \/ Before(y, x)
  <2>1. CASE x[1] # y[1]
    BY <2>1, <1>2, <1>4 DEF Before
  <2>2. CASE x[1] = y[1] /\ x[2] # y[2]
    BY <2>2, <1>3, <1>4 DEF Before
  <2>3. CASE x[1] = y[1] /\ x[2] = y[2]
    BY <2>3, <1>4
  <2> QED BY <2>1, <2>2, <2>3
<1> QED BY <1>1, <1>5, <1>6, <1>7 DEF OrderOn, S

LEMMA BundledAreFirst ==
  ASSUME DetectedTyped, NEW qualified
  PROVE  /\ BundledItems(qualified) \subseteq Offered(qualified)
         /\ BundledItems(qualified) = Offered(qualified) \/ Cardinality(BundledItems(qualified)) = BundleItems
         /\ Offered(qualified) # {} => BundledItems(qualified) # {}
         /\ \A x \in BundledItems(qualified), y \in Offered(qualified) : Before(y, x) => y \in BundledItems(qualified)
<1> DEFINE S == Offered(qualified)  R == ItemOrder(qualified)
<1>1. BundledItems(qualified) = FirstOnes(R, S, BundleItems)
  <2>1. \A x \in S : {y \in S : Before(y, x)} = Ahead(R, S, x)
    BY DEF Ahead, ItemOrder
  <2> QED BY <2>1 DEF BundledItems, FirstOnes
<1>2. BundleItems \in Nat /\ BundleItems > 0
  BY AnswerConstants
<1>3. \A x, y \in S : Before(y, x) => <<y, x>> \in R
  BY DEF ItemOrder
<1>4. IsFiniteSet(S) /\ OrderOn(R, S)
  BY OfferedAre, ItemsAreOrdered
<1> HIDE DEF S, R
<1>5. /\ FirstOnes(R, S, BundleItems) \subseteq S
      /\ FirstOnes(R, S, BundleItems) = S \/ Cardinality(FirstOnes(R, S, BundleItems)) = BundleItems
      /\ S # {} => FirstOnes(R, S, BundleItems) # {}
      /\ \A x \in FirstOnes(R, S, BundleItems), y \in S : <<y, x>> \in R => y \in FirstOnes(R, S, BundleItems)
  BY <1>2, <1>4, FirstOnesFill
<1> QED BY <1>1, <1>3, <1>5 DEF S

(* What BundlesHoldTheNews and InterpretationsAreCited need of a bundle.   *)
AboutIn(bundle, f) == {i \in DOMAIN bundle.of : bundle.of[i].of = f}
FirmsIn(bundle) == {x[1] : x \in bundle.items}
NewerIn(bundle, f, g) == \E i \in AboutIn(bundle, f) : \A j \in AboutIn(bundle, g) : bundle.of[i].at > bundle.of[j].at

LeavesOutTheOld(bundle) ==
  \A f \in {bundle.of[i].of : i \in DOMAIN bundle.of} \ FirmsIn(bundle) :
    /\ \A g \in FirmsIn(bundle) : ~NewerIn(bundle, f, g)
    /\ Cardinality(FirmsIn(bundle)) = BundleFirms \/ Cardinality(bundle.items) = BundleItems
KeepsTheNew(bundle) ==
  \A x \in bundle.items : x[2] # RoundUp =>
    /\ x[1] \in bundle.qualified => <<x[1], RoundUp>> \in bundle.items
    /\ \A j \in AboutIn(bundle, x[1]) : bundle.of[j].at > bundle.of[x[2]].at => <<x[1], j>> \in bundle.items
FillsItsLimits(bundle) ==
  \A f \in FirmsIn(bundle) :
    \/ AboutIn(bundle, f) \subseteq {x[2] : x \in bundle.items}
    \/ Cardinality({x \in bundle.items : x[1] = f /\ x[2] # RoundUp}) = BundleEvents
    \/ Cardinality(bundle.items) = BundleItems
HoldsTheNews(bundle) == bundle.items # {} /\ LeavesOutTheOld(bundle) /\ KeepsTheNew(bundle) /\ FillsItsLimits(bundle)

IsCited(bundle) ==
  \A e \in bundle.allowed : \E x \in bundle.items : bundle.of[e].of = x[1] /\ x[2] \in {e, RoundUp}

LEMMA NewsIsHeld == BundlesHoldTheNews <=>
  (consult.about = "digest" /\ consult.is \notin {"failed", "completed unasked"} => HoldsTheNews(consult.given))
  BY DEF BundlesHoldTheNews, HoldsTheNews, LeavesOutTheOld, KeepsTheNew, FillsItsLimits, AboutIn, FirmsIn, NewerIn

LEMMA BundleIs ==
  ASSUME NEW qualified
  PROVE  /\ Bundle(qualified).items = BundledItems(qualified) /\ Bundle(qualified).qualified = qualified
         /\ Bundle(qualified).of = detected /\ \A f : AboutIn(Bundle(qualified), f) = EventsAbout(f)
         /\ Bundle(qualified).allowed = UNION {CitesOf(x) : x \in BundledItems(qualified)}
  BY DEF Bundle, AboutIn, EventsAbout

LEMMA BundleIsCited ==
  ASSUME DetectedTyped, NEW qualified
  PROVE  IsCited(Bundle(qualified))
<1> SUFFICES ASSUME NEW e \in UNION {CitesOf(x) : x \in BundledItems(qualified)}
             PROVE  \E x \in BundledItems(qualified) : detected[e].of = x[1] /\ x[2] \in {e, RoundUp}
  BY BundleIs DEF IsCited
<1>1. PICK x \in BundledItems(qualified) : e \in CitesOf(x)
  OBVIOUS
<1>2. x \in Offered(qualified)
  BY BundledAreFirst
<1>3. e \in EventsAbout(x[1]) /\ x[2] \in {e, RoundUp}
  BY <1>1, <1>2, OfferedAre, RawAreFirst DEF CitesOf
<1> QED BY <1>3 DEF EventsAbout

LEMMA BundleHoldsTheNews ==
  ASSUME DetectedTyped, GroupedFirms # {}, NEW qualified
  PROVE  HoldsTheNews(Bundle(qualified))
<1> DEFINE B == Bundle(qualified)  items == BundledItems(qualified)  all == Offered(qualified)
<1>1. /\ B.items = items /\ B.of = detected /\ B.qualified = qualified /\ \A f : AboutIn(B, f) = EventsAbout(f)
      /\ FirmsIn(B) = {x[1] : x \in items}
  BY BundleIs DEF FirmsIn
<1>2. /\ items \subseteq all
      /\ items = all \/ Cardinality(items) = BundleItems
      /\ all # {} => items # {}
      /\ \A x \in items, y \in all : Before(y, x) => y \in items
  BY BundledAreFirst
<1>3. /\ \A x \in all : /\ x = <<x[1], x[2]>> /\ x[1] \in SelectedFirms /\ x[1] \in GroupedFirms
                        /\ x[2] = RoundUp \/ x[2] \in RawEvents(x[1])
      /\ \A f \in SelectedFirms : (f \in qualified => <<f, RoundUp>> \in all)
      /\ \A f \in SelectedFirms : \A i \in RawEvents(f) : <<f, i>> \in all /\ i # RoundUp
  BY OfferedAre
<1>4. /\ SelectedFirms \subseteq GroupedFirms
      /\ SelectedFirms = GroupedFirms \/ Cardinality(SelectedFirms) = BundleFirms
      /\ SelectedFirms # {}
      /\ \A g \in SelectedFirms, f \in GroupedFirms : ComesFirst(f, g) => f \in SelectedFirms
  BY SelectedAreFirst
<1>5. \A f \in SelectedFirms : RawEvents(f) # {} /\ RawEvents(f) \subseteq EventsAbout(f)
  BY <1>4, RawAreFirst, MostRecentIs
<1> HIDE DEF B, items, all
<1>6. \A f \in SelectedFirms : \E i : <<f, i>> \in all
  BY <1>3, <1>5
<1>7. B.items # {}
  BY <1>1, <1>2, <1>4, <1>6
<1>8. items = all => FirmsIn(B) = SelectedFirms
  <2>1. ASSUME items = all, NEW f \in SelectedFirms PROVE f \in FirmsIn(B)
    <3>1. PICK i : <<f, i>> \in items
      BY <1>6, <2>1
    <3>2. <<f, i>>[1] = f
      OBVIOUS
    <3> QED BY <1>1, <3>1, <3>2
  <2> QED BY <2>1, <1>1, <1>3
<1>9. LeavesOutTheOld(B)
  <2> SUFFICES ASSUME NEW f \in GroupedFirms, f \notin FirmsIn(B)
               PROVE  /\ \A g \in FirmsIn(B) : ~NewerIn(B, f, g)
                      /\ Cardinality(FirmsIn(B)) = BundleFirms \/ Cardinality(B.items) = BundleItems
    BY <1>1 DEF LeavesOutTheOld, GroupedFirms
  <2>1. ASSUME NEW g \in FirmsIn(B), NewerIn(B, f, g) PROVE FALSE
    <3>1. PICK y \in items : g = y[1]
      BY <1>1
    <3>2. y \in all /\ g \in SelectedFirms /\ g \in GroupedFirms
      BY <3>1, <1>2, <1>3
    <3>3. PICK i \in EventsAbout(f) : \A j \in EventsAbout(g) : detected[i].at > detected[j].at
      BY <2>1, <1>1 DEF NewerIn
    <3>4. MostRecent(f) > MostRecent(g)
      <4>1. detected[i].at \in Nat /\ detected[i].at <= MostRecent(f) /\ MostRecent(f) \in Nat
        BY <3>3, MostRecentIs, DetectedFacts DEF EventsAbout
      <4>2. MostRecent(g) \in Nat /\ \E j \in EventsAbout(g) : detected[j].at = MostRecent(g)
        BY <3>2, MostRecentIs
      <4> QED BY <3>3, <4>1, <4>2
    <3>5. ComesFirst(f, g)
      BY <3>4 DEF ComesFirst
    <3>6. PICK i1 : <<f, i1>> \in all
      BY <3>2, <3>5, <1>4, <1>6
    <3>7. f # g
      BY <3>1, <1>1
    <3>8. Before(<<f, i1>>, y)
      BY <3>1, <3>5, <3>7 DEF Before
    <3>9. <<f, i1>> \in items /\ <<f, i1>>[1] = f
      BY <3>6, <3>8, <1>2
    <3> QED BY <3>9, <1>1
  <2>2. ASSUME Cardinality(B.items) # BundleItems PROVE Cardinality(FirmsIn(B)) = BundleFirms
    <3>1. FirmsIn(B) = SelectedFirms
      BY <2>2, <1>1, <1>2, <1>8
    <3> QED BY <3>1, <1>4
  <2> QED BY <2>1, <2>2
<1>10. KeepsTheNew(B)
  <2> SUFFICES ASSUME NEW x \in items, x[2] # RoundUp
               PROVE  /\ x[1] \in qualified => <<x[1], RoundUp>> \in items
                      /\ \A j \in EventsAbout(x[1]) : detected[j].at > detected[x[2]].at => <<x[1], j>> \in items
    BY <1>1 DEF KeepsTheNew
  <2>1. x \in all /\ x[1] \in SelectedFirms /\ x[2] \in RawEvents(x[1])
    BY <1>2, <1>3
  <2>2. x[1] \in qualified => <<x[1], RoundUp>> \in items
    <3> SUFFICES ASSUME x[1] \in qualified PROVE <<x[1], RoundUp>> \in items
      OBVIOUS
    <3>1. <<x[1], RoundUp>> \in all
      BY <2>1, <1>3
    <3>2. Before(<<x[1], RoundUp>>, x)
      BY DEF Before
    <3> QED BY <3>1, <3>2, <1>2
  <2>3. ASSUME NEW j \in EventsAbout(x[1]), detected[j].at > detected[x[2]].at PROVE <<x[1], j>> \in items
    <3>1. NewerEvent(j, x[2])
      BY <2>3 DEF NewerEvent
    <3>2. j \in RawEvents(x[1])
      BY <3>1, <2>1, RawAreFirst
    <3>3. <<x[1], j>> \in all
      BY <3>2, <2>1, <1>3
    <3>4. Before(<<x[1], j>>, x)
      BY <3>1 DEF Before
    <3> QED BY <3>3, <3>4, <1>2
  <2> QED BY <2>2, <2>3
<1>11. FillsItsLimits(B)
  <2> SUFFICES ASSUME NEW f \in FirmsIn(B), Cardinality(items) # BundleItems
               PROVE  \/ EventsAbout(f) \subseteq {x[2] : x \in items}
                      \/ Cardinality({x \in items : x[1] = f /\ x[2] # RoundUp}) = BundleEvents
    BY <1>1 DEF FillsItsLimits
  <2>1. items = all /\ f \in SelectedFirms
    BY <1>2, <1>8
  <2>2. CASE RawEvents(f) = EventsAbout(f)
    <3> SUFFICES ASSUME NEW i \in EventsAbout(f) PROVE i \in {x[2] : x \in items}
      OBVIOUS
    <3>1. <<f, i>> \in items /\ <<f, i>>[2] = i
      BY <2>1, <2>2, <1>3
    <3> QED BY <3>1
  <2>3. CASE Cardinality(RawEvents(f)) = BundleEvents
    <3> DEFINE mine == {x \in items : x[1] = f /\ x[2] # RoundUp}
               pair == [i \in RawEvents(f) |-> <<f, i>>]
    <3>1. \A x \in mine : x = <<f, x[2]>> /\ x[2] \in RawEvents(f)
      BY <2>1, <1>3
    <3>2. \A i \in RawEvents(f) : <<f, i>> \in mine /\ <<f, i>>[2] = i
      BY <2>1, <1>3
    <3> HIDE DEF mine
    <3>3. pair \in Injection(RawEvents(f), mine)
      BY <3>2 DEF Injection, IsInjective
    <3>4. pair \in Surjection(RawEvents(f), mine)
      BY <3>1, <3>2 DEF Surjection
    <3>5. Cardinality(mine) = Cardinality(RawEvents(f))
      BY <3>3, <3>4, RawAreFirst, FS_Surjection
    <3> QED BY <3>5, <2>3 DEF mine
  <2> QED BY <2>2, <2>3, RawAreFirst
<1> QED BY <1>7, <1>9, <1>10, <1>11 DEF HoldsTheNews, B

-----------------------------------------------------------------------------
(* The consultation.  A call under way was not answered, or failed once in *)
(* passing; the bundle of a digest is what it was made of.                 *)
Outcomes == {"timeout", "transient", "permanent", "content"}

ConsultTyped ==
  /\ consult.is \in {"nothing", "calling", "stored", "failed", "completed unasked"}
  /\ consult.heard \in Seq(Outcomes) /\ Len(consult.heard) \in 0..2
  /\ consult.is = "nothing" => consult = NoConsult
  /\ consult.is = "calling" =>
       consult.heard = <<>> \/ (Len(consult.heard) = 1 /\ IsRetryable(consult.heard[1]) /\ consult.about # "test")
BundleGiven ==
  (consult.about = "digest" /\ consult.is \in {"calling", "stored"}) => HoldsTheNews(consult.given) /\ IsCited(consult.given)

AnswersInv ==
  /\ DetectedTyped /\ ConsultTyped /\ BundleGiven
  /\ InterpretationsAreCited /\ FindingsAreQuoted /\ CallsAreEarned

LEMMA AtMostTwo == ASSUME NEW n \in 0..2 PROVE n <= 2 /\ (n = 0 => n # 2)
  OBVIOUS

LEMMA NothingHeard == ASSUME NEW h, h = <<>> PROVE h \in Seq(Outcomes) /\ Len(h) \in 0..2 /\ Len(h) # 2
<1>1. <<>> \in Seq(Outcomes) /\ Len(<<>>) = 0
  OBVIOUS
<1>2. h \in Seq(Outcomes) /\ Len(h) = 0
  BY <1>1, Zenon
<1> QED BY <1>2, AtMostTwo

LEMMA TestTells ==
  ASSUME NEW h, NEW wording
  PROVE  /\ IsRetryable(h) <=> TestStatus(h, wording) = "PROVIDER_UNAVAILABLE"
         /\ h = "content" <=> TestStatus(h, wording) = "SUCCESS"
<1>1. CASE h = "content"
  BY <1>1 DEF TestStatus, IsRetryable
<1>2. CASE h # "content" /\ IsRetryable(h)
  BY <1>2 DEF TestStatus
<1>3. CASE h # "content" /\ ~IsRetryable(h)
  <2>1. TestStatus(h, wording) \in {"INVALID_CREDENTIALS", "MODEL_UNAVAILABLE", "INVALID_CONFIGURATION"}
    BY <1>3 DEF TestStatus
  <2> QED BY <1>3, <2>1
<1> QED BY <1>1, <1>2, <1>3

LEMMA AnswersInvGives == AnswersInv => AnswersTypeOK /\ AnswersAreSupported
<1> SUFFICES ASSUME AnswersInv PROVE AnswersTypeOK /\ AnswersAreSupported
  OBVIOUS
<1>1. AnswersTypeOK
  <2>1. Len(consult.heard) <= 2
    BY AtMostTwo DEF AnswersInv, ConsultTyped
  <2> QED BY <2>1 DEF AnswersInv, DetectedTyped, ConsultTyped, AnswersTypeOK, Outcomes
<1>2. BundlesHoldTheNews
  <2>1. consult.about = "digest" => consult.is # "nothing"
    <3>1. NoConsult.about = "nothing"
      BY DEF NoConsult
    <3>2. consult.is = "nothing" => consult = NoConsult
      BY DEF AnswersInv, ConsultTyped
    <3> QED BY <3>1, <3>2
  <2>2. consult.about = "digest" /\ consult.is \notin {"failed", "completed unasked"} => consult.is \in {"calling", "stored"}
    BY <2>1 DEF AnswersInv, ConsultTyped
  <2>3. consult.about = "digest" /\ consult.is \notin {"failed", "completed unasked"} => HoldsTheNews(consult.given)
    BY <2>2 DEF AnswersInv, BundleGiven
  <2> QED BY <2>3, NewsIsHeld
<1> QED BY <1>1, <1>2 DEF AnswersInv, AnswersAreSupported

LEMMA AnswersInitially == AnswersInit => AnswersInv
<1> SUFFICES ASSUME AnswersInit PROVE AnswersInv
  OBVIOUS
<1>1. detected = <<>> /\ consult.is = "nothing" /\ consult.about = "nothing" /\ consult.heard = <<>> /\ consult = NoConsult
  BY DEF AnswersInit, NoConsult
<1>2. DetectedTyped
  BY <1>1, AnswerConstants DEF DetectedTyped
<1>3. ConsultTyped
  BY <1>1 DEF ConsultTyped
<1> QED BY <1>1, <1>2, <1>3
     DEF AnswersInv, BundleGiven, InterpretationsAreCited, FindingsAreQuoted, CallsAreEarned

LEMMA DetectStep ==
  ASSUME AnswersInv, NEW f \in Firms, NEW later \in BOOLEAN, DetectFor(f, later)
  PROVE  AnswersInv'
<1> DEFINE last == IF detected = <<>> THEN 0 ELSE detected[Len(detected)].at + (IF later THEN 1 ELSE 0)
           e == [of |-> f, at |-> last]
<1>1. consult' = consult /\ detected' = Append(detected, e) /\ Len(detected) < MaxDetected
  BY DEF DetectFor
<1>2. DetectedTyped
  BY DEF AnswersInv
<1>3. last \in 0..Len(detected) /\ Len(detected) \in Nat /\ MaxDetected \in Nat
  <2>1. CASE detected = <<>>
    BY <2>1, AnswerConstants
  <2>2. CASE detected # <<>>
    <3>1. Len(detected) \in DOMAIN detected /\ Len(detected) \in Nat
      BY <2>2, <1>2, DetectedFacts
    <3>2. detected[Len(detected)].at \in Nat /\ detected[Len(detected)].at < Len(detected)
      BY <3>1, <1>2, DetectedFacts DEF DetectedTyped
    <3> QED BY <2>2, <3>1, <3>2, AnswerConstants
  <2> QED BY <2>1, <2>2
<1> HIDE DEF last
<1>4. e \in [of : Firms, at : 0..MaxDetected]
  BY <1>1, <1>3
<1>5. e.at <= Len(detected) /\ e.at \in Int
  BY <1>3
<1> HIDE DEF e
<1>6. detected' \in Seq([of : Firms, at : 0..MaxDetected]) /\ Len(detected') = Len(detected) + 1
  BY <1>1, <1>2, <1>4 DEF DetectedTyped
<1>7. \A i \in DOMAIN detected' : detected'[i].at < i
  <2> SUFFICES ASSUME NEW i \in 1..(Len(detected) + 1) PROVE detected'[i].at < i
    BY <1>6
  <2>1. CASE i \in 1..Len(detected)
    BY <2>1, <1>1, <1>2 DEF DetectedTyped
  <2>2. CASE i = Len(detected) + 1
    <3>1. detected'[i] = e
      BY <2>2, <1>1, <1>2 DEF DetectedTyped
    <3> QED BY <2>2, <3>1, <1>3, <1>5
  <2> QED BY <2>1, <2>2, <1>3
<1>8. DetectedTyped'
  BY <1>1, <1>3, <1>6, <1>7 DEF DetectedTyped
<1> QED BY <1>1, <1>8
     DEF AnswersInv, ConsultTyped, BundleGiven, InterpretationsAreCited, FindingsAreQuoted, CallsAreEarned

LEMMA OpenStep ==
  ASSUME AnswersInv, UNCHANGED detected, consult.is = "nothing",
         NEW state \in {"calling", "failed", "completed unasked"}, NEW about, NEW config, NEW given, NEW kept,
         consult' = Opened(state, about, config, given, kept),
         about = "digest" /\ state = "calling" => HoldsTheNews(given) /\ IsCited(given)
  PROVE  AnswersInv'
<1>1. /\ consult'.is = state /\ consult'.about = about /\ consult'.given = given /\ consult'.heard = <<>>
      /\ consult'.is # "stored" /\ consult'.is # "nothing"
  BY DEF Opened
<1>2. ConsultTyped'
  <2> DEFINE c == consult'
  <2>1. c.is \in {"calling", "failed", "completed unasked"} /\ c.heard = <<>>
    BY <1>1
  <2> HIDE DEF c
  <2>2. c.heard \in Seq(Outcomes) /\ Len(c.heard) \in 0..2
    BY <2>1, NothingHeard
  <2>3. c.is \in {"nothing", "calling", "stored", "failed", "completed unasked"} /\ c.is # "nothing"
    BY <2>1
  <2> QED BY <2>1, <2>2, <2>3 DEF ConsultTyped, c
<1>3. BundleGiven'
  BY <1>1 DEF BundleGiven
<1>4. InterpretationsAreCited' /\ FindingsAreQuoted' /\ CallsAreEarned'
  <2>1. InterpretationsAreCited' /\ FindingsAreQuoted'
    BY <1>1 DEF InterpretationsAreCited, FindingsAreQuoted
  <2>2. CallsAreEarned'
    <3> DEFINE c == consult'
    <3>1. c.heard = <<>> /\ c.is # "stored"
      BY <1>1
    <3> HIDE DEF c
    <3>2. Len(c.heard) # 2 /\ c.is # "stored" /\ c.heard = <<>>
      BY <3>1, NothingHeard
    <3> QED BY <3>2 DEF CallsAreEarned, c
  <2> QED BY <2>1, <2>2
<1>5. DetectedTyped'
  BY DEF AnswersInv, DetectedTyped
<1> QED BY <1>2, <1>3, <1>4, <1>5 DEF AnswersInv

LEMMA ConsultStep ==
  ASSUME AnswersInv, NEW about, NEW config, NEW given, Consult(about, config, given),
         about = "digest" => HoldsTheNews(given) /\ IsCited(given)
  PROVE  AnswersInv'
<1>1. consult.is = "nothing" /\ UNCHANGED detected
  BY DEF Consult
<1>2. CASE CanBuild(config)
  <2>1. consult' = Opened("calling", about, config, given, "nothing")
    BY <1>2 DEF Consult
  <2> QED BY <1>1, <2>1, OpenStep
<1>3. CASE ~CanBuild(config)
  <2>1. consult' = Opened("failed", about, config, given, IF about = "test" THEN "INVALID_CONFIGURATION" ELSE "nothing")
    BY <1>3 DEF Consult
  <2> QED BY <1>1, <2>1, OpenStep
<1> QED BY <1>2, <1>3

LEMMA ConsultAskStep ==
  ASSUME AnswersInv, NEW config,
         \/ InterpretNothing(config)
         \/ \E qualified : InterpretDigest(config, qualified)
         \/ \E evidence : AnalyzeChange(config, evidence)
         \/ \E page : ClassifyPage(config, page)
         \/ TestConnection(config)
  PROVE  AnswersInv'
<1>1. CASE InterpretNothing(config)
  <2>1. consult.is = "nothing" /\ UNCHANGED detected
        /\ consult' = Opened("completed unasked", "digest", config, "nothing", "nothing")
    BY <1>1 DEF InterpretNothing
  <2> QED BY <2>1, OpenStep
<1>2. ASSUME NEW qualified, InterpretDigest(config, qualified) PROVE AnswersInv'
  <2>1. HoldsTheNews(Bundle(qualified)) /\ IsCited(Bundle(qualified))
    BY <1>2, BundleHoldsTheNews, BundleIsCited DEF InterpretDigest, AnswersInv
  <2>2. Consult("digest", config, Bundle(qualified))
    BY <1>2 DEF InterpretDigest
  <2> QED BY <2>1, <2>2, ConsultStep
<1>3. ASSUME NEW evidence, AnalyzeChange(config, evidence) PROVE AnswersInv'
  BY <1>3, ConsultStep DEF AnalyzeChange
<1>4. ASSUME NEW page, ClassifyPage(config, page) PROVE AnswersInv'
  BY <1>4, ConsultStep DEF ClassifyPage
<1>5. CASE TestConnection(config)
  BY <1>5, ConsultStep DEF TestConnection
<1> QED BY <1>1, <1>2, <1>3, <1>4, <1>5

(* What is kept of an answer.                                              *)
LEMMA AcceptedAreQuoted ==
  ASSUME NEW findings, NEW n \in Nat, DOMAIN findings = 1..n, \A i \in 1..n : findings[i].key \in AskedKeys \cup {NoKey},
         NEW page, NEW kept, kept = AcceptedFindings(findings, page)
  PROVE  /\ \A f \in kept : f.quote \in page.sent \cup {Blank} /\ f.confidence # "low" /\ f.key # NoKey
         /\ \A f, g \in kept : f.key = g.key => f = g
         /\ \A i \in 1..n : (findings[i].length = "fit" /\ findings[i].quote \in page.sent /\ findings[i].confidence # "low"
                              /\ findings[i].key # NoKey) => \E g \in kept : g.key = findings[i].key
<1> DEFINE Good(i) == IsQuoted(findings[i], page)
           firsts == {j \in 1..n : Good(j) /\ \A k \in 1..(j - 1) : Good(k) => findings[k].key # findings[j].key}
<1>1. kept = {findings[i] : i \in firsts}
  BY DEF AcceptedFindings
<1>2. \A i \in 1..n : Good(i) => /\ findings[i].quote \in page.sent \cup {Blank} /\ findings[i].confidence # "low"
                                 /\ findings[i].key # NoKey
  BY AnswerConstants DEF IsQuoted, NoKey
<1>3. \A i \in 1..n : (findings[i].length = "fit" /\ findings[i].quote \in page.sent /\ findings[i].confidence # "low"
                        /\ findings[i].key # NoKey) => Good(i)
  BY DEF IsQuoted
<1> HIDE DEF Good
<1>4. \A f \in kept : f.quote \in page.sent \cup {Blank} /\ f.confidence # "low" /\ f.key # NoKey
  BY <1>1, <1>2
<1>5. \A i, j \in firsts : findings[i].key = findings[j].key => i = j
  <2> SUFFICES ASSUME NEW i \in firsts, NEW j \in firsts, findings[i].key = findings[j].key, i < j PROVE FALSE
    OBVIOUS
  <2>1. i \in 1..(j - 1) /\ Good(i)
    OBVIOUS
  <2> QED BY <2>1
<1>6. ASSUME NEW i \in 1..n, Good(i) PROVE \E j \in firsts : findings[j].key = findings[i].key
  <2> DEFINE same == {j \in 1..n : Good(j) /\ findings[j].key = findings[i].key}
  <2>1. same \in SUBSET Nat /\ same # {}
    BY <1>6
  <2>2. PICK j \in same : \A k \in same : j <= k
    BY <2>1, LeastOf
  <2>3. ASSUME NEW k \in 1..(j - 1), Good(k) PROVE findings[k].key # findings[j].key
    <3>1. k \in 1..n /\ k < j
      OBVIOUS
    <3>2. k \notin same
      BY <3>1, <2>2
    <3> QED BY <3>1, <3>2, <2>3
  <2>4. j \in firsts
    BY <2>3
  <2> QED BY <2>4
<1>7. \A f, g \in kept : f.key = g.key => f = g
  BY <1>1, <1>5
<1>8. \A i \in 1..n : Good(i) => \E g \in kept : g.key = findings[i].key
  BY <1>1, <1>6
<1> QED BY <1>3, <1>4, <1>7, <1>8

LEMMA AcceptedIsCited ==
  ASSUME NEW reply, NEW bundle, AcceptsDigest(reply, bundle), IsCited(bundle)
  PROVE  \A c \in reply.claims :
           /\ c.cites # {} /\ c.says \notin Prohibited
           /\ \A e \in c.cites : \E x \in bundle.items : bundle.of[e].of = x[1] /\ x[2] \in {e, RoundUp}
<1> SUFFICES ASSUME NEW c \in reply.claims
             PROVE  /\ c.cites # {} /\ c.says \notin Prohibited
                    /\ \A e \in c.cites : \E x \in bundle.items : bundle.of[e].of = x[1] /\ x[2] \in {e, RoundUp}
  OBVIOUS
<1>1. Cardinality(c.cites) \in 1..CitesPerClaim /\ c.cites \subseteq bundle.allowed /\ c.says \notin Prohibited
  BY DEF AcceptsDigest, FitsDigestSchema, CitesWhatWasSent, DigestClaimsAreSafe
<1>2. c.cites # {}
  <2>1. Cardinality({}) = 0 /\ 0 \notin 1..CitesPerClaim
    BY FS_EmptySet, AnswerConstants
  <2> QED BY <2>1, <1>1
<1> QED BY <1>1, <1>2 DEF IsCited

(* A reply of any wording: what a page is answered is a list of findings,  *)
(* each on a capability asked about or none.                               *)
IsReply(reply) ==
  consult.about = "page" => \E n \in Nat : /\ DOMAIN reply.findings = 1..n
                                           /\ \A i \in 1..n : reply.findings[i].key \in AskedKeys \cup {NoKey}

LEMMA HeardTwice ==
  ASSUME ConsultTyped, consult.is = "calling", NEW h \in Outcomes, NEW list, list = Append(consult.heard, h)
  PROVE  /\ list \in Seq(Outcomes) /\ Len(list) \in 1..2 /\ list[Len(list)] = h
         /\ Len(list) = 2 => IsRetryable(list[1]) /\ consult.about # "test"
<1>1. CASE consult.heard = <<>>
  BY <1>1
<1>2. CASE Len(consult.heard) = 1 /\ IsRetryable(consult.heard[1]) /\ consult.about # "test"
  BY <1>2 DEF ConsultTyped
<1> QED BY <1>1, <1>2 DEF ConsultTyped

LEMMA EndedStep ==
  ASSUME AnswersInv, UNCHANGED detected, consult.is = "calling", NEW state \in {"calling", "stored", "failed"},
         NEW calls, NEW kept, consult' = Ended(state, calls, kept),
         calls \in Seq(Outcomes), Len(calls) \in 1..2,
         Len(calls) = 2 => IsRetryable(calls[1]) /\ consult.about # "test",
         state = "calling" => Len(calls) = 1 /\ IsRetryable(calls[1]) /\ consult.about # "test",
         state = "stored" /\ consult.about # "test" => calls[Len(calls)] = "content",
         consult.about = "test" => /\ (IsRetryable(calls[1]) <=> kept = "PROVIDER_UNAVAILABLE")
                                   /\ (calls[1] = "content" <=> kept = "SUCCESS"),
         state = "stored" /\ consult.about = "change" => /\ kept \cap (Shared \cup AlwaysBanned) = {}
                                                      /\ \A w \in kept \cap EvidenceGated : w \in consult.given,
         InterpretationsAreCited', FindingsAreQuoted'
  PROVE  AnswersInv'
<1>1. consult'.is = state /\ consult'.about = consult.about /\ consult'.given = consult.given
      /\ consult'.heard = calls /\ consult'.kept = kept /\ consult'.is # "nothing"
  BY DEF Ended
<1>2. ConsultTyped'
  <2>1. consult'.heard \in Seq(Outcomes) /\ Len(consult'.heard) \in 0..2
    <3> DEFINE l == consult'.heard
    <3>1. l = calls
      BY <1>1
    <3> HIDE DEF l
    <3>2. l \in Seq(Outcomes) /\ Len(l) \in 0..2
      BY <3>1
    <3> QED BY <3>2 DEF l
  <2>2. state = "calling" => Len(consult'.heard) = 1 /\ IsRetryable(consult'.heard[1]) /\ consult'.about # "test"
    BY <1>1
  <2> QED BY <1>1, <2>1, <2>2 DEF ConsultTyped
<1>3. BundleGiven'
  BY <1>1 DEF BundleGiven, AnswersInv
<1>4. CallsAreEarned'
  BY <1>1 DEF CallsAreEarned
<1>5. DetectedTyped'
  BY DEF AnswersInv, DetectedTyped
<1> QED BY <1>2, <1>3, <1>4, <1>5 DEF AnswersInv

LEMMA ReplyStep ==
  ASSUME AnswersInv, NEW reply, IsReply(reply), ModelAnswers(reply)
  PROVE  AnswersInv'
<1> DEFINE list == Append(consult.heard, "content")
<1>1. consult.is = "calling" /\ UNCHANGED detected
  BY DEF ModelAnswers
<1>2. /\ list \in Seq(Outcomes) /\ Len(list) \in 1..2 /\ list[Len(list)] = "content"
      /\ Len(list) = 2 => IsRetryable(list[1]) /\ consult.about # "test"
  BY <1>1, HeardTwice DEF AnswersInv, Outcomes
<1> HIDE DEF list
<1>3. ASSUME NEW kept, consult' = Ended("stored", list, kept), consult.about # "test",
             consult.about = "change" => /\ kept \cap (Shared \cup AlwaysBanned) = {}
                                         /\ \A w \in kept \cap EvidenceGated : w \in consult.given,
             InterpretationsAreCited', FindingsAreQuoted'
      PROVE  AnswersInv'
  BY <1>1, <1>2, <1>3, EndedStep
<1>4. ASSUME consult' = Ended("failed", list, consult.kept), consult.about # "test"
      PROVE  AnswersInv'
  <2>1. InterpretationsAreCited' /\ FindingsAreQuoted'
    BY <1>4 DEF InterpretationsAreCited, FindingsAreQuoted, Ended
  <2> QED BY <1>1, <1>2, <1>4, <2>1, EndedStep
<1>5. CASE consult.about = "digest" /\ Keep(AcceptsDigest(reply, consult.given), reply)
  <2>1. CASE AcceptsDigest(reply, consult.given)
    <3>1. consult' = Ended("stored", list, reply)
      BY <1>5, <2>1 DEF Keep, list
    <3>2. consult'.about = "digest" /\ consult'.kept = reply /\ consult'.given = consult.given
      BY <3>1, <1>5 DEF Ended
    <3>3. IsCited(consult.given)
      BY <1>1, <1>5 DEF AnswersInv, BundleGiven
    <3>4. InterpretationsAreCited'
      BY <2>1, <3>2, <3>3, AcceptedIsCited DEF InterpretationsAreCited
    <3>5. FindingsAreQuoted'
      BY <3>2 DEF FindingsAreQuoted
    <3> QED BY <1>3, <1>5, <3>1, <3>4, <3>5
  <2>2. CASE ~AcceptsDigest(reply, consult.given)
    BY <1>4, <1>5, <2>2 DEF Keep, list
  <2> QED BY <2>1, <2>2
<1>6. CASE consult.about = "change" /\ Keep(AcceptsChange(reply, consult.given), reply.says)
  <2>1. CASE AcceptsChange(reply, consult.given)
    <3>1. consult' = Ended("stored", list, reply.says)
      BY <1>6, <2>1 DEF Keep, list
    <3>2. consult'.about = "change"
      BY <3>1, <1>6 DEF Ended
    <3>3. InterpretationsAreCited' /\ FindingsAreQuoted'
      BY <3>2 DEF InterpretationsAreCited, FindingsAreQuoted
    <3>4. /\ reply.says \cap (Shared \cup AlwaysBanned) = {}
          /\ \A w \in reply.says \cap EvidenceGated : w \in consult.given
      BY <2>1 DEF AcceptsChange
    <3> QED BY <1>3, <1>6, <3>1, <3>3, <3>4
  <2>2. CASE ~AcceptsChange(reply, consult.given)
    BY <1>4, <1>6, <2>2 DEF Keep, list
  <2> QED BY <2>1, <2>2
<1>7. CASE consult.about = "page" /\ Keep(reply.formed, [from |-> reply.findings,
                                             accepted |-> AcceptedFindings(reply.findings, consult.given)])
  <2> DEFINE kept == [from |-> reply.findings, accepted |-> AcceptedFindings(reply.findings, consult.given)]
  <2>1. CASE reply.formed
    <3>1. consult' = Ended("stored", list, kept)
      BY <1>7, <2>1 DEF Keep, list
    <3>2. /\ consult'.about = "page" /\ consult'.given = consult.given /\ consult'.kept.from = reply.findings
          /\ consult'.kept.accepted = AcceptedFindings(reply.findings, consult.given)
      BY <3>1, <1>7 DEF Ended
    <3>3. InterpretationsAreCited'
      BY <3>2 DEF InterpretationsAreCited
    <3>4. PICK n \in Nat : /\ DOMAIN reply.findings = 1..n
                           /\ \A i \in 1..n : reply.findings[i].key \in AskedKeys \cup {NoKey}
      BY <1>7 DEF IsReply
    <3>5. FindingsAreQuoted'
      BY <3>2, <3>4, AcceptedAreQuoted DEF FindingsAreQuoted
    <3> HIDE DEF kept
    <3> QED BY <1>3, <1>7, <3>1, <3>3, <3>5
  <2>2. CASE ~reply.formed
    BY <1>4, <1>7, <2>2 DEF Keep, list
  <2> QED BY <2>1, <2>2
<1> QED BY <1>5, <1>6, <1>7 DEF ModelAnswers

LEMMA FailStep ==
  ASSUME AnswersInv, FailNext
  PROVE  AnswersInv'
<1>1. \A provider, status, body : Heard(provider, status, body) \in Outcomes
  BY DEF Heard, Outcomes
<1>2. ASSUME NEW status, NEW body, AskAgain(status, body) PROVE AnswersInv'
  <2> DEFINE h == Heard(consult.by, status, body)
  <2>1. /\ consult.is = "calling" /\ consult.about # "test" /\ IsRetryable(h)
        /\ consult' = Ended("calling", <<h>>, consult.kept) /\ UNCHANGED detected
    BY <1>2 DEF AskAgain
  <2>2. h \in Outcomes
    BY <1>1
  <2> HIDE DEF h
  <2> DEFINE list == <<h>>
  <2>3. list \in Seq(Outcomes) /\ Len(list) = 1 /\ list[1] = h
    BY <2>2
  <2>4. InterpretationsAreCited' /\ FindingsAreQuoted'
    BY <2>1 DEF InterpretationsAreCited, FindingsAreQuoted, Ended
  <2> HIDE DEF list
  <2>5. /\ Len(list) \in 1..2 /\ Len(list) # 2 /\ "calling" # "stored" /\ consult.is = "calling"
        /\ consult' = Ended("calling", list, consult.kept)
    BY <2>1, <2>3 DEF list
  <2> QED BY <2>1, <2>3, <2>4, <2>5, EndedStep
<1>3. ASSUME NEW status, NEW body, FailConsult(status, body) PROVE AnswersInv'
  <2> DEFINE h == Heard(consult.by, status, body)  list == Append(consult.heard, h)
  <2>1. /\ consult.is = "calling" /\ consult.about # "test"
        /\ consult' = Ended("failed", list, consult.kept) /\ UNCHANGED detected
    BY <1>3 DEF FailConsult
  <2>2. h \in Outcomes
    BY <1>1
  <2> HIDE DEF h
  <2>3. /\ list \in Seq(Outcomes) /\ Len(list) \in 1..2
        /\ Len(list) = 2 => IsRetryable(list[1]) /\ consult.about # "test"
    BY <2>1, <2>2, HeardTwice DEF AnswersInv
  <2> HIDE DEF list
  <2>4. InterpretationsAreCited' /\ FindingsAreQuoted'
    BY <2>1 DEF InterpretationsAreCited, FindingsAreQuoted, Ended
  <2> QED BY <2>1, <2>3, <2>4, EndedStep
<1>4. ASSUME NEW status, NEW body, NEW wording, FinishTest(status, body, wording) PROVE AnswersInv'
  <2> DEFINE h == Heard(consult.by, status, body)  kept == TestStatus(h, wording)
  <2>1. /\ consult.is = "calling" /\ consult.about = "test"
        /\ consult' = Ended("stored", <<h>>, kept) /\ UNCHANGED detected
    BY <1>4 DEF FinishTest
  <2>2. h \in Outcomes
    BY <1>1
  <2> HIDE DEF h
  <2> DEFINE list == <<h>>
  <2>3. list \in Seq(Outcomes) /\ Len(list) = 1 /\ list[1] = h
    BY <2>2
  <2>4. InterpretationsAreCited' /\ FindingsAreQuoted'
    BY <2>1 DEF InterpretationsAreCited, FindingsAreQuoted, Ended
  <2>5. (IsRetryable(h) <=> kept = "PROVIDER_UNAVAILABLE") /\ (h = "content" <=> kept = "SUCCESS")
    BY TestTells
  <2> HIDE DEF list, kept
  <2>6. Len(list) \in 1..2 /\ Len(list) # 2 /\ consult' = Ended("stored", list, kept)
    BY <2>1, <2>3 DEF list
  <2> QED BY <2>1, <2>3, <2>4, <2>5, <2>6, EndedStep
<1> QED BY <1>2, <1>3, <1>4 DEF FailNext

LEMMA AnswersStep == AnswersInv /\ [AnswersNext]_oVars => AnswersInv'
<1> SUFFICES ASSUME AnswersInv, [AnswersNext]_oVars PROVE AnswersInv'
  OBVIOUS
<1>1. CASE UNCHANGED oVars
  BY <1>1 DEF oVars, AnswersInv, DetectedTyped, ConsultTyped, BundleGiven, InterpretationsAreCited,
              FindingsAreQuoted, CallsAreEarned
<1>2. CASE \E f \in Firms, later \in BOOLEAN : DetectFor(f, later)
  BY <1>2, DetectStep
<1>3. CASE AskNext
  BY <1>3, ConsultAskStep DEF AskNext
<1>4. CASE ReplyNext
  <2>1. ASSUME NEW formed, NEW f \in Finding, NEW g \in Finding, consult.about = "page"
        PROVE  IsReply([formed |-> formed, findings |-> <<f, g>>])
    <3>1. f.key \in AskedKeys \cup {NoKey} /\ g.key \in AskedKeys \cup {NoKey}
      BY DEF Finding
    <3>2. /\ DOMAIN <<f, g>> = 1..2 /\ \A i \in 1..2 : <<f, g>>[i].key \in AskedKeys \cup {NoKey}
      BY <3>1
    <3> QED BY <3>2 DEF IsReply
  <2>2. \A reply : consult.about # "page" => IsReply(reply)
    BY DEF IsReply
  <2>3. PICK reply : IsReply(reply) /\ ModelAnswers(reply)
    BY <1>4, <2>1, <2>2 DEF ReplyNext
  <2> QED BY <2>3, ReplyStep
<1>5. CASE FailNext
  BY <1>5, FailStep
<1> QED BY <1>1, <1>2, <1>3, <1>4, <1>5 DEF AnswersNext

(* What a digest, a page or a change keeps of a model's answer stands on   *)
(* what the model was sent, and the bundle it was sent holds the news,     *)
(* however many events are detected meanwhile and whatever it answers.     *)
THEOREM AnswersCorrect == AnswersSpec => [](AnswersTypeOK /\ AnswersAreSupported)
BY AnswersInitially, AnswersStep, AnswersInvGives, PTL DEF AnswersSpec

-----------------------------------------------------------------------------
(* The digest and the comparison.  An event belongs to a page that is      *)
(* still watched.                                                          *)
RequestColumns == {"doing", "now", "listed", "found", "pattern", "repeated", "trend", "asked", "rows", "quiet", "deleted"}
EventsAtHome ==
  /\ IntelligenceTypeOK /\ IsFiniteSet(feed)
  /\ \A e \in feed \cup writing : <<e.of, e.url>> \in watched
RequestTyped ==
  /\ DOMAIN request = RequestColumns /\ request.now \in 0..LastTick
  /\ request.listed \subseteq Competitors /\ request.deleted \subseteq ChangeEvent /\ IsFiniteSet(request.found)

(* What a request holds stands on events that are there or were deleted    *)
(* since, in the window of its now.                                        *)
IsReal(e) == e \in feed \cup request.deleted /\ e.at \in (request.now - Period)..(request.now - 1)
HasBaseline(c) == added[c] <= request.now - (MIN_QUALIFYING_BASELINE_WINDOWS + 1) * Period
HoldsEvents ==
  /\ \A e \in request.found : IsReal(e) /\ e.of \in request.listed
  /\ \A g \in request.repeated :
       /\ g.of \in request.listed /\ Cardinality(g.events) >= MIN_REPEATED_PRICE_CHANGES
       /\ \A e \in g.events : IsReal(e) /\ e.of = g.of
       /\ \E u, k : \A e \in g.events : e.url = u /\ e.key = k
  /\ \A p \in request.pattern : p.of \in request.listed /\ (p.qualifies => HasBaseline(p.of))
  /\ \A t \in request.trend : t.of \in request.listed /\ (t.sustained => HasBaseline(t.of))
  /\ request.doing = "digest shown" => \A c \in request.listed : \E p \in request.pattern : p.of = c

(* In a quiet one the list, the patterns and the trends are those of now,  *)
(* but for competitors without events, whose first page may be new.        *)
QuietHolds ==
  request.quiet =>
    /\ request.deleted = {}
    /\ request.doing \in {"patterns", "digest shown"} =>
         request.found = {e \in CurrentWindow(request.now) : e.of \in request.listed}
    /\ \A p \in request.pattern, now \in {request.now} :
         /\ p.current = Cardinality(EventsOf(p.of) \cap CurrentWindow(now))
         /\ EventsOf(p.of) # {} => p.direction = ActivityPattern(p.of, now).direction
    /\ \A t \in request.trend, now \in {request.now} : t.sustained =>
         /\ EventsOf(t.of) # {} /\ t.direction # "AT_BASELINE"
         /\ t.direction = ActivityPattern(t.of, now).direction

(* The first half of a comparison.                                         *)
HalfCompared ==
  request.doing = "comparison" =>
    \A row \in request.rows :
      /\ \A e \in row.latest : e \in feed \cup request.deleted /\ e.of = row.counts.of
      /\ request.quiet =>
           LET current == EventsOf(row.counts.of) \cap CurrentWindow(request.now) IN
           /\ row.counts.total = Cardinality(current)
           /\ row.counts.current["PRICE_CHANGE"] = Cardinality({e \in current : e.type = "PRICE_CHANGE"})

RequestInv == RequestTyped /\ HoldsEvents /\ QuietHolds /\ HalfCompared /\ ComparisonAgrees
ShownInv == EventsAtHome /\ RequestInv

(* What the queries answer.                                                *)
LEMMA BaselineIsOld ==
  ASSUME EventsAtHome, NEW c \in Competitors, NEW now \in Int, Cardinality(QualifyingWindows(c, now)) >= 2
  PROVE  added[c] <= now - 3 * Period
<1>1. Period \in Nat /\ added[c] \in Int
  BY IntelligenceConstants DEF EventsAtHome, IntelligenceTypeOK
<1>2. CASE 2 \in QualifyingWindows(c, now)
  BY <1>1, <1>2 DEF QualifyingWindows
<1>3. CASE 3 \in QualifyingWindows(c, now)
  <2>1. now - (3 + 1) * Period >= added[c]
    BY <1>3 DEF QualifyingWindows
  <2> QED BY <2>1, <1>1
<1>4. CASE 2 \notin QualifyingWindows(c, now) /\ 3 \notin QualifyingWindows(c, now)
  <2>1. QualifyingWindows(c, now) \subseteq {1}
    BY <1>4 DEF QualifyingWindows, BASELINE_WINDOW_COUNT
  <2>2. IsFiniteSet({1}) /\ Cardinality({1}) = 1
    BY FS_Singleton
  <2>3. Cardinality(QualifyingWindows(c, now)) <= 1 /\ Cardinality(QualifyingWindows(c, now)) \in Nat
    BY <2>1, <2>2, FS_Subset, FS_CardinalityType
  <2> QED BY <2>3
<1> QED BY <1>2, <1>3, <1>4

PatternOf(n, current, sum) ==
  IF n >= MIN_QUALIFYING_BASELINE_WINDOWS THEN Direction(current, sum, n) ELSE "INSUFFICIENT_HISTORY"

LEMMA PatternAnswers ==
  ASSUME EventsAtHome, NEW c \in Competitors, NEW now \in Int, NEW p, p = ActivityPattern(c, now)
  PROVE  /\ p.of = c /\ p.current = Cardinality(EventsOf(c) \cap CurrentWindow(now))
         /\ p.qualifies => added[c] <= now - 3 * Period
         /\ (p.qualifies /\ EventsOf(c) = {}) => p.direction = "AT_BASELINE"
<1> DEFINE n == IF UrlsOf(c) = {} THEN 0 ELSE Cardinality(QualifyingWindows(c, now))
           sum == Cardinality(Between(EventsOf(c), now - (n + 1) * Period, now - Period))
           current == Cardinality(EventsOf(c) \cap CurrentWindow(now))
<1>1. /\ p.of = c /\ p.current = current /\ p.qualifies = (n >= 2)
      /\ p.direction = IF n >= 2 THEN Direction(current, sum, n) ELSE "INSUFFICIENT_HISTORY"
  BY DEF ActivityPattern, MIN_QUALIFYING_BASELINE_WINDOWS
<1>2. n >= 2 => added[c] <= now - 3 * Period
  <2>1. n >= 2 => n = Cardinality(QualifyingWindows(c, now))
    OBVIOUS
  <2> QED BY <2>1, BaselineIsOld
<1>3. EventsOf(c) = {} => sum = 0 /\ current = 0
  <2> SUFFICES ASSUME EventsOf(c) = {} PROVE sum = 0 /\ current = 0
    OBVIOUS
  <2>1. Between(EventsOf(c), now - (n + 1) * Period, now - Period) = {} /\ EventsOf(c) \cap CurrentWindow(now) = {}
    BY DEF Between
  <2> QED BY <2>1, FS_EmptySet
<1> HIDE DEF n, sum, current
<1>4. (n >= 2 /\ EventsOf(c) = {}) => p.direction = "AT_BASELINE"
  BY <1>1, <1>3 DEF Direction
<1> QED BY <1>1, <1>2, <1>4 DEF current

LEMMA TrendAnswers ==
  ASSUME EventsAtHome, NEW c \in Competitors, NEW now \in Int, NEW t, t = SustainedActivityTrend(c, now)
  PROVE  /\ t.of = c /\ t.direction = ActivityPattern(c, now).direction
         /\ t.sustained => /\ added[c] <= now - 3 * Period /\ EventsOf(c) # {} /\ t.direction # "AT_BASELINE"
<1> DEFINE pattern == ActivityPattern(c, now)
           run == {k \in 1..MAX_SUSTAINED_LOOKBACK : \A i \in 1..k : Continues(c, now, i)}
           streak == IF pattern.qualifies THEN 1 + Cardinality(run) ELSE 0
<1>1. t.of = c /\ t.direction = pattern.direction /\ t.sustained = (streak >= 2)
  BY DEF SustainedActivityTrend, MIN_SUSTAINED_WINDOWS
<1>2. ASSUME streak >= 2 PROVE pattern.qualifies /\ pattern.direction # "AT_BASELINE"
  <2>1. pattern.qualifies /\ 1 + Cardinality(run) >= 2
    BY <1>2
  <2>2. run # {}
    <3>1. run = {} => Cardinality(run) = 0
      BY FS_EmptySet
    <3> HIDE DEF run
    <3> QED BY <2>1, <3>1
  <2>3. PICK k \in run : \A i \in 1..k : Continues(c, now, i)
    BY <2>2
  <2>4. Continues(c, now, 1)
    BY <2>3
  <2> QED BY <2>1, <2>4 DEF Continues
<1>3. pattern.qualifies => added[c] <= now - 3 * Period
  BY PatternAnswers
<1>4. (pattern.qualifies /\ EventsOf(c) = {}) => pattern.direction = "AT_BASELINE"
  BY PatternAnswers
<1> HIDE DEF pattern, streak
<1> QED BY <1>1, <1>2, <1>3, <1>4 DEF pattern

LEMMA RepeatedAnswers ==
  ASSUME NEW c, NEW now, NEW g \in RepeatedPriceChanges(c, now)
  PROVE  /\ g.of = c /\ Cardinality(g.events) >= 2
         /\ \E u, k : g.events = PriceSeries(c, u, k) \cap CurrentWindow(now)
BY DEF RepeatedPriceChanges, MIN_REPEATED_PRICE_CHANGES

LEMMA WindowFacts ==
  ASSUME EventsAtHome, NEW now \in Int, NEW e \in CurrentWindow(now)
  PROVE  e \in feed /\ e.at \in (now - Period)..(now - 1)
<1>1. e \in feed /\ now - Period <= e.at /\ e.at < now
  BY DEF CurrentWindow, Between
<1>2. e.at \in Int /\ Period \in Nat
  BY <1>1, IntelligenceConstants DEF EventsAtHome, IntelligenceTypeOK, ChangeEvent
<1> QED BY <1>1, <1>2

LEMMA WindowHolds ==
  ASSUME NEW now \in Int, NEW e \in feed, e.at \in (now - Period)..(now - 1)
  PROVE  e \in CurrentWindow(now)
BY IntelligenceConstants DEF CurrentWindow, Between

(* A competitor with events has a page, before and after one is added.     *)
LEMMA PatternStays ==
  ASSUME UNCHANGED <<feed, added>>, watched \subseteq watched',
         NEW c, NEW now, \E u \in Urls : <<c, u>> \in watched
  PROVE  ActivityPattern(c, now)' = ActivityPattern(c, now)
<1>1. UrlsOf(c) # {} /\ UrlsOf(c)' # {}
  BY DEF UrlsOf
<1>2. EventsOf(c)' = EventsOf(c) /\ CurrentWindow(now)' = CurrentWindow(now) /\ QualifyingWindows(c, now)' = QualifyingWindows(c, now)
  BY DEF EventsOf, CurrentWindow, Between, QualifyingWindows
<1> QED BY <1>1, <1>2 DEF ActivityPattern

LEMMA LatestIsThere ==
  ASSUME EventsAtHome, NEW c, NEW e \in EventsOf(c)
  PROVE  \E f \in LatestOf(c) : f.id >= e.id
<1> DEFINE gaps == {MaxEvents - f.id : f \in EventsOf(c)}
<1>1. \A f \in EventsOf(c) : f.id \in 1..MaxEvents
  BY DEF EventsOf, EventsAtHome, IntelligenceTypeOK, ChangeEvent
<1>2. MaxEvents \in Nat
  BY IntelligenceConstants
<1>3. gaps \in SUBSET Nat /\ gaps # {}
  BY <1>1, <1>2
<1>4. PICK m \in gaps : \A k \in gaps : m <= k
  BY <1>3, LeastOf
<1>5. PICK f \in EventsOf(c) : m = MaxEvents - f.id
  BY <1>4
<1>6. \A h \in EventsOf(c) : h.id <= f.id
  <2> TAKE h \in EventsOf(c)
  <2>1. MaxEvents - f.id <= MaxEvents - h.id
    BY <1>4, <1>5
  <2> QED BY <2>1, <1>1, <1>2
<1> QED BY <1>1, <1>6 DEF LatestOf

-----------------------------------------------------------------------------
LEMMA ShownInitially == IntelligenceInit => ShownInv
<1> SUFFICES ASSUME IntelligenceInit PROVE ShownInv
  OBVIOUS
<1>1. EventsAtHome
  <2>1. IsFiniteSet({})
    BY FS_EmptySet
  <2> QED BY <2>1, IntelligenceConstants DEF IntelligenceInit, EventsAtHome, IntelligenceTypeOK
<1>2. /\ request.doing = "nothing" /\ request.now = 0 /\ request.listed = {} /\ request.found = {} /\ request.pattern = {}
      /\ request.repeated = {} /\ request.trend = {} /\ request.deleted = {} /\ DOMAIN request = RequestColumns
  BY DEF IntelligenceInit, NoRequest, NewRequest, RequestColumns
<1>3. RequestTyped
  BY <1>2, IntelligenceConstants, FS_EmptySet DEF RequestTyped
<1>4. HoldsEvents /\ QuietHolds /\ HalfCompared /\ ComparisonAgrees
  BY <1>2 DEF HoldsEvents, QuietHolds, HalfCompared, ComparisonAgrees
<1> QED BY <1>1, <1>3, <1>4 DEF ShownInv, RequestInv

(* What is detected and committed.                                         *)
LEMMA HomeStep == EventsAtHome /\ IntelligenceNext => EventsAtHome'
<1> SUFFICES ASSUME EventsAtHome, IntelligenceNext PROVE EventsAtHome'
  OBVIOUS
<1>0. /\ IntelligenceTypeOK /\ IsFiniteSet(feed) /\ \A e \in feed \cup writing : <<e.of, e.url>> \in watched
      /\ \A e \in feed \cup writing : e \in ChangeEvent
  BY DEF EventsAtHome, IntelligenceTypeOK
<1> USE IntelligenceConstants
<1>1. ASSUME NEW c \in Competitors, NEW u \in Urls, AddUrl(c, u) PROVE EventsAtHome'
  BY <1>0, <1>1 DEF AddUrl, EventsAtHome, IntelligenceTypeOK, Where
<1>2. ASSUME NEW c \in Competitors, NEW u \in Urls, DeleteUrl(c, u) PROVE EventsAtHome'
  <2>1. /\ watched' = watched \ {<<c, u>>} /\ feed' = {e \in feed : ~(e.of = c /\ e.url = u)}
        /\ writing' = {e \in writing : <<e.of, e.url>> # <<c, u>>} /\ UNCHANGED <<added, tracked, created, tick>>
    BY <1>2 DEF DeleteUrl
  <2>2. IsFiniteSet(feed')
    BY <1>0, <2>1, FS_Subset
  <2>3. IntelligenceTypeOK'
    BY <1>0, <2>1 DEF IntelligenceTypeOK
  <2>4. \A e \in feed' \cup writing' : <<e.of, e.url>> \in watched'
    BY <1>0, <2>1
  <2> QED BY <2>2, <2>3, <2>4 DEF EventsAtHome
<1>3. ASSUME NEW c \in Competitors, NEW u \in Urls, NEW type \in ChangeKinds, NEW key \in Products \cup {NoProduct},
             Detect(c, u, type, key)
      PROVE  EventsAtHome'
  <2> DEFINE e == [id |-> created + 1, of |-> c, url |-> u, key |-> key, type |-> type, at |-> tick]
  <2>1. /\ <<c, u>> \in watched /\ created < MaxEvents /\ writing' = writing \cup {e} /\ created' = created + 1
        /\ UNCHANGED <<added, tracked, watched, feed, tick>>
    BY <1>3 DEF Detect
  <2>2. e \in ChangeEvent /\ e.of = c /\ e.url = u
    BY <1>0, <2>1 DEF ChangeEvent, IntelligenceTypeOK
  <2> HIDE DEF e
  <2>3. IntelligenceTypeOK'
    BY <1>0, <2>1, <2>2 DEF IntelligenceTypeOK
  <2>4. \A x \in feed' \cup writing' : <<x.of, x.url>> \in watched'
    BY <1>0, <2>1, <2>2
  <2> QED BY <1>0, <2>1, <2>3, <2>4 DEF EventsAtHome
<1>4. ASSUME NEW e \in writing, CommitScan(e) PROVE EventsAtHome'
  <2>1. /\ writing' = writing \ {e} /\ feed' = feed \cup {e} /\ UNCHANGED <<added, tracked, watched, created, tick>>
    BY <1>4 DEF CommitScan
  <2>2. IsFiniteSet(feed')
    BY <1>0, <2>1, FS_AddElement
  <2>3. IntelligenceTypeOK'
    BY <1>0, <2>1 DEF IntelligenceTypeOK
  <2>4. \A x \in feed' \cup writing' : <<x.of, x.url>> \in watched'
    BY <1>0, <2>1
  <2> QED BY <2>2, <2>3, <2>4 DEF EventsAtHome
<1>5. CASE Tick
  BY <1>0, <1>5 DEF Tick, EventsAtHome, IntelligenceTypeOK
<1>6. ASSUME NEW c \in Competitors, SetTracked(c) PROVE EventsAtHome'
  BY <1>0, <1>6 DEF SetTracked, EventsAtHome, IntelligenceTypeOK
<1>7. ASSUME UNCHANGED <<added, tracked, watched, feed, writing, created, tick>> PROVE EventsAtHome'
  BY <1>0, <1>7 DEF EventsAtHome, IntelligenceTypeOK
<1>8. CASE \/ \E c \in Competitors : AskPattern(c) \/ AskRepeated(c) \/ AskTrend(c)
           \/ OpenDigest \/ FetchEvents \/ ShowDigest \/ Compare \/ ShowComparison \/ Leave
  BY <1>7, <1>8 DEF AskPattern, AskRepeated, AskTrend, OpenDigest, FetchEvents, ShowDigest, Compare, ShowComparison, Leave
<1> QED BY <1>1, <1>2, <1>3, <1>4, <1>5, <1>6, <1>8 DEF IntelligenceNext

(* What leaves the feed and the request as they are.                       *)
LEMMA StillStep ==
  ASSUME ShownInv, UNCHANGED <<feed, added, request>>, watched \subseteq watched'
  PROVE  RequestInv'
<1>0. /\ EventsAtHome /\ RequestTyped /\ HoldsEvents /\ QuietHolds /\ HalfCompared /\ ComparisonAgrees
  BY DEF ShownInv, RequestInv
<1>1. RequestTyped' /\ HoldsEvents' /\ HalfCompared' /\ ComparisonAgrees'
  BY <1>0 DEF RequestTyped, HoldsEvents, IsReal, HasBaseline, HalfCompared, ComparisonAgrees, EventsOf, CurrentWindow, Between
<1>3. ASSUME NEW c, NEW now, EventsOf(c) # {} PROVE ActivityPattern(c, now)' = ActivityPattern(c, now)
  <2>1. PICK e \in feed : e.of = c
    BY <1>3 DEF EventsOf
  <2>2. <<c, e.url>> \in watched /\ e.url \in Urls
    BY <1>0, <2>1 DEF EventsAtHome, IntelligenceTypeOK, ChangeEvent
  <2> QED BY <2>2, PatternStays
<1>4. QuietHolds'
  <2> SUFFICES ASSUME request.quiet PROVE QuietHolds'
    BY DEF QuietHolds
  <2>1. /\ request'.deleted = {}
        /\ request'.doing \in {"patterns", "digest shown"} =>
             request'.found = {e \in CurrentWindow(request.now)' : e.of \in request'.listed}
    BY <1>0 DEF QuietHolds, CurrentWindow, Between
  <2>2. ASSUME NEW p \in request.pattern, NEW now \in {request.now}
        PROVE  /\ p.current = Cardinality(EventsOf(p.of) \cap CurrentWindow(now))'
               /\ EventsOf(p.of)' # {} => p.direction = ActivityPattern(p.of, now)'.direction
    <3>1. EventsOf(p.of)' = EventsOf(p.of)
      BY DEF EventsOf
    <3>2. Cardinality(EventsOf(p.of) \cap CurrentWindow(now))' = Cardinality(EventsOf(p.of) \cap CurrentWindow(now))
      BY DEF EventsOf, CurrentWindow, Between
    <3>3. EventsOf(p.of) # {} => ActivityPattern(p.of, now)' = ActivityPattern(p.of, now)
      BY <1>3
    <3> QED BY <1>0, <3>1, <3>2, <3>3 DEF QuietHolds
  <2>3. ASSUME NEW t \in request.trend, NEW now \in {request.now}, t.sustained
        PROVE  /\ EventsOf(t.of)' # {} /\ t.direction # "AT_BASELINE"
               /\ t.direction = ActivityPattern(t.of, now)'.direction
    <3>1. EventsOf(t.of)' = EventsOf(t.of)
      BY DEF EventsOf
    <3>2. EventsOf(t.of) # {} => ActivityPattern(t.of, now)' = ActivityPattern(t.of, now)
      BY <1>3
    <3>3. EventsOf(t.of) # {} /\ t.direction # "AT_BASELINE" /\ t.direction = ActivityPattern(t.of, now).direction
      BY <1>0, <2>3 DEF QuietHolds
    <3> QED BY <3>1, <3>2, <3>3
  <2> QED BY <2>1, <2>2, <2>3 DEF QuietHolds
<1> QED BY <1>1, <1>4 DEF RequestInv

(* What changes the feed under it: the request is not quiet any more.      *)
LEMMA FeedStep ==
  ASSUME ShownInv, UNCHANGED added, RequestTyped', ~request'.quiet,
         feed \cup request.deleted \subseteq feed' \cup request'.deleted, request.deleted \subseteq request'.deleted,
         request'.doing = request.doing, request'.now = request.now, request'.listed = request.listed,
         request'.found = request.found, request'.pattern = request.pattern, request'.repeated = request.repeated,
         request'.trend = request.trend, request'.rows = request.rows
  PROVE  RequestInv'
<1>0. /\ EventsAtHome /\ RequestTyped /\ HoldsEvents /\ QuietHolds /\ HalfCompared /\ ComparisonAgrees
  BY DEF ShownInv, RequestInv
<1>1. HoldsEvents'
  BY <1>0 DEF HoldsEvents, IsReal, HasBaseline
<1>2. QuietHolds'
  BY DEF QuietHolds
<1>3. HalfCompared'
  BY <1>0 DEF HalfCompared
<1>4. ComparisonAgrees'
  BY <1>0 DEF ComparisonAgrees
<1> QED BY <1>1, <1>2, <1>3, <1>4 DEF RequestInv

-----------------------------------------------------------------------------
(* The steps of a request.                                                 *)
LEMMA FreshRequest ==
  ASSUME request'.found = {}, request'.pattern = {}, request'.repeated = {}, request'.trend = {}, request'.deleted = {},
         request'.doing \notin {"patterns", "digest shown"}
  PROVE  HoldsEvents' /\ QuietHolds'
BY DEF HoldsEvents, QuietHolds

(* Answers of the unchanged feed keep a quiet request what it is.          *)
LEMMA QuietStep ==
  ASSUME UNCHANGED <<feed, added, watched>>, request'.now = request.now,
         request'.quiet =>
           /\ request'.deleted = {}
           /\ request'.doing \in {"patterns", "digest shown"} =>
                request'.found = {e \in CurrentWindow(request.now) : e.of \in request'.listed}
           /\ \A p \in request'.pattern :
                /\ p.current = Cardinality(EventsOf(p.of) \cap CurrentWindow(request.now))
                /\ EventsOf(p.of) # {} => p.direction = ActivityPattern(p.of, request.now).direction
           /\ \A t \in request'.trend : t.sustained =>
                /\ EventsOf(t.of) # {} /\ t.direction # "AT_BASELINE"
                /\ t.direction = ActivityPattern(t.of, request.now).direction
  PROVE  QuietHolds'
<1> SUFFICES ASSUME request'.quiet PROVE QuietHolds'
  BY DEF QuietHolds
<1>1. /\ request'.deleted = {}
      /\ request'.doing \in {"patterns", "digest shown"} =>
           request'.found = {e \in CurrentWindow(request.now)' : e.of \in request'.listed}
  BY DEF CurrentWindow, Between
<1>2. ASSUME NEW c, NEW now
      PROVE  EventsOf(c)' = EventsOf(c) /\ CurrentWindow(now)' = CurrentWindow(now)
             /\ ActivityPattern(c, now)' = ActivityPattern(c, now)
  BY DEF EventsOf, CurrentWindow, Between, ActivityPattern, UrlsOf, QualifyingWindows
<1>3. ASSUME NEW p \in request'.pattern, NEW now \in {request'.now}
      PROVE  /\ p.current = Cardinality(EventsOf(p.of) \cap CurrentWindow(now))'
             /\ EventsOf(p.of)' # {} => p.direction = ActivityPattern(p.of, now)'.direction
  <2>1. EventsOf(p.of)' = EventsOf(p.of) /\ ActivityPattern(p.of, now)' = ActivityPattern(p.of, now)
    BY <1>2
  <2>2. Cardinality(EventsOf(p.of) \cap CurrentWindow(now))' = Cardinality(EventsOf(p.of) \cap CurrentWindow(now))
    BY DEF EventsOf, CurrentWindow, Between
  <2> QED BY <2>1, <2>2
<1>4. ASSUME NEW t \in request'.trend, NEW now \in {request'.now}, t.sustained
      PROVE  /\ EventsOf(t.of)' # {} /\ t.direction # "AT_BASELINE"
             /\ t.direction = ActivityPattern(t.of, now)'.direction
  <2>1. EventsOf(t.of)' = EventsOf(t.of) /\ ActivityPattern(t.of, now)' = ActivityPattern(t.of, now)
    BY <1>2
  <2> QED BY <1>4, <2>1
<1> QED BY <1>1, <1>3, <1>4 DEF QuietHolds

LEMMA OpenDigestStep ==
  ASSUME ShownInv, OpenDigest \/ Leave
  PROVE  RequestInv'
<1>1. /\ request'.doing \in {"nothing", "digest"} /\ request'.found = {} /\ request'.pattern = {} /\ request'.repeated = {}
      /\ request'.trend = {} /\ request'.deleted = {} /\ DOMAIN request' = RequestColumns
      /\ request'.now \in {0, tick} /\ request'.listed \subseteq Competitors
  <2>1. CASE OpenDigest
    BY <2>1 DEF OpenDigest, NewRequest, RequestColumns
  <2>2. CASE Leave
    BY <2>2 DEF Leave, NoRequest, NewRequest, RequestColumns
  <2> QED BY <2>1, <2>2
<1>2. RequestTyped'
  BY <1>1, IntelligenceConstants, FS_EmptySet DEF RequestTyped, ShownInv, EventsAtHome, IntelligenceTypeOK
<1>3. HoldsEvents' /\ QuietHolds'
  BY <1>1, FreshRequest
<1>4. HalfCompared' /\ ComparisonAgrees'
  BY <1>1 DEF HalfCompared, ComparisonAgrees
<1> QED BY <1>2, <1>3, <1>4 DEF RequestInv

LEMMA FetchEventsStep ==
  ASSUME ShownInv, FetchEvents
  PROVE  RequestInv'
<1>0. /\ EventsAtHome /\ RequestTyped /\ HoldsEvents /\ QuietHolds
  BY DEF ShownInv, RequestInv
<1>1. /\ request'.doing = "patterns" /\ request'.now = request.now /\ request'.listed = request.listed
      /\ request'.found = {e \in CurrentWindow(request.now) : e.of \in request.listed}
      /\ request'.pattern = request.pattern /\ request'.repeated = request.repeated /\ request'.trend = request.trend
      /\ request'.quiet = request.quiet /\ request'.deleted = request.deleted /\ DOMAIN request' = RequestColumns
      /\ UNCHANGED <<added, watched, feed>>
  BY <1>0 DEF FetchEvents, Doing, RequestTyped, RequestColumns
<1>2. RequestTyped'
  <2>1. request'.found \subseteq feed /\ IsFiniteSet(feed)
    BY <1>0, <1>1 DEF CurrentWindow, Between, EventsAtHome
  <2>2. IsFiniteSet(request'.found)
    BY <2>1, FS_Subset
  <2> QED BY <1>0, <1>1, <2>2 DEF RequestTyped
<1>3. HoldsEvents'
  <2>1. \A e \in request'.found : IsReal(e)' /\ e.of \in request'.listed
    <3>1. ASSUME NEW e \in request'.found PROVE e \in feed /\ e.at \in (request.now - Period)..(request.now - 1) /\ e.of \in request.listed
      BY <1>0, <1>1, WindowFacts DEF RequestTyped
    <3> QED BY <3>1, <1>1 DEF IsReal
  <2> QED BY <1>0, <1>1, <2>1 DEF HoldsEvents, IsReal, HasBaseline
<1>4. QuietHolds'
  BY <1>0, <1>1, QuietStep DEF QuietHolds
<1>5. HalfCompared' /\ ComparisonAgrees'
  BY <1>1 DEF HalfCompared, ComparisonAgrees
<1> QED BY <1>2, <1>3, <1>4, <1>5 DEF RequestInv

(* What a query of the digest adds to its answers.                         *)
StillQuerying ==
  /\ request.doing = "patterns" /\ request'.doing \in {"patterns", "digest shown"}
  /\ request'.doing = "digest shown" => \A c \in request.listed : \E x \in request.pattern : x.of = c

LEMMA QueryStep ==
  ASSUME ShownInv, UNCHANGED <<feed, added, watched>>, StillQuerying, NEW p, NEW g, NEW t, request'.now = request.now, request'.listed = request.listed,
         request'.found = request.found, request'.quiet = request.quiet, request'.deleted = request.deleted,
         DOMAIN request' = RequestColumns,
         request'.pattern = request.pattern \cup p, request'.repeated = request.repeated \cup g,
         request'.trend = request.trend \cup t,
         \A x \in p : \E c \in request.listed : x = ActivityPattern(c, request.now),
         \A x \in g : \E c \in request.listed : x \in RepeatedPriceChanges(c, request.now),
         \A x \in t : \E c \in request.listed : x = SustainedActivityTrend(c, request.now)
  PROVE  RequestInv'
<1>0. /\ EventsAtHome /\ RequestTyped /\ HoldsEvents /\ QuietHolds
  BY DEF ShownInv, RequestInv
<1>1. request.now \in Int /\ \A c \in request.listed : c \in Competitors
  BY <1>0, IntelligenceConstants DEF RequestTyped
<1>2. RequestTyped'
  BY <1>0 DEF RequestTyped
<1>3. \A x \in p : /\ x.of \in request.listed /\ x.current = Cardinality(EventsOf(x.of) \cap CurrentWindow(request.now))
                   /\ x.qualifies => HasBaseline(x.of)
                   /\ x.direction = ActivityPattern(x.of, request.now).direction
  <2> TAKE x \in p
  <2>1. PICK c \in request.listed : x = ActivityPattern(c, request.now)
    OBVIOUS
  <2>2. /\ x.of = c /\ x.current = Cardinality(EventsOf(c) \cap CurrentWindow(request.now))
        /\ x.qualifies => added[c] <= request.now - 3 * Period
    BY <1>0, <1>1, <2>1, PatternAnswers
  <2> QED BY <2>1, <2>2 DEF HasBaseline, MIN_QUALIFYING_BASELINE_WINDOWS
<1>4. \A x \in t : /\ x.of \in request.listed
                   /\ x.sustained => /\ HasBaseline(x.of) /\ EventsOf(x.of) # {} /\ x.direction # "AT_BASELINE"
                                     /\ x.direction = ActivityPattern(x.of, request.now).direction
  <2> TAKE x \in t
  <2>1. PICK c \in request.listed : x = SustainedActivityTrend(c, request.now)
    OBVIOUS
  <2>2. /\ x.of = c /\ x.direction = ActivityPattern(c, request.now).direction
        /\ x.sustained => added[c] <= request.now - 3 * Period /\ EventsOf(c) # {} /\ x.direction # "AT_BASELINE"
    BY <1>0, <1>1, <2>1, TrendAnswers
  <2> QED BY <2>1, <2>2 DEF HasBaseline, MIN_QUALIFYING_BASELINE_WINDOWS
<1>5. \A x \in g : /\ x.of \in request.listed /\ Cardinality(x.events) >= MIN_REPEATED_PRICE_CHANGES
                   /\ \A e \in x.events : IsReal(e) /\ e.of = x.of
                   /\ \E u, k : \A e \in x.events : e.url = u /\ e.key = k
  <2> TAKE x \in g
  <2>1. PICK c \in request.listed : x \in RepeatedPriceChanges(c, request.now)
    OBVIOUS
  <2>2. x.of = c /\ Cardinality(x.events) >= 2
    BY <2>1, RepeatedAnswers
  <2>3. PICK u, k : x.events = PriceSeries(c, u, k) \cap CurrentWindow(request.now)
    BY <2>1, RepeatedAnswers
  <2>4. ASSUME NEW e \in x.events PROVE IsReal(e) /\ e.of = c /\ e.url = u /\ e.key = k
    <3>1. e \in CurrentWindow(request.now) /\ e.of = c /\ e.url = u /\ e.key = k
      BY <2>3 DEF PriceSeries, EventsOf
    <3>2. e \in feed /\ e.at \in (request.now - Period)..(request.now - 1)
      BY <3>1, <1>0, <1>1, WindowFacts
    <3> QED BY <3>1, <3>2 DEF IsReal
  <2> QED BY <2>2, <2>4 DEF MIN_REPEATED_PRICE_CHANGES
<1>6. HoldsEvents'
  <2>1. \A e \in request'.found : IsReal(e)' /\ e.of \in request'.listed
    BY <1>0 DEF HoldsEvents, IsReal
  <2>2. \A x \in request'.repeated :
          /\ x.of \in request'.listed /\ Cardinality(x.events) >= MIN_REPEATED_PRICE_CHANGES
          /\ \A e \in x.events : IsReal(e)' /\ e.of = x.of
          /\ \E u, k : \A e \in x.events : e.url = u /\ e.key = k
    <3>1. \A x \in request.repeated \cup g :
            /\ x.of \in request.listed /\ Cardinality(x.events) >= MIN_REPEATED_PRICE_CHANGES
            /\ \A e \in x.events : IsReal(e) /\ e.of = x.of
            /\ \E u, k : \A e \in x.events : e.url = u /\ e.key = k
      BY <1>0, <1>5 DEF HoldsEvents
    <3>2. ASSUME NEW e, IsReal(e) PROVE IsReal(e)'
      BY <3>2 DEF IsReal
    <3> QED BY <3>1, <3>2
  <2>3. ASSUME NEW c, HasBaseline(c) PROVE HasBaseline(c)'
    BY <2>3 DEF HasBaseline
  <2>4. \A x \in request'.pattern : x.of \in request'.listed /\ (x.qualifies => HasBaseline(x.of)')
    BY <1>0, <1>3, <2>3 DEF HoldsEvents
  <2>5. \A x \in request'.trend : x.of \in request'.listed /\ (x.sustained => HasBaseline(x.of)')
    BY <1>0, <1>4, <2>3 DEF HoldsEvents
  <2>6. request'.doing = "digest shown" => \A c \in request'.listed : \E x \in request'.pattern : x.of = c
    BY DEF StillQuerying
  <2> QED BY <2>1, <2>2, <2>4, <2>5, <2>6 DEF HoldsEvents
<1>7. QuietHolds'
  <2>1. ASSUME request.quiet
        PROVE  /\ request.deleted = {}
               /\ request.found = {e \in CurrentWindow(request.now) : e.of \in request.listed}
    BY <1>0, <2>1 DEF QuietHolds, StillQuerying
  <2>2. ASSUME request.quiet, NEW x \in request'.pattern
        PROVE  /\ x.current = Cardinality(EventsOf(x.of) \cap CurrentWindow(request.now))
               /\ EventsOf(x.of) # {} => x.direction = ActivityPattern(x.of, request.now).direction
    BY <1>0, <1>3, <2>2 DEF QuietHolds
  <2>3. ASSUME request.quiet, NEW x \in request'.trend, x.sustained
        PROVE  /\ EventsOf(x.of) # {} /\ x.direction # "AT_BASELINE"
               /\ x.direction = ActivityPattern(x.of, request.now).direction
    BY <1>0, <1>4, <2>3 DEF QuietHolds
  <2> QED BY <2>1, <2>2, <2>3, QuietStep
<1>8. HalfCompared' /\ ComparisonAgrees'
  BY DEF HalfCompared, ComparisonAgrees, StillQuerying
<1> QED BY <1>2, <1>6, <1>7, <1>8 DEF RequestInv

LEMMA DigestStep ==
  ASSUME ShownInv, \/ \E c \in Competitors : AskPattern(c) \/ AskRepeated(c) \/ AskTrend(c)
                   \/ ShowDigest
  PROVE  RequestInv'
<1>0. DOMAIN request = RequestColumns
  BY DEF ShownInv, RequestInv, RequestTyped
<1>1. ASSUME NEW c \in Competitors, AskPattern(c) PROVE RequestInv'
  <2> DEFINE p == {ActivityPattern(c, request.now)}  g == {}  t == {}
  <2>1. c \in request.listed /\ UNCHANGED <<feed, added, watched>>
    BY <1>1 DEF AskPattern
  <2>2. StillQuerying
    BY <1>0, <1>1 DEF AskPattern, StillQuerying, RequestColumns
  <2>3. /\ request'.now = request.now /\ request'.listed = request.listed /\ request'.found = request.found
        /\ request'.quiet = request.quiet /\ request'.deleted = request.deleted /\ DOMAIN request' = RequestColumns
        /\ request'.pattern = request.pattern \cup p /\ request'.repeated = request.repeated \cup g /\ request'.trend = request.trend \cup t
    BY <1>0, <1>1 DEF AskPattern, RequestColumns
  <2>4. /\ \A x \in p : \E d \in request.listed : x = ActivityPattern(d, request.now)
        /\ \A x \in g : \E d \in request.listed : x \in RepeatedPriceChanges(d, request.now)
        /\ \A x \in t : \E d \in request.listed : x = SustainedActivityTrend(d, request.now)
    BY <2>1
  <2> HIDE DEF p, g, t
  <2> QED BY <2>1, <2>2, <2>3, <2>4, QueryStep
<1>2. ASSUME NEW c \in Competitors, AskRepeated(c) PROVE RequestInv'
  <2> DEFINE p == {}  g == RepeatedPriceChanges(c, request.now)  t == {}
  <2>1. c \in request.listed /\ UNCHANGED <<feed, added, watched>>
    BY <1>2 DEF AskRepeated
  <2>2. StillQuerying
    BY <1>0, <1>2 DEF AskRepeated, StillQuerying, RequestColumns
  <2>3. /\ request'.now = request.now /\ request'.listed = request.listed /\ request'.found = request.found
        /\ request'.quiet = request.quiet /\ request'.deleted = request.deleted /\ DOMAIN request' = RequestColumns
        /\ request'.pattern = request.pattern \cup p /\ request'.repeated = request.repeated \cup g /\ request'.trend = request.trend \cup t
    BY <1>0, <1>2 DEF AskRepeated, RequestColumns
  <2>4. /\ \A x \in p : \E d \in request.listed : x = ActivityPattern(d, request.now)
        /\ \A x \in g : \E d \in request.listed : x \in RepeatedPriceChanges(d, request.now)
        /\ \A x \in t : \E d \in request.listed : x = SustainedActivityTrend(d, request.now)
    BY <2>1
  <2> HIDE DEF p, g, t
  <2> QED BY <2>1, <2>2, <2>3, <2>4, QueryStep
<1>3. ASSUME NEW c \in Competitors, AskTrend(c) PROVE RequestInv'
  <2> DEFINE p == {}  g == {}  t == {SustainedActivityTrend(c, request.now)}
  <2>1. c \in request.listed /\ UNCHANGED <<feed, added, watched>>
    BY <1>3 DEF AskTrend
  <2>2. StillQuerying
    BY <1>0, <1>3 DEF AskTrend, StillQuerying, RequestColumns
  <2>3. /\ request'.now = request.now /\ request'.listed = request.listed /\ request'.found = request.found
        /\ request'.quiet = request.quiet /\ request'.deleted = request.deleted /\ DOMAIN request' = RequestColumns
        /\ request'.pattern = request.pattern \cup p /\ request'.repeated = request.repeated \cup g /\ request'.trend = request.trend \cup t
    BY <1>0, <1>3 DEF AskTrend, RequestColumns
  <2>4. /\ \A x \in p : \E d \in request.listed : x = ActivityPattern(d, request.now)
        /\ \A x \in g : \E d \in request.listed : x \in RepeatedPriceChanges(d, request.now)
        /\ \A x \in t : \E d \in request.listed : x = SustainedActivityTrend(d, request.now)
    BY <2>1
  <2> HIDE DEF p, g, t
  <2> QED BY <2>1, <2>2, <2>3, <2>4, QueryStep
<1>4. CASE ShowDigest
  <2> DEFINE p == {}  g == {}  t == {}
  <2>1. UNCHANGED <<feed, added, watched>>
    BY <1>4 DEF ShowDigest
  <2>2. StillQuerying
    BY <1>0, <1>4 DEF ShowDigest, Doing, StillQuerying, RequestColumns
  <2>3. /\ request'.now = request.now /\ request'.listed = request.listed /\ request'.found = request.found
        /\ request'.quiet = request.quiet /\ request'.deleted = request.deleted /\ DOMAIN request' = RequestColumns
        /\ request'.pattern = request.pattern \cup p /\ request'.repeated = request.repeated \cup g /\ request'.trend = request.trend \cup t
    BY <1>0, <1>4 DEF ShowDigest, Doing, RequestColumns
  <2>4. /\ \A x \in p : \E d \in request.listed : x = ActivityPattern(d, request.now)
        /\ \A x \in g : \E d \in request.listed : x \in RepeatedPriceChanges(d, request.now)
        /\ \A x \in t : \E d \in request.listed : x = SustainedActivityTrend(d, request.now)
    BY <2>1
  <2> HIDE DEF p, g, t
  <2> QED BY <2>1, <2>2, <2>3, <2>4, QueryStep
<1> QED BY <1>1, <1>2, <1>3, <1>4

LEMMA CompareStep ==
  ASSUME ShownInv, Compare
  PROVE  RequestInv'
<1> DEFINE new == {[counts |-> ActivityMetrics(c, tick), latest |-> LatestOf(c)] : c \in {d \in Competitors : tick >= added[d]}}
<1>1. /\ request'.found = {} /\ request'.pattern = {} /\ request'.repeated = {}
      /\ request'.trend = {} /\ request'.deleted = {} /\ DOMAIN request' = RequestColumns
      /\ request'.listed = {} /\ request'.rows = new
  BY DEF Compare, NewRequest, RequestColumns
<1>2. request'.doing = "comparison"
  BY DEF Compare, NewRequest
<1>3. request'.now = tick /\ UNCHANGED <<feed, added, tick>>
  BY DEF Compare, NewRequest
<1>4. RequestTyped'
  BY <1>1, <1>3, FS_EmptySet DEF RequestTyped, ShownInv, EventsAtHome, IntelligenceTypeOK
<1>5. HoldsEvents' /\ QuietHolds'
  BY <1>1, <1>2, FreshRequest
<1>6. ASSUME NEW row \in new
      PROVE  /\ \A e \in row.latest : e \in feed /\ e.of = row.counts.of
             /\ row.counts.total = Cardinality(EventsOf(row.counts.of) \cap CurrentWindow(tick))
             /\ row.counts.current["PRICE_CHANGE"] =
                  Cardinality({e \in EventsOf(row.counts.of) \cap CurrentWindow(tick) : e.type = "PRICE_CHANGE"})
  <2>1. PICK c \in Competitors : row = [counts |-> ActivityMetrics(c, tick), latest |-> LatestOf(c)]
    OBVIOUS
  <2>2. row.counts = ActivityMetrics(c, tick) /\ row.latest = LatestOf(c)
    BY <2>1
  <2>3. /\ row.counts.of = c /\ row.counts.total = Cardinality(EventsOf(c) \cap CurrentWindow(tick))
        /\ row.counts.current["PRICE_CHANGE"] = Cardinality({e \in EventsOf(c) \cap CurrentWindow(tick) : e.type = "PRICE_CHANGE"})
    BY <2>2 DEF ActivityMetrics, ChangeKinds
  <2>4. \A e \in row.latest : e \in feed /\ e.of = c
    BY <2>2 DEF LatestOf, EventsOf
  <2> QED BY <2>3, <2>4
<1>7. HalfCompared'
  <2> HIDE DEF new
  <2>1. ASSUME NEW row \in new
        PROVE  /\ \A e \in row.latest : e \in feed' /\ e.of = row.counts.of
               /\ row.counts.total = Cardinality(EventsOf(row.counts.of)' \cap CurrentWindow(request.now)')
               /\ row.counts.current["PRICE_CHANGE"] =
                    Cardinality({e \in EventsOf(row.counts.of)' \cap CurrentWindow(request.now)' : e.type = "PRICE_CHANGE"})
    BY <1>3, <1>6, <2>1 DEF EventsOf, CurrentWindow, Between
  <2> QED BY <1>1, <2>1 DEF HalfCompared
<1>8. ComparisonAgrees'
  BY <1>2 DEF ComparisonAgrees
<1> QED BY <1>4, <1>5, <1>7, <1>8 DEF RequestInv

LEMMA RepeatedIsCounted ==
  ASSUME EventsAtHome, NEW c, NEW now, Cardinality(RepeatedPriceChanges(c, now)) > 0
  PROVE  Cardinality({e \in EventsOf(c) \cap CurrentWindow(now) : e.type = "PRICE_CHANGE"}) >= 2
<1> DEFINE all == {e \in EventsOf(c) \cap CurrentWindow(now) : e.type = "PRICE_CHANGE"}
<1>1. RepeatedPriceChanges(c, now) # {}
  <2>1. RepeatedPriceChanges(c, now) = {} => Cardinality(RepeatedPriceChanges(c, now)) = 0
    BY FS_EmptySet
  <2> QED BY <2>1
<1>2. PICK g \in RepeatedPriceChanges(c, now) : TRUE
  BY <1>1
<1>3. Cardinality(g.events) >= 2 /\ \E u, k : g.events = PriceSeries(c, u, k) \cap CurrentWindow(now)
  BY <1>2, RepeatedAnswers
<1>4. g.events \subseteq all
  BY <1>3 DEF PriceSeries
<1>5. IsFiniteSet(all)
  <2>1. all \subseteq feed /\ IsFiniteSet(feed)
    BY DEF EventsOf, EventsAtHome
  <2> QED BY <2>1, FS_Subset
<1> HIDE DEF all
<1>6. Cardinality(g.events) <= Cardinality(all) /\ Cardinality(all) \in Nat /\ Cardinality(g.events) \in Nat
  BY <1>4, <1>5, FS_Subset, FS_CardinalityType
<1>7. Cardinality(all) >= 2
  BY <1>3, <1>6
<1> QED BY <1>7 DEF all

LEMMA ShowComparisonStep ==
  ASSUME ShownInv, ShowComparison
  PROVE  RequestInv'
<1> DEFINE RowShown(row) == [counts |-> row.counts, latest |-> row.latest, linked |-> LatestOf(row.counts.of),
                             pattern |-> ActivityPattern(row.counts.of, tick),
                             repeated |-> Cardinality(RepeatedPriceChanges(row.counts.of, tick))]
<1>0. /\ EventsAtHome /\ RequestTyped /\ HoldsEvents /\ QuietHolds /\ HalfCompared /\ DOMAIN request = RequestColumns
  BY DEF ShownInv, RequestInv, RequestTyped
<1>1. /\ request'.now = request.now /\ request'.listed = request.listed /\ request'.found = request.found
      /\ request'.pattern = request.pattern /\ request'.repeated = request.repeated
      /\ request'.trend = request.trend /\ request'.deleted = request.deleted /\ DOMAIN request' = RequestColumns
      /\ request'.rows = {RowShown(row) : row \in request.rows} /\ UNCHANGED <<feed, added, watched>>
  BY <1>0 DEF ShowComparison, Doing, RequestColumns
<1>2. request.doing = "comparison" /\ request'.doing = "comparison shown"
  BY <1>0 DEF ShowComparison, Doing, RequestColumns
<1>3. request'.quiet => request.quiet /\ tick = request.now
  BY <1>0 DEF ShowComparison, Doing, RequestColumns
<1>4. RequestTyped'
  BY <1>0, <1>1 DEF RequestTyped
<1>5. HoldsEvents'
  BY <1>0, <1>1, <1>2 DEF HoldsEvents, IsReal, HasBaseline
<1>6. QuietHolds'
  <2>1. request'.doing \notin {"patterns", "digest shown"}
    BY <1>2
  <2>2. ASSUME request'.quiet
        PROVE  /\ request'.deleted = {}
               /\ \A p \in request'.pattern :
                    /\ p.current = Cardinality(EventsOf(p.of) \cap CurrentWindow(request.now))
                    /\ EventsOf(p.of) # {} => p.direction = ActivityPattern(p.of, request.now).direction
               /\ \A t \in request'.trend : t.sustained =>
                    /\ EventsOf(t.of) # {} /\ t.direction # "AT_BASELINE"
                    /\ t.direction = ActivityPattern(t.of, request.now).direction
    BY <1>0, <1>1, <1>3, <2>2 DEF QuietHolds
  <2> QED BY <1>1, <2>1, <2>2, QuietStep
<1>7. HalfCompared'
  BY <1>2 DEF HalfCompared
<1>8. ComparisonAgrees'
  <2>1. ASSUME NEW row \in request.rows, NEW e \in row.latest
        PROVE  e \in request.deleted \/ \E f \in RowShown(row).linked : f.id >= e.id
    <3> DEFINE c == row.counts.of
    <3>1. e \in feed \cup request.deleted /\ e.of = c
      BY <1>0, <1>2, <2>1 DEF HalfCompared
    <3>2. RowShown(row).linked = LatestOf(c)
      OBVIOUS
    <3>3. CASE e \in feed
      BY <3>1, <3>2, <3>3, <1>0, LatestIsThere DEF EventsOf
    <3> QED BY <3>1, <3>3
  <2>2. ASSUME NEW row \in request.rows, request'.quiet
        PROVE  /\ row.counts.total = RowShown(row).pattern.current
               /\ RowShown(row).repeated > 0 => row.counts.current["PRICE_CHANGE"] >= 2
    <3> DEFINE c == row.counts.of
    <3>1. PICK now : now = tick /\ now = request.now
      BY <1>3, <2>2
    <3>2. /\ row.counts.total = Cardinality(EventsOf(c) \cap CurrentWindow(now))
          /\ row.counts.current["PRICE_CHANGE"] = Cardinality({e \in EventsOf(c) \cap CurrentWindow(now) : e.type = "PRICE_CHANGE"})
      BY <1>0, <1>2, <1>3, <2>2, <3>1 DEF HalfCompared, CurrentWindow
    <3>3. ActivityPattern(c, now).current = Cardinality(EventsOf(c) \cap CurrentWindow(now))
      BY DEF ActivityPattern
    <3>4. Cardinality(RepeatedPriceChanges(c, now)) > 0 =>
            Cardinality({e \in EventsOf(c) \cap CurrentWindow(now) : e.type = "PRICE_CHANGE"}) >= 2
      BY <1>0, RepeatedIsCounted
    <3>5. RowShown(row).pattern = ActivityPattern(c, now) /\ RowShown(row).repeated = Cardinality(RepeatedPriceChanges(c, now))
      BY <3>1
    <3> QED BY <3>2, <3>3, <3>4, <3>5
  <2>3. \A row \in request.rows : RowShown(row).counts = row.counts /\ RowShown(row).latest = row.latest
    OBVIOUS
  <2> HIDE DEF RowShown
  <2>4. ASSUME NEW row \in request'.rows
        PROVE  /\ \A e \in row.latest : e \in request'.deleted \/ \E f \in row.linked : f.id >= e.id
               /\ request'.quiet => /\ row.counts.total = row.pattern.current
                                    /\ (row.repeated > 0 => row.counts.current["PRICE_CHANGE"] >= 2)
    <3>1. PICK was \in request.rows : row = RowShown(was)
      BY <1>1
    <3>2. row.counts = was.counts /\ row.latest = was.latest
      BY <2>3, <3>1
    <3>3. \A e \in row.latest : e \in request'.deleted \/ \E f \in row.linked : f.id >= e.id
      BY <2>1, <3>1, <3>2, <1>1
    <3>4. ASSUME request'.quiet PROVE row.counts.total = row.pattern.current /\ (row.repeated > 0 => row.counts.current["PRICE_CHANGE"] >= 2)
      BY <2>2, <3>1, <3>2, <3>4
    <3> QED BY <3>3, <3>4
  <2> QED BY <2>4 DEF ComparisonAgrees
<1> QED BY <1>4, <1>5, <1>6, <1>7, <1>8 DEF RequestInv

LEMMA ShownStep == ShownInv /\ [IntelligenceNext]_iVars => ShownInv'
<1> SUFFICES ASSUME ShownInv, [IntelligenceNext]_iVars PROVE ShownInv'
  OBVIOUS
<1>0. EventsAtHome /\ RequestTyped /\ DOMAIN request = RequestColumns
  BY DEF ShownInv, RequestInv, RequestTyped
<1>1. EventsAtHome'
  <2>1. CASE IntelligenceNext
    BY <1>0, <2>1, HomeStep
  <2>2. CASE UNCHANGED iVars
    BY <1>0, <2>2 DEF iVars, EventsAtHome, IntelligenceTypeOK
  <2> QED BY <2>1, <2>2
<1>2. ASSUME NEW c \in Competitors, NEW u \in Urls, AddUrl(c, u) PROVE RequestInv'
  BY <1>2, StillStep DEF AddUrl
<1>3. ASSUME NEW c \in Competitors, NEW u \in Urls, DeleteUrl(c, u) PROVE RequestInv'
  <2> DEFINE gone == {e \in feed : e.of = c /\ e.url = u}
  <2>1. feed' = feed \ gone /\ request' = [Overtaken EXCEPT !.deleted = @ \cup gone] /\ UNCHANGED added
    BY <1>3 DEF DeleteUrl
  <2>2. /\ ~request'.quiet /\ request'.deleted = request.deleted \cup gone /\ DOMAIN request' = RequestColumns
        /\ request'.doing = request.doing /\ request'.now = request.now /\ request'.listed = request.listed
        /\ request'.found = request.found /\ request'.pattern = request.pattern /\ request'.repeated = request.repeated
        /\ request'.trend = request.trend /\ request'.rows = request.rows
    BY <1>0, <2>1 DEF Overtaken, RequestColumns
  <2>3. RequestTyped'
    <3>1. gone \subseteq ChangeEvent
      BY <1>0 DEF EventsAtHome, IntelligenceTypeOK
    <3> QED BY <1>0, <2>2, <3>1 DEF RequestTyped
  <2> HIDE DEF gone
  <2> QED BY <2>1, <2>2, <2>3, FeedStep
<1>4. ASSUME NEW e \in writing, CommitScan(e) PROVE RequestInv'
  <2>1. feed' = feed \cup {e} /\ request' = Overtaken /\ UNCHANGED added
    BY <1>4 DEF CommitScan
  <2>2. /\ ~request'.quiet /\ request'.deleted = request.deleted /\ DOMAIN request' = RequestColumns
        /\ request'.doing = request.doing /\ request'.now = request.now /\ request'.listed = request.listed
        /\ request'.found = request.found /\ request'.pattern = request.pattern /\ request'.repeated = request.repeated
        /\ request'.trend = request.trend /\ request'.rows = request.rows
    BY <1>0, <2>1 DEF Overtaken, RequestColumns
  <2>3. RequestTyped'
    BY <1>0, <2>2 DEF RequestTyped
  <2> QED BY <2>1, <2>2, <2>3, FeedStep
<1>5. ASSUME UNCHANGED <<feed, added, watched, request>> PROVE RequestInv'
  BY <1>5, StillStep
<1>6. ASSUME \/ UNCHANGED iVars \/ Tick \/ \E c \in Competitors : SetTracked(c)
             \/ \E c \in Competitors, u \in Urls, type \in ChangeKinds, key \in Products \cup {NoProduct} : Detect(c, u, type, key)
      PROVE  RequestInv'
  BY <1>5, <1>6 DEF iVars, Tick, SetTracked, Detect
<1>7. ASSUME \/ \E c \in Competitors : AskPattern(c) \/ AskRepeated(c) \/ AskTrend(c)
             \/ ShowDigest
      PROVE  RequestInv'
  BY <1>7, DigestStep
<1>8. ASSUME OpenDigest \/ FetchEvents \/ Compare \/ ShowComparison \/ Leave PROVE RequestInv'
  BY <1>8, OpenDigestStep, FetchEventsStep, CompareStep, ShowComparisonStep
<1> QED BY <1>1, <1>2, <1>3, <1>4, <1>6, <1>7, <1>8 DEF ShownInv, IntelligenceNext

-----------------------------------------------------------------------------
(* What the invariant says of the pages.                                   *)
LEMMA ItemsAreCited == ShownInv => EveryItemIsCited
<1> SUFFICES ASSUME ShownInv, NEW entry \in DigestItems(request)
             PROVE  /\ entry.cites # {} /\ entry.cites \subseteq feed \cup request.deleted
                    /\ \A e \in entry.cites : e.of = entry.of /\ e.at \in (request.now - Period)..(request.now - 1)
                    /\ entry.kind = "REPEATED_PRICE_CHANGE" => Cardinality({<<e.url, e.key>> : e \in entry.cites}) = 1
                    /\ entry.kind \in {"REPEATED_PRICE_CHANGE", "LIFECYCLE"} => Cardinality(entry.cites) >= 2
                    /\ entry.kind \in {"ACTIVITY_PATTERN", "SUSTAINED_ACTIVITY_TREND"} =>
                         added[entry.of] <= request.now - (MIN_QUALIFYING_BASELINE_WINDOWS + 1) * Period
  BY DEF EveryItemIsCited
<1>0. HoldsEvents
  BY DEF ShownInv, RequestInv
<1>1. PICK c \in request.listed : entry \in ItemsAbout(request, c)
  BY DEF DigestItems
<1> DEFINE events == {e \in request.found : e.of = c}
<1>2. \A e \in events : IsReal(e) /\ e.of = c
  BY <1>0 DEF HoldsEvents
<1> DEFINE Holds(kind, cites) ==
      /\ cites # {} /\ \A e \in cites : IsReal(e) /\ e.of = c
      /\ kind = "REPEATED_PRICE_CHANGE" => Cardinality({<<e.url, e.key>> : e \in cites}) = 1
      /\ kind \in {"REPEATED_PRICE_CHANGE", "LIFECYCLE"} => Cardinality(cites) >= 2
      /\ kind \in {"ACTIVITY_PATTERN", "SUSTAINED_ACTIVITY_TREND"} => HasBaseline(c)
<1>3. \A e \in events : Holds("CHANGE_EVENT", {e})
  BY <1>2
<1>4. \A g \in request.repeated : g.of = c => Holds("REPEATED_PRICE_CHANGE", g.events)
  <2> SUFFICES ASSUME NEW g \in request.repeated, g.of = c PROVE Holds("REPEATED_PRICE_CHANGE", g.events)
    OBVIOUS
  <2>1. Cardinality(g.events) >= 2 /\ \A e \in g.events : IsReal(e) /\ e.of = c
    BY <1>0 DEF HoldsEvents, MIN_REPEATED_PRICE_CHANGES
  <2>2. PICK u, k : \A e \in g.events : e.url = u /\ e.key = k
    BY <1>0 DEF HoldsEvents
  <2>3. g.events # {}
    <3>1. g.events = {} => Cardinality(g.events) = 0
      BY FS_EmptySet
    <3> QED BY <2>1, <3>1
  <2>4. {<<e.url, e.key>> : e \in g.events} = {<<u, k>>}
    BY <2>2, <2>3
  <2>5. Cardinality({<<e.url, e.key>> : e \in g.events}) = 1
    BY <2>4, FS_Singleton
  <2> QED BY <2>1, <2>3, <2>5
<1>5. (events # {} /\ \E p \in request.pattern : p.of = c /\ p.qualifies) => Holds("ACTIVITY_PATTERN", events)
  BY <1>0, <1>2 DEF HoldsEvents
<1>6. (events # {} /\ \E t \in request.trend : t.of = c /\ t.sustained) => Holds("SUSTAINED_ACTIVITY_TREND", events)
  BY <1>0, <1>2 DEF HoldsEvents
<1>7. ASSUME NEW moved \in SUBSET events, Cardinality(moved) > 1 PROVE Holds("LIFECYCLE", moved)
  <2>1. moved # {}
    <3>1. moved = {} => Cardinality(moved) = 0
      BY FS_EmptySet
    <3> QED BY <1>7, <3>1
  <2>2. Cardinality(moved) >= 2
    <3>1. IsFiniteSet(moved)
      BY FS_Subset DEF ShownInv, RequestInv, RequestTyped
    <3> DEFINE n == Cardinality(moved)
    <3>2. n \in Nat /\ n > 1
      BY <1>7, <3>1, FS_CardinalityType
    <3> HIDE DEF n
    <3>3. n >= 2
      BY <3>2
    <3> QED BY <3>3 DEF n
  <2> QED BY <1>2, <2>1, <2>2
<1>8. \E kind, cites : entry = Item(kind, c, cites) /\ Holds(kind, cites)
  <2> HIDE DEF Holds
  <2> DEFINE moved == {e \in events : e.type \in {"PRODUCT_ADDED", "PRODUCT_REMOVED"}}
  <2>1. CASE entry \in {Item("CHANGE_EVENT", c, {e}) : e \in events}
    BY <2>1, <1>3
  <2>2. CASE entry \in {Item("REPEATED_PRICE_CHANGE", c, g.events) : g \in {h \in request.repeated : h.of = c}}
    BY <2>2, <1>4
  <2>3. CASE entry \in PatternItems(request, c, events)
    BY <2>3, <1>5, <1>6 DEF PatternItems
  <2>4. CASE entry \in LifecycleItems(c, events)
    <3>1. entry = Item("LIFECYCLE", c, moved) /\ Cardinality(moved) > 1
      BY <2>4 DEF LifecycleItems
    <3>2. moved \in SUBSET events
      OBVIOUS
    <3> HIDE DEF moved
    <3> QED BY <3>1, <3>2, <1>7
  <2> QED BY <1>1, <2>1, <2>2, <2>3, <2>4 DEF ItemsAbout
<1>9. PICK kind, cites : entry = Item(kind, c, cites) /\ Holds(kind, cites)
  BY <1>8
<1>10. entry.kind = kind /\ entry.of = c /\ entry.cites = cites
  BY <1>9 DEF Item
<1> QED BY <1>9, <1>10 DEF IsReal, HasBaseline

LEMMA QuietAgrees == ShownInv => QuietDigestAgrees
<1> SUFFICES ASSUME ShownInv, request.quiet
             PROVE  request.doing = "digest shown" =>
                      /\ \A p \in request.pattern : p.current = Cardinality({e \in request.found : e.of = p.of})
                      /\ \A t \in request.trend, p \in request.pattern :
                           (t.of = p.of /\ t.sustained) => t.direction = p.direction /\ t.direction # "AT_BASELINE"
                      /\ {c \in SustainedRivals(request) : \A t \in request.trend : t.of = c => t.direction = "ABOVE_BASELINE"}
                           \subseteq AboveBaseline(request)
                      /\ \A g \in request.repeated : g.events \subseteq request.found
  BY DEF QuietDigestAgrees
<1>0. HoldsEvents /\ QuietHolds /\ request.now \in {request.now} /\ request.now \in Int
  BY IntelligenceConstants DEF ShownInv, RequestInv, RequestTyped
<1>1. request.doing = "digest shown" =>
        /\ request.found = {e \in CurrentWindow(request.now) : e.of \in request.listed}
        /\ \A c \in request.listed : \E p \in request.pattern : p.of = c
  BY <1>0 DEF QuietHolds, HoldsEvents
<1> SUFFICES ASSUME request.found = {e \in CurrentWindow(request.now) : e.of \in request.listed},
                    \A c \in request.listed : \E p \in request.pattern : p.of = c
             PROVE  /\ \A p \in request.pattern : p.current = Cardinality({e \in request.found : e.of = p.of})
                    /\ \A t \in request.trend, p \in request.pattern :
                         (t.of = p.of /\ t.sustained) => t.direction = p.direction /\ t.direction # "AT_BASELINE"
                    /\ {c \in SustainedRivals(request) : \A t \in request.trend : t.of = c => t.direction = "ABOVE_BASELINE"}
                         \subseteq AboveBaseline(request)
                    /\ \A g \in request.repeated : g.events \subseteq request.found
  BY <1>1
<1>2. ASSUME NEW p \in request.pattern PROVE p.current = Cardinality({e \in request.found : e.of = p.of})
  <2>1. p.of \in request.listed /\ p.current = Cardinality(EventsOf(p.of) \cap CurrentWindow(request.now))
    BY <1>0 DEF HoldsEvents, QuietHolds
  <2>2. {e \in request.found : e.of = p.of} = EventsOf(p.of) \cap CurrentWindow(request.now)
    BY <2>1 DEF EventsOf, CurrentWindow, Between
  <2> QED BY <2>1, <2>2
<1>3. ASSUME NEW t \in request.trend, NEW p \in request.pattern, t.of = p.of, t.sustained
      PROVE  t.direction = p.direction /\ t.direction # "AT_BASELINE"
  <2>1. EventsOf(t.of) # {} /\ t.direction # "AT_BASELINE" /\ t.direction = ActivityPattern(t.of, request.now).direction
    BY <1>0, <1>3 DEF QuietHolds
  <2>2. EventsOf(p.of) # {} => p.direction = ActivityPattern(p.of, request.now).direction
    BY <1>0 DEF QuietHolds
  <2> QED BY <1>3, <2>1, <2>2
<1>4. ASSUME NEW c \in SustainedRivals(request), \A t \in request.trend : t.of = c => t.direction = "ABOVE_BASELINE"
      PROVE  c \in AboveBaseline(request)
  <2>1. PICK t \in request.trend : c \in request.listed /\ t.of = c /\ t.sustained
    BY DEF SustainedRivals
  <2>2. PICK p \in request.pattern : p.of = c
    BY <2>1
  <2>3. p.direction = "ABOVE_BASELINE"
    BY <1>3, <1>4, <2>1, <2>2
  <2> QED BY <2>1, <2>2, <2>3 DEF AboveBaseline
<1>5. ASSUME NEW g \in request.repeated, NEW e \in g.events PROVE e \in request.found
  <2>1. IsReal(e) /\ e.of = g.of /\ g.of \in request.listed /\ request.deleted = {}
    BY <1>0 DEF HoldsEvents, QuietHolds
  <2>2. e \in CurrentWindow(request.now)
    BY <1>0, <2>1, WindowHolds DEF IsReal
  <2> QED BY <2>1, <2>2
<1> QED BY <1>2, <1>3, <1>4, <1>5

LEMMA ShownInvGives == ShownInv => IntelligenceTypeOK /\ PagesAgreeWithTheirEvents
BY ItemsAreCited, QuietAgrees DEF ShownInv, EventsAtHome, RequestInv, PagesAgreeWithTheirEvents

(* Whatever scans commit, pages are deleted and the clock advances between *)
(* the queries of a request, what the digest and the comparison show is    *)
(* cited and agrees with the events it names.                              *)
THEOREM PagesShownCorrect == IntelligenceSpec => [](IntelligenceTypeOK /\ PagesAgreeWithTheirEvents)
BY ShownInitially, ShownStep, ShownInvGives, PTL DEF IntelligenceSpec

-----------------------------------------------------------------------------
(* The ranking of signals: types; no two signals have the same time; only  *)
(* a text change is moved forward past later signals, and a page has one   *)
(* of a day.                                                               *)
RankingTyped ==
  /\ ranked \in Seq(Scored) /\ time \in 0..MaxTime
  /\ versions \in [Sites -> SUBSET (0..MaxTime)]
InOrderOfTime ==
  /\ \A i \in DOMAIN ranked : ranked[i].at <= time
  /\ \A i, j \in DOMAIN ranked : i < j /\ ranked[i].kind # "text" => ranked[i].at < ranked[j].at
ApartInTime == \A i, j \in DOMAIN ranked : ranked[i].at = ranked[j].at => i = j
SameText(a, b) == a.kind = "text" /\ b.kind = "text" /\ a.site = b.site /\ DayOf(a.at) = DayOf(b.at)
OnePerDay == \A i, j \in DOMAIN ranked : SameText(ranked[i], ranked[j]) => i = j
RankingInv == RankingTyped /\ InOrderOfTime /\ ApartInTime /\ OnePerDay

LEMMA RankingInvInit == RankingInit => RankingInv
  BY RankingConstants DEF RankingInit, RankingInv, RankingTyped, InOrderOfTime, ApartInTime, OnePerDay

LEMMA ScoredFields ==
  ASSUME NEW s \in Scored
  PROVE  s.kind \in {"price", "promotion", "text"} /\ s.site \in Sites /\ s.size \in Nat /\ s.at \in 0..MaxTime /\ s.at \in Nat
<1>1. s.kind \in {"price", "promotion", "text"} /\ s.site \in Sites /\ s.size \in Percents \cup {0} /\ s.at \in 0..MaxTime
  BY DEF Scored
<1>2. Percents \cup {0} \subseteq Nat
  BY RankingConstants
<1>3. s.at \in Nat
  BY <1>1, RankingConstants
<1>4. QED
  BY <1>1, <1>2, <1>3

LEMMA RankingRows ==
  ASSUME RankingTyped
  PROVE  /\ Len(ranked) \in Nat /\ DOMAIN ranked = 1..Len(ranked)
         /\ \A i \in DOMAIN ranked : ranked[i] \in Scored /\ ranked[i].at \in 0..MaxTime /\ ranked[i].at \in Nat
<1>1. Len(ranked) \in Nat /\ DOMAIN ranked = 1..Len(ranked) /\ \A i \in DOMAIN ranked : ranked[i] \in Scored
  BY DEF RankingTyped
<1>2. QED
  BY <1>1, ScoredFields

(* A find adds a signal, or moves the text signal of its page and day.     *)
Added(kind, site, size, new) ==
  /\ new = [kind |-> kind, site |-> site, size |-> size, at |-> time + 1] /\ new \in Scored
  /\ \A i \in DOMAIN ranked : ~SameText(ranked[i], new)
  /\ Len(ranked') = Len(ranked) + 1 /\ DOMAIN ranked' = 1..(Len(ranked) + 1)
  /\ ranked'[Len(ranked) + 1] = new /\ \A i \in DOMAIN ranked : ranked'[i] = ranked[i]
Moved(k) ==
  /\ k \in DOMAIN ranked /\ Len(ranked') = Len(ranked) /\ DOMAIN ranked' = DOMAIN ranked
  /\ ranked'[k] = [ranked[k] EXCEPT !.at = time + 1] /\ ranked[k].kind = "text"
  /\ DayOf(ranked[k].at) = DayOf(time + 1)
  /\ \A i \in DOMAIN ranked \ {k} : ranked'[i] = ranked[i]

LEMMA FindsOrMoves ==
  ASSUME RankingInv, NEW kind \in {"price", "promotion", "text"}, NEW site \in Sites, NEW size \in Percents \cup {0},
         Finds(kind, site, size)
  PROVE  /\ time' = time + 1 /\ time' \in 0..MaxTime /\ ranked' \in Seq(Scored)
         /\ versions' \in [Sites -> SUBSET (0..MaxTime)]
         /\ \A x \in Sites : versions[x] \subseteq versions'[x]
         /\ (\E new : Added(kind, site, size, new)) \/ (\E k : Moved(k))
<1>0. /\ DOMAIN ranked = 1..Len(ranked) /\ Len(ranked) \in Nat /\ ranked \in Seq(Scored)
      /\ \A i \in DOMAIN ranked : ranked[i] \in Scored
      /\ time \in 0..MaxTime /\ MaxTime \in Nat /\ versions \in [Sites -> SUBSET (0..MaxTime)]
  BY RankingRows, RankingConstants DEF RankingInv, RankingTyped
<1>1. time' = time + 1 /\ time' \in 0..MaxTime
  BY <1>0 DEF Finds
<1>2. versions' \in [Sites -> SUBSET (0..MaxTime)] /\ \A x \in Sites : versions[x] \subseteq versions'[x]
  <2>1. versions' = versions \/ versions' = [versions EXCEPT ![site] = versions[site] \cup {time'}]
    BY DEF Finds
  <2>2. QED
    BY <1>0, <1>1, <2>1
<1>3. CASE SameDayText(kind, site) = {}
  <2>. DEFINE new == [kind |-> kind, site |-> site, size |-> size, at |-> time + 1]
  <2>1. ranked' = Append(ranked, new)
    BY <1>1, <1>3 DEF Finds
  <2>2. new \in Scored /\ new.kind = kind /\ new.site = site /\ new.at = time + 1
    BY <1>1 DEF Scored
  <2>3. \A i \in DOMAIN ranked : ~SameText(ranked[i], new)
    BY <1>3, <2>2 DEF SameText, SameDayText
  <2>4. new = [kind |-> kind, site |-> site, size |-> size, at |-> time + 1]
    OBVIOUS
  <2>. HIDE DEF new
  <2>5. /\ ranked' \in Seq(Scored) /\ Len(ranked') = Len(ranked) + 1 /\ DOMAIN ranked' = 1..(Len(ranked) + 1)
        /\ ranked'[Len(ranked) + 1] = new /\ \A i \in DOMAIN ranked : ranked'[i] = ranked[i]
    BY <1>0, <2>1, <2>2
  <2>6. Added(kind, site, size, new)
    BY <2>2, <2>3, <2>4, <2>5 DEF Added
  <2>7. QED
    BY <1>1, <1>2, <2>5, <2>6
<1>4. CASE SameDayText(kind, site) # {}
  <2>1. PICK k : k \in SameDayText(kind, site)
    BY <1>4
  <2>2. /\ k \in DOMAIN ranked /\ ranked[k].kind = "text" /\ ranked[k].site = site /\ kind = "text"
        /\ DayOf(ranked[k].at) = DayOf(time + 1)
    BY <2>1 DEF SameDayText
  <2>3. \A i \in SameDayText(kind, site) : i = k
    BY <2>2 DEF SameDayText, SameText, RankingInv, OnePerDay
  <2>4. ranked' = [i \in DOMAIN ranked |-> IF i \in SameDayText(kind, site) THEN [ranked[i] EXCEPT !.at = time + 1] ELSE ranked[i]]
    BY <1>1, <1>4 DEF Finds
  <2>5. /\ DOMAIN ranked' = DOMAIN ranked /\ ranked'[k] = [ranked[k] EXCEPT !.at = time + 1]
        /\ \A i \in DOMAIN ranked \ {k} : ranked'[i] = ranked[i]
    BY <2>1, <2>2, <2>3, <2>4
  <2>6. [ranked[k] EXCEPT !.at = time + 1] \in Scored
    BY <1>0, <1>1, <2>2 DEF Scored
  <2>7. ranked' \in [1..Len(ranked) -> Scored]
    <3>1. \A i \in 1..Len(ranked) : ranked'[i] \in Scored
      BY <1>0, <2>5, <2>6
    <3>2. ranked' = [i \in 1..Len(ranked) |-> ranked'[i]]
      BY <1>0, <2>4
    <3>3. QED
      BY <3>1, <3>2
  <2>8. ranked' \in Seq(Scored) /\ Len(ranked') = Len(ranked)
    BY <1>0, <2>7
  <2>9. Moved(k)
    BY <2>2, <2>5, <2>8 DEF Moved
  <2>10. QED
    BY <1>1, <1>2, <2>8, <2>9
<1>5. QED
  BY <1>3, <1>4

LEMMA RankingInvStep == RankingInv /\ [RankingNext]_kVars => RankingInv'
<1>. SUFFICES ASSUME RankingInv, [RankingNext]_kVars PROVE RankingInv'
  OBVIOUS
<1>0. /\ DOMAIN ranked = 1..Len(ranked) /\ Len(ranked) \in Nat /\ time \in Nat
      /\ \A i \in DOMAIN ranked : ranked[i] \in Scored /\ ranked[i].at \in Nat /\ ranked[i].at <= time
  BY RankingRows, RankingConstants DEF RankingInv, RankingTyped, InOrderOfTime
<1>o. /\ \A i, j \in DOMAIN ranked : i < j /\ ranked[i].kind # "text" => ranked[i].at < ranked[j].at
      /\ \A i, j \in DOMAIN ranked : ranked[i].at = ranked[j].at => i = j
      /\ \A i, j \in DOMAIN ranked : SameText(ranked[i], ranked[j]) => i = j
  BY DEF RankingInv, InOrderOfTime, ApartInTime, OnePerDay
<1>1. ASSUME NEW kind \in {"price", "promotion", "text"}, NEW site \in Sites, NEW size \in Percents \cup {0},
             Finds(kind, site, size)
      PROVE RankingInv'
  <2>1. /\ time' = time + 1 /\ time' \in 0..MaxTime /\ ranked' \in Seq(Scored)
        /\ versions' \in [Sites -> SUBSET (0..MaxTime)]
        /\ (\E new : Added(kind, site, size, new)) \/ (\E k : Moved(k))
    BY <1>1, FindsOrMoves
  <2>2. RankingTyped'
    BY <2>1 DEF RankingTyped
  <2>3. ASSUME NEW new, Added(kind, site, size, new) PROVE InOrderOfTime' /\ ApartInTime' /\ OnePerDay'
    <3>. DEFINE n == Len(ranked) + 1
    <3>1. /\ DOMAIN ranked' = 1..n /\ ranked'[n] = new /\ new.at = time + 1
          /\ \A i \in DOMAIN ranked : ranked'[i] = ranked[i] /\ ~SameText(ranked[i], new)
      BY <2>3 DEF Added
    <3>2. \A i \in 1..n : i = n \/ (i \in DOMAIN ranked /\ i < n)
      BY <1>0
    <3>. HIDE DEF n
    <3>3. \A i \in DOMAIN ranked' :
            \/ i = n /\ ranked'[i].at = time + 1 /\ ranked'[i] = new
            \/ /\ i \in DOMAIN ranked /\ i < n /\ ranked'[i] = ranked[i] /\ ranked[i].at \in Nat /\ ranked[i].at <= time
               /\ ~SameText(ranked[i], new)
      BY <1>0, <3>1, <3>2
    <3>4. \A i \in DOMAIN ranked' : i \in Nat /\ n \in Nat
      BY <1>0, <3>1 DEF n
    <3>5. \A i \in DOMAIN ranked' : ranked'[i].at <= time'
      BY <1>0, <2>1, <3>3
    <3>6. ASSUME NEW i \in DOMAIN ranked', NEW j \in DOMAIN ranked', i < j, ranked'[i].kind # "text"
          PROVE  ranked'[i].at < ranked'[j].at
      <4>1. i \in DOMAIN ranked /\ ranked'[i] = ranked[i] /\ ranked[i].at \in Nat /\ ranked[i].at <= time
        BY <3>1, <3>3, <3>4, <3>6
      <4>2. CASE j = n
        BY <1>0, <3>3, <3>4, <4>1, <4>2
      <4>3. CASE j # n
        BY <1>o, <3>3, <3>6, <4>1, <4>3
      <4>4. QED
        BY <4>2, <4>3
    <3>7. ASSUME NEW i \in DOMAIN ranked', NEW j \in DOMAIN ranked', ranked'[i].at = ranked'[j].at PROVE i = j
      BY <1>0, <1>o, <3>3, <3>7
    <3>8. ASSUME NEW i \in DOMAIN ranked', NEW j \in DOMAIN ranked', SameText(ranked'[i], ranked'[j]) PROVE i = j
      <4>1. SameText(ranked'[j], ranked'[i])
        BY <3>8 DEF SameText
      <4>2. QED
        BY <1>o, <3>3, <3>8, <4>1
    <3>9. OnePerDay'
      BY <3>8 DEF OnePerDay, SameText, DayOf
    <3>10. QED
      BY <3>5, <3>6, <3>7, <3>9 DEF InOrderOfTime, ApartInTime
  <2>4. ASSUME NEW k, Moved(k) PROVE InOrderOfTime' /\ ApartInTime' /\ OnePerDay'
    <3>1. /\ k \in DOMAIN ranked /\ DOMAIN ranked' = DOMAIN ranked /\ ranked[k].kind = "text"
          /\ ranked'[k] = [ranked[k] EXCEPT !.at = time + 1] /\ DayOf(ranked[k].at) = DayOf(time + 1)
          /\ \A i \in DOMAIN ranked \ {k} : ranked'[i] = ranked[i]
      BY <2>4 DEF Moved
    <3>2. /\ ranked'[k].at = time + 1 /\ ranked'[k].kind = "text" /\ ranked'[k].site = ranked[k].site
      BY <1>0, <3>1 DEF Scored
    <3>3. \A i \in DOMAIN ranked' :
            /\ i \in DOMAIN ranked /\ ranked[i].at \in Nat /\ ranked[i].at <= time
            /\ i # k => ranked'[i] = ranked[i]
            /\ ranked'[i].kind = ranked[i].kind /\ ranked'[i].site = ranked[i].site
            /\ DayOf(ranked'[i].at) = DayOf(ranked[i].at)
      BY <1>0, <3>1, <3>2
    <3>4. \A i \in DOMAIN ranked' : ranked'[i].at <= time'
      BY <1>0, <2>1, <3>2, <3>3
    <3>5. ASSUME NEW i \in DOMAIN ranked', NEW j \in DOMAIN ranked', i < j, ranked'[i].kind # "text"
          PROVE  ranked'[i].at < ranked'[j].at
      <4>1. i # k /\ ranked'[i] = ranked[i] /\ ranked[i].at \in Nat /\ ranked[i].at <= time
        BY <3>2, <3>3, <3>5
      <4>2. CASE j = k
        BY <1>0, <3>2, <4>1, <4>2
      <4>3. CASE j # k
        BY <1>o, <3>3, <3>5, <4>1, <4>3
      <4>4. QED
        BY <4>2, <4>3
    <3>6. ASSUME NEW i \in DOMAIN ranked', NEW j \in DOMAIN ranked', ranked'[i].at = ranked'[j].at PROVE i = j
      BY <1>0, <1>o, <3>2, <3>3, <3>6
    <3>7. ASSUME NEW i \in DOMAIN ranked', NEW j \in DOMAIN ranked', SameText(ranked'[i], ranked'[j]) PROVE i = j
      <4>1. SameText(ranked[i], ranked[j])
        BY <3>3, <3>7 DEF SameText
      <4>2. QED
        BY <1>o, <3>3, <4>1
    <3>8. OnePerDay'
      BY <3>7 DEF OnePerDay, SameText, DayOf
    <3>9. QED
      BY <3>4, <3>5, <3>6, <3>8 DEF InOrderOfTime, ApartInTime
  <2>5. QED
    BY <2>1, <2>2, <2>3, <2>4 DEF RankingInv
<1>2. ASSUME UNCHANGED ranked, time' \in {time, time + 1}, time' \in 0..MaxTime, versions' \in [Sites -> SUBSET (0..MaxTime)]
      PROVE  RankingInv'
  <2>1. RankingTyped' /\ InOrderOfTime'
    BY <1>0, <1>2 DEF RankingInv, RankingTyped, InOrderOfTime
  <2>2. ApartInTime' /\ OnePerDay'
    BY <1>2 DEF RankingInv, ApartInTime, OnePerDay, SameText, DayOf
  <2>3. QED
    BY <2>1, <2>2 DEF RankingInv
<1>3. ASSUME NEW site \in Sites, FindsUnsure(site) PROVE RankingInv'
  <2>1. time' = time + 1 /\ time' \in 0..MaxTime
    BY <1>0, <1>3, RankingConstants DEF FindsUnsure
  <2>2. UNCHANGED ranked /\ versions' \in [Sites -> SUBSET (0..MaxTime)]
    BY <1>3, <2>1 DEF FindsUnsure, RankingInv, RankingTyped
  <2>3. QED
    BY <1>2, <2>1, <2>2
<1>4. ASSUME Waits PROVE RankingInv'
  BY <1>0, <1>2, <1>4, RankingConstants DEF Waits, RankingInv, RankingTyped
<1>5. ASSUME UNCHANGED kVars PROVE RankingInv'
  BY <1>2, <1>5 DEF kVars, RankingInv, RankingTyped
<1>6. QED
  BY <1>1, <1>3, <1>4, <1>5 DEF RankingNext

(* Powers of two are counted by the sets of as many elements.              *)
LEMMA PowersGrow ==
  ASSUME NEW m \in Nat, NEW n \in Nat, m <= n
  PROVE  2^m \in Nat \ {0} /\ 2^m <= 2^n
<1>1. IsFiniteSet(1..m) /\ Cardinality(1..m) = m /\ IsFiniteSet(1..n) /\ Cardinality(1..n) = n
  BY FS_Interval
<1>2. IsFiniteSet(SUBSET (1..m)) /\ Cardinality(SUBSET (1..m)) = 2^m
  BY <1>1, FS_SUBSET
<1>3. IsFiniteSet(SUBSET (1..n)) /\ Cardinality(SUBSET (1..n)) = 2^n
  BY <1>1, FS_SUBSET
<1>4. SUBSET (1..m) \in SUBSET (SUBSET (1..n))
  <2>1. 1..m \subseteq 1..n
    OBVIOUS
  <2>2. QED
    BY <2>1
<1>5. Cardinality(SUBSET (1..m)) <= Cardinality(SUBSET (1..n))
  BY <1>3, <1>4, FS_Subset
<1>6. Cardinality(SUBSET (1..m)) \in Nat /\ Cardinality(SUBSET (1..m)) # 0
  BY <1>2, FS_CardinalityType, FS_EmptySet
<1>7. QED
  BY <1>2, <1>3, <1>5, <1>6

LEMMA QuotientsShrink ==
  ASSUME NEW a \in Nat, NEW b \in Nat \ {0}, NEW c \in Nat \ {0}, b <= c
  PROVE  a \div b \in 0..a /\ a \div c \in 0..a /\ a \div c <= a \div b
<1>. DEFINE p == a \div b
<1>. DEFINE q == a \div c
<1>1. p \in Nat /\ b * p <= a /\ a < b * p + b
  OBVIOUS
<1>2. q \in Nat /\ c * q <= a /\ a < c * q + c
  OBVIOUS
<1>. HIDE DEF p, q
<1>3. p <= a /\ q <= a
  BY <1>1, <1>2
<1>4. q <= p
  <2>. SUFFICES ASSUME q >= p + 1 PROVE FALSE
    BY <1>1, <1>2
  <2>1. b * (p + 1) <= c * q
    BY <1>1, <1>2
  <2>2. QED
    BY <2>1, <1>1, <1>2
<1>5. QED
  BY <1>1, <1>2, <1>3, <1>4 DEF p, q

(* The factors of a score stay within a hundred.                           *)
LEMMA CappedRange == ASSUME NEW n \in Nat PROVE AtMost(n, 100) \in 0..100
  BY DEF AtMost

LEMMA RecencyFalls ==
  ASSUME NEW a \in Nat, NEW b \in Nat, a <= b
  PROVE  /\ 100 \div 2^(a \div HalfLife) \in 0..100
         /\ 100 \div 2^(b \div HalfLife) \in 0..100
         /\ 100 \div 2^(b \div HalfLife) <= 100 \div 2^(a \div HalfLife)
<1>. DEFINE p == a \div HalfLife
<1>. DEFINE q == b \div HalfLife
<1>1. p \in Nat /\ q \in Nat /\ p <= q
  <2>1. HalfLife \in Nat \ {0}
    BY RankingConstants
  <2>2. p \in Nat /\ HalfLife * p <= a /\ a < HalfLife * p + HalfLife
    BY <2>1
  <2>3. q \in Nat /\ HalfLife * q <= b /\ b < HalfLife * q + HalfLife
    BY <2>1
  <2>. HIDE DEF p, q
  <2>4. QED
    <3>. SUFFICES ASSUME q + 1 <= p PROVE FALSE
      BY <2>2, <2>3
    <3>1. HalfLife * (q + 1) <= HalfLife * p
      BY <2>1, <2>2, <2>3
    <3>2. QED
      BY <3>1, <2>1, <2>2, <2>3
<1>. HIDE DEF p, q
<1>2. 2^p \in Nat \ {0} /\ 2^q \in Nat \ {0} /\ 2^p <= 2^q
  BY <1>1, PowersGrow
<1>. DEFINE x == 2^p
<1>. DEFINE y == 2^q
<1>3. x \in Nat \ {0} /\ y \in Nat \ {0} /\ x <= y
  BY <1>2
<1>. HIDE DEF x, y
<1>4. 100 \div x \in 0..100 /\ 100 \div y \in 0..100 /\ 100 \div y <= 100 \div x
  <2>1. 100 \in Nat
    OBVIOUS
  <2>2. QED
    BY <1>3, <2>1, QuotientsShrink, Zenon
<1>5. QED
  BY <1>4 DEF x, y, p, q

LEMMA RecentFinite ==
  ASSUME RankingTyped
  PROVE  IsFiniteSet(DOMAIN ranked) /\ Recent \subseteq DOMAIN ranked /\ IsFiniteSet(Recent)
<1>1. IsFiniteSet(DOMAIN ranked)
  <2>1. DOMAIN ranked = 1..Len(ranked) /\ 1 \in Int /\ Len(ranked) \in Int
    BY RankingRows
  <2>2. QED
    BY <2>1, FS_Interval
<1>2. Recent \in SUBSET (DOMAIN ranked)
  BY DEF Recent
<1>3. QED
  BY <1>1, <1>2, FS_Subset

LEMMA ElsewhereFinite ==
  ASSUME RankingTyped, NEW s
  PROVE  IsFiniteSet(Elsewhere(s)) /\ Cardinality(Elsewhere(s)) \in Nat
<1>. DEFINE I == {j \in Recent : ranked[j].kind = s.kind /\ Age(ranked[j]) <= Corroborating}
<1>. DEFINE sites == {ranked[i].site : i \in I}
<1>. DEFINE f == [i \in I |-> ranked[i].site]
<1>1. IsFiniteSet(I)
  <2>1. I \in SUBSET Recent
    OBVIOUS
  <2>2. QED
    BY <2>1, RecentFinite, FS_Subset
<1>2. f \in Surjection(I, sites)
  BY DEF Surjection
<1>3. IsFiniteSet(sites)
  BY <1>1, <1>2, FS_Surjection
<1>4. Elsewhere(s) \in SUBSET sites
  BY DEF Elsewhere
<1>5. IsFiniteSet(Elsewhere(s))
  BY <1>3, <1>4, FS_Subset
<1>6. QED
  BY <1>5, FS_CardinalityType

LEMMA RepeatsFinite ==
  ASSUME RankingTyped, NEW s
  PROVE  IsFiniteSet(Repeats(s)) /\ Cardinality(Repeats(s)) \in Nat
<1>1. Repeats(s) \in SUBSET Recent
  BY DEF Repeats
<1>2. IsFiniteSet(Repeats(s))
  BY <1>1, RecentFinite, FS_Subset
<1>3. QED
  BY <1>2, FS_CardinalityType

LEMMA EarlierFinite ==
  ASSUME RankingTyped, NEW s, s.site \in Sites
  PROVE  IsFiniteSet({v \in versions[s.site] : v < s.at}) /\ Earlier(s) \in Nat
<1>1. {v \in versions[s.site] : v < s.at} \in SUBSET (0..MaxTime)
  BY DEF RankingTyped
<1>2. IsFiniteSet(0..MaxTime)
  BY RankingConstants, FS_Interval
<1>3. IsFiniteSet({v \in versions[s.site] : v < s.at})
  BY <1>1, <1>2, FS_Subset
<1>4. QED
  BY <1>3, FS_CardinalityType DEF Earlier

(* The least of a set of positions, which is all that is asked of it.      *)
LEMMA MinimumIs ==
  ASSUME NEW S \in SUBSET Nat, NEW k \in S, \A j \in S : k <= j
  PROVE  (CHOOSE i \in S : \A j \in S : i <= j) = k
<1>. DEFINE c == CHOOSE i \in S : \A j \in S : i <= j
<1>1. c \in S /\ \A j \in S : c <= j
  OBVIOUS
<1>. HIDE DEF c
<1>2. c \in Nat /\ k \in Nat /\ c <= k /\ k <= c
  BY <1>1
<1>3. c = k
  BY <1>2
<1>4. QED
  BY <1>3 DEF c

(* What the scores of a state are made of.                                 *)
OldestPriced(site, k) == k \in Priced(site) /\ \A j \in Priced(site) : k <= j
RankingSets ==
  /\ \A s \in Scored : /\ IsFiniteSet(Elsewhere(s)) /\ Cardinality(Elsewhere(s)) \in Nat
                        /\ IsFiniteSet(Repeats(s)) /\ Cardinality(Repeats(s)) \in Nat
                        /\ IsFiniteSet({v \in versions[s.site] : v < s.at}) /\ Earlier(s) \in Nat
  /\ \A site : Priced(site) \subseteq DOMAIN ranked
  /\ \A site : Priced(site) # {} => \E k \in Priced(site) : OldestPriced(site, k)
  /\ \A s \in Scored : \A k \in Priced(s.site) : OldestPriced(s.site, k) => Counted(s) = Earlier(ranked[k])

LEMMA RankingSetsHold == RankingTyped => RankingSets
<1>. SUFFICES ASSUME RankingTyped PROVE RankingSets
  OBVIOUS
<1>1. \A s \in Scored : /\ IsFiniteSet(Elsewhere(s)) /\ Cardinality(Elsewhere(s)) \in Nat
                        /\ IsFiniteSet(Repeats(s)) /\ Cardinality(Repeats(s)) \in Nat
  BY ElsewhereFinite, RepeatsFinite
<1>2. \A s \in Scored : IsFiniteSet({v \in versions[s.site] : v < s.at}) /\ Earlier(s) \in Nat
  <2>. SUFFICES ASSUME NEW s \in Scored PROVE IsFiniteSet({v \in versions[s.site] : v < s.at}) /\ Earlier(s) \in Nat
    OBVIOUS
  <2>1. s.site \in Sites
    BY ScoredFields
  <2>2. QED
    BY <2>1, EarlierFinite
<1>3. \A site : Priced(site) \in SUBSET Nat /\ Priced(site) \subseteq DOMAIN ranked
  BY RankingRows DEF Priced, Shown
<1>4. \A site : Priced(site) # {} => \E k \in Priced(site) : OldestPriced(site, k)
  BY <1>3, LeastOf DEF OldestPriced
<1>5. ASSUME NEW s \in Scored, NEW k \in Priced(s.site), OldestPriced(s.site, k)
      PROVE  Counted(s) = Earlier(ranked[k])
  <2>. DEFINE P == Priced(s.site)
  <2>1. P \in SUBSET Nat /\ k \in P /\ \A j \in P : k <= j
    BY <1>3, <1>5 DEF OldestPriced
  <2>. HIDE DEF P
  <2>2. (CHOOSE i \in P : \A j \in P : i <= j) = k
    BY <2>1, MinimumIs
  <2>3. QED
    BY <2>2 DEF P, Counted
<1>6. QED
  BY <1>1, <1>2, <1>3, <1>4, <1>5 DEF RankingSets

(* A signal that is listed has a score, from 0 to 100.                     *)
FactorsInRange ==
  \A s \in Scored : s.at <= time /\ (s.kind = "price" => Priced(s.site) # {}) =>
    /\ Magnitude(s) \in 0..100 /\ Emphasis(s) \in 0..100 /\ Recency(s) \in 0..100
    /\ Corroboration(s) \in 0..100 /\ Unusual(s) \in 0..100 /\ Repetition(s) \in 0..100
    /\ s.kind = "text" => Magnitude(s) = 10 /\ Emphasis(s) = 15 /\ Unusual(s) = 0

LEMMA FactorsBound == RankingInv => FactorsInRange
<1>. SUFFICES ASSUME RankingInv, NEW s \in Scored, s.at <= time, s.kind = "price" => Priced(s.site) # {}
     PROVE  /\ Magnitude(s) \in 0..100 /\ Emphasis(s) \in 0..100 /\ Recency(s) \in 0..100
            /\ Corroboration(s) \in 0..100 /\ Unusual(s) \in 0..100 /\ Repetition(s) \in 0..100
            /\ s.kind = "text" => Magnitude(s) = 10 /\ Emphasis(s) = 15 /\ Unusual(s) = 0
  BY DEF FactorsInRange
<1>. USE ScoredFields
<1>1. RankingSets
  BY RankingSetsHold DEF RankingInv
<1>2. Magnitude(s) \in 0..100 /\ Emphasis(s) \in 0..100
  BY CappedRange DEF Magnitude, Emphasis
<1>3. Recency(s) \in 0..100
  <2>1. Age(s) \in Nat
    BY DEF Age, RankingInv, RankingTyped
  <2>2. QED
    BY <2>1, RecencyFalls DEF Recency
<1>4. Corroboration(s) \in 0..100
  <2>. DEFINE n == Cardinality(Elsewhere(s))
  <2>1. n \in Nat
    BY <1>1 DEF RankingSets
  <2>. HIDE DEF n
  <2>2. 33 * n \in Nat
    BY <2>1
  <2>3. QED
    BY <2>2, CappedRange DEF Corroboration, n
<1>5. Repetition(s) \in 0..100
  <2>. DEFINE n == Cardinality(Repeats(s))
  <2>1. n \in Nat
    BY <1>1 DEF RankingSets
  <2>. HIDE DEF n
  <2>2. 200 \div (2 + n) \in 0..100
    <3>1. 200 \in Nat /\ 2 \in Nat \ {0} /\ 2 + n \in Nat \ {0} /\ 2 <= 2 + n
      BY <2>1
    <3>2. 200 \div (2 + n) \in 0..200 /\ 200 \div (2 + n) <= 200 \div 2
      BY <3>1, QuotientsShrink, Zenon
    <3>3. QED
      BY <3>2
  <2>3. QED
    BY <2>2 DEF n, Repetition
<1>6. Unusual(s) \in 0..100
  <2>1. CASE s.kind = "price"
    <3>1. PICK k \in Priced(s.site) : OldestPriced(s.site, k)
      BY <1>1, <2>1 DEF RankingSets
    <3>2. ranked[k] \in Scored /\ Counted(s) = Earlier(ranked[k])
      BY <1>1, <3>1, RankingRows DEF RankingSets, RankingInv
    <3>3. Counted(s) \in Nat
      BY <1>1, <3>2 DEF RankingSets
    <3>. DEFINE n == Counted(s)
    <3>4. 100 \in Nat /\ 1 + n \in Nat \ {0} /\ 1 + n <= 1 + n
      BY <3>3
    <3>. HIDE DEF n
    <3>5. 100 \div (1 + n) \in 0..100
      BY <3>4, QuotientsShrink, Zenon
    <3>6. QED
      BY <3>5, <2>1 DEF Unusual, n
  <2>2. CASE s.kind # "price"
    BY <2>2 DEF Unusual
  <2>3. QED
    BY <2>1, <2>2
<1>7. s.kind = "text" => Magnitude(s) = 10 /\ Emphasis(s) = 15 /\ Unusual(s) = 0
  BY DEF Magnitude, Emphasis, Unusual
<1>8. QED
  BY <1>2, <1>3, <1>4, <1>5, <1>6, <1>7

(* The score of six factors; it grows with each of them.                   *)
Weighed(m, e, r, c, u, p) == (30 * m + 25 * e + 10 * r + 5 * 67 + 10 * c + 10 * u + 10 * p + 50) \div 100

LEMMA WeighedRange ==
  ASSUME NEW m \in 0..100, NEW e \in 0..100, NEW r \in 0..100, NEW c \in 0..100, NEW u \in 0..100, NEW p \in 0..100
  PROVE  Weighed(m, e, r, c, u, p) \in 0..100 /\ (m = 10 /\ e = 15 /\ u = 0 => Weighed(m, e, r, c, u, p) <= 64)
BY DEF Weighed

LEMMA WeighedGrows ==
  ASSUME NEW m \in 0..100, NEW e \in 0..100, NEW r \in 0..100, NEW c \in 0..100, NEW u \in 0..100, NEW p \in 0..100,
         NEW r2 \in 0..100, NEW c2 \in 0..100, NEW u2 \in 0..100, NEW p2 \in 0..100,
         r2 <= r, c2 <= c, u2 <= u, p2 <= p
  PROVE  Weighed(m, e, r2, c2, u2, p2) <= Weighed(m, e, r, c, u, p)
<1>. DEFINE a == 30 * m + 25 * e + 10 * r + 5 * 67 + 10 * c + 10 * u + 10 * p + 50
<1>. DEFINE b == 30 * m + 25 * e + 10 * r2 + 5 * 67 + 10 * c2 + 10 * u2 + 10 * p2 + 50
<1>1. a \in Nat /\ b \in Nat /\ b <= a
  OBVIOUS
<1>. HIDE DEF a, b
<1>2. b \div 100 <= a \div 100
  BY <1>1
<1>3. QED
  BY <1>2 DEF a, b, Weighed

LEMMA ScoreIsWeighed ==
  ASSUME NEW s
  PROVE  Score(s) = Weighed(Magnitude(s), Emphasis(s), Recency(s), Corroboration(s), Unusual(s), Repetition(s))
BY DEF Score, Weighed

LEMMA RankingTyping == RankingInv => RankingTypeOK
<1>. SUFFICES ASSUME RankingInv PROVE RankingTypeOK
  OBVIOUS
<1>1. \A i \in DOMAIN ranked : ranked[i] \in Scored /\ ranked[i].at <= time
  BY RankingRows DEF RankingInv, InOrderOfTime
<1>2. ASSUME NEW i \in Shown
      PROVE  /\ Score(ranked[i]) \in 0..100
             /\ Tier(ranked[i]) = "HIGH" => ranked[i].kind # "text"
  <2>. DEFINE s == ranked[i]
  <2>1. s \in Scored /\ s.at <= time /\ (s.kind = "price" => i \in Priced(s.site))
    BY <1>1 DEF Shown, Priced
  <2>. HIDE DEF s
  <2>2. /\ Magnitude(s) \in 0..100 /\ Emphasis(s) \in 0..100 /\ Recency(s) \in 0..100
        /\ Corroboration(s) \in 0..100 /\ Unusual(s) \in 0..100 /\ Repetition(s) \in 0..100
        /\ s.kind = "text" => Magnitude(s) = 10 /\ Emphasis(s) = 15 /\ Unusual(s) = 0
    BY <2>1, FactorsBound DEF FactorsInRange
  <2>3. Score(s) \in 0..100
    BY <2>2, WeighedRange, ScoreIsWeighed, ZenonT(40)
  <2>4. s.kind = "text" => Score(s) <= 64
    BY <2>2, WeighedRange, ScoreIsWeighed
  <2>5. Tier(s) = "HIGH" => s.kind # "text"
    BY <2>3, <2>4 DEF Tier
  <2>6. QED
    BY <2>3, <2>5 DEF s
<1>3. QED
  BY <1>1, <1>2 DEF RankingTypeOK

(* No signal is told of more changes than came before it: the count is     *)
(* that of the oldest one listed.                                          *)
LEMMA CountedFromOldest == RankingInv => NeverOvertold
<1>. SUFFICES ASSUME RankingInv, NEW i \in Shown, ranked[i].kind = "price"
              PROVE  Counted(ranked[i]) <= Earlier(ranked[i])
  BY DEF NeverOvertold
<1>1. i \in DOMAIN ranked /\ ranked[i] \in Scored /\ i \in Priced(ranked[i].site)
  BY RankingRows DEF Shown, Priced, RankingInv
<1>2. RankingSets
  BY RankingSetsHold DEF RankingInv
<1>3. PICK k \in Priced(ranked[i].site) : OldestPriced(ranked[i].site, k)
  BY <1>1, <1>2 DEF RankingSets
<1>4. Counted(ranked[i]) = Earlier(ranked[k])
  BY <1>1, <1>2, <1>3 DEF RankingSets
<1>5. k \in DOMAIN ranked /\ ranked[k].kind = "price" /\ ranked[k].site = ranked[i].site /\ k <= i
  BY <1>1, <1>3 DEF Priced, Shown, OldestPriced
<1>6. ranked[k].at <= ranked[i].at /\ ranked[k] \in Scored /\ ranked[k].at \in Nat /\ ranked[i].at \in Nat
  <2>1. k \in Nat /\ i \in Nat /\ (k = i \/ k < i)
    BY <1>1, <1>5, RankingRows DEF RankingInv
  <2>2. ranked[k] \in Scored /\ ranked[k].at \in Nat /\ ranked[i].at \in Nat
    BY <1>1, <1>5, RankingRows DEF RankingInv
  <2>3. k < i => ranked[k].at < ranked[i].at
    BY <1>1, <1>5 DEF RankingInv, InOrderOfTime
  <2>4. QED
    BY <2>1, <2>2, <2>3
<1>. DEFINE A == {v \in versions[ranked[k].site] : v < ranked[k].at}
<1>. DEFINE B == {v \in versions[ranked[i].site] : v < ranked[i].at}
<1>7. IsFiniteSet(B)
  BY <1>1, <1>2 DEF RankingSets
<1>8. A \in SUBSET B
  <2>1. versions[ranked[i].site] \subseteq Nat
    <3>1. ranked[i].site \in Sites /\ versions \in [Sites -> SUBSET (0..MaxTime)]
      BY <1>1, ScoredFields DEF RankingInv, RankingTyped
    <3>2. QED
      BY <3>1
  <2>2. QED
    BY <1>5, <1>6, <2>1
<1>9. Cardinality(A) <= Cardinality(B)
  BY <1>7, <1>8, FS_Subset
<1>10. QED
  BY <1>4, <1>9 DEF Earlier

(* Two like signals of one page share every factor but age and what counts *)
(* as a repeat: the newer one is one of the older one's, if recent.        *)
LEMMA RepeatsOfNewer ==
  ASSUME RankingInv, NEW i \in DOMAIN ranked, NEW j \in DOMAIN ranked,
         ranked[i].kind = ranked[j].kind, ranked[i].site = ranked[j].site, ranked[i].at <= ranked[j].at
  PROVE  Cardinality(Repeats(ranked[j])) <= Cardinality(Repeats(ranked[i]))
<1>. DEFINE same == {k \in Recent : ranked[k].kind = ranked[i].kind /\ ranked[k].site = ranked[i].site}
<1>1. \A k, l \in DOMAIN ranked : ranked[k] = ranked[l] => k = l
  BY DEF RankingInv, ApartInTime
<1>2. Repeats(ranked[i]) = same \ {i} /\ Repeats(ranked[j]) = same \ {j}
  BY <1>1 DEF Repeats, Recent
<1>3. IsFiniteSet(same)
  <2>1. same \in SUBSET Recent
    OBVIOUS
  <2>2. QED
    BY <2>1, RecentFinite, FS_Subset DEF RankingInv
<1>4. i \in same => j \in same
  <2>. SUFFICES ASSUME i \in same PROVE j \in Recent
    OBVIOUS
  <2>1. time - ranked[i].at <= Repeating
    BY DEF Recent, Age
  <2>2. time \in Int /\ ranked[i].at \in Int /\ ranked[j].at \in Int /\ Repeating \in Int
    BY RankingRows, RankingConstants DEF RankingInv, RankingTyped
  <2>3. time - ranked[j].at <= Repeating
    BY <2>1, <2>2
  <2>4. QED
    BY <2>3 DEF Recent, Age
<1>. HIDE DEF same
<1>5. CASE i \in same
  <2>1. Cardinality(same \ {i}) = Cardinality(same) - 1
    BY <1>3, <1>5, FS_RemoveElement
  <2>2. Cardinality(same \ {j}) = Cardinality(same) - 1
    BY <1>3, <1>4, <1>5, FS_RemoveElement
  <2>3. Cardinality(same) \in Nat
    BY <1>3, FS_CardinalityType
  <2>4. QED
    BY <1>2, <2>1, <2>2, <2>3
<1>6. CASE i \notin same
  <2>1. same \ {i} = same /\ same \ {j} \in SUBSET same
    BY <1>6
  <2>2. Cardinality(same \ {j}) <= Cardinality(same)
    BY <1>3, <2>1, FS_Subset
  <2>3. QED
    BY <1>2, <2>1, <2>2
<1>7. QED
  BY <1>5, <1>6

LEMMA NewerRanks == RankingInv => NewerNotBelow
<1>. SUFFICES ASSUME RankingInv, NEW i \in Shown, NEW j \in Shown,
                     ranked[i].kind = ranked[j].kind, ranked[i].site = ranked[j].site, ranked[i].size = ranked[j].size,
                     ranked[i].at <= ranked[j].at
              PROVE  Score(ranked[i]) <= Score(ranked[j])
  BY DEF NewerNotBelow
<1>1. /\ i \in DOMAIN ranked /\ j \in DOMAIN ranked /\ ranked[i] \in Scored /\ ranked[j] \in Scored
      /\ ranked[i].at \in Nat /\ ranked[j].at \in Nat /\ time \in Nat
      /\ ranked[i].at <= time /\ ranked[j].at <= time
  BY RankingRows, RankingConstants DEF Shown, RankingInv, RankingTyped, InOrderOfTime
<1>r. Cardinality(Repeats(ranked[j])) <= Cardinality(Repeats(ranked[i]))
  BY <1>1, RepeatsOfNewer
<1>p. ranked[i].kind = "price" => i \in Priced(ranked[i].site) /\ j \in Priced(ranked[j].site)
  BY <1>1 DEF Priced
<1>. DEFINE s == ranked[i]
<1>. DEFINE t == ranked[j]
<1>2. /\ s \in Scored /\ t \in Scored /\ s.kind = t.kind /\ s.site = t.site /\ s.size = t.size
      /\ s.at \in Nat /\ t.at \in Nat /\ s.at <= t.at /\ s.at <= time /\ t.at <= time
      /\ Cardinality(Repeats(t)) <= Cardinality(Repeats(s))
      /\ s.kind = "price" => Priced(s.site) # {} /\ Priced(t.site) # {}
  BY <1>1, <1>r, <1>p
<1>. HIDE DEF s, t
<1>3. RankingSets /\ FactorsInRange
  BY RankingSetsHold, FactorsBound DEF RankingInv
<1>4. Magnitude(t) = Magnitude(s) /\ Emphasis(t) = Emphasis(s)
  BY <1>2 DEF Magnitude, Emphasis
<1>5. Recency(s) <= Recency(t)
  <2>1. time - s.at \in Nat /\ time - t.at \in Nat /\ time - t.at <= time - s.at
    BY <1>1, <1>2
  <2>2. QED
    BY <2>1, RecencyFalls DEF Recency, Age
<1>6. Corroboration(t) = Corroboration(s)
  BY <1>2 DEF Corroboration, Elsewhere
<1>7. Unusual(t) = Unusual(s)
  BY <1>2 DEF Unusual, Counted
<1>8. Repetition(s) <= Repetition(t)
  <2>. DEFINE m == Cardinality(Repeats(t))
  <2>. DEFINE n == Cardinality(Repeats(s))
  <2>1. m \in Nat /\ n \in Nat /\ m <= n
    BY <1>2, <1>3 DEF RankingSets
  <2>. HIDE DEF m, n
  <2>2. 200 \in Nat /\ 2 + m \in Nat \ {0} /\ 2 + n \in Nat \ {0} /\ 2 + m <= 2 + n
    BY <2>1
  <2>3. 200 \div (2 + n) <= 200 \div (2 + m)
    BY <2>2, QuotientsShrink, ZenonT(40)
  <2>4. QED
    BY <2>3 DEF m, n, Repetition
<1>9. /\ Magnitude(t) \in 0..100 /\ Emphasis(t) \in 0..100 /\ Recency(t) \in 0..100
      /\ Corroboration(t) \in 0..100 /\ Unusual(t) \in 0..100 /\ Repetition(t) \in 0..100
      /\ Recency(s) \in 0..100 /\ Corroboration(s) \in 0..100 /\ Unusual(s) \in 0..100 /\ Repetition(s) \in 0..100
  BY <1>2, <1>3 DEF FactorsInRange
<1>10. Corroboration(s) <= Corroboration(t) /\ Unusual(s) <= Unusual(t)
  BY <1>6, <1>7, <1>9
<1>11. Weighed(Magnitude(t), Emphasis(t), Recency(s), Corroboration(s), Unusual(s), Repetition(s))
         <= Weighed(Magnitude(t), Emphasis(t), Recency(t), Corroboration(t), Unusual(t), Repetition(t))
  BY <1>5, <1>8, <1>9, <1>10, WeighedGrows, ZenonT(40)
<1>12. Score(s) <= Score(t)
  BY <1>4, <1>11, ScoreIsWeighed
<1>13. QED
  BY <1>12 DEF s, t

(* What a step leaves: the signals there are, of the same kind and site,   *)
(* but for the time of a text signal; and the versions of every price.     *)
Stays(i) ==
  \/ ranked'[i] = ranked[i]
  \/ /\ time' = time + 1 /\ ranked'[i] = [ranked[i] EXCEPT !.at = time + 1] /\ ranked[i].kind = "text"
     /\ DayOf(ranked[i].at) = DayOf(time + 1)

LEMMA RankingGrows ==
  ASSUME RankingInv, [RankingNext]_kVars
  PROVE  /\ DOMAIN ranked' = 1..Len(ranked') /\ Len(ranked') \in Nat
         /\ \A i \in DOMAIN ranked : i \in DOMAIN ranked' /\ Stays(i)
         /\ time' \in {time, time + 1}
         /\ \A x \in Sites : versions[x] \subseteq versions'[x]
<1>0. /\ DOMAIN ranked = 1..Len(ranked) /\ Len(ranked) \in Nat /\ ranked \in Seq(Scored)
      /\ versions \in [Sites -> SUBSET (0..MaxTime)]
  BY RankingRows DEF RankingInv, RankingTyped
<1>1. ASSUME NEW kind \in {"price", "promotion", "text"}, NEW site \in Sites, NEW size \in Percents \cup {0},
             Finds(kind, site, size)
      PROVE  /\ DOMAIN ranked' = 1..Len(ranked') /\ Len(ranked') \in Nat
             /\ \A i \in DOMAIN ranked : i \in DOMAIN ranked' /\ Stays(i)
             /\ time' = time + 1 /\ \A x \in Sites : versions[x] \subseteq versions'[x]
  <2>1. /\ time' = time + 1 /\ \A x \in Sites : versions[x] \subseteq versions'[x]
        /\ (\E new : Added(kind, site, size, new)) \/ (\E k : Moved(k))
    BY <1>1, FindsOrMoves
  <2>2. ASSUME NEW new, Added(kind, site, size, new)
        PROVE  /\ DOMAIN ranked' = 1..Len(ranked') /\ Len(ranked') \in Nat
               /\ \A i \in DOMAIN ranked : i \in DOMAIN ranked' /\ Stays(i)
    <3>1. /\ Len(ranked') = Len(ranked) + 1 /\ DOMAIN ranked' = 1..(Len(ranked) + 1)
          /\ \A i \in DOMAIN ranked : ranked'[i] = ranked[i]
      BY <2>2 DEF Added
    <3>2. \A i \in DOMAIN ranked : i \in DOMAIN ranked'
      BY <1>0, <3>1
    <3>3. QED
      BY <1>0, <3>1, <3>2 DEF Stays
  <2>3. ASSUME NEW k, Moved(k)
        PROVE  /\ DOMAIN ranked' = 1..Len(ranked') /\ Len(ranked') \in Nat
               /\ \A i \in DOMAIN ranked : i \in DOMAIN ranked' /\ Stays(i)
    <3>1. /\ Len(ranked') = Len(ranked) /\ DOMAIN ranked' = DOMAIN ranked
          /\ ranked'[k] = [ranked[k] EXCEPT !.at = time + 1] /\ ranked[k].kind = "text"
          /\ DayOf(ranked[k].at) = DayOf(time + 1)
          /\ \A i \in DOMAIN ranked \ {k} : ranked'[i] = ranked[i]
      BY <2>3 DEF Moved
    <3>2. \A i \in DOMAIN ranked : i # k => Stays(i)
      BY <3>1 DEF Stays
    <3>3. Stays(k)
      BY <2>1, <3>1 DEF Stays
    <3>4. QED
      BY <1>0, <3>1, <3>2, <3>3
  <2>4. QED
    BY <2>1, <2>2, <2>3
<1>2. CASE \E kind \in {"price", "promotion", "text"}, site \in Sites, size \in Percents \cup {0} : Finds(kind, site, size)
  BY <1>1, <1>2
<1>3. CASE UNCHANGED ranked /\ time' \in {time, time + 1} /\ \A x \in Sites : versions[x] \subseteq versions'[x]
  BY <1>0, <1>3 DEF Stays
<1>4. CASE \E site \in Sites : FindsUnsure(site)
  BY <1>0, <1>3, <1>4 DEF FindsUnsure
<1>5. CASE Waits \/ UNCHANGED kVars
  BY <1>0, <1>3, <1>5 DEF Waits, kVars
<1>6. QED
  BY <1>2, <1>4, <1>5 DEF RankingNext

(* Without news of others, and while no repeat leaves the window, a signal *)
(* is worth no more than before.                                           *)
LEMMA StillWithin ==
  ASSUME NEW a \in Nat, NEW b \in Nat, a <= b, NEW t \in Int, NEW n \in Nat, b - t <= n
  PROVE  a - t <= n
OBVIOUS

LEMMA ImportanceFades ==
  ASSUME RankingInv, RankingInv', [RankingNext]_kVars, NEW s, NEW i0 \in Shown \cap Shown', s = ranked[i0], s = ranked'[i0],
         ~AnotherDoes(i0), ~RepeatLapses(i0)
  PROVE  Score(s) \in 0..100 /\ Score(s)' \in 0..100 /\ Score(s)' <= Score(s)
<1>1. /\ Len(ranked) \in Nat /\ DOMAIN ranked = 1..Len(ranked)
      /\ Len(ranked') \in Nat /\ DOMAIN ranked' = 1..Len(ranked')
      /\ \A i \in DOMAIN ranked : /\ ranked[i] \in Scored /\ ranked[i].at \in Nat /\ i \in DOMAIN ranked' /\ Stays(i)
      /\ time' \in {time, time + 1} /\ time \in Nat
      /\ \A x \in Sites : versions[x] \subseteq versions'[x]
  BY RankingGrows, RankingRows, RankingConstants DEF RankingInv, RankingTyped
<1>0. time \in Nat /\ time' \in Nat /\ time <= time'
  BY <1>1
<1>n. Len(ranked) \in Nat /\ DOMAIN ranked = 1..Len(ranked) /\ DOMAIN ranked \subseteq Nat
  BY <1>1
<1>k. \A i \in DOMAIN ranked : ranked[i].kind # "text" => ranked'[i] = ranked[i]
  BY <1>1 DEF Stays
<1>t. \A i \in DOMAIN ranked : ranked[i] \in Scored /\ ranked[i].at \in Nat /\ ranked[i].at \in Int
  BY <1>1
<1>2. RankingSets /\ RankingSets'
  <2>1. RankingTyped /\ RankingTyped'
    BY DEF RankingInv
  <2>2. QED
    BY <2>1, RankingSetsHold, PTL
<1>3. i0 \in 1..Len(ranked) /\ s \in Scored /\ s.site \in Sites /\ s.at \in Nat /\ s.at <= time
  <2>1. i0 \in DOMAIN ranked
    BY DEF Shown
  <2>2. s \in Scored /\ s.at <= time
    BY <1>1, <2>1 DEF RankingInv, InOrderOfTime
  <2>3. s.site \in Sites /\ s.at \in Nat
    BY <2>2, ScoredFields
  <2>4. QED
    BY <1>1, <2>1, <2>2, <2>3
<1>4. Magnitude(s)' = Magnitude(s) /\ Emphasis(s)' = Emphasis(s)
  BY DEF Magnitude, Emphasis, AtMost
<1>5. Recency(s)' <= Recency(s)
  <2>1. time - s.at \in Nat /\ time' - s.at \in Nat /\ time - s.at <= time' - s.at
    BY <1>0, <1>3
  <2>2. QED
    BY <2>1, RecencyFalls DEF Recency, Age
(* Whoever corroborates now did so before.                                 *)
<1>6. Elsewhere(s)' \subseteq Elsewhere(s)
  <2>. SUFFICES ASSUME NEW x \in Elsewhere(s)' PROVE x \in Elsewhere(s)
    OBVIOUS
  <2>1. PICK i \in DOMAIN ranked' :
          /\ (time' - ranked'[i].at) <= Repeating /\ ranked'[i].kind = s.kind
          /\ (time' - ranked'[i].at) <= Corroborating /\ x = ranked'[i].site /\ x # s.site
    BY DEF Elsewhere, Recent, Age
  <2>2. i \in DOMAIN ranked /\ ranked'[i] = ranked[i]
    BY <2>1 DEF AnotherDoes, News
  <2>3. ranked'[i] = ranked[i] /\ ranked[i].at \in Int
    BY <1>t, <2>2
  <2>. DEFINE t == ranked[i].at
  <2>6. t \in Int /\ time' - t <= Repeating /\ time' - t <= Corroborating
    BY <2>1, <2>3
  <2>. HIDE DEF t
  <2>7. time - t <= Repeating /\ time - t <= Corroborating
    BY <1>0, <2>6, StillWithin, RankingConstants
  <2>4. time - ranked[i].at <= Repeating /\ time - ranked[i].at <= Corroborating
    BY <2>7 DEF t
  <2>5. QED
    BY <2>1, <2>2, <2>3, <2>4 DEF Elsewhere, Recent, Age
<1>7. Corroboration(s)' <= Corroboration(s)
  <2>1. Cardinality(Elsewhere(s)') <= Cardinality(Elsewhere(s)) /\ Cardinality(Elsewhere(s)) \in Nat
        /\ Cardinality(Elsewhere(s)') \in Nat
    BY <1>2, <1>3, <1>6, FS_Subset DEF RankingSets
  <2>. DEFINE m == Cardinality(Elsewhere(s)')
  <2>. DEFINE n == Cardinality(Elsewhere(s))
  <2>2. m \in Nat /\ n \in Nat /\ m <= n
    BY <2>1
  <2>. HIDE DEF m, n
  <2>3. AtMost(33 * m, 100) <= AtMost(33 * n, 100)
    BY <2>2 DEF AtMost
  <2>4. QED
    BY <2>3 DEF m, n, Corroboration, AtMost
(* No repeat lapses.                                                       *)
<1>8. Repeats(s) \subseteq Repeats(s)'
  <2>. SUFFICES ASSUME NEW j \in Repeats(s) PROVE j \in Repeats(s)'
    OBVIOUS
  <2>1. j \in DOMAIN ranked /\ j \in Recent /\ ranked[j].kind = s.kind /\ ranked[j].site = s.site /\ ranked[j] # s
    BY DEF Repeats, Recent
  <2>2. CASE ranked'[j] = ranked[j]
    <3>1. j # i0
      BY <2>1
    <3>2. j \in Recent'
      BY <2>1, <3>1 DEF RepeatLapses
    <3>3. QED
      BY <2>1, <2>2, <3>2 DEF Repeats
  <2>3. CASE ranked'[j] # ranked[j]
    <3>1. ranked'[j] = [ranked[j] EXCEPT !.at = time + 1] /\ time' = time + 1 /\ j \in DOMAIN ranked'
      BY <1>1, <2>1, <2>3 DEF Stays
    <3>2. ranked'[j].at = time' /\ ranked'[j].kind = s.kind /\ ranked'[j].site = s.site
      BY <1>t, <2>1, <3>1 DEF Scored
    <3>. DEFINE t == ranked'[j].at
    <3>6. t = time' /\ time' = time + 1
      BY <3>1, <3>2
    <3>. HIDE DEF t
    <3>7. t # s.at /\ time' - t <= Repeating
      BY <1>0, <1>3, <3>6, RankingConstants
    <3>3. ranked'[j] # s
      BY <3>7 DEF t
    <3>4. time' - ranked'[j].at <= Repeating
      BY <3>7 DEF t
    <3>5. QED
      BY <3>1, <3>2, <3>3, <3>4 DEF Repeats, Recent, Age
  <2>4. QED
    BY <2>2, <2>3
<1>9. Repetition(s)' <= Repetition(s)
  <2>. DEFINE m == Cardinality(Repeats(s))
  <2>. DEFINE n == Cardinality(Repeats(s)')
  <2>1. m \in Nat /\ n \in Nat /\ m <= n
    BY <1>2, <1>3, <1>8, FS_Subset DEF RankingSets
  <2>. HIDE DEF m, n
  <2>2. 200 \in Nat /\ 2 + m \in Nat \ {0} /\ 2 + n \in Nat \ {0} /\ 2 + m <= 2 + n
    BY <2>1
  <2>3. 200 \div (2 + n) <= 200 \div (2 + m)
    BY <2>2, QuotientsShrink, ZenonT(40)
  <2>4. QED
    BY <2>3 DEF m, n, Repetition
(* The change a price is counted from only gets later.                     *)
<1>10. s.kind = "price" => Counted(s) <= Counted(s)' /\ Counted(s) \in Nat /\ Counted(s)' \in Nat
  <2>. SUFFICES ASSUME s.kind = "price" PROVE Counted(s) <= Counted(s)' /\ Counted(s) \in Nat /\ Counted(s)' \in Nat
    OBVIOUS
  <2>1. i0 \in Priced(s.site) /\ i0 \in Priced(s.site)'
    BY <1>1, <1>3 DEF Priced
  <2>2. PICK k \in Priced(s.site) : OldestPriced(s.site, k)
    BY <1>2, <2>1 DEF RankingSets
  <2>3. PICK l \in Priced(s.site)' : OldestPriced(s.site, l)'
    BY <1>2, <2>1 DEF RankingSets
  <2>4. l <= i0 /\ l \in 1..Len(ranked)
    <3>1. l \in DOMAIN ranked' /\ l <= i0
      BY <2>1, <2>3 DEF OldestPriced, Priced, Shown
    <3>2. DOMAIN ranked' = 1..Len(ranked') /\ Len(ranked') \in Nat
      <4>1. ranked' \in Seq(Scored)
        BY DEF RankingInv, RankingTyped
      <4>2. QED
        BY <4>1
    <3>3. l \in Nat /\ 1 <= l
      BY <3>1, <3>2
    <3>4. i0 \in Nat /\ i0 <= Len(ranked)
      BY <1>3, <1>n
    <3>5. QED
      BY <1>n, <3>1, <3>3, <3>4
  <2>5. l \in Priced(s.site) /\ ranked'[l] = ranked[l]
    <3>2. ranked'[l].kind = "price" /\ ranked'[l].site = s.site /\ time' - ranked'[l].at <= ShownFor
      BY DEF Priced, Shown, Age
    <3>1. ranked'[l] = ranked[l] /\ l \in DOMAIN ranked /\ ranked[l].at \in Nat
      <4>1. l \in DOMAIN ranked /\ Stays(l) /\ ranked[l] \in Scored
        BY <1>1, <1>n, <2>4
      <4>2. ranked'[l].kind = ranked[l].kind
        BY <4>1 DEF Stays, Scored
      <4>3. ranked[l].kind # "text"
        BY <3>2, <4>2
      <4>4. QED
        BY <1>k, <1>t, <4>1, <4>3
    <3>3. time - ranked[l].at <= ShownFor
      BY <1>0, <3>1, <3>2, StillWithin, RankingConstants
    <3>4. QED
      BY <3>1, <3>2, <3>3 DEF Priced, Shown, Age
  <2>6. k <= l /\ k \in DOMAIN ranked
    BY <2>2, <2>5 DEF OldestPriced, Priced, Shown
  <2>7. ranked[k].at <= ranked[l].at /\ ranked[k].site = s.site /\ ranked[l].site = s.site
        /\ ranked[k] \in Scored /\ ranked[l] \in Scored
    <3>1. k \in Nat /\ l \in Nat /\ k \in DOMAIN ranked /\ l \in DOMAIN ranked /\ k <= l
      BY <1>n, <2>4, <2>6
    <3>2. k = l \/ k < l
      BY <3>1
    <3>3. ranked[k].at \in Nat /\ ranked[l].at \in Nat /\ ranked[k] \in Scored /\ ranked[l] \in Scored
      BY <1>t, <3>1
    <3>4. k < l => ranked[k].at < ranked[l].at
      <4>1. ranked[k].kind = "price"
        BY <2>2 DEF Priced
      <4>2. QED
        BY <3>1, <4>1 DEF RankingInv, InOrderOfTime
    <3>5. ranked[k].at <= ranked[l].at
      BY <3>2, <3>3, <3>4
    <3>6. QED
      BY <2>5, <3>3, <3>5 DEF Priced
  <2>. DEFINE A == {v \in versions[s.site] : v < ranked[k].at}
  <2>. DEFINE B == {v \in versions'[s.site] : v < ranked[l].at}
  <2>8. Counted(s) = Cardinality(A) /\ IsFiniteSet(A)
    BY <1>2, <1>3, <2>2, <2>7 DEF RankingSets, Earlier
  <2>9. Counted(s)' = Cardinality(B) /\ IsFiniteSet(B)
    <3>1. Counted(s)' = Earlier(ranked[l])'
      BY <1>2, <1>3, <2>3 DEF RankingSets
    <3>2. Earlier(ranked[l])' = Cardinality(B)
      BY <2>5, <2>7 DEF Earlier
    <3>. DEFINE r == ranked[l]
    <3>3. r \in Scored /\ r.site = s.site /\ B = {v \in versions'[r.site] : v < r.at}
      BY <2>7
    <3>. HIDE DEF r
    <3>4. IsFiniteSet({v \in versions'[r.site] : v < r.at})
      BY <1>2, <3>3, SMTT(20) DEF RankingSets
    <3>5. QED
      BY <3>1, <3>2, <3>3, <3>4
  <2>10. A \in SUBSET B
    <3>1. versions[s.site] \subseteq versions'[s.site] /\ versions[s.site] \subseteq 0..MaxTime
      BY <1>1, <1>3 DEF RankingInv, RankingTyped
    <3>2. ranked[k].at \in Nat /\ ranked[l].at \in Nat
      BY <1>n, <1>t, <2>4, <2>6
    <3>3. QED
      BY <3>1, <3>2, <2>7
  <2>11. QED
    BY <2>8, <2>9, <2>10, FS_Subset, FS_CardinalityType
<1>11. Unusual(s)' <= Unusual(s)
  <2>1. CASE s.kind = "price"
    <3>. DEFINE m == Counted(s)
    <3>. DEFINE n == Counted(s)'
    <3>1. m \in Nat /\ n \in Nat /\ m <= n
      BY <1>10, <2>1
    <3>. HIDE DEF m, n
    <3>2. 100 \in Nat /\ 1 + m \in Nat \ {0} /\ 1 + n \in Nat \ {0} /\ 1 + m <= 1 + n
      BY <3>1
    <3>3. 100 \div (1 + n) <= 100 \div (1 + m)
      BY <3>2, QuotientsShrink, Zenon
    <3>4. QED
      BY <3>3, <2>1 DEF m, n, Unusual
  <2>2. CASE s.kind # "price"
    BY <2>2 DEF Unusual
  <2>3. QED
    BY <2>1, <2>2
<1>12. QED
  <2>1. FactorsInRange /\ FactorsInRange'
    BY FactorsBound, PTL
  <2>2. s.at <= time'
    BY <1>0, <1>3
  <2>3. s.kind = "price" => i0 \in Priced(s.site) /\ i0 \in Priced(s.site)'
    BY <1>1, <1>3 DEF Priced
  <2>4. /\ Magnitude(s) \in 0..100 /\ Emphasis(s) \in 0..100 /\ Recency(s) \in 0..100
        /\ Corroboration(s) \in 0..100 /\ Unusual(s) \in 0..100 /\ Repetition(s) \in 0..100
    BY <1>3, <2>1, <2>3 DEF FactorsInRange
  <2>5. /\ Recency(s)' \in 0..100
        /\ Corroboration(s)' \in 0..100 /\ Unusual(s)' \in 0..100 /\ Repetition(s)' \in 0..100
    BY <1>3, <2>1, <2>2, <2>3 DEF FactorsInRange
  <2>6. Weighed(Magnitude(s), Emphasis(s), Recency(s)', Corroboration(s)', Unusual(s)', Repetition(s)')
          <= Weighed(Magnitude(s), Emphasis(s), Recency(s), Corroboration(s), Unusual(s), Repetition(s))
    BY <1>5, <1>7, <1>9, <1>11, <2>4, <2>5, WeighedGrows, ZenonT(40)
  <2>7. Score(s)' <= Score(s)
    BY <1>4, <2>6 DEF Score, Weighed
  <2>8. /\ Weighed(Magnitude(s), Emphasis(s), Recency(s)', Corroboration(s)', Unusual(s)', Repetition(s)') \in 0..100
        /\ Weighed(Magnitude(s), Emphasis(s), Recency(s), Corroboration(s), Unusual(s), Repetition(s)) \in 0..100
    BY <2>4, <2>5, WeighedRange, ZenonT(40)
  <2>9. QED
    BY <1>4, <2>7, <2>8 DEF Score, Weighed

(* Scores stay between 0 and 100 and a text change never ranks high; of    *)
(* two like changes of a page the newer never ranks below the older, and   *)
(* none is told of more earlier changes than it had; and a signal gains    *)
(* importance only when another competitor does the same, a similar signal *)
(* of the page is no longer recent, or the page's text changes again that  *)
(* day (importance.ts, signals.ts), for any sites, sizes and windows.      *)
THEOREM RankingCorrect == RankingSpec => []RankingTypeOK /\ RankingIsJustified
<1>1. RankingSpec => []RankingInv
  BY RankingInvInit, RankingInvStep, PTL DEF RankingSpec
<1>2. RankingInv /\ RankingInv' /\ [RankingNext]_kVars =>
        [\A i \in Shown \cap Shown' :
           Score(ranked[i])' > Score(ranked[i]) => AnotherDoes(i) \/ RepeatLapses(i) \/ ChangesAgain(i)]_kVars
  <2>. SUFFICES ASSUME RankingInv, RankingInv', [RankingNext]_kVars,
                       NEW i \in Shown \cap Shown', Score(ranked[i])' > Score(ranked[i]),
                       ~AnotherDoes(i), ~RepeatLapses(i)
                PROVE  ChangesAgain(i)
    OBVIOUS
  <2>1. /\ i \in DOMAIN ranked /\ Stays(i) /\ ranked[i] \in Scored /\ ranked[i].at \in Nat /\ ranked[i].at <= time
        /\ time \in Nat
    BY RankingGrows, RankingRows, RankingConstants DEF Shown, RankingInv, RankingTyped, InOrderOfTime
  <2>2. CASE ranked'[i] = ranked[i]
    <3>2. PICK r : r = ranked[i]
      OBVIOUS
    <3>3. Score(r)' <= Score(r) /\ Score(r) \in 0..100 /\ Score(r)' \in 0..100
      BY <2>2, <3>2, ImportanceFades
    <3>4. Score(ranked[i])' = Score(r)' /\ Score(ranked[i]) = Score(r)
      BY <2>2, <3>2
    <3>5. QED
      BY <3>3, <3>4
  <2>3. CASE ranked'[i] # ranked[i]
    <3>1. ranked'[i] = [ranked[i] EXCEPT !.at = time + 1] /\ ranked[i].kind = "text" /\ DayOf(ranked[i].at) = DayOf(time + 1)
      BY <2>1, <2>3 DEF Stays
    <3>2. ranked'[i].at = time + 1
      BY <2>1, <3>1 DEF Scored
    <3>3. ranked'[i].at > ranked[i].at
      BY <2>1, <3>2
    <3>4. QED
      BY <3>1, <3>2, <3>3 DEF ChangesAgain
  <2>4. QED
    BY <2>2, <2>3
<1>3. RankingInv => NewerNotBelow /\ NeverOvertold
  BY NewerRanks, CountedFromOldest
<1>4. QED
  BY <1>1, <1>2, <1>3, RankingTyping, PTL DEF RankingSpec, RankingIsJustified, RisesAreExplained

-----------------------------------------------------------------------------
(* The health of sources: types; what a row says of its scans: when the    *)
(* page was last fetched, whether it was tried since it was resumed and    *)
(* whether the last try failed.                                            *)
AttemptSet == [of : Sources, at : 0..MaxToday, outcome : Outcome]
HealthTyped ==
  /\ source \in [Sources -> SourceRow] /\ observed \in BOOLEAN /\ moment \in 0..MaxToday /\ found \subseteq Sources
  /\ attempts \in Seq(AttemptSet) /\ Len(attempts) <= MaxAttempts
  /\ fresh \in [Sources -> 0..Len(attempts)]
RowTells(u) ==
  /\ source[u].success = NoTime => Seen(u) = {}
  /\ source[u].success # NoTime => source[u].success \in Seen(u)
  /\ source[u].success <= moment /\ \A t \in Seen(u) : t <= source[u].success
  /\ source[u].attempt = NoTime <=> Since(u) = {}
  /\ source[u].fails > 0 <=> Failing(u)
HealthInv == HealthTyped /\ \A u \in Sources : RowTells(u)

LEMMA AttemptFields ==
  ASSUME NEW a \in AttemptSet
  PROVE  a.of \in Sources /\ a.at \in Nat /\ a.at <= MaxToday /\ a.outcome \in Outcome
<1>1. a.of \in Sources /\ a.at \in 0..MaxToday /\ a.outcome \in Outcome
  BY DEF AttemptSet
<1>2. MaxToday \in Nat
  BY SourceHealthConstants
<1>3. QED
  BY <1>1, <1>2

LEMMA AttemptRows ==
  ASSUME HealthTyped
  PROVE  /\ Len(attempts) \in Nat /\ DOMAIN attempts = 1..Len(attempts)
         /\ \A i \in DOMAIN attempts : attempts[i] \in AttemptSet /\ attempts[i].at \in Nat /\ i \in Nat
<1>1. attempts \in Seq(AttemptSet)
  BY DEF HealthTyped
<1>2. Len(attempts) \in Nat /\ DOMAIN attempts = 1..Len(attempts) /\ \A i \in DOMAIN attempts : attempts[i] \in AttemptSet
  BY <1>1
<1>3. \A i \in DOMAIN attempts : attempts[i].at \in Nat
  BY <1>2, AttemptFields
<1>4. \A i \in DOMAIN attempts : i \in Nat
  BY <1>2
<1>5. QED
  BY <1>2, <1>3, <1>4

LEMMA HealthInvInit == HealthInit => HealthInv
<1>. SUFFICES ASSUME HealthInit PROVE HealthInv
  OBVIOUS
<1>1. Len(attempts) = 0 /\ DOMAIN attempts = {} /\ attempts \in Seq(AttemptSet)
  BY DEF HealthInit
<1>2. \A c \in Cadences : [active |-> TRUE, disabled |-> FALSE, fails |-> 0, success |-> NoTime,
                           attempt |-> NoTime, cadence |-> c] \in SourceRow
  BY DEF SourceRow
<1>3. HealthTyped
  BY <1>1, <1>2, SourceHealthConstants DEF HealthInit, HealthTyped
<1>4. ASSUME NEW u \in Sources PROVE RowTells(u)
  <2>1. Mine(u) = {} /\ Since(u) = {} /\ Seen(u) = {} /\ ~Failing(u)
    BY <1>1 DEF Mine, Since, Seen, Failing, OfSource
  <2>2. source[u].success = NoTime /\ source[u].attempt = NoTime /\ source[u].fails = 0
    BY DEF HealthInit
  <2>3. ~(source[u].fails > 0) /\ source[u].success <= moment
    BY <2>2 DEF HealthInit, NoTime
  <2>4. QED
    BY <2>1, <2>2, <2>3 DEF RowTells
<1>5. QED
  BY <1>3, <1>4 DEF HealthInv

LEMMA GreatestIs ==
  ASSUME NEW S \in SUBSET Nat, NEW n \in S, \A j \in S : j <= n, NEW i \in S
  PROVE  (\A j \in S : j <= i) <=> i = n
<1>1. i \in Nat /\ n \in Nat /\ i <= n
  OBVIOUS
<1>2. ASSUME \A j \in S : j <= i PROVE i = n
  <2>1. n <= i
    BY <1>2
  <2>2. QED
    BY <1>1, <2>1
<1>3. QED
  BY <1>2

(* One more attempt, seen from each source.                                *)
LEMMA AttemptsGrow ==
  ASSUME HealthTyped, NEW row \in AttemptSet, attempts' = Append(attempts, row), fresh' = fresh, NEW v \in Sources
  PROVE  /\ row.of # v => Mine(v)' = Mine(v) /\ Since(v)' = Since(v) /\ Seen(v)' = Seen(v) /\ (Failing(v)' <=> Failing(v))
         /\ row.of = v => /\ Since(v)' # {} /\ (Failing(v)' <=> row.outcome = "failed")
                          /\ row.outcome \in Fetched => Seen(v)' = Seen(v) \cup {row.at}
                          /\ row.outcome \notin Fetched => Seen(v)' = Seen(v)
<1>. DEFINE n == Len(attempts) + 1
<1>0. Len(attempts) \in Nat /\ DOMAIN attempts = 1..Len(attempts) /\ attempts \in Seq(AttemptSet)
  BY AttemptRows DEF HealthTyped
<1>1. n \in Nat /\ DOMAIN attempts' = DOMAIN attempts \cup {n} /\ n \notin DOMAIN attempts
  BY <1>0
<1>2. attempts'[n] = row /\ \A i \in DOMAIN attempts : attempts'[i] = attempts[i]
  BY <1>0
<1>3. \A i \in DOMAIN attempts : i \in Nat /\ i < n
  BY <1>0
<1>4. fresh'[v] = fresh[v] /\ fresh[v] \in Nat /\ fresh[v] < n
  BY <1>0 DEF HealthTyped
<1>. HIDE DEF n
<1>5. Mine(v)' = IF row.of = v THEN Mine(v) \cup {n} ELSE Mine(v)
  BY <1>1, <1>2 DEF Mine, OfSource
<1>6. Mine(v) \subseteq DOMAIN attempts
  BY DEF Mine, OfSource
<1>7. Since(v)' = IF row.of = v THEN Since(v) \cup {n} ELSE Since(v)
  BY <1>4, <1>5 DEF Since
<1>8. Since(v) \subseteq DOMAIN attempts
  BY <1>6 DEF Since
<1>9. Seen(v)' = IF row.of = v /\ row.outcome \in Fetched THEN Seen(v) \cup {row.at} ELSE Seen(v)
  BY <1>1, <1>2, <1>5, <1>6 DEF Seen
<1>10. row.of # v => (Failing(v)' <=> Failing(v))
  BY <1>2, <1>7, <1>8 DEF Failing
<1>11. row.of = v => (Failing(v)' <=> row.outcome = "failed")
  <2>. SUFFICES ASSUME row.of = v PROVE Failing(v)' <=> row.outcome = "failed"
    OBVIOUS
  <2>1. Since(v)' = Since(v) \cup {n} /\ \A j \in Since(v)' : j <= n
    <3>1. n <= n /\ \A j \in Since(v) : j <= n
      BY <1>1, <1>3, <1>8
    <3>2. QED
      BY <1>7, <3>1
  <2>2. \A i \in Since(v)' : (\A j \in Since(v)' : j <= i) <=> i = n
    <3>1. Since(v)' \in SUBSET Nat /\ n \in Since(v)'
      BY <1>1, <1>3, <1>8, <2>1
    <3>. DEFINE S == Since(v)'
    <3>2. S \in SUBSET Nat /\ n \in S /\ \A j \in S : j <= n
      BY <2>1, <3>1
    <3>. HIDE DEF S
    <3>3. \A i \in S : (\A j \in S : j <= i) <=> i = n
      BY <3>2, GreatestIs
    <3>4. QED
      BY <3>3 DEF S
  <2>3. QED
    BY <1>2, <2>1, <2>2 DEF Failing
<1>12. QED
  BY <1>5, <1>7, <1>9, <1>10, <1>11

LEMMA HealthInvStep == HealthInv /\ [HealthNext]_uVars => HealthInv'
<1>. SUFFICES ASSUME HealthInv, [HealthNext]_uVars PROVE HealthInv'
  OBVIOUS
<1>0. /\ source \in [Sources -> SourceRow] /\ moment \in 0..MaxToday /\ moment \in Nat /\ Len(attempts) \in Nat
      /\ fresh \in [Sources -> 0..Len(attempts)]
  BY AttemptRows, SourceHealthConstants DEF HealthInv, HealthTyped
(* A scan.                                                                 *)
<1>1. ASSUME NEW u \in Sources, NEW outcome \in Outcome, RecordScan(u, outcome) PROVE HealthInv'
  <2>. DEFINE row == [of |-> u, at |-> moment, outcome |-> outcome]
  <2>1. /\ attempts' = Append(attempts, row) /\ fresh' = fresh /\ Len(attempts) < MaxAttempts /\ row \in AttemptSet
        /\ row.of = u /\ row.at = moment /\ row.outcome = outcome
        /\ source' = [source EXCEPT ![u] = Attempted(source[u], outcome)]
        /\ found' = found /\ observed' = observed /\ moment' = moment
    BY <1>0, <1>1 DEF RecordScan, AttemptSet
  <2>. HIDE DEF row
  <2>2. source[u] \in SourceRow /\ Attempted(source[u], outcome) \in SourceRow
    BY <1>0 DEF Attempted, SourceRow
  <2>3. HealthTyped'
    <3>1. attempts' \in Seq(AttemptSet) /\ Len(attempts') = Len(attempts) + 1
      BY <2>1 DEF HealthInv, HealthTyped
    <3>2. Len(attempts') <= MaxAttempts /\ fresh' \in [Sources -> 0..Len(attempts')]
      BY <1>0, <2>1, <3>1, SourceHealthConstants
    <3>3. source' \in [Sources -> SourceRow]
      BY <1>0, <2>1, <2>2
    <3>4. QED
      BY <2>1, <3>1, <3>2, <3>3 DEF HealthInv, HealthTyped
  <2>4. ASSUME NEW v \in Sources PROVE RowTells(v)'
    <3>1. CASE v # u
      <4>1. source'[v] = source[v] /\ row.of # v
        BY <1>0, <2>1, <3>1
      <4>2. Since(v)' = Since(v) /\ Seen(v)' = Seen(v) /\ (Failing(v)' <=> Failing(v))
        BY <2>1, <4>1, AttemptsGrow DEF HealthInv
      <4>3. QED
        BY <2>1, <4>1, <4>2 DEF HealthInv, RowTells
    <3>2. CASE v = u
      <4>1. /\ Since(u)' # {} /\ (Failing(u)' <=> outcome = "failed")
            /\ outcome \in Fetched => Seen(u)' = Seen(u) \cup {moment}
            /\ outcome \notin Fetched => Seen(u)' = Seen(u)
        BY <2>1, AttemptsGrow DEF HealthInv
      <4>. DEFINE s == source[u]
      <4>2. /\ s.success \in Int /\ s.success <= moment /\ s.fails \in Nat
            /\ s.success = NoTime => Seen(u) = {}
            /\ s.success # NoTime => s.success \in Seen(u)
            /\ \A t \in Seen(u) : t <= s.success
        <5>1. s.success \in Nat \cup {NoTime} /\ s.fails \in Nat
          BY <2>2 DEF SourceRow
        <5>2. QED
          BY <5>1 DEF HealthInv, RowTells, NoTime
      <4>3. /\ source'[u].attempt = moment /\ moment # NoTime
            /\ source'[u].fails = IF outcome \in Fetched THEN 0 ELSE s.fails + 1
            /\ source'[u].success = IF outcome \in Fetched THEN moment ELSE s.success
        BY <1>0, <2>1 DEF Attempted, NoTime
      <4>. HIDE DEF s
      <4>4. outcome \in Fetched <=> outcome # "failed"
        BY DEF Fetched, Outcome
      <4>5. CASE outcome \in Fetched
        <5>1. \A t \in Seen(u)' : t <= moment
          <6>1. \A t \in Seen(u) : t \in Int
            BY AttemptRows DEF HealthInv, Seen, Mine, OfSource
          <6>2. QED
            BY <1>0, <4>1, <4>2, <4>5, <6>1
        <5>2. moment \in Seen(u)' /\ moment <= moment /\ ~(0 > 0)
          BY <1>0, <4>1, <4>5
        <5>3. ~Failing(u)'
          BY <4>1, <4>4, <4>5
        <5>4. QED
          BY <2>1, <3>2, <4>1, <4>3, <4>5, <5>1, <5>2, <5>3 DEF RowTells
      <4>6. CASE outcome \notin Fetched
        <5>1. Failing(u)' /\ s.fails + 1 > 0
          BY <4>1, <4>2, <4>4, <4>6
        <5>2. QED
          BY <2>1, <3>2, <4>1, <4>2, <4>3, <4>6, <5>1 DEF RowTells
      <4>7. QED
        BY <4>5, <4>6
    <3>3. QED
      BY <3>1, <3>2
  <2>5. QED
    BY <2>3, <2>4 DEF HealthInv
(* A source is stopped, paused or resumed.                                 *)
<1>2. ASSUME attempts' = attempts, moment' \in Nat, moment <= moment', HealthTyped',
             \A v \in Sources :
               \/ /\ fresh'[v] = fresh[v] /\ source'[v].success = source[v].success
                  /\ source'[v].attempt = source[v].attempt /\ source'[v].fails = source[v].fails
               \/ /\ fresh'[v] = Len(attempts) /\ source'[v].success = source[v].success
                  /\ source'[v].attempt = NoTime /\ source'[v].fails = 0
      PROVE  HealthInv'
  <2>. SUFFICES ASSUME NEW v \in Sources PROVE RowTells(v)'
    BY <1>2 DEF HealthInv
  <2>1. Mine(v)' = Mine(v) /\ Seen(v)' = Seen(v) /\ Mine(v) \subseteq DOMAIN attempts
    BY <1>2 DEF Mine, Seen, OfSource
  <2>2. source[v].success <= moment' /\ RowTells(v)
    <3>1. source[v].success \in Nat \cup {NoTime} /\ source[v].success <= moment
      BY <1>0 DEF HealthInv, RowTells, SourceRow
    <3>2. QED
      BY <1>0, <1>2, <3>1 DEF HealthInv, NoTime
  <2>3. CASE fresh'[v] = fresh[v] /\ source'[v].success = source[v].success
             /\ source'[v].attempt = source[v].attempt /\ source'[v].fails = source[v].fails
    <3>1. Since(v)' = Since(v)
      BY <2>1, <2>3 DEF Since
    <3>2. Failing(v)' <=> Failing(v)
      BY <1>2, <3>1 DEF Failing
    <3>3. QED
      BY <2>1, <2>2, <2>3, <3>1, <3>2 DEF RowTells
  <2>4. CASE fresh'[v] = Len(attempts) /\ source'[v].success = source[v].success
             /\ source'[v].attempt = NoTime /\ source'[v].fails = 0
    <3>1. Since(v)' = {}
      <4>1. \A i \in DOMAIN attempts : ~(i > Len(attempts))
        BY AttemptRows DEF HealthInv
      <4>2. QED
        BY <2>1, <2>4, <4>1 DEF Since
    <3>2. ~Failing(v)' /\ ~(0 > 0)
      BY <3>1 DEF Failing
    <3>3. QED
      BY <2>1, <2>2, <2>4, <3>1, <3>2 DEF RowTells
  <2>5. QED
    BY <1>2, <2>3, <2>4
<1>3. CASE FindUnreachable
  <2>1. HealthTyped'
    BY <1>0, <1>3 DEF FindUnreachable, HealthInv, HealthTyped
  <2>2. QED
    BY <1>0, <1>2, <1>3, <2>1 DEF FindUnreachable
<1>4. CASE StopUnreachable
  <2>1. \A s \in SourceRow : Halted(s) \in SourceRow /\ Halted(s).success = s.success
                             /\ Halted(s).attempt = s.attempt /\ Halted(s).fails = s.fails
    BY DEF Halted, SourceRow
  <2>2. \A v \in Sources : source'[v] = source[v] \/ source'[v] = Halted(source[v])
    BY <1>4 DEF StopUnreachable
  <2>3. source' \in [Sources -> SourceRow]
    <3>1. \A v \in Sources : source'[v] \in SourceRow
      BY <1>0, <2>1, <2>2
    <3>2. DOMAIN source' = Sources /\ source' = [v \in Sources |-> source'[v]]
      BY <1>4 DEF StopUnreachable
    <3>3. QED
      BY <3>1, <3>2
  <2>4. HealthTyped'
    BY <1>0, <1>4, <2>3 DEF StopUnreachable, HealthInv, HealthTyped
  <2>5. QED
    BY <1>0, <1>2, <1>4, <2>1, <2>2, <2>4 DEF StopUnreachable
<1>5. CASE \E u \in Sources : PauseSource(u)
  <2>. PICK u \in Sources : PauseSource(u)
    BY <1>5
  <2>. DEFINE paused == [source[u] EXCEPT !.active = FALSE]
  <2>1. paused \in SourceRow /\ paused.success = source[u].success
        /\ paused.attempt = source[u].attempt /\ paused.fails = source[u].fails
    BY <1>0 DEF SourceRow
  <2>2. source' = [source EXCEPT ![u] = paused]
    BY DEF PauseSource
  <2>. HIDE DEF paused
  <2>3. HealthTyped'
    BY <1>0, <2>1, <2>2 DEF PauseSource, HealthInv, HealthTyped
  <2>4. \A v \in Sources : source'[v] = IF v = u THEN paused ELSE source[v]
    BY <1>0, <2>2
  <2>5. QED
    BY <1>0, <1>2, <2>1, <2>3, <2>4 DEF PauseSource
<1>6. CASE \E u \in Sources : ResumeSource(u)
  <2>. PICK u \in Sources : ResumeSource(u)
    BY <1>6
  <2>1. Renewed(source[u]) \in SourceRow
    <3>1. source[u] \in SourceRow
      BY <1>0
    <3>2. source[u].success \in Nat \cup {NoTime} /\ source[u].cadence \in Cadences
      BY <3>1 DEF SourceRow
    <3>3. QED
      BY <3>2 DEF Renewed, SourceRow
  <2>2. Renewed(source[u]).success = source[u].success /\ Renewed(source[u]).attempt = NoTime /\ Renewed(source[u]).fails = 0
    BY DEF Renewed
  <2>3. \A v \in Sources : /\ source'[v] = IF v = u THEN Renewed(source[u]) ELSE source[v]
                           /\ fresh'[v] = IF v = u THEN Len(attempts) ELSE fresh[v]
    BY <1>0 DEF ResumeSource
  <2>4. source' \in [Sources -> SourceRow] /\ fresh' \in [Sources -> 0..Len(attempts)]
    BY <1>0, <2>1 DEF ResumeSource
  <2>5. HealthTyped'
    BY <1>0, <2>4 DEF ResumeSource, HealthInv, HealthTyped
  <2>6. QED
    BY <1>0, <1>2, <2>2, <2>3, <2>5 DEF ResumeSource
<1>7. CASE ObserveCompetitor \/ TimePasses \/ UNCHANGED uVars
  <2>1. moment' \in 0..MaxToday /\ moment' \in Nat /\ moment <= moment' /\ observed' \in BOOLEAN
        /\ UNCHANGED <<source, attempts, found, fresh>>
    <3>1. UNCHANGED <<source, attempts, found, fresh>>
      BY <1>7 DEF ObserveCompetitor, TimePasses, uVars
    <3>2. moment' = moment \/ (moment < MaxToday /\ moment' = moment + 1)
      BY <1>7 DEF ObserveCompetitor, TimePasses, uVars
    <3>3. observed' \in BOOLEAN
      BY <1>7 DEF ObserveCompetitor, TimePasses, uVars, HealthInv, HealthTyped
    <3>4. moment' \in 0..MaxToday /\ moment' \in Nat /\ moment <= moment'
      BY <1>0, <3>2, SourceHealthConstants
    <3>5. QED
      BY <3>1, <3>3, <3>4
  <2>2. HealthTyped'
    BY <2>1 DEF HealthInv, HealthTyped
  <2>3. QED
    BY <1>2, <2>1, <2>2
<1>8. QED
  BY <1>1, <1>3, <1>4, <1>5, <1>6, <1>7 DEF HealthNext

(* Of places: the newest of a set are the last of it, as many as asked for *)
(* at most, and all of it when it has no more.                             *)
Places == SUBSET (DOMAIN attempts)
LEMMA PlacesFinite ==
  ASSUME HealthTyped, NEW S \in Places
  PROVE  IsFiniteSet(S) /\ Cardinality(S) \in Nat /\ S \subseteq Nat
<1>1. Len(attempts) \in Int /\ DOMAIN attempts = 1..Len(attempts) /\ 1 \in Int /\ DOMAIN attempts \subseteq Nat
  BY AttemptRows
<1>2. IsFiniteSet(DOMAIN attempts)
  BY <1>1, FS_Interval
<1>3. S \in SUBSET (DOMAIN attempts)
  BY DEF Places
<1>4. IsFiniteSet(S)
  BY <1>2, <1>3, FS_Subset
<1>5. QED
  BY <1>1, <1>3, <1>4, FS_CardinalityType

Ending(S, R) == R \subseteq S /\ \A i \in R, j \in S : j > i => j \in R

LEMMA NewestAreLast ==
  ASSUME HealthTyped, NEW S \in Places, NEW n \in Nat
  PROVE  Newest(S, n) \in Places /\ Ending(S, Newest(S, n)) /\ Cardinality(Newest(S, n)) \in 0..n
<1>. DEFINE N == Newest(S, n)
<1>0. N \in SUBSET S /\ N \in Places
  BY DEF Newest, Places
<1>1. ASSUME NEW i \in N, NEW j \in S, j > i PROVE j \in N
  <2>1. {k \in S : k > j} \in SUBSET {k \in S : k > i}
    <3>1. i \in Nat /\ j \in Nat /\ \A k \in S : k \in Nat
      BY <1>0, PlacesFinite
    <3>2. \A k \in S : k > j => k > i
      BY <1>1, <3>1
    <3>3. QED
      BY <3>2
  <2>2. {k \in S : k > i} \in Places /\ {k \in S : k > j} \in Places
    BY DEF Places
  <2>3. Cardinality({k \in S : k > j}) <= Cardinality({k \in S : k > i})
    BY <2>1, <2>2, PlacesFinite, FS_Subset
  <2>4. Cardinality({k \in S : k > i}) < n
    BY DEF Newest
  <2>5. Cardinality({k \in S : k > j}) \in Nat /\ Cardinality({k \in S : k > i}) \in Nat
    BY <2>2, PlacesFinite
  <2>6. Cardinality({k \in S : k > j}) < n
    BY <2>3, <2>4, <2>5
  <2>7. QED
    BY <2>6 DEF Newest
<1>2. CASE N = {}
  BY <1>0, <1>1, <1>2, FS_EmptySet DEF Ending
<1>3. CASE N # {}
  <2>1. PICK m \in N : \A j \in N : m <= j
    BY <1>0, <1>3, PlacesFinite, LeastOf
  <2>. DEFINE above == {k \in S : k > m}
  <2>2. above \in Places /\ IsFiniteSet(above) /\ Cardinality(above) \in Nat
    BY PlacesFinite DEF Places
  <2>3. Cardinality(above) < n
    BY DEF Newest
  <2>4. N \ {m} \in SUBSET above
    <3>1. N \subseteq Nat
      BY <1>0, PlacesFinite
    <3>2. QED
      BY <1>0, <2>1, <3>1
  <2>. HIDE DEF above
  <2>5. Cardinality(N \ {m}) <= Cardinality(above) /\ IsFiniteSet(N)
    BY <1>0, <2>2, <2>4, PlacesFinite, FS_Subset
  <2>. HIDE DEF N
  <2>6. Cardinality(N \ {m}) = Cardinality(N) - 1 /\ Cardinality(N) \in Nat
    BY <2>1, <2>5, FS_RemoveElement, FS_CardinalityType
  <2>7. Cardinality(N) \in 0..n
    BY <2>2, <2>3, <2>5, <2>6
  <2>8. QED
    BY <1>0, <1>1, <2>7 DEF Ending, N
<1>4. QED
  BY <1>2, <1>3

(* The last ones of a set are its newest, as many as they are.             *)
LEMMA LastAreNewest ==
  ASSUME HealthTyped, NEW S \in Places, NEW R, Ending(S, R)
  PROVE  Newest(S, Cardinality(R)) = R
<1>1. R \in Places /\ R \in SUBSET S
  BY DEF Ending, Places
<1>2. IsFiniteSet(R) /\ Cardinality(R) \in Nat /\ S \subseteq Nat
  BY <1>1, PlacesFinite
<1>3. ASSUME NEW i \in R PROVE Cardinality({j \in S : j > i}) < Cardinality(R)
  <2>. DEFINE above == {j \in S : j > i}
  <2>1. above \in SUBSET (R \ {i})
    <3>1. ~(i > i)
      BY <1>1, <1>2
    <3>2. \A j \in above : j \in R /\ j # i
      BY <3>1 DEF Ending
    <3>3. QED
      BY <3>2
  <2>2. IsFiniteSet(R \ {i}) /\ Cardinality(R \ {i}) = Cardinality(R) - 1
    BY <1>2, FS_RemoveElement
  <2>3. Cardinality(above) <= Cardinality(R \ {i}) /\ Cardinality(above) \in Nat
    BY <2>1, <2>2, FS_Subset, FS_CardinalityType
  <2>. HIDE DEF above
  <2>4. Cardinality(above) < Cardinality(R)
    BY <1>2, <2>2, <2>3
  <2>5. QED
    BY <2>4 DEF above
<1>4. ASSUME NEW i \in S \ R PROVE ~(Cardinality({j \in S : j > i}) < Cardinality(R))
  <2>. DEFINE above == {j \in S : j > i}
  <2>1. R \in SUBSET above
    <3>1. \A k \in R : k \in Nat /\ i \in Nat /\ k # i /\ ~(i > k)
      BY <1>1, <1>2 DEF Ending
    <3>2. QED
      BY <1>1, <3>1
  <2>2. above \in Places /\ IsFiniteSet(above) /\ Cardinality(above) \in Nat
    BY PlacesFinite DEF Places
  <2>3. Cardinality(R) <= Cardinality(above)
    BY <2>1, <2>2, FS_Subset
  <2>4. QED
    BY <1>2, <2>2, <2>3
<1>5. QED
  BY <1>1, <1>3, <1>4 DEF Newest

LEMMA NewestOfFew ==
  ASSUME HealthTyped, NEW S \in Places, NEW n \in Nat, Cardinality(S) <= n
  PROVE  Newest(S, n) = S
<1>1. Ending(S, S)
  BY DEF Ending
<1>2. Newest(S, Cardinality(S)) = S /\ Cardinality(S) \in Nat
  BY <1>1, LastAreNewest, PlacesFinite
<1>3. \A i \in S : Cardinality({j \in S : j > i}) < n
  <2>1. \A i \in S : Cardinality({j \in S : j > i}) < Cardinality(S)
    BY <1>2 DEF Newest
  <2>2. \A i \in S : Cardinality({j \in S : j > i}) \in Nat
    BY PlacesFinite DEF Places
  <2>3. QED
    BY <1>2, <2>1, <2>2
<1>4. QED
  BY <1>3 DEF Newest

(* The places read of one source are the last of its recent ones, as many  *)
(* as the window holds at most; where no snapshot is left unread they are  *)
(* its newest.                                                             *)
LEMMA ScansRead ==
  ASSUME HealthTyped, NEW u \in Sources
  PROVE  /\ RecentScans(u) = Newest(OfSource(Lately, u), Cardinality(RecentScans(u)))
         /\ Cardinality(RecentScans(u)) \in 0..RecentWindow
         /\ Cardinality(Lately) <= Cardinality(Sources) * RecentRows =>
              RecentScans(u) = Newest(OfSource(Lately, u), RecentWindow)
<1>. DEFINE limit == Cardinality(Sources) * RecentRows
            own   == OfSource(RowsRead, u)
            R     == RecentScans(u)
<1>1. RecentRows \in Nat /\ RecentWindow \in Nat /\ Cardinality(Sources) \in Nat
  BY SourceHealthConstants, FS_CardinalityType
<1>2. limit \in Nat
  BY <1>1
<1>3. Lately \in Places
  BY DEF Lately, Snapshots, Places
<1>4. RowsRead = Newest(Lately, limit)
  BY DEF RowsRead
<1>5. R = Newest(own, RecentWindow)
  BY DEF RecentScans
<1>6. Cardinality(Lately) \in Nat
  BY <1>3, PlacesFinite
<1>. HIDE DEF limit
<1>7. RowsRead \in Places /\ Ending(Lately, RowsRead)
  BY <1>2, <1>3, <1>4, NewestAreLast
<1>8. own \in Places /\ Ending(OfSource(Lately, u), own) /\ OfSource(Lately, u) \in Places
  BY <1>3, <1>7 DEF OfSource, Ending, Places
<1>. HIDE DEF own, R
<1>9. R \in Places /\ Ending(own, R) /\ Cardinality(R) \in 0..RecentWindow
  BY <1>1, <1>5, <1>8, NewestAreLast
<1>10. Ending(OfSource(Lately, u), R)
  BY <1>8, <1>9 DEF Ending
<1>11. R = Newest(OfSource(Lately, u), Cardinality(R))
  BY <1>8, <1>10, LastAreNewest
<1>12. ASSUME Cardinality(Lately) <= limit PROVE R = Newest(OfSource(Lately, u), RecentWindow)
  <2>1. RowsRead = Lately
    BY <1>2, <1>3, <1>4, <1>12, NewestOfFew
  <2>2. QED
    BY <1>5, <2>1 DEF own
<1>13. QED
  BY <1>9, <1>11, <1>12 DEF R, limit

(* The names of the states differ, and a source is in one of them for the  *)
(* reasons deriveSourceHealth gives.                                       *)
LEMMA StateOfSource ==
  ASSUME NEW s, NEW places
  PROVE  LET h == DeriveSourceHealth(s, places)
             idle == s.attempt = NoTime /\ s.success = NoTime
             old == DataAge(s) > StaleAfter(s)
         IN  /\ h \in {"STALE", "DISABLED"} <=> s.disabled = TRUE \/ (~s.disabled /\ s.active /\ ~idle /\ old)
             /\ h = "DEGRADED" => ~idle /\ ~old /\ s.fails > 0
             /\ h \in {"HEALTHY", "PARTIAL"} => ~idle /\ ~old /\ ~(s.fails > 0)
             /\ h = "PARTIAL" => MostlyUnverified(places)
             /\ h = "HEALTHY" => ~MostlyUnverified(places)
  BY DEF DeriveSourceHealth

LEMMA HealthTold == HealthInv => HealthTypeOK /\ HealthTellsWhatWasSeen
<1>. SUFFICES ASSUME HealthInv PROVE HealthTypeOK /\ HealthTellsWhatWasSeen
  OBVIOUS
<1>1. HealthTypeOK
  BY DEF HealthInv, HealthTyped, HealthTypeOK, AttemptSet
<1>2. ASSUME NEW u \in Sources
      PROVE  LET s == source[u]
                 old == \A t \in Seen(u) \cup {0} : moment - t > StaleAfter(s)
                 tried == Seen(u) # {} \/ Since(u) # {}
             IN  /\ u \in NeedAttention <=> observed /\ (s.disabled \/ (s.active /\ tried /\ old))
                 /\ Health(u) = "DEGRADED" => Failing(u) /\ ~old
                 /\ Health(u) \in {"HEALTHY", "PARTIAL"} => ~Failing(u) /\ ~old /\ Seen(u) # {}
                 /\ Health(u) = "PARTIAL" => \E n \in PartialMin..RecentWindow : MostlyUnverified(Newest(OfSource(Lately, u), n))
                 /\ Health(u) = "HEALTHY" /\ MostlyUnverified(Newest(OfSource(Lately, u), RecentWindow)) =>
                      Cardinality(Lately) > Cardinality(Sources) * RecentRows
  <2>. DEFINE s == source[u]
              old == \A t \in Seen(u) \cup {0} : moment - t > StaleAfter(s)
              idle == s.attempt = NoTime /\ s.success = NoTime
              R == RecentScans(u)
  <2>0. HealthTyped /\ RowTells(u) /\ s \in SourceRow /\ moment \in Nat
    BY SourceHealthConstants DEF HealthInv, HealthTyped
  <2>1. s.success \in Nat \cup {NoTime} /\ s.disabled \in BOOLEAN /\ s.active \in BOOLEAN /\ s.cadence \in Nat
    BY <2>0, SourceHealthConstants DEF SourceRow
  <2>2. StaleAfter(s) \in Nat
    <3>1. StaleMultiple * s.cadence \in Nat /\ StaleMin \in Nat
      BY <2>1, SourceHealthConstants
    <3>2. QED
      BY <3>1 DEF StaleAfter
  (* The data is as old as the last time the page was seen.                *)
  <2>3. old <=> DataAge(s) > StaleAfter(s)
    <3>1. /\ s.success = NoTime => Seen(u) = {}
          /\ s.success # NoTime => s.success \in Seen(u)
          /\ \A t \in Seen(u) : t <= s.success
      BY <2>0 DEF RowTells
    <3>2. \A t \in Seen(u) : t \in Nat
      BY <2>0, AttemptRows DEF Seen, Mine, OfSource
    <3>. DEFINE last == IF s.success = NoTime THEN 0 ELSE s.success
                S == Seen(u) \cup {0}
    <3>3. last \in Nat /\ last \in S /\ \A t \in S : t <= last /\ t \in Nat
      <4>1. CASE s.success = NoTime
        BY <3>1, <4>1
      <4>2. CASE s.success # NoTime
        BY <2>1, <3>1, <3>2, <4>2
      <4>3. QED
        BY <4>1, <4>2
    <3>4. DataAge(s) = moment - last
      BY DEF DataAge
    <3>5. old <=> \A t \in S : moment - t > StaleAfter(s)
      OBVIOUS
    <3>. HIDE DEF last, S, old, s
    <3>6. (\A t \in S : moment - t > StaleAfter(s)) <=> moment - last > StaleAfter(s)
      BY <2>0, <2>2, <3>3
    <3>7. QED
      BY <3>4, <3>5, <3>6
  <2>4. idle <=> ~(Seen(u) # {} \/ Since(u) # {})
    BY <2>0 DEF RowTells
  <2>5. s.fails > 0 <=> Failing(u)
    BY <2>0 DEF RowTells
  (* A page tried since it was resumed, whose last try did not fail, was   *)
  (* seen.                                                                 *)
  <2>6. ASSUME ~idle, ~Failing(u) PROVE Seen(u) # {}
    <3>1. CASE s.success # NoTime
      BY <2>0, <3>1 DEF RowTells
    <3>2. CASE s.attempt # NoTime
      <4>1. Since(u) # {} /\ Since(u) \in Places
        BY <2>0, <3>2 DEF RowTells, Since, Mine, OfSource, Places
      <4>2. PICK i \in Since(u) : \A j \in Since(u) : j <= i
        <5>1. Len(attempts) \in Nat /\ Since(u) \in SUBSET (1..Len(attempts))
          BY <2>0, <4>1, AttemptRows DEF Places
        <5>2. QED
          BY <4>1, <5>1, LargestOf
      <4>3. i \in Mine(u) /\ i \in DOMAIN attempts
        BY DEF Since, Mine, OfSource
      <4>4. attempts[i].outcome \in Outcome
        BY <2>0, <4>3, AttemptRows, AttemptFields
      <4>5. attempts[i].outcome \in Fetched
        BY <2>6, <4>2, <4>4 DEF Failing, Fetched
      <4>6. QED
        BY <4>3, <4>5 DEF Seen
    <3>3. QED
      BY <2>6, <3>1, <3>2
  <2>7. Health(u) = DeriveSourceHealth(s, R)
    BY DEF Health
  <2>8. /\ Health(u) \in {"STALE", "DISABLED"} <=> s.disabled \/ (~s.disabled /\ s.active /\ ~idle /\ old)
        /\ Health(u) = "DEGRADED" => ~old /\ Failing(u)
        /\ Health(u) \in {"HEALTHY", "PARTIAL"} => ~idle /\ ~old /\ ~Failing(u)
        /\ Health(u) = "PARTIAL" => MostlyUnverified(R)
        /\ Health(u) = "HEALTHY" => ~MostlyUnverified(R)
    <3>. HIDE DEF R, s, old
    <3>1. QED
      BY <2>1, <2>3, <2>5, <2>7, StateOfSource
  <2>9. u \in NeedAttention <=> observed /\ (s.disabled \/ (s.active /\ ~idle /\ old))
    <3>. HIDE DEF R, s, old, idle
    <3>1. QED
      BY <2>8 DEF NeedAttention
  <2>10. ASSUME MostlyUnverified(R)
         PROVE  \E n \in PartialMin..RecentWindow : MostlyUnverified(Newest(OfSource(Lately, u), n))
    <3>1. R = Newest(OfSource(Lately, u), Cardinality(R)) /\ Cardinality(R) \in 0..RecentWindow
      BY <2>0, ScansRead
    <3>2. Cardinality(R) >= PartialMin /\ PartialMin \in Nat /\ RecentWindow \in Nat
      BY <2>10, SourceHealthConstants DEF MostlyUnverified
    <3>. HIDE DEF R
    <3>3. Cardinality(R) \in PartialMin..RecentWindow
      BY <3>1, <3>2
    <3>4. MostlyUnverified(Newest(OfSource(Lately, u), Cardinality(R)))
      BY <2>10, <3>1
    <3>5. QED
      BY <3>3, <3>4
  <2>11. ASSUME ~MostlyUnverified(R), MostlyUnverified(Newest(OfSource(Lately, u), RecentWindow))
         PROVE  Cardinality(Lately) > Cardinality(Sources) * RecentRows
    <3>1. ~(Cardinality(Lately) <= Cardinality(Sources) * RecentRows)
      BY <2>0, <2>11, ScansRead
    <3>2. RecentRows \in Nat /\ Cardinality(Sources) \in Nat
      BY SourceHealthConstants, FS_CardinalityType
    <3>3. Cardinality(Lately) \in Nat /\ Cardinality(Sources) * RecentRows \in Nat
      <4>1. Lately \in Places
        BY DEF Lately, Snapshots, Places
      <4>2. QED
        BY <2>0, <3>2, <4>1, PlacesFinite
    <3>4. QED
      BY <3>1, <3>3
  <2>. HIDE DEF R, idle
  <2>12. QED
    BY <2>4, <2>6, <2>8, <2>9, <2>10, <2>11
<1>3. QED
  BY <1>1, <1>2 DEF HealthTellsWhatWasSeen

(* What the organization is told of its sources is what their scans have   *)
(* seen (deriveSourceHealth over the facts persistMonitoringResult,        *)
(* persistNotModifiedResult, disableUnreachableSources and                 *)
(* updateMonitoredUrl leave on a row), for any sources, cadences and       *)
(* limits.                                                                 *)
THEOREM HealthCorrect == HealthSpec => [](HealthTypeOK /\ HealthTellsWhatWasSeen)
<1>1. HealthSpec => []HealthInv
  BY HealthInvInit, HealthInvStep, PTL DEF HealthSpec
<1>2. QED
  BY <1>1, HealthTold, PTL
=============================================================================
