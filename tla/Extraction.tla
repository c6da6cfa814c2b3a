----------------------------- MODULE Extraction -----------------------------
(***************************************************************************)
(* What a capture of a page says: which price belongs to which plan, under *)
(* which key it enters the history, and which promotions are told.  The    *)
(* site edits its page; a capture reads it or fails.                       *)
(*                                                                         *)
(* A page is laid out in blocks; a block is a sequence of elements, and    *)
(* one with a single element stands in the page on its own.                *)
(***************************************************************************)
EXTENDS Integers, Sequences, FiniteSets
LOCAL INSTANCE SequencesExt
LOCAL INSTANCE TLC

CONSTANTS
  PlanNames,   \* names that can be told from other headings
  Sums,        \* amounts
  Coins,       \* currencies
  Discounts,   \* percentages of promotions
  MaxBlocks,   \* bound: blocks of a page
  MaxNodes     \* bound: JSON-LD nodes, and badges

ASSUME ExtractionConstants == MaxBlocks \in Nat /\ MaxNodes \in Nat

VARIABLES
  layout,   \* the blocks of the page
  nodes,    \* its JSON-LD nodes
  badges,   \* promotional phrases next to a price: a plan's label and fields
  captured, \* entities of the latest verified capture
  seen      \* the blocks that capture read

xVars == <<layout, nodes, badges, captured, seen>>

Periods == {"month", "year", "na"}
NoPlan == [name |-> "none"]
Heading(n) == [is |-> "name", name |-> n]
Price(n, a, c, p) == [is |-> "price", name |-> n, amount |-> a, currency |-> c, period |-> p]
Elements == {Heading(n) : n \in PlanNames}
            \union {Price(n, a, c, p) : n \in PlanNames, a \in Sums, c \in Coins, p \in Periods}
Blocks == {<<e>> : e \in Elements} \union {<<d, e>> : d, e \in Elements} \union {<<d, e, f>> : d, e, f \in Elements}
Offer == [amount : Sums, currency : Coins, name : PlanNames \union {"unnamed"}, period : Periods,
          discount : Discounts \union {0}]
Node == [name : PlanNames, commercial : BOOLEAN, offers : {<<o>> : o \in Offer} \union {<<o, q>> : o, q \in Offer}]
Badge == [label : PlanNames, percentOff : Discounts \union {0}, discountCode : BOOLEAN]

-----------------------------------------------------------------------------
(* Plans in the layout.  A position is a block and an element in it.       *)
Positions == {p \in (1..MaxBlocks) \X (1..3) : p[1] \in DOMAIN layout /\ p[2] \in DOMAIN layout[p[1]]}
ElementAt(p) == layout[p[1]][p[2]]
PriceEls == {p \in Positions : ElementAt(p).is = "price"}
NamesIn(container) == {p \in container : ElementAt(p).is = "name"}
Precedes(p, q) == p[1] < q[1] \/ (p[1] = q[1] /\ p[2] < q[2])
LastOf(S) == CHOOSE p \in S : \A q \in S : q = p \/ Precedes(q, p)
FirstOf(S) == CHOOSE p \in S : \A q \in S : q = p \/ Precedes(p, q)

(* Ancestors of an element, innermost first.                               *)
Containers(p) ==
  LET block == {q \in Positions : q[1] = p[1]} IN
  IF Len(layout[p[1]]) > 1 THEN <<block, Positions>> ELSE <<Positions>>

PlanAt(p, name) == [name |-> name, amount |-> ElementAt(p).amount, currency |-> ElementAt(p).currency,
                    period |-> ElementAt(p).period, owner |-> ElementAt(p).name]

(* Children of a container: a block's elements, or the page's blocks.      *)
Kids(container) ==
  IF \E p, q \in container : p[1] # q[1]
  THEN [i \in DOMAIN layout |-> {q \in container : q[1] = i}]
  ELSE LET b == (CHOOSE p \in container : TRUE)[1] IN [i \in DOMAIN layout[b] |-> {<<b, i>>}]
AnchorOf(p, container) == CHOOSE i \in DOMAIN Kids(container) : p \in Kids(container)[i]

(* A grid without cards: a plan's name is in the child before that of its  *)
(* price, unless that child holds the previous plan's price.               *)
NameFor(p, container) ==
  LET i == AnchorOf(p, container)
      kid == Kids(container)[i - 1]
  IN IF i = 1 THEN "none"
     ELSE IF kid \intersect PriceEls # {} THEN "none" ELSE ElementAt(FirstOf(kid)).name

(* Trusted only when every price of the container gets a name of its own.  *)
PlanFromFlatSequence(p, container) ==
  LET group == container \intersect PriceEls
      names == {NameFor(q, container) : q \in group}
  IN IF "none" \in names \/ Cardinality(names) < Cardinality(group) THEN NoPlan
     ELSE PlanAt(p, NameFor(p, container))

(* The plan of a price whose container holds names: the nearest one before *)
(* it, unless several prices and names share the container.                *)
PlanIn(p, container) ==
  LET names == NamesIn(container)
      before == {q \in names : Precedes(q, p)}
  IN IF Cardinality(container \intersect PriceEls) >= 2 /\ Cardinality(names) > 1 THEN NoPlan
     ELSE PlanAt(p, ElementAt(IF before # {} THEN LastOf(before) ELSE FirstOf(names)).name)

(* Climb from the price to the first container that settles it.            *)
PlanFromCard(p) ==
  LET settles(i) == Cardinality(Containers(p)[i] \intersect PriceEls) > 2 \/ NamesIn(Containers(p)[i]) # {}
      levels == {i \in DOMAIN Containers(p) : settles(i)}
  IN IF levels = {} THEN NoPlan
     ELSE LET container == Containers(p)[CHOOSE i \in levels : \A j \in levels : i <= j] IN
          IF Cardinality(container \intersect PriceEls) > 2 THEN PlanFromFlatSequence(p, container)
          ELSE PlanIn(p, container)

(* A copy of a plan, and a reading of it without its period, count once.   *)
UniquePlans ==
  LET read == {PlanFromCard(p) : p \in PriceEls} \ {NoPlan}
      facts == {[q EXCEPT !.owner = "any"] : q \in read}
      known(q) == q.period = "na" /\ \E r \in facts \ {q} : r.period # "na" /\ [r EXCEPT !.period = "na"] = q
  IN {q \in facts : ~known(q)}

(* Mutant: the same name with two prices is kept.                          *)
ExtractPricingPlansAll == UniquePlans

(* The same name with two prices has no stable identity.                   *)
Unambiguous(plans) ==
  {q \in plans : \A r \in plans : (r.name = q.name /\ r.period = q.period) => r.amount = q.amount}

ExtractPricingPlans == Unambiguous(UniquePlans)

(* The billing period joins the key only when the name alone would collide.*)
PlanKey(q, plans) ==
  IF \E r \in plans : r.name = q.name /\ r.period # q.period THEN <<"plan", q.name, q.period>> ELSE <<"plan", q.name>>

-----------------------------------------------------------------------------
(* Entities.                                                               *)
PriceEntity(key, label, amount, currency) ==
  [type |-> "PRICE", key |-> key, label |-> label, amount |-> amount, currency |-> currency, percentOff |-> 0, code |-> FALSE]
Promotion(key, label, percentOff, code, currency) ==
  [type |-> "PROMOTION", key |-> key, label |-> label, amount |-> 0, currency |-> currency, percentOff |-> percentOff, code |-> code]

(* Page order: where the plan is first read.                               *)
PlansToEntities(plans) ==
  LET first(q) == FirstOf({p \in PriceEls : \E r \in {PlanFromCard(p)} \ {NoPlan} : [r EXCEPT !.owner = "any"] = q})
      rank(q) == Cardinality({r \in plans : r = q \/ Precedes(first(r), first(q))})
      entity(q) == PriceEntity(PlanKey(q, plans), q.name, q.amount, q.currency)
  IN [i \in 1..Cardinality(plans) |-> entity(CHOOSE q \in plans : rank(q) = i)]

(* Every offer of a product is a price; of another node only its named     *)
(* offers are, when there are several.                                     *)
PricesOfNode(node) ==
  LET named == SelectSeq(node.offers, LAMBDA o : o.name # "unnamed")
      product(o) == PriceEntity(<<"jsonld", node.name>>, node.name, o.amount, o.currency)
      plan(o) == PriceEntity(<<"jsonld", o.name, o.currency, o.period>>, o.name, o.amount, o.currency)
  IN IF node.commercial THEN [i \in DOMAIN node.offers |-> product(node.offers[i])]
     ELSE IF Len(named) >= 2 THEN [i \in DOMAIN named |-> plan(named[i])] ELSE <<>>

PromotionOfNode(node) ==
  LET o == node.offers[1] IN
  IF node.commercial /\ o.discount # 0
  THEN <<Promotion(<<"jsonld-promo", node.name>>, node.name, o.discount, FALSE, o.currency)>>
  ELSE <<>>

(* A later entity with a key that was taken gets a number.                 *)
DisambiguateKeys(entities) ==
  [i \in DOMAIN entities |->
     LET count == Cardinality({j \in 1..i : entities[j].key = entities[i].key}) IN
     IF count = 1 THEN entities[i] ELSE [entities[i] EXCEPT !.key = Append(@, "#" \o ToString(count))]]

JsonLdEntities ==
  DisambiguateKeys(FlattenSeq([i \in DOMAIN nodes |-> PricesOfNode(nodes[i]) \o PromotionOfNode(nodes[i])]))

(* Badges of one label make one entity; each field is read once.           *)
HtmlPromotions ==
  LET first(i) == \A j \in 1..(i - 1) : badges[j].label # badges[i].label
      ofLabel(i) == {j \in DOMAIN badges : badges[j].label = badges[i].label}
      percent(i) == LET js == {j \in ofLabel(i) : badges[j].percentOff # 0} IN
                    IF js = {} THEN 0 ELSE badges[CHOOSE j \in js : \A k \in js : j <= k].percentOff
      entity(i) == Promotion(<<"html-promo", badges[i].label>>, badges[i].label, percent(i),
                             \E j \in ofLabel(i) : badges[j].discountCode, "none")
      firsts == {i \in DOMAIN badges : first(i)}
      nth(k) == CHOOSE i \in firsts : Cardinality({j \in firsts : j <= i}) = k
  IN [k \in 1..Cardinality(firsts) |-> entity(nth(k))]

(* A percentage that JSON-LD tells of the same label is not told again.    *)
Unrepeated(html, jsonLd) ==
  SelectSeq(html, LAMBDA h : h.percentOff = 0
                             \/ \A i \in DOMAIN jsonLd : ~(/\ jsonLd[i].type = "PROMOTION"
                                                           /\ jsonLd[i].label = h.label
                                                           /\ jsonLd[i].percentOff = h.percentOff))

(* JSON-LD first; plan cards only without it.                              *)
ExtractedEntities(jsonLd) ==
  LET base == IF jsonLd # <<>> THEN jsonLd ELSE PlansToEntities(ExtractPricingPlans) IN
  DisambiguateKeys(base \o Unrepeated(HtmlPromotions, jsonLd))

-----------------------------------------------------------------------------
ExtractionInit == layout = <<>> /\ nodes = <<>> /\ badges = <<>> /\ captured = <<>> /\ seen = <<>>

AddBlock(i, b) ==
  /\ Len(layout) < MaxBlocks
  /\ layout' = InsertAt(layout, i, b)
  /\ UNCHANGED <<nodes, badges, captured, seen>>

RemoveBlock(i) == layout' = RemoveAt(layout, i) /\ UNCHANGED <<nodes, badges, captured, seen>>

AddNode(n) == Len(nodes) < MaxNodes /\ nodes' = Append(nodes, n) /\ UNCHANGED <<layout, badges, captured, seen>>

AddBadge(b) == Len(badges) < MaxNodes /\ badges' = Append(badges, b) /\ UNCHANGED <<layout, nodes, captured, seen>>

(* A load that is refused, fails, is unmodified, or shows a loading        *)
(* placeholder or an application shell: nothing was observed.              *)
Unverified == UNCHANGED <<captured, seen>>

Extract(verified) ==
  /\ IF verified THEN captured' = ExtractedEntities(JsonLdEntities) /\ seen' = layout ELSE Unverified
  /\ UNCHANGED <<layout, nodes, badges>>

ExtractionNext ==
  \/ \E b \in Blocks, i \in 1..(Len(layout) + 1) : AddBlock(i, b)
  \/ \E i \in DOMAIN layout : RemoveBlock(i)
  \/ \E n \in Node : AddNode(n)
  \/ \E b \in Badge : AddBadge(b)
  \/ \E verified \in BOOLEAN : Extract(verified)

ExtractionSpec == ExtractionInit /\ [][ExtractionNext]_xVars

-----------------------------------------------------------------------------
KeysOf(entities) == {entities[i].key : i \in DOMAIN entities}

(* No two entities of one capture share a key, whichever extractor         *)
(* produced them ("two entities must never share a key").                  *)
KeysAreUnique == Cardinality(KeysOf(captured)) = Len(captured)

(* Each plan's name is in the card of its price or before it, with no      *)
(* other price or name in between.                                         *)
WellLaid(page) ==
  \A i \in DOMAIN page : \A k \in DOMAIN page[i] : page[i][k].is = "price" =>
    \/ Len(page[i]) > 1 /\ page[i][1].is = "name" /\ \A j \in DOMAIN page[i] : page[i][j].name = page[i][k].name
    \/ Len(page[i]) = 1 /\ i > 1 /\ page[i - 1] = <<Heading(page[i][k].name)>>

(* On such a page no price is read under the name of another plan, however *)
(* cards, flat grids and missing prices are mixed ("nothing is emitted"    *)
(* when it cannot be told whose price is whose).                           *)
PriceKeepsItsName ==
  WellLaid(layout) => \A p \in PriceEls : PlanFromCard(p) # NoPlan => PlanFromCard(p).name = ElementAt(p).name

(* A promotion that JSON-LD tells with a percentage is not told again by a *)
(* badge of the same label.                                                *)
PromotionToldOnce ==
  \A i, j \in DOMAIN captured :
    (i # j /\ captured[i].type = "PROMOTION" /\ captured[j].type = "PROMOTION" /\ captured[i].label = captured[j].label
     /\ captured[i].key[1] # captured[j].key[1])
      => captured[i].percentOff # captured[j].percentOff

FactsKeepTheirOwner == KeysAreUnique /\ PriceKeepsItsName /\ PromotionToldOnce

(* When one block was added or removed between two verified captures of a  *)
(* page without JSON-LD, no key stands for another amount or currency      *)
(* afterwards: an edit next to a plan never looks like a change of its     *)
(* price.  Of pages on which each plan has one period and one currency.    *)
Apart(old, new) == \E i \in DOMAIN new : old = RemoveAt(new, i)
SamePrices(old, new) ==
  \A i \in DOMAIN old, j \in DOMAIN new :
    (old[i].type = "PRICE" /\ old[i].key = new[j].key) => (old[i].amount = new[j].amount /\ old[i].currency = new[j].currency)
PricesOn(page) == {e \in UNION {Range(page[i]) : i \in DOMAIN page} : e.is = "price"}
OneOffering(old, new) ==
  \A e, f \in PricesOn(old) \union PricesOn(new) : e.name = f.name => (e.period = f.period /\ e.currency = f.currency)
Neighbours(old, new) ==
  (Apart(old, new) \/ Apart(new, old)) /\ WellLaid(old) /\ WellLaid(new) /\ nodes = <<>>
NoInventedPriceChange ==
  [][(captured' # captured /\ Neighbours(seen, layout) /\ OneOffering(seen, layout)) => SamePrices(captured, captured')]_xVars

(* The same of every page.  The amounts of a name are compared without     *)
(* their currencies, so a plan priced alike in two currencies gets two     *)
(* keys in page order, and when its first card goes the key passes to the  *)
(* other ("the moment one of them disappears from a capture the other      *)
(* would look like a price change").                                       *)
KeysKeepTheirPrice ==
  [][(captured' # captured /\ Neighbours(seen, layout)) => SamePrices(captured, captured')]_xVars

(* What is read of a page belongs to what the page shows it with, and two  *)
(* readings of one page do not differ by a price the page did not change.  *)
PagesAreReadSteadily == []FactsKeepTheirOwner /\ NoInventedPriceChange
=====
