------------------------------ MODULE MCPages ------------------------------
(***************************************************************************)
(* Instances of what is read from pages, kept about them and shown to the  *)
(* organization.  The modules share no state: each behaviour is one of one *)
(* module, under the restrictions of a "lane", its others stand still.     *)
(***************************************************************************)
EXTENDS PageHistory, CapabilityHistory, AlertRaise, MarketPatterns, SignalRanking, PageFetch, SignIn,
        Intelligence, Extraction, Catalogue, Connections,
        TextDiff, SourceHealth, MailAccount, AiAnswers, TLC

(* Values that the lanes name.                                             *)
ASSUME LaneValues ==
  /\ 1 \in Amounts /\ 2 \in Amounts /\ "eur" \in Currencies /\ "usd" \in Currencies /\ 100 \in Qualities /\ 1 \in Gaps
  /\ "r1" \in Raisers /\ "price" \in Kinds /\ "text" \in Kinds /\ "p1" \in Pages /\ "p2" \in Pages /\ 2 \in Sizes
  /\ "a" \in AskedKeys /\ "b" \in AskedKeys

VARIABLE lane

pageVars == <<lane, hVars, bVars, aVars, mVars, kVars, fVars, sVars, iVars, xVars, gVars, nVars, tVars, uVars, eVars, oVars>>

-----------------------------------------------------------------------------
(* Scans of one page: one group of readings whose prices come and go or    *)
(* change currency, one whose amounts flip.                                *)
Cells(f, first, second, third, promotion) ==
  {[ok |-> TRUE, frame |-> f,
    offer |-> [k \in Items |-> IF k = "k1" THEN a ELSE IF k = "k2" THEN b ELSE IF k = "k3" THEN d ELSE m]] :
     a \in first, b \in second, d \in third, m \in promotion}
Eur == {Gone, <<1, "eur">>}
Fails == [ok |-> FALSE, frame |-> 1, offer |-> [k \in Items |-> Gone]]
Jumps ==
  LET Two == Eur \cup {<<1, "usd">>}
  IN  Cells(1, Two, Two, Two, {Gone}) \cup Cells(2, Eur, {Gone}, {Gone}, {Gone}) \cup {Fails}
Flips ==
  LET Three == Eur \cup {<<2, "eur">>}
  IN  Cells(1, Three \cup {<<1, Unknown>>}, Three, {Gone}, {Gone}) \cup Cells(1, {Gone}, Eur, {Gone}, Three) \cup {Fails}

JumpsLane == lane = "jumps" /\ \E c \in Jumps : Scan(c, 100, 1)
FlipsLane ==
  /\ lane = "flips"
  /\ \E c \in Flips, gap \in Gaps : \E q \in (IF gap = 1 THEN Qualities ELSE {100}) : Scan(c, q, gap)
HistoryLane ==
  /\ (JumpsLane \/ FlipsLane) /\ Cardinality(recent') <= 2
  /\ UNCHANGED <<lane, bVars, aVars, mVars, kVars, fVars, sVars, iVars, xVars, gVars, nVars, tVars, uVars, eVars, oVars>>

-----------------------------------------------------------------------------
(* Capabilities: packs turned on and off, or one capability of one's own.  *)
PackTexts == {t \in Texts : "w" \notin t.says /\ (t.partial => "a" \notin t.says)}
OwnTexts == {t \in Texts : t.says \subseteq {"w"} /\ ~t.partial}
PacksChange ==
  \/ \E t \in PackTexts, baseline \in BOOLEAN : Scanned(t, baseline)
  \/ \E p \in SUBSET Packs : SetPacks(p)
OwnChanges ==
  \/ \E t \in OwnTexts, baseline \in BOOLEAN : Scanned(t, baseline)
  \/ Ask \/ ReadRows \/ \E accepted \in SUBSET (answer.keys \cap Own) : Answer(accepted)
  \/ \E k \in Own, w \in Phrases \cup {NoPhrase} : SaveOwn(k, w)
  \/ ReadForOwn \/ ApplyOwn \/ \E k \in Own : DeleteOwn(k)
ObservationLane ==
  /\ ((lane = "packs" /\ PacksChange) \/ (lane = "own" /\ OwnChanges))
  /\ UNCHANGED <<lane, hVars, aVars, mVars, kVars, fVars, sVars, iVars, xVars, gVars, nVars, tVars, uVars, eVars, oVars>>

(* Alerts: one raise at a time with edited rules, or two at once.          *)
OneRaise ==
  /\ \/ List("r1") \/ Find("r1") \/ Write("r1") \/ NextDay
     \/ rules = DefaultRules /\ \E set \in Rules : (\A rule \in set : rule.level = 1) /\ ReplaceRules(set)
     \/ \E i \in DOMAIN alerts : SetStatus(i, "DISMISSED")
     \/ \E size \in Sizes : (signals = <<>> => size = 2) /\ Promote("r1", "price", "p1", size, TRUE)
     \/ \E sure \in BOOLEAN : Promote("r1", "text", "p1", 2, sure)
     \/ Promote("r1", "price", "p2", 2, TRUE)
  /\ \A i \in DOMAIN signals' : i > 1 => signals'[i].kind = "price" /\ signals'[i].page = "p1"
TwoRaises ==
  /\ \/ \E r \in Raisers : \/ List(r) \/ Find(r) \/ Write(r) \/ Abandon(r)
                            \/ \E size \in Sizes : Promote(r, "price", "p1", size, TRUE)
     \/ \E i \in DOMAIN alerts, status \in {"ACKNOWLEDGED", "DISMISSED"} : SetStatus(i, status)
  /\ Len(signals') <= 2
RaiseLane ==
  /\ ((lane = "one raise" /\ OneRaise) \/ (lane = "two raises" /\ TwoRaises))
  /\ UNCHANGED <<lane, hVars, bVars, mVars, kVars, fVars, sVars, iVars, xVars, gVars, nVars, tVars, uVars, eVars, oVars>>

(* Market patterns: one refresh at a time, or two at once.                 *)
PatternLane ==
  /\ lane \in {"one refresh", "two refreshes"} /\ PatternNext
  /\ UNCHANGED <<lane, hVars, bVars, aVars, kVars, fVars, sVars, iVars, xVars, gVars, nVars, tVars, uVars, eVars, oVars>>
  /\ Cardinality(moves') <= (IF lane = "one refresh" THEN 3 ELSE 2)
  /\ lane = "one refresh" /\ (\E x \in moves' : x.rival = "c3") => \E x \in moves' : x.rival = "c2"
  /\ lane = "one refresh" => refresher'["r2"] = refresher["r2"] /\ \A c \in Rivals \ {"c1"} : since'[c] = 0
  /\ lane = "two refreshes" => /\ since' = since /\ today' <= 2 /\ \A x \in moves' : x.rival # "c3"
                              /\ \A r \in Refreshers : refresher[r].at = "active" => refresher'[r].at # "idle"

RankingLane ==
  /\ lane = "ranking" /\ RankingNext
  /\ UNCHANGED <<lane, hVars, bVars, aVars, mVars, fVars, sVars, iVars, xVars, gVars, nVars, tVars, uVars, eVars, oVars>>

(* Fetching: rules and the cache over time, or redirects and bodies.       *)
FetchLane ==
  /\ lane \in {"robots", "hops"} /\ FetchNext
  /\ UNCHANGED <<lane, hVars, bVars, aVars, mVars, kVars, sVars, iVars, xVars, gVars, nVars, tVars, uVars, eVars, oVars>>
  /\ lane = "robots" => \A r \in Readers : reader'[r].at \notin {"head", "body"} /\ ~reader'[r].validators
  /\ lane = "robots" => robots'["o2"] = "open"
  /\ lane = "hops" => clock' = 0 /\ robots' = robots /\ reader'["r2"] = reader["r2"]

(* Signing in: guesses, and one success whose session is not used, or      *)
(* sessions without guesses; one request at a time while Redis is away.    *)
SignInLane ==
  /\ lane \in {"throttle", "sessions"} /\ SignInNext
  /\ UNCHANGED <<lane, hVars, bVars, aVars, mVars, kVars, fVars, iVars, xVars, gVars, nVars, tVars, uVars, eVars, oVars>>
  /\ lane = "throttle" =>
       /\ \A s \in Sessions : session[s] # NoRow => session'[s] = session[s] /\ used'[s] = used[s]
       /\ \A b \in Browsers : browser'[b].at = "away" /\ (cookie[b] = NoSession \/ cookie'[b] # NoSession)
       /\ session'["s2"] = NoRow /\ cookie'["b2"] = NoSession /\ (~redis' => trying'["q2"] = Free)
       /\ hour' <= 3 /\ \A k \in Counters : counter'[k].count <= 3
  /\ lane = "sessions" => redis' /\ wrong' = wrong /\ hour' <= 4 /\ \E c \in Checks : trying'[c] = Free

-----------------------------------------------------------------------------
(* The digest and the comparison: three ticks in which the first           *)
(* competitor's pages change, then a request while transactions commit.    *)
EventsAt(after, from, to) == {e \in after : e.at >= from /\ e.at <= to}
FewEvents ==
  LET new == writing' \ writing  all == feed' \cup writing' IN
    /\ \A e \in new : /\ e.of = "c1" /\ (e.url = "u2" => e.type = "PRICE_CHANGE")
                      /\ IF tick < 3 THEN e.type = "CONTENT_CHANGE" /\ e.url = "u1" ELSE tick = 3 => e.type # "CONTENT_CHANGE"
    /\ tick < 3 => Cardinality(writing') <= 1
    /\ tick' > tick /\ tick < 3 => writing = {}
    /\ tick >= 4 => created' = created
    /\ Cardinality(EventsAt(all, tick, tick)) <= (IF tick = 3 THEN 1 ELSE 2) /\ (tick = 3 => Cardinality(EventsAt(all, 0, 2)) <= 2)
FewEdits ==
  /\ tracked'["c1"] /\ (tracked' # tracked => request.doing = "nothing" /\ tick = 4)
  /\ watched' # watched => /\ request.doing # "nothing" /\ tick = 4
                           /\ {<<"c1", "u1">>, <<"c2", "u1">>} \cap (watched \ watched') = {}
(* A request asks the competitors in order.                                *)
InOrder ==
  LET patterns == {q.of : q \in request'.pattern}  trends == {q.of : q \in request'.trend}
      First(done) == ("c1" \in done /\ "c2" \in request'.listed) => "c2" \in done
  IN  /\ First(patterns) /\ First(trends) /\ First(request'.asked)
      /\ trends # {} => patterns = request'.listed
      /\ request'.asked # {} => trends = request'.listed
IntelligenceLane ==
  /\ lane = "digest" /\ IntelligenceNext /\ FewEvents /\ FewEdits /\ InOrder
  /\ UNCHANGED <<lane, hVars, bVars, aVars, mVars, kVars, fVars, sVars, xVars, gVars, nVars, tVars, uVars, eVars, oVars>>
  /\ request'.doing # "nothing" => tick >= 3
  /\ request'.doing = "digest" => tick = 4
-----------------------------------------------------------------------------
(* Pages of cards that are edited between captures, flat grids, or JSON-LD *)
(* with a badge.                                                           *)
Card(n, a, c, p) == <<Heading(n), Price(n, a, c, p)>>
CardBlocks ==
  {Card(n, 1, "eur", "month") : n \in {"a", "b"}} \cup {Card("a", 2, "eur", "month"), Card("a", 1, "usd", "month"), Card("a", 1, "eur", "year")}
GridBlocks ==
  {<<Heading(n)>> : n \in PlanNames} \cup {<<Price(n, 1, "eur", "month")>> : n \in PlanNames} \cup {Card("b", 1, "eur", "month")}
Cards ==
  \/ /\ layout = seen
     /\ \/ \E b \in CardBlocks, i \in 1..(Len(layout) + 1) : Len(layout) < 3 /\ AddBlock(i, b)
        \/ \E i \in DOMAIN layout : RemoveBlock(i)
  \/ \E verified \in BOOLEAN : Extract(verified)
Grid ==
  /\ captured = <<>>
  /\ \/ /\ WellLaid(layout) \/ (layout # <<>> /\ layout[Len(layout)][1].is = "name")
        /\ \E b \in GridBlocks : AddBlock(Len(layout) + 1, b)
     \/ Extract(TRUE)
NodeOffer(n, p, d) == [amount |-> 1, currency |-> "eur", name |-> n, period |-> p, discount |-> d]
FewNodes ==
  [name : {"a", "b"}, commercial : BOOLEAN,
   offers : {<<NodeOffer("unnamed", "na", 20)>>, <<NodeOffer("a", "month", 0), NodeOffer("a", "year", 0)>>,
             <<NodeOffer("a", "month", 20), NodeOffer("a", "month", 0)>>, <<NodeOffer("b", "month", 0), NodeOffer("unnamed", "month", 0)>>}]
JsonLd ==
  /\ captured = <<>>
  /\ \/ \E n \in FewNodes : badges = <<>> /\ AddNode(n)
     \/ \E b \in [label : {"a", "b"}, percentOff : {0, 20}, discountCode : BOOLEAN] : AddBadge(b)
     \/ Extract(TRUE)
ExtractionLane ==
  /\ ((lane = "cards" /\ Cards) \/ (lane = "grid" /\ Grid) \/ (lane = "json-ld" /\ JsonLd))
  /\ UNCHANGED <<lane, hVars, bVars, aVars, mVars, kVars, fVars, sVars, iVars, gVars, nVars, tVars, uVars, eVars, oVars>>

(* Competitors and URLs: writes that overlap, or the list page meanwhile.  *)
CatalogueLane ==
  /\ lane \in {"writes", "list"} /\ CatalogueNext
  /\ UNCHANGED <<lane, hVars, bVars, aVars, mVars, kVars, fVars, sVars, iVars, xVars, nVars, tVars, uVars, eVars, oVars>>
  /\ lane = "writes" => /\ summary' = summary
                        /\ \A c \in Competitor : competitor'[c] # "inactive"
                        /\ \A u \in MonitoredUrl : url'[u].state # "paused"
  /\ lane = "list" => /\ competitor'["c3"] = "unused" /\ competitor'["c1"] # "inactive"
                      /\ post'["p2"] = NoPost /\ scanning' \subseteq {"u1"}

(* Settings: the second page only switches and deletes one connection.     *)
ConnectionsLane ==
  /\ lane = "connections" /\ ConnectionsNext
  /\ UNCHANGED <<lane, hVars, bVars, aVars, mVars, kVars, fVars, sVars, iVars, xVars, gVars, tVars, uVars, eVars, oVars>>
  /\ \A r \in pending' : r.page = "b2" => r.does # "create" /\ r.id = "n1"
  /\ called # NoCall => called' = NoCall

-----------------------------------------------------------------------------
OldStill == UNCHANGED <<lane, hVars, bVars, aVars, mVars, kVars, fVars, sVars, iVars, xVars, gVars, nVars>>

(* Two captures of a text.                                                 *)
TextLane == lane = "texts" /\ DiffNext /\ OldStill /\ UNCHANGED <<uVars, eVars, oVars>>

(* Source health: one source's life, or two whose snapshots compete.       *)
SourceHealthLane ==
  /\ lane \in {"one source", "sources"} /\ HealthNext /\ OldStill /\ UNCHANGED <<tVars, eVars, oVars>>
  /\ lane = "one source" => /\ source'["u2"] = source["u2"] /\ fresh'["u2"] = 0 /\ Len(attempts') <= 3
                            /\ attempts' # attempts => source["u1"].attempt # moment
                            /\ observed' # observed => moment = MaxToday /\ observed
  /\ lane = "sources" => /\ observed' /\ fresh' = fresh /\ moment' < MaxToday
                         /\ \A u \in Sources : source'[u].active /\ source'[u].cadence = 1
                         /\ \A i \in DOMAIN attempts' :
                              attempts'[i].outcome = (IF attempts'[i].of = "u1" THEN "unverified" ELSE "verified")

(* The mail account: any settings of the operator, one page with tests, or *)
(* two pages of which the second saves what it was opened with.            *)
WholeSettings ==
  [console |-> FALSE, host |-> TRUE, port |-> "unset", secure |-> "unset", user |-> FALSE, pass |-> FALSE, from |-> "address"]
Fields(f) == <<f.host, f.secret, f.remove, f.enabled>>
MailLane ==
  /\ lane \in {"mail", "mails"} /\ MailNext /\ OldStill /\ UNCHANGED <<tVars, uVars, oVars>>
  /\ \A s \in Admins : calls' = calls /\ Fields(form'[s]) # Fields(form[s]) =>
       form'[s] = Loaded(account) \/ (form[s].busy = {} /\ form[s].result = NoResult /\ ~form[s].stale)
  /\ lane = "mail" => form'["b2"] = form["b2"]
  /\ lane = "mails" => /\ tests' = 0 /\ upserts' <= 2 /\ \A s \in Admins : form'[s].secret = ""
                       /\ Fields(form'["b2"]) \in {Fields(Loaded(NoAccount)), Fields(Loaded(account)), Fields(form["b2"])}

(* Models: digests with two kinds of claims, pages with few findings, and  *)
(* the failures of a change's analysis and of a test.                      *)
Whole == [provider |-> "openai", key |-> TRUE, url |-> FALSE]
DigestAnswer(p, c, w) == [formed |-> TRUE, summary |-> "plain", claims |-> {[part |-> p, cites |-> c, says |-> w]}]
FewAnswers ==
  {DigestAnswer(p, c, "plain") : p \in {"observations", "hypotheses"}, c \in {{i} : i \in 1..MaxDetected} \cup {{}, {1, 2}, {1, 2, 3}}}
  \cup {DigestAnswer("hypotheses", {1}, "forecast"), [formed |-> FALSE, says |-> {}]}
FewFindings ==
  [key : {"a", NoKey}, length : {"fit"}, quote : {"p", Blank}, confidence : {"high", "medium"}]
  \cup [key : {"a", "b"}, length : {"fit", "short"}, quote : {"p", "q"}, confidence : {"high", "low"}]
ModelAsks ==
  \/ InterpretNothing(Whole)
  \/ \E qualified \in SUBSET GroupedFirms : InterpretDigest(Whole, qualified)
  \/ /\ detected = <<>>
     /\ \/ \E config \in Configs : TestConnection(config)
        \/ \E config \in {c \in Configs : c.key /\ c.url}, evidence \in SUBSET EvidenceGated : AnalyzeChange(config, evidence)
        \/ \E sent, cut \in SUBSET {"p"} : ClassifyPage(Whole, [sent |-> sent, cut |-> cut])
ModelReplies ==
  \/ consult.about = "digest" /\ \E given \in FewAnswers : ModelAnswers(given)
  \/ consult.about = "change" /\ \E says \in SUBSET Wordings : ModelAnswers([formed |-> TRUE, says |-> says])
  \/ consult.about = "page" /\ \E f, g \in FewFindings : ModelAnswers([formed |-> TRUE, findings |-> <<f, g>>])
  \/ consult.about \in {"change", "test"} /\ FailNext
ModelLane ==
  /\ lane = "models" /\ OldStill /\ UNCHANGED <<tVars, uVars, eVars>>
  /\ \/ consult.is = "nothing" /\ \E f \in Firms, later \in BOOLEAN : DetectFor(f, later)
     \/ ModelAsks \/ ModelReplies

PagesInit ==
  /\ lane \in {"jumps", "flips", "packs", "own", "one raise", "two raises", "one refresh", "two refreshes", "ranking",
               "robots", "hops", "throttle", "sessions", "digest", "cards", "grid", "json-ld", "writes", "list",
               "connections", "texts", "one source", "sources", "operator", "mail", "mails", "models"}
  /\ MailInit /\ (lane # "operator" => env = WholeSettings)
  /\ HealthInit /\ source["u2"].cadence = 1 /\ (lane # "one source" => source["u1"].cadence = 1)
  /\ RaiseInit /\ rules = DefaultRules
  /\ CatalogueInit /\ \A u \in MonitoredUrl : url[u].of = "c1"
  /\ IntelligenceInit /\ added = [c \in Competitors |-> 0] /\ watched = Where \ {<<"c2", "u2">>}
  /\ HistoryInit /\ CapabilityHistoryInit /\ PatternInit /\ RankingInit /\ FetchInit /\ SignInInit /\ ExtractionInit
  /\ ConnectionsInit /\ DiffInit /\ AnswersInit

PagesNext ==
  \/ HistoryLane \/ ObservationLane \/ RaiseLane \/ PatternLane \/ RankingLane \/ FetchLane \/ SignInLane
  \/ IntelligenceLane \/ ExtractionLane \/ CatalogueLane \/ ConnectionsLane
  \/ TextLane \/ SourceHealthLane \/ MailLane \/ ModelLane

PagesSpec == PagesInit /\ [][PagesNext]_pageVars

-----------------------------------------------------------------------------
(* The type invariant of the module that a lane is about.                  *)
PagesTypeOK ==
  /\ lane \in {"jumps", "flips"} => HistoryTypeOK
  /\ lane \in {"packs", "own"} => ObservationTypeOK
  /\ lane \in {"one raise", "two raises"} => RaiseTypeOK
  /\ lane \in {"one refresh", "two refreshes"} => PatternTypeOK
  /\ lane = "ranking" => RankingTypeOK
  /\ lane \in {"robots", "hops"} => FetchTypeOK
  /\ lane \in {"throttle", "sessions"} => SignInTypeOK
  /\ lane = "digest" => IntelligenceTypeOK
  /\ lane \in {"writes", "list"} => CatalogueTypeOK
  /\ lane = "connections" => ConnectionsTypeOK
  /\ lane = "texts" => DiffTypeOK
  /\ lane \in {"one source", "sources"} => HealthTypeOK
  /\ lane \in {"operator", "mail", "mails"} => MailTypeOK
  /\ lane = "models" => AnswersTypeOK

(* What the digest and the comparison show and what is kept of a model's   *)
(* answer stand on the change events they name.                            *)
ShownIsSupported ==
  /\ lane = "digest" => PagesAgreeWithTheirEvents
  /\ lane = "models" => AnswersAreSupported

(* What the competitor list, the connection pages and the mail page show   *)
(* is what is stored, and quotas are overrun by no more than the requests  *)
(* under way.                                                              *)
ListsHold ==
  /\ lane \in {"writes", "list"} => QuotasAndListsHold
  /\ lane = "connections" => ListsSettle
  /\ lane \in {"operator", "mail", "mails"} => MailIsTruthful
=============================================================================
