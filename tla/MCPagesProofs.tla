--------------------------- MODULE MCPagesProofs ---------------------------
(***************************************************************************)
(* Proofs about the composition MCPages: a behaviour of it is one of each  *)
(* component, so what is proved of a component holds in its lane, for any  *)
(* constants that hold the values the lanes name.                          *)
(***************************************************************************)
EXTENDS MCPages, HistoryProofs, PagesProofs, TLAPS

(* The readings of the two lanes are readings.                             *)
LEMMA LaneReadings == Jumps \subseteq Readings /\ Flips \subseteq Readings
<1>1. \A x \in {1, 2}, c \in {"eur", "usd", Unknown} : <<x, c>> \in Offers
  BY LaneValues DEF Offers
<1>2. Eur \cup {<<1, "usd">>} \subseteq Offers \cup {Gone} /\ Eur \cup {<<2, "eur">>} \cup {<<1, Unknown>>} \subseteq Offers \cup {Gone}
  BY <1>1 DEF Eur
<1>3. ASSUME NEW f \in {1, 2}, NEW A \in SUBSET (Offers \cup {Gone}), NEW B \in SUBSET (Offers \cup {Gone}),
             NEW C \in SUBSET (Offers \cup {Gone}), NEW D \in SUBSET (Offers \cup {Gone})
      PROVE  Cells(f, A, B, C, D) \subseteq Readings
  <2>. DEFINE V == Offers \cup {Gone}
  <2>1. ASSUME NEW c \in Cells(f, A, B, C, D) PROVE c \in Readings
    <3>1. PICK a \in A, b \in B, d \in C, m \in D :
            c = [ok |-> TRUE, frame |-> f,
                 offer |-> [k \in Items |-> IF k = "k1" THEN a ELSE IF k = "k2" THEN b ELSE IF k = "k3" THEN d ELSE m]]
      BY DEF Cells
    <3>. DEFINE listed == [k \in Items |-> IF k = "k1" THEN a ELSE IF k = "k2" THEN b ELSE IF k = "k3" THEN d ELSE m]
    <3>2. a \in V /\ b \in V /\ d \in V /\ m \in V
      OBVIOUS
    <3>. HIDE DEF V
    <3>3. listed \in [Items -> V]
      BY <3>2
    <3>4. c = [ok |-> TRUE, frame |-> f, offer |-> listed]
      BY <3>1
    <3>. HIDE DEF listed
    <3>. QED
      BY <3>3, <3>4 DEF Readings, V
  <2>. QED
    BY <2>1
<1>4. Fails \in Readings
  BY DEF Fails, Readings
<1>5. {Gone} \in SUBSET (Offers \cup {Gone}) /\ Eur \in SUBSET (Offers \cup {Gone})
  BY <1>2
<1>. DEFINE two == Eur \cup {<<1, "usd">>}
            three == Eur \cup {<<2, "eur">>}
<1>6. two \in SUBSET (Offers \cup {Gone}) /\ three \in SUBSET (Offers \cup {Gone})
      /\ three \cup {<<1, Unknown>>} \in SUBSET (Offers \cup {Gone})
  BY <1>2
<1>7. Jumps = Cells(1, two, two, two, {Gone}) \cup Cells(2, Eur, {Gone}, {Gone}, {Gone}) \cup {Fails}
  BY DEF Jumps
<1>8. Flips = Cells(1, three \cup {<<1, Unknown>>}, three, {Gone}, {Gone}) \cup Cells(1, {Gone}, Eur, {Gone}, three) \cup {Fails}
  BY DEF Flips
<1>. HIDE DEF two, three
<1>9. Jumps \subseteq Readings
  <2>1. Cells(1, two, two, two, {Gone}) \subseteq Readings
    BY <1>3, <1>5, <1>6
  <2>2. Cells(2, Eur, {Gone}, {Gone}, {Gone}) \subseteq Readings
    BY <1>3, <1>5
  <2>. QED
    BY <1>4, <1>7, <2>1, <2>2
<1>10. Flips \subseteq Readings
  <2>1. Cells(1, three \cup {<<1, Unknown>>}, three, {Gone}, {Gone}) \subseteq Readings
    BY <1>3, <1>5, <1>6
  <2>2. Cells(1, {Gone}, Eur, {Gone}, three) \subseteq Readings
    BY <1>3, <1>5, <1>6
  <2>. QED
    BY <1>4, <1>8, <2>1, <2>2
<1>. QED
  BY <1>9, <1>10

LEMMA HistoryLaneScans == HistoryLane => HistoryNext
<1>1. JumpsLane => HistoryNext
  BY LaneReadings, LaneValues DEF JumpsLane, HistoryNext
<1>2. FlipsLane => HistoryNext
  BY LaneReadings, LaneValues DEF FlipsLane, HistoryNext
<1>. QED
  BY <1>1, <1>2 DEF HistoryLane

LEMMA ObservationLaneSteps == ObservationLane => CapabilityHistoryNext
<1>1. PacksChange => CapabilityHistoryNext
  BY DEF PacksChange, PackTexts, CapabilityHistoryNext
<1>2. OwnChanges => CapabilityHistoryNext
  <2>1. (\E t \in OwnTexts, baseline \in BOOLEAN : Scanned(t, baseline)) => CapabilityHistoryNext
    BY DEF OwnTexts, CapabilityHistoryNext
  <2>2. (\E accepted \in SUBSET (answer.keys \cap Own) : Answer(accepted)) => CapabilityHistoryNext
    BY DEF CapabilityHistoryNext
  <2>. QED
    BY <2>1, <2>2 DEF OwnChanges, CapabilityHistoryNext
<1>. QED
  BY <1>1, <1>2 DEF ObservationLane

LEMMA RaiseLaneSteps == RaiseLane => RaiseNext
<1>1. OneRaise => RaiseNext
  <2>1. (\E i \in DOMAIN alerts : SetStatus(i, "DISMISSED")) => RaiseNext
    BY DEF RaiseNext
  <2>2. (\E size \in Sizes : Promote("r1", "price", "p1", size, TRUE)) => RaiseNext
    BY LaneValues DEF RaiseNext
  <2>3. (\E sure \in BOOLEAN : Promote("r1", "text", "p1", 2, sure)) => RaiseNext
    BY LaneValues DEF RaiseNext
  <2>4. Promote("r1", "price", "p2", 2, TRUE) => RaiseNext
    BY LaneValues DEF RaiseNext
  <2>5. List("r1") \/ Find("r1") \/ Write("r1") \/ NextDay => RaiseNext
    BY LaneValues DEF RaiseNext
  <2>6. (\E set \in Rules : ReplaceRules(set)) => RaiseNext
    BY DEF RaiseNext
  <2>. QED
    BY <2>1, <2>2, <2>3, <2>4, <2>5, <2>6 DEF OneRaise
<1>2. TwoRaises => RaiseNext
  <2>1. (\E r \in Raisers, size \in Sizes : Promote(r, "price", "p1", size, TRUE)) => RaiseNext
    BY LaneValues DEF RaiseNext
  <2>2. (\E r \in Raisers : List(r) \/ Find(r) \/ Write(r) \/ Abandon(r)) => RaiseNext
    BY DEF RaiseNext
  <2>3. (\E i \in DOMAIN alerts, status \in {"ACKNOWLEDGED", "DISMISSED"} : SetStatus(i, status)) => RaiseNext
    BY DEF RaiseNext
  <2>. QED
    BY <2>1, <2>2, <2>3 DEF TwoRaises
<1>. QED
  BY <1>1, <1>2 DEF RaiseLane

(* A behaviour of MCPages is one of each component it holds: a lane takes  *)
(* a step of its own and the others stand still.                           *)
LEMMA PagesAreTheirOwn ==
  PagesSpec => /\ HistorySpec /\ CapabilityHistorySpec /\ RaiseSpec /\ PatternSpec /\ RankingSpec /\ FetchSpec
               /\ SignInSpec /\ IntelligenceSpec /\ CatalogueSpec /\ ConnectionsSpec /\ HealthSpec /\ MailSpec
<1>1. PagesInit => /\ HistoryInit /\ CapabilityHistoryInit /\ RaiseInit /\ PatternInit /\ RankingInit /\ FetchInit
                   /\ SignInInit /\ IntelligenceInit /\ CatalogueInit /\ ConnectionsInit /\ HealthInit /\ MailInit
  BY DEF PagesInit
<1>2. [PagesNext]_pageVars => [HistoryNext]_hVars
  BY HistoryLaneScans DEF PagesNext, pageVars, OldStill, ObservationLane, RaiseLane, PatternLane, RankingLane, FetchLane,
         SignInLane, IntelligenceLane, ExtractionLane, CatalogueLane, ConnectionsLane, TextLane, SourceHealthLane,
         MailLane, ModelLane
<1>3. [PagesNext]_pageVars => [CapabilityHistoryNext]_bVars
  BY ObservationLaneSteps DEF PagesNext, pageVars, OldStill, HistoryLane, RaiseLane, PatternLane, RankingLane, FetchLane,
         SignInLane, IntelligenceLane, ExtractionLane, CatalogueLane, ConnectionsLane, TextLane, SourceHealthLane,
         MailLane, ModelLane
<1>4. [PagesNext]_pageVars => [RaiseNext]_aVars
  BY RaiseLaneSteps DEF PagesNext, pageVars, OldStill, HistoryLane, ObservationLane, PatternLane, RankingLane, FetchLane,
         SignInLane, IntelligenceLane, ExtractionLane, CatalogueLane, ConnectionsLane, TextLane, SourceHealthLane,
         MailLane, ModelLane
<1>5. [PagesNext]_pageVars => [PatternNext]_mVars
  BY DEF PagesNext, pageVars, OldStill, HistoryLane, ObservationLane, RaiseLane, PatternLane, RankingLane, FetchLane,
         SignInLane, IntelligenceLane, ExtractionLane, CatalogueLane, ConnectionsLane, TextLane, SourceHealthLane,
         MailLane, ModelLane
<1>6. [PagesNext]_pageVars => [RankingNext]_kVars
  BY DEF PagesNext, pageVars, OldStill, HistoryLane, ObservationLane, RaiseLane, PatternLane, RankingLane, FetchLane,
         SignInLane, IntelligenceLane, ExtractionLane, CatalogueLane, ConnectionsLane, TextLane, SourceHealthLane,
         MailLane, ModelLane
<1>7. [PagesNext]_pageVars => [FetchNext]_fVars
  BY DEF PagesNext, pageVars, OldStill, HistoryLane, ObservationLane, RaiseLane, PatternLane, RankingLane, FetchLane,
         SignInLane, IntelligenceLane, ExtractionLane, CatalogueLane, ConnectionsLane, TextLane, SourceHealthLane,
         MailLane, ModelLane
<1>8. [PagesNext]_pageVars => [SignInNext]_sVars
  BY DEF PagesNext, pageVars, OldStill, HistoryLane, ObservationLane, RaiseLane, PatternLane, RankingLane, FetchLane,
         SignInLane, IntelligenceLane, ExtractionLane, CatalogueLane, ConnectionsLane, TextLane, SourceHealthLane,
         MailLane, ModelLane
<1>9. [PagesNext]_pageVars => [IntelligenceNext]_iVars
  BY DEF PagesNext, pageVars, OldStill, HistoryLane, ObservationLane, RaiseLane, PatternLane, RankingLane, FetchLane,
         SignInLane, IntelligenceLane, ExtractionLane, CatalogueLane, ConnectionsLane, TextLane, SourceHealthLane,
         MailLane, ModelLane
<1>10. [PagesNext]_pageVars => [CatalogueNext]_gVars
  BY DEF PagesNext, pageVars, OldStill, HistoryLane, ObservationLane, RaiseLane, PatternLane, RankingLane, FetchLane,
         SignInLane, IntelligenceLane, ExtractionLane, CatalogueLane, ConnectionsLane, TextLane, SourceHealthLane,
         MailLane, ModelLane
<1>11. [PagesNext]_pageVars => [ConnectionsNext]_nVars
  BY DEF PagesNext, pageVars, OldStill, HistoryLane, ObservationLane, RaiseLane, PatternLane, RankingLane, FetchLane,
         SignInLane, IntelligenceLane, ExtractionLane, CatalogueLane, ConnectionsLane, TextLane, SourceHealthLane,
         MailLane, ModelLane
<1>12. [PagesNext]_pageVars => [HealthNext]_uVars
  BY DEF PagesNext, pageVars, OldStill, HistoryLane, ObservationLane, RaiseLane, PatternLane, RankingLane, FetchLane,
         SignInLane, IntelligenceLane, ExtractionLane, CatalogueLane, ConnectionsLane, TextLane, SourceHealthLane,
         MailLane, ModelLane
<1>13. [PagesNext]_pageVars => [MailNext]_eVars
  BY DEF PagesNext, pageVars, OldStill, HistoryLane, ObservationLane, RaiseLane, PatternLane, RankingLane, FetchLane,
         SignInLane, IntelligenceLane, ExtractionLane, CatalogueLane, ConnectionsLane, TextLane, SourceHealthLane,
         MailLane, ModelLane
<1> QED
  BY <1>1, <1>2, <1>3, <1>4, <1>5, <1>6, <1>7, <1>8, <1>9, <1>10, <1>11, <1>12, <1>13,
     PTL DEF PagesSpec, HistorySpec, CapabilityHistorySpec, RaiseSpec, PatternSpec, RankingSpec, FetchSpec,
             SignInSpec, IntelligenceSpec, CatalogueSpec, ConnectionsSpec, HealthSpec, MailSpec

(* What the competitor list, the connection pages and the mail page show   *)
(* is what is stored, quotas are overrun by no more than the requests      *)
(* under way, in every lane.                                               *)
THEOREM ListsHoldCorrect == PagesSpec => []ListsHold
<1>1. QuotasAndListsHold /\ ListsSettle /\ MailIsTruthful => ListsHold
  BY DEF ListsHold
<1> QED
  BY <1>1, PagesAreTheirOwn, QuotasAndListsCorrect, SettleCorrect, MailCorrect, PTL

(* The lane of the models asks and answers less than AnswersNext does.     *)
LEMMA ModelStep ==
  ASSUME AnswersInv, ModelLane
  PROVE  AnswersInv'
<1>1. CASE \E f \in Firms, later \in BOOLEAN : DetectFor(f, later)
  BY <1>1, DetectStep
<1>2. CASE ModelAsks
  BY <1>2, ConsultAskStep DEF ModelAsks
<1>3. CASE ModelReplies
  <2>1. ASSUME NEW f \in FewFindings, NEW g \in FewFindings, consult.about = "page"
        PROVE  IsReply([formed |-> TRUE, findings |-> <<f, g>>])
    <3>1. f.key \in AskedKeys \cup {NoKey} /\ g.key \in AskedKeys \cup {NoKey}
      BY LaneValues DEF FewFindings
    <3>2. DOMAIN <<f, g>> = 1..2 /\ \A i \in 1..2 : <<f, g>>[i].key \in AskedKeys \cup {NoKey}
      BY <3>1
    <3> QED BY <3>2 DEF IsReply
  <2>2. \A given : consult.about # "page" => IsReply(given)
    BY DEF IsReply
  <2>3. CASE FailNext
    BY <2>3, FailStep
  <2>4. CASE \E given : IsReply(given) /\ ModelAnswers(given)
    BY <2>4, ReplyStep
  <2> QED BY <1>3, <2>1, <2>2, <2>3, <2>4 DEF ModelReplies
<1> QED BY <1>1, <1>2, <1>3 DEF ModelLane

LEMMA ModelsHold == PagesSpec => []AnswersInv
<1>1. PagesInit => AnswersInv
  BY AnswersInitially DEF PagesInit
<1>2. ASSUME AnswersInv, [PagesNext]_pageVars PROVE AnswersInv'
  <2>1. ModelLane \/ UNCHANGED oVars
    BY <1>2 DEF PagesNext, pageVars, OldStill, HistoryLane, ObservationLane, RaiseLane, PatternLane, RankingLane, FetchLane,
         SignInLane, IntelligenceLane, ExtractionLane, CatalogueLane, ConnectionsLane, TextLane, SourceHealthLane,
         MailLane
  <2>2. CASE UNCHANGED oVars
    BY <1>2, <2>2, AnswersStep
  <2> QED BY <1>2, <2>1, <2>2, ModelStep
<1> QED BY <1>1, <1>2, PTL DEF PagesSpec

(* What the digest and the comparison show and what is kept of a model's   *)
(* answer stand on the change events they name, in every lane.             *)
THEOREM ShownCorrect == PagesSpec => []ShownIsSupported
<1>1. PagesAgreeWithTheirEvents /\ AnswersInv => ShownIsSupported
  BY AnswersInvGives DEF ShownIsSupported
<1> QED
  BY <1>1, PagesAreTheirOwn, PagesShownCorrect, ModelsHold, PTL

LEMMA TypesByLane ==
  ASSUME HistoryTypeOK, ObservationTypeOK, RaiseTypeOK, PatternTypeOK, RankingTypeOK, FetchTypeOK, SignInTypeOK,
         IntelligenceTypeOK, CatalogueTypeOK, ConnectionsTypeOK, HealthTypeOK, MailTypeOK, AnswersTypeOK
  PROVE  lane # "texts" => PagesTypeOK
  BY DEF PagesTypeOK

(* In every lane what the module of the lane keeps has its type; the lane  *)
(* of texts, whose types rest on what folds compute, is left out.          *)
THEOREM PagesTypeCorrect == PagesSpec => [](lane # "texts" => PagesTypeOK)
<1>1. AnswersInv => AnswersTypeOK
  BY AnswersInvGives
<1> QED
  BY <1>1, TypesByLane, PagesAreTheirOwn, HistoryIsTold, CapabilitiesAreEarned, RaiseTypeCorrect, PatternsAreKept,
     RankingCorrect, CacheCorrect, SignInTypeCorrect, PagesShownCorrect, CatalogueTypeCorrect, ConnectionsTypeCorrect,
     HealthCorrect, MailTypeCorrect, ModelsHold, PTL

(* What is proved of each module holds of its lane: readings, observed     *)
(* capabilities, alerts, patterns, the ranking, the health of sources,     *)
(* signing in, fetching and the snapshots of deleted pages.                *)
THEOREM PagesCorrect ==
  PagesSpec => /\ HistoryTellsWhatWasRead /\ ObservationsAreEarned /\ AlertsStandForTheirSignals
               /\ PatternsFollowTheMarket /\ RankingIsJustified /\ []HealthTellsWhatWasSeen
               /\ []SignInHolds /\ FetchIsPolite /\ HistoryIsKept
BY PagesAreTheirOwn, HistoryIsTold, CapabilitiesAreEarned, AlertsCorrect, PatternsAreKept, RankingCorrect, HealthCorrect,
   SignInCorrect, FetchCorrect, HistoryCorrect, PTL
=============================================================================
