------------------------- MODULE CapabilityHistory -------------------------
(***************************************************************************)
(* What one page says the service can do: the capabilities its verified    *)
(* scans find, the organization's lists and its own capabilities, and the  *)
(* inferences the AI check stores beside them.  CapabilityRun has the      *)
(* queue and the pages of that check; here are its answer's transaction    *)
(* and the scans and edits that run beside it.                             *)
(***************************************************************************)
EXTENDS Integers, FiniteSets

CONSTANTS
  General,    \* the capabilities of the pack "general"
  Answering,  \* those of the pack "call-answering"
  Own,        \* ids the organization's own capabilities may have
  Phrases,    \* phrases an own capability may look for
  NoPhrase,   \* an own capability that only the AI check can find
  Undefined,  \* an own capability that does not exist
  Misses,     \* CAPABILITY_MISSES_BEFORE_ABSENT
  ManyChanges \* MASS_PLAN_CHANGE_THRESHOLD

ASSUME CapabilityConstants ==
  /\ Misses \in Nat \ {0} /\ ManyChanges \in Nat \ {0}
  /\ General \cap Answering = {} /\ (General \cup Answering) \cap (Own \cup Phrases) = {}
  /\ {NoPhrase, Undefined} \cap (Phrases \cup General \cup Answering) = {}

VARIABLES
  text,    \* the page's latest verified snapshot, Unread before there is one
  packs,   \* Organization.capabilityPacks
  phrase,  \* CustomCapability rows: what each own capability looks for
  obs,     \* CapabilityObservation rows of the page
  answer,  \* the transaction of recordAiCapabilityFindings
  edit,    \* applyCustomCapabilityToLatestPages of the latest edit
  heard     \* history: what the scans and the events said of each capability

bVars == <<text, packs, phrase, obs, answer, edit, heard>>

Packs == {"general", "call-answering"}
Builtin == General \cup Answering
Keys == Builtin \cup Own
Texts == [says : SUBSET (Builtin \cup Phrases), partial : BOOLEAN]
Unread == [says |-> {}, partial |-> TRUE]
NoObs == [state |-> "NONE", method |-> "NONE", miss |-> 0]
Found == [state |-> "PRESENT", method |-> "DETERMINISTIC", miss |-> 0]
Inferred == [state |-> "PRESENT", method |-> "AI", miss |-> 0]
Rows == [state : {"PRESENT", "ABSENT"}, method : {"DETERMINISTIC", "AI"}, miss : 0..Misses]

(* detectWithDefinitions for one definition.                               *)
Says(t, k) == IF k \in Builtin THEN k \in t.says ELSE phrase[k] \in t.says

Defined == {k \in Own : phrase[k] # Undefined}
Listed(p) == IF p = "general" THEN General ELSE Answering
Enabled == Defined \cup UNION {Listed(p) : p \in packs}

NotAsking == [at |-> "idle", keys |-> {}, rows |-> <<>>, gone |-> {}]
IsFound(row) == row.state = "PRESENT" /\ row.method = "DETERMINISTIC"

-----------------------------------------------------------------------------
(* Mutant: a page that was half-built counts as one without the capability.*)
CountsPartial(t, k) ==
  /\ obs[k].state = "PRESENT" /\ obs[k].method = "DETERMINISTIC"
  /\ k \in Enabled /\ ~Says(t, k)

(* A row the rules follow and this whole text does not repeat.             *)
Missed(t, k) ==
  /\ ~t.partial
  /\ obs[k].state = "PRESENT" /\ obs[k].method = "DETERMINISTIC"
  /\ k \in Enabled /\ ~Says(t, k)

(* A capability found is present; one that is missed often enough is gone. *)
ObservedAs(t, k) ==
  IF k \in Enabled /\ Says(t, k) THEN Found
  ELSE IF ~Missed(t, k) THEN obs[k]
  ELSE [obs[k] EXCEPT !.miss = @ + 1, !.state = IF obs[k].miss + 1 >= Misses THEN "ABSENT" ELSE @]

Appeared(t) == {k \in Keys : obs[k].state # "PRESENT" /\ ObservedAs(t, k).state = "PRESENT"}

Disappeared(t) == {k \in Keys : obs[k].state = "PRESENT" /\ ObservedAs(t, k).state = "ABSENT"}

(* Many at once is a different page: no events of that kind.               *)
Raised(keys, t, baseline) ==
  IF baseline \/ t.partial \/ Cardinality(keys) >= ManyChanges THEN {} ELSE keys

(* What the history keeps of a scan: of a row the rules found, the whole   *)
(* scans in a row without it and whether one did not look for it; the      *)
(* latest event and whether the row moved since without one.               *)
Unheard == [without |-> 0, unwatched |-> FALSE, event |-> "NONE", silent |-> FALSE]
HeardAfter(t, k, added, removed) ==
  LET s == heard[k]
      follows == IsFound(ObservedAs(t, k)) \/ k \in Disappeared(t)
      event == IF k \in added THEN "ADDED" ELSE IF k \in removed THEN "REMOVED" ELSE s.event
  IN  [without |-> IF Says(t, k) \/ ~follows THEN 0 ELSE IF t.partial \/ s.without = Misses THEN s.without ELSE s.without + 1,
       unwatched |-> follows /\ (k \notin Enabled \/ (s.unwatched /\ ~Says(t, k))),
       event |-> event,
       silent |-> event # "NONE" /\ k \notin added \cup removed /\ (s.silent \/ k \in Appeared(t) \cup Disappeared(t))]

(* recordCapabilityObservations, in the transaction of a verified scan.    *)
(* The first scan, and one of another extractor, market or layout, is a    *)
(* baseline.                                                               *)
Scanned(t, baseline) ==
  LET added == Raised(Appeared(t), t, baseline)
      removed == Raised(Disappeared(t), t, baseline)
  IN  /\ text = Unread => baseline
      /\ text' = t
      /\ obs' = [k \in Keys |-> ObservedAs(t, k)]
      /\ heard' = [k \in Keys |-> HeardAfter(t, k, added, removed)]
      /\ UNCHANGED <<packs, phrase, answer, edit>>

Silent(keys) ==
  [k \in Keys |->
     IF k \in keys THEN [without |-> 0, unwatched |-> FALSE, event |-> heard[k].event, silent |-> heard[k].event # "NONE"]
     ELSE heard[k]]
NotedGone(keys) == IF answer.at = "read" THEN [answer EXCEPT !.gone = @ \cup keys] ELSE answer

-----------------------------------------------------------------------------
(* selectPagesForCapabilityAi: a whole page is asked about everything the  *)
(* rules did not find on it.                                               *)
Ask ==
  /\ answer.at = "idle" /\ ~text.partial
  /\ LET asked == {k \in Enabled : ~IsFound(obs[k])} IN
       /\ asked # {}
       /\ answer' = [NotAsking EXCEPT !.at = "asked", !.keys = asked]
  /\ UNCHANGED <<text, packs, phrase, obs, edit, heard>>

(* The answer's transaction first reads the rows ...                       *)
ReadRows ==
  /\ answer.at = "asked"
  /\ answer' = [answer EXCEPT !.at = "read", !.rows = [k \in answer.keys |-> obs[k]]]
  /\ UNCHANGED <<text, packs, phrase, obs, edit, heard>>

Answered(row, accepted) ==
  IF IsFound(row) THEN row
  ELSE IF accepted THEN Inferred ELSE IF row.method = "AI" THEN NoObs ELSE row

(* ... then writes those it has an answer for.  A row that came or went    *)
(* since makes it fail as a whole.                                         *)
Answer(accepted) ==
  LET Written(k) == Answered(answer.rows[k], k \in accepted)
      writes == {k \in answer.keys : Written(k) # answer.rows[k] \/ (k \in accepted /\ ~IsFound(answer.rows[k]))}
      conflict == \E k \in writes : k \in answer.gone \/ (answer.rows[k] = NoObs) # (obs[k] = NoObs)
  IN  /\ answer.at = "read" /\ accepted \subseteq answer.keys
      /\ answer' = NotAsking
      /\ IF conflict
           THEN UNCHANGED <<obs, heard>>
           ELSE /\ obs' = [k \in Keys |-> IF k \in writes THEN Written(k) ELSE obs[k]]
                /\ heard' = Silent(writes)
      /\ UNCHANGED <<text, packs, phrase, edit>>

-----------------------------------------------------------------------------
(* updateOrganizationSettings: at least one pack stays on.                 *)
SetPacks(p) ==
  /\ p # {} /\ p # packs /\ packs' = p
  /\ UNCHANGED <<text, phrase, obs, answer, edit, heard>>

(* createCustomCapability and updateCustomCapability, then the latest text *)
(* of the page is read for it.  An id is not used again.                   *)
SaveOwn(k, w) ==
  /\ edit.at = "idle" /\ phrase[k] # w
  /\ phrase[k] = Undefined => obs[k] = NoObs /\ k \notin answer.keys
  /\ phrase' = [phrase EXCEPT ![k] = w]
  /\ edit' = [at |-> IF text = Unread THEN "idle" ELSE "page", key |-> k, match |-> w \in text.says, row |-> NoObs]
  /\ UNCHANGED <<text, packs, obs, answer, heard>>

ReadForOwn ==
  /\ edit.at = "page" /\ edit' = [edit EXCEPT !.at = "row", !.row = obs[edit.key]]
  /\ UNCHANGED <<text, packs, phrase, obs, answer, heard>>

(* A match is found at once; a found row that the new phrases do not match *)
(* is deleted.  A row that came or went since makes the request fail.      *)
ApplyOwn ==
  LET k == edit.key
      row == IF edit.match THEN Found ELSE IF edit.row.method = "DETERMINISTIC" THEN NoObs ELSE edit.row
      writes == edit.match \/ row # edit.row
      conflict == (edit.row = NoObs) # (obs[k] = NoObs)
  IN  /\ edit.at = "row" /\ edit' = [edit EXCEPT !.at = "idle", !.row = NoObs]
      /\ IF writes /\ ~conflict
           THEN /\ obs' = [obs EXCEPT ![k] = row] /\ heard' = Silent({k})
                /\ answer' = NotedGone(IF row = NoObs THEN {k} ELSE {})
           ELSE UNCHANGED <<obs, heard, answer>>
      /\ UNCHANGED <<text, packs, phrase>>

(* deleteCustomCapability: its rows go with it.                            *)
DeleteOwn(k) ==
  /\ phrase[k] # Undefined
  /\ phrase' = [phrase EXCEPT ![k] = Undefined] /\ obs' = [obs EXCEPT ![k] = NoObs]
  /\ heard' = [heard EXCEPT ![k] = Unheard] /\ answer' = NotedGone({k})
  /\ UNCHANGED <<text, packs, edit>>

CapabilityHistoryInit ==
  /\ text = Unread /\ packs = Packs /\ phrase = [k \in Own |-> Undefined]
  /\ obs = [k \in Keys |-> NoObs] /\ answer = NotAsking
  /\ edit = [at |-> "idle", key |-> "none", match |-> FALSE, row |-> NoObs]
  /\ heard = [k \in Keys |-> Unheard]

CapabilityHistoryNext ==
  \/ \E t \in Texts, baseline \in BOOLEAN : Scanned(t, baseline)
  \/ Ask \/ ReadRows \/ \E accepted \in SUBSET answer.keys : Answer(accepted)
  \/ \E p \in SUBSET Packs : SetPacks(p)
  \/ \E k \in Own, w \in Phrases \cup {NoPhrase} : SaveOwn(k, w)
  \/ ReadForOwn \/ ApplyOwn \/ \E k \in Own : DeleteOwn(k)

CapabilityHistorySpec == CapabilityHistoryInit /\ [][CapabilityHistoryNext]_bVars
-----------------------------------------------------------------------------
(* Types; an inference is never counted as missed or called absent.        *)
ObservationTypeOK ==
  /\ text \in Texts /\ packs \in (SUBSET Packs) \ {{}}
  /\ phrase \in [Own -> Phrases \cup {NoPhrase, Undefined}]
  /\ \A k \in Keys :
       /\ obs[k] \in Rows \cup {NoObs}
       /\ obs[k].method = "AI" => obs[k] = Inferred
       /\ obs[k].state = "ABSENT" <=> obs[k].miss = Misses

(* "a single bad capture cannot remove it": what the rules found is called *)
(* absent only after that many whole scans in a row without it, as long as *)
(* its pack was not turned off between them.                               *)
GoneAfterMissesInARow ==
  [][\A k \in Keys : obs[k].state = "PRESENT" /\ obs'[k].state = "ABSENT" =>
       heard'[k].without >= Misses \/ heard[k].unwatched]_obs

(* The AI check "never overwrites what the rules found" before its         *)
(* transaction read the rows; what a scan finds after that it does.        *)
RulesStand ==
  [][answer.at = "read" /\ answer'.at = "idle" =>
       \A k \in Keys : IsFound(obs[k]) /\ obs'[k] # obs[k] =>
         k \in answer.keys /\ ~IsFound(answer.rows[k])]_bVars

(* The change events of a capability take turns: two additions, or two     *)
(* removals, follow each other only when the row also moved without an     *)
(* event, by a baseline, a wave, an inference or an edit.                  *)
EventsTakeTurns ==
  [][\A k \in Keys : heard'[k].event # "NONE" /\ ~heard'[k].silent /\ ~heard[k].silent /\ obs[k].state # obs'[k].state =>
       heard'[k].event # heard[k].event]_bVars

(* No capability is called gone too early, or found or gone by anybody but *)
(* the rules once they found it, or twice in a row.                        *)
ObservationsAreEarned == GoneAfterMissesInARow /\ RulesStand /\ EventsTakeTurns
=============================================================================
