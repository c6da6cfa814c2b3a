------------------------------ MODULE AiAnswers ------------------------------
(***************************************************************************)
(* What goes to a model and what of its answer is kept: the evidence       *)
(* bundle of a digest, the excerpts of a change, the text of a page, and   *)
(* the test of a connection.  One call is repeated once, when it failed in *)
(* passing; an answer is checked whole and kept or rejected whole, except  *)
(* that of a page, which is sifted finding by finding.                     *)
(*                                                                         *)
(* A text is the category of the wording the validators look for, a quote  *)
(* its length as measured and the passage it becomes once normalized.      *)
(***************************************************************************)
EXTENDS Integers, FiniteSets, Sequences

CONSTANTS
  Firms,          \* competitor ids, compared as the code compares them
  BundleFirms,    \* MAX_BUNDLE_COMPETITORS
  BundleEvents,   \* MAX_RAW_CHANGE_EVENTS_PER_COMPETITOR
  BundleItems,    \* MAX_BUNDLE_ITEMS_TOTAL
  CitesPerClaim,  \* MAX_EVIDENCE_IDS_PER_CLAIM
  Passages,       \* passages of pages long enough to quote
  AskedKeys,      \* keys of the capabilities asked about
  MaxDetected     \* bound: ChangeEvents

ASSUME AnswerConstants ==
  /\ Firms \subseteq Nat
  /\ {BundleFirms, BundleEvents, BundleItems, CitesPerClaim} \subseteq Nat \ {0}
  /\ MaxDetected \in Nat /\ "unasked" \notin AskedKeys

VARIABLES
  detected,  \* the digest's ChangeEvents in the order of their detection
  consult    \* the job or request that asks a model

oVars == <<detected, consult>>

Shared == {"causal-explanation"}   \* prohibited in digests and for changes
Prohibited == Shared \cup {"forecast"}
AlwaysBanned == {"targeting"}
EvidenceGated == {"promotion", "availability"}
Wordings == {"plain"} \cup Prohibited \cup AlwaysBanned \cup EvidenceGated
Blank == "blank"      \* nothing once white space and zero-width characters are dropped
NoKey == "unasked"
RoundUp == 0          \* stands for the pattern item of a competitor, in the place of an event
Claim == [part : {"observations", "interpretations", "hypotheses"}, cites : SUBSET (1..MaxDetected), says : Wordings]
Finding == [key : AskedKeys \cup {NoKey}, length : {"short", "fit", "long"}, quote : Passages \cup {Blank},
            confidence : {"high", "medium", "low"}]
NoConsult == [is |-> "nothing", about |-> "nothing", by |-> "nobody", given |-> "nothing", heard |-> <<>>, kept |-> "nothing"]

-----------------------------------------------------------------------------
(* The bundle.  An item is <<competitor, event>>; a competitor that        *)
(* qualifies has a round-up that cites all of its events.                  *)
NewerEvent(i, j) == detected[i].at > detected[j].at \/ (detected[i].at = detected[j].at /\ i < j)

EventsAbout(f) == {i \in DOMAIN detected : detected[i].of = f}
GroupedFirms == {detected[i].of : i \in DOMAIN detected}
MostRecent(f) == CHOOSE t \in {detected[i].at : i \in EventsAbout(f)} : \A i \in EventsAbout(f) : detected[i].at <= t

(* Competitors by their most recent item, then by id.                      *)
ComesFirst(f, g) == MostRecent(f) > MostRecent(g) \/ (MostRecent(f) = MostRecent(g) /\ f < g)
SelectedFirms == {f \in GroupedFirms : Cardinality({g \in GroupedFirms : ComesFirst(g, f)}) < BundleFirms}

RawEvents(f) == {i \in EventsAbout(f) : Cardinality({j \in EventsAbout(f) : NewerEvent(j, i)}) < BundleEvents}
Offered(qualified) ==
  {<<f, RoundUp>> : f \in SelectedFirms \cap qualified} \cup UNION {{f} \X RawEvents(f) : f \in SelectedFirms}

(* Round-ups before events, within a competitor.                           *)
Before(x, y) ==
  \/ x[1] # y[1] /\ ComesFirst(x[1], y[1])
  \/ x[1] = y[1] /\ y[2] # RoundUp /\ (x[2] = RoundUp \/ NewerEvent(x[2], y[2]))

BundledItems(qualified) ==
  {x \in Offered(qualified) : Cardinality({y \in Offered(qualified) : Before(y, x)}) < BundleItems}

CitesOf(x) == IF x[2] = RoundUp THEN EventsAbout(x[1]) ELSE {x[2]}

Bundle(qualified) ==
  LET items == BundledItems(qualified)
  IN [items |-> items, allowed |-> UNION {CitesOf(x) : x \in items}, qualified |-> qualified, of |-> detected]

-----------------------------------------------------------------------------
(* The checks of an answer.                                                *)
CitesWhatWasSent(answer, allowed) == \A c \in answer.claims : c.cites \subseteq allowed

FitsDigestSchema(answer) == answer.formed /\ \A c \in answer.claims : Cardinality(c.cites) \in 1..CitesPerClaim
DigestClaimsAreSafe(answer) ==
  answer.summary \notin Prohibited /\ \A c \in answer.claims : c.says \notin Prohibited

AcceptsDigest(answer, bundle) ==
  FitsDigestSchema(answer) /\ CitesWhatWasSent(answer, bundle.allowed) /\ DigestClaimsAreSafe(answer)

(* A gated wording stands only on evidence with wording of its category.   *)
AcceptsChange(answer, evidence) ==
  /\ answer.formed
  /\ answer.says \cap (Shared \cup AlwaysBanned) = {}
  /\ answer.says \cap EvidenceGated \subseteq evidence

(* The quote is looked for in the part of the page that was sent.          *)
IsQuoted(f, page) ==
  /\ f.key \in AskedKeys /\ f.confidence # "low" /\ f.length = "fit"
  /\ f.quote \in page.sent \cup {Blank}

(* The first good finding of each key.                                     *)
AcceptedFindings(findings, page) ==
  {findings[i] : i \in {j \in DOMAIN findings : /\ IsQuoted(findings[j], page)
                                                /\ \A k \in 1..(j - 1) : IsQuoted(findings[k], page) =>
                                                     findings[k].key # findings[j].key}}

-----------------------------------------------------------------------------
(* A request to the provider.                                              *)
CanBuild(config) ==
  /\ config.provider \in {"openai", "openai-compatible"} /\ config.key
  /\ config.provider = "openai-compatible" => config.url

(* What the adapter makes of a reply.  The compatible one reads the body   *)
(* before the status.                                                      *)
Heard(provider, status, body) ==
  IF status = "timeout" THEN "timeout"
  ELSE IF status = "unreachable" THEN "transient"
  ELSE IF provider = "openai-compatible" /\ (status = "unsafe" \/ body = "not json") THEN "permanent"
  ELSE IF status = "busy" THEN "transient"
  ELSE IF status = "ok" /\ body = "content" THEN "content" ELSE "permanent"

IsRetryable(heard) == heard \in {"timeout", "transient"}

(* What a test says of a failed call; the wording of a permanent error     *)
(* tells a key from a model.                                               *)
TestStatus(heard, wording) ==
  IF heard = "content" THEN "SUCCESS"
  ELSE IF IsRetryable(heard) THEN "PROVIDER_UNAVAILABLE"
  ELSE IF wording = "key" THEN "INVALID_CREDENTIALS"
  ELSE IF wording = "model" THEN "MODEL_UNAVAILABLE" ELSE "INVALID_CONFIGURATION"

-----------------------------------------------------------------------------
AnswersInit == detected = <<>> /\ consult = NoConsult

(* A scan commits a change.                                                *)
DetectFor(f, later) ==
  /\ Len(detected) < MaxDetected
  /\ detected' = Append(detected, [of |-> f, at |-> IF detected = <<>> THEN 0
                                                    ELSE detected[Len(detected)].at + (IF later THEN 1 ELSE 0)])
  /\ UNCHANGED consult

Opened(is, about, config, given, kept) ==
  [is |-> is, about |-> about, by |-> config.provider, given |-> given, heard |-> <<>>, kept |-> kept]

Consult(about, config, given) ==
  /\ consult.is = "nothing"
  /\ consult' = IF CanBuild(config) THEN Opened("calling", about, config, given, "nothing")
                ELSE Opened("failed", about, config, given, IF about = "test" THEN "INVALID_CONFIGURATION" ELSE "nothing")
  /\ UNCHANGED detected

(* A bundle without competitors completes the row without a call.          *)
InterpretNothing(config) ==
  /\ consult.is = "nothing" /\ CanBuild(config) /\ GroupedFirms = {}
  /\ consult' = Opened("completed unasked", "digest", config, "nothing", "nothing")
  /\ UNCHANGED detected

InterpretDigest(config, qualified) == GroupedFirms # {} /\ Consult("digest", config, Bundle(qualified))
AnalyzeChange(config, evidence) == Consult("change", config, evidence)
ClassifyPage(config, page) == Consult("page", config, page)
TestConnection(config) == Consult("test", config, "a synthetic change")

Ended(is, heard, kept) ==
  [is |-> is, about |-> consult.about, by |-> consult.by, given |-> consult.given, heard |-> heard, kept |-> kept]

(* The provider replies with content.                                      *)
Keep(accepted, kept) ==
  consult' = Ended(IF accepted THEN "stored" ELSE "failed", Append(consult.heard, "content"),
                   IF accepted THEN kept ELSE consult.kept)

ModelAnswers(answer) ==
  /\ consult.is = "calling"
  /\ \/ consult.about = "digest" /\ Keep(AcceptsDigest(answer, consult.given), answer)
     \/ consult.about = "change" /\ Keep(AcceptsChange(answer, consult.given), answer.says)
     \/ consult.about = "page" /\ Keep(answer.formed, [from |-> answer.findings,
                                                       accepted |-> AcceptedFindings(answer.findings, consult.given)])
  /\ UNCHANGED detected

(* It fails: again, once, or never in a test.                              *)
AskAgain(status, body) ==
  LET heard == Heard(consult.by, status, body) IN
  /\ consult.is = "calling" /\ consult.about # "test"
  /\ IsRetryable(heard) /\ consult.heard = <<>>
  /\ consult' = Ended("calling", <<heard>>, consult.kept)
  /\ UNCHANGED detected

FailConsult(status, body) ==
  LET heard == Heard(consult.by, status, body) IN
  /\ consult.is = "calling" /\ consult.about # "test" /\ heard # "content"
  /\ IsRetryable(heard) => consult.heard # <<>>
  /\ consult' = Ended("failed", Append(consult.heard, heard), consult.kept)
  /\ UNCHANGED detected

FinishTest(status, body, wording) ==
  LET heard == Heard(consult.by, status, body) IN
  /\ consult.is = "calling" /\ consult.about = "test"
  /\ consult' = Ended("stored", <<heard>>, TestStatus(heard, wording))
  /\ UNCHANGED detected

Configs == [provider : {"openai", "openai-compatible", "other"}, key : BOOLEAN, url : BOOLEAN]
Replies == ({"timeout", "unreachable", "unsafe"} \X {"none"}) \cup ({"ok", "busy", "refused"} \X {"content", "no content", "not json"})

ReplyNext ==
  \E formed \in BOOLEAN :
    \/ /\ consult.about = "digest"
       /\ \E summary \in Wordings, c, d \in Claim : ModelAnswers([formed |-> formed, summary |-> summary, claims |-> {c, d}])
    \/ consult.about = "change" /\ \E says \in SUBSET Wordings : ModelAnswers([formed |-> formed, says |-> says])
    \/ consult.about = "page" /\ \E f, g \in Finding : ModelAnswers([formed |-> formed, findings |-> <<f, g>>])
AskNext ==
  \E config \in Configs :
    \/ InterpretNothing(config) \/ TestConnection(config)
    \/ \E qualified \in SUBSET GroupedFirms : InterpretDigest(config, qualified)
    \/ \E evidence \in SUBSET EvidenceGated : AnalyzeChange(config, evidence)
    \/ \E sent, cut \in SUBSET Passages : ClassifyPage(config, [sent |-> sent, cut |-> cut])
FailNext ==
  \E r \in Replies : \/ AskAgain(r[1], r[2]) \/ FailConsult(r[1], r[2])
                     \/ \E wording \in {"key", "model", "other"} : FinishTest(r[1], r[2], wording)

AnswersNext ==
  \/ \E f \in Firms, later \in BOOLEAN : DetectFor(f, later)
  \/ AskNext \/ ReplyNext \/ FailNext

AnswersSpec == AnswersInit /\ [][AnswersNext]_oVars

-----------------------------------------------------------------------------
AnswersTypeOK ==
  /\ detected \in Seq([of : Firms, at : 0..MaxDetected]) /\ Len(detected) <= MaxDetected
  /\ consult.is \in {"nothing", "calling", "stored", "failed", "completed unasked"}
  /\ consult.heard \in Seq({"timeout", "transient", "permanent", "content"}) /\ Len(consult.heard) <= 2

(* Every claim of a stored interpretation cites events of items the model  *)
(* was sent, whatever was detected meanwhile.                              *)
InterpretationsAreCited ==
  (consult.about = "digest" /\ consult.is = "stored") =>
    \A c \in consult.kept.claims :
      /\ c.cites # {} /\ c.says \notin Prohibited
      /\ \A e \in c.cites : \E x \in consult.given.items :
           consult.given.of[e].of = x[1] /\ x[2] \in {e, RoundUp}

(* The bundle is never empty and holds the news first: no competitor with  *)
(* older news is in it without one with newer, no event without the newer  *)
(* ones of its competitor and its round-up, and what is left out is left   *)
(* out for one of the three limits.                                        *)
BundlesHoldTheNews ==
  (consult.about = "digest" /\ consult.is \notin {"failed", "completed unasked"}) =>
    LET items == consult.given.items  rows == consult.given.of
        firms == {x[1] : x \in items}
        About(f) == {i \in DOMAIN rows : rows[i].of = f}
        Newer(f, g) == \E i \in About(f) : \A j \in About(g) : rows[i].at > rows[j].at
    IN /\ items # {}
       /\ \A f \in {rows[i].of : i \in DOMAIN rows} \ firms :
            /\ \A g \in firms : ~Newer(f, g)
            /\ Cardinality(firms) = BundleFirms \/ Cardinality(items) = BundleItems
       /\ \A x \in items : x[2] # RoundUp =>
            /\ x[1] \in consult.given.qualified => <<x[1], RoundUp>> \in items
            /\ \A j \in About(x[1]) : rows[j].at > rows[x[2]].at => <<x[1], j>> \in items
       /\ \A f \in firms : \/ About(f) \subseteq {x[2] : x \in items}
                           \/ Cardinality({x \in items : x[1] = f /\ x[2] # RoundUp}) = BundleEvents
                           \/ Cardinality(items) = BundleItems

(* A finding that is kept quotes the part of the page that was sent, and   *)
(* no answer to a key is lost to a bad one before it.                      *)
FindingsAreQuoted ==
  (consult.about = "page" /\ consult.is = "stored") =>
    LET kept == consult.kept.accepted IN
    /\ \A f \in kept : f.quote \in consult.given.sent \cup {Blank} /\ f.confidence # "low" /\ f.key # NoKey
    /\ \A f, g \in kept : f.key = g.key => f = g
    /\ \A i \in DOMAIN consult.kept.from :
         LET f == consult.kept.from[i] IN
         (f.length = "fit" /\ f.quote \in consult.given.sent /\ f.confidence # "low" /\ f.key # NoKey) =>
           \E g \in kept : g.key = f.key

(* Nothing is paid twice but for a failure in passing, a test blames the   *)
(* settings for no such failure, and what is kept of a change claims no    *)
(* cause, aim or thing that the evidence does not.                         *)
CallsAreEarned ==
  /\ Len(consult.heard) = 2 => IsRetryable(consult.heard[1]) /\ consult.about # "test"
  /\ consult.is = "stored" => (consult.about # "test" => consult.heard[Len(consult.heard)] = "content")
  /\ (consult.about = "test" /\ consult.heard # <<>>) =>
       /\ IsRetryable(consult.heard[1]) <=> consult.kept = "PROVIDER_UNAVAILABLE"
       /\ consult.heard[1] = "content" <=> consult.kept = "SUCCESS"
  /\ (consult.is = "stored" /\ consult.about = "change") =>
       /\ consult.kept \cap (Shared \cup AlwaysBanned) = {}
       /\ \A w \in consult.kept \cap EvidenceGated : w \in consult.given

AnswersAreSupported == InterpretationsAreCited /\ BundlesHoldTheNews /\ FindingsAreQuoted /\ CallsAreEarned
=============================================================================
