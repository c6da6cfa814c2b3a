----------------------------- MODULE Catalogue -----------------------------
(***************************************************************************)
(* Competitors and their monitored URLs: several requests create, pause    *)
(* and delete them while scans store history and a list page reads its     *)
(* summary in three queries.  Deleting a competitor cascades to its URLs,  *)
(* deleting a URL to its history, so both deletes are conditional.         *)
(***************************************************************************)
EXTENDS Integers, FiniteSets

CONSTANTS
  Competitor,          \* ids, each used once
  MonitoredUrl,        \* ids, each used once
  Posts,               \* create requests that may be handled at a time
  CompetitorsPerOrg,   \* quotas
  UrlsPerOrg,
  MaxSnapshots         \* bound: snapshots of a URL

ASSUME CatalogueConstants ==
  /\ IsFiniteSet(Competitor) /\ IsFiniteSet(MonitoredUrl) /\ IsFiniteSet(Posts)
  /\ CompetitorsPerOrg \in Nat \ {0} /\ UrlsPerOrg \in Nat \ {0} /\ MaxSnapshots \in Nat

VARIABLES
  competitor,  \* per id: "unused", "active", "inactive" or "deleted"
  url,         \* per id: its state, its competitor and its snapshots
  post,        \* create requests in progress
  scanning,    \* URLs a scan has loaded and not yet stored a snapshot for
  summary      \* the competitor list being read

gVars == <<competitor, url, post, scanning, summary>>

NoPost == [does |-> "nothing", id |-> "none"]
NoSummary == [step |-> "none"]
HasRow(c) == competitor[c] \in {"active", "inactive"}
HasUrl(u) == url[u].state \in {"active", "paused"}
UrlsUnder(c) == {u \in MonitoredUrl : HasUrl(u) /\ url[u].of = c}

CatalogueInit ==
  /\ competitor = [c \in Competitor |-> "unused"]
  /\ url \in {[u \in MonitoredUrl |-> [state |-> "unused", of |-> c, snapshots |-> 0]] : c \in Competitor}
  /\ post = [p \in Posts |-> NoPost]
  /\ scanning = {}
  /\ summary = NoSummary

-----------------------------------------------------------------------------
CountCompetitorsForOrg == Cardinality({c \in Competitor : HasRow(c)})
CountMonitoredUrlsForOrg == Cardinality({u \in MonitoredUrl : HasUrl(u)})

BelowQuota(count, quota) == count < quota

(* The count is read before the row is created, deactivated rows included. *)
PostCompetitor(p, c) ==
  /\ post[p] = NoPost /\ competitor[c] = "unused" /\ \A q \in Posts : post[q].id # c
  /\ BelowQuota(CountCompetitorsForOrg, CompetitorsPerOrg)
  /\ post' = [post EXCEPT ![p] = [does |-> "create competitor", id |-> c]]
  /\ UNCHANGED <<competitor, url, scanning, summary>>

CreateCompetitor(p) ==
  /\ post[p].does = "create competitor"
  /\ competitor' = [competitor EXCEPT ![post[p].id] = "active"]
  /\ post' = [post EXCEPT ![p] = NoPost]
  /\ UNCHANGED <<url, scanning, summary>>

PostUrl(p, u, c) ==
  /\ post[p] = NoPost /\ url[u].state = "unused" /\ (\A q \in Posts : post[q].id # u) /\ competitor[c] # "unused"
  /\ BelowQuota(CountMonitoredUrlsForOrg, UrlsPerOrg)
  /\ post' = [post EXCEPT ![p] = [does |-> "find competitor", id |-> u, of |-> c]]
  /\ UNCHANGED <<competitor, url, scanning, summary>>

(* An address that is refused, or a competitor that is gone, ends it.      *)
GetCompetitorForOrg(p, safe) ==
  /\ post[p].does = "find competitor"
  /\ post' = [post EXCEPT ![p] = IF safe /\ HasRow(post[p].of) THEN [@ EXCEPT !.does = "create url"] ELSE NoPost]
  /\ UNCHANGED <<competitor, url, scanning, summary>>

(* The foreign key refuses the URL of a competitor deleted meanwhile.      *)
CreateMonitoredUrl(p) ==
  /\ post[p].does = "create url"
  /\ IF HasRow(post[p].of)
     THEN url' = [url EXCEPT ![post[p].id] = [state |-> "active", of |-> post[p].of, snapshots |-> 0]]
     ELSE UNCHANGED url
  /\ post' = [post EXCEPT ![p] = NoPost]
  /\ UNCHANGED <<competitor, scanning, summary>>

(* The button sends the state it offers, so a click on an old page repeats *)
(* a change but never undoes it.                                           *)
UpdateCompetitor(c, isActive) ==
  /\ HasRow(c)
  /\ competitor' = [competitor EXCEPT ![c] = IF isActive THEN "active" ELSE "inactive"]
  /\ UNCHANGED <<url, post, scanning, summary>>

UpdateMonitoredUrl(u, isActive) ==
  /\ HasUrl(u)
  /\ url' = [url EXCEPT ![u].state = IF isActive THEN "active" ELSE "paused"]
  /\ UNCHANGED <<competitor, post, scanning, summary>>

(* Mutant: deleted whatever it holds.                                      *)
DeletedAnyway(row) == TRUE
(* One statement deletes it only if nothing hangs from it.                 *)
Deletable(row) == row = {}

DeleteCompetitorIfSafe(c) ==
  /\ HasRow(c) /\ Deletable(UrlsUnder(c))
  /\ competitor' = [competitor EXCEPT ![c] = "deleted"]
  /\ url' = [u \in MonitoredUrl |-> IF u \in UrlsUnder(c) THEN [url[u] EXCEPT !.state = "deleted"] ELSE url[u]]
  /\ UNCHANGED <<post, scanning, summary>>

DeleteMonitoredUrlIfSafe(u) ==
  /\ HasUrl(u) /\ Deletable(1..url[u].snapshots)
  /\ url' = [url EXCEPT ![u].state = "deleted"]
  /\ UNCHANGED <<competitor, post, scanning, summary>>

-----------------------------------------------------------------------------
LoadForScan(u) ==
  /\ u \notin scanning /\ url[u].state = "active" /\ competitor[url[u].of] = "active"
  /\ scanning' = scanning \union {u}
  /\ UNCHANGED <<competitor, url, post, summary>>

(* A scan whose URL was deleted fails on the foreign key.                  *)
CreateSnapshot(u) ==
  /\ u \in scanning
  /\ IF HasUrl(u) THEN url[u].snapshots < MaxSnapshots /\ url' = [url EXCEPT ![u].snapshots = @ + 1] ELSE UNCHANGED url
  /\ scanning' = scanning \ {u}
  /\ UNCHANGED <<competitor, post, summary>>

-----------------------------------------------------------------------------
(* The list of competitors, its URLs, then the latest job and change.      *)
ListCompetitors ==
  /\ summary = NoSummary
  /\ summary' = [step |-> "urls", of |-> {c \in Competitor : HasRow(c)}]
  /\ UNCHANGED <<competitor, url, post, scanning>>

ListUrls ==
  /\ summary.step = "urls"
  /\ summary' = [step |-> "rows", of |-> summary.of, urls |-> {u \in MonitoredUrl : HasUrl(u)},
                 owner |-> [u \in MonitoredUrl |-> url[u].of]]
  /\ UNCHANGED <<competitor, url, post, scanning>>

(* Rows are read by the URLs of the query before; deleted ones have none.  *)
LatestRows(urls) == {u \in urls : HasUrl(u) /\ url[u].snapshots > 0}

ListRows ==
  /\ summary.step = "rows"
  /\ LET rows == LatestRows(summary.urls)
         count == [c \in summary.of |-> Cardinality({u \in summary.urls : summary.owner[u] = c})]
     IN summary' = [step |-> "shown", of |-> summary.of, count |-> count,
                    latest |-> {c \in summary.of : \E u \in rows : summary.owner[u] = c}]
  /\ UNCHANGED <<competitor, url, post, scanning>>

LeaveList == summary.step = "shown" /\ summary' = NoSummary /\ UNCHANGED <<competitor, url, post, scanning>>

CatalogueNext ==
  \/ \E p \in Posts, c \in Competitor : PostCompetitor(p, c) \/ \E u \in MonitoredUrl : PostUrl(p, u, c)
  \/ \E p \in Posts : CreateCompetitor(p) \/ CreateMonitoredUrl(p) \/ \E safe \in BOOLEAN : GetCompetitorForOrg(p, safe)
  \/ \E c \in Competitor : DeleteCompetitorIfSafe(c) \/ \E isActive \in BOOLEAN : UpdateCompetitor(c, isActive)
  \/ \E u \in MonitoredUrl : DeleteMonitoredUrlIfSafe(u) \/ \E isActive \in BOOLEAN : UpdateMonitoredUrl(u, isActive)
  \/ \E u \in MonitoredUrl : LoadForScan(u) \/ CreateSnapshot(u)
  \/ ListCompetitors \/ ListUrls \/ ListRows \/ LeaveList

CatalogueSpec == CatalogueInit /\ [][CatalogueNext]_gVars

-----------------------------------------------------------------------------
(* Types; a URL is of a competitor that was created.                       *)
CatalogueTypeOK ==
  /\ competitor \in [Competitor -> {"unused", "active", "inactive", "deleted"}]
  /\ \A u \in MonitoredUrl :
       /\ url[u].state \in {"unused", "active", "paused", "deleted"} /\ url[u].snapshots \in 0..MaxSnapshots
       /\ HasUrl(u) => HasRow(url[u].of)
  /\ scanning \subseteq MonitoredUrl

(* Whatever requests and scans overlap, stored history never disappears    *)
(* and a competitor's deletion never takes a URL with it, one added just   *)
(* before included ("a URL added between a separate count and the delete   *)
(* can no longer be lost").                                                *)
HistoryIsKept ==
  [][\A u \in MonitoredUrl : HasUrl(u) =>
       /\ url'[u].snapshots >= url[u].snapshots
       /\ url'[u].state = "deleted" => (url[u].snapshots = 0 /\ competitor' = competitor)]_gVars

(* Counting before creating lets requests that overlap past a quota, by no *)
(* more than the requests that can be under way besides one; and a list    *)
(* whose three queries saw different moments never shows a latest change   *)
(* of a competitor it counts no URL for.                                   *)
QuotasAndListsHold ==
  /\ CountCompetitorsForOrg <= CompetitorsPerOrg + Cardinality(Posts) - 1
  /\ CountMonitoredUrlsForOrg <= UrlsPerOrg + Cardinality(Posts) - 1
  /\ summary.step = "shown" => \A c \in summary.latest : summary.count[c] > 0
=============================================================================
