--------------------------- MODULE MCScanOverlap ---------------------------
(***************************************************************************)
(* MonitoringScan for TLC, in two lanes.  In the serial lane one scan runs *)
(* at a time and the page is edited and seen from two vantages; in the     *)
(* overlap lane all slots work and there is one edit.                      *)
(***************************************************************************)
EXTENDS MCMonitoringScan

CONSTANT v1

VARIABLE lane

Busy == {w \in Workers : worker[w].pc # "idle"}

LaneInit ==
  /\ Init
  /\ lane \in {"serial", "overlap"}
  /\ lane = "overlap" => vantage = v1 /\ \A v \in Vantages : page[v] = page[v1]

LaneNext ==
  /\ Next
  /\ lane' = lane
  /\ IF lane = "serial"
       THEN \A u, w \in Busy' : u = w
       ELSE edits' <= 1 /\ vantage' = vantage

LaneSpec == LaneInit /\ [][LaneNext]_<<vars, lane>>

(* The validators on the URL's row are those of the snapshot committed     *)
(* last, however the transactions of scans overlap; while they do not      *)
(* overlap it is also the newest snapshot by fetchedAt, the one every      *)
(* reader of the history takes for the page's state.                       *)
ValidatorsMatchLatest ==
  /\ ValidatorsFromLastCommit
  /\ lane = "serial" /\ validators # None => Newest(Len(snapshots))

(* The failure streak that drives back-off and automatic disabling is made *)
(* of recorded fetch failures only, the last ones committed; while scans   *)
(* do not overlap they are also the newest `failures` snapshots by         *)
(* fetchedAt.                                                              *)
StreakIsRecorded ==
  /\ StreakFromLastCommits
  /\ lane = "serial" =>
       \A i \in 1..(Len(snapshots) - failures), j \in (Len(snapshots) - failures + 1)..Len(snapshots) :
         snapshots[i].at < snapshots[j].at

(* When scans of the URL do not overlap, every comparable difference       *)
(* between two successive verified snapshots is reported exactly once.     *)
ReportedOnceWhenSerial == lane = "serial" => EveryChangeReportedOnce

(* "A 304 must never be answered for a page whose latest snapshot is not   *)
(* the verified one the validators came from": without overlap, when a 304 *)
(* is recorded the newest snapshot is verified and carries the validators  *)
(* that were sent.                                                         *)
NotModifiedAnswersLatest ==
  [][lane = "serial" =>
       \A w \in Workers : RecordsNotModified(w) => ConfirmsLatest(w)]_vars
=============================================================================
