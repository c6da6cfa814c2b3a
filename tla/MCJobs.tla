------------------------------- MODULE MCJobs -------------------------------
(***************************************************************************)
(* Instances of the queues beside the scans, which share no state: each    *)
(* behaviour is one of the clicks on one change's analysis, a digest slot, *)
(* the capability checks, the daily reports or a panel, the "lane" of its  *)
(* initial state.  One more lane is the scan queue between the scheduler   *)
(* and its workers.                                                        *)
(***************************************************************************)
EXTENDS AiAnalysis, DigestSlot, CapabilityRun, DailyReport, PollingPanel, ScanQueue

CONSTANTS
  p1,             \* the page whose text changes
  a1, a2, a3,     \* requests of the digest, in the order they come
  k1, k2,         \* clicks on the capability check, in the order they come
  u1              \* the URL that may fail

VARIABLE lane

jobVars == <<lane, vars, dVars, cVars, rVars, pVars, qVars>>

JobsInit ==
  /\ lane \in {"analysis", "digest", "capability", "report", "panel", "scans"}
  /\ Init /\ DigestInit /\ CapabilityInit /\ ReportInit /\ PanelInit /\ QueueInit
  /\ lane # "panel" => kind = "scan" /\ row = "none"

AnalysisLane ==
  /\ lane = "analysis" /\ Next /\ UNCHANGED <<lane, dVars, cVars, rVars, pVars, qVars>>

(* Only the first request fails to enqueue; one lock is lost by a live run. *)
DigestLane ==
  /\ lane = "digest" /\ DigestNext /\ UNCHANGED <<lane, vars, cVars, rVars, pVars, qVars>>
  /\ dAsk'[a2] # "idle" => dAsk[a1] # "idle"
  /\ dAsk'[a3] # "idle" => dAsk[a1] = "done" /\ dAsk[a2] = "done"
  /\ dAsk'[a2] # "orphan" /\ dAsk'[a3] # "orphan"
  /\ dRuns' <= 3 /\ Cardinality(dLost') <= 1 /\ Cardinality(dHandlers') <= 1

(* The age of a check matters only to a click that is still to come; what  *)
(* fails is the first click's.                                             *)
CapabilityLane ==
  /\ lane = "capability" /\ CapabilityNext /\ UNCHANGED <<lane, vars, dVars, rVars, pVars, qVars>>
  /\ \A p \in Pages \ {p1} : cPage'[p].snap = 1
  /\ cClick'[k2] # "orphan" /\ cHandler'[k2] = "none"
  /\ cClick'[k2] # "idle" => cClick[k1] # "idle"
  /\ cRun'[k2].recent /\ (cRun'[k1].recent # cRun[k1].recent => cClick[k2] = "idle")

(* Only the job of the first day is enqueued.                              *)
ReportLane ==
  /\ lane = "report" /\ ReportNext /\ UNCHANGED <<lane, vars, dVars, cVars, pVars, qVars>>
  /\ \A d \in 2..Days : rJob'[d] = rJob[d]

PanelLane ==
  /\ lane = "panel" /\ PanelNext /\ UNCHANGED <<lane, vars, dVars, cVars, rVars, qVars>>

(* The worker is up: a job that is ready waits only for a busy slot.  What  *)
(* goes wrong, and scans by hand, concern the first URL.                   *)
ScansLane ==
  /\ lane = "scans" /\ QueueNext /\ UNCHANGED <<lane, vars, dVars, cVars, rVars, pVars>>
  /\ \A u \in Urls \ {u1} : page'[u].fails = 0 /\ \A j \in queued' : j.id[1] = u => j.pass # ByHand /\ j.tries <= 1
  /\ minute' # minute => /\ round.at = "list" => round.number > 1
                         /\ \/ \E j \in queued : j.state # "waiting"
                            \/ \A j \in queued : j.ready > minute
  /\ page'[u1].fails = 0 \/ \A i \in DOMAIN upsets' : upsets'[i] # "restart"

JobsNext == AnalysisLane \/ DigestLane \/ CapabilityLane \/ ReportLane \/ PanelLane \/ ScansLane

JobsSpec == JobsInit /\ [][JobsNext]_jobVars

-----------------------------------------------------------------------------
(* The type invariant of the module that a lane is about.                  *)
JobsTypeOK ==
  CASE lane = "analysis" -> TypeOK
    [] lane = "digest" -> DigestTypeOK
    [] lane = "capability" -> CapabilityTypeOK
    [] lane = "report" -> ReportTypeOK
    [] lane = "panel" -> PanelTypeOK
    [] lane = "scans" -> QueueTypeOK

(* Neither a second delivery nor a crash spends another paid call while an *)
(* answer stands or for a text that has been read.                         *)
NothingIsPaidTwice == DigestPaidOnce /\ ReadTextIsNotPaidAgain

(* What is finished stays so although its marks ask for no status.         *)
FinishedStays == CompletedStays /\ FinishedRunStays
=============================================================================
