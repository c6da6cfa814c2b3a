---------------------------- MODULE PollingPanel ----------------------------
(***************************************************************************)
(* The components that start a job and poll its row: the AI panels of a    *)
(* change and of the digest, the capability check and the scan button.     *)
(* Responses travel independently, so a later poll may be answered first.  *)
(***************************************************************************)
EXTENDS Naturals, FiniteSets

CONSTANTS
  MaxPolls,  \* bound on the polls in flight
  MaxSent    \* bound on the polls sent

ASSUME PanelConstants == MaxPolls \in Nat \ {0} /\ MaxSent \in Nat \ {0}

VARIABLES
  kind,      \* the component: analysis, digest, capability, scan
  row,       \* status of the row the panel shows, "none" before there is one
  view,      \* status the panel shows
  timer,     \* whether an interval is set
  post,      \* the click's request: idle, sent, or the status it answers
  polls,     \* <<number, status>> of each poll in flight
  sent,      \* number of polls sent
  arrived,   \* history: the last poll sent before what is shown was answered
  overtaken, \* history: whether an answer arrived after a later one
  gaveUp,    \* whether the panel says that it takes longer than expected
  asked      \* history: whether what is shown is followed, not just rendered

pVars == <<kind, row, view, timer, post, polls, sent, arrived, overtaken, gaveUp, asked>>

Busy(s) == s \in {"PENDING", "RUNNING"}
Finished(s) == s \in {"COMPLETED", "FAILED"}

(* The page was rendered with the row as it was: the AI panels show it but *)
(* do not start to poll, except that of the capability check.              *)
PanelInit ==
  /\ kind \in {"analysis", "digest", "capability", "scan"}
  /\ row \in {"none", "PENDING", "RUNNING", "COMPLETED", "FAILED"}
  /\ view = (IF kind = "scan" THEN "none" ELSE row)
  /\ timer = (kind = "capability" /\ Busy(view)) /\ asked = (kind = "capability")
  /\ post = "idle" /\ polls = {} /\ sent = 0 /\ arrived = 0
  /\ overtaken = FALSE /\ gaveUp = FALSE

(* The button: an interpretation is offered when there is none or it       *)
(* FAILED, the others whenever nothing is under way.                       *)
Offered ==
  IF kind \in {"analysis", "digest"} THEN view \in {"none", "FAILED"} ELSE ~Busy(view)

Click ==
  /\ Offered /\ post = "idle"
  /\ post' = "sent" /\ gaveUp' = FALSE /\ arrived' = sent
  /\ view' = IF kind = "scan" THEN "PENDING" ELSE view
  /\ asked' = (asked \/ kind = "scan")
  /\ UNCHANGED <<kind, row, timer, polls, sent, overtaken>>

(* The route finds the row, or creates or resets it to PENDING; a finished *)
(* analysis is returned as it is.                                          *)
Trigger ==
  /\ post = "sent"
  /\ row' = IF Busy(row) \/ (kind = "analysis" /\ row = "COMPLETED") THEN row ELSE "PENDING"
  /\ post' = row'
  /\ UNCHANGED <<kind, view, timer, polls, sent, arrived, overtaken, gaveUp, asked>>

PostFails ==
  /\ post # "idle"
  /\ post' = "idle"
  /\ view' = IF kind = "scan" THEN "none" ELSE view
  /\ UNCHANGED <<kind, row, timer, polls, sent, arrived, overtaken, gaveUp, asked>>

PostAnswered ==
  /\ post \notin {"idle", "sent"}
  /\ view' = (IF kind = "scan" THEN view ELSE post)
  /\ timer' = (timer \/ kind = "scan" \/ Busy(post))
  /\ post' = "idle" /\ arrived' = sent /\ asked' = TRUE
  /\ UNCHANGED <<kind, row, polls, sent, overtaken, gaveUp>>

RowMoves ==
  /\ \/ row = "PENDING" /\ row' = "RUNNING"
     \/ Busy(row) /\ row' \in {"COMPLETED", "FAILED"}
  /\ UNCHANGED <<kind, view, timer, post, polls, sent, arrived, overtaken, gaveUp, asked>>

PollSent ==
  /\ timer /\ sent < MaxSent
  /\ Cardinality(polls) < MaxPolls
  /\ sent' = sent + 1
  /\ polls' = polls \cup {<<sent + 1, row>>}
  /\ UNCHANGED <<kind, row, view, timer, post, arrived, overtaken, gaveUp, asked>>

(* Mutant: the interval stops with the first answer.                       *)
StopsPolling(s) == TRUE

(* The interval is cleared once the answer is terminal.                    *)
EndsPolling(s) == Finished(s)

PollArrives(p) ==
  /\ view' = p[2]
  /\ timer' = (IF kind = "capability" THEN Busy(p[2]) ELSE timer /\ ~EndsPolling(p[2]))
  /\ polls' = polls \ {p}
  /\ overtaken' = (overtaken \/ p[1] <= arrived)
  /\ arrived' = IF p[1] > arrived THEN p[1] ELSE arrived
  /\ asked' = TRUE
  /\ UNCHANGED <<kind, row, post, sent, gaveUp>>

PollLost(p) ==
  /\ polls' = polls \ {p}
  /\ UNCHANGED <<kind, row, view, timer, post, sent, arrived, overtaken, gaveUp, asked>>

(* MAX_POLL_MS; the capability panel polls without limit.                  *)
GiveUp ==
  /\ timer /\ kind # "capability"
  /\ timer' = FALSE /\ gaveUp' = TRUE
  /\ UNCHANGED <<kind, row, view, post, polls, sent, arrived, overtaken, asked>>

(* The digest page is rendered again: its panel takes the row over, with   *)
(* whatever timer it has, and what is still in flight is overtaken.        *)
Rerender ==
  /\ kind = "digest"
  /\ view' = row /\ asked' = FALSE
  /\ overtaken' = (overtaken \/ timer \/ polls # {})
  /\ UNCHANGED <<kind, row, timer, post, polls, sent, arrived, gaveUp>>

PanelNext ==
  \/ Rerender
  \/ Click \/ Trigger \/ PostFails \/ PostAnswered \/ RowMoves \/ PollSent \/ GiveUp
  \/ \E p \in polls : PollArrives(p) \/ PollLost(p)

PanelSpec == PanelInit /\ [][PanelNext]_pVars
-----------------------------------------------------------------------------
(* Types; no poll is answered before it is sent.                           *)
PanelTypeOK ==
  LET Shown == {"none", "PENDING", "RUNNING", "COMPLETED", "FAILED"} IN
    /\ kind \in {"analysis", "digest", "capability", "scan"} /\ row \in Shown /\ view \in Shown
    /\ post \in Shown \cup {"idle", "sent"} /\ timer \in BOOLEAN
    /\ polls \subseteq (1..sent) \X Shown /\ sent \in 0..MaxSent /\ arrived \in 0..sent
    /\ overtaken \in BOOLEAN /\ gaveUp \in BOOLEAN /\ asked \in BOOLEAN

(* A panel that says a job is under way is asking for its outcome, or says *)
(* that it takes longer than expected.  Two exceptions: an answer that was *)
(* overtaken leaves an old "RUNNING" on a panel that has stopped asking;   *)
(* and a panel that was rendered with a busy row and not clicked since     *)
(* never asks, unless it is that of the capability check.                  *)
BusyPanelAsks ==
  Busy(view) /\ post = "idle" /\ asked /\ ~overtaken => timer \/ gaveUp
=============================================================================
