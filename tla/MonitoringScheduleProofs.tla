---------------------- MODULE MonitoringScheduleProofs ----------------------
(***************************************************************************)
(* Proofs about MonitoringSchedule for any number of scans, cadences,      *)
(* thresholds of the backoff and of the automatic stop, and any bounds.    *)
(***************************************************************************)
EXTENDS MonitoringSchedule, TLAPS

Url == [active: BOOLEAN, disabled: BOOLEAN, cadence: Cadences, fails: 0..MaxFails,
        success: Ages, attempt: Ages, created: 0..MaxAge]


-----------------------------------------------------------------------------
LEMMA Bounds ==
  /\ MaxAge \in Nat /\ MaxFails \in Nat /\ MaxEdits \in Nat /\ MaxFaults \in Nat
  /\ Never = MaxAge + 1 /\ Never \in Ages /\ 0 \in Ages
BY ConstantsOK DEF Never, Ages

LEMMA OlderTyped ==
  ASSUME NEW age \in Ages
  PROVE  Older(age) \in Ages /\ (age \in 0..MaxAge => Older(age) \in 0..MaxAge)
BY Bounds DEF Older, Ages, Never

(* Whatever a scan, the pass or the customer writes is a row.              *)
LEMMA RecordedTyped ==
  ASSUME NEW u \in Url, NEW fetched \in BOOLEAN
  PROVE  Recorded(u, fetched) \in Url
<1>1. AtMost(u.fails + 1, MaxFails) \in 0..MaxFails /\ 0 \in 0..MaxFails
  BY Bounds DEF AtMost, Url
<1>2. QED
  BY <1>1, Bounds DEF Recorded, Url

LEMMA StoppedTyped ==
  ASSUME NEW u \in Url
  PROVE  Stopped(u) \in Url
BY DEF Stopped, Url

LEMMA ResumedTyped ==
  ASSUME NEW u \in Url
  PROVE  Resumed(u) \in Url
<1>1. 0 \in 0..MaxFails /\ Never \in Ages
  BY Bounds
<1>2. QED
  BY <1>1 DEF Resumed, Url

-----------------------------------------------------------------------------
LEMMA InitTyped == Init => TypeOK
BY Bounds DEF Init, TypeOK

LEMMA PassTyped ==
  ASSUME TypeOK, Scheduler \/ PassThrows
  PROVE  TypeOK'
<1> USE Bounds DEF TypeOK
<1>1. CASE Find
  BY <1>1 DEF Find
<1>2. CASE Stop
  BY <1>2, StoppedTyped DEF Stop, Url
<1>3. CASE ListDue
  BY <1>3 DEF ListDue
<1>4. CASE AddJob
  BY <1>4 DEF AddJob
<1>5. CASE PassThrows
  BY <1>5 DEF PassThrows
<1>6. QED
  BY <1>1, <1>2, <1>3, <1>4, <1>5 DEF Scheduler

LEMMA ScanTyped ==
  ASSUME TypeOK, NEW j \in Jobs, Worker(j) \/ ScanThrows(j) \/ ScanNow(j)
  PROVE  TypeOK'
<1> USE Bounds DEF TypeOK
<1>1. CASE Start(j)
  BY <1>1 DEF Start
<1>2. CASE Persist(j)
  <2>1. url' \in Url
    BY <1>2, RecordedTyped DEF Persist, Url
  <2>2. QED
    BY <1>2, <2>1 DEF Persist, Url
<1>3. CASE ScanThrows(j)
  BY <1>3 DEF ScanThrows
<1>4. CASE ScanNow(j)
  BY <1>4 DEF ScanNow
<1>5. QED
  BY <1>1, <1>2, <1>3, <1>4 DEF Worker

LEMMA StepTyped ==
  ASSUME TypeOK, [Next]_vars
  PROVE  TypeOK'
<1>1. CASE Interval
  <2>1. url' \in Url
    <3>1. url.success \in Ages /\ url.attempt \in Ages /\ url.created \in 0..MaxAge
      BY DEF TypeOK
    <3>2. url.created \in Ages
      BY <3>1, Bounds DEF Ages, Never
    <3>3. /\ Older(url.success) \in Ages /\ Older(url.attempt) \in Ages
          /\ Older(url.created) \in 0..MaxAge
      BY <3>1, <3>2, OlderTyped
    <3>4. QED
      BY <1>1, <3>3 DEF Interval, TypeOK, Url
  <2>2. QED
    BY <1>1, <2>1 DEF Interval, TypeOK, Url
<1>2. CASE SiteChanges
  BY <1>2 DEF SiteChanges, TypeOK
<1>3. CASE Edit
  <2>1. url' \in Url
    BY <1>3, ResumedTyped DEF Edit, Frequencies, TypeOK, Url
  <2>2. QED
    BY <1>3, <2>1, Bounds DEF Edit, TypeOK, Url
<1>4. CASE UNCHANGED vars
  BY <1>4 DEF vars, TypeOK
<1>5. QED
  BY <1>1, <1>2, <1>3, <1>4, PassTyped, ScanTyped DEF Next

(* Types hold for any cadences, thresholds and bounds: saturating ages and *)
(* a saturating streak stay in range.                                      *)
THEOREM TypeCorrect == Spec => []TypeOK
<1>1. Init => TypeOK
  BY InitTyped
<1>2. TypeOK /\ [Next]_vars => TypeOK'
  BY StepTyped
<1>3. QED
  BY <1>1, <1>2, PTL DEF Spec

-----------------------------------------------------------------------------
LEMMA StepKeepsStop ==
  ASSUME TypeOK, StoppedIsInactive, [Next]_vars
  PROVE  StoppedIsInactive'
<1> USE DEF StoppedIsInactive, TypeOK
<1>1. CASE Interval
  BY <1>1 DEF Interval
<1>2. CASE Scheduler \/ PassThrows
  BY <1>2 DEF Scheduler, Find, Stop, Stopped, ListDue, AddJob, PassThrows
<1>3. CASE Edit
  BY <1>3 DEF Edit, Resumed
<1>4. ASSUME NEW j \in Jobs, Worker(j) \/ ScanThrows(j) \/ ScanNow(j)
      PROVE  StoppedIsInactive'
  BY <1>4 DEF Worker, Start, Persist, Recorded, ScanThrows, ScanNow
<1>5. CASE SiteChanges \/ UNCHANGED vars
  BY <1>5 DEF SiteChanges, vars
<1>6. QED
  BY <1>1, <1>2, <1>3, <1>4, <1>5 DEF Next

(* disabledAt is set only on a row that is not active, however stops,      *)
(* pauses, resumes and late scans follow each other.                       *)
THEOREM StopCorrect == Spec => []StoppedIsInactive
<1>1. Init => StoppedIsInactive
  BY DEF Init, StoppedIsInactive
<1>2. TypeOK /\ StoppedIsInactive /\ [Next]_vars => StoppedIsInactive'
  BY StepKeepsStop
<1>3. QED
  BY <1>1, <1>2, TypeCorrect, PTL DEF Spec

-----------------------------------------------------------------------------
LEMMA StepStopsActive ==
  ASSUME TypeOK, [Next]_vars, url'.disabled, ~url.disabled
  PROVE  url.active
<1> USE DEF TypeOK
<1>1. CASE Interval
  BY <1>1 DEF Interval
<1>2. CASE Scheduler \/ PassThrows
  BY <1>2 DEF Scheduler, Find, Stop, Stopped, ListDue, AddJob, PassThrows
<1>3. CASE Edit
  BY <1>3 DEF Edit, Resumed
<1>4. ASSUME NEW j \in Jobs, Worker(j) \/ ScanThrows(j) \/ ScanNow(j)
      PROVE  url.active
  BY <1>4 DEF Worker, Start, Persist, Recorded, ScanThrows, ScanNow
<1>5. CASE SiteChanges \/ UNCHANGED vars
  BY <1>5 DEF SiteChanges, vars
<1>6. QED
  BY <1>1, <1>2, <1>3, <1>4, <1>5 DEF Next

(* A pause the customer makes between the two queries of the automatic     *)
(* stop is never turned into a stop by the system.                         *)
THEOREM PauseKept == Spec => PauseIsNotAStop
<1>1. TypeOK /\ [Next]_vars => [(url'.disabled /\ ~url.disabled) => url.active]_vars
  BY StepStopsActive
<1>2. QED
  BY <1>1, TypeCorrect, PTL DEF Spec, PauseIsNotAStop
=============================================================================
