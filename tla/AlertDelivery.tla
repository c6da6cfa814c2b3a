--------------------------- MODULE AlertDelivery ---------------------------
(***************************************************************************)
(* The emails about one organization's alerts.  deliverAlertEmails runs    *)
(* after every scan that recorded a change and once per scheduler tick;    *)
(* runs overlap, and share nothing but the alert and delivery rows.        *)
(***************************************************************************)
EXTENDS Naturals, FiniteSets

CONSTANTS
  Alerts,
  Levels,       \* ranks of the alert levels (1..3 in the code)
  MinLevel,     \* the organization's alertEmailMinLevel
  Urgent,       \* the rank whose emails skip the gap
  Runs,         \* concurrent calls of deliverAlertEmails
  InFlight,     \* ALERT_EMAIL_IN_FLIGHT_MINUTES, in ticks
  Gap,          \* ALERT_EMAIL_MIN_INTERVAL_MINUTES, in ticks
  Hour,         \* the window of the hourly cap, in ticks
  MaxPerHour, MaxPerEmail, MaxAttempts, MaxListed,
  MaxFaults     \* bound on crashes and database errors

ASSUME ConstantsOK ==
  /\ Levels \subseteq Nat \ {0} /\ MinLevel \in Levels
  /\ Urgent \in Nat /\ \A l \in Levels : l <= Urgent
  /\ IsFiniteSet(Alerts) /\ IsFiniteSet(Runs) /\ Runs # {}
  /\ {InFlight, Gap, Hour, MaxPerHour, MaxPerEmail, MaxAttempts, MaxListed} \subseteq Nat \ {0}
  /\ Gap <= Hour
  /\ MaxFaults \in Nat

VARIABLES
  alert,       \* level and status of each AlertEvent
  later,       \* <<a, b>>: a has a later lastRaisedAt than b
  deliveries,  \* AlertDelivery rows; age counts up to InFlight while PENDING
  emails,      \* the distinct sentAt of SENT rows, as ages, up to an hour back
  run,         \* local state of each call of deliverAlertEmails
  received,    \* emails that reached the recipient, by alert and level
  faults

vars == <<alert, later, deliveries, emails, run, received, faults>>

Items == Alerts \X Levels
Rows == [item: Items, attempt: Nat \ {0}]
Delivery == [row: Rows, status: {"PENDING", "SENT", "FAILED"}, age: 0..InFlight]
Email == [rows: SUBSET Rows, urgent: BOOLEAN, age: 0..Hour]
Idle == [pc |-> "idle", listed |-> {}, plan |-> {}, attempt |-> 0, rows |-> {}, age |-> 0]

Of(item) == {d \in deliveries : d.row.item = item}

-----------------------------------------------------------------------------
(* planAlertEmail.                                                         *)
(* Mutant: only a higher level counts as told.                             *)
ToldHigher(item) ==
  \E d \in deliveries :
    d.status = "SENT" /\ d.row.item[1] = item[1] /\ d.row.item[2] > item[2]

Told(item) ==
  \E d \in deliveries :
    d.status = "SENT" /\ d.row.item[1] = item[1] /\ d.row.item[2] >= item[2]

(* Mutant: a reservation never expires.                                    *)
InProgressForever(item) ==
  \E d \in deliveries :
    d.status = "PENDING" /\ d.row.item[1] = item[1] /\ d.row.item[2] >= item[2]

InProgress(item) ==
  \E d \in deliveries :
    /\ d.status = "PENDING" /\ d.age < InFlight
    /\ d.row.item[1] = item[1] /\ d.row.item[2] >= item[2]

Failures(item) == Cardinality({d \in Of(item) : d.status = "FAILED"})

GaveUp(item) == Failures(item) >= MaxAttempts

Ready(listed) ==
  {item \in listed : /\ item[2] >= MinLevel
                     /\ ~Told(item) /\ ~InProgress(item) /\ ~GaveUp(item)}

HasUrgent(items) == \E item \in items : item[2] = Urgent

(* Mutant: the cap lets one email too many through.                        *)
CapReachedLate == Cardinality(emails) > MaxPerHour

CapReached == Cardinality(emails) >= MaxPerHour

(* Mutant: the gap is not kept.                                            *)
NeverTooSoon == FALSE

TooSoon == \E e \in emails : e.age < Gap

MaySend(items) == items # {} /\ ~CapReached /\ (HasUrgent(items) \/ ~TooSoon)

(* The most urgent come first; among equals the importance decides.        *)
Chosen(items) ==
  {chosen \in SUBSET items :
     /\ Cardinality(chosen) = IF Cardinality(items) < MaxPerEmail
                                THEN Cardinality(items) ELSE MaxPerEmail
     /\ \A i \in chosen, j \in items \ chosen : i[2] >= j[2]}

-----------------------------------------------------------------------------
Init ==
  /\ alert = [a \in Alerts |-> [level |-> MinLevel, status |-> "ABSENT"]]
  /\ later = {}
  /\ deliveries = {}
  /\ emails = {}
  /\ run = [r \in Runs |-> Idle]
  /\ received = [item \in Items |-> 0]
  /\ faults = 0

(* raiseAlerts creates an alert; a repeat of one that is not dismissed      *)
(* renews it and can only raise its level.                                 *)
Raise(a, l) ==
  /\ \/ alert[a].status = "ABSENT" /\ alert' = [alert EXCEPT ![a] = [level |-> l, status |-> "OPEN"]]
     \/ /\ alert[a].status \in {"OPEN", "ACKNOWLEDGED"}
        /\ alert' = [alert EXCEPT ![a].level = IF l > @ THEN l ELSE @]
  /\ later' = {p \in later : p[2] # a}
               \cup {<<a, b>> : b \in {c \in Alerts \ {a} : alert[c].status # "ABSENT"}}
  /\ UNCHANGED <<deliveries, emails, run, received, faults>>

(* PATCH /alerts: somebody has seen the alert.                             *)
SetAlertStatus(a, status) ==
  /\ alert[a].status \notin {"ABSENT", status}
  /\ alert' = [alert EXCEPT ![a].status = status]
  /\ UNCHANGED <<later, deliveries, emails, run, received, faults>>

-----------------------------------------------------------------------------
Open == {a \in Alerts : alert[a].status = "OPEN"}

Listed ==
  {<<a, alert[a].level>> :
     a \in {c \in Open : Cardinality({b \in Open : <<b, c>> \in later}) < MaxListed}}

(* now, then listAlerts: the latest MaxListed open alerts.                 *)
List(r) ==
  /\ run[r].pc = "idle"
  /\ run' = [run EXCEPT ![r] = [Idle EXCEPT !.pc = "read", !.listed = Listed]]
  /\ UNCHANGED <<alert, later, deliveries, emails, received, faults>>

Planning(k, chosen) == [k EXCEPT !.pc = "count", !.plan = chosen, !.listed = {}]

(* listAlertDeliveries, getAlertEmailActivity and the plan.                *)
Read(r) ==
  /\ run[r].pc = "read"
  /\ LET ready == Ready(run[r].listed) IN
       \/ ~MaySend(ready) /\ run' = [run EXCEPT ![r] = Idle]
       \/ /\ MaySend(ready)
          /\ \E chosen \in Chosen(ready) :
               run' = [run EXCEPT ![r] = Planning(run[r], chosen)]
  /\ UNCHANGED <<alert, later, deliveries, emails, received, faults>>

NextAttempt(item) == Cardinality(Of(item)) + 1

(* reserveAlertDeliveries, item by item: count the rows there are ...      *)
Count(r, item) ==
  /\ run[r].pc = "count"
  /\ item \in run[r].plan
  /\ \A other \in run[r].plan : item[2] >= other[2]
  /\ run' = [run EXCEPT ![r].pc = "create", ![r].listed = {item},
                        ![r].attempt = NextAttempt(item)]
  /\ UNCHANGED <<alert, later, deliveries, emails, received, faults>>

(* Mutant: a row another run created counts as reserved.                   *)
ReservedAnyway(r, row, taken) == run[r].rows \cup {row}

Reserved(r, row, taken) == IF taken THEN run[r].rows ELSE run[r].rows \cup {row}

(* ... and create the next, unless another run has done so since.          *)
Create(r, item) ==
  /\ run[r].pc = "create"
  /\ run[r].listed = {item}
  /\ LET row == [item |-> item, attempt |-> run[r].attempt]
         taken == \E d \in deliveries : d.row = row
         rows == Reserved(r, row, taken)
         plan == run[r].plan \ {item}
     IN /\ deliveries' = IF taken THEN deliveries
                           ELSE deliveries \cup {[row |-> row, status |-> "PENDING", age |-> 0]}
        /\ run' = [run EXCEPT ![r] =
             IF plan = {} /\ rows = {} THEN Idle
               ELSE [@ EXCEPT !.pc = IF plan = {} THEN "send" ELSE "count", !.listed = {},
                              !.plan = plan, !.attempt = 0, !.rows = rows]]
  /\ UNCHANGED <<alert, later, emails, received, faults>>

(* Mutant: a refused email counts as sent.                                 *)
AlwaysSent(accepted) == "sent"

Outcome(accepted) == IF accepted THEN "sent" ELSE "failed"

(* provider.send: an email that reached the recipient may still be         *)
(* reported as failed.                                                     *)
Send(r) ==
  /\ run[r].pc = "send"
  /\ \E delivered, accepted \in BOOLEAN :
       /\ accepted => delivered
       /\ received' = [item \in Items |->
            IF delivered /\ \E row \in run[r].rows : row.item = item
              THEN received[item] + 1 ELSE received[item]]
       /\ run' = [run EXCEPT ![r].pc = Outcome(accepted)]
  /\ UNCHANGED <<alert, later, deliveries, emails, faults>>

Marked(r, status) ==
  {IF d.row \in run[r].rows THEN [d EXCEPT !.status = status, !.age = InFlight] ELSE d :
     d \in deliveries}

(* sentAt is the time the run started.                                     *)
MarkSent(r) ==
  /\ run[r].pc = "sent"
  /\ deliveries' = Marked(r, "SENT")
  /\ emails' = emails \cup
       (IF run[r].age > Hour THEN {}
          ELSE {[rows |-> run[r].rows, age |-> run[r].age,
                 urgent |-> HasUrgent({row.item : row \in run[r].rows})]})
  /\ run' = [run EXCEPT ![r] = Idle]
  /\ UNCHANGED <<alert, later, received, faults>>

MarkFailed(r) ==
  /\ run[r].pc = "failed"
  /\ deliveries' = Marked(r, "FAILED")
  /\ run' = [run EXCEPT ![r] = Idle]
  /\ UNCHANGED <<alert, later, emails, received, faults>>

-----------------------------------------------------------------------------
(* A query fails, or the process dies: the run is gone, its rows stay as   *)
(* they are.                                                               *)
Crash(r) ==
  /\ run[r].pc # "idle"
  /\ faults < MaxFaults
  /\ faults' = faults + 1
  /\ run' = [run EXCEPT ![r] = Idle]
  /\ UNCHANGED <<alert, later, deliveries, emails, received>>

(* An email that left cannot be recorded as sent: it is recorded as failed. *)
MarkSentThrows(r) ==
  /\ run[r].pc = "sent"
  /\ faults < MaxFaults
  /\ faults' = faults + 1
  /\ run' = [run EXCEPT ![r].pc = "failed"]
  /\ UNCHANGED <<alert, later, deliveries, emails, received>>

(* The queries that follow "now" take no time on this scale.               *)
Tick ==
  /\ \A r \in Runs : run[r].pc # "read"
  /\ deliveries' = {IF d.status = "PENDING" /\ d.age < InFlight THEN [d EXCEPT !.age = @ + 1] ELSE d :
                      d \in deliveries}
  /\ emails' = {[e EXCEPT !.age = @ + 1] : e \in {f \in emails : f.age < Hour}}
  /\ run' = [r \in Runs |-> IF run[r].pc # "idle" /\ run[r].age <= Hour
                              THEN [run[r] EXCEPT !.age = @ + 1] ELSE run[r]]
  /\ UNCHANGED <<alert, later, received, faults>>

-----------------------------------------------------------------------------
Step(r) ==
  \/ List(r) \/ Read(r)
  \/ \E item \in Items : Count(r, item) \/ Create(r, item)
  \/ Send(r) \/ MarkSent(r) \/ MarkFailed(r)

Next ==
  \/ \E a \in Alerts, l \in Levels : Raise(a, l)
  \/ \E a \in Alerts, s \in {"ACKNOWLEDGED", "DISMISSED"} : SetAlertStatus(a, s)
  \/ \E r \in Runs : Step(r) \/ Crash(r) \/ MarkSentThrows(r)
  \/ Tick

Spec == Init /\ [][Next]_vars

(* The scheduler keeps calling deliverAlertEmails, and time passes whatever *)
(* the runs do (strong fairness, as Tick waits for a run's two queries).   *)
FairSpec == Spec /\ (\A r \in Runs : WF_vars(Step(r))) /\ SF_vars(Tick)
-----------------------------------------------------------------------------
TypeOK ==
  /\ alert \in [Alerts -> [level: Levels,
                           status: {"ABSENT", "OPEN", "ACKNOWLEDGED", "DISMISSED"}]]
  /\ later \subseteq Alerts \X Alerts
  /\ deliveries \subseteq Delivery /\ IsFiniteSet(deliveries)
  /\ emails \subseteq Email /\ IsFiniteSet(emails)
  /\ run \in [Runs -> [pc: {"idle", "read", "count", "create", "send", "sent", "failed"},
                       listed: SUBSET Items, plan: SUBSET Items, attempt: Nat,
                       rows: SUBSET Rows, age: 0..Hour + 1]]
  /\ received \in [Items -> Nat]
  /\ faults \in 0..MaxFaults

(* One run at a time: "an alert is emailed once per level (a repeat never  *)
(* re-sends it, a rise [...] does)".  A second email needs an attempt that *)
(* failed or never came to an end.                                         *)
OncePerLevel ==
  \A item \in Items :
    received[item] <= 1 + Cardinality({d \in Of(item) : d.status # "SENT"})
    /\ Cardinality({d \in Of(item) : d.status = "SENT"}) <= 1

(* One run at a time: an email without an urgent alert keeps its distance  *)
(* to the emails before it.                                                *)
NonUrgentSpaced ==
  \A e, f \in emails :
    (e # f /\ f.age <= e.age /\ ~f.urgent)
      => \/ e.age >= f.age + Gap
         \/ e.age = f.age /\ e.urgent  \* e left after f

(* The hourly cap: of overlapping runs each may add one email that the     *)
(* others did not count; a run by itself keeps to the cap.                 *)
CapWithOverlap == Cardinality(emails) < MaxPerHour + Cardinality(Runs)

(* "nothing is recorded as sent unless it was", and no two rows stand for  *)
(* one email: every SENT row is an email of its own that arrived.          *)
SentWasReceived ==
  \A item \in Items : Cardinality({d \in Of(item) : d.status = "SENT"}) <= received[item]

(* Reserved rows belong to one run, whatever they raced for.               *)
RowsAreOwned ==
  /\ \A r, s \in Runs : r # s => run[r].rows \cap run[s].rows = {}
  /\ \A r \in Runs : \A row \in run[r].rows :
       \E d \in deliveries : d.row = row /\ d.status = "PENDING"

(* "The unique key [...] makes a second run that raced this one fail for   *)
(* that alert instead of emailing it twice."                               *)
RacedRunIsLeftOut ==
  \A r, s \in Runs :
    r # s => \A x \in run[r].rows, y \in run[s].rows : x.item # y.item

Waiting(a) ==
  LET item == <<a, alert[a].level>> IN
    alert[a].status = "OPEN" /\ alert[a].level >= MinLevel /\ ~Told(item) /\ ~GaveUp(item)

(* "the alerts go out later": an alert nobody looks at is emailed at its   *)
(* level, or its attempts are used up.                                     *)
AlertsGoOut == <>[](\A a \in Alerts : ~Waiting(a))
=============================================================================
