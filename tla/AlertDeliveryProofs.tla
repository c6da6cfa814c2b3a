------------------------ MODULE AlertDeliveryProofs ------------------------
(***************************************************************************)
(* Proofs about AlertDelivery for any number of alerts, levels,            *)
(* overlapping runs, limits and faults: a reserved row belongs to the run  *)
(* that created it, no row is SENT unless its email arrived, and each run  *)
(* exceeds the hourly cap by one email at most.  While one run goes at a   *)
(* time, an alert is told once per level and emails keep their distance.   *)
(***************************************************************************)
EXTENDS AlertDelivery, FiniteSetTheorems, TLAPS

RunSet == [pc: {"idle", "read", "count", "create", "send", "sent", "failed"},
           listed: SUBSET Items, plan: SUBSET Items, attempt: Nat,
           rows: SUBSET Rows, age: 0..Hour + 1]

(* What a run has established: it holds one row for each alert it has      *)
(* dealt with, and none for those still planned.                           *)
RunOK(k) ==
  /\ k.pc \in {"idle", "read"} => k.rows = {}
  /\ k.pc = "create" => k.attempt # 0 /\ k.listed \subseteq k.plan
  /\ \A x \in k.rows : x.item \notin k.plan
  /\ \A x, y \in k.rows : x.item = y.item => x = y

RunInv == \A r \in Runs : RunOK(run[r])

(* The unique key of the table.                                            *)
RowUnique == \A d, e \in deliveries : d.row = e.row => d = e

OwnInv == TypeOK /\ RunInv /\ RowUnique /\ RowsAreOwned

-----------------------------------------------------------------------------
LEMMA Bounds ==
  /\ Hour \in Nat \ {0} /\ InFlight \in Nat \ {0} /\ MaxFaults \in Nat
  /\ MinLevel \in Levels
BY ConstantsOK

LEMMA IdleOK == Idle \in RunSet /\ RunOK(Idle) /\ Idle.rows = {} /\ Idle.pc = "idle"
BY Bounds DEF Idle, RunSet, RunOK

LEMMA RunTyped == ASSUME TypeOK PROVE run \in [Runs -> RunSet]
BY DEF TypeOK, RunSet

(* A step of a run that gives up rows at most.                             *)
LEMMA RunOnly ==
  ASSUME OwnInv, NEW r \in Runs, NEW k \in RunSet, RunOK(k),
         k.rows \subseteq run[r].rows,
         run' = [run EXCEPT ![r] = k], deliveries' = deliveries
  PROVE  run' \in [Runs -> RunSet] /\ RunInv' /\ RowUnique' /\ RowsAreOwned'
<1>1. run \in [Runs -> RunSet]
  BY RunTyped DEF OwnInv
<1>2. run'[r] = k /\ \A s \in Runs \ {r} : run'[s] = run[s]
  BY <1>1
<1>3. run' \in [Runs -> RunSet]
  BY <1>1
<1>4. RunInv'
  <2>1. \A s \in Runs : RunOK(run'[s])
    BY <1>2 DEF OwnInv, RunInv
  <2>2. QED
    BY <2>1 DEF RunInv, RunOK
<1>5. \A s \in Runs : run'[s].rows \subseteq run[s].rows
  BY <1>2
<1>6. RowsAreOwned'
  BY <1>5 DEF OwnInv, RowsAreOwned
<1>7. QED
  BY <1>3, <1>4, <1>6 DEF OwnInv, RowUnique

(* A function maps a finite set to a finite set.                           *)
LEMMA ImageFinite ==
  ASSUME NEW S, IsFiniteSet(S), NEW T, NEW f \in [S -> T]
  PROVE  IsFiniteSet({f[x] : x \in S})
<1> DEFINE U == {f[x] : x \in S}
<1>1. f \in Surjection(S, U)
  BY DEF Surjection
<1>2. QED
  BY <1>1, FS_Surjection

(* deliveries after MarkSent, MarkFailed: a run's own rows change status.  *)
LEMMA MarkedTyped ==
  ASSUME TypeOK, NEW r \in Runs, NEW status \in {"SENT", "FAILED"}
  PROVE  Marked(r, status) \subseteq Delivery /\ IsFiniteSet(Marked(r, status))
<1> DEFINE f == [d \in deliveries |->
                   IF d.row \in run[r].rows THEN [d EXCEPT !.status = status, !.age = InFlight]
                     ELSE d]
<1>1. Marked(r, status) = {f[d] : d \in deliveries}
  BY DEF Marked
<1>2. ASSUME NEW d \in Delivery
      PROVE  [d EXCEPT !.status = status, !.age = InFlight] \in Delivery
  <2>1. InFlight \in 0..InFlight
    BY Bounds
  <2>2. QED
    BY <2>1 DEF Delivery
<1>3. deliveries \subseteq Delivery /\ IsFiniteSet(deliveries)
  BY DEF TypeOK
<1>4. f \in [deliveries -> Delivery]
  BY <1>2, <1>3
<1> HIDE DEF f
<1>5. IsFiniteSet({f[d] : d \in deliveries})
  BY <1>3, <1>4, ImageFinite
<1>6. {f[d] : d \in deliveries} \subseteq Delivery
  BY <1>4
<1>7. QED
  BY <1>1, <1>5, <1>6

LEMMA AgedTyped ==
  ASSUME OwnInv, Tick
  PROVE  /\ deliveries' \subseteq Delivery /\ IsFiniteSet(deliveries')
         /\ emails' \subseteq Email /\ IsFiniteSet(emails')
<1> DEFINE f == [d \in deliveries |->
                   IF d.status = "PENDING" /\ d.age < InFlight THEN [d EXCEPT !.age = @ + 1]
                     ELSE d]
           young == {e \in emails : e.age < Hour}
           g == [e \in young |-> [e EXCEPT !.age = @ + 1]]
<1>1. deliveries' = {f[d] : d \in deliveries} /\ emails' = {g[e] : e \in young}
  BY DEF Tick
<1>2. f \in [deliveries -> Delivery]
  <2>1. ASSUME NEW d \in deliveries, d.age < InFlight
        PROVE  [d EXCEPT !.age = @ + 1] \in Delivery
    BY <2>1, Bounds DEF OwnInv, TypeOK, Delivery
  <2>2. QED
    BY <2>1 DEF OwnInv, TypeOK
<1>3. g \in [young -> Email]
  <2>1. ASSUME NEW e \in young
        PROVE  [e EXCEPT !.age = @ + 1] \in Email
    BY <2>1, Bounds DEF OwnInv, TypeOK, Email
  <2>2. QED
    BY <2>1
<1>4. IsFiniteSet(deliveries) /\ IsFiniteSet(young)
  BY FS_Subset DEF OwnInv, TypeOK
<1> HIDE DEF f, g, young
<1>5. IsFiniteSet({f[d] : d \in deliveries}) /\ IsFiniteSet({g[e] : e \in young})
  BY <1>2, <1>3, <1>4, ImageFinite
<1>6. {f[d] : d \in deliveries} \subseteq Delivery /\ {g[e] : e \in young} \subseteq Email
  BY <1>2, <1>3
<1>7. QED
  BY <1>1, <1>5, <1>6

LEMMA CountTyped ==
  ASSUME TypeOK, NEW item \in Items
  PROVE  NextAttempt(item) \in Nat \ {0}
<1>1. IsFiniteSet(Of(item))
  BY FS_Subset DEF TypeOK, Of
<1>2. QED
  BY <1>1, FS_CardinalityType DEF NextAttempt

-----------------------------------------------------------------------------
LEMMA InitOwn == Init => OwnInv
<1> SUFFICES ASSUME Init PROVE OwnInv
  OBVIOUS
<1>1. TypeOK
  BY Bounds, IdleOK, FS_EmptySet DEF Init, TypeOK, RunSet, Delivery, Email
<1>2. RunInv /\ RowUnique /\ RowsAreOwned
  BY IdleOK DEF Init, RunInv, RowUnique, RowsAreOwned
<1>3. QED
  BY <1>1, <1>2 DEF OwnInv

LEMMA AlertStep ==
  ASSUME OwnInv, NEW a \in Alerts,
         \/ \E l \in Levels : Raise(a, l)
         \/ \E s \in {"ACKNOWLEDGED", "DISMISSED"} : SetAlertStatus(a, s)
  PROVE  OwnInv'
<1>1. UNCHANGED <<deliveries, emails, run, received, faults>>
  BY DEF Raise, SetAlertStatus
<1>2. TypeOK'
  BY <1>1 DEF OwnInv, TypeOK, Raise, SetAlertStatus
<1>3. QED
  BY <1>1, <1>2 DEF OwnInv, RunInv, RunOK, RowUnique, RowsAreOwned

(* The steps of a run that leave the deliveries alone.                     *)
LEMMA PrivateStep ==
  ASSUME OwnInv, NEW r \in Runs, NEW k \in RunSet, RunOK(k),
         k.rows \subseteq run[r].rows, run' = [run EXCEPT ![r] = k],
         UNCHANGED <<alert, later, deliveries, emails>>,
         received' \in [Items -> Nat], faults' \in 0..MaxFaults
  PROVE  OwnInv'
<1>1. run' \in [Runs -> RunSet] /\ RunInv' /\ RowUnique' /\ RowsAreOwned'
  BY RunOnly
<1>2. TypeOK'
  BY <1>1 DEF OwnInv, TypeOK, RunSet
<1>3. QED
  BY <1>1, <1>2 DEF OwnInv

LEMMA ListStep ==
  ASSUME OwnInv, NEW r \in Runs, List(r)
  PROVE  OwnInv'
<1> DEFINE k == [Idle EXCEPT !.pc = "read", !.listed = Listed]
<1>1. Listed \subseteq Items
  <2>1. \A c \in Open : <<c, alert[c].level>> \in Items
    BY DEF Open, Items, OwnInv, TypeOK
  <2>2. QED
    BY <2>1 DEF Listed
<1>2. k \in RunSet /\ k.pc = "read" /\ k.rows = {}
  BY <1>1, IdleOK DEF RunSet
<1>3. run' = [run EXCEPT ![r] = k] /\ UNCHANGED <<alert, later, deliveries, emails, received, faults>>
  BY DEF List
<1> HIDE DEF k
<1>4. RunOK(k)
  BY <1>2 DEF RunOK
<1>5. QED
  BY <1>2, <1>3, <1>4, PrivateStep DEF OwnInv, TypeOK

LEMMA ReadStep ==
  ASSUME OwnInv, NEW r \in Runs, Read(r)
  PROVE  OwnInv'
<1>1. run[r] \in RunSet /\ RunOK(run[r]) /\ run[r].pc = "read" /\ run[r].rows = {}
  BY RunTyped DEF OwnInv, RunInv, RunOK, Read
<1>2. UNCHANGED <<alert, later, deliveries, emails, received, faults>>
  BY DEF Read
<1>3. \E k \in RunSet : RunOK(k) /\ k.rows = {} /\ run' = [run EXCEPT ![r] = k]
  <2>1. CASE run' = [run EXCEPT ![r] = Idle]
    BY <2>1, IdleOK
  <2>2. CASE \E chosen \in Chosen(Ready(run[r].listed)) :
               run' = [run EXCEPT ![r] = Planning(run[r], chosen)]
    <3>1. PICK chosen \in Chosen(Ready(run[r].listed)) :
            run' = [run EXCEPT ![r] = Planning(run[r], chosen)]
      BY <2>2
    <3> DEFINE k == Planning(run[r], chosen)
    <3>2. chosen \subseteq Items
      BY <1>1 DEF Chosen, Ready, RunSet
    <3>3. k \in RunSet /\ k.rows = {} /\ RunOK(k)
      BY <1>1, <3>2 DEF RunSet, RunOK, Planning
    <3>4. run' = [run EXCEPT ![r] = k]
      BY <3>1
    <3> HIDE DEF k
    <3>5. QED
      BY <3>3, <3>4
  <2>3. QED
    BY <2>1, <2>2 DEF Read
<1>4. QED
  BY <1>2, <1>3, PrivateStep DEF OwnInv, TypeOK

LEMMA CountStep ==
  ASSUME OwnInv, NEW r \in Runs, NEW item \in Items, Count(r, item)
  PROVE  OwnInv'
<1> DEFINE k == [run[r] EXCEPT !.pc = "create", !.listed = {item},
                               !.attempt = NextAttempt(item)]
<1>1. run[r] \in RunSet /\ RunOK(run[r]) /\ item \in run[r].plan
  BY RunTyped DEF OwnInv, RunInv, Count
<1>2. NextAttempt(item) \in Nat \ {0}
  BY CountTyped DEF OwnInv
<1>3. k \in RunSet /\ RunOK(k) /\ k.rows = run[r].rows
  BY <1>1, <1>2 DEF RunSet, RunOK
<1>4. run' = [run EXCEPT ![r] = k] /\ UNCHANGED <<alert, later, deliveries, emails, received, faults>>
  BY RunTyped DEF Count, OwnInv
<1> HIDE DEF k
<1>5. QED
  BY <1>3, <1>4, PrivateStep DEF OwnInv, TypeOK

(* Send and MarkSentThrows: only the program counter moves on.             *)
LEMMA MoveOn ==
  ASSUME OwnInv, NEW r \in Runs, NEW pc \in {"sent", "failed"},
         run' = [run EXCEPT ![r].pc = pc],
         UNCHANGED <<alert, later, deliveries, emails>>,
         received' \in [Items -> Nat], faults' \in 0..MaxFaults
  PROVE  OwnInv'
<1> DEFINE k == [run[r] EXCEPT !.pc = pc]
<1>1. run[r] \in RunSet /\ RunOK(run[r])
  BY RunTyped DEF OwnInv, RunInv
<1>2. k \in RunSet /\ RunOK(k) /\ k.rows = run[r].rows
  BY <1>1 DEF RunSet, RunOK
<1>3. run' = [run EXCEPT ![r] = k]
  BY RunTyped DEF OwnInv
<1> HIDE DEF k
<1>4. QED
  BY <1>2, <1>3, PrivateStep

LEMMA SendStep ==
  ASSUME OwnInv, NEW r \in Runs, Send(r)
  PROVE  OwnInv'
<1>1. PICK delivered, accepted \in BOOLEAN :
        /\ received' = [item \in Items |->
             IF delivered /\ \E row \in run[r].rows : row.item = item
               THEN received[item] + 1 ELSE received[item]]
        /\ run' = [run EXCEPT ![r].pc = Outcome(accepted)]
  BY DEF Send
<1>2. received' \in [Items -> Nat]
  BY <1>1 DEF OwnInv, TypeOK
<1>3. Outcome(accepted) \in {"sent", "failed"}
  BY DEF Outcome
<1>4. QED
  BY <1>1, <1>2, <1>3, MoveOn DEF Send, OwnInv, TypeOK

LEMMA FaultStep ==
  ASSUME OwnInv, NEW r \in Runs, Crash(r) \/ MarkSentThrows(r)
  PROVE  OwnInv'
<1>1. faults' \in 0..MaxFaults /\ received' \in [Items -> Nat]
  BY Bounds DEF OwnInv, TypeOK, Crash, MarkSentThrows
<1>2. CASE Crash(r)
  BY <1>1, <1>2, IdleOK, PrivateStep DEF Crash
<1>3. CASE MarkSentThrows(r)
  BY <1>1, <1>3, MoveOn DEF MarkSentThrows
<1>4. QED
  BY <1>2, <1>3

(* A new row belongs to nobody else: whoever owned it would have created   *)
(* a delivery for it.                                                      *)
LEMMA CreateStep ==
  ASSUME OwnInv, NEW r \in Runs, NEW item \in Items, Create(r, item)
  PROVE  OwnInv'
<1> DEFINE row == [item |-> item, attempt |-> run[r].attempt]
           taken == \E d \in deliveries : d.row = row
           new == [row |-> row, status |-> "PENDING", age |-> 0]
           rows == Reserved(r, row, taken)
           plan == run[r].plan \ {item}
           k == IF plan = {} /\ rows = {} THEN Idle
                  ELSE [run[r] EXCEPT !.pc = IF plan = {} THEN "send" ELSE "count",
                          !.listed = {}, !.plan = plan, !.attempt = 0, !.rows = rows]
<1>1. /\ run[r] \in RunSet /\ RunOK(run[r])
      /\ run[r].attempt \in Nat \ {0} /\ item \in run[r].plan
  <2>1. run[r] \in RunSet /\ RunOK(run[r]) /\ run[r].pc = "create" /\ run[r].listed = {item}
    BY RunTyped DEF OwnInv, RunInv, Create
  <2>2. run[r].attempt \in Nat
    BY <2>1 DEF RunSet
  <2>3. QED
    BY <2>1, <2>2 DEF RunOK
<1>2. row \in Rows /\ new \in Delivery
  BY <1>1, Bounds DEF Rows, Delivery
<1>3. /\ deliveries' = IF taken THEN deliveries ELSE deliveries \cup {new}
      /\ run' = [run EXCEPT ![r] = k]
      /\ UNCHANGED <<alert, later, emails, received, faults>>
  BY RunTyped DEF Create, OwnInv
<1>4. rows \in SUBSET Rows /\ rows \subseteq run[r].rows \cup {row} /\ (taken => rows = run[r].rows)
  BY <1>1, <1>2 DEF Reserved, RunSet
<1>5. k \in RunSet /\ RunOK(k) /\ k.rows \subseteq rows
  <2>1. row.item = item /\ plan \subseteq run[r].plan /\ item \notin plan /\ plan \in SUBSET Items
    BY <1>1 DEF RunSet
  <2> HIDE DEF rows, plan, row, taken
  <2>2. \A x \in rows : x.item \notin plan
    BY <1>1, <1>4, <2>1 DEF RunOK
  <2>3. \A x, y \in rows : x.item = y.item => x = y
    BY <1>1, <1>4, <2>1 DEF RunOK
  <2>4. CASE plan = {} /\ rows = {}
    BY <2>4, IdleOK
  <2>5. CASE ~(plan = {} /\ rows = {})
    <3>1. k = [run[r] EXCEPT !.pc = IF plan = {} THEN "send" ELSE "count",
                 !.listed = {}, !.plan = plan, !.attempt = 0, !.rows = rows]
      BY <2>5
    <3> HIDE DEF k
    <3>2. k \in RunSet /\ k.plan = plan /\ k.rows = rows /\ k.pc \in {"send", "count"}
      BY <1>1, <1>4, <2>1, <3>1 DEF RunSet
    <3>3. QED
      BY <2>2, <2>3, <3>2 DEF RunOK
  <2>6. QED
    BY <2>4, <2>5
<1> HIDE DEF k
<1>6. run' \in [Runs -> RunSet] /\ run'[r] = k /\ \A s \in Runs \ {r} : run'[s] = run[s]
  BY <1>3, <1>5, RunTyped DEF OwnInv
<1>7. RunInv'
  BY <1>5, <1>6 DEF OwnInv, RunInv, RunOK
<1>8. TypeOK'
  <2>1. deliveries' \subseteq Delivery /\ IsFiniteSet(deliveries')
    BY <1>2, <1>3, FS_AddElement DEF OwnInv, TypeOK
  <2>2. QED
    BY <1>3, <1>6, <2>1 DEF OwnInv, TypeOK, RunSet
<1>9. RowUnique'
  BY <1>3 DEF OwnInv, RowUnique
<1>10. RowsAreOwned'
  <2>1. \A s \in Runs \ {r} : run'[s].rows = run[s].rows
    BY <1>6
  <2>2. run'[r].rows \subseteq run[r].rows \cup {row} /\ (taken => run'[r].rows \subseteq run[r].rows)
    BY <1>4, <1>5, <1>6
  <2>3. \A s \in Runs : \A x \in run[s].rows : \E d \in deliveries : d.row = x /\ d.status = "PENDING"
    BY DEF OwnInv, RowsAreOwned
  <2>4. ~taken => \A s \in Runs : row \notin run[s].rows
    BY <2>3
  <2>5. \A s \in Runs : \A x \in run'[s].rows : \E d \in deliveries' : d.row = x /\ d.status = "PENDING"
    <3>1. deliveries \subseteq deliveries'
      BY <1>3
    <3>2. \A x \in run'[r].rows \ run[r].rows : new \in deliveries' /\ x = new.row
      BY <1>3, <2>2
    <3>3. new.status = "PENDING"
      OBVIOUS
    <3> HIDE DEF new, row, taken
    <3>4. QED
      BY <2>1, <2>3, <3>1, <3>2, <3>3
  <2> HIDE DEF row, taken
  <2>6. \A s, t \in Runs : s # t => run[s].rows \cap run[t].rows = {}
    BY DEF OwnInv, RowsAreOwned
  <2>7. \A s, t \in Runs : s # t => run'[s].rows \cap run'[t].rows = {}
    BY <2>1, <2>2, <2>4, <2>6
  <2>8. QED
    BY <2>5, <2>7 DEF RowsAreOwned
<1>11. QED
  BY <1>7, <1>8, <1>9, <1>10 DEF OwnInv

(* A run that marks its rows touches nobody else's.                        *)
LEMMA MarkStep ==
  ASSUME OwnInv, NEW r \in Runs, NEW status \in {"SENT", "FAILED"},
         deliveries' = Marked(r, status), run' = [run EXCEPT ![r] = Idle],
         emails' \subseteq Email, IsFiniteSet(emails'),
         UNCHANGED <<alert, later, received, faults>>
  PROVE  OwnInv'
<1>1. run' \in [Runs -> RunSet] /\ run'[r] = Idle /\ \A s \in Runs \ {r} : run'[s] = run[s]
  BY IdleOK, RunTyped DEF OwnInv
<1>2. RunInv'
  BY <1>1, IdleOK DEF OwnInv, RunInv, RunOK
<1>3. TypeOK'
  BY <1>1, MarkedTyped DEF OwnInv, TypeOK, RunSet
<1> DEFINE f == [e \in deliveries |->
                   IF e.row \in run[r].rows THEN [e EXCEPT !.status = status, !.age = InFlight]
                     ELSE e]
<1>4. deliveries' = {f[e] : e \in deliveries} /\ \A e \in deliveries : f[e].row = e.row
  BY DEF Marked, OwnInv, TypeOK, Delivery
<1>5. RowUnique'
  <2> HIDE DEF f
  <2>1. QED
    BY <1>4 DEF OwnInv, RowUnique
<1>6. RowsAreOwned'
  <2>1. \A s \in Runs \ {r} : run'[s].rows = run[s].rows /\ run[s].rows \cap run[r].rows = {}
    BY <1>1 DEF OwnInv, RowsAreOwned
  <2>2. run'[r].rows = {}
    BY <1>1, IdleOK
  <2>3. ASSUME NEW s \in Runs, NEW x \in run'[s].rows
        PROVE  \E d \in deliveries' : d.row = x /\ d.status = "PENDING"
    <3>1. s # r /\ x \in run[s].rows /\ x \notin run[r].rows
      BY <2>1, <2>2, <2>3
    <3>2. PICK d \in deliveries : d.row = x /\ d.status = "PENDING"
      BY <3>1 DEF OwnInv, RowsAreOwned
    <3>3. d \in deliveries'
      BY <3>1, <3>2 DEF Marked
    <3>4. QED
      BY <3>2, <3>3
  <2>4. \A s, t \in Runs : s # t => run'[s].rows \cap run'[t].rows = {}
    BY <2>1, <2>2 DEF OwnInv, RowsAreOwned
  <2>5. QED
    BY <2>3, <2>4 DEF RowsAreOwned
<1>7. QED
  BY <1>2, <1>3, <1>5, <1>6 DEF OwnInv

LEMMA MarkSentStep ==
  ASSUME OwnInv, NEW r \in Runs, MarkSent(r)
  PROVE  OwnInv'
<1>1. run[r] \in RunSet
  BY RunTyped DEF OwnInv
<1> DEFINE e == [rows |-> run[r].rows, age |-> run[r].age,
                 urgent |-> HasUrgent({row.item : row \in run[r].rows})]
<1>2. emails' = emails \cup (IF run[r].age > Hour THEN {} ELSE {e})
  BY DEF MarkSent
<1>3. run[r].age <= Hour => e \in Email
  BY <1>1, Bounds DEF RunSet, Email, HasUrgent
<1> HIDE DEF e
<1>4. emails' \subseteq Email /\ IsFiniteSet(emails')
  <2>1. emails \subseteq Email /\ IsFiniteSet(emails) /\ IsFiniteSet(emails \cup {e})
    BY FS_AddElement DEF OwnInv, TypeOK
  <2>2. run[r].age > Hour \/ run[r].age <= Hour
    BY <1>1, Bounds DEF RunSet
  <2>3. QED
    BY <1>2, <1>3, <2>1, <2>2
<1>5. QED
  BY <1>4, MarkStep DEF MarkSent

LEMMA MarkFailedStep ==
  ASSUME OwnInv, NEW r \in Runs, MarkFailed(r)
  PROVE  OwnInv'
BY MarkStep DEF MarkFailed, OwnInv, TypeOK

LEMMA TickStep ==
  ASSUME OwnInv, Tick
  PROVE  OwnInv'
<1>0. \A e \in deliveries : /\ [e EXCEPT !.age = @ + 1].row = e.row
                            /\ [e EXCEPT !.age = @ + 1].status = e.status
  BY DEF OwnInv, TypeOK, Delivery
<1>1. /\ run' = [r \in Runs |-> IF run[r].pc # "idle" /\ run[r].age <= Hour
                                  THEN [run[r] EXCEPT !.age = @ + 1] ELSE run[r]]
      /\ UNCHANGED <<alert, later, received, faults>>
  BY DEF Tick
<1>2. \A r \in Runs : run[r] \in RunSet
  BY RunTyped DEF OwnInv
<1>3. \A r \in Runs : /\ run'[r] \in RunSet
                      /\ run'[r].pc = run[r].pc /\ run'[r].plan = run[r].plan
                      /\ run'[r].listed = run[r].listed /\ run'[r].rows = run[r].rows
                      /\ run'[r].attempt = run[r].attempt
  BY <1>1, <1>2, Bounds DEF RunSet
<1>4. RunInv'
  BY <1>3 DEF OwnInv, RunInv, RunOK
<1>5. TypeOK'
  BY <1>1, <1>3, AgedTyped DEF OwnInv, TypeOK, RunSet
<1>6. \A d \in deliveries' : \E e \in deliveries :
        /\ d.row = e.row
        /\ d = IF e.status = "PENDING" /\ e.age < InFlight THEN [e EXCEPT !.age = @ + 1] ELSE e
  BY <1>0 DEF Tick
<1>7. \A e \in deliveries : \E d \in deliveries' : d.row = e.row /\ d.status = e.status
  BY <1>0 DEF Tick
<1>8. RowUnique'
  BY <1>6 DEF OwnInv, RowUnique
<1>9. RowsAreOwned'
  BY <1>3, <1>7 DEF OwnInv, RowsAreOwned
<1>10. QED
  BY <1>4, <1>5, <1>8, <1>9 DEF OwnInv

LEMMA NextOwn ==
  ASSUME OwnInv, [Next]_vars
  PROVE  OwnInv'
<1>1. CASE UNCHANGED vars
  BY <1>1 DEF vars, OwnInv, TypeOK, RunInv, RunOK, RowUnique, RowsAreOwned
<1>2. ASSUME NEW r \in Runs, Step(r) \/ Crash(r) \/ MarkSentThrows(r)
      PROVE  OwnInv'
  BY <1>2, ListStep, ReadStep, CountStep, CreateStep, SendStep, MarkSentStep,
     MarkFailedStep, FaultStep DEF Step
<1>3. QED
  BY <1>1, <1>2, AlertStep, TickStep DEF Next

LEMMA Owned == Spec => []OwnInv
BY InitOwn, NextOwn, PTL DEF Spec

(* Types hold for any number of alerts, levels, runs, limits and faults.   *)
THEOREM TypeCorrect == Spec => []TypeOK
<1>1. OwnInv => TypeOK
  BY DEF OwnInv
<1>2. QED
  BY <1>1, Owned, PTL

(* However many runs race to reserve, a reserved row is held by one run    *)
(* and stays PENDING until that run marks it.                              *)
THEOREM OwnedByOne == Spec => []RowsAreOwned
<1>1. OwnInv => RowsAreOwned
  BY DEF OwnInv
<1>2. QED
  BY <1>1, Owned, PTL

-----------------------------------------------------------------------------
(* The rows of an alert and level whose email arrived and that are SENT,   *)
(* or will be once their run has marked them.                              *)
Mailed(item) ==
  {row \in Rows :
     /\ row.item = item
     /\ \E d \in deliveries :
          /\ d.row = row
          /\ \/ d.status = "SENT"
             \/ \E r \in Runs : run[r].pc = "sent" /\ row \in run[r].rows}

MailInv ==
  \A item \in Items :
    IsFiniteSet(Mailed(item)) /\ Cardinality(Mailed(item)) <= received[item]

LEMMA Fewer ==
  ASSUME OwnInv, MailInv, received' = received,
         \A item \in Items : Mailed(item)' \subseteq Mailed(item)
  PROVE  MailInv'
<1> SUFFICES ASSUME NEW item \in Items
             PROVE  /\ IsFiniteSet(Mailed(item)')
                    /\ Cardinality(Mailed(item)') <= received[item]
  BY DEF MailInv
<1>1. received[item] \in Nat
  BY DEF OwnInv, TypeOK
<1>2. IsFiniteSet(Mailed(item)) /\ Cardinality(Mailed(item)) <= received[item]
  BY DEF MailInv
<1>3. /\ IsFiniteSet(Mailed(item)')
      /\ Cardinality(Mailed(item)') <= Cardinality(Mailed(item))
  BY <1>2, FS_Subset
<1>4. Cardinality(Mailed(item)) \in Nat /\ Cardinality(Mailed(item)') \in Nat
  BY <1>2, <1>3, FS_CardinalityType
<1>5. QED
  BY <1>1, <1>2, <1>3, <1>4

LEMMA NothingSent ==
  ASSUME OwnInv, MailInv, UNCHANGED <<deliveries, received>>,
         \A s \in Runs : run'[s].pc = "sent" => run[s].pc = "sent" /\ run'[s].rows = run[s].rows
  PROVE  MailInv'
<1>1. \A item \in Items : Mailed(item)' \subseteq Mailed(item)
  BY DEF Mailed
<1>2. QED
  BY <1>1, Fewer

(* Every run holds at most one row of an alert.                            *)
LEMMA SendMail ==
  ASSUME OwnInv, MailInv, NEW r \in Runs, Send(r)
  PROVE  MailInv'
<1>1. PICK delivered, accepted \in BOOLEAN :
        /\ accepted => delivered
        /\ received' = [item \in Items |->
             IF delivered /\ \E row \in run[r].rows : row.item = item
               THEN received[item] + 1 ELSE received[item]]
        /\ run' = [run EXCEPT ![r].pc = Outcome(accepted)]
  BY DEF Send
<1>2. deliveries' = deliveries
  BY DEF Send
<1>3. /\ run'[r].rows = run[r].rows /\ run'[r].pc = Outcome(accepted)
      /\ \A s \in Runs \ {r} : run'[s] = run[s]
  BY <1>1, RunTyped DEF OwnInv, RunSet
<1> SUFFICES ASSUME NEW item \in Items
             PROVE  /\ IsFiniteSet(Mailed(item)')
                    /\ Cardinality(Mailed(item)') <= received'[item]
  BY DEF MailInv
<1>4. /\ IsFiniteSet(Mailed(item)) /\ Cardinality(Mailed(item)) <= received[item]
      /\ Cardinality(Mailed(item)) \in Nat /\ received[item] \in Nat
  BY FS_CardinalityType DEF MailInv, OwnInv, TypeOK
<1>5. received'[item] >= received[item]
  BY <1>1, <1>4
<1>6. CASE accepted /\ \E row \in run[r].rows : row.item = item
  <2>1. PICK row \in run[r].rows : row.item = item
    BY <1>6
  <2>2. \A x \in run[r].rows : x.item = item => x = row
    BY <2>1 DEF OwnInv, RunInv, RunOK
  <2>3. Mailed(item)' \subseteq Mailed(item) \cup {row}
    BY <1>2, <1>3, <2>2 DEF Mailed
  <2>4. /\ IsFiniteSet(Mailed(item) \cup {row})
        /\ Cardinality(Mailed(item) \cup {row}) <= Cardinality(Mailed(item)) + 1
    <3>1. /\ IsFiniteSet(Mailed(item) \cup {row})
          /\ Cardinality(Mailed(item) \cup {row})
               = IF row \in Mailed(item) THEN Cardinality(Mailed(item))
                   ELSE Cardinality(Mailed(item)) + 1
      BY <1>4, FS_AddElement
    <3>2. QED
      BY <1>4, <3>1
  <2>5. /\ IsFiniteSet(Mailed(item)')
        /\ Cardinality(Mailed(item)') <= Cardinality(Mailed(item) \cup {row})
    BY <2>3, <2>4, FS_Subset
  <2>6. Cardinality(Mailed(item)') \in Nat /\ Cardinality(Mailed(item) \cup {row}) \in Nat
    BY <2>4, <2>5, FS_CardinalityType
  <2>7. received'[item] = received[item] + 1
    BY <1>1, <1>6
  <2>8. QED
    BY <1>4, <2>4, <2>5, <2>6, <2>7
<1>7. CASE ~(accepted /\ \E row \in run[r].rows : row.item = item)
  <2>1. Mailed(item)' \subseteq Mailed(item)
    <3>1. CASE accepted
      BY <1>2, <1>3, <1>7, <3>1 DEF Mailed
    <3>2. CASE ~accepted
      <4>1. run'[r].pc = "failed"
        BY <1>3, <3>2 DEF Outcome
      <4>2. QED
        BY <1>2, <1>3, <4>1 DEF Mailed
    <3>3. QED
      BY <3>1, <3>2
  <2>2. /\ IsFiniteSet(Mailed(item)')
        /\ Cardinality(Mailed(item)') <= Cardinality(Mailed(item))
    BY <1>4, <2>1, FS_Subset
  <2>3. Cardinality(Mailed(item)') \in Nat /\ received'[item] \in Nat
    BY <1>1, <1>4, <2>2, FS_CardinalityType
  <2>4. QED
    BY <1>4, <1>5, <2>2, <2>3
<1>8. QED
  BY <1>6, <1>7

(* A reservation is PENDING, and no run that has sent could hold its row.  *)
LEMMA CreateMail ==
  ASSUME OwnInv, MailInv, NEW r \in Runs, NEW item \in Items, Create(r, item)
  PROVE  MailInv'
<1> DEFINE row == [item |-> item, attempt |-> run[r].attempt]
           taken == \E d \in deliveries : d.row = row
           new == [row |-> row, status |-> "PENDING", age |-> 0]
<1>1. deliveries' = IF taken THEN deliveries ELSE deliveries \cup {new}
  BY DEF Create
<1>2. received' = received
  BY DEF Create
<1>3. run'[r].pc # "sent" /\ \A s \in Runs \ {r} : run'[s] = run[s]
  <2>1. run[r] \in RunSet /\ run \in [Runs -> RunSet]
    BY RunTyped DEF OwnInv
  <2>2. \A s \in Runs \ {r} : run'[s] = run[s]
    BY <2>1 DEF Create
  <2>3. run'[r].pc \in {"idle", "send", "count"}
    BY <2>1, IdleOK DEF Create, RunSet
  <2>4. QED
    BY <2>2, <2>3
<1>4. new.row = row /\ new.status = "PENDING"
  OBVIOUS
<1>5. \A s \in Runs : \A x \in run[s].rows : \E d \in deliveries : d.row = x
  BY DEF OwnInv, RowsAreOwned
<1> HIDE DEF new, row
<1>6. \A other \in Items : Mailed(other)' \subseteq Mailed(other)
  <2>1. SUFFICES ASSUME NEW other \in Items, NEW x \in Mailed(other)'
                 PROVE  x \in Mailed(other)
    OBVIOUS
  <2>2. PICK d \in deliveries' :
          /\ d.row = x
          /\ \/ d.status = "SENT"
             \/ \E s \in Runs : run'[s].pc = "sent" /\ x \in run'[s].rows
    BY DEF Mailed
  <2>3. d.status = "SENT" \/ \E s \in Runs : run[s].pc = "sent" /\ x \in run[s].rows
    BY <1>3, <2>2
  <2>4. \E e \in deliveries : e.row = x /\ (d.status = "SENT" => e = d)
    BY <1>1, <1>4, <1>5, <2>2, <2>3
  <2>5. QED
    BY <2>1, <2>3, <2>4 DEF Mailed
<1>7. QED
  BY <1>2, <1>6, Fewer

(* Marking as SENT counts no row that was not counted as sent before.      *)
LEMMA MarkMail ==
  ASSUME OwnInv, MailInv, NEW r \in Runs, NEW status \in {"SENT", "FAILED"},
         status = "SENT" => run[r].pc = "sent",
         deliveries' = Marked(r, status), run' = [run EXCEPT ![r] = Idle],
         received' = received
  PROVE  MailInv'
<1>1. run'[r].pc = "idle" /\ \A s \in Runs \ {r} : run'[s] = run[s]
  BY IdleOK, RunTyped DEF OwnInv
<1>2. \A e \in deliveries :
        LET d == [e EXCEPT !.status = status, !.age = InFlight]
        IN  d.row = e.row /\ d.status = status
  BY DEF OwnInv, TypeOK, Delivery
<1>3. \A d \in deliveries' :
        \/ d \in deliveries
        \/ d.row \in run[r].rows /\ d.status = status /\ \E e \in deliveries : e.row = d.row
  BY <1>2 DEF Marked
<1>4. \A d \in deliveries' : \E e \in deliveries : e.row = d.row
  BY <1>3
<1>5. \A item \in Items : Mailed(item)' \subseteq Mailed(item)
  BY <1>1, <1>3, <1>4 DEF Mailed
<1>6. QED
  BY <1>5, Fewer

LEMMA TickMail ==
  ASSUME OwnInv, MailInv, Tick
  PROVE  MailInv'
<1>1. \A r \in Runs : run'[r].pc = run[r].pc /\ run'[r].rows = run[r].rows
  BY RunTyped, Bounds DEF Tick, OwnInv, RunSet
<1>2. \A e \in deliveries : /\ [e EXCEPT !.age = @ + 1].row = e.row
                            /\ [e EXCEPT !.age = @ + 1].status = e.status
  BY DEF OwnInv, TypeOK, Delivery
<1>3. \A d \in deliveries' : \E e \in deliveries : d.row = e.row /\ d.status = e.status
  BY <1>2 DEF Tick
<1>4. \A item \in Items : Mailed(item)' \subseteq Mailed(item)
  BY <1>1, <1>3 DEF Mailed
<1>5. QED
  BY <1>4, Fewer DEF Tick

LEMMA RunMail ==
  ASSUME OwnInv, MailInv, NEW r \in Runs, Step(r) \/ Crash(r) \/ MarkSentThrows(r)
  PROVE  MailInv'
<1>1. run \in [Runs -> RunSet]
  BY RunTyped DEF OwnInv
<1>2. CASE \/ List(r) \/ Read(r) \/ (\E item \in Items : Count(r, item))
           \/ Crash(r) \/ MarkSentThrows(r)
  <2>1. UNCHANGED <<deliveries, received>>
    BY <1>2 DEF List, Read, Count, Crash, MarkSentThrows
  <2>2. \A s \in Runs \ {r} : run'[s] = run[s]
    BY <1>1, <1>2 DEF List, Read, Count, Crash, MarkSentThrows
  <2>3. run'[r].pc # "sent"
    <3>1. CASE List(r) \/ Crash(r)
      <4>1. run'[r].pc \in {"read", "idle"}
        BY <1>1, <3>1, IdleOK DEF List, Crash, RunSet
      <4>2. QED
        BY <4>1
    <3>2. CASE Read(r)
      <4>1. CASE run' = [run EXCEPT ![r] = Idle]
        BY <1>1, <4>1, IdleOK
      <4>2. CASE \E chosen \in Chosen(Ready(run[r].listed)) :
                   run' = [run EXCEPT ![r] = Planning(run[r], chosen)]
        BY <1>1, <4>2 DEF RunSet, Planning
      <4>3. QED
        BY <3>2, <4>1, <4>2 DEF Read
    <3>3. CASE \E item \in Items : Count(r, item)
      BY <1>1, <3>3 DEF Count, RunSet
    <3>4. CASE MarkSentThrows(r)
      BY <1>1, <3>4 DEF MarkSentThrows, RunSet
    <3>5. QED
      BY <1>2, <3>1, <3>2, <3>3, <3>4
  <2>4. QED
    BY <2>1, <2>2, <2>3, NothingSent
<1>3. CASE MarkSent(r)
  BY <1>3, MarkMail DEF MarkSent
<1>4. CASE MarkFailed(r)
  BY <1>4, MarkMail DEF MarkFailed
<1>5. QED
  BY <1>2, <1>3, <1>4, SendMail, CreateMail DEF Step

LEMMA NextMail ==
  ASSUME OwnInv, MailInv, [Next]_vars
  PROVE  MailInv'
<1>1. CASE UNCHANGED vars
  BY <1>1, NothingSent DEF vars
<1>2. CASE \/ \E a \in Alerts, l \in Levels : Raise(a, l)
           \/ \E a \in Alerts, s \in {"ACKNOWLEDGED", "DISMISSED"} : SetAlertStatus(a, s)
  BY <1>2, NothingSent DEF Raise, SetAlertStatus
<1>3. QED
  BY <1>1, <1>2, RunMail, TickMail DEF Next

LEMMA InitMail == Init => MailInv
<1> SUFFICES ASSUME Init, NEW item \in Items
             PROVE  IsFiniteSet(Mailed(item)) /\ Cardinality(Mailed(item)) <= received[item]
  BY DEF MailInv
<1>1. Mailed(item) = {} /\ received[item] = 0
  BY DEF Init, Mailed
<1>2. QED
  BY <1>1, FS_EmptySet

(* SENT rows stand for distinct emails: a row is one delivery.             *)
LEMMA MailedBoundsSent ==
  ASSUME OwnInv, MailInv
  PROVE  SentWasReceived
<1> SUFFICES ASSUME NEW item \in Items
             PROVE  Cardinality({d \in Of(item) : d.status = "SENT"}) <= received[item]
  BY DEF SentWasReceived
<1> DEFINE sent == {d \in Of(item) : d.status = "SENT"}
           f == [d \in sent |-> d.row]
<1>1. \A d \in sent : d \in deliveries /\ d.row \in Mailed(item)
  BY DEF Of, Mailed, OwnInv, TypeOK, Delivery
<1>2. f \in Injection(sent, Mailed(item))
  BY <1>1 DEF Injection, IsInjective, OwnInv, RowUnique
<1>3. IsFiniteSet(Mailed(item)) /\ Cardinality(Mailed(item)) <= received[item]
  BY DEF MailInv
<1> HIDE DEF sent, f
<1>4. IsFiniteSet(sent) /\ Cardinality(sent) <= Cardinality(Mailed(item))
  BY <1>2, <1>3, FS_Injection
<1>5. /\ Cardinality(sent) \in Nat /\ Cardinality(Mailed(item)) \in Nat
      /\ received[item] \in Nat
  BY <1>3, <1>4, FS_CardinalityType DEF OwnInv, TypeOK
<1>6. Cardinality(sent) <= received[item]
  BY <1>3, <1>4, <1>5
<1>7. QED
  BY <1>6 DEF sent

(* Nothing is recorded as sent unless it was, and no two rows stand for    *)
(* one email, however many runs overlap, crash or fail to mark.            *)
THEOREM SentCorrect == Spec => []SentWasReceived
<1>1. Spec => []MailInv
  BY InitMail, NextMail, Owned, PTL DEF Spec
<1>2. OwnInv /\ MailInv => SentWasReceived
  BY MailedBoundsSent
<1>3. QED
  BY <1>1, <1>2, Owned, PTL

-----------------------------------------------------------------------------
LEMMA OthersStay ==
  ASSUME OwnInv, NEW r \in Runs, Step(r) \/ Crash(r) \/ MarkSentThrows(r)
  PROVE  \A s \in Runs \ {r} : run'[s] = run[s]
<1>1. run \in [Runs -> RunSet]
  BY RunTyped DEF OwnInv
<1>2. CASE List(r) \/ Crash(r) \/ MarkSentThrows(r) \/ Send(r) \/ MarkSent(r) \/ MarkFailed(r)
  BY <1>1, <1>2 DEF List, Crash, MarkSentThrows, Send, MarkSent, MarkFailed
<1>3. CASE Read(r)
  <2>1. CASE run' = [run EXCEPT ![r] = Idle]
    BY <1>1, <2>1
  <2>2. CASE \E chosen \in Chosen(Ready(run[r].listed)) :
               run' = [run EXCEPT ![r] = Planning(run[r], chosen)]
    BY <1>1, <2>2
  <2>3. QED
    BY <1>3, <2>1, <2>2, Zenon DEF Read
<1>4. ASSUME NEW item \in Items, Count(r, item) \/ Create(r, item)
      PROVE  \A s \in Runs \ {r} : run'[s] = run[s]
  BY <1>1, <1>4 DEF Count, Create
<1>5. QED
  BY <1>2, <1>3, <1>4 DEF Step

(* The runs that have passed the checks of the cap and the gap.            *)
Started == {r \in Runs : run[r].pc \notin {"idle", "read"}}

(* A run that starts counts the emails, not the runs that have started     *)
(* before it: each of them may still add one.                              *)
CapInv == Cardinality(emails) + Cardinality(Started) < MaxPerHour + Cardinality(Runs)

LEMMA Sizes ==
  ASSUME OwnInv
  PROVE  /\ IsFiniteSet(emails) /\ Cardinality(emails) \in Nat
         /\ IsFiniteSet(Started) /\ Cardinality(Started) \in Nat
         /\ Cardinality(Started) <= Cardinality(Runs)
         /\ Cardinality(Runs) \in Nat /\ MaxPerHour \in Nat \ {0}
<1>1. IsFiniteSet(emails) /\ IsFiniteSet(Runs) /\ Started \subseteq Runs
  BY ConstantsOK DEF OwnInv, TypeOK, Started
<1>2. IsFiniteSet(Started) /\ Cardinality(Started) <= Cardinality(Runs)
  BY <1>1, FS_Subset
<1>3. QED
  BY <1>1, <1>2, FS_CardinalityType, ConstantsOK

LEMMA NoneStarts ==
  ASSUME OwnInv, OwnInv', CapInv, Started' \subseteq Started,
         Cardinality(emails') <= Cardinality(emails)
  PROVE  CapInv'
<1>1. /\ Cardinality(emails) \in Nat /\ IsFiniteSet(Started) /\ Cardinality(Started) \in Nat
      /\ Cardinality(Runs) \in Nat /\ MaxPerHour \in Nat
  BY Sizes
<1>2. Cardinality(Started') <= Cardinality(Started)
  BY <1>1, FS_Subset
<1>3. IsFiniteSet(Started') /\ IsFiniteSet(emails')
  BY <1>1, FS_Subset DEF OwnInv, TypeOK
<1>4. Cardinality(Started') \in Nat /\ Cardinality(emails') \in Nat
  BY <1>3, FS_CardinalityType
<1>5. QED
  BY <1>1, <1>2, <1>4 DEF CapInv

LEMMA ReadCap ==
  ASSUME OwnInv, OwnInv', CapInv, NEW r \in Runs, Read(r)
  PROVE  CapInv'
<1>1. emails' = emails
  BY Zenon DEF Read
<1>2. CASE MaySend(Ready(run[r].listed))
  <2>1. /\ Cardinality(emails) \in Nat /\ Cardinality(Runs) \in Nat /\ MaxPerHour \in Nat
        /\ IsFiniteSet(Runs)
    BY Sizes, ConstantsOK
  <2>2. Cardinality(emails) < MaxPerHour
    BY <1>2, <2>1 DEF MaySend, CapReached
  <2>3. Started' \subseteq Runs
    BY DEF Started
  <2>4. IsFiniteSet(Started') /\ Cardinality(Started') <= Cardinality(Runs)
    BY <2>1, <2>3, FS_Subset
  <2>5. Cardinality(Started') \in Nat
    BY <2>4, FS_CardinalityType
  <2>6. QED
    BY <1>1, <2>1, <2>2, <2>4, <2>5 DEF CapInv
<1>3. CASE ~MaySend(Ready(run[r].listed))
  <2>0. run' = [run EXCEPT ![r] = Idle]
    BY <1>3, Zenon DEF Read
  <2>1. run'[r].pc = "idle"
    BY <2>0, RunTyped, IdleOK DEF OwnInv
  <2>2. Started' \subseteq Started
    BY <2>1, OthersStay DEF Started, Step
  <2>3. QED
    BY <1>1, <2>2, Sizes, NoneStarts
<1>4. QED
  BY <1>2, <1>3

(* A run adds its email and is no longer among those that started.         *)
LEMMA MarkCap ==
  ASSUME OwnInv, OwnInv', CapInv, NEW r \in Runs, MarkSent(r)
  PROVE  CapInv'
<1>1. run[r].pc = "sent" /\ run'[r].pc = "idle"
  BY RunTyped, IdleOK DEF MarkSent, OwnInv
<1>2. r \in Started /\ Started' \subseteq Started \ {r}
  BY <1>1, OthersStay DEF Started, Step
<1>3. /\ IsFiniteSet(emails) /\ Cardinality(emails) \in Nat
      /\ IsFiniteSet(Started) /\ Cardinality(Started) \in Nat
      /\ Cardinality(Runs) \in Nat /\ MaxPerHour \in Nat
  BY Sizes
<1>4. IsFiniteSet(Started \ {r}) /\ Cardinality(Started \ {r}) = Cardinality(Started) - 1
  BY <1>2, <1>3, FS_RemoveElement
<1>5. IsFiniteSet(Started') /\ Cardinality(Started') <= Cardinality(Started \ {r})
  BY <1>2, <1>4, FS_Subset
<1>6. Cardinality(Started') \in Nat
  BY <1>5, FS_CardinalityType
<1> DEFINE e == [rows |-> run[r].rows, age |-> run[r].age,
                 urgent |-> HasUrgent({row.item : row \in run[r].rows})]
<1>7. emails' \subseteq emails \cup {e}
  BY DEF MarkSent
<1> HIDE DEF e
<1>8. /\ IsFiniteSet(emails \cup {e})
      /\ Cardinality(emails \cup {e}) = IF e \in emails THEN Cardinality(emails)
                                          ELSE Cardinality(emails) + 1
  BY <1>3, FS_AddElement
<1>9. IsFiniteSet(emails') /\ Cardinality(emails') <= Cardinality(emails \cup {e})
  BY <1>7, <1>8, FS_Subset
<1>10. Cardinality(emails') \in Nat
  BY <1>9, FS_CardinalityType
<1>11. QED
  BY <1>3, <1>4, <1>5, <1>6, <1>8, <1>9, <1>10 DEF CapInv

(* Emails only leave the hour as they age.                                 *)
LEMMA TickCap ==
  ASSUME OwnInv, OwnInv', CapInv, Tick
  PROVE  CapInv'
<1> DEFINE young == {e \in emails : e.age < Hour}
           g == [e \in young |-> [e EXCEPT !.age = @ + 1]]
<1>1. emails' = {g[e] : e \in young} /\ young \subseteq emails
  BY DEF Tick
<1>2. g \in Surjection(young, emails')
  BY <1>1 DEF Surjection
<1> HIDE DEF g, young
<1>3. IsFiniteSet(young) /\ Cardinality(young) <= Cardinality(emails)
  BY <1>1, FS_Subset, Sizes
<1>4. Cardinality(emails') <= Cardinality(young)
  BY <1>2, <1>3, FS_Surjection
<1>5. /\ Cardinality(emails) \in Nat /\ Cardinality(young) \in Nat
      /\ Cardinality(emails') \in Nat
  BY <1>3, FS_CardinalityType, Sizes DEF OwnInv, TypeOK
<1>6. Started' \subseteq Started
  BY RunTyped, Bounds DEF Tick, Started, OwnInv, RunSet
<1>7. QED
  BY <1>3, <1>4, <1>5, <1>6, NoneStarts

LEMMA NextCap ==
  ASSUME OwnInv, OwnInv', CapInv, [Next]_vars
  PROVE  CapInv'
<1>0. Cardinality(emails) \in Nat
  BY Sizes
<1>1. ASSUME UNCHANGED <<run, emails>>
      PROVE  CapInv'
  BY <1>1 DEF CapInv, Started
<1>2. ASSUME NEW r \in Runs, Step(r) \/ Crash(r) \/ MarkSentThrows(r), ~Read(r), ~MarkSent(r)
      PROVE  CapInv'
  <2>1. emails' = emails
    <3>1. ASSUME NEW item \in Items, Count(r, item) \/ Create(r, item)
          PROVE  emails' = emails
      BY <3>1 DEF Count, Create
    <3>2. QED
      BY <1>2, <3>1 DEF Step, List, Send, MarkFailed, Crash, MarkSentThrows
  <2>2. r \in Started \/ r \notin Started'
    <3>1. CASE List(r) \/ Crash(r)
      BY <3>1, RunTyped, IdleOK DEF List, Crash, OwnInv, Started, Idle
    <3>2. CASE ~(List(r) \/ Crash(r))
      <4>1. ASSUME NEW item \in Items, Count(r, item) \/ Create(r, item)
            PROVE  run[r].pc \in {"count", "create"}
        BY <4>1 DEF Count, Create
      <4>2. run[r].pc \in {"count", "create", "send", "sent", "failed"}
        BY <1>2, <3>2, <4>1 DEF Step, Send, MarkFailed, MarkSentThrows
      <4>3. QED
        BY <4>2 DEF Started
    <3>3. QED
      BY <3>1, <3>2
  <2>3. Started' \subseteq Started
    BY <1>2, <2>2, OthersStay DEF Started
  <2>4. QED
    BY <1>0, <2>1, <2>3, NoneStarts
<1>3. QED
  BY <1>1, <1>2, ReadCap, MarkCap, TickCap DEF Next, Raise, SetAlertStatus, vars

LEMMA InitCap == Init => CapInv
<1> SUFFICES ASSUME Init PROVE CapInv
  OBVIOUS
<1>1. emails = {} /\ Started = {}
  BY IdleOK DEF Init, Started
<1>2. Cardinality(Runs) \in Nat /\ MaxPerHour \in Nat \ {0}
  BY ConstantsOK, FS_CardinalityType
<1>3. QED
  BY <1>1, <1>2, FS_EmptySet DEF CapInv

(* The hourly cap is overrun by at most one email for every run that       *)
(* overlaps, whatever they send and however they end.                      *)
THEOREM CapCorrect == Spec => []CapWithOverlap
<1>1. Spec => []CapInv
  BY InitCap, NextCap, Owned, PTL DEF Spec
<1>2. OwnInv /\ CapInv => CapWithOverlap
  <2> SUFFICES ASSUME OwnInv, CapInv PROVE CapWithOverlap
    OBVIOUS
  <2>1. QED
    BY Sizes DEF CapInv, CapWithOverlap
<1>3. QED
  BY <1>1, <1>2, Owned, PTL

-----------------------------------------------------------------------------
(* One run at a time: what the schedule of a single worker without overlap *)
(* provides.                                                               *)
Alone == \A r, s \in Runs : run[r].pc # "idle" /\ run[s].pc # "idle" => r = s

(* A run that has not read the deliveries plans nothing, and a run that    *)
(* has reserved has nothing left of its plan; both queries of a run see    *)
(* the time at which it starts.                                            *)
PlanOK(k) ==
  /\ k.pc \in {"idle", "read"} => k.plan = {} /\ k.age = 0
  /\ k.pc \in {"send", "sent", "failed"} => k.plan = {}

PlanInv == \A r \in Runs : PlanOK(run[r])

LEMMA ListTo ==
  ASSUME OwnInv, NEW r \in Runs, List(r)
  PROVE  /\ run[r].pc = "idle" /\ run'[r].pc = "read"
         /\ run'[r].plan = {} /\ run'[r].rows = {} /\ run'[r].age = 0
         /\ UNCHANGED <<deliveries, emails, received>>
BY RunTyped DEF List, OwnInv, Idle

LEMMA ReadTo ==
  ASSUME OwnInv, NEW r \in Runs, Read(r)
  PROVE  /\ run[r].pc = "read" /\ run'[r].rows = {}
         /\ UNCHANGED <<deliveries, emails, received>>
         /\ \/ run'[r] = Idle
            \/ /\ MaySend(Ready(run[r].listed))
               /\ run'[r].plan \in Chosen(Ready(run[r].listed))
               /\ run'[r].pc = "count" /\ run'[r].age = run[r].age
<1>1. run \in [Runs -> RunSet] /\ run[r] \in RunSet /\ RunOK(run[r])
  BY RunTyped DEF OwnInv, RunInv
<1>2. run[r].pc = "read" /\ UNCHANGED <<deliveries, emails, received>>
  BY DEF Read
<1>3. run[r].rows = {}
  BY <1>1, <1>2 DEF RunOK
<1>4. CASE run' = [run EXCEPT ![r] = Idle]
  BY <1>1, <1>2, <1>4, IdleOK
<1>5. CASE MaySend(Ready(run[r].listed)) /\
           \E chosen \in Chosen(Ready(run[r].listed)) :
             run' = [run EXCEPT ![r] = Planning(run[r], chosen)]
  <2>1. PICK chosen \in Chosen(Ready(run[r].listed)) :
          run' = [run EXCEPT ![r] = Planning(run[r], chosen)]
    BY <1>5
  <2>2. /\ run'[r].plan = chosen /\ run'[r].pc = "count" /\ run'[r].age = run[r].age
        /\ run'[r].rows = run[r].rows
    BY <1>1, <2>1 DEF RunSet, Planning
  <2>3. QED
    BY <1>2, <1>3, <1>5, <2>2
<1>6. QED
  BY <1>4, <1>5 DEF Read

LEMMA CountTo ==
  ASSUME OwnInv, NEW r \in Runs, NEW item \in Items, Count(r, item)
  PROVE  /\ run[r].pc = "count" /\ item \in run[r].plan
         /\ run'[r].pc = "create" /\ run'[r].listed = {item}
         /\ run'[r].attempt = NextAttempt(item)
         /\ run'[r].plan = run[r].plan /\ run'[r].rows = run[r].rows
         /\ run'[r].age = run[r].age
         /\ UNCHANGED <<deliveries, emails, received>>
BY RunTyped DEF Count, OwnInv, RunSet

LEMMA SendTo ==
  ASSUME OwnInv, NEW r \in Runs, Send(r) \/ MarkSentThrows(r)
  PROVE  /\ run[r].pc \in {"send", "sent"} /\ run'[r].pc \in {"sent", "failed"}
         /\ run'[r].plan = run[r].plan /\ run'[r].rows = run[r].rows
         /\ run'[r].age = run[r].age
         /\ UNCHANGED <<deliveries, emails>>
<1>1. run \in [Runs -> RunSet]
  BY RunTyped DEF OwnInv
<1>2. CASE Send(r)
  <2>1. PICK accepted \in BOOLEAN : run' = [run EXCEPT ![r].pc = Outcome(accepted)]
    BY <1>2 DEF Send
  <2>2. Outcome(accepted) \in {"sent", "failed"}
    BY DEF Outcome
  <2>3. QED
    BY <1>1, <1>2, <2>1, <2>2 DEF Send, RunSet
<1>3. CASE MarkSentThrows(r)
  BY <1>1, <1>3 DEF MarkSentThrows, RunSet
<1>4. QED
  BY <1>2, <1>3

LEMMA EndTo ==
  ASSUME OwnInv, NEW r \in Runs, MarkSent(r) \/ MarkFailed(r) \/ Crash(r)
  PROVE  run[r].pc # "idle" /\ run'[r] = Idle /\ received' = received
BY RunTyped DEF MarkSent, MarkFailed, Crash, OwnInv

RowOf(r, item) == [item |-> item, attempt |-> run[r].attempt]

(* A run that reserves moves an item from its plan to its rows.            *)
LEMMA CreateTo ==
  ASSUME OwnInv, NEW r \in Runs, NEW item \in Items, Create(r, item)
  PROVE  /\ run[r].pc = "create" /\ run[r].listed = {item} /\ item \in run[r].plan
         /\ RowOf(r, item) \in Rows /\ RowOf(r, item).item = item
         /\ UNCHANGED <<alert, later, emails, received, faults>>
         /\ \/ /\ \E d \in deliveries : d.row = RowOf(r, item)
               /\ deliveries' = deliveries
               /\ run'[r].rows = run[r].rows
            \/ /\ \A d \in deliveries : d.row # RowOf(r, item)
               /\ deliveries' = deliveries \cup {[row |-> RowOf(r, item), status |-> "PENDING", age |-> 0]}
               /\ run'[r].rows = run[r].rows \cup {RowOf(r, item)}
         /\ \/ run'[r] = Idle /\ run'[r].rows = {}
            \/ /\ run'[r].pc = IF run'[r].plan = {} THEN "send" ELSE "count"
               /\ run'[r].plan = run[r].plan \ {item}
               /\ run'[r].age = run[r].age /\ run'[r].listed = {}
<1> DEFINE row == RowOf(r, item)
           taken == \E d \in deliveries : d.row = row
           rows == Reserved(r, row, taken)
           plan == run[r].plan \ {item}
<1>1. run \in [Runs -> RunSet] /\ run[r] \in RunSet /\ RunOK(run[r])
  BY RunTyped DEF OwnInv, RunInv
<1>2. /\ run[r].pc = "create" /\ run[r].listed = {item}
      /\ deliveries' = IF taken THEN deliveries
                         ELSE deliveries \cup {[row |-> row, status |-> "PENDING", age |-> 0]}
      /\ run' = [run EXCEPT ![r] = 
             IF plan = {} /\ rows = {} THEN Idle
               ELSE [@ EXCEPT !.pc = IF plan = {} THEN "send" ELSE "count", !.listed = {},
                              !.plan = plan, !.attempt = 0, !.rows = rows]]
      /\ UNCHANGED <<alert, later, emails, received, faults>>
  BY DEF Create, RowOf
<1>3. run[r].attempt \in Nat \ {0} /\ item \in run[r].plan
  BY <1>1, <1>2 DEF RunOK, RunSet
<1>4. row \in Rows /\ row.item = item
  BY <1>3 DEF Rows, RowOf
<1>5. rows = IF taken THEN run[r].rows ELSE run[r].rows \cup {row}
  BY DEF Reserved
<1> HIDE DEF rows, plan, row
<1>6. CASE plan = {} /\ rows = {}
  <2>1. run'[r] = Idle
    BY <1>1, <1>2, <1>6
  <2>2. run'[r].rows = rows
    BY <1>6, <2>1, IdleOK
  <2>3. QED
    BY <1>2, <1>3, <1>4, <1>5, <1>6, <2>1, <2>2 DEF row
<1>7. CASE ~(plan = {} /\ rows = {})
  <2>1. run'[r] = [run[r] EXCEPT !.pc = IF plan = {} THEN "send" ELSE "count", !.listed = {},
                                 !.plan = plan, !.attempt = 0, !.rows = rows]
    BY <1>1, <1>2, <1>7
  <2>2. /\ run'[r].pc = IF plan = {} THEN "send" ELSE "count"
        /\ run'[r].plan = plan /\ run'[r].rows = rows /\ run'[r].listed = {}
        /\ run'[r].age = run[r].age
    BY <1>1, <2>1 DEF RunSet
  <2>3. QED
    BY <1>2, <1>3, <1>4, <1>5, <2>2 DEF plan, row
<1>8. QED
  BY <1>6, <1>7 DEF row

LEMMA NextPlan ==
  ASSUME OwnInv, PlanInv, [Next]_vars
  PROVE  PlanInv'
<1>1. run \in [Runs -> RunSet] /\ \A r \in Runs : run[r] \in RunSet /\ PlanOK(run[r])
  BY RunTyped DEF OwnInv, PlanInv
<1>2. ASSUME UNCHANGED run
      PROVE  PlanInv'
  BY <1>2 DEF PlanInv, PlanOK
<1>3. ASSUME NEW r \in Runs, Step(r) \/ Crash(r) \/ MarkSentThrows(r)
      PROVE  PlanInv'
  <2>1. PlanOK(run'[r])
    <3>1. CASE List(r)
      BY <3>1, ListTo DEF PlanOK
    <3>2. CASE Read(r)
      BY <3>2, ReadTo DEF PlanOK, Idle
    <3>3. ASSUME NEW item \in Items, Count(r, item)
          PROVE  PlanOK(run'[r])
      BY <3>3, CountTo DEF PlanOK
    <3>4. ASSUME NEW item \in Items, Create(r, item)
          PROVE  PlanOK(run'[r])
      BY <3>4, CreateTo DEF PlanOK, Idle
    <3>5. CASE Send(r) \/ MarkSentThrows(r)
      BY <1>1, <3>5, SendTo DEF PlanOK
    <3>6. CASE MarkSent(r) \/ MarkFailed(r) \/ Crash(r)
      BY <3>6, EndTo DEF PlanOK, Idle
    <3>7. QED
      BY <1>3, <3>1, <3>2, <3>3, <3>4, <3>5, <3>6 DEF Step
  <2>2. \A s \in Runs : PlanOK(run'[s])
    BY <1>1, <1>3, <2>1, OthersStay
  <2>3. QED
    BY <2>2 DEF PlanInv, PlanOK
<1>4. CASE Tick
  <2>1. ASSUME NEW r \in Runs
        PROVE  PlanOK(run'[r])
    <3>1. run[r].pc # "read"
      BY <1>4 DEF Tick
    <3>2. run'[r] = IF run[r].pc # "idle" /\ run[r].age <= Hour
                      THEN [run[r] EXCEPT !.age = @ + 1] ELSE run[r]
      BY <1>4 DEF Tick
    <3>3. QED
      BY <1>1, <3>1, <3>2 DEF PlanOK, RunSet
  <2>2. QED
    BY <2>1 DEF PlanInv, PlanOK
<1>5. QED
  BY <1>2, <1>3, <1>4 DEF Next, Raise, SetAlertStatus, vars

LEMMA InitPlan == Init => PlanInv
BY DEF Init, PlanInv, PlanOK, Idle

LEMMA Planned == Spec => []PlanInv
BY InitPlan, NextPlan, Owned, PTL DEF Spec

-----------------------------------------------------------------------------
RowsOf(item) == {row \in Rows : row.item = item /\ \E d \in deliveries : d.row = row}

(* The key of a row makes it countable: there are as many rows as keys.    *)
LEMMA RowsCounted ==
  ASSUME OwnInv, NEW item \in Items
  PROVE  /\ IsFiniteSet(Of(item)) /\ IsFiniteSet(RowsOf(item))
         /\ Cardinality(Of(item)) = Cardinality(RowsOf(item))
         /\ Cardinality(RowsOf(item)) \in Nat
<1> DEFINE f == [d \in Of(item) |-> d.row]
<1>1. IsFiniteSet(Of(item)) /\ Of(item) \subseteq deliveries /\ deliveries \subseteq Delivery
  BY FS_Subset DEF OwnInv, TypeOK, Of
<1>2. \A d \in Of(item) : d.row \in RowsOf(item)
  BY <1>1 DEF Of, RowsOf, Delivery
<1>3. \A row \in RowsOf(item) : \E d \in Of(item) : d.row = row
  BY DEF Of, RowsOf
<1>4. \A d, e \in Of(item) : d.row = e.row => d = e
  BY <1>1 DEF OwnInv, RowUnique
<1>5. f \in Bijection(Of(item), RowsOf(item))
  BY <1>2, <1>3, <1>4 DEF Bijection, Injection, IsInjective, Surjection
<1>6. ExistsBijection(Of(item), RowsOf(item))
  BY <1>5 DEF ExistsBijection
<1>7. /\ IsFiniteSet(RowsOf(item)) /\ Cardinality(Of(item)) = Cardinality(RowsOf(item))
  BY <1>1, <1>6, FS_Bijection
<1>8. QED
  BY <1>1, <1>7, FS_CardinalityType

(* What marking and the passing of time do to the deliveries.              *)
KeepsRows(rows, r, status) ==
  /\ \A d \in rows : \E e \in deliveries :
       /\ e.row = d.row
       /\ \/ d = e /\ d.row \notin run[r].rows
          \/ d.row \in run[r].rows /\ d.status = status
  /\ \A e \in deliveries : \E d \in rows : d.row = e.row

LEMMA MarkedKeeps ==
  ASSUME OwnInv, NEW r \in Runs, NEW status \in {"SENT", "FAILED"}
  PROVE  KeepsRows(Marked(r, status), r, status)
<1> DEFINE f == [d \in deliveries |->
                   IF d.row \in run[r].rows THEN [d EXCEPT !.status = status, !.age = InFlight]
                     ELSE d]
<1>1. Marked(r, status) = {f[d] : d \in deliveries}
  BY DEF Marked
<1>2. \A e \in deliveries :
        /\ f[e].row = e.row
        /\ \/ f[e] = e /\ e.row \notin run[r].rows
           \/ e.row \in run[r].rows /\ f[e].status = status
  BY DEF OwnInv, TypeOK, Delivery
<1> HIDE DEF f
<1>3. QED
  BY <1>1, <1>2 DEF KeepsRows

LEMMA AgedKeeps ==
  ASSUME OwnInv, Tick
  PROVE  /\ \A d \in deliveries' : \E e \in deliveries :
              e.row = d.row /\ (d.status = "SENT" => d = e)
         /\ \A e \in deliveries : \E d \in deliveries' : d.row = e.row
<1>1. \A e \in deliveries : /\ [e EXCEPT !.age = @ + 1].row = e.row
                            /\ [e EXCEPT !.age = @ + 1].status = e.status
  BY DEF OwnInv, TypeOK, Delivery
<1>2. QED
  BY <1>1 DEF Tick

(* A step keeps the rows there are, and only Create adds one.              *)
LEMMA KeptByOthers ==
  ASSUME OwnInv, NEW r \in Runs, Step(r) \/ Crash(r) \/ MarkSentThrows(r),
         \A item \in Items : ~Create(r, item)
  PROVE  \A item \in Items : RowsOf(item)' = RowsOf(item)
<1>1. CASE deliveries' = deliveries
  BY <1>1 DEF RowsOf
<1>2. CASE MarkSent(r) \/ MarkFailed(r)
  <2>1. PICK status \in {"SENT", "FAILED"} : deliveries' = Marked(r, status)
    BY <1>2 DEF MarkSent, MarkFailed
  <2>2. KeepsRows(deliveries', r, status)
    BY <2>1, MarkedKeeps
  <2>3. QED
    BY <2>2 DEF RowsOf, KeepsRows
<1>3. ASSUME NEW item \in Items, Count(r, item)
      PROVE  deliveries' = deliveries
  BY <1>3, CountTo
<1>4. CASE Crash(r)
  BY <1>1, <1>4 DEF Crash
<1>5. QED
  BY <1>1, <1>2, <1>3, <1>4, ListTo, ReadTo, SendTo DEF Step

LEMMA RowsKept ==
  ASSUME OwnInv, [Next]_vars, \A r \in Runs, item \in Items : ~Create(r, item)
  PROVE  \A item \in Items : RowsOf(item)' = RowsOf(item)
<1>1. CASE deliveries' = deliveries
  BY <1>1 DEF RowsOf
<1>2. CASE Tick
  BY <1>2, AgedKeeps DEF RowsOf
<1>3. QED
  BY <1>1, <1>2, KeptByOthers DEF Next, Raise, SetAlertStatus, vars

LEMMA RowsAdded ==
  ASSUME OwnInv, NEW r \in Runs, NEW item \in Items, Create(r, item)
  PROVE  \A other \in Items :
           RowsOf(other)' = RowsOf(other) \cup (IF other = item THEN {RowOf(r, item)} ELSE {})
<1> DEFINE new == [row |-> RowOf(r, item), status |-> "PENDING", age |-> 0]
<1>1. new.row = RowOf(r, item)
  OBVIOUS
<1>2. /\ RowOf(r, item) \in Rows /\ RowOf(r, item).item = item
      /\ \/ (\E d \in deliveries : d.row = RowOf(r, item)) /\ deliveries' = deliveries
         \/ deliveries' = deliveries \cup {new}
  BY CreateTo
<1> HIDE DEF new
<1>3. ASSUME NEW other \in Items, NEW x \in RowsOf(other)'
      PROVE  x \in RowsOf(other) \/ (other = item /\ x = RowOf(r, item))
  BY <1>1, <1>2, <1>3 DEF RowsOf
<1>4. ASSUME NEW other \in Items, NEW x \in RowsOf(other)
      PROVE  x \in RowsOf(other)'
  BY <1>2 DEF RowsOf
<1>5. RowOf(r, item) \in RowsOf(item)'
  BY <1>1, <1>2 DEF RowsOf
<1>6. QED
  BY <1>3, <1>4, <1>5

LEMMA RowsFinite ==
  ASSUME OwnInv, [Next]_vars, NEW item \in Items
  PROVE  IsFiniteSet(RowsOf(item)')
<1>1. IsFiniteSet(RowsOf(item))
  BY RowsCounted
<1>2. ASSUME NEW r \in Runs, NEW other \in Items, Create(r, other)
      PROVE  IsFiniteSet(RowsOf(item)')
  <2>1. RowsOf(item)' \subseteq RowsOf(item) \cup {RowOf(r, other)}
    BY <1>2, RowsAdded
  <2>2. IsFiniteSet(RowsOf(item) \cup {RowOf(r, other)})
    BY <1>1, FS_AddElement
  <2>3. QED
    BY <2>1, <2>2, FS_Subset
<1>3. CASE \A r \in Runs, other \in Items : ~Create(r, other)
  BY <1>1, <1>3, RowsKept
<1>4. QED
  BY <1>2, <1>3

-----------------------------------------------------------------------------
(* The rows whose email was attempted: no run is still to send it.         *)
Attempted(item) ==
  {row \in RowsOf(item) :
     \A r \in Runs : row \in run[r].rows => run[r].pc \in {"sent", "failed"}}

AttemptedInv ==
  \A item \in Items : received[item] <= Cardinality(Attempted(item))

LEMMA MoreAttempted ==
  ASSUME OwnInv, [Next]_vars, AttemptedInv, received' = received,
         \A item \in Items : Attempted(item) \subseteq Attempted(item)'
  PROVE  AttemptedInv'
<1> SUFFICES ASSUME NEW item \in Items
             PROVE  received'[item] <= Cardinality(Attempted(item)')
  BY DEF AttemptedInv
<1>1. IsFiniteSet(RowsOf(item)') /\ Attempted(item)' \subseteq RowsOf(item)'
  BY RowsFinite DEF Attempted
<1>2. IsFiniteSet(Attempted(item)')
  BY <1>1, FS_Subset
<1>3. IsFiniteSet(Attempted(item)) /\ Cardinality(Attempted(item)) <= Cardinality(Attempted(item)')
  BY <1>2, FS_Subset
<1>4. /\ Cardinality(Attempted(item)) \in Nat /\ Cardinality(Attempted(item)') \in Nat
      /\ received[item] \in Nat
  BY <1>2, <1>3, FS_CardinalityType DEF OwnInv, TypeOK
<1>5. QED
  BY <1>3, <1>4 DEF AttemptedInv

(* A row that a run sends was not attempted before, and it is the run's    *)
(* only row of its alert.                                                  *)
LEMMA SendAttempted ==
  ASSUME OwnInv, [Next]_vars, AttemptedInv, NEW r \in Runs, Send(r)
  PROVE  AttemptedInv'
<1> SUFFICES ASSUME NEW item \in Items
             PROVE  received'[item] <= Cardinality(Attempted(item)')
  BY DEF AttemptedInv
<1>1. PICK delivered \in BOOLEAN :
        received' = [i \in Items |->
          IF delivered /\ \E row \in run[r].rows : row.item = i
            THEN received[i] + 1 ELSE received[i]]
  BY DEF Send
<1>2. /\ run[r].pc = "send" /\ run'[r].rows = run[r].rows /\ run'[r].pc \in {"sent", "failed"}
      /\ deliveries' = deliveries /\ \A s \in Runs \ {r} : run'[s] = run[s]
  <2>1. run[r].pc = "send"
    BY DEF Send
  <2>2. QED
    BY <2>1, SendTo, OthersStay DEF Step
<1>3. RowsOf(item)' = RowsOf(item) /\ IsFiniteSet(RowsOf(item))
  BY <1>2, RowsCounted DEF RowsOf
<1>4. Attempted(item) \subseteq Attempted(item)' /\ Attempted(item)' \subseteq RowsOf(item)
  BY <1>2, <1>3 DEF Attempted
<1>5. IsFiniteSet(Attempted(item)') /\ IsFiniteSet(Attempted(item))
  BY <1>3, <1>4, FS_Subset
<1>6. /\ Cardinality(Attempted(item)) \in Nat /\ Cardinality(Attempted(item)') \in Nat
      /\ received[item] \in Nat /\ received[item] <= Cardinality(Attempted(item))
  BY <1>5, FS_CardinalityType DEF AttemptedInv, OwnInv, TypeOK
<1>7. CASE \E row \in run[r].rows : row.item = item
  <2>1. PICK row \in run[r].rows : row.item = item
    BY <1>7
  <2>2. row \in RowsOf(item)
    <3>1. row \in Rows
      BY <2>1, RunTyped DEF OwnInv, RunSet
    <3>2. QED
      BY <2>1, <3>1 DEF OwnInv, RowsAreOwned, RowsOf
  <2>3. row \notin Attempted(item)
    BY <1>2, <2>1 DEF Attempted
  <2>4. row \in Attempted(item)'
    <3>1. \A s \in Runs \ {r} : row \notin run'[s].rows
      BY <1>2, <2>1 DEF OwnInv, RowsAreOwned
    <3>2. QED
      BY <1>2, <1>3, <2>2, <3>1 DEF Attempted
  <2>5. Attempted(item) \cup {row} \subseteq Attempted(item)'
    BY <1>4, <2>4
  <2>6. /\ IsFiniteSet(Attempted(item) \cup {row})
        /\ Cardinality(Attempted(item) \cup {row}) = Cardinality(Attempted(item)) + 1
    BY <1>5, <2>3, FS_AddElement
  <2>7. Cardinality(Attempted(item) \cup {row}) <= Cardinality(Attempted(item)')
    BY <1>5, <2>5, FS_Subset
  <2>8. received'[item] <= received[item] + 1
    BY <1>1, <1>6
  <2>9. received'[item] \in Nat
    BY <1>1, <1>6
  <2>10. QED
    BY <1>6, <2>6, <2>7, <2>8, <2>9
<1>8. CASE ~ \E row \in run[r].rows : row.item = item
  <2>1. received'[item] = received[item]
    BY <1>1, <1>8
  <2>2. Cardinality(Attempted(item)) <= Cardinality(Attempted(item)')
    BY <1>4, <1>5, FS_Subset
  <2>3. QED
    BY <1>6, <2>1, <2>2
<1>9. QED
  BY <1>7, <1>8

(* Every other step keeps the received emails and the attempted rows.      *)
LEMMA NextAttempted ==
  ASSUME OwnInv, AttemptedInv, [Next]_vars
  PROVE  AttemptedInv'
<1>1. CASE UNCHANGED <<run, deliveries, received>>
  BY <1>1 DEF AttemptedInv, Attempted, RowsOf
<1>2. ASSUME NEW r \in Runs, Send(r)
      PROVE  AttemptedInv'
  BY <1>2, SendAttempted
<1>3. ASSUME NEW r \in Runs, NEW item \in Items, Create(r, item)
      PROVE  AttemptedInv'
  <2>1. run[r].pc = "create" /\ \A s \in Runs \ {r} : run'[s] = run[s]
    BY <1>3, CreateTo, OthersStay DEF Step
  <2>2. \A x \in run'[r].rows : x \in run[r].rows \/ x = RowOf(r, item)
    BY <1>3, CreateTo
  <2>3. ASSUME NEW other \in Items, NEW x \in Attempted(other)
        PROVE  x \in Attempted(other)'
    <3>1. x \in RowsOf(other) /\ x \in RowsOf(other)' /\ x \notin run[r].rows
      BY <1>3, <2>1, RowsAdded DEF Attempted
    <3>2. x \notin run'[r].rows
      <4>1. CASE \E d \in deliveries : d.row = RowOf(r, item)
        <5>1. run'[r].rows = run[r].rows \/ run'[r].rows = {}
          BY <1>3, <4>1, CreateTo
        <5>2. QED
          BY <3>1, <5>1
      <4>2. CASE \A d \in deliveries : d.row # RowOf(r, item)
        BY <2>2, <3>1, <4>2 DEF RowsOf
      <4>3. QED
        BY <4>1, <4>2
    <3>3. QED
      BY <2>1, <3>1, <3>2 DEF Attempted
  <2>4. received' = received
    BY <1>3, CreateTo
  <2>5. QED
    BY <2>3, <2>4, MoreAttempted
<1>4. ASSUME NEW r \in Runs, Step(r) \/ Crash(r) \/ MarkSentThrows(r),
             ~Send(r), \A item \in Items : ~Create(r, item)
      PROVE  AttemptedInv'
  <2>1. \A item \in Items : RowsOf(item)' = RowsOf(item)
    BY <1>4, KeptByOthers
  <2>2. \A s \in Runs \ {r} : run'[s] = run[s]
    BY <1>4, OthersStay
  <2>3. /\ received' = received
        /\ \/ run'[r].rows = {} 
           \/ run'[r].rows = run[r].rows /\ (run[r].pc = "sent" => run'[r].pc = "failed")
              /\ run[r].pc # "failed"
    <3>1. CASE List(r) \/ Read(r)
      BY <3>1, ListTo, ReadTo
    <3>2. ASSUME NEW item \in Items, Count(r, item)
          PROVE  run'[r].rows = run[r].rows /\ run[r].pc = "count" /\ received' = received
      BY <3>2, CountTo
    <3>3. CASE MarkSentThrows(r)
      BY <3>3, RunTyped DEF MarkSentThrows, OwnInv, RunSet
    <3>4. CASE MarkSent(r) \/ MarkFailed(r) \/ Crash(r)
      BY <3>4, EndTo, IdleOK
    <3>5. QED
      BY <1>4, <3>1, <3>2, <3>3, <3>4 DEF Step
  <2>4. \A item \in Items : Attempted(item) \subseteq Attempted(item)'
    BY <2>1, <2>2, <2>3 DEF Attempted
  <2>5. QED
    BY <2>3, <2>4, MoreAttempted
<1>5. CASE Tick
  <2>1. \A r \in Runs : run'[r].pc = run[r].pc /\ run'[r].rows = run[r].rows
    BY <1>5, RunTyped, Bounds DEF Tick, OwnInv, RunSet
  <2>2. \A item \in Items : RowsOf(item)' = RowsOf(item)
    BY <1>5, AgedKeeps DEF RowsOf
  <2>3. \A item \in Items : Attempted(item) \subseteq Attempted(item)'
    BY <2>1, <2>2 DEF Attempted
  <2>4. QED
    BY <1>5, <2>3, MoreAttempted DEF Tick
<1>6. QED
  BY <1>1, <1>2, <1>3, <1>4, <1>5 DEF Next, Raise, SetAlertStatus, vars

LEMMA InitAttempted == Init => AttemptedInv
<1> SUFFICES ASSUME Init, NEW item \in Items
             PROVE  received[item] <= Cardinality(Attempted(item))
  BY DEF AttemptedInv
<1>1. Attempted(item) = {} /\ received[item] = 0
  BY DEF Init, Attempted, RowsOf
<1>2. QED
  BY <1>1, FS_EmptySet

LEMMA EmailsCounted == Spec => []AttemptedInv
BY InitAttempted, NextAttempted, Owned, PTL DEF Spec

-----------------------------------------------------------------------------
(* A run by itself numbers its rows without a gap: the row it is about to  *)
(* create is nobody's, and no alert is lost from its plan.                 *)
AttemptInv ==
  /\ \A item \in Items : \A row \in RowsOf(item) : row.attempt <= Cardinality(RowsOf(item))
  /\ \A r \in Runs : run[r].pc = "create" =>
       \A item \in run[r].listed : run[r].attempt = Cardinality(RowsOf(item)) + 1

LEMMA NeverTaken ==
  ASSUME OwnInv, AttemptInv, NEW r \in Runs, NEW item \in Items, Create(r, item)
  PROVE  /\ RowOf(r, item) \notin RowsOf(item)
         /\ \A d \in deliveries : d.row # RowOf(r, item)
<1>1. /\ run[r].pc = "create" /\ run[r].listed = {item}
      /\ RowOf(r, item) \in Rows /\ RowOf(r, item).item = item
  BY CreateTo
<1>2. run[r].attempt = Cardinality(RowsOf(item)) + 1
  BY <1>1 DEF AttemptInv
<1>3. RowOf(r, item).attempt = run[r].attempt
  BY DEF RowOf
<1>4. Cardinality(RowsOf(item)) \in Nat
  BY RowsCounted
<1>5. RowOf(r, item) \notin RowsOf(item)
  <2> SUFFICES ASSUME RowOf(r, item) \in RowsOf(item) PROVE FALSE
    OBVIOUS
  <2>1. RowOf(r, item).attempt <= Cardinality(RowsOf(item))
    BY DEF AttemptInv
  <2>2. QED
    BY <1>2, <1>3, <1>4, <2>1
<1>6. QED
  BY <1>1, <1>5 DEF RowsOf

LEMMA SameRows ==
  ASSUME OwnInv, AttemptInv, \A item \in Items : RowsOf(item)' = RowsOf(item),
         \A s \in Runs : run'[s].pc = "create" =>
           /\ run[s].pc = "create" /\ run'[s].listed = run[s].listed
           /\ run'[s].attempt = run[s].attempt
  PROVE  AttemptInv'
<1>1. \A item \in Items : Cardinality(RowsOf(item)') = Cardinality(RowsOf(item))
  OBVIOUS
<1>2. \A item \in Items : \A row \in RowsOf(item)' : row.attempt <= Cardinality(RowsOf(item)')
  BY <1>1 DEF AttemptInv
<1>3. ASSUME NEW s \in Runs, run'[s].pc = "create", NEW item \in run'[s].listed
      PROVE  run'[s].attempt = Cardinality(RowsOf(item)') + 1
  <2>1. run[s].pc = "create" /\ item \in run[s].listed /\ run'[s].attempt = run[s].attempt
    BY <1>3
  <2>2. item \in Items
    BY <2>1, RunTyped DEF OwnInv, RunSet
  <2>3. QED
    BY <1>1, <2>1, <2>2 DEF AttemptInv
<1>4. QED
  BY <1>2, <1>3 DEF AttemptInv

LEMMA CreateNumbers ==
  ASSUME OwnInv, AttemptInv, Alone, NEW r \in Runs, NEW item \in Items, Create(r, item)
  PROVE  AttemptInv'
<1>1. /\ run[r].pc = "create" /\ run[r].listed = {item}
      /\ \A s \in Runs \ {r} : run'[s] = run[s] /\ run[s].pc = "idle"
  BY CreateTo, OthersStay DEF Step, Alone
<1>2. run'[r].pc # "create"
  <2>1. run'[r] = Idle \/ run'[r].pc \in {"send", "count"}
    BY CreateTo
  <2>2. QED
    BY <2>1, IdleOK
<1>3. RowOf(r, item).attempt = Cardinality(RowsOf(item)) + 1
  BY <1>1 DEF AttemptInv, RowOf
<1>4. /\ Cardinality(RowsOf(item)) \in Nat /\ IsFiniteSet(RowsOf(item))
      /\ RowOf(r, item) \notin RowsOf(item)
  BY RowsCounted, NeverTaken
<1>5. RowsOf(item)' = RowsOf(item) \cup {RowOf(r, item)}
  BY RowsAdded
<1>6. Cardinality(RowsOf(item)') = Cardinality(RowsOf(item)) + 1
  BY <1>4, <1>5, FS_AddElement
<1>7. \A row \in RowsOf(item)' : row.attempt <= Cardinality(RowsOf(item)')
  <2>1. ASSUME NEW row \in RowsOf(item)
        PROVE  row.attempt <= Cardinality(RowsOf(item)) + 1
    <3>1. row.attempt <= Cardinality(RowsOf(item)) /\ row.attempt \in Nat
      BY DEF AttemptInv, RowsOf, Rows
    <3>2. QED
      BY <1>4, <3>1
  <2>2. QED
    BY <1>3, <1>4, <1>5, <1>6, <2>1
<1>8. ASSUME NEW other \in Items, other # item, NEW row \in RowsOf(other)'
      PROVE  row.attempt <= Cardinality(RowsOf(other)')
  <2>1. RowsOf(other)' = RowsOf(other)
    BY <1>8, RowsAdded
  <2>2. QED
    BY <1>8, <2>1 DEF AttemptInv
<1>9. \A s \in Runs : run'[s].pc # "create"
  BY <1>1, <1>2
<1>10. QED
  BY <1>7, <1>8, <1>9 DEF AttemptInv

LEMMA CountNumbers ==
  ASSUME OwnInv, AttemptInv, Alone, NEW r \in Runs, NEW item \in Items, Count(r, item)
  PROVE  AttemptInv'
<1>1. /\ run[r].pc = "count" /\ run'[r].listed = {item}
      /\ run'[r].attempt = NextAttempt(item) /\ deliveries' = deliveries
      /\ \A s \in Runs \ {r} : run'[s] = run[s] /\ run[s].pc = "idle"
  BY CountTo, OthersStay DEF Step, Alone
<1>2. \A other \in Items : RowsOf(other)' = RowsOf(other)
  BY <1>1 DEF RowsOf
<1>3. NextAttempt(item) = Cardinality(RowsOf(item)) + 1
  BY RowsCounted DEF NextAttempt
<1>4. Cardinality(RowsOf(item)') = Cardinality(RowsOf(item))
  BY <1>2
<1>5. \A other \in run'[r].listed : run'[r].attempt = Cardinality(RowsOf(other)') + 1
  BY <1>1, <1>3, <1>4
<1>6. ASSUME NEW other \in Items, NEW row \in RowsOf(other)'
      PROVE  row.attempt <= Cardinality(RowsOf(other)')
  BY <1>2, <1>6 DEF AttemptInv
<1>7. \A s \in Runs \ {r} : run'[s].pc # "create"
  BY <1>1
<1>8. QED
  BY <1>5, <1>6, <1>7 DEF AttemptInv

LEMMA NextNumbers ==
  ASSUME OwnInv, AttemptInv, Alone, [Next]_vars
  PROVE  AttemptInv'
<1>1. CASE UNCHANGED <<run, deliveries>>
  BY <1>1, SameRows DEF RowsOf
<1>2. ASSUME NEW r \in Runs, NEW item \in Items, Count(r, item) \/ Create(r, item)
      PROVE  AttemptInv'
  BY <1>2, CountNumbers, CreateNumbers
<1>3. ASSUME NEW r \in Runs, Step(r) \/ Crash(r) \/ MarkSentThrows(r),
             \A item \in Items : ~Count(r, item) /\ ~Create(r, item)
      PROVE  AttemptInv'
  <2>1. \A item \in Items : RowsOf(item)' = RowsOf(item)
    BY <1>3, KeptByOthers
  <2>2. \A s \in Runs \ {r} : run'[s] = run[s]
    BY <1>3, OthersStay
  <2>3. run'[r].pc # "create"
    <3>1. CASE List(r) \/ Read(r)
      BY <3>1, ListTo, ReadTo, IdleOK
    <3>2. CASE Send(r) \/ MarkSentThrows(r)
      <4>1. run'[r].pc \in {"sent", "failed"}
        BY <3>2, SendTo
      <4>2. QED
        BY <4>1
    <3>3. CASE MarkSent(r) \/ MarkFailed(r) \/ Crash(r)
      BY <3>3, EndTo, IdleOK
    <3>4. QED
      BY <1>3, <3>1, <3>2, <3>3 DEF Step
  <2>4. QED
    BY <2>1, <2>2, <2>3, SameRows
<1>4. CASE Tick
  <2>1. \A r \in Runs : /\ run'[r].pc = run[r].pc /\ run'[r].listed = run[r].listed
                        /\ run'[r].attempt = run[r].attempt
    BY <1>4, RunTyped, Bounds DEF Tick, OwnInv, RunSet
  <2>2. \A item \in Items : RowsOf(item)' = RowsOf(item)
    BY <1>4, AgedKeeps DEF RowsOf
  <2>3. QED
    BY <2>1, <2>2, SameRows
<1>5. QED
  BY <1>1, <1>2, <1>3, <1>4 DEF Next, Raise, SetAlertStatus, vars

LEMMA InitNumbers == Init => AttemptInv
BY IdleOK DEF Init, AttemptInv, RowsOf

-----------------------------------------------------------------------------
(* What a run is dealing with: it has been SENT for none of it.            *)
Handled(r) == run[r].plan \cup {row.item : row \in run[r].rows}

FirstInv ==
  /\ \A d, e \in deliveries :
       d.status = "SENT" /\ e.status = "SENT" /\ d.row.item = e.row.item => d = e
  /\ \A r \in Runs : \A d \in deliveries : d.status = "SENT" => d.row.item \notin Handled(r)

(* Steps that send nothing and take on nothing new.                        *)
LEMMA FirstKept ==
  ASSUME FirstInv, \A d \in deliveries' : d.status = "SENT" => d \in deliveries,
         \A s \in Runs : Handled(s)' \subseteq Handled(s)
  PROVE  FirstInv'
<1>1. \A d, e \in deliveries' :
        d.status = "SENT" /\ e.status = "SENT" /\ d.row.item = e.row.item => d = e
  BY DEF FirstInv
<1>2. \A s \in Runs : \A d \in deliveries' : d.status = "SENT" => d.row.item \notin Handled(s)'
  BY DEF FirstInv
<1>3. QED
  BY <1>1, <1>2 DEF FirstInv

LEMMA ReadFirst ==
  ASSUME OwnInv, FirstInv, NEW r \in Runs, Read(r)
  PROVE  FirstInv'
<1>1. /\ deliveries' = deliveries /\ run'[r].rows = {}
      /\ \A s \in Runs \ {r} : run'[s] = run[s]
  BY ReadTo, OthersStay DEF Step
<1>2. run'[r].plan = {} \/ run'[r].plan \subseteq Ready(run[r].listed)
  <2>1. run'[r] = Idle \/ run'[r].plan \in Chosen(Ready(run[r].listed))
    BY ReadTo
  <2>2. QED
    BY <2>1 DEF Idle, Chosen
<1>3. \A d \in deliveries : d.status = "SENT" => d.row.item \notin Ready(run[r].listed)
  <2>1. \A d \in deliveries : d.row.item[2] \in Nat
    BY ConstantsOK DEF OwnInv, TypeOK, Delivery, Rows, Items
  <2>2. \A d \in deliveries : d.status = "SENT" => Told(d.row.item)
    BY <2>1 DEF Told
  <2>3. QED
    BY <2>2 DEF Ready
<1>4. \A d \in deliveries : d.status = "SENT" => d.row.item \notin Handled(r)'
  BY <1>1, <1>2, <1>3 DEF Handled
<1>5. \A s \in Runs \ {r} : Handled(s)' = Handled(s)
  BY <1>1 DEF Handled
<1>6. QED
  BY <1>1, <1>4, <1>5 DEF FirstInv

(* The other runs hold nothing, and this one held one row of each alert.   *)
LEMMA MarkFirst ==
  ASSUME OwnInv, OwnInv', PlanInv, Alone, FirstInv, NEW r \in Runs,
         MarkSent(r) \/ MarkFailed(r)
  PROVE  FirstInv'
<1>1. PICK status \in {"SENT", "FAILED"} : deliveries' = Marked(r, status)
  BY DEF MarkSent, MarkFailed
<1>2. /\ run[r].pc # "idle" /\ run'[r] = Idle
      /\ \A s \in Runs \ {r} : run'[s] = run[s] /\ run[s].pc = "idle"
  BY EndTo, OthersStay DEF Step, Alone
<1>3. \A s \in Runs : run'[s].rows = {} /\ run'[s].plan = {}
  BY <1>2, IdleOK DEF PlanInv, PlanOK, OwnInv, RunInv, RunOK, Idle
<1>4. \A s \in Runs : Handled(s)' = {}
  BY <1>3 DEF Handled
<1>5. \A d \in deliveries' :
        \/ d \in deliveries
        \/ d.row \in run[r].rows /\ d.row.item \in Handled(r)
  <2>1. KeepsRows(deliveries', r, status)
    BY <1>1, MarkedKeeps
  <2>2. QED
    BY <2>1 DEF KeepsRows, Handled
<1>6. \A d, e \in deliveries' :
        d.status = "SENT" /\ e.status = "SENT" /\ d.row.item = e.row.item => d = e
  <2> SUFFICES ASSUME NEW d \in deliveries', NEW e \in deliveries',
                      d.status = "SENT", e.status = "SENT", d.row.item = e.row.item
               PROVE  d = e
    OBVIOUS
  <2>1. CASE d \in deliveries \/ e \in deliveries
    BY <1>5, <2>1 DEF FirstInv
  <2>2. CASE d.row \in run[r].rows /\ e.row \in run[r].rows
    <3>1. d.row = e.row
      BY <2>2 DEF OwnInv, RunInv, RunOK
    <3>2. QED
      BY <3>1 DEF OwnInv, RowUnique
  <2>3. QED
    BY <1>5, <2>1, <2>2
<1>7. QED
  BY <1>4, <1>6 DEF FirstInv

LEMMA NextFirst ==
  ASSUME OwnInv, OwnInv', PlanInv, Alone, FirstInv, [Next]_vars
  PROVE  FirstInv'
<1>1. CASE UNCHANGED <<run, deliveries>>
  BY <1>1 DEF FirstInv, Handled
<1>2. ASSUME NEW r \in Runs, NEW item \in Items, Create(r, item)
      PROVE  FirstInv'
  <2>1. \A d \in deliveries' : d.status = "SENT" => d \in deliveries
    BY <1>2, CreateTo
  <2>2. /\ item \in run[r].plan /\ RowOf(r, item).item = item
        /\ run'[r].plan \subseteq run[r].plan
        /\ run'[r].rows \subseteq run[r].rows \cup {RowOf(r, item)}
    <3>1. run'[r].rows \subseteq run[r].rows \cup {RowOf(r, item)}
      BY <1>2, CreateTo
    <3>2. run'[r] = Idle \/ run'[r].plan = run[r].plan \ {item}
      BY <1>2, CreateTo
    <3>3. run'[r].plan \subseteq run[r].plan
      BY <3>2 DEF Idle
    <3>4. QED
      BY <1>2, <3>1, <3>3, CreateTo
  <2>3. Handled(r)' \subseteq Handled(r)
    BY <2>2 DEF Handled
  <2>4. \A s \in Runs \ {r} : Handled(s)' = Handled(s)
    BY <1>2, OthersStay DEF Step, Handled
  <2>5. QED
    BY <2>1, <2>3, <2>4, FirstKept
<1>3. ASSUME NEW r \in Runs, Read(r) \/ MarkSent(r) \/ MarkFailed(r)
      PROVE  FirstInv'
  BY <1>3, ReadFirst, MarkFirst
<1>4. ASSUME NEW r \in Runs, \/ List(r) \/ Send(r) \/ Crash(r) \/ MarkSentThrows(r)
                             \/ \E item \in Items : Count(r, item)
      PROVE  FirstInv'
  <2>1. deliveries' = deliveries /\ \A s \in Runs \ {r} : run'[s] = run[s]
    <3>1. \A s \in Runs \ {r} : run'[s] = run[s]
      BY <1>4, OthersStay DEF Step
    <3>2. CASE List(r) \/ Send(r) \/ Crash(r) \/ MarkSentThrows(r)
      BY <3>1, <3>2 DEF List, Send, Crash, MarkSentThrows
    <3>3. ASSUME NEW item \in Items, Count(r, item)
          PROVE  deliveries' = deliveries
      BY <3>3, CountTo
    <3>4. QED
      BY <1>4, <3>1, <3>2, <3>3
  <2>2. \/ run'[r].plan = {} /\ run'[r].rows = {}
        \/ run'[r].plan = run[r].plan /\ run'[r].rows = run[r].rows
    <3>1. CASE List(r)
      BY <3>1, ListTo
    <3>2. CASE Crash(r)
      BY <3>2, EndTo, IdleOK DEF Idle
    <3>3. ASSUME NEW item \in Items, Count(r, item)
          PROVE  run'[r].plan = run[r].plan /\ run'[r].rows = run[r].rows
      BY <3>3, CountTo
    <3>4. CASE Send(r) \/ MarkSentThrows(r)
      BY <3>4, SendTo
    <3>5. QED
      BY <1>4, <3>1, <3>2, <3>3, <3>4
  <2>3. \A s \in Runs : Handled(s)' \subseteq Handled(s)
    BY <2>1, <2>2 DEF Handled
  <2>4. QED
    BY <2>1, <2>3, FirstKept
<1>5. CASE Tick
  <2>1. \A r \in Runs : run'[r].plan = run[r].plan /\ run'[r].rows = run[r].rows
    BY <1>5, RunTyped, Bounds DEF Tick, OwnInv, RunSet
  <2>2. \A s \in Runs : Handled(s)' \subseteq Handled(s)
    BY <2>1 DEF Handled
  <2>3. \A d \in deliveries' : d.status = "SENT" => d \in deliveries
    BY <1>5, AgedKeeps
  <2>4. QED
    BY <2>2, <2>3, FirstKept
<1>6. QED
  BY <1>1, <1>2, <1>3, <1>4, <1>5 DEF Next, Step, Raise, SetAlertStatus, vars

LEMMA InitFirst == Init => FirstInv
BY DEF Init, FirstInv

(* Every email has a row of its own, and all but one of the rows are not   *)
(* SENT.                                                                   *)
LEMMA BoundsReceived ==
  ASSUME OwnInv, AttemptedInv, FirstInv
  PROVE  OncePerLevel
<1> SUFFICES ASSUME NEW item \in Items
             PROVE  /\ received[item] <= 1 + Cardinality({d \in Of(item) : d.status # "SENT"})
                    /\ Cardinality({d \in Of(item) : d.status = "SENT"}) <= 1
  BY DEF OncePerLevel
<1> DEFINE sent == {d \in Of(item) : d.status = "SENT"}
           unsent == {d \in Of(item) : d.status # "SENT"}
<1>1. /\ IsFiniteSet(Of(item)) /\ IsFiniteSet(RowsOf(item))
      /\ Cardinality(Of(item)) = Cardinality(RowsOf(item))
  BY RowsCounted
<1>2. IsFiniteSet(sent) /\ IsFiniteSet(unsent)
  BY <1>1, FS_Subset
<1>3. Cardinality(sent) \in Nat /\ Cardinality(unsent) \in Nat
  BY <1>2, FS_CardinalityType
<1>4. Of(item) = sent \cup unsent /\ sent \cap unsent = {}
  OBVIOUS
<1>5. \A d, e \in sent : d = e
  BY DEF FirstInv, Of
<1> HIDE DEF sent, unsent
<1>6. Cardinality(sent) <= 1
  <2>1. CASE sent = {}
    BY <2>1, FS_EmptySet
  <2>2. CASE sent # {}
    <3>1. PICK d \in sent : TRUE
      BY <2>2
    <3>2. sent = {d}
      BY <1>5, <3>1
    <3>3. Cardinality({d}) = 1
      BY FS_Singleton
    <3>4. QED
      BY <3>2, <3>3
  <2>3. QED
    BY <2>1, <2>2
<1>7. Cardinality(Of(item)) = Cardinality(sent) + Cardinality(unsent)
  <2>1. Cardinality(sent \cap unsent) = 0
    BY <1>4, FS_EmptySet
  <2>2. Cardinality(sent \cup unsent)
          = Cardinality(sent) + Cardinality(unsent) - Cardinality(sent \cap unsent)
    BY <1>2, FS_Union
  <2>3. QED
    BY <1>3, <1>4, <2>1, <2>2
<1>8. received[item] <= Cardinality(RowsOf(item))
  <2>1. Attempted(item) \subseteq RowsOf(item)
    BY DEF Attempted
  <2>2. Cardinality(Attempted(item)) <= Cardinality(RowsOf(item)) /\ IsFiniteSet(Attempted(item))
    BY <1>1, <2>1, FS_Subset
  <2>3. Cardinality(Attempted(item)) \in Nat /\ Cardinality(RowsOf(item)) \in Nat
    BY <1>1, <2>2, FS_CardinalityType
  <2>4. received[item] <= Cardinality(Attempted(item)) /\ received[item] \in Nat
    BY DEF AttemptedInv, OwnInv, TypeOK
  <2>5. QED
    BY <2>2, <2>3, <2>4
<1>9. received[item] \in Nat
  BY DEF OwnInv, TypeOK
<1>10. received[item] <= 1 + Cardinality(unsent)
  BY <1>1, <1>3, <1>6, <1>7, <1>8, <1>9
<1>11. QED
  BY <1>6, <1>10 DEF sent, unsent

(* As long as one run goes at a time, an alert is SENT at a level at most  *)
(* once, and each further email of it needs a row that is not SENT: an     *)
(* attempt that failed or never came to an end.                            *)
THEOREM OnceWhenAlone == Spec /\ []Alone => []OncePerLevel
<1>1. OwnInv /\ [Next]_vars => OwnInv'
  BY NextOwn
<1>2. OwnInv /\ OwnInv' /\ PlanInv /\ Alone /\ FirstInv /\ [Next]_vars => FirstInv'
  BY NextFirst
<1>3. OwnInv /\ AttemptedInv /\ FirstInv => OncePerLevel
  BY BoundsReceived
<1>4. QED
  BY <1>1, <1>2, <1>3, InitFirst, InitOwn, Planned, EmailsCounted, PTL DEF Spec

-----------------------------------------------------------------------------
(* A run that has planned keeps its distance to the emails there are, or   *)
(* deals with an urgent alert; an email by another run would come in       *)
(* between, so one run goes at a time.                                     *)
SpaceInv ==
  \A r \in Runs :
    /\ \A e \in emails : e.age >= run[r].age
    /\ run[r].pc \notin {"idle", "read"} =>
         HasUrgent(Handled(r)) \/ \A e \in emails : e.age >= run[r].age + Gap

LEMMA SpaceBounds == Hour \in Nat /\ Gap \in Nat \ {0}
BY ConstantsOK

(* Steps that add no email and keep what a run has started with.           *)
LEMMA SpaceKept ==
  ASSUME OwnInv, SpaceInv, emails' = emails,
         \A s \in Runs :
           /\ run'[s].age \in {0, run[s].age}
           /\ run'[s].pc \notin {"idle", "read"} =>
                /\ run[s].pc \notin {"idle", "read"} /\ run'[s].age = run[s].age
                /\ Handled(s)' = Handled(s)
  PROVE  SpaceInv'
<1> SUFFICES ASSUME NEW s \in Runs
             PROVE  /\ \A e \in emails : e.age >= run'[s].age
                    /\ run'[s].pc \notin {"idle", "read"} =>
                         HasUrgent(Handled(s)') \/ \A e \in emails : e.age >= run'[s].age + Gap
  BY DEF SpaceInv, HasUrgent
<1>1. \A e \in emails : e.age \in Nat
  BY SpaceBounds DEF OwnInv, TypeOK, Email
<1>2. \A e \in emails : e.age >= run'[s].age
  BY <1>1 DEF SpaceInv
<1>3. QED
  BY <1>2 DEF SpaceInv

LEMMA ReadyFinite ==
  ASSUME OwnInv, NEW r \in Runs
  PROVE  IsFiniteSet(Ready(run[r].listed))
<1>1. Levels \subseteq 0..Urgent /\ Urgent \in Nat /\ IsFiniteSet(Alerts)
  BY ConstantsOK
<1>2. IsFiniteSet(0..Urgent)
  BY <1>1, FS_Interval
<1>3. IsFiniteSet(Levels)
  BY <1>1, <1>2, FS_Subset
<1>4. IsFiniteSet(Items)
  BY <1>1, <1>3, FS_Product DEF Items
<1>5. Ready(run[r].listed) \subseteq Items
  BY RunTyped DEF OwnInv, RunSet, Ready
<1>6. QED
  BY <1>4, <1>5, FS_Subset

(* The plan takes the urgent alerts first.                                 *)
LEMMA UrgentFirst ==
  ASSUME NEW items \in SUBSET Items, IsFiniteSet(items), HasUrgent(items),
         NEW chosen \in Chosen(items)
  PROVE  HasUrgent(chosen)
<1>1. PICK item \in items : item[2] = Urgent
  BY DEF HasUrgent
<1>2. \A i \in items : i[2] \in Nat /\ i[2] <= Urgent /\ Urgent \in Nat
  BY ConstantsOK DEF Items
<1>3. chosen \subseteq items /\ \A i \in chosen, j \in items \ chosen : i[2] >= j[2]
  BY DEF Chosen
<1>4. chosen # {}
  <2>1. Cardinality(items) \in Nat /\ Cardinality(items) # 0
    BY <1>1, FS_CardinalityType, FS_EmptySet
  <2>2. Cardinality(chosen) # 0
    BY <2>1, ConstantsOK DEF Chosen
  <2>3. QED
    BY <2>2, FS_EmptySet
<1>5. CASE item \in chosen
  BY <1>1, <1>5 DEF HasUrgent
<1>6. CASE item \notin chosen
  <2>1. PICK i \in chosen : TRUE
    BY <1>4
  <2>2. i[2] >= item[2]
    BY <1>1, <1>3, <1>6
  <2>3. i[2] = Urgent
    BY <1>1, <1>2, <1>3, <2>2
  <2>4. QED
    BY <2>3 DEF HasUrgent
<1>7. QED
  BY <1>5, <1>6

LEMMA ReadSpace ==
  ASSUME OwnInv, PlanInv, SpaceInv, NEW r \in Runs, Read(r)
  PROVE  SpaceInv'
<1>1. /\ run[r].pc = "read" /\ emails' = emails
      /\ \A s \in Runs \ {r} : run'[s] = run[s]
  BY ReadTo, OthersStay DEF Step
<1>2. run[r].age = 0
  BY <1>1 DEF PlanInv, PlanOK
<1>3. \A e \in emails : e.age \in Nat
  BY SpaceBounds DEF OwnInv, TypeOK, Email
<1>4. CASE run'[r] = Idle
  <2>1. run'[r].age = 0 /\ run'[r].pc = "idle"
    BY <1>4, IdleOK DEF Idle
  <2>2. QED
    BY <1>1, <2>1, SpaceKept DEF Handled
<1>5. CASE /\ MaySend(Ready(run[r].listed))
           /\ run'[r].plan \in Chosen(Ready(run[r].listed))
           /\ run'[r].pc = "count" /\ run'[r].age = run[r].age
  <2> DEFINE ready == Ready(run[r].listed)
  <2>1. ready \in SUBSET Items /\ IsFiniteSet(ready)
    BY ReadyFinite, RunTyped DEF OwnInv, RunSet, Ready
  <2>2. HasUrgent(ready) \/ \A e \in emails : e.age >= Gap
    <3>1. HasUrgent(ready) \/ ~TooSoon
      BY <1>5 DEF MaySend
    <3>2. QED
      BY <1>3, <3>1, SpaceBounds DEF TooSoon
  <2>3. HasUrgent(ready) => HasUrgent(run'[r].plan)
    BY <1>5, <2>1, UrgentFirst
  <2>4. HasUrgent(run'[r].plan) => HasUrgent(Handled(r)')
    BY DEF HasUrgent, Handled
  <2> HIDE DEF ready
  <2>5. HasUrgent(Handled(r)') \/ \A e \in emails' : e.age >= run'[r].age + Gap
    BY <1>1, <1>2, <1>5, <2>2, <2>3, <2>4, SpaceBounds
  <2>6. \A e \in emails' : e.age >= run'[r].age
    BY <1>1, <1>2, <1>3, <1>5
  <2>7. ASSUME NEW s \in Runs \ {r}
        PROVE  /\ \A e \in emails' : e.age >= run'[s].age
               /\ run'[s].pc \notin {"idle", "read"} =>
                    HasUrgent(Handled(s)') \/ \A e \in emails' : e.age >= run'[s].age + Gap
    <3>1. run'[s] = run[s] /\ Handled(s)' = Handled(s)
      BY <1>1 DEF Handled
    <3>2. QED
      BY <1>1, <3>1 DEF SpaceInv
  <2>8. QED
    BY <2>5, <2>6, <2>7 DEF SpaceInv, HasUrgent
<1>6. QED
  BY <1>4, <1>5, ReadTo

LEMMA CreateSpace ==
  ASSUME OwnInv, AttemptInv, SpaceInv, NEW r \in Runs, NEW item \in Items, Create(r, item)
  PROVE  SpaceInv'
<1>1. /\ run[r].pc = "create" /\ item \in run[r].plan /\ RowOf(r, item).item = item
      /\ emails' = emails /\ \A s \in Runs \ {r} : run'[s] = run[s]
  BY CreateTo, OthersStay DEF Step
<1>2. run'[r].rows = run[r].rows \cup {RowOf(r, item)}
  <2>1. ~ \E d \in deliveries : d.row = RowOf(r, item)
    BY NeverTaken
  <2>2. QED
    BY <2>1, CreateTo
<1>3. CASE run'[r] = Idle
  <2>1. run'[r].age = 0 /\ run'[r].pc = "idle"
    BY <1>3, IdleOK DEF Idle
  <2>2. QED
    BY <1>1, <2>1, SpaceKept DEF Handled
<1>4. CASE run'[r].plan = run[r].plan \ {item} /\ run'[r].age = run[r].age
  <2>1. Handled(r)' = Handled(r)
    BY <1>1, <1>2, <1>4 DEF Handled
  <2>2. QED
    BY <1>1, <1>4, <2>1, SpaceKept DEF Handled
<1>5. QED
  BY <1>3, <1>4, CreateTo

LEMMA TickSpace ==
  ASSUME OwnInv, SpaceInv, NonUrgentSpaced, Tick
  PROVE  SpaceInv' /\ NonUrgentSpaced'
<1>1. \A r \in Runs : /\ run'[r].pc = run[r].pc /\ run'[r].plan = run[r].plan
                      /\ run'[r].rows = run[r].rows
                      /\ run'[r].age \in {run[r].age, run[r].age + 1}
                      /\ run[r].age \in Nat
  BY RunTyped, Bounds DEF Tick, OwnInv, RunSet
<1>2. \A e \in emails : /\ e.age \in Nat
                        /\ [e EXCEPT !.age = @ + 1].age = e.age + 1
                        /\ [e EXCEPT !.age = @ + 1].urgent = e.urgent
  BY SpaceBounds DEF OwnInv, TypeOK, Email
<1>3. \A e \in emails' : \E f \in emails :
        /\ e = [f EXCEPT !.age = @ + 1] /\ e.age = f.age + 1 /\ e.urgent = f.urgent /\ f.age \in Nat
  BY <1>2 DEF Tick
<1>4. \A r \in Runs : Handled(r)' = Handled(r)
  BY <1>1 DEF Handled
<1>5. ASSUME NEW r \in Runs
      PROVE  /\ \A e \in emails' : e.age >= run'[r].age
             /\ run'[r].pc \notin {"idle", "read"} =>
                  HasUrgent(Handled(r)') \/ \A e \in emails' : e.age >= run'[r].age + Gap
  <2>1. \A e \in emails : e.age >= run[r].age
    BY DEF SpaceInv
  <2>2. \A e \in emails' : e.age >= run'[r].age
    BY <1>1, <1>3, <2>1
  <2>3. ASSUME run'[r].pc \notin {"idle", "read"}
        PROVE  HasUrgent(Handled(r)') \/ \A e \in emails' : e.age >= run'[r].age + Gap
    <3>1. HasUrgent(Handled(r)) \/ \A e \in emails : e.age >= run[r].age + Gap
      BY <1>1, <2>3 DEF SpaceInv
    <3>2. QED
      BY <1>1, <1>3, <1>4, <3>1, SpaceBounds
  <2>4. QED
    BY <2>2, <2>3
<1>6. SpaceInv'
  BY <1>5 DEF SpaceInv, HasUrgent
<1>7. NonUrgentSpaced'
  <2> SUFFICES ASSUME NEW e \in emails', NEW f \in emails',
                      e # f, f.age <= e.age, ~f.urgent
               PROVE  e.age >= f.age + Gap \/ (e.age = f.age /\ e.urgent)
    BY DEF NonUrgentSpaced
  <2>1. PICK d \in emails :
          /\ e = [d EXCEPT !.age = @ + 1] /\ e.age = d.age + 1 /\ e.urgent = d.urgent /\ d.age \in Nat
    BY <1>3
  <2>2. PICK g \in emails :
          /\ f = [g EXCEPT !.age = @ + 1] /\ f.age = g.age + 1 /\ f.urgent = g.urgent /\ g.age \in Nat
    BY <1>3
  <2>3. d # g /\ g.age <= d.age /\ ~g.urgent
    BY <2>1, <2>2
  <2>4. d.age >= g.age + Gap \/ (d.age = g.age /\ d.urgent)
    BY <2>3 DEF NonUrgentSpaced
  <2>5. QED
    BY <2>1, <2>2, <2>4, SpaceBounds
<1>8. QED
  BY <1>6, <1>7

(* The email a run adds is the latest of all.                              *)
LEMMA MarkSpace ==
  ASSUME OwnInv, OwnInv', PlanInv, Alone, SpaceInv, NonUrgentSpaced, NEW r \in Runs, MarkSent(r)
  PROVE  SpaceInv' /\ NonUrgentSpaced'
<1> DEFINE new == [rows |-> run[r].rows, age |-> run[r].age,
                   urgent |-> HasUrgent({row.item : row \in run[r].rows})]
<1>1. /\ run[r].pc = "sent" /\ run'[r] = Idle
      /\ \A s \in Runs \ {r} : run'[s] = run[s] /\ run[s].pc = "idle"
  BY EndTo, OthersStay DEF Step, Alone, MarkSent
<1>2. emails' = emails \cup (IF run[r].age > Hour THEN {} ELSE {new})
  BY DEF MarkSent
<1>3. \A s \in Runs : run'[s].pc = "idle" /\ run'[s].age = 0
  BY <1>1, IdleOK DEF PlanInv, PlanOK, Idle
<1>4. \A e \in emails' : e.age \in Nat
  BY SpaceBounds DEF OwnInv, TypeOK, Email
<1>5. SpaceInv'
  <2>1. \A s \in Runs : \A e \in emails' : e.age >= run'[s].age
    BY <1>3, <1>4
  <2>2. QED
    BY <1>3, <2>1 DEF SpaceInv
<1>6. new.age = run[r].age /\ run[r].age \in Nat /\ new.urgent = HasUrgent(Handled(r))
  <2>1. run[r].plan = {}
    BY <1>1 DEF PlanInv, PlanOK
  <2>2. Handled(r) = {row.item : row \in run[r].rows}
    BY <2>1 DEF Handled
  <2>3. run[r].age \in Nat
    BY RunTyped, Bounds DEF OwnInv, RunSet
  <2>4. QED
    BY <2>2, <2>3
<1>7. \A e \in emails : e.age >= new.age /\ (~new.urgent => e.age >= new.age + Gap)
  BY <1>1, <1>6 DEF SpaceInv
<1>8. \A e \in emails' : e \in emails \/ e = new
  BY <1>2
<1> HIDE DEF new
<1>9. NonUrgentSpaced'
  <2> SUFFICES ASSUME NEW e \in emails', NEW f \in emails',
                      e # f, f.age <= e.age, ~f.urgent
               PROVE  e.age >= f.age + Gap \/ (e.age = f.age /\ e.urgent)
    BY DEF NonUrgentSpaced
  <2>0. e.age \in Nat /\ f.age \in Nat /\ Gap \in Nat \ {0}
    BY <1>4, SpaceBounds
  <2>1. CASE e \in emails /\ f \in emails
    BY <2>1 DEF NonUrgentSpaced
  <2>2. CASE f = new /\ e \in emails
    BY <1>7, <2>2
  <2>3. CASE e = new /\ f \in emails
    <3>1. f.age >= e.age /\ (~e.urgent => f.age >= e.age + Gap)
      BY <1>7, <2>3
    <3>2. f.age = e.age
      BY <2>0, <3>1
    <3>3. e.urgent
      BY <2>0, <3>1, <3>2
    <3>4. QED
      BY <3>2, <3>3
  <2>4. QED
    BY <1>8, <2>1, <2>2, <2>3
<1>10. QED
  BY <1>5, <1>9

LEMMA NextSpace ==
  ASSUME OwnInv, OwnInv', PlanInv, AttemptInv, Alone, SpaceInv, NonUrgentSpaced, [Next]_vars
  PROVE  SpaceInv' /\ NonUrgentSpaced'
<1>1. CASE UNCHANGED <<run, emails>>
  BY <1>1 DEF SpaceInv, NonUrgentSpaced, Handled
<1>2. ASSUME emails' = emails
      PROVE  NonUrgentSpaced'
  BY <1>2 DEF NonUrgentSpaced
<1>3. ASSUME NEW r \in Runs, NEW item \in Items, Create(r, item)
      PROVE  SpaceInv' /\ NonUrgentSpaced'
  BY <1>2, <1>3, CreateTo, CreateSpace
<1>4. ASSUME NEW r \in Runs, Read(r)
      PROVE  SpaceInv' /\ NonUrgentSpaced'
  BY <1>2, <1>4, ReadTo, ReadSpace
<1>5. ASSUME NEW r \in Runs, MarkSent(r)
      PROVE  SpaceInv' /\ NonUrgentSpaced'
  BY <1>5, MarkSpace
<1>6. ASSUME NEW r \in Runs, \/ List(r) \/ Send(r) \/ MarkFailed(r) \/ Crash(r) \/ MarkSentThrows(r)
                             \/ \E item \in Items : Count(r, item)
      PROVE  SpaceInv' /\ NonUrgentSpaced'
  <2>1. \A s \in Runs \ {r} : run'[s] = run[s]
    BY <1>6, OthersStay DEF Step
  <2>2. /\ emails' = emails
        /\ \/ run'[r].pc \in {"idle", "read"} /\ run'[r].age = 0
           \/ /\ run[r].pc \notin {"idle", "read"} /\ run'[r].age = run[r].age
              /\ run'[r].plan = run[r].plan /\ run'[r].rows = run[r].rows
    <3>1. CASE List(r)
      BY <3>1, ListTo
    <3>2. CASE MarkFailed(r) \/ Crash(r)
      <4>1. run'[r].pc = "idle" /\ run'[r].age = 0
        BY <3>2, EndTo DEF Idle
      <4>2. QED
        BY <3>2, <4>1 DEF MarkFailed, Crash
    <3>3. ASSUME NEW item \in Items, Count(r, item)
          PROVE  /\ emails' = emails /\ run[r].pc = "count" /\ run'[r].age = run[r].age
                 /\ run'[r].plan = run[r].plan /\ run'[r].rows = run[r].rows
      BY <3>3, CountTo
    <3>4. CASE Send(r) \/ MarkSentThrows(r)
      BY <3>4, SendTo
    <3>5. QED
      BY <1>6, <3>1, <3>2, <3>3, <3>4
  <2>3. Handled(r)' = Handled(r) \/ run'[r].pc \in {"idle", "read"}
    BY <2>2 DEF Handled
  <2>4. \A s \in Runs \ {r} : Handled(s)' = Handled(s)
    BY <2>1 DEF Handled
  <2>5. QED
    BY <1>2, <2>1, <2>2, <2>3, <2>4, SpaceKept
<1>7. CASE Tick
  BY <1>7, TickSpace
<1>8. QED
  BY <1>1, <1>3, <1>4, <1>5, <1>6, <1>7 DEF Next, Step, Raise, SetAlertStatus, vars

LEMMA InitSpace == Init => SpaceInv /\ NonUrgentSpaced
BY DEF Init, SpaceInv, NonUrgentSpaced

(* As long as one run goes at a time, an email without an urgent alert     *)
(* leaves a gap after every email before it, however long a run takes and  *)
(* wherever it dies.                                                       *)
THEOREM SpacedWhenAlone == Spec /\ []Alone => []NonUrgentSpaced
<1>1. OwnInv /\ [Next]_vars => OwnInv'
  BY NextOwn
<1>2. OwnInv /\ AttemptInv /\ Alone /\ [Next]_vars => AttemptInv'
  BY NextNumbers
<1>3. /\ OwnInv /\ OwnInv' /\ PlanInv /\ AttemptInv /\ Alone /\ SpaceInv
      /\ NonUrgentSpaced /\ [Next]_vars
      => SpaceInv' /\ NonUrgentSpaced'
  BY NextSpace
<1>4. QED
  BY <1>1, <1>2, <1>3, InitOwn, InitNumbers, InitSpace, Planned, PTL DEF Spec
=============================================================================
