----------------------------- MODULE ScanLedger -----------------------------
(***************************************************************************)
(* What the scan history of one URL promises its readers, whoever writes   *)
(* it and however many scans overlap: snapshots are only ever added, a     *)
(* change is a difference from an earlier verified snapshot of the same    *)
(* vantage, the validators kept for conditional requests come from the     *)
(* snapshot committed with them, and the failure streak counts failures    *)
(* that were committed one after another.  Entries are in order of commit; *)
(* `at`, the fetchedAt the readers sort by, may disagree with it.          *)
(***************************************************************************)
EXTENDS Integers, Sequences

CONSTANTS Rows, Contents, Vantages, None

VARIABLES snapshots, validators, failures

ledger == <<snapshots, validators, failures>>

Entry == [row: Rows, content: Contents \cup {None}, vantage: Vantages,
          state: {"NO_CHANGE", "CHANGED", "FAILED_TO_VERIFY"},
          errored: BOOLEAN, prev: Nat, at: Nat]

IsVerified(e) == e.state # "FAILED_TO_VERIFY"

(* A new entry may follow the history.                                     *)
Admissible(e) ==
  /\ \A i \in 1..Len(snapshots) : snapshots[i].row # e.row
  /\ e.errored => ~IsVerified(e)
  /\ e.prev \in 0..Len(snapshots)
  /\ e.prev # 0 => IsVerified(snapshots[e.prev])
  /\ e.state = "CHANGED" => /\ e.prev # 0
                            /\ snapshots[e.prev].vantage = e.vantage
                            /\ snapshots[e.prev].content # e.content

Init == snapshots = <<>> /\ validators = None /\ failures = 0

Record ==
  LET e == snapshots'[Len(snapshots) + 1]
  IN  /\ Len(snapshots') = Len(snapshots) + 1
      /\ e \in Entry
      /\ Admissible(e)
      /\ snapshots' = Append(snapshots, e)
      /\ validators' \in {None} \cup (IF IsVerified(e) THEN {e.content} ELSE {})
      /\ failures' = IF e.errored THEN failures + 1 ELSE 0

(* A 304: the page is as it was; the history does not grow.                *)
Confirm ==
  /\ failures' = 0
  /\ UNCHANGED <<snapshots, validators>>

Next == Record \/ Confirm

Spec == Init /\ [][Next]_ledger
=============================================================================
