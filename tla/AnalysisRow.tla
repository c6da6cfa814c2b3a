---------------------------- MODULE AnalysisRow ----------------------------
(***************************************************************************)
(* What a row of a paid AI job promises its readers: it moves forward from *)
(* PENDING to one terminal status, a result belongs to a COMPLETED row     *)
(* only, and neither is ever rewritten.                                    *)
(***************************************************************************)
EXTENDS Naturals

VARIABLES
  status,  \* ABSENT, PENDING, RUNNING, COMPLETED or FAILED
  result   \* the run that produced the stored result, 0 for none

Init == status = "ABSENT" /\ result = 0

Create == status = "ABSENT" /\ status' = "PENDING" /\ UNCHANGED result

Start == status = "PENDING" /\ status' = "RUNNING" /\ UNCHANGED result

Complete ==
  /\ status \in {"PENDING", "RUNNING"}
  /\ status' = "COMPLETED"
  /\ result' \in Nat \ {0}

Fail == status \in {"PENDING", "RUNNING"} /\ status' = "FAILED" /\ UNCHANGED result

Next == Create \/ Start \/ Complete \/ Fail

Spec == Init /\ [][Next]_<<status, result>>
=============================================================================
