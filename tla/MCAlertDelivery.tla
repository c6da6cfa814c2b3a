-------------------------- MODULE MCAlertDelivery --------------------------
(* Instances of AlertDelivery for TLC. *)
EXTENDS AlertDelivery, TLC

(* Alerts are interchangeable, and so are runs. *)
Interchangeable == Permutations(Alerts) \cup Permutations(Runs)
=============================================================================
