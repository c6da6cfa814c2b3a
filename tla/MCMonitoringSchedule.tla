------------------------ MODULE MCMonitoringSchedule ------------------------
(* Instances of MonitoringSchedule for TLC. *)
EXTENDS MonitoringSchedule, TLC

(* The jobs of a URL are interchangeable. *)
Interchangeable == Permutations(Jobs)
=============================================================================
