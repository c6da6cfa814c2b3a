---------------------------- MODULE MCAiAnalysis ----------------------------
(* Instances of AiAnalysis for TLC. *)
EXTENDS AiAnalysis, TLC

(* Clicks are interchangeable, and so are slots. *)
Interchangeable == Permutations(Requests) \cup Permutations(Workers)
=============================================================================
