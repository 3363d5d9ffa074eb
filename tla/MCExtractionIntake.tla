------------------------- MODULE MCExtractionIntake -------------------------
(* Instances of ExtractionIntake for TLC. *)
EXTENDS ExtractionIntake, TLC

Symmetry == Permutations(Requests) \cup Permutations(Procs)
=============================================================================
