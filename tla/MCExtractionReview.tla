------------------------- MODULE MCExtractionReview -------------------------
(* Instances of ExtractionReview for TLC. *)
EXTENDS ExtractionReview, TLC

Symmetry == Permutations(Sessions)
=============================================================================
