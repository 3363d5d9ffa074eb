----------------------------- MODULE MCJobQueue -----------------------------
(* Instances of JobQueue for TLC. *)
EXTENDS JobQueueRefinement, TLC

CONSTANTS w1, w2

\* The two workers run with different ANALYSIS_JOB_MAX_ATTEMPTS.
MixedMax == w1 :> 1 @@ w2 :> 2

Symmetry == Permutations(Jobs) \cup Permutations(Clients) \cup Permutations(Requests)
=============================================================================
