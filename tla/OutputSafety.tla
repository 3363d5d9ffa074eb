---------------------------- MODULE OutputSafety ----------------------------
(***************************************************************************)
(* Which generated texts may be shown (services/output_safety.py): the      *)
(* classification of a summary.                                             *)
(*                                                                          *)
(* A summary is the set of its parts, as meaning_segments splits it at      *)
(* contrastive words, and whether the whole has a word of mixed context.  A *)
(* part is the set of the term lists it has a term of.                      *)
(***************************************************************************)
EXTENDS FiniteSets

\* The term lists: what is claimed, and what makes it certain or negates it.
Claims == {"illegality", "invalidity", "legal_effect", "legal_safety",
           "lawsuit", "winning", "refund", "outcome"}
Modes == {"certain", "concluded", "nothing", "negated"}

Summary == [parts : SUBSET SUBSET (Claims \cup Modes), mixed : BOOLEAN]

\* Some part makes the claims in one of the modes, and does not negate it.
Determines(summary, claims, modes) ==
  \E part \in summary.parts :
    /\ "negated" \notin part
    /\ claims \subseteq part
    /\ part \cap modes # {}

\* classify_blocking_expression, the first category that applies.
BlockedFor(summary) ==
  CASE Determines(summary, {"illegality"}, {"certain", "concluded"}) -> "illegality"
    [] Determines(summary, {"invalidity"}, {"certain", "concluded"}) -> "invalidity"
    [] Determines(summary, {"lawsuit", "winning"}, {"certain"}) -> "litigation_outcome"
    [] Determines(summary, {"refund"}, {"certain"}) -> "refund"
    [] Determines(summary, {"outcome"}, {"certain"}) -> "outcome"
    [] Determines(summary, {"legal_safety"}, {"nothing", "certain", "concluded"}) -> "legal_safety"
    [] Determines(summary, {"legal_effect"}, {"nothing", "certain"}) -> "legal_effect"
    [] OTHER -> ""

\* check_summary_output: whatever is not blocked and not mixed is allowed.
CheckSummary(summary) ==
  IF BlockedFor(summary) # "" THEN "BLOCK"
  ELSE IF summary.mixed THEN "REVIEW"
  ELSE "ALLOW"

\* A part that is certain of what only a court or a lawyer can say.
Asserts(part) ==
  /\ part \cap {"illegality", "invalidity", "refund", "outcome", "legal_safety", "legal_effect"} # {}
  /\ "certain" \in part /\ "negated" \notin part
=============================================================================
