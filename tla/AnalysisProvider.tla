-------------------------- MODULE AnalysisProvider --------------------------
(***************************************************************************)
(* What an analysis provider may answer, and the checks of an answer        *)
(* (services/analysis_provider_contract.py, analysis_provider.py,           *)
(* analysis_result_schema.py, provider_execution.py).                       *)
(*                                                                          *)
(* The only provider in the repository is a synthetic one; the checks are   *)
(* those any provider is under, so the model lets it answer anything they   *)
(* tell apart.  A request has one clause with one evidence candidate.       *)
(***************************************************************************)
EXTENDS Naturals, OutputSafety

\* The candidate it was given, one it was not given, none.
Citations == {"candidate", "other", "none"}

\* An answer in the old form is a finding that is taken as citing the candidate;
\* it is not checked against the request.
Response == {r \in
  [old : BOOLEAN,            \* AnalysisResultData, not AnalysisProviderResponse
   echoes : BOOLEAN,         \* the request id and schema version of the request
   found : BOOLEAN,          \* a finding; only the first one is used
   selects : Citations,      \* evidence of the finding
   asks : BOOLEAN,           \* questions and suggestions, with evidence
   cites : Citations,
   expert : {"no", "reasons", "no_reasons", "unexplained"},  \* expert review
   allowed : BOOLEAN,        \* severity, risk type, lengths, list sizes, score
   fact : Citations \cup {"absent"},  \* an extracted fact, with its evidence
   personal : BOOLEAN,       \* some text has a detectable personal value
   summary : Summary] : r.old => r.found}

CONSTANT Responses  \* the answers a provider may give

ASSUME ResponsesAssumption == Responses \subseteq Response

\* AnalysisProviderResponse.validate: an answer without findings is valid.
ContractAccepts(r) ==
  \/ r.old
  \/ /\ r.echoes
     /\ r.found => /\ r.selects = "candidate"
                   /\ r.asks => r.cites = "candidate"
                   /\ r.expert # "no_reasons"

\* The evidence that a citation names: the candidate of a request has the id of
\* the first evidence of its clause, and 0 is the id of none.
Named(citation) ==
  CASE citation = "candidate" -> {1} [] citation = "other" -> {0} [] citation = "none" -> {}

\* What questions and suggestions name, and what a fact names.
Cited(r) == {Named(c) : c \in (IF r.asks THEN {r.cites} ELSE {}) \cup ({r.fact} \ {"absent"})}

\* A wrong version: only the evidence of extracted facts is looked at.
SlipCitedEvidence(r, ids) ==
  \A named \in Cited([r EXCEPT !.asks = FALSE]) : named # {} /\ named \subseteq ids

\* Each question, suggestion and fact names evidence, all of it among ids.
CitedEvidence(r, ids) == \A named \in Cited(r) : named # {} /\ named \subseteq ids

\* AnalysisResultData.validate of the finding, and what the pipeline adds: no
\* personal values, a summary that may be shown.
ResultAccepts(r) ==
  /\ r.found
  /\ r.allowed
  /\ r.expert \in {"no", "reasons"}
  /\ ~r.personal
  /\ CheckSummary(r.summary) = "ALLOW"

\* How a call can raise: what is retried, and everything else.  A provider error
\* keeps its own flag, ValueError and RuntimeError are raised as they are, others
\* are judged by their message.
Errors == {"provider_error", "provider_error_retryable", "value_or_runtime",
           "says_authentication", "says_timeout", "says_rate_limit", "says_nothing"}

Retryable(error) == error \in {"provider_error_retryable", "says_timeout", "says_rate_limit"}
=============================================================================
