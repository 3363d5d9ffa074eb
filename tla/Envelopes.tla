------------------------------ MODULE Envelopes ------------------------------
(***************************************************************************)
(* Encrypted values, what binds them to their place, and the keys           *)
(* (core/crypto.py, core/encryption_config.py and the encryption modules of *)
(* services/).                                                              *)
(*                                                                          *)
(* A value is sealed for a place: a field of a row, or of an element of the *)
(* JSON of a row.  The additional authenticated data of the seal is made    *)
(* from the place; only with the same data and the same key it opens again. *)
(***************************************************************************)
EXTENDS FiniteSets

CONSTANTS
  Ids,     \* record ids, page numbers, versions, ids of elements
  Owners   \* users

-----------------------------------------------------------------------------
(* <<resource_type, field_name>> of the AAD of each kind of place, one table for *)
(* every group of them that a module of services/ seals together.            *)

Scalar ==
  [clause_body |-> <<"clause", "body">>,
   page_text |-> <<"extraction_page", "text">>,
   item_summary |-> <<"analysis_result_item", "summary">>]

Metadata ==
  [user_email |-> <<"user", "email">>,
   document_filename |-> <<"document", "filename">>,
   extraction_filename |-> <<"extraction", "filename_display">>,
   clause_title |-> <<"clause", "title">>]

Sections == [section |-> <<"document_unclassified_section", "text">>]

\* A wrong version: blocks of a snapshot are sealed like those of the page.
SlipNested ==
  [page_block |-> <<"extraction_page_block", "text">>,
   snapshot_block |-> <<"extraction_page_block", "text">>,
   reviewed_text |-> <<"extraction_page_extra", "reviewed_text">>,
   final_text |-> <<"extraction_page_extra", "final_text">>,
   snapshot_text |-> <<"confirmation_snapshot_page", "final_text">>]

Nested ==
  [page_block |-> <<"extraction_page_block", "text">>,
   snapshot_block |-> <<"confirmation_snapshot_block", "text">>,
   reviewed_text |-> <<"extraction_page_extra", "reviewed_text">>,
   final_text |-> <<"extraction_page_extra", "final_text">>,
   snapshot_text |-> <<"confirmation_snapshot_page", "final_text">>]

Items ==
  [title |-> <<"analysis_result_item", "title">>,
   risk_reason |-> <<"analysis_result_item", "risk_reason">>,
   practical_impact |-> <<"analysis_result_item", "practical_impact">>,
   recommendation |-> <<"analysis_result_item", "recommendation">>,
   expert_review_summary |-> <<"analysis_result_item", "expert_review_summary">>]

Questions ==
  [question |-> <<"analysis_result_question", "question">>,
   purpose |-> <<"analysis_result_question", "purpose">>]

Suggestions ==
  [objective |-> <<"analysis_result_suggestion", "objective">>,
   suggested_change |-> <<"analysis_result_suggestion", "suggested_change">>,
   fallback_option |-> <<"analysis_result_suggestion", "fallback_option">>]

Facts ==
  [label |-> <<"analysis_result_fact", "label">>,
   value |-> <<"analysis_result_fact", "value">>,
   normalized_value |-> <<"analysis_result_fact", "normalized_value">>,
   date_value |-> <<"analysis_result_fact", "date_value">>,
   amount_value |-> <<"analysis_result_fact", "amount_value">>,
   duration_value |-> <<"analysis_result_fact", "duration_value">>,
   obligation_party |-> <<"analysis_result_fact", "obligation_party">>]

Evidence == [quote |-> <<"analysis_result_evidence", "source_text">>]

Tables ==
  [scalar |-> Scalar, metadata |-> Metadata, sections |-> Sections, nested |-> Nested,
   items |-> Items, questions |-> Questions, suggestions |-> Suggestions, facts |-> Facts,
   evidence |-> Evidence]

\* The schema version is that of the module.
Schema(group) ==
  CASE group = "scalar" -> "scalar-v1"
    [] group = "metadata" -> "scalar-metadata-v1"
    [] group = "sections" -> "document-metadata-v1"
    [] group = "nested" -> "nested-json-v1"
    [] group \in {"items", "questions", "suggestions", "facts"} -> "analysis-result-v1"
    [] group = "evidence" -> "analysis-evidence-v1"

\* The ids a record id is made from.
Keys(resource) ==
  CASE resource \in {"clause", "user", "document", "extraction"} -> {"id"}
    [] resource \in {"extraction_page", "extraction_page_extra"} -> {"extraction_id", "page_number"}
    [] resource = "extraction_page_block" -> {"extraction_id", "page_number", "block_index"}
    [] resource = "confirmation_snapshot_page" -> {"extraction_id", "page_number", "snapshot_version"}
    [] resource = "confirmation_snapshot_block" ->
         {"extraction_id", "page_number", "block_index", "snapshot_version"}
    [] resource = "document_unclassified_section" -> {"document_id", "item_index"}
    [] resource = "analysis_result_item" -> {"analysis_job_id", "clause_record_id"}
    [] resource = "analysis_result_question" -> {"analysis_job_id", "clause_record_id", "question_id"}
    [] resource = "analysis_result_suggestion" ->
         {"analysis_job_id", "clause_record_id", "suggestion_id"}
    [] resource = "analysis_result_fact" -> {"analysis_job_id", "clause_record_id", "fact_id"}
    [] resource = "analysis_result_evidence" -> {"analysis_job_id", "clause_record_id", "evidence_id"}

\* The places of one kind.
PlacesOf(group, kind) ==
  [group : {group}, kind : {kind}, owner : Owners, ids : [Keys(Tables[group][kind][1]) -> Ids]]

Places == UNION {UNION {PlacesOf(group, kind) : kind \in DOMAIN Tables[group]} : group \in DOMAIN Tables}

\* build_canonical_aad
Aad(place) ==
  [resource_type |-> Tables[place.group][place.kind][1], record_id |-> place.ids,
   field_name |-> Tables[place.group][place.kind][2], owner_id |-> place.owner,
   schema_version |-> Schema(place.group)]

\* The places that share an AAD.
PlacesWith == [aad \in {Aad(p) : p \in Places} |-> {p \in Places : Aad(p) = aad}]

-----------------------------------------------------------------------------
(* Keys, and sealing.                                                      *)

\* A key ring: the status of each key, and which of them is the active one.
ActiveKeys(ring) == {k \in DOMAIN ring.keys : ring.keys[k] = "active"}

\* What get_encryption_keyring accepts, at each use.
WellFormed(ring) == ActiveKeys(ring) = {ring.active}

Seal(ring, place) == [key |-> ring.active, aad |-> Aad(place)]

\* A wrong version: only the active key opens.
SlipOpens(ring, envelope, place) ==
  WellFormed(ring) /\ envelope.key = ring.active /\ envelope.aad = Aad(place)

Opens(ring, envelope, place) ==
  WellFormed(ring) /\ envelope.key \in DOMAIN ring.keys /\ envelope.aad = Aad(place)
=============================================================================
