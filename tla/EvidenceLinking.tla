--------------------------- MODULE EvidenceLinking ---------------------------
(***************************************************************************)
(* Binding a finding to the text it quotes (services/evidence_linking.py)   *)
(* and the checks of an evidence list before it is encrypted                *)
(* (services/analysis_evidence_encryption.py).                              *)
(*                                                                          *)
(* A snapshot is a sequence of pages [text, blocks]; a block is [id, first, *)
(* last], where id is "" when the stored block has none.  Quotes are taken   *)
(* from the same text, so the match after normalisation adds nothing to the *)
(* exact one.  The caller cuts the quote (Quote in AnalysisPipeline).       *)
(***************************************************************************)
EXTENDS Integers, Sequences, FiniteSets, SequencesExt

NoOffset == -1

-----------------------------------------------------------------------------
(* Where a quote stands in a page.                                         *)

StandsAt(text, quote, i) == SubSeq(text, i + 1, i + Len(quote)) = quote

Places(text, quote) == {i \in 0 .. Len(text) - Len(quote) : StandsAt(text, quote, i)}

\* Matches that do not overlap are counted.
QuoteMatch(text, quote) ==
  LET places == Places(text, quote) IN
  IF quote = <<>> THEN "invalid"
  ELSE IF places = {} THEN "no_match"
  ELSE IF \E i, j \in places : j >= i + Len(quote) THEN "ambiguous_match"
  ELSE "exact_match"

QuoteStart(text, quote) == CHOOSE i \in Places(text, quote) : \A j \in Places(text, quote) : i <= j

\* Blocks that can be named: those with an id.
BlockIds(blocks) == {blocks[i].id : i \in DOMAIN blocks} \ {""}

Overlapping(blocks, start, end) ==
  {blocks[i].id : i \in {j \in DOMAIN blocks : blocks[j].id # "" /\ blocks[j].first < end
                                                 /\ start < blocks[j].last}}

-----------------------------------------------------------------------------
(* Candidates and their validation.                                        *)

\* The candidate of page p, if the quote is on it; an ambiguous one has no place.
Candidate(clause, quote, page, p) ==
  LET status == QuoteMatch(page.text, quote)
      start == QuoteStart(page.text, quote)
      here == Overlapping(page.blocks, start, start + Len(quote)) IN
  CASE status = "exact_match" ->
         <<[id |-> 0, page |-> p, clause |-> clause.reference, quote |-> quote,
            start |-> start, end |-> start + Len(quote),
            blocks |-> IF here # {} THEN here ELSE clause.blocks \cap BlockIds(page.blocks),
            status |-> status]>>
    [] status = "ambiguous_match" ->
         <<[id |-> 0, page |-> p, clause |-> clause.reference, quote |-> quote,
            start |-> 0, end |-> 0, blocks |-> {}, status |-> "evidence_ambiguous"]>>
    [] OTHER -> <<>>

\* They are numbered as they are found.
Candidates(clause, quote, snapshot) ==
  LET found == FlattenSeq([p \in 1 .. Len(snapshot) |-> Candidate(clause, quote, snapshot[p], p)]) IN
  [i \in 1 .. Len(found) |-> [found[i] EXCEPT !.id = i]]

\* The first check that a candidate fails, "" when it passes all.
ReferenceError(e, clause, snapshot) ==
  LET page == snapshot[e.page] IN
  CASE e.clause # clause.reference -> "evidence_clause_not_found"
    [] e.page \notin DOMAIN snapshot -> "evidence_page_not_found"
    [] e.start < 0 \/ e.end <= e.start \/ e.end > Len(page.text) -> "evidence_offset_invalid"
    [] ~StandsAt(page.text, e.quote, e.start) /\ QuoteMatch(page.text, e.quote) # "exact_match" ->
         "evidence_text_mismatch"
    [] e.blocks = {} \/ ~(e.blocks \subseteq BlockIds(page.blocks)) -> "evidence_block_not_found"
    [] clause.start # NoOffset /\ ~(clause.start <= e.start /\ e.end <= clause.end) ->
         "evidence_clause_not_found"
    [] OTHER -> ""

MaxEvidence == 10

\* Evidence of the same place is kept once.
Distinct(evidence) ==
  {e \in Range(evidence) : \A j \in 1 .. e.id - 1 :
     <<evidence[j].page, evidence[j].start, evidence[j].end>> # <<e.page, e.start, e.end>>}

\* The evidence of a clause, or the error that fails the analysis.
Bind(clause, quote, snapshot) ==
  LET candidates == Candidates(clause, quote, snapshot)
      list == SubSeq(candidates, 1, IF Len(candidates) < MaxEvidence THEN Len(candidates) ELSE MaxEvidence)
      bad == {i \in DOMAIN list : ReferenceError(list[i], clause, snapshot) # ""} IN
  CASE snapshot = <<>> ->
         [error |-> "", items |-> {[id |-> 1, page |-> 1, clause |-> clause.reference, quote |-> quote,
                                   start |-> 0, end |-> 0, blocks |-> {},
                                   status |-> "not_available"]}]
    [] snapshot # <<>> /\ quote = <<>> -> [error |-> "evidence_reference_invalid", items |-> {}]
    [] snapshot # <<>> /\ quote # <<>> /\ candidates = <<>> ->
         [error |-> "evidence_missing", items |-> {}]
    [] OTHER ->
         IF bad # {}
         THEN [error |-> ReferenceError(list[CHOOSE i \in bad : \A j \in bad : i <= j], clause, snapshot),
               items |-> {}]
         ELSE [error |-> "", items |-> Distinct(list)]

\* What the encryption accepts: a quote, offsets and blocks unless no snapshot
\* was there, and the offsets of the clause when there was one.
Sealable(e, clause) ==
  /\ e.quote # <<>>
  /\ IF e.status = "not_available"
     THEN e.start = 0 /\ e.end = 0
     ELSE /\ 0 <= e.start /\ e.start < e.end
          /\ e.blocks # {}
          /\ 0 <= clause.start /\ clause.start <= clause.end
=============================================================================
