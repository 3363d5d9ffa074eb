-------------------------- MODULE ExtractionReview --------------------------
(***************************************************************************)
(* The review of one extraction: users look at the recognised pages, send  *)
(* a reviewed text per page (PATCH), confirm the whole (POST) and have the *)
(* confirmed text analysed.  Versions guard against stale writers, but the *)
(* handlers compare them in Python: each request reads the rows, checks    *)
(* and computes on its copy, and writes the JSON columns back whole.       *)
(*                                                                         *)
(* A request is two steps, its read and its commit.  Serial = TRUE handles *)
(* one request at a time; Serial = FALSE is the deployed thread pool.      *)
(* In both cases several users work from what they were shown earlier.     *)
(***************************************************************************)
EXTENDS Naturals, FiniteSets

CONSTANTS
  Pages,       \* pages of the extraction
  Required,    \* pages with requires_user_review
  Failed,      \* pages whose extraction failed
  Texts,       \* page texts
  Original,    \* the recognised text of every page
  Sessions,    \* users' sessions, each with one request at a time
  Serial,      \* TRUE: requests do not overlap
  MaxVersion,  \* bound on review_version
  None         \* no snapshot, no document, nothing seen

ASSUME ReviewAssumption ==
  /\ IsFiniteSet(Pages) /\ Required \subseteq Pages /\ Failed \subseteq Pages
  /\ Original \in Texts /\ None \notin Texts
  /\ Serial \in BOOLEAN /\ MaxVersion \in Nat

VARIABLES
  status,     \* Extraction.status
  meta,       \* Extraction.extra_data
  page,       \* ExtractionPage.extra_data of each page
  document,   \* text of the clauses of the document made from the extraction
  jobs,       \* analysis jobs: revision and text they were created with
  session,    \* what a client was shown and what its request has read
  submitted   \* history: the texts users submitted for a page

vars == <<status, meta, page, document, jobs, session, submitted>>

-----------------------------------------------------------------------------

PageStates == {"not_required", "pending", "reviewed", "edited", "confirmed"}
Reviews == {"not_required", "pending", "partially_reviewed", "ready_to_confirm", "confirmed"}

Page == [status : PageStates, version : Nat, text : Texts]
Snapshot == [Pages -> Texts]
Meta == [version : Nat, review : Reviews, canConfirm : BOOLEAN,
         snapshot : Snapshot \cup {None}, snapVersion : Nat]

\* A copy of the rows: what GET .../review shows, and what a request loads.
Copy == [status : {"review_required", "confirmed"}, meta : Meta, page : [Pages -> Page]]
Now == [status |-> status, meta |-> meta, page |-> page]

Session == [pc : {"idle", "patching", "confirming", "analysing"},
            seen : Copy \cup {None}, base : Copy \cup {None},
            page : Pages \cup {None}, text : Texts \cup {None},
            hadDocument : BOOLEAN]

ASSUME NoneAssumption == None \notin Copy \cup Snapshot

TypeOK ==
  /\ status \in {"review_required", "confirmed"}
  /\ meta \in Meta
  /\ page \in [Pages -> Page]
  /\ document \in Snapshot \cup {None}
  /\ jobs \subseteq [revision : Nat, text : Snapshot]
  /\ session \in [Sessions -> Session]
  /\ \A s \in Sessions :
       /\ session[s].pc = "patching" => session[s].page \in Required /\ session[s].text \in Texts
       /\ session[s].pc # "idle" => session[s].base # None /\ session[s].seen # None
  /\ submitted \subseteq Required \X Texts

-----------------------------------------------------------------------------
(* What the handlers compute.                                              *)

Reviewed(pages) == {p \in Required : pages[p].status \in {"reviewed", "edited"}}

\* _build_review_summary
Summary(st, pages) ==
  CASE st = "confirmed"            -> "confirmed"
    [] st # "confirmed" /\ Required = {} -> "not_required"
    [] st # "confirmed" /\ Required # {} ->
         IF Reviewed(pages) = {} THEN "pending"
         ELSE IF Reviewed(pages) # Required THEN "partially_reviewed"
         ELSE "ready_to_confirm"

\* _build_can_confirm
CanConfirm(st, pages) ==
  /\ Failed = {}
  /\ \/ Required = {}
     \/ /\ Reviewed(pages) = Required
        /\ Summary(st, pages) \notin {"pending", "partially_reviewed"}

\* One reviewed page is enough.
SlipReadyOnePage(pages) ==
  Pages # {} /\ Failed = {} /\ (Required # {} => Reviewed(pages) # {})

\* The conditions of _build_confirmation_snapshot.
Ready(pages) == Pages # {} /\ Failed = {} /\ Reviewed(pages) = Required

\* The recognised text is confirmed in place of the edit.
SlipFinalText(pg) == Original

FinalText(pg) == IF pg.status = "edited" THEN pg.text ELSE Original

\* The page is given a state of the extraction.
SlipPageAfter(pg, text) ==
  [status |-> IF text # Original THEN "edited" ELSE "ready_to_confirm",
   version |-> pg.version + 1, text |-> text]

PageAfter(pg, text) ==
  [status |-> IF text # Original THEN "edited" ELSE "reviewed",
   version |-> pg.version + 1, text |-> text]

\* The summary is computed before the page is replaced.
SlipMetaStaleSummary(b, p, text) ==
  [b.meta EXCEPT !.version = b.meta.version + 1,
                 !.review = Summary(b.status, b.page),
                 !.canConfirm = CanConfirm(b.status, b.page)]

\* extra_data after a patch of page p, computed on the copy b.
MetaAfterPatch(b, p, text) ==
  LET pages == [b.page EXCEPT ![p] = PageAfter(b.page[p], text)] IN
  [b.meta EXCEPT !.version = b.meta.version + 1,
                 !.review = Summary(b.status, pages),
                 !.canConfirm = CanConfirm(b.status, pages)]

\* extra_data after a confirmation, computed on the copy b.
MetaAfterConfirm(b) ==
  [version |-> b.meta.version + 1, review |-> "confirmed", canConfirm |-> FALSE,
   snapshot |-> [p \in Pages |-> FinalText(b.page[p])],
   snapVersion |-> b.meta.snapVersion + 1]

-----------------------------------------------------------------------------

Idle(s) == session[s].pc = "idle" /\ (Serial => \A o \in Sessions : session[o].pc = "idle")

\* The request ends; the client keeps what it was shown.
Done(s) ==
  session' = [session EXCEPT ![s] =
    [pc |-> "idle", seen |-> session[s].seen, base |-> None,
     page |-> None, text |-> None, hadDocument |-> FALSE]]

\* GET .../review
Open(s) ==
  /\ Idle(s)
  /\ session' = [session EXCEPT ![s] = [@ EXCEPT !.seen = Now]]
  /\ UNCHANGED <<status, meta, page, document, jobs, submitted>>

\* PATCH does not compare the page's version.
SlipPatchAnyVersion(s, p, text) ==
  /\ Idle(s) /\ session[s].seen # None
  /\ status # "confirmed" /\ Required # {}
  /\ p \in Required /\ p \notin Failed
  /\ page[p].status # "confirmed" /\ meta.version < MaxVersion
  /\ session' = [session EXCEPT ![s] =
       [@ EXCEPT !.pc = "patching", !.base = Now, !.page = p, !.text = text]]
  /\ UNCHANGED <<status, meta, page, document, jobs, submitted>>

\* PATCH .../pages/{p}/review, up to its commit.  A refused request changes
\* nothing and is no step; so is the patch of a confirmed page.
PatchRead(s, p, text) ==
  /\ Idle(s) /\ session[s].seen # None
  /\ status # "confirmed" /\ Required # {}
  /\ p \in Required /\ p \notin Failed
  /\ session[s].seen.page[p].version = page[p].version
  /\ page[p].status # "confirmed" /\ meta.version < MaxVersion
  /\ session' = [session EXCEPT ![s] =
       [@ EXCEPT !.pc = "patching", !.base = Now, !.page = p, !.text = text]]
  /\ UNCHANGED <<status, meta, page, document, jobs, submitted>>

\* The commit: the page's JSON and the extraction's JSON, but not its status.
PatchWrite(s) ==
  LET b == session[s].base
      p == session[s].page
      text == session[s].text
  IN
  /\ session[s].pc = "patching"
  /\ page' = [page EXCEPT ![p] = PageAfter(b.page[p], text)]
  /\ meta' = MetaAfterPatch(b, p, text)
  /\ submitted' = submitted \cup {<<p, text>>}
  /\ Done(s)
  /\ UNCHANGED <<status, document, jobs>>

\* The confirmation does not compare the version.
SlipConfirmAnyVersion(s) ==
  /\ Idle(s) /\ session[s].seen # None
  /\ status # "confirmed" \/ meta.snapshot = None
  /\ Ready(page) /\ meta.version < MaxVersion
  /\ session' = [session EXCEPT ![s] = [@ EXCEPT !.pc = "confirming", !.base = Now]]
  /\ UNCHANGED <<status, meta, page, document, jobs, submitted>>

\* POST .../confirmation, up to its commit.  With a stored snapshot a confirmed
\* extraction is answered from it and nothing changes.
ConfirmRead(s) ==
  /\ Idle(s) /\ session[s].seen # None
  /\ session[s].seen.meta.version = meta.version
  /\ status # "confirmed" \/ meta.snapshot = None
  /\ Ready(page) /\ meta.version < MaxVersion
  /\ session' = [session EXCEPT ![s] = [@ EXCEPT !.pc = "confirming", !.base = Now]]
  /\ UNCHANGED <<status, meta, page, document, jobs, submitted>>

\* The commit: the JSON of every page and of the extraction, and the status.
ConfirmWrite(s) ==
  LET b == session[s].base IN
  /\ session[s].pc = "confirming"
  /\ page' = [p \in Pages |-> [b.page[p] EXCEPT !.status = "confirmed",
                                                !.version = b.page[p].version + 1]]
  /\ meta' = MetaAfterConfirm(b)
  /\ status' = "confirmed"
  /\ Done(s)
  /\ UNCHANGED <<document, jobs, submitted>>

\* An analysis is created before the confirmation.
SlipAnalyseUnconfirmed(s) ==
  /\ Idle(s) /\ session[s].seen # None
  /\ session' = [session EXCEPT ![s].pc = "analysing",
       ![s].base = [Now EXCEPT !.meta.snapshot = [p \in Pages |-> FinalText(page[p])]],
       ![s].hadDocument = document # None]
  /\ UNCHANGED <<status, meta, page, document, jobs, submitted>>

\* POST /extractions/{id}/analysis-jobs: _get_extraction_ready_for_analysis.
\* The checksum was written together with the snapshot and matches it.
AnalyseRead(s) ==
  /\ Idle(s) /\ session[s].seen # None
  /\ status = "confirmed" /\ meta.review = "confirmed"
  /\ session[s].seen.meta.snapVersion = meta.snapVersion
  /\ meta.snapshot # None
  /\ session' = [session EXCEPT ![s] =
       [@ EXCEPT !.pc = "analysing", !.base = Now, !.hadDocument = (document # None)]]
  /\ UNCHANGED <<status, meta, page, document, jobs, submitted>>

\* The primary key does not stop the second document.
SlipSecondDocument(s) ==
  LET b == session[s].base
      text == IF session[s].hadDocument THEN document ELSE b.meta.snapshot
  IN
  /\ session[s].pc = "analysing"
  /\ document' = text
  /\ jobs' = jobs \cup {[revision |-> b.meta.snapVersion, text |-> text]}
  /\ Done(s)
  /\ UNCHANGED <<status, meta, page, submitted>>

\* The clauses are made from the recognised text.
SlipAnalyseRecognised(s) ==
  LET b == session[s].base
      text == IF session[s].hadDocument THEN document ELSE [p \in Pages |-> Original]
  IN
  /\ session[s].pc = "analysing"
  /\ IF ~ session[s].hadDocument /\ document # None
       THEN UNCHANGED <<document, jobs>>
       ELSE /\ document' = text
            /\ jobs' = jobs \cup {[revision |-> b.meta.snapVersion, text |-> text]}
  /\ Done(s)
  /\ UNCHANGED <<status, meta, page, submitted>>

\* _load_or_create_analysis_document and the enqueueing.  The document has the
\* extraction's id: a second insert fails and is answered 404.  Clauses are only
\* made for a document without any.
AnalyseWrite(s) ==
  LET b == session[s].base
      text == IF session[s].hadDocument THEN document ELSE b.meta.snapshot
  IN
  /\ session[s].pc = "analysing"
  /\ IF ~ session[s].hadDocument /\ document # None
       THEN UNCHANGED <<document, jobs>>
       ELSE /\ document' = text
            /\ jobs' = jobs \cup {[revision |-> b.meta.snapVersion, text |-> text]}
  /\ Done(s)
  /\ UNCHANGED <<status, meta, page, submitted>>

-----------------------------------------------------------------------------

\* What create_extraction and create_image_extraction insert.
Init ==
  /\ status = "review_required"
  /\ meta = [version |-> 1, snapshot |-> None, snapVersion |-> 0,
             review |-> IF Required = {} THEN "confirmed" ELSE "pending",
             canConfirm |-> Required = {} /\ Failed = {}]
  /\ page = [p \in Pages |->
       [status |-> IF p \in Required THEN "pending" ELSE "not_required",
        version |-> 1, text |-> Original]]
  /\ document = None
  /\ jobs = {}
  /\ session = [s \in Sessions |->
       [pc |-> "idle", seen |-> None, base |-> None, page |-> None,
        text |-> None, hadDocument |-> FALSE]]
  /\ submitted = {}

Next ==
  \E s \in Sessions :
    \/ Open(s)
    \/ \E p \in Required, text \in Texts : PatchRead(s, p, text)
    \/ PatchWrite(s) \/ ConfirmRead(s) \/ ConfirmWrite(s)
    \/ AnalyseRead(s) \/ AnalyseWrite(s)

Spec == Init /\ [][Next]_vars

-----------------------------------------------------------------------------
(* What the version checks promise, when requests do not overlap.          *)

\* A confirmation confirms what its user was shown, page by page: the version in
\* If-Match identifies the texts (confirm_extraction).
ConfirmedIsSeen ==
  [][\A s \in Sessions : ConfirmWrite(s) =>
       \A p \in Pages : meta'.snapshot[p] = FinalText(session[s].seen.page[p])]_vars

\* A reviewed text is only replaced by a user who was shown it: no edit is lost
\* to a stale writer (patch_extraction_page_review).
EditIsKept ==
  [][\A p \in Pages : page'[p].text # page[p].text =>
       \E s \in Sessions : PatchWrite(s) /\ session[s].seen.page[p].text = page[p].text]_vars

\* A confirmed extraction keeps its one snapshot, the text of its pages.
ConfirmationIsFinal ==
  status = "confirmed" =>
    /\ meta.review = "confirmed" /\ meta.snapVersion = 1
    /\ meta.snapshot = [p \in Pages |-> page[p].text]

\* The stored summary, which GET /extractions/{id} shows, is the one the pages give.
SummaryMatchesPages ==
  status # "confirmed" /\ Required # {} =>
    /\ meta.review = Summary(status, page)
    /\ meta.canConfirm = CanConfirm(status, page)

\* An accepted request analyses the snapshot it was checked against
\* (_load_or_create_analysis_document keeps the clauses it finds).
AnalysesWhatWasValidated ==
  [][\A s \in Sessions :
       AnalyseWrite(s) /\ (session[s].hadDocument \/ document = None)
         => document' = session[s].base.meta.snapshot]_vars

\* Every analysis is of the text that is confirmed, and says so by its revision.
AnalysedIsConfirmed ==
  \A job \in jobs : job.revision = meta.snapVersion /\ job.text = meta.snapshot

-----------------------------------------------------------------------------
(* What remains true when requests overlap.                                *)

\* No analysis and no snapshot holds a page that had to be reviewed and was not:
\* each of its texts was submitted by a user for that page.
OnlyReviewedText ==
  \A snapshot \in {meta.snapshot, document} \cup {job.text : job \in jobs} :
    snapshot # None => \A p \in Required : <<p, snapshot[p]>> \in submitted

\* The clauses of the document are made once; every analysis is of those clauses,
\* so results of two jobs refer to the same text.
ClausesAreMadeOnce ==
  /\ \A job \in jobs : job.text = document
  /\ document = None => jobs = {}

=============================================================================
