-------------------------- MODULE ExtractionIntake --------------------------
(***************************************************************************)
(* POST /extractions and POST /extractions/images (api/extractions.py): an  *)
(* original is stored, its text is extracted page by page, the original is  *)
(* removed, and only then the extraction is inserted.                       *)
(*                                                                          *)
(* The handlers are coroutines that call blocking code: within a process a  *)
(* request is only interrupted where it awaits the next chunk of an upload. *)
(* Two processes share the temporary root while one replaces the other.     *)
(* Texts are abstracted to whether a page has any, and the pages of an       *)
(* extraction to the set of the kinds of pages it has.                       *)
(***************************************************************************)
EXTENDS TempStorage

CONSTANT MaxPages  \* bound on the pages of a PDF and on the images of a request

\* How a request ends; lost with its process, unhandled with an exception that the
\* handler does not name.
Answers == {"created", "error", "cleanup_failed", "unhandled", "lost"}

ASSUME PagesAssumption ==
  MaxPages \in Nat \ {0} /\ None \notin Answers

VARIABLES
  req,     \* request -> state of its handler
  row      \* request -> the extraction it inserted, None before

vars == <<storageVars, req, row>>

Classes == {"direct_usable", "ocr_required", "blank_candidate"}

Page == [review : BOOLEAN, failed : BOOLEAN, text : BOOLEAN, method : {"direct", "ocr"}]

\* Where a handler is: an await (upload), a blocking call, the end.
Blocking == {"mark", "lease", "extract", "page", "prepare", "ocr", "limits", "cleanup", "insert"}
Steps == {"new", "upload", "end"} \cup Blocking

Handler ==
  [at : Steps, by : Procs \cup {None}, kind : {"pdf", "image"}, late : BOOLEAN,
   files : 0 .. MaxPages, todo : 0 .. MaxPages, pages : SUBSET Page,
   error : BOOLEAN, answer : {None} \cup Answers]

NewHandler ==
  [at |-> "new", by |-> None, kind |-> "pdf", late |-> FALSE, files |-> 0, todo |-> 0, pages |-> {},
   error |-> FALSE, answer |-> None]

Row == [pages : SUBSET Page, review : BOOLEAN, blocked : BOOLEAN, canConfirm : BOOLEAN]

\* State of the right shape.
TypeOK ==
  /\ StorageTypeOK
  /\ req \in [Requests -> Handler]
  /\ row \in [Requests -> Row \cup {None}]

Init ==
  /\ StorageInit
  /\ req = [r \in Requests |-> NewHandler]
  /\ row = [r \in Requests |-> None]

-----------------------------------------------------------------------------
(* Control of one handler.                                                 *)

\* No other request holds the event loop of process p.
LoopIsFree(r, p) == \A q \in Requests \ {r} : req[q].by = p => req[q].at \notin Blocking

Runs(r, at) == req[r].at = at /\ LoopIsFree(r, req[r].by)

Goto(r, at) == req' = [req EXCEPT ![r].at = at]

\* An exception that the handler names and keeps as pending_error: cleanup comes first.
Fails(r) == req' = [req EXCEPT ![r].at = "cleanup", ![r].error = TRUE]

\* A handler ends with an answer.
Answer(r, answer) ==
  req' = [req EXCEPT ![r] = [NewHandler EXCEPT !.at = "end", !.answer = answer]]

\* A new request to p; a PDF is one file, the images are one file each.  When
\* mkdtemp, or what follows it before the marker, fails, nothing is cleaned up.
Begin(r, p, kind, files) ==
  /\ req[r].at = "new" /\ proc[p] = "serving" /\ LoopIsFree(r, p)
  /\ kind = "pdf" => files = 1
  /\ \/ /\ MakeDirectory(r)
        /\ req' = [req EXCEPT ![r] = [NewHandler EXCEPT !.at = "mark", !.by = p,
                                        !.kind = kind, !.files = files]]
     \/ /\ MakeDirectory(r) \/ UNCHANGED dir
        /\ Answer(r, "error")
  /\ UNCHANGED <<proc, sweep, torn, row>>

\* A wrong version: the upload starts before the marker is written.
SlipMark(r) ==
  /\ Runs(r, "mark")
  /\ dir[r].exists
  /\ dir' = [dir EXCEPT ![r].original = TRUE]
  /\ Goto(r, "upload")
  /\ UNCHANGED <<proc, sweep, torn, row>>

\* The marker of a new directory; when it cannot be written the directory is
\* removed again, and only a failure of that is told apart.
Mark(r) ==
  /\ Runs(r, "mark")
  /\ \/ WriteMarker(r) /\ Goto(r, "upload") /\ UNCHANGED torn
     \/ CleanupRemoves(r) /\ Answer(r, "error") /\ UNCHANGED sweep
     \/ (CleanupFails(r) \/ CleanupRefused(r)) /\ Answer(r, "cleanup_failed") /\ UNCHANGED sweep
  /\ UNCHANGED <<proc, row>>

\* The upload is copied to a file in chunks.  It may be too large or empty: the
\* part written stays until the cleanup.
Upload(r) ==
  /\ Runs(r, "upload")
  /\ IF dir[r].exists
     THEN /\ dir' = [dir EXCEPT ![r].original = TRUE]
          /\ Goto(r, "lease") \/ Fails(r)
     ELSE UNCHANGED dir /\ Fails(r)
  /\ UNCHANGED <<proc, sweep, torn, row>>

\* The lease is renewed after each file, then the next file is read.
Lease(r) ==
  /\ Runs(r, "lease")
  /\ \/ /\ CanRefresh(r) /\ WriteMarker(r)
        /\ req' = [req EXCEPT ![r].files = @ - 1,
                              ![r].at = IF req[r].files > 1 THEN "upload"
                                        ELSE IF req[r].kind = "pdf" THEN "extract" ELSE "prepare"]
     \/ Fails(r) /\ UNCHANGED <<dir, sweep>>
  /\ UNCHANGED <<proc, torn, row>>

-----------------------------------------------------------------------------
(* PDF: text layer, then rendering and OCR of the pages that need it.      *)

\* The text layer of each page; the quality of each is chosen when it is
\* processed.
ExtractText(r) ==
  /\ Runs(r, "extract")
  /\ \/ /\ dir[r].original
        /\ \E count \in 1 .. MaxPages :
             req' = [req EXCEPT ![r].at = "page", ![r].todo = count]
     \/ Fails(r)
  /\ UNCHANGED <<dir, proc, sweep, torn, row>>

\* A wrong version: a page that failed is not sent to review.
SlipPageOutcomes(class) ==
  IF class = "direct_usable"
  THEN {[review |-> FALSE, failed |-> FALSE, text |-> TRUE, method |-> "direct"]}
  ELSE {[review |-> TRUE, failed |-> FALSE, text |-> TRUE, method |-> "ocr"],
        [review |-> FALSE, failed |-> TRUE, text |-> class = "ocr_required", method |-> "direct"]}

\* What a page can become.  A page whose rendering or OCR failed keeps the poor
\* text of its text layer, if it has one.
PageOutcomes(class) ==
  IF class = "direct_usable"
  THEN {[review |-> FALSE, failed |-> FALSE, text |-> TRUE, method |-> "direct"]}
  ELSE {[review |-> TRUE, failed |-> FALSE, text |-> TRUE, method |-> "ocr"],
        [review |-> TRUE, failed |-> TRUE, text |-> class = "ocr_required", method |-> "direct"]}

Processed(r, page) ==
  req' = [req EXCEPT ![r].pages = @ \cup {page}, ![r].todo = @ - 1,
                     ![r].at = IF req[r].todo = 1 THEN "limits" ELSE "page"]

\* The next page, with a renewal of the lease before it is rendered.
ProcessPage(r) ==
  /\ Runs(r, "page")
  /\ \/ /\ \E page \in PageOutcomes("direct_usable") : Processed(r, page)
        /\ UNCHANGED <<dir, sweep>>
     \/ /\ CanRefresh(r) /\ WriteMarker(r)
        /\ \E class \in Classes \ {"direct_usable"} :
             \E page \in PageOutcomes(class) : Processed(r, page)
     \/ Fails(r) /\ UNCHANGED <<dir, sweep>>
  /\ UNCHANGED <<proc, torn, row>>

\* Pages and characters against the configured limits, and whether there is
\* anything usable.
CheckLimits(r) ==
  /\ Runs(r, "limits")
  /\ \/ /\ \E page \in req[r].pages : page.text \/ page.failed
        /\ Goto(r, "cleanup")
     \/ Fails(r)
  /\ UNCHANGED <<dir, proc, sweep, torn, row>>

-----------------------------------------------------------------------------
(* Images: all are prepared, then all are recognised.                      *)

\* Signature, decoder, size and metadata checks; a normalised copy is written
\* next to the original.
PrepareImages(r) ==
  /\ Runs(r, "prepare")
  /\ \/ dir[r].original /\ Goto(r, "ocr")
     \/ Fails(r)
  /\ UNCHANGED <<dir, proc, sweep, torn, row>>

ImagePage == [review |-> TRUE, failed |-> FALSE, text |-> TRUE, method |-> "ocr"]

\* One renewal for all images.  An image that cannot be recognised, times out or
\* has an invalid result fails the request.
ExtractImages(r) ==
  /\ Runs(r, "ocr")
  /\ \/ /\ CanRefresh(r) /\ WriteMarker(r)
        /\ dir[r].original
        /\ req' = [req EXCEPT ![r].at = "cleanup",
                              ![r].pages = {ImagePage}]
     \/ CanRefresh(r) /\ WriteMarker(r) /\ Fails(r)
     \/ Fails(r) /\ UNCHANGED <<dir, sweep>>
  /\ UNCHANGED <<proc, torn, row>>

-----------------------------------------------------------------------------
(* Cleanup, then the rows.                                                 *)

\* Between the marker and the cleanup: what has a stored file, and what may be storing one.
Using(r) == req[r].at \in {"upload", "lease", "extract", "page", "prepare", "ocr", "limits"}
Stored(r) == req[r].at \in {"lease", "extract", "page", "prepare", "ocr", "limits"}

\* An exception of a type that the handler does not name ends it at once: nothing is
\* cleaned up, and what was stored stays until a sweep.
Escapes(r) ==
  /\ Using(r) /\ LoopIsFree(r, req[r].by)
  /\ \/ UNCHANGED dir
     \/ req[r].at = "upload" /\ dir[r].exists /\ dir' = [dir EXCEPT ![r].original = TRUE]
  /\ Answer(r, "unhandled")
  /\ UNCHANGED <<proc, sweep, torn, row>>

\* A wrong version: a cleanup that fails is logged, and the handler goes on.
SlipCleanup(r) ==
  /\ Runs(r, "cleanup")
  /\ CleanupRemoves(r) \/ CleanupFails(r) \/ CleanupRefused(r)
  /\ IF req[r].error THEN Answer(r, "error") ELSE Goto(r, "insert")
  /\ UNCHANGED <<proc, sweep, row>>

\* The answer is the pending error, or the handler goes on to insert.
Cleanup(r) ==
  /\ Runs(r, "cleanup")
  /\ \/ CleanupRemoves(r) /\ (IF req[r].error THEN Answer(r, "error") ELSE Goto(r, "insert"))
     \/ (CleanupFails(r) \/ CleanupRefused(r)) /\ Answer(r, "cleanup_failed")
  /\ UNCHANGED <<proc, sweep, row>>

Extraction(pages) ==
  LET review == \E page \in pages : page.review
      failed == \E page \in pages : page.failed IN
  [pages |-> pages, review |-> review, blocked |-> review \/ failed,
   canConfirm |-> ~failed /\ ~review]

\* The extraction and its pages in one commit; an error before it leaves nothing.
Insert(r) ==
  /\ Runs(r, "insert")
  /\ \/ row' = [row EXCEPT ![r] = Extraction(req[r].pages)] /\ Answer(r, "created")
     \/ UNCHANGED row /\ Answer(r, "error")
  /\ UNCHANGED <<dir, proc, sweep, torn>>

-----------------------------------------------------------------------------

\* The process dies with all its requests.
Crash(p) ==
  /\ StorageCrash(p, {r \in Requests : \/ r = sweep[p].target
                                       \/ req[r].by = p /\ req[r].at \in {"mark", "cleanup"}})
  /\ req' = [r \in Requests |->
               IF req[r].by = p THEN [NewHandler EXCEPT !.at = "end", !.answer = "lost"]
                                ELSE req[r]]
  /\ UNCHANGED row

\* A lease runs out.  `late` remembers that it did while the handler was running:
\* the handler waited too long between two renewals.
Expire(r) ==
  /\ ExpireLease(r)
  /\ req' = [req EXCEPT ![r].late = req[r].by # None]
  /\ UNCHANGED row

HandlerStep(r) ==
  \/ \E p \in Procs, kind \in {"pdf", "image"}, files \in 1 .. MaxPages : Begin(r, p, kind, files)
  \/ Mark(r) \/ Upload(r) \/ Lease(r)
  \/ ExtractText(r) \/ ProcessPage(r) \/ CheckLimits(r)
  \/ PrepareImages(r) \/ ExtractImages(r)
  \/ Cleanup(r) \/ Escapes(r) \/ Insert(r)

Next ==
  \/ \E r \in Requests : HandlerStep(r) \/ Expire(r)
  \/ \E p \in Procs : SweepStep(p) /\ UNCHANGED <<req, row>>
  \/ \E p \in Procs : Crash(p)

Spec == Init /\ [][Next]_vars

-----------------------------------------------------------------------------
(* Properties.                                                             *)

\* A request that has renewed its lease within the TTL so far loses neither its
\* directory, marker nor original to a sweep, however the sweep overlaps with
\* the renewals (_marker_is_expired, cleanup_request_directory).
LiveDirectoryIsKept == \A r \in Requests : ~req[r].late =>
  /\ Using(r) => dir[r].exists /\ dir[r].marker = "fresh"
  /\ Stored(r) => dir[r].original

\* An answer that the handler gives means that the original is gone, unless it says that
\* the cleanup failed; an extraction is only there once the whole directory is
\* (create_extraction: cleanup_request_directory before db.add).
NothingIsKept == \A r \in Requests :
  /\ row[r] # None => ~dir[r].exists
  /\ req[r].answer \in {"created", "error"} => ~dir[r].original

\* Every original on disk can be recognised by a later sweep, whenever its
\* process died, unless a removal of its directory stopped half way: without
\* marker a directory is skipped for ever (create_request_directory, _sweep).
EveryOriginalIsMarked == \A r \in Requests :
  dir[r].original /\ dir[r].marker = "none" => r \in torn

\* What the review relies on: a page that is exempt from review has usable text
\* and did not fail, and an extraction with a failed page is blocked and cannot
\* be confirmed (_process_pdf_pages, create_extraction).
RowIsReviewable == \A r \in Requests : row[r] # None =>
  \A page \in row[r].pages :
    /\ ~page.review => page.text /\ ~page.failed
    /\ page.failed => row[r].blocked
    /\ row[r].canConfirm => ~page.review

\* A start-up sweep leaves no directory that was expired when it began without
\* counting it as failed or unsafe, which is what raises the operator's event.
SweepReports == [][\A p \in Procs :
  proc[p] = "sweeping" /\ proc'[p] = "serving" =>
    \A r \in sweep[p].stale : dir[r].exists => r \in sweep[p].reported]_vars
=============================================================================
